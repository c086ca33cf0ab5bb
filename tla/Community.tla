----------------------------- MODULE Community ------------------------------
(***************************************************************************)
(* Below one news post: its comments with the notifications they cause,    *)
(* its reactions and its poll, and the moderators' queue of reports.  A    *)
(* comment is four transactions: the row, the automatic flag, the reply    *)
(* notification and the mentions.  Reactions and votes look first and      *)
(* write later; a UNIQUE constraint stands behind each.                    *)
(***************************************************************************)
EXTENDS Integers, FiniteSets, FiniteSetsExt

CONSTANTS
    Users,
    Ids,       \* 1..n: ids of comments
    Options,   \* of the poll
    Requests,  \* comments being posted
    Clicks,    \* reactions and votes being made
    Mentions,  \* whom a comment may mention
    NoRow,     \* no comment, no author
    MaxWrites  \* bound: requests of users and moderators

VARIABLES
    comments,  \* comments[i]: author and parent, or NoRow
    post,      \* post[r]: the comment r being posted
    reports,   \* reports[i]: the status of the report on comment i, or NoRow
    notes,     \* notes[<<r, u>>]: notifications to u about the comment of r
    reactions, \* the rows of the reactions: id and user
    votes,     \* poll_votes: user and option
    click,     \* click[k]: the reaction or vote k under way
    writes     \* requests so far

vars == <<comments, post, reports, notes, reactions, votes, click, writes>>
clickVars == <<reactions, votes, click>>
postVars == <<comments, post, reports, notes>>

Idle == [op |-> "none"]
Done == [op |-> "done"]
Rows == {i \in Ids : comments[i] # NoRow}
Numbers == 1..MaxWrites \* ids of reactions

Init ==
    /\ comments = [i \in Ids |-> NoRow]
    /\ post = [r \in Requests |-> Idle]
    /\ reports = [i \in Ids |-> NoRow]
    /\ notes = [n \in Requests \X Users |-> 0]
    /\ reactions = {}
    /\ votes = {}
    /\ click = [k \in Clicks |-> Idle]
    /\ writes = 0

Write == writes < MaxWrites /\ writes' = writes + 1

\* add_comment: the parent is not looked at before the row is committed.
AddComment(r, u, parent, mentions) ==
    LET i == 1 + Max({0} \cup Rows)
    IN /\ Write
       /\ post[r] = Idle
       /\ i \in Ids
       /\ comments' = [comments EXCEPT ![i] = [author |-> u, parent |-> parent]]
       /\ post' = [post EXCEPT ![r] = [op |-> "flag", id |-> i, author |-> u,
                     parent |-> parent, mentions |-> mentions, answered |-> NoRow]]
       /\ UNCHANGED <<reports, notes, clickVars>>

\* _check_auto_flag_rules: one report at most.
Flag(r) ==
    /\ post[r].op = "flag"
    /\ post' = [post EXCEPT ![r].op = "reply"]
    /\ \/ reports' = [reports EXCEPT ![post[r].id] = "pending"]
       \/ UNCHANGED reports
    /\ UNCHANGED <<comments, notes, clickVars, writes>>

Author(i) == IF i \in Rows THEN comments[i].author ELSE NoRow

Told(r, us) == [n \in DOMAIN notes |->
                  IF n[1] = r /\ n[2] \in us THEN notes[n] + 1 ELSE notes[n]]

\* The author of the parent, if it is still there, unless it is oneself.
Reply(r) ==
    /\ post[r].op = "reply"
    /\ notes' = Told(r, {Author(post[r].parent)} \ {NoRow, post[r].author})
    /\ post' = [post EXCEPT ![r].op = "mention", ![r].answered = Author(post[r].parent)]
    /\ UNCHANGED <<comments, reports, clickVars, writes>>

SkippedOnlySelf(r) == {post[r].author} \* mutant

\* Whoever has the reply notification is not told again.
Skipped(r) == {post[r].author, post[r].answered}

Mention(r) ==
    /\ post[r].op = "mention"
    /\ notes' = Told(r, post[r].mentions \ Skipped(r))
    /\ post' = [post EXCEPT ![r] = Done]
    /\ UNCHANGED <<comments, reports, clickVars, writes>>

\* The process dies or a lock times out between two of the transactions.
PostLost(r) ==
    /\ post[r] \notin {Idle, Done}
    /\ post' = [post EXCEPT ![r] = Done]
    /\ UNCHANGED <<comments, reports, notes, clickVars, writes>>

\* delete_comment, by its author or a moderator: the replies stay.
DeleteComment(i) ==
    /\ Write
    /\ i \in Rows
    /\ comments' = [comments EXCEPT ![i] = NoRow]
    /\ UNCHANGED <<post, reports, notes, clickVars>>

\* create_report: the target is not looked up.
CreateReport(i) ==
    /\ Write
    /\ reports' = [reports EXCEPT ![i] = "pending"]
    /\ UNCHANGED <<comments, post, notes, clickVars>>

\* review_report and bulk_review_reports: any status, again and again.
Review(i, status) ==
    /\ Write
    /\ reports[i] # NoRow
    /\ reports' = [reports EXCEPT ![i] = status]
    /\ UNCHANGED <<comments, post, notes, clickVars>>

\* toggle_reaction and react_comment.
ReactRead(k, u) ==
    /\ Write
    /\ click[k] = Idle
    /\ click' = [click EXCEPT ![k] = [op |-> "react", user |-> u,
                                     had |-> {x[1] : x \in {y \in reactions : y[2] = u}}]]
    /\ UNCHANGED <<reactions, votes, postVars>>

\* The DELETE is by id: of a row that is gone it only warns, and the id may be
\* another user's by now.  A second INSERT of one user is refused.
ReactWrite(k) ==
    /\ click[k].op = "react"
    /\ \/ /\ click[k].had # {}
          /\ reactions' = {x \in reactions : x[1] \notin click[k].had}
       \/ /\ click[k].had = {}
          /\ \E x \in reactions : x[2] = click[k].user
          /\ UNCHANGED reactions
       \/ /\ click[k].had = {}
          /\ \A x \in reactions : x[2] # click[k].user
          /\ LET i == 1 + Max({0} \cup {x[1] : x \in reactions})
             IN  /\ i \in Numbers
                 /\ reactions' = reactions \cup {<<i, click[k].user>>}
    /\ click' = [click EXCEPT ![k] = Idle]
    /\ UNCHANGED <<votes, postVars, writes>>

\* vote_poll, of a poll of one choice.
VoteRead(k, u, o) ==
    /\ Write
    /\ click[k] = Idle
    /\ \A x \in Options : <<u, x>> \notin votes
    /\ click' = [click EXCEPT ![k] = [op |-> "vote", user |-> u, option |-> o]]
    /\ UNCHANGED <<reactions, votes, postVars>>

VoteWrite(k) ==
    /\ click[k].op = "vote"
    /\ votes' = votes \cup {<<click[k].user, click[k].option>>}
    /\ click' = [click EXCEPT ![k] = Idle]
    /\ UNCHANGED <<reactions, postVars, writes>>

Next ==
    \/ \E r \in Requests :
           \/ \E u \in Users, parent \in Ids \cup {NoRow}, mentions \in Mentions :
                  AddComment(r, u, parent, mentions)
           \/ Flag(r)
           \/ Reply(r)
           \/ Mention(r)
           \/ PostLost(r)
    \/ \E i \in Ids :
           \/ DeleteComment(i)
           \/ CreateReport(i)
           \/ \E status \in {"reviewed", "dismissed"} : Review(i, status)
    \/ \E k \in Clicks :
           \/ ReactWrite(k)
           \/ VoteWrite(k)
           \/ \E u \in Users : ReactRead(k, u) \/ \E o \in Options : VoteRead(k, u, o)

Posting == [op : {"flag", "reply", "mention"}, id : Ids, author : Users,
            parent : Ids \cup {NoRow}, mentions : Mentions,
            answered : Users \cup {NoRow}]
Click == [op : {"react"}, user : Users, had : SUBSET Numbers]
         \cup [op : {"vote"}, user : Users, option : Options]

TypeOK ==
    /\ comments \in [Ids -> [author : Users, parent : Ids \cup {NoRow}] \cup {NoRow}]
    /\ post \in [Requests -> Posting \cup {Idle, Done}]
    /\ reports \in [Ids -> {"pending", "reviewed", "dismissed", NoRow}]
    /\ notes \in [Requests \X Users -> Nat]
    /\ reactions \subseteq Numbers \X Users
    /\ votes \subseteq Users \X Options
    /\ click \in [Clicks -> Click \cup {Idle}]
    /\ writes \in 0..MaxWrites

\* Nobody is told twice of one comment, nor its author of it, although the
\* parent may be deleted, or its id given away, between the transactions.
ToldOnce ==
    \A r \in Requests, u \in Users :
        /\ notes[<<r, u>>] <= 1
        /\ notes[<<r, u>>] = 1 => post[r] # Idle
        /\ post[r] \notin {Idle, Done} => notes[<<r, post[r].author>>] = 0
=============================================================================
