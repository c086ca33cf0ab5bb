----------------------------- MODULE Publishing -----------------------------
(***************************************************************************)
(* The news posts: admins write, schedule, change and delete them, two     *)
(* background tasks publish what is due (_scheduled_publish_task and       *)
(* _scheduler_task), and a weekly digest mails the posts created since the *)
(* last one, every Monday or when an admin asks for it.  Both tasks read   *)
(* the due posts, await, and write what they read, by id; a post that has  *)
(* vanished makes the whole batch fail.  What goes out on the live feed    *)
(* then is the matter of Streams.                                          *)
(***************************************************************************)
EXTENDS Integers, FiniteSets, FiniteSetsExt

CONSTANTS
    Tasks,      \* the two tasks
    NoTemplates, \* the task that leaves templates alone
    Ids,        \* 1..n: ids of news
    NoPost,     \* a row that is not there
    Never,      \* publish_at IS NULL
    Senders,    \* who may be at work on a digest: the weekly task, an admin's call
    MaxEdits    \* bound: what admins do

VARIABLES
    news,      \* news[i]: the post i, or NoPost
    task,      \* task[t]: what task t is doing
    edits,     \* writes of the admins; also the clock of created_at
    cutoff,    \* newsletter_last_sent_at, NoCutoff while there is no row
    digest,    \* digest[d]: what sender d is doing
    mailed,    \* the posts, by created_at, that a digest has had
    twice,     \* those that two digests have had
    early,     \* those in a digest that had taken its time before they were written
    crossed    \* two digests have been at work at one time

vars == <<news, task, edits, cutoff, digest, mailed, twice, early, crossed>>
posts == <<news, task>>
digests == <<cutoff, digest, mailed, twice, early, crossed>>

\* publish_at is "due" once its moment has come, "later" before.
Post == [published : BOOLEAN, at : {"due", "later", Never}, template : BOOLEAN,
         created : 1..MaxEdits]

Asleep == [stage |-> "asleep"]
NoCutoff == -1
Rows == {i \in Ids : news[i] # NoPost}

\* A digest: its time, the cutoff it goes by, and the posts it has read.
Work == [stage : {"started", "read"}, now : 0..MaxEdits, since : NoCutoff..MaxEdits,
         items : SUBSET (1..MaxEdits)]

Init ==
    /\ news = [i \in Ids |-> NoPost]
    /\ task = [t \in Tasks |-> Asleep]
    /\ edits = 0
    /\ cutoff = NoCutoff
    /\ digest = [d \in Senders |-> Asleep]
    /\ mailed = {}
    /\ twice = {}
    /\ early = {}
    /\ crossed = FALSE

\* publish_at <= now
Due(post) == post.at = "due"

Read(t) ==
    LET found == {i \in Rows : /\ ~news[i].published
                               /\ Due(news[i])
                               /\ t = NoTemplates => ~news[i].template}
    IN /\ task[t] = Asleep
       /\ task' = [task EXCEPT ![t] =
                     IF found = {} THEN Asleep ELSE [stage |-> "read", found |-> found]]
       /\ UNCHANGED <<news, edits, digests>>

\* The batch is committed as a whole; an UPDATE of a vanished row raises.
Commits(t) == task[t].found \subseteq Rows

AfterCycleDead == [stage |-> "dead"] \* mutant

\* The loop outlives the exceptions of a cycle.
AfterCycle == Asleep

Publish(t) ==
    /\ task[t] # Asleep
    /\ task[t].stage = "read"
    /\ news' = [i \in Ids |-> IF Commits(t) /\ i \in task[t].found
                             THEN [news[i] EXCEPT !.published = TRUE, !.at = Never]
                             ELSE news[i]]
    /\ task' = [task EXCEPT ![t] = AfterCycle]
    /\ UNCHANGED <<edits, digests>>

\* The writer lock is not to be had in time, or the process restarts.
CycleFails(t) ==
    /\ task[t] # Asleep
    /\ task[t].stage = "read"
    /\ task' = [task EXCEPT ![t] = AfterCycle]
    /\ UNCHANGED <<news, edits, digests>>

Edit == edits < MaxEdits /\ edits' = edits + 1

\* create_news: a publish_at in the future makes it unpublished; one in the
\* past is dropped.  An id is one more than the largest.
Create(published, at, template) ==
    LET i == 1 + Max({0} \cup Rows)
        shown == published /\ at = Never
    IN /\ Edit
       /\ i \in Ids
       /\ news' = [news EXCEPT ![i] =
                     [published |-> shown, at |-> at, template |-> template,
                      created |-> edits + 1]]
       /\ UNCHANGED <<task, digests>>

\* update_news: published and publish_at as far as the body has them ("kept").
Update(i, published, at) ==
    LET shown == published /\ at # "later"
    IN /\ Edit
       /\ i \in Rows
       /\ news' = [news EXCEPT ![i].published = shown,
                               ![i].at = IF at = "kept" THEN @ ELSE at]
       /\ UNCHANGED <<task, digests>>

Delete(i) ==
    /\ Edit
    /\ i \in Rows
    /\ news' = [news EXCEPT ![i] = NoPost]
    /\ UNCHANGED <<task, digests>>

\* A moment comes: a publish_at is in the past now.
Moment(i) ==
    /\ i \in Rows
    /\ news[i].at = "later"
    /\ news' = [news EXCEPT ![i].at = "due"]
    /\ UNCHANGED <<task, edits, digests>>

\* send_newsletter_digest takes the time and reads the cutoff ...
DigestStart(d) ==
    /\ digest[d] = Asleep
    /\ digest' = [digest EXCEPT ![d] = [stage |-> "started", now |-> edits, since |-> cutoff,
                                       items |-> {}]]
    /\ crossed' = (crossed \/ \E q \in Senders : digest[q] # Asleep)
    /\ UNCHANGED <<posts, edits, cutoff, mailed, twice, early>>

AfterFrom(since) == {i \in Rows : news[i].created >= since} \* mutant

\* created_at > since
After(since) == {i \in Rows : news[i].created > since}

\* ... then the posts (the newest 20) ...
DigestRead(d) ==
    LET found == {i \in After(digest[d].since) : news[i].published /\ ~news[i].template}
    IN /\ digest[d] # Asleep
       /\ digest[d].stage = "started"
       /\ digest' = [digest EXCEPT ![d].stage = "read",
                                   ![d].items = {news[i].created : i \in found}]
       /\ UNCHANGED <<posts, edits, cutoff, mailed, twice, early, crossed>>

\* ... and commits the new cutoff before the mails go out, which a restart may
\* prevent.  A second INSERT of the cutoff's row is refused.
DigestSend(d) ==
    LET w == digest[d]
    IN /\ w # Asleep
       /\ w.stage = "read"
       /\ w.since = NoCutoff => cutoff = NoCutoff
       /\ cutoff' = w.now
       /\ \/ /\ mailed' = mailed \cup w.items
             /\ twice' = twice \cup (w.items \cap mailed)
             /\ early' = early \cup {p \in w.items : p > w.now}
          \/ UNCHANGED <<mailed, twice, early>>
       /\ digest' = [digest EXCEPT ![d] = Asleep]
       /\ UNCHANGED <<posts, edits, crossed>>

\* The commit fails, or the process restarts before it.
DigestFails(d) ==
    /\ digest[d] # Asleep
    /\ digest' = [digest EXCEPT ![d] = Asleep]
    /\ UNCHANGED <<posts, edits, cutoff, mailed, twice, early, crossed>>

Next ==
    \/ \E t \in Tasks : Read(t) \/ Publish(t) \/ CycleFails(t)
    \/ \E published, template \in BOOLEAN, at \in {"later", Never} :
           Create(published, at, template)
    \/ \E i \in Ids :
           \/ \E published \in BOOLEAN, at \in {"later", "kept", Never} : Update(i, published, at)
           \/ Delete(i)
           \/ Moment(i)
    \/ \E d \in Senders :
           DigestStart(d) \/ DigestRead(d) \/ DigestSend(d) \/ DigestFails(d)

TypeOK ==
    /\ news \in [Ids -> Post \cup {NoPost}]
    /\ \A t \in Tasks : task[t] = Asleep \/ (task[t].stage = "read" /\ task[t].found \subseteq Ids)
    /\ edits \in 0..MaxEdits
    /\ cutoff \in NoCutoff..MaxEdits
    /\ digest \in [Senders -> Work \cup {Asleep}]
    /\ mailed \subseteq 1..MaxEdits
    /\ twice \subseteq mailed
    /\ early \subseteq mailed
    /\ crossed \in BOOLEAN

\* "a digest of news published since the last digest": as long as no two
\* digests are at work at one time, no post is mailed a second time, although
\* digests fail, the loops publish posts late and ids are given again; but for
\* a post written while a digest that has it was at work.
MailedOnce == crossed \/ twice \subseteq early

\* A scheduled post goes out, unless it is deleted or unscheduled, whatever
\* the batches of the two tasks run into.
ScheduledGoesOut ==
    \A i \in Ids :
        (i \in Rows /\ news[i].at # Never /\ ~news[i].published)
            ~> (i \notin Rows \/ news[i].at = Never \/ news[i].published)
=============================================================================
