------------------------------ MODULE Messages ------------------------------
(***************************************************************************)
(* Direct messages: the row, the notification and the notice on the        *)
(* recipient's live stream, in this order and in two transactions; a       *)
(* broadcast of an admin has one.  The recipient's open tab fetches the    *)
(* conversation again at every notice, and fetching marks it read.  Ids    *)
(* of deleted messages are given again.                                    *)
(***************************************************************************)
EXTENDS Integers, FiniteSetsExt

CONSTANTS
    Users,     \* the recipients; who writes to them is left out
    Ids,       \* 1..n
    Requests,  \* messages being sent
    Fetches,   \* fetches of the tabs under way
    NoRow,     \* no message
    Size,      \* notices a tab's queue holds
    MaxSends   \* bound: messages

VARIABLES
    row,        \* row[i]: the message with id i, or NoRow
    send,       \* send[r]: what r has still to do for its recipients
    registered, \* the users whose tab is connected and whose queue is found
    notices,    \* notices[u]: the length of the tab's queue
    fetch,      \* fetch[f]: a fetch of a tab under way
    shown,      \* shown[u]: the messages the tab shows, by number
    synced,     \* synced[u]: what the tab shows was read since it is registered, was
                \* overtaken by no other answer, and no notice failed since it was read
    sends       \* messages so far: the number of the last one

vars == <<row, send, registered, notices, fetch, shown, synced, sends>>
tabVars == <<registered, notices, fetch, shown, synced>>

Idle == [at |-> "idle"]
Rows == {i \in Ids : row[i] # NoRow}
NextId == 1 + Max({0} \cup Rows)
Conversation(u) == {i \in Rows : row[i].to = u}
NewRow(to) == [number |-> sends + 1, to |-> to, read |-> FALSE]
NumbersOf(ids) == {row[i].number : i \in ids}

Init ==
    /\ row = [i \in Ids |-> NoRow]
    /\ send = [r \in Requests |-> Idle]
    /\ registered = {}
    /\ notices = [u \in Users |-> 0]
    /\ fetch = [f \in Fetches |-> Idle]
    /\ shown = [u \in Users |-> {}]
    /\ synced = [u \in Users |-> FALSE]
    /\ sends = 0

\* What the fetches of u under way have read may not be all by now.
Outdated(u) == [f \in Fetches |-> IF fetch[f].at \in {"commit", "show"} /\ fetch[f].user = u
                                  THEN [fetch[f] EXCEPT !.since = FALSE] ELSE fetch[f]]

BroadcastSilently(r, to) == \* mutant: no dm_broadcast after the commit
    /\ send[r] = Idle
    /\ sends < MaxSends
    /\ NextId \in Ids
    /\ row' = [row EXCEPT ![NextId] = NewRow(to)]
    /\ sends' = sends + 1
    /\ UNCHANGED <<send, tabVars>>

\* send_message up to its first commit.
Send(r, to) ==
    /\ send[r] = Idle
    /\ sends < MaxSends
    /\ NextId \in Ids
    /\ row' = [row EXCEPT ![NextId] = NewRow(to)]
    /\ sends' = sends + 1
    /\ send' = [send EXCEPT ![r] = [at |-> "notify", to |-> to]]
    /\ UNCHANGED tabVars

\* broadcast_message: one commit for the messages and the notifications, here
\* for one recipient.
AdminBroadcast(r, to) ==
    /\ send[r] = Idle
    /\ sends < MaxSends
    /\ NextId \in Ids
    /\ row' = [row EXCEPT ![NextId] = NewRow(to)]
    /\ sends' = sends + 1
    /\ send' = [send EXCEPT ![r] = [at |-> "push", to |-> to]]
    /\ UNCHANGED tabVars

\* The second commit of send_message, of the notification.
Notify(r) ==
    /\ send[r].at = "notify"
    /\ send' = [send EXCEPT ![r].at = "push"]
    /\ UNCHANGED <<row, sends, tabVars>>

\* It fails: the message stays, without a notification and without a notice.
NotifyFails(r) ==
    /\ send[r].at = "notify"
    /\ synced' = [synced EXCEPT ![send[r].to] = FALSE]
    /\ fetch' = Outdated(send[r].to)
    /\ send' = [send EXCEPT ![r] = Idle]
    /\ UNCHANGED <<row, registered, notices, shown, sends>>

\* dm_broadcast: a tab whose queue is full is forgotten.
Push(r) ==
    /\ send[r].at = "push"
    /\ LET u == send[r].to
       IN IF u \in registered /\ notices[u] < Size
          THEN notices' = [notices EXCEPT ![u] = @ + 1] /\ UNCHANGED registered
          ELSE registered' = registered \ {u} /\ UNCHANGED notices
    /\ send' = [send EXCEPT ![r] = Idle]
    /\ UNCHANGED <<row, fetch, shown, synced, sends>>

\* The sender deletes a message; its id may be given again.
Delete(i) ==
    /\ i \in Rows
    /\ row' = [row EXCEPT ![i] = NoRow]
    /\ UNCHANGED <<send, sends, tabVars>>

\* messages_stream: onopen ends the polling and fetches nothing itself.
Connect(u) ==
    /\ u \notin registered
    /\ registered' = registered \cup {u}
    /\ notices' = [notices EXCEPT ![u] = 0]
    /\ synced' = [synced EXCEPT ![u] = FALSE]
    /\ fetch' = Outdated(u)
    /\ UNCHANGED <<row, send, shown, sends>>

\* The connection breaks; the tab polls and connects again.
Disconnect(u) ==
    /\ u \in registered
    /\ registered' = registered \ {u}
    /\ UNCHANGED <<row, send, notices, fetch, shown, synced, sends>>

\* messages_conversation begins: after a notice, by the poll of a tab without
\* a stream, or when the user opens the conversation.
Fetch(u, f) ==
    /\ fetch[f] = Idle
    /\ \E noticed \in {0, 1} :
           /\ noticed <= notices[u]
           /\ notices' = [notices EXCEPT ![u] = @ - noticed]
    /\ fetch' = [fetch EXCEPT ![f] = [at |-> "select", user |-> u]]
    /\ UNCHANGED <<row, send, registered, shown, synced, sends>>

FetchSelect(f) ==
    /\ fetch[f].at = "select"
    /\ LET u == fetch[f].user
       IN fetch' = [fetch EXCEPT ![f] = [at |-> "commit", user |-> u,
                      got |-> NumbersOf(Conversation(u)), since |-> u \in registered,
                      unread |-> {i \in Conversation(u) : ~row[i].read}]]
    /\ UNCHANGED <<row, send, registered, notices, shown, synced, sends>>

\* The rows it found unread are marked read, by their ids.
FetchCommit(f) ==
    /\ fetch[f].at = "commit"
    /\ fetch[f].unread \subseteq Rows
    /\ row' = [i \in Ids |-> IF i \in fetch[f].unread
                             THEN [row[i] EXCEPT !.read = TRUE] ELSE row[i]]
    /\ fetch' = [fetch EXCEPT ![f].at = "show"]
    /\ UNCHANGED <<send, registered, notices, shown, synced, sends>>

\* The UPDATE of a row that is gone, or the lock timeout: the tab ignores it.
FetchFails(f) ==
    /\ fetch[f].at = "commit"
    /\ synced' = [synced EXCEPT ![fetch[f].user] = FALSE]
    /\ fetch' = [Outdated(fetch[f].user) EXCEPT ![f] = Idle]
    /\ UNCHANGED <<row, send, registered, notices, shown, sends>>

\* The answer arrives, and whatever comes last is shown: an answer that was
\* overtaken replaces a newer one.
Show(f) ==
    /\ fetch[f].at = "show"
    /\ LET u == fetch[f].user
       IN /\ shown' = [shown EXCEPT ![u] = fetch[f].got]
          /\ synced' = [synced EXCEPT ![u] = fetch[f].since /\ u \in registered]
          /\ fetch' = [Outdated(u) EXCEPT ![f] = Idle]
    /\ UNCHANGED <<row, send, registered, notices, sends>>

Next ==
    \/ \E r \in Requests :
           \/ \E to \in Users : Send(r, to) \/ AdminBroadcast(r, to)
           \/ Notify(r)
           \/ NotifyFails(r)
           \/ Push(r)
    \/ \E i \in Ids : Delete(i)
    \/ \E u \in Users :
           \/ Connect(u)
           \/ Disconnect(u)
           \/ \E f \in Fetches : Fetch(u, f)
    \/ \E f \in Fetches : FetchSelect(f) \/ FetchCommit(f) \/ FetchFails(f) \/ Show(f)

Message == [number : 1..MaxSends, to : Users, read : BOOLEAN]
Sending == [at : {"notify", "push"}, to : Users]
Fetching ==
    [at : {"select"}, user : Users]
    \cup [at : {"commit", "show"}, user : Users, got : SUBSET (1..MaxSends),
          since : BOOLEAN, unread : SUBSET Ids]

TypeOK ==
    /\ row \in [Ids -> Message \cup {NoRow}]
    /\ send \in [Requests -> Sending \cup {Idle}]
    /\ registered \subseteq Users
    /\ notices \in [Users -> 0..Size]
    /\ fetch \in [Fetches -> Fetching \cup {Idle}]
    /\ shown \in [Users -> SUBSET (1..MaxSends)]
    /\ synced \in [Users -> BOOLEAN]
    /\ sends \in 0..MaxSends

Quiet(u) ==
    /\ notices[u] = 0
    /\ \A r \in Requests : send[r] # Idle => send[r].to # u
    /\ \A f \in Fetches : fetch[f] # Idle => fetch[f].user # u

\* A tab whose stream is connected does not poll and relies on a notice after each
\* commit.  While it shows what it read since then, in order, and nothing is under way
\* for it, that is every message to its user.  Three things leave a tab stale, until
\* the next notice: a message before its first fetch on the new connection, two answers
\* in the wrong order, and a notification that fails after its message is committed.
TabNotStale ==
    \A u \in registered : synced[u] /\ Quiet(u) =>
        NumbersOf(Conversation(u)) \subseteq shown[u]
=============================================================================
