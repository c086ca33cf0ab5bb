--------------------------- MODULE Announcements ----------------------------
(***************************************************************************)
(* One announcement to the players of a game server: admins write, change, *)
(* delete, test and push it, and the plugin's poll takes it when it is due *)
(* and stamps it before the answer is out.                                 *)
(***************************************************************************)
EXTENDS Integers

CONSTANTS
    Intervals,    \* the interval_minutes of recurring announcements
    Unset,        \* NULL: a one-off announcement, never sent, no expiry, no row
    Idle,         \* no poll is under way
    MaxWrites,    \* bound: what the admins write
    MaxAge        \* bound: the age beyond which ages are not told apart

VARIABLES
    row,      \* the row, or Unset
    poll,     \* the age last_sent_at had when the poll under way found it due
    heard,    \* time since the plugin was last given it
    pushed,   \* an admin asked for it since, or wrote it anew or changed it
    writes    \* writes of the admins so far

vars == <<row, poll, heard, pushed, writes>>

\* sentAge is the age of last_sent_at.
Row == [interval : Intervals \cup {Unset}, enabled : BOOLEAN,
        sentAge : 0..MaxAge \cup {Unset}, expires : 0..MaxAge \cup {Unset}]

Init ==
    /\ row = Unset
    /\ poll = Idle
    /\ heard = MaxAge
    /\ pushed = FALSE
    /\ writes = 0

Write == writes < MaxWrites /\ writes' = writes + 1

\* create_announcement, and test_send_announcement, which expires.
Create(interval, enabled, expires) ==
    /\ Write
    /\ row = Unset
    /\ row' = [interval |-> interval, enabled |-> enabled, sentAge |-> Unset,
               expires |-> expires]
    /\ pushed' = TRUE
    /\ UNCHANGED <<poll, heard>>

\* update_announcement: the columns of the body; when it was sent is kept.
Update(interval, enabled, expires) ==
    /\ Write
    /\ row # Unset
    /\ row' = [row EXCEPT !.interval = interval, !.enabled = enabled,
                           !.expires = expires]
    /\ pushed' = (pushed \/ interval # row.interval)
    /\ UNCHANGED <<poll, heard>>

Delete ==
    /\ Write
    /\ row # Unset
    /\ row' = Unset
    /\ UNCHANGED <<poll, heard, pushed>>

SendNow ==
    /\ Write
    /\ row # Unset
    /\ row' = [row EXCEPT !.sentAge = Unset]
    /\ pushed' = TRUE
    /\ UNCHANGED <<poll, heard>>

\* mutant: a one-off announcement is due again like one of interval zero
DueAgain ==
    /\ row.enabled
    /\ row.expires # 0
    /\ row.sentAge # Unset /\ row.interval # Unset => row.sentAge >= row.interval

\* Enabled, not expired, and never sent or the interval is over.
Due ==
    /\ row.enabled
    /\ row.expires # 0
    /\ row.sentAge # Unset => row.interval # Unset /\ row.sentAge >= row.interval

\* plugin_get_announcements; the plugin polls again when it has its answer.
PollRead ==
    /\ poll = Idle
    /\ row # Unset
    /\ Due
    /\ poll' = row.sentAge
    /\ UNCHANGED <<row, heard, pushed, writes>>

\* The stamp, whatever admins wrote since; the UPDATE of a deleted row raises.
PollStamp ==
    /\ poll # Idle
    /\ poll' = Idle
    /\ IF row = Unset
       THEN UNCHANGED <<row, heard, pushed>>
       ELSE /\ row' = [row EXCEPT !.sentAge = 0]
            /\ heard' = 0
            /\ pushed' = FALSE
    /\ UNCHANGED writes

PollFails ==
    /\ poll # Idle
    /\ poll' = Idle
    /\ UNCHANGED <<row, heard, pushed, writes>>

Older(age) == IF age = Unset \/ age = MaxAge THEN age ELSE age + 1

\* Time passes between polls; a poll does not last.
Tick ==
    /\ poll = Idle
    /\ row' = IF row = Unset THEN row
              ELSE [row EXCEPT !.sentAge = Older(@),
                               !.expires = IF @ \in {0, Unset} THEN @ ELSE @ - 1]
    /\ heard' = Older(heard)
    /\ UNCHANGED <<poll, pushed, writes>>

Next ==
    \/ \E interval \in Intervals \cup {Unset}, enabled \in BOOLEAN, expires \in {2, Unset} :
           Create(interval, enabled, expires) \/ Update(interval, enabled, expires)
    \/ Delete
    \/ SendNow
    \/ PollRead
    \/ PollStamp
    \/ PollFails
    \/ Tick

TypeOK ==
    /\ row \in Row \cup {Unset}
    /\ poll \in 0..MaxAge \cup {Unset, Idle}
    /\ heard \in 0..MaxAge
    /\ pushed \in BOOLEAN
    /\ writes \in 0..MaxWrites

\* The players do not hear an announcement again before its interval is over,
\* a one-off announcement never again, unless an admin pushed or changed it.
NotTooOften ==
    [][PollStamp /\ row # Unset /\ ~pushed =>
         row.interval # Unset /\ heard >= row.interval]_vars
=============================================================================
