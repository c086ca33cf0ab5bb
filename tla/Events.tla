------------------------------- MODULE Events -------------------------------
(***************************************************************************)
(* An event: admins create, change and delete it, users join and leave,    *)
(* _scheduler_task moves its status and _event_reminder_task pushes its    *)
(* participants a reminder an hour before the start.  Which events had     *)
(* their reminder is in memory, by id: an event that is postponed after it *)
(* has none for its new start, and SQLite gives the id of a deleted last   *)
(* event to the next one.                                                  *)
(***************************************************************************)
EXTENDS Integers, FiniteSets

CONSTANTS
    Users,
    NoEvent,    \* no row
    Nothing,    \* a request, or a status to write, that is not there
    Limit,      \* max_participants
    Starts,     \* how far ahead starts are set, in units of half a poll interval
    WindowFrom, \* EVENT_REMINDER_WINDOW_MIN_MINUTES, in these units
    WindowTo,   \* EVENT_REMINDER_WINDOW_MAX_MINUTES, in these units
    MaxEdits    \* bound: writes of the admins and restarts

VARIABLES
    event,       \* the row: status, start (time left), participants
    staleStatus, \* the status _scheduler_task has decided to write
    joining,     \* joining[u]: the join of u that found a place
    reminded,    \* whether _reminded_event_ids has the id
    finding,     \* what a poll under way has found: the event as it is, as it was
    gap,         \* time since the last poll that did its work
    edits,       \* writes of the admins and restarts so far
    told,        \* the participants were pushed the reminder of this start
    spent,       \* the id had its reminder for another start, or another event
    blind        \* the polls of this start have been further apart than the window is wide

vars == <<event, staleStatus, joining, reminded, finding, gap, edits, told, spent, blind>>
row == <<event, staleStatus, joining>>
reminder == <<reminded, finding, gap, told, spent, blind>>

Statuses == {"upcoming", "active", "ended", "cancelled"}
Row == [status : Statuses, start : Nat, early : BOOLEAN, who : SUBSET Users]

Over == event.status \in {"ended", "cancelled"}
Width == WindowTo - WindowFrom

Init ==
    /\ event = NoEvent
    /\ staleStatus = Nothing
    /\ joining = {}
    /\ reminded = FALSE
    /\ finding = Nothing
    /\ gap = 0
    /\ edits = 0
    /\ told = FALSE
    /\ spent = FALSE
    /\ blind = FALSE

Edit == edits < MaxEdits /\ edits' = edits + 1

\* There is another start to be reminded of; the id stays in the memory, and
\* what a poll under way has found is the old one.
NewStart ==
    /\ told' = FALSE
    /\ spent' = reminded
    /\ blind' = FALSE
    /\ finding' = IF finding = Nothing THEN Nothing ELSE "as it was"
    /\ UNCHANGED <<reminded, gap>>

Create(start) ==
    /\ Edit
    /\ event = NoEvent
    /\ event' = [status |-> "upcoming", start |-> start,
               early |-> start > WindowTo, who |-> {}]
    /\ NewStart
    /\ UNCHANGED <<staleStatus, joining>>

\* admin_update_event: the start is the body's, the status too if it has one.
Update(start, status) ==
    LET to == IF status = Nothing THEN event.status ELSE status
        kept == start = event.start /\ (Over => to = event.status)
    IN /\ Edit
       /\ event # NoEvent
       /\ event' = [event EXCEPT !.start = start, !.status = to,
                                 !.early = IF kept THEN @ ELSE start > WindowTo]
       /\ IF start = event.start THEN UNCHANGED reminder ELSE NewStart
       /\ UNCHANGED <<staleStatus, joining>>

\* admin_delete_event takes the participants along.
Delete ==
    /\ Edit
    /\ event # NoEvent
    /\ event' = NoEvent
    /\ UNCHANGED <<staleStatus, joining, reminder>>

\* join_event: the checks, and the INSERT after them.
JoinRead(u) ==
    /\ event # NoEvent
    /\ u \notin joining
    /\ ~Over
    /\ u \notin event.who
    /\ Cardinality(event.who) < Limit
    /\ joining' = joining \cup {u}
    /\ UNCHANGED <<event, staleStatus, edits, reminder>>

\* The primary key refuses a second row of one user; the row of an event that
\* is gone is nobody's.
JoinWrite(u) ==
    /\ u \in joining
    /\ joining' = joining \ {u}
    /\ event' = IF event = NoEvent THEN event ELSE [event EXCEPT !.who = @ \cup {u}]
    /\ UNCHANGED <<staleStatus, edits, reminder>>

Leave(u) ==
    /\ event # NoEvent
    /\ u \in event.who
    /\ event' = [event EXCEPT !.who = @ \ {u}]
    /\ UNCHANGED <<staleStatus, joining, edits, reminder>>

\* upcoming becomes active when the start has come, active ended some time on.
Moved ==
    CASE event = NoEvent -> {}
      [] event.status = "upcoming" -> IF event.start = 0 THEN {"active"} ELSE {}
      [] event.status = "active" -> {"ended"}
      [] OTHER -> {}

ScheduleRead ==
    /\ staleStatus = Nothing
    /\ staleStatus' \in Moved
    /\ UNCHANGED <<event, joining, edits, reminder>>

\* The UPDATE does not look at the status again; without a row it raises.
ScheduleWrite ==
    /\ staleStatus # Nothing
    /\ event' = IF event = NoEvent THEN event ELSE [event EXCEPT !.status = staleStatus]
    /\ staleStatus' = Nothing
    /\ UNCHANGED <<joining, edits, reminder>>

\* mutant: the window as wide as the sleep between two polls
InWindowNarrow(start) == start \in WindowFrom..(WindowFrom + 2)

InWindow(start) == start \in WindowFrom..WindowTo

Reminds ==
    /\ event # NoEvent
    /\ ~Over
    /\ InWindow(event.start)
    /\ ~reminded

\* _event_reminder_cycle: the events that are due ...
RemindRead ==
    /\ finding = Nothing
    /\ finding' = IF Reminds THEN "as it is" ELSE Nothing
    /\ gap' = IF Reminds THEN gap ELSE 0
    /\ UNCHANGED <<row, reminded, edits, told, spent, blind>>

\* ... and, once their participants are read, the pushes; who joins later is
\* not reminded.
Remind ==
    /\ finding # Nothing
    /\ finding' = Nothing
    /\ gap' = 0
    /\ reminded' = TRUE
    /\ IF finding = "as it is" THEN told' = TRUE /\ UNCHANGED spent
                               ELSE spent' = TRUE /\ UNCHANGED told
    /\ UNCHANGED <<row, edits, blind>>

\* The loop outlives the exception, and the next poll comes after the sleep.
RemindFails ==
    /\ finding # Nothing
    /\ finding' = Nothing
    /\ UNCHANGED <<row, reminded, gap, edits, told, spent, blind>>

Restart ==
    /\ Edit
    /\ reminded' = FALSE
    /\ finding' = Nothing
    /\ staleStatus' = Nothing
    /\ joining' = {}
    /\ UNCHANGED <<event, gap, told, spent, blind>>

\* Polls may fail, or not come, for any time; a decided status is not long in
\* being written.
Tick ==
    /\ staleStatus = Nothing
    /\ gap' = IF gap > Width THEN gap ELSE gap + 1
    /\ blind' = (blind \/ gap' > Width)
    /\ event' = IF event = NoEvent \/ event.start = 0 THEN event
                ELSE [event EXCEPT !.start = @ - 1]
    /\ UNCHANGED <<staleStatus, joining, reminded, finding, edits, told, spent>>

Next ==
    \/ \E start \in Starts :
           \/ Create(start)
           \/ \E status \in {"upcoming", "cancelled", Nothing} : Update(start, status)
    \/ Delete
    \/ \E u \in Users : JoinRead(u) \/ JoinWrite(u) \/ Leave(u)
    \/ ScheduleRead
    \/ ScheduleWrite
    \/ RemindRead
    \/ Remind
    \/ RemindFails
    \/ Restart
    \/ Tick

TypeOK ==
    /\ event \in Row \cup {NoEvent}
    /\ staleStatus \in {"active", "ended", Nothing}
    /\ joining \subseteq Users
    /\ reminded \in BOOLEAN
    /\ finding \in {"as it is", "as it was", Nothing}
    /\ gap \in 0..(Width + 1)
    /\ edits \in 0..MaxEdits
    /\ told \in BOOLEAN
    /\ spent \in BOOLEAN
    /\ blind \in BOOLEAN

\* "each upcoming/active event whose start_date has just entered the reminder
\* window": a start that was fixed before the window does not pass it without
\* its reminder, although the start may be moved, polls fail and the process
\* restart in between, unless polls have been further apart than the window is
\* wide, or the id had its reminder for another start.
NoEventUnreminded ==
    event # NoEvent =>
        \/ event.start >= WindowFrom
        \/ ~event.early
        \/ Over
        \/ told
        \/ spent
        \/ blind
=============================================================================
