------------------------------ MODULE Restarts ------------------------------
(***************************************************************************)
(* The restarts of one game server (scheduled_restarts): a moment an admin *)
(* or the plugin schedules, and a daily hour from which the plugin's poll  *)
(* of restart-status arms the next moment by itself.  The plugin restarts  *)
(* the server when the moment it last heard of comes, and clears it with   *)
(* cancel-restart, the call an admin cancels with.  An admin's one-off     *)
(* restart between those two calls, or between the poll's SELECT and its   *)
(* UPDATE, is lost: both write restart_at without looking at it again.     *)
(***************************************************************************)
EXTENDS Integers

CONSTANTS
    Hours,       \* hours in a day
    Unset,       \* NULL
    MaxOrders    \* bound: calls of admins and of the plugin's chat command

VARIABLES
    hour,        \* the local hour
    restartAt,   \* hours until restart_at (0 when it has come), or Unset
    dailyTime,   \* daily_restart_time, or Unset
    wish,        \* the daily hour the admins last asked for, or Unset
    plugin,      \* what the plugin is doing
    arming,      \* the daily time its poll has read and arms from, or Unset
    heard,       \* the restart_at the plugin heard of last
    orders       \* calls so far

vars == <<hour, restartAt, dailyTime, wish, plugin, arming, heard,
          orders>>

Day == 0..(Hours - 1)
Moment == 0..Hours

Init ==
    /\ hour = 0
    /\ restartAt = Unset
    /\ dailyTime = Unset
    /\ wish = Unset
    /\ plugin = "up"
    /\ arming = Unset
    /\ heard = Unset
    /\ orders = 0

\* A candidate that is not in the future is tomorrow's.
NextDaily(t) == IF t > hour THEN t - hour ELSE t + Hours - hour

\* GET restart-status answers, or arms the next daily restart first.
PollRead ==
    /\ plugin = "up"
    /\ arming = Unset
    /\ IF restartAt = Unset /\ dailyTime # Unset
       THEN arming' = dailyTime /\ UNCHANGED heard
       ELSE heard' = restartAt /\ UNCHANGED arming
    /\ UNCHANGED <<hour, restartAt, dailyTime, wish, plugin, orders>>

PollArm ==
    /\ arming # Unset
    /\ restartAt' = NextDaily(arming)
    /\ heard' = restartAt'
    /\ arming' = Unset
    /\ UNCHANGED <<hour, dailyTime, wish, plugin, orders>>

\* The writer lock was not to be had in time.
PollFails ==
    /\ arming # Unset
    /\ arming' = Unset
    /\ UNCHANGED <<hour, restartAt, dailyTime, wish, plugin, heard, orders>>

\* The restart: the plugin comes back and clears what it executed.
Execute ==
    /\ plugin = "up"
    /\ arming = Unset
    /\ heard = 0
    /\ plugin' = "restarted"
    /\ heard' = Unset
    /\ UNCHANGED <<hour, restartAt, dailyTime, wish, arming, orders>>

\* mutant: the whole row is cleared
CancelledForGood ==
    /\ restartAt' = Unset
    /\ dailyTime' = Unset

\* _cancel_restart: restart_at goes, daily_restart_time stays.
Cancelled ==
    /\ restartAt' = Unset
    /\ UNCHANGED dailyTime

CleanUp ==
    /\ plugin = "restarted"
    /\ Cancelled
    /\ plugin' = "up"
    /\ UNCHANGED <<hour, wish, arming, heard, orders>>

Order == orders < MaxOrders /\ orders' = orders + 1

\* schedule_restart_admin, plugin_schedule_restart: at least a minute ahead.
Schedule(n) ==
    /\ Order
    /\ restartAt' = n
    /\ UNCHANGED <<hour, dailyTime, wish, plugin, arming, heard>>

Cancel ==
    /\ Order
    /\ Cancelled
    /\ UNCHANGED <<hour, wish, plugin, arming, heard>>

\* The UPDATE writes what was asked for, whatever the row has by then; when the
\* row it read has it already nothing is written, as if the call had come then.
SetDaily(t) ==
    /\ Order
    /\ dailyTime' = t
    /\ wish' = t
    /\ UNCHANGED <<hour, restartAt, plugin, arming, heard>>

ClearDaily ==
    /\ Order
    /\ dailyTime' = Unset
    /\ wish' = Unset
    /\ UNCHANGED <<hour, restartAt, plugin, arming, heard>>

Sooner(m) == IF m \in {Unset, 0} THEN m ELSE m - 1

\* The plugin polls many times an hour, and restarts in the hour it heard of.
Tick ==
    /\ plugin = "up"
    /\ arming = Unset
    /\ heard # 0
    /\ hour' = (hour + 1) % Hours
    /\ restartAt' = Sooner(restartAt)
    /\ heard' = Sooner(heard)
    /\ UNCHANGED <<dailyTime, wish, plugin, arming, orders>>

Next ==
    \/ PollRead
    \/ PollArm
    \/ PollFails
    \/ Execute
    \/ CleanUp
    \/ \E n \in 1..Hours : Schedule(n)
    \/ Cancel
    \/ \E t \in Day : SetDaily(t)
    \/ ClearDaily
    \/ Tick

TypeOK ==
    /\ hour \in Day
    /\ restartAt \in Moment \cup {Unset}
    /\ dailyTime \in Day \cup {Unset}
    /\ wish \in Day \cup {Unset}
    /\ plugin \in {"up", "restarted"}
    /\ arming \in Day \cup {Unset}
    /\ heard \in Moment \cup {Unset}
    /\ orders \in 0..MaxOrders

\* A daily restart that stays set restarts the server again and again: no
\* one-off restart, cancellation or clean-up ends the recurrence.
DailyRecurs == <>[](wish # Unset) => []<>(plugin = "restarted")
=============================================================================
