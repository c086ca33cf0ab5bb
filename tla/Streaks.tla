------------------------------ MODULE Streaks -------------------------------
(***************************************************************************)
(* The connect streak of one player on one server (plugin_connect_streak): *)
(* the plugin reports a connection, the site records the day and, on the   *)
(* first connection of the day, pays a bonus for a streak long enough.     *)
(* The day is committed before the bonus, so a crash in between keeps the  *)
(* day and loses the bonus.                                                *)
(***************************************************************************)
EXTENDS Integers, FiniteSets, FiniteSetsExt

CONSTANTS
    Connects,  \* the connections reported
    MinDays,   \* points_streak_min_days
    MaxDay,    \* bound: calendar days
    MaxShifts  \* bound: changes of the site's timezone

VARIABLES
    today,   \* the site-local date
    shifts,  \* changes of the timezone so far
    linked,  \* whether an account has the player's steam_id
    dates,   \* the player's rows of player_daily_activity
    connect, \* connect[r]: the report r under way
    bonuses  \* bonuses[d]: streak bonuses awarded on day d

vars == <<today, shifts, linked, dates, connect, bonuses>>

Days == 1..MaxDay
Idle == [stage |-> "idle"]
Done == [stage |-> "done"]

Init ==
    /\ today = 1
    /\ shifts = 0
    /\ linked \in BOOLEAN
    /\ dates = {}
    /\ connect = [r \in Connects |-> Idle]
    /\ bonuses = [d \in Days |-> 0]

\* The request fixes its date, then looks the day up.
Connect(r) ==
    /\ connect[r] = Idle
    /\ connect' = [connect EXCEPT ![r] =
                     [stage |-> "looked", day |-> today, new |-> today \notin dates]]
    /\ UNCHANGED <<today, shifts, linked, dates, bonuses>>

\* uq_player_daily_activity refuses a day that another request committed since.
Inserts(r) == connect[r].day \notin dates

Record(r) ==
    /\ connect[r].stage = "looked"
    /\ IF connect[r].new /\ ~Inserts(r)
       THEN /\ connect' = [connect EXCEPT ![r] = Done]
            /\ UNCHANGED dates
       ELSE /\ connect' = [connect EXCEPT ![r].stage = "recorded"]
            /\ dates' = IF connect[r].new THEN dates \cup {connect[r].day} ELSE dates
    /\ UNCHANGED <<today, shifts, linked, bonuses>>

\* The days up to d without a gap.
StreakAt(d) == Max({n \in 0..d : (d - n + 1)..d \subseteq dates})

EarnsEachTime(r) == StreakAt(connect[r].day) >= MinDays \* mutant
Earns(r) == connect[r].new /\ StreakAt(connect[r].day) >= MinDays

Count(r) ==
    /\ connect[r].stage = "recorded"
    /\ connect' = [connect EXCEPT ![r] =
                     IF Earns(r) /\ linked THEN [@ EXCEPT !.stage = "earned"] ELSE Done]
    /\ UNCHANGED <<today, shifts, linked, dates, bonuses>>

Award(r) ==
    /\ connect[r].stage = "earned"
    /\ bonuses' = [bonuses EXCEPT ![connect[r].day] = @ + 1]
    /\ connect' = [connect EXCEPT ![r] = Done]
    /\ UNCHANGED <<today, shifts, linked, dates>>

\* The process dies, a lock times out: what is committed stays.
Lost(r) ==
    /\ connect[r] \notin {Idle, Done}
    /\ connect' = [connect EXCEPT ![r] = Done]
    /\ UNCHANGED <<today, shifts, linked, dates, bonuses>>

Midnight ==
    /\ today < MaxDay
    /\ today' = today + 1
    /\ UNCHANGED <<shifts, linked, dates, connect, bonuses>>

\* An admin changes the timezone Setting: the local date may go back.
ShiftTimezone ==
    /\ shifts < MaxShifts
    /\ today > 1
    /\ today' = today - 1
    /\ shifts' = shifts + 1
    /\ UNCHANGED <<linked, dates, connect, bonuses>>

\* .register and .login link the account.
Link ==
    /\ ~linked
    /\ linked' = TRUE
    /\ UNCHANGED <<today, shifts, dates, connect, bonuses>>

Next ==
    \/ \E r \in Connects : Connect(r) \/ Record(r) \/ Count(r) \/ Award(r) \/ Lost(r)
    \/ Midnight
    \/ ShiftTimezone
    \/ Link

Spec == Init /\ [][Next]_vars

Report == [stage : {"looked", "recorded", "earned"}, day : Days, new : BOOLEAN]

TypeOK ==
    /\ today \in Days
    /\ shifts \in 0..MaxShifts
    /\ linked \in BOOLEAN
    /\ dates \subseteq Days
    /\ connect \in [Connects -> Report \cup {Idle, Done}]
    /\ bonuses \in [Days -> 0..Cardinality(Connects)]

\* The setting is at least 0; a calendar has a first day.
StreaksAssumption == MinDays \in Nat /\ MaxDay \in Nat \ {0}

\* One bonus a day at most, however many connections of the day overlap and
\* even if the local date comes twice, and none without the days it rewards.
BonusIsEarnedOnce ==
    \A d \in Days :
        /\ bonuses[d] <= 1
        /\ bonuses[d] = 1 => (d - MinDays + 1)..d \subseteq dates
=============================================================================
