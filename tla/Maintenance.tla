---------------------------- MODULE Maintenance -----------------------------
(***************************************************************************)
(* Maintenance mode: a setting that every visit may flip by the schedule,  *)
(* that admins set, import and reschedule, and a flag file that nginx      *)
(* reads, written after the setting's commit by a write that may fail in   *)
(* silence.  A task records the episode in a list of the settings table,   *)
(* on the session of a request that ends.                                  *)
(***************************************************************************)
EXTENDS Integers, Sequences, SequencesExt

CONSTANTS
    Requests,   \* requests under way at a time
    Unset,      \* the empty string: no start, no end
    MaxTime,    \* bound: the clock
    MaxOrders,  \* bound: writes of the admins and restarts
    Keep        \* episodes that are kept; 50 in the code

VARIABLES
    mode,       \* the setting maintenance_mode
    start, end, \* the settings maintenance_start_time and maintenance_end_time
    now,
    flag,       \* whether the flag file exists
    episodes,   \* maintenance_history: the newest first, TRUE while it is open
    request,    \* request[r]: where r is, the mode it sets and who does, the list it read
    orders,
    astray      \* the flag may be wrong: commits that overlapped, an import, a file not written

vars == <<mode, start, end, now, flag, episodes, request, orders, astray>>

Times == 0..MaxTime + 1
Idle == [at |-> "idle", to |-> FALSE, by |-> "visit", list |-> <<>>]

Init ==
    /\ mode = FALSE
    /\ start = Unset
    /\ end = Unset
    /\ now = 0
    /\ flag = FALSE
    /\ episodes = <<>>
    /\ request = [r \in Requests |-> Idle]
    /\ orders = 0
    /\ astray = FALSE

Order == orders < MaxOrders /\ orders' = orders + 1
At(r, stage) == request[r].at = stage
Goes(r, stage) == request' = [request EXCEPT ![r].at = stage]
Ends(r) == request' = [request EXCEPT ![r] = Idle]
Begins(r, to, by) ==
    /\ At(r, "idle")
    /\ request' = [request EXCEPT ![r] = [at |-> "write", to |-> to, by |-> by, list |-> <<>>]]

\* The start is compared on every visit and never cleared.
Opens == start # Unset /\ ~mode /\ start <= now
Closes == end # Unset /\ mode /\ end <= now

\* get_public_settings: one SELECT of all settings decides.
Visit(r) ==
    /\ Opens \/ Closes
    /\ Begins(r, Opens, "visit")
    /\ UNCHANGED <<mode, start, end, now, flag, episodes, orders, astray>>

\* update_setting of maintenance_mode, before its commit: what the row says already
\* is not written to it.
Switch(r, to) ==
    /\ Order
    /\ Begins(r, to, IF to = mode THEN "same" ELSE "change")
    /\ UNCHANGED <<mode, start, end, now, flag, episodes, astray>>

\* The commit, of _set_setting_value or of update_setting; the flag follows
\* when the request runs again.
Commit(r) ==
    /\ At(r, "write")
    /\ mode' = IF request[r].by = "same" THEN mode ELSE request[r].to
    /\ astray' = (mode' # request[r].to \/ \E q \in Requests : At(q, "flag"))
    /\ Goes(r, "flag")
    /\ UNCHANGED <<start, end, now, flag, episodes, orders>>

\* The lock timeout of the commit: the request fails.
CommitFails(r) ==
    /\ At(r, "write")
    /\ Ends(r)
    /\ UNCHANGED <<mode, start, end, now, flag, episodes, orders, astray>>

\* _write_maintenance_flag, and the task of the episode is created.
WriteFlag(r) ==
    /\ At(r, "flag")
    /\ flag' = request[r].to
    /\ Goes(r, "record")
    /\ UNCHANGED <<mode, start, end, now, episodes, orders, astray>>

\* The file cannot be written, which nobody is told.
WriteFlagFails(r) ==
    /\ At(r, "flag")
    /\ Goes(r, "record")
    /\ astray' = (astray \/ flag # request[r].to)
    /\ UNCHANGED <<mode, start, end, now, flag, episodes, orders>>

\* update_setting reads the row again after its commit, and that fails: the admin gets
\* an error, and the file stays.
RefreshFails(r) ==
    /\ At(r, "flag")
    /\ request[r].by # "visit"
    /\ Ends(r)
    /\ astray' = (astray \/ flag # request[r].to)
    /\ UNCHANGED <<mode, start, end, now, flag, episodes, orders>>

\* _record_maintenance_history reads the list and writes it back; it shares
\* its session with the webhook's task and the ending request, and an error
\* is silent.
RecordRead(r) ==
    /\ At(r, "record")
    /\ request' = [request EXCEPT ![r].at = "recorded", ![r].list = episodes]
    /\ UNCHANGED <<mode, start, end, now, flag, episodes, orders, astray>>

\* Only the newest open episode is closed.
Recorded(list, opened) ==
    IF opened THEN SubSeq(<<TRUE>> \o list, 1, IF Len(list) < Keep THEN Len(list) + 1 ELSE Keep)
    ELSE IF TRUE \in ToSet(list)
         THEN [list EXCEPT ![SelectInSeq(list, LAMBDA e : e)] = FALSE]
         ELSE list

RecordWrite(r) ==
    /\ At(r, "recorded")
    /\ episodes' = Recorded(request[r].list, request[r].to)
    /\ Ends(r)
    /\ UNCHANGED <<mode, start, end, now, flag, orders, astray>>

RecordFails(r) ==
    /\ At(r, "record") \/ At(r, "recorded")
    /\ Ends(r)
    /\ UNCHANGED <<mode, start, end, now, flag, episodes, orders, astray>>

\* update_setting of the two times.
Reschedule(s, e) ==
    /\ Order
    /\ start' = s
    /\ end' = e
    /\ UNCHANGED <<mode, now, flag, episodes, request, astray>>

\* import_settings writes the mode like any other key, and no flag.
Import(to) ==
    /\ Order
    /\ mode' = to
    /\ astray' = TRUE
    /\ UNCHANGED <<start, end, now, flag, episodes, request>>

\* extend_maintenance: from the end that is set, past or not, or from now.
Extend(minutes) ==
    /\ Order
    /\ LET base == IF end = Unset THEN now ELSE end
       IN base + minutes \in Times /\ end' = base + minutes
    /\ UNCHANGED <<mode, start, now, flag, episodes, request, astray>>

Tick ==
    /\ now < MaxTime
    /\ now' = now + 1
    /\ UNCHANGED <<mode, start, end, flag, episodes, request, orders, astray>>

BootsAsItWas == flag \* mutant: boot leaves the file as the crash left it

\* lifespan restores the file from the setting.
Boots == mode

\* A crash or an update ends every request and task.
Restart ==
    /\ Order
    /\ flag' = Boots
    /\ request' = [r \in Requests |-> Idle]
    /\ astray' = FALSE
    /\ UNCHANGED <<mode, start, end, now, episodes>>

\* The setting is not read, or the file not written: the site starts all the same.
RestoreFails ==
    /\ Order
    /\ request' = [r \in Requests |-> Idle]
    /\ astray' = (flag # mode)
    /\ UNCHANGED <<mode, start, end, now, flag, episodes>>

Next ==
    \/ \E r \in Requests :
           \/ Visit(r)
           \/ \E to \in BOOLEAN : Switch(r, to)
           \/ Commit(r)
           \/ CommitFails(r)
           \/ WriteFlag(r)
           \/ WriteFlagFails(r)
           \/ RefreshFails(r)
           \/ RecordRead(r)
           \/ RecordWrite(r)
           \/ RecordFails(r)
    \/ \E s, e \in {1, Unset} : Reschedule(s, e)
    \/ \E to \in BOOLEAN : Import(to)
    \/ Extend(1)
    \/ Tick
    \/ Restart
    \/ RestoreFails

Spec == Init /\ [][Next]_vars

TypeOK ==
    /\ {mode, flag, astray} \subseteq BOOLEAN
    /\ {start, end} \subseteq Times \cup {Unset}
    /\ now \in 0..MaxTime
    /\ episodes \in BoundedSeq(BOOLEAN, Keep)
    /\ request \in [Requests -> [at : {"idle", "write", "flag", "record", "recorded"},
                                 to : BOOLEAN, by : {"visit", "change", "same"},
                                 list : BoundedSeq(BOOLEAN, Keep)]]
    /\ orders \in 0..MaxOrders

\* nginx serves the site exactly when the setting says so, once the writers are
\* through.  A crash between the commit and the file is healed by the next start that
\* restores the file.  What leaves the file wrong is an import, writers that overlapped,
\* a file that could not be written and a refresh that failed; and each of them only
\* until such a start, or a writer that commits alone and writes the file.
FlagFollowsMode ==
    ~astray /\ (\A r \in Requests : ~At(r, "flag")) => (flag = mode)
=============================================================================
