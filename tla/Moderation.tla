----------------------------- MODULE Moderation -----------------------------
(***************************************************************************)
(* Bans, appeals and warnings (backend/routers/moderation.py).             *)
(*                                                                         *)
(* Each handler reads, awaits, and writes what it decided in one           *)
(* transaction: its write is one action, at the moment it gets SQLite's    *)
(* writer lock, and its reads are older.  An ORM object is written back by *)
(* primary key; if its row is gone the flush fails and nothing is written. *)
(* Clearing the moderation log deletes resolved bans, and the largest      *)
(* primary key is given again.                                             *)
(***************************************************************************)
EXTENDS Integers, Sequences, FiniteSets

CONSTANTS
    Players,      \* steam ids
    Servers,      \* game servers (server_num)
    Requests,     \* the requests of a behaviour, each made once
    Threshold,    \* the plugin's WarnEscalationThreshold, 0 to disable
    Terms,        \* the values of unban_at a plugin may send
    Never,        \* unban_at of a permanent ban
    NoBan,        \* a primary key without a row
    NoState,      \* no row of warn_escalation_state
    MaxBans,      \* bound: bans ever issued
    MaxTime,      \* bound: the last value of the clock
    MaxClears     \* bound: how often the moderation log is cleared

BanIds == 1..MaxBans

Times == 0..MaxTime

\* A row of bans.  nr numbers the bans in the order of banned_at and is never
\* given twice; lifted stands for unbanned_at being set.
BanRow == [nr: 1..MaxBans, player: Players, server: Servers,
           unbanAt: Times \cup {Never}, lifted: BOOLEAN]

ASSUME ModerationAssumption ==
    /\ IsFiniteSet(Requests)
    /\ Threshold \in Nat
    /\ MaxBans \in Nat
    /\ MaxTime \in Nat
    /\ MaxClears \in Nat
    /\ Terms \subseteq Times \cup {Never}
    /\ Never \notin Times
    /\ NoBan \notin BanRow
    /\ NoState \notin Nat

VARIABLES
    bans,       \* bans[i]: the row with primary key i
    issued,     \* how many bans were issued
    appeals,    \* ban_appeals, in the order of their ids
    warned,     \* warned[p]: the rows of warnings of player p
    mark,       \* mark[p]: last_escalation_count of p
    escalated,  \* escalated[p]: answers with should_escalate
    overlapped, \* overlapped[p]: warnings of p that began while another was under way
    now,        \* the clock
    clears,     \* how often the log was cleared
    poll,       \* poll[s]: the ids the due-unbans poll of s is about to stamp
    req         \* req[r]: where request r is and what it has read

banVars == <<bans, issued, appeals>>
warnVars == <<warned, mark, escalated, overlapped>>
vars == <<banVars, warnVars, now, clears, poll, req>>

Statuses == {"pending", "approved", "rejected"}

\* A row of ban_appeals; nr is the ban that was appealed.
Appeal == [ban: BanIds, nr: 1..MaxBans, player: Players, status: Statuses]

Idle == [stage |-> "idle"]
Done == [stage |-> "done"]
Failed == [stage |-> "failed"]

Init ==
    /\ bans = [i \in BanIds |-> NoBan]
    /\ issued = 0
    /\ appeals = <<>>
    /\ warned = [p \in Players |-> 0]
    /\ mark = [p \in Players |-> NoState]
    /\ escalated = [p \in Players |-> 0]
    /\ overlapped = [p \in Players |-> 0]
    /\ now = 0
    /\ clears = 0
    /\ poll = [s \in Servers |-> {}]
    /\ req = [r \in Requests |-> Idle]

At(r, stage) == req[r].stage = stage

Exists(i) == bans[i] # NoBan

\* "A ban is considered active for as long as unbanned_at stays NULL."
Active(i) == Exists(i) /\ ~bans[i].lifted

\* Its timer has expired, or an admin brought unban_at forward to now.
Due(i) == bans[i].unbanAt # Never /\ bans[i].unbanAt <= now

ActiveOf(p) == {i \in BanIds : Active(i) /\ bans[i].player = p}

\* Mutant: a timer expires one moment late.
DueOfLate(s) ==
    {i \in BanIds : /\ Active(i) /\ bans[i].server = s
                    /\ bans[i].unbanAt # Never /\ bans[i].unbanAt < now}

\* Mutant: the unban_at column is not looked at.
DueOfAnyTerm(s) == {i \in BanIds : Active(i) /\ bans[i].server = s}

DueOf(s) == {i \in BanIds : Active(i) /\ Due(i) /\ bans[i].server = s}

Move(r, to) == req' = [req EXCEPT ![r] = to]

-----------------------------------------------------------------------------
\* Bans.

\* SQLite gives the largest primary key in use plus one.
IsNextId(i) ==
    /\ \A j \in BanIds : Exists(j) => j < i
    /\ i > 1 => Exists(i - 1)

\* POST /api/plugin/ban
PluginBan(p, s, until) ==
    /\ issued < MaxBans
    /\ issued' = issued + 1
    /\ \E i \in BanIds :
          /\ IsNextId(i)
          /\ bans' = [bans EXCEPT ![i] =
                        [nr |-> issued + 1, player |-> p, server |-> s,
                         unbanAt |-> until, lifted |-> FALSE]]
    /\ UNCHANGED <<appeals, warnVars, now, clears, poll, req>>

\* Stamp unbanned_at of the rows with these ids.
Lifted(ids) ==
    [i \in BanIds |-> IF i \in ids THEN [bans[i] EXCEPT !.lifted = TRUE]
                                   ELSE bans[i]]

\* POST /api/plugin/unban: read the player's active bans, on every server.
UnbanRead(r, p) ==
    /\ At(r, "idle")
    /\ ActiveOf(p) # {}
    /\ Move(r, [stage |-> "unban", player |-> p, ids |-> ActiveOf(p)])
    /\ UNCHANGED <<banVars, warnVars, now, clears, poll>>

\* ... and stamp what was read.
UnbanStamp(r) ==
    /\ At(r, "unban")
    /\ \A i \in req[r].ids : Exists(i)
    /\ bans' = Lifted(req[r].ids)
    /\ Move(r, Done)
    /\ UNCHANGED <<issued, appeals, warnVars, now, clears, poll>>

\* GET /api/plugin/due-unbans: read the due bans of the server.
PollRead(s) ==
    /\ poll[s] = {}
    /\ DueOf(s) # {}
    /\ poll' = [poll EXCEPT ![s] = DueOf(s)]
    /\ UNCHANGED <<banVars, warnVars, now, clears, req>>

\* ... stamp them and return them.
PollStamp(s) ==
    /\ poll[s] # {}
    /\ \A i \in poll[s] : Exists(i)
    /\ bans' = Lifted(poll[s])
    /\ poll' = [poll EXCEPT ![s] = {}]
    /\ UNCHANGED <<issued, appeals, warnVars, now, clears, req>>

\* ... or fail: a row is gone, the lock is held for too long, a crash.
PollFail(s) ==
    /\ poll[s] # {}
    /\ poll' = [poll EXCEPT ![s] = {}]
    /\ UNCHANGED <<banVars, warnVars, now, clears, req>>

\* _force_unban: unban_at is brought forward to now.
ForceUnban(i) == [bans EXCEPT ![i].unbanAt = now]

\* POST /api/admin/bans/{id}/unban
ForceRead(r, i) ==
    /\ At(r, "idle")
    /\ Active(i)
    /\ Move(r, [stage |-> "force", id |-> i])
    /\ UNCHANGED <<banVars, warnVars, now, clears, poll>>

ForceWrite(r) ==
    /\ At(r, "force")
    /\ Exists(req[r].id)
    /\ bans' = ForceUnban(req[r].id)
    /\ Move(r, Done)
    /\ UNCHANGED <<issued, appeals, warnVars, now, clears, poll>>

\* DELETE /api/admin/moderation-log: the resolved bans go with the log.
ClearLog ==
    /\ clears < MaxClears
    /\ clears' = clears + 1
    /\ bans' = [i \in BanIds |-> IF Active(i) THEN bans[i] ELSE NoBan]
    /\ UNCHANGED <<issued, appeals, warnVars, now, poll, req>>

-----------------------------------------------------------------------------
\* Appeals.

IsLatest(i, ids) == \A j \in ids : bans[j].nr <= bans[i].nr

PendingFor(i) ==
    {a \in DOMAIN appeals : appeals[a].ban = i /\ appeals[a].status = "pending"}

\* POST /api/appeals: find the player's latest active ban.
AppealRead(r, p) ==
    /\ At(r, "idle")
    /\ \E i \in ActiveOf(p) :
          /\ IsLatest(i, ActiveOf(p))
          /\ Move(r, [stage |-> "appeal", player |-> p,
                      id |-> i, nr |-> bans[i].nr])
    /\ UNCHANGED <<banVars, warnVars, now, clears, poll>>

\* ... refuse it if one is pending (two make the query itself fail)
AppealCheck(r) ==
    /\ At(r, "appeal")
    /\ Move(r, IF PendingFor(req[r].id) = {}
                 THEN [req[r] EXCEPT !.stage = "file"] ELSE Done)
    /\ UNCHANGED <<banVars, warnVars, now, clears, poll>>

\* ... and file it.
AppealFile(r) ==
    /\ At(r, "file")
    /\ appeals' = Append(appeals,
                    [ban |-> req[r].id, nr |-> req[r].nr,
                     player |-> req[r].player, status |-> "pending"])
    /\ Move(r, Done)
    /\ UNCHANGED <<bans, issued, warnVars, now, clears, poll>>

\* POST /api/admin/appeals/{id}/resolve: read the appeal while it is pending.
ResolveRead(r, a, approve) ==
    /\ At(r, "idle")
    /\ appeals[a].status = "pending"
    /\ Move(r, [stage |-> "resolve", appeal |-> a, approve |-> approve])
    /\ UNCHANGED <<banVars, warnVars, now, clears, poll>>

\* Mutant: a status no reader knows.
DecisionClosed(approve) == "closed"

Decision(approve) == IF approve THEN "approved" ELSE "rejected"

\* Mutant: the ban of an approved appeal is left as it is.
ApprovalForgotten(i) == bans

\* The ban of an approved appeal, if it is still active, is brought forward.
Approved(i) == IF Active(i) THEN ForceUnban(i) ELSE bans

\* ... write its status, which takes the lock, then read its ban and lift it.
ResolveWrite(r) ==
    LET a == req[r].appeal
        approve == req[r].approve IN
    /\ At(r, "resolve")
    /\ appeals' = [appeals EXCEPT ![a].status = Decision(approve)]
    /\ bans' = IF approve THEN Approved(appeals[a].ban) ELSE bans
    /\ Move(r, Done)
    /\ UNCHANGED <<issued, warnVars, now, clears, poll>>

-----------------------------------------------------------------------------
\* Warnings.

Warning(r) == req[r].stage \in {"warned", "counted", "escalate"}
UnderWay(p) == {r \in Requests : Warning(r) /\ req[r].player = p}

\* POST /api/plugin/warn: the warning is committed on its own.  Another one of
\* the player may be under way, by a second admin or from a second server.
Warn(r, p) ==
    /\ At(r, "idle")
    /\ warned' = [warned EXCEPT ![p] = @ + 1]
    /\ overlapped' = IF UnderWay(p) = {} THEN overlapped
                                         ELSE [overlapped EXCEPT ![p] = @ + 1]
    /\ Move(r, [stage |-> "warned", player |-> p])
    /\ UNCHANGED <<banVars, mark, escalated, now, clears, poll>>

\* ... count the player's warnings; without a threshold that is all.
WarnCount(r) ==
    LET p == req[r].player IN
    /\ At(r, "warned")
    /\ Move(r, IF Threshold > 0
                 THEN [stage |-> "counted", player |-> p, count |-> warned[p]]
                 ELSE Done)
    /\ UNCHANGED <<banVars, warnVars, now, clears, poll>>

LastCount(state) == IF state = NoState THEN 0 ELSE state

\* Mutant: escalate on every warning above the threshold.
AboveThreshold(count, state) == count >= Threshold

\* Mutant: off by one.
AfterThreshold(count, state) == count - LastCount(state) > Threshold

\* "Once per threshold's worth of new warnings."
ShouldEscalate(count, state) == count - LastCount(state) >= Threshold

\* ... read the high-water mark and decide
WarnDecide(r) ==
    LET p == req[r].player
        count == req[r].count IN
    /\ At(r, "counted")
    /\ Move(r, IF ShouldEscalate(count, mark[p])
                 THEN [stage |-> "escalate", player |-> p, count |-> count,
                       state |-> mark[p]]
                 ELSE Done)
    /\ UNCHANGED <<banVars, warnVars, now, clears, poll>>

\* ... move the mark: an INSERT, which fails if the row was inserted since, or
\* an UPDATE.
WarnEscalate(r) ==
    LET p == req[r].player IN
    /\ At(r, "escalate")
    /\ req[r].state = NoState => mark[p] = NoState
    /\ mark' = [mark EXCEPT ![p] = req[r].count]
    /\ escalated' = [escalated EXCEPT ![p] = @ + 1]
    /\ Move(r, Done)
    /\ UNCHANGED <<banVars, warned, overlapped, now, clears, poll>>

-----------------------------------------------------------------------------
\* A request fails: a row it writes is gone, a unique key is taken, the lock
\* is held for too long, or the process stops.
Fail(r) ==
    /\ req[r].stage \notin {"idle", "done", "failed"}
    /\ Move(r, Failed)
    /\ UNCHANGED <<banVars, warnVars, now, clears, poll>>

Tick ==
    /\ now < MaxTime
    /\ now' = now + 1
    /\ UNCHANGED <<banVars, warnVars, clears, poll, req>>

BanStep(r) ==
    \/ \E p \in Players : UnbanRead(r, p)
    \/ UnbanStamp(r)
    \/ \E i \in BanIds : ForceRead(r, i)
    \/ ForceWrite(r)

AppealStep(r) ==
    \/ \E p \in Players : AppealRead(r, p)
    \/ AppealCheck(r)
    \/ AppealFile(r)
    \/ \E a \in DOMAIN appeals, approve \in BOOLEAN : ResolveRead(r, a, approve)
    \/ ResolveWrite(r)

WarnStep(r) ==
    \/ \E p \in Players : Warn(r, p)
    \/ WarnCount(r)
    \/ WarnDecide(r)
    \/ WarnEscalate(r)

PollStep(s) == PollRead(s) \/ PollStamp(s)

Next ==
    \/ \E p \in Players, s \in Servers, until \in Terms :
          PluginBan(p, s, until)
    \/ \E r \in Requests :
          BanStep(r) \/ AppealStep(r) \/ WarnStep(r) \/ Fail(r)
    \/ \E s \in Servers : PollStep(s) \/ PollFail(s)
    \/ ClearLog
    \/ Tick

\* The plugin of every server polls for due unbans again and again, every
\* poll ends, and one that is tried again and again succeeds at last.
PollFairness ==
    \A s \in Servers : /\ WF_vars(PollRead(s))
                       /\ WF_vars(PollStamp(s) \/ PollFail(s))
                       /\ SF_vars(PollStamp(s))

Spec == Init /\ [][Next]_vars /\ PollFairness

-----------------------------------------------------------------------------
\* Properties.

\* Every variable has its type; the bans have different numbers.
Stages ==
    {Idle, Done, Failed} \cup
    [stage: {"unban"}, player: Players, ids: SUBSET BanIds] \cup
    [stage: {"force"}, id: BanIds] \cup
    [stage: {"appeal", "file"}, player: Players, id: BanIds, nr: 1..MaxBans] \cup
    [stage: {"resolve"}, appeal: DOMAIN appeals, approve: BOOLEAN] \cup
    [stage: {"warned"}, player: Players] \cup
    [stage: {"counted"}, player: Players, count: Nat] \cup
    [stage: {"escalate"}, player: Players, count: Nat, state: Nat \cup {NoState}]

TypeOK ==
    /\ bans \in [BanIds -> BanRow \cup {NoBan}]
    /\ \A i, j \in BanIds :
          Exists(i) /\ Exists(j) /\ bans[i].nr = bans[j].nr => i = j
    /\ \A i \in BanIds : Exists(i) => bans[i].nr <= issued
    /\ issued \in 0..MaxBans
    /\ appeals \in Seq(Appeal)
    /\ warned \in [Players -> Nat]
    /\ mark \in [Players -> Nat \cup {NoState}]
    /\ escalated \in [Players -> Nat]
    /\ overlapped \in [Players -> Nat]
    /\ now \in Times
    /\ clears \in 0..MaxClears
    /\ poll \in [Servers -> SUBSET BanIds]
    /\ req \in [Requests -> Stages]

\* Until the log is first cleared, a ban is lifted only when it is due or by an
\* unban of its player, whatever was read how long ago.
LiftedForAReason ==
    [][clears = 0 =>
         \A i \in BanIds :
            Active(i) /\ Exists(i)' /\ bans'[i].lifted =>
               \/ Due(i)
               \/ \E r \in Requests : At(r, "unban") /\ req[r].player = bans[i].player
      ]_vars

\* The ban of an approved appeal waits for its poll, unless it is lifted.
ApprovalIsExecuted ==
    \A a \in DOMAIN appeals, i \in BanIds :
        appeals[a].status = "approved" /\ Active(i) /\ bans[i].nr = appeals[a].nr
            => Due(i)

\* A ban that is due, by its timer, by an admin or by an approved appeal, is
\* lifted in the end.
ActiveAndDue(n) == \E i \in BanIds : Active(i) /\ bans[i].nr = n /\ Due(i)
StillActive(n) == \E i \in BanIds : Active(i) /\ bans[i].nr = n
DueIsLifted == \A n \in 1..MaxBans : ActiveAndDue(n) ~> ~StillActive(n)

\* "It only fires once per threshold's worth of new warnings" (the docstring
\* of plugin_warn): so it is as long as no two warnings of a player overlap, and
\* each that overlaps an earlier one costs one escalation too many at most.
EscalatesOncePerThreshold ==
    \A p \in Players : (escalated[p] - overlapped[p]) * Threshold <= warned[p]

\* ... and it does fire: when no warning of the player is under way, fewer than
\* a threshold's worth are left, but for those whose call failed half-way and
\* those that overlapped: the later of two may write the smaller count.
NoThresholdSlips ==
    \A p \in Players :
        Threshold # 0 /\ UnderWay(p) = {} =>
            warned[p] - LastCount(mark[p])
                < Threshold + Cardinality({r \in Requests : At(r, "failed")}) + overlapped[p]

\* "Approving also lifts the underlying ban", and an appeal stays "meaningful
\* even if the Ban row is ever purged" (resolve_ban_appeal, BanAppeal): it
\* changes no other player's ban.
ApprovalLiftsItsBan ==
    [][\A a \in DOMAIN appeals, i \in BanIds :
          appeals'[a].status # appeals[a].status /\ bans'[i] # bans[i]
              => bans[i].player = appeals[a].player]_vars
=============================================================================
