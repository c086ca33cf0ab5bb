-------------------------- MODULE ModerationProofs --------------------------
(***************************************************************************)
(* Proofs about moderation: types, why bans are lifted, what becomes of    *)
(* approved appeals, how often warnings escalate.                          *)
(***************************************************************************)
EXTENDS Moderation, TLAPS, FiniteSetTheorems

-----------------------------------------------------------------------------
\* Type correctness.

LEMMA TypeInit == Init => TypeOK
BY ModerationAssumption
   DEF Init, TypeOK, Stages, Exists, Idle, Done, Failed, Times, BanIds

\* The table of bans.
BansOK ==
    /\ bans \in [BanIds -> BanRow \cup {NoBan}]
    /\ \A i, j \in BanIds :
          Exists(i) /\ Exists(j) /\ bans[i].nr = bans[j].nr => i = j
    /\ \A i \in BanIds : Exists(i) => bans[i].nr <= issued

\* A step of one request that moves to a known stage.
LEMMA TypeMove ==
    ASSUME TypeOK, BansOK', UNCHANGED <<issued, warnVars, now, clears, poll>>,
           NEW r \in Requests, NEW to, to \in Stages', Move(r, to),
           appeals' \in Seq(Appeal), DOMAIN appeals \subseteq DOMAIN appeals'
    PROVE  TypeOK'
<1>1. Stages \subseteq Stages'
  BY DEF Stages
<1>2. req' \in [Requests -> Stages']
  BY <1>1 DEF Move, TypeOK
<1> QED BY <1>2 DEF TypeOK, BansOK, warnVars

\* A step of anything else.
LEMMA TypeOther ==
    ASSUME TypeOK, BansOK', UNCHANGED <<appeals, warnVars, req>>,
           issued' \in 0..MaxBans, now' \in Times, clears' \in 0..MaxClears,
           poll' \in [Servers -> SUBSET BanIds]
    PROVE  TypeOK'
<1>1. \A q \in Requests : req'[q] \in Stages'
  BY DEF TypeOK, Stages
<1> QED BY <1>1 DEF TypeOK, BansOK, warnVars

LEMMA BansSame == TypeOK /\ UNCHANGED <<bans, issued>> => BansOK'
BY DEF TypeOK, BansOK, Exists

\* Rows are updated without a change of their number.
LEMMA BansUpdated ==
    ASSUME TypeOK, issued' = issued, DOMAIN bans' = BanIds,
           bans' = [i \in BanIds |-> bans'[i]],
           \A i \in BanIds :
              \/ bans'[i] = bans[i]
              \/ bans'[i] = NoBan
              \/ Exists(i) /\ bans'[i] \in BanRow /\ bans'[i].nr = bans[i].nr
    PROVE  BansOK'
<1>1. \A i \in BanIds : bans'[i] \in BanRow \cup {NoBan}
  BY DEF TypeOK
<1>2. \A i \in BanIds : bans'[i] # NoBan => Exists(i) /\ bans'[i].nr = bans[i].nr
  BY DEF Exists
<1>3. BansOK
  BY DEF TypeOK, BansOK
<1> QED BY <1>1, <1>2, <1>3 DEF BansOK, Exists

LEMMA LiftedRows ==
    ASSUME TypeOK, NEW ids \in SUBSET BanIds, \A i \in ids : Exists(i)
    PROVE  /\ Lifted(ids) = [i \in BanIds |-> Lifted(ids)[i]]
           /\ \A i \in BanIds \ ids : Lifted(ids)[i] = bans[i]
           /\ \A i \in ids : Lifted(ids)[i] =
                [nr |-> bans[i].nr, player |-> bans[i].player,
                 server |-> bans[i].server, unbanAt |-> bans[i].unbanAt,
                 lifted |-> TRUE]
<1>1. \A i \in ids : bans[i] \in BanRow
  BY DEF TypeOK, Exists
<1> QED BY <1>1 DEF Lifted, BanRow

LEMMA LiftedOK ==
    ASSUME TypeOK, NEW ids \in SUBSET BanIds, \A i \in ids : Exists(i),
           bans' = Lifted(ids), issued' = issued
    PROVE  BansOK'
<1>1. \A i \in ids : bans[i] \in BanRow
  BY DEF TypeOK, Exists
<1>2. \A i \in ids : bans'[i] \in BanRow /\ bans'[i].nr = bans[i].nr
  <2> SUFFICES ASSUME NEW i \in ids
               PROVE  bans'[i] \in BanRow /\ bans'[i].nr = bans[i].nr
    OBVIOUS
  <2>1. bans[i] \in BanRow
    BY <1>1
  <2>2. bans'[i] = [nr |-> bans[i].nr, player |-> bans[i].player,
                    server |-> bans[i].server, unbanAt |-> bans[i].unbanAt,
                    lifted |-> TRUE]
    BY LiftedRows
  <2> QED BY <2>1, <2>2 DEF BanRow
<1>3. bans' = [i \in BanIds |-> bans'[i]]
  BY LiftedRows
<1> QED BY <1>2, <1>3, LiftedRows, BansUpdated

LEMMA ForcedOK ==
    ASSUME TypeOK, NEW i \in BanIds, Exists(i),
           bans' = ForceUnban(i), issued' = issued
    PROVE  BansOK'
<1>1. bans[i] \in BanRow /\ now \in Times
  BY DEF TypeOK, Exists
<1>2. bans'[i] \in BanRow /\ bans'[i].nr = bans[i].nr
  BY <1>1 DEF ForceUnban, BanRow, TypeOK
<1>3. /\ bans' = [j \in BanIds |-> bans'[j]]
      /\ \A j \in BanIds : j # i => bans'[j] = bans[j]
  BY DEF ForceUnban, TypeOK
<1> QED BY <1>2, <1>3, BansUpdated

LEMMA IssuedOK ==
    ASSUME TypeOK, NEW p \in Players, NEW s \in Servers,
           NEW until \in Terms, PluginBan(p, s, until)
    PROVE  BansOK'
<1> DEFINE row == [nr |-> issued + 1, player |-> p, server |-> s,
                   unbanAt |-> until, lifted |-> FALSE]
<1>1. PICK i \in BanIds : IsNextId(i) /\ bans' = [bans EXCEPT ![i] = row]
  BY DEF PluginBan
<1>2. issued' = issued + 1 /\ issued < MaxBans /\ issued \in 0..MaxBans
  BY DEF PluginBan, TypeOK
<1>3. row \in BanRow /\ row.nr = issued + 1
  BY <1>2, ModerationAssumption DEF BanRow
<1> HIDE DEF row
<1>4. /\ bans'[i] = row
      /\ \A j \in BanIds : j # i => bans'[j] = bans[j]
  BY <1>1 DEF TypeOK
<1>5. bans' \in [BanIds -> BanRow \cup {NoBan}]
  BY <1>1, <1>3 DEF TypeOK
<1>6. \A j \in BanIds : j # i /\ Exists(j)' => bans'[j].nr \in 1..issued
  BY <1>4, <1>2, ModerationAssumption DEF TypeOK, Exists, BanRow
<1>7. \A j \in BanIds : Exists(j)' => bans'[j].nr <= issued'
  BY <1>2, <1>3, <1>4, <1>6
<1>8. \A j, k \in BanIds :
        Exists(j)' /\ Exists(k)' /\ bans'[j].nr = bans'[k].nr => j = k
  <2> SUFFICES ASSUME NEW j \in BanIds, NEW k \in BanIds,
                      Exists(j)', Exists(k)', bans'[j].nr = bans'[k].nr
               PROVE  j = k
    OBVIOUS
  <2>1. CASE j # i /\ k # i
    BY <1>4, <2>1 DEF TypeOK, Exists
  <2>2. ASSUME NEW m \in BanIds, m # i, Exists(m)' PROVE bans'[m].nr # bans'[i].nr
    BY <1>2, <1>3, <1>4, <1>6, <2>2
  <2> QED BY <2>1, <2>2
<1> QED BY <1>5, <1>7, <1>8 DEF BansOK

LEMMA ClearedOK ==
    ASSUME TypeOK, ClearLog
    PROVE  BansOK'
<1>1. /\ issued' = issued
      /\ bans' = [i \in BanIds |-> IF Active(i) THEN bans[i] ELSE NoBan]
  BY DEF ClearLog
<1>2. /\ bans' = [i \in BanIds |-> bans'[i]]
      /\ \A i \in BanIds : bans'[i] \in {bans[i], NoBan}
  BY <1>1
<1> QED BY <1>1, <1>2, BansUpdated

\* What a request has read, by its stage.
LEMMA ReqType ==
    ASSUME TypeOK, NEW r \in Requests
    PROVE  /\ At(r, "unban") => req[r] \in
                [stage: {"unban"}, player: Players, ids: SUBSET BanIds]
           /\ At(r, "force") => req[r] \in [stage: {"force"}, id: BanIds]
           /\ At(r, "appeal") \/ At(r, "file") => req[r] \in
                [stage: {"appeal", "file"}, player: Players, id: BanIds,
                 nr: 1..MaxBans]
           /\ At(r, "resolve") => req[r] \in
                [stage: {"resolve"}, appeal: DOMAIN appeals, approve: BOOLEAN]
           /\ At(r, "warned") => req[r] \in [stage: {"warned"}, player: Players]
           /\ At(r, "counted") => req[r] \in
                [stage: {"counted"}, player: Players, count: Nat]
           /\ At(r, "escalate") => req[r] \in
                [stage: {"escalate"}, player: Players, count: Nat,
                 state: Nat \cup {NoState}]
<1>1. req[r] \in Stages
  BY DEF TypeOK
<1> QED BY <1>1 DEF Stages, Idle, Done, Failed, At

LEMMA TypeBanStep ==
    ASSUME TypeOK, NEW r \in Requests, BanStep(r)
    PROVE  TypeOK'
<1> USE DEF warnVars, banVars
<1>1. ASSUME NEW p \in Players, UnbanRead(r, p) PROVE TypeOK'
  BY <1>1, BansSame, TypeMove DEF UnbanRead, Stages, ActiveOf, TypeOK
<1>2. CASE UnbanStamp(r)
  <2>1. req[r].ids \in SUBSET BanIds
    BY <1>2, ReqType DEF UnbanStamp
  <2>2. BansOK'
    BY <1>2, <2>1, LiftedOK DEF UnbanStamp
  <2> QED BY <1>2, <2>2, TypeMove DEF UnbanStamp, Stages, TypeOK
<1>3. ASSUME NEW i \in BanIds, ForceRead(r, i) PROVE TypeOK'
  BY <1>3, BansSame, TypeMove DEF ForceRead, Stages, TypeOK
<1>4. CASE ForceWrite(r)
  <2>1. req[r].id \in BanIds
    BY <1>4, ReqType DEF ForceWrite
  <2>2. BansOK'
    BY <1>4, <2>1, ForcedOK DEF ForceWrite
  <2> QED BY <1>4, <2>2, TypeMove DEF ForceWrite, Stages, TypeOK
<1> QED BY <1>1, <1>2, <1>3, <1>4 DEF BanStep

LEMMA TypeAppealStep ==
    ASSUME TypeOK, NEW r \in Requests, AppealStep(r)
    PROVE  TypeOK'
<1> USE DEF warnVars, banVars
<1>1. ASSUME NEW p \in Players, AppealRead(r, p) PROVE TypeOK'
  <2> DEFINE to(i) == [stage |-> "appeal", player |-> p,
                       id |-> i, nr |-> bans[i].nr]
  <2>1. PICK i \in ActiveOf(p) : Move(r, to(i))
    BY <1>1 DEF AppealRead
  <2>2. i \in BanIds /\ bans[i] \in BanRow
    BY DEF ActiveOf, Active, Exists, TypeOK
  <2>3. to(i) \in Stages'
    BY <2>2 DEF Stages, BanRow
  <2> QED BY <1>1, <2>1, <2>3, BansSame, TypeMove DEF AppealRead, TypeOK
<1>2. CASE AppealCheck(r)
  <2> DEFINE to == IF PendingFor(req[r].id) = {}
                     THEN [req[r] EXCEPT !.stage = "file"] ELSE Done
  <2>1. Move(r, to) /\ UNCHANGED <<banVars, warnVars, now, clears, poll>>
    BY <1>2 DEF AppealCheck
  <2>2. to \in Stages'
    BY <1>2, ReqType DEF AppealCheck, Stages
  <2> QED BY <2>1, <2>2, BansSame, TypeMove DEF TypeOK
<1>3. CASE AppealFile(r)
  <2> DEFINE new == [ban |-> req[r].id, nr |-> req[r].nr,
                     player |-> req[r].player, status |-> "pending"]
  <2>1. new \in Appeal
    BY <1>3, ReqType DEF AppealFile, Appeal, Statuses
  <2>2. appeals' = Append(appeals, new)
    BY <1>3 DEF AppealFile
  <2> HIDE DEF new
  <2>3. appeals' \in Seq(Appeal) /\ DOMAIN appeals \subseteq DOMAIN appeals'
    BY <2>1, <2>2 DEF TypeOK
  <2> QED BY <1>3, <2>3, BansSame, TypeMove DEF AppealFile, Stages
<1>4. ASSUME NEW a \in DOMAIN appeals, NEW approve \in BOOLEAN,
             ResolveRead(r, a, approve)
      PROVE  TypeOK'
  BY <1>4, BansSame, TypeMove DEF ResolveRead, Stages, TypeOK
<1>5. CASE ResolveWrite(r)
  <2> DEFINE a == req[r].appeal
  <2>1. a \in DOMAIN appeals /\ req[r].approve \in BOOLEAN
    BY <1>5, ReqType DEF ResolveWrite
  <2>2. appeals' = [appeals EXCEPT ![a].status = Decision(req[r].approve)]
    BY <1>5 DEF ResolveWrite
  <2>3. appeals[a] \in Appeal
    BY <2>1 DEF TypeOK
  <2> HIDE DEF a
  <2>4. appeals' \in Seq(Appeal) /\ DOMAIN appeals' = DOMAIN appeals
    <3>1. [appeals[a] EXCEPT !.status = Decision(req[r].approve)] \in Appeal
      BY <2>3 DEF Appeal, Statuses, Decision
    <3> QED BY <2>1, <2>2, <3>1 DEF TypeOK
  <2>5. BansOK'
    <3>1. /\ issued' = issued
          /\ \/ bans' = bans
             \/ appeals[a].ban \in BanIds /\ Exists(appeals[a].ban)
                /\ bans' = ForceUnban(appeals[a].ban)
      BY <1>5, <2>3 DEF ResolveWrite, Approved, Active, Appeal, a
    <3> QED BY <3>1, BansSame, ForcedOK
  <2> QED BY <1>5, <2>4, <2>5, TypeMove DEF ResolveWrite, Stages
<1> QED BY <1>1, <1>2, <1>3, <1>4, <1>5 DEF AppealStep

\* A step of a warning.
LEMMA TypeWarnStep ==
    ASSUME TypeOK, NEW r \in Requests, WarnStep(r)
    PROVE  TypeOK'
<1> USE DEF banVars, warnVars
<1>1. /\ UNCHANGED <<bans, issued, appeals, now, clears, poll>>
      /\ BansOK'
  BY BansSame DEF WarnStep, Warn, WarnCount, WarnDecide, WarnEscalate
<1>2. Stages' = Stages
  BY <1>1 DEF Stages
<1>3. /\ warned' \in [Players -> Nat]
      /\ mark' \in [Players -> Nat \cup {NoState}]
      /\ escalated' \in [Players -> Nat]
      /\ overlapped' \in [Players -> Nat]
  <2>1. ASSUME NEW p \in Players, Warn(r, p)
        PROVE  /\ warned' \in [Players -> Nat] /\ UNCHANGED <<mark, escalated>>
               /\ overlapped' \in [Players -> Nat]
    BY <2>1 DEF Warn, TypeOK
  <2>2. CASE WarnEscalate(r)
    <3>1. req[r].player \in Players /\ req[r].count \in Nat
      BY <2>2, ReqType DEF WarnEscalate
    <3> QED BY <2>2, <3>1 DEF WarnEscalate, TypeOK
  <2> QED BY <2>1, <2>2 DEF WarnStep, WarnCount, WarnDecide, TypeOK
<1>4. \E to \in Stages : Move(r, to)
  <2>1. ASSUME NEW p \in Players, Warn(r, p) PROVE \E to \in Stages : Move(r, to)
    BY <2>1 DEF Warn, Stages
  <2>2. CASE WarnCount(r)
    BY <2>2, ReqType DEF WarnCount, Stages, TypeOK
  <2>3. CASE WarnDecide(r)
    BY <2>3, ReqType DEF WarnDecide, Stages, TypeOK
  <2>4. CASE WarnEscalate(r)
    BY <2>4 DEF WarnEscalate, Stages
  <2> QED BY <2>1, <2>2, <2>3, <2>4 DEF WarnStep
<1>5. req' \in [Requests -> Stages']
  BY <1>2, <1>4 DEF Move, TypeOK
<1> QED BY <1>1, <1>3, <1>5 DEF TypeOK, BansOK

LEMMA TypeStep == TypeOK /\ [Next]_vars => TypeOK'
<1> SUFFICES ASSUME TypeOK, [Next]_vars PROVE TypeOK'
  OBVIOUS
<1> USE DEF banVars, warnVars
<1>1. ASSUME NEW p \in Players, NEW s \in Servers, NEW until \in Terms,
             PluginBan(p, s, until)
      PROVE  TypeOK'
  <2>1. BansOK'
    BY <1>1, IssuedOK
  <2>2. issued' \in 0..MaxBans
    BY <1>1, ModerationAssumption DEF PluginBan, TypeOK
  <2> QED BY <1>1, <2>1, <2>2, TypeOther DEF PluginBan, TypeOK
<1>2. ASSUME NEW r \in Requests, BanStep(r) \/ AppealStep(r) \/ WarnStep(r)
      PROVE  TypeOK'
  BY <1>2, TypeBanStep, TypeAppealStep, TypeWarnStep
<1>3. ASSUME NEW r \in Requests, Fail(r) PROVE TypeOK'
  BY <1>3, BansSame, TypeMove DEF Fail, Stages, TypeOK
<1>4. ASSUME NEW s \in Servers, PollStep(s) \/ PollFail(s) PROVE TypeOK'
  <2>1. poll[s] \in SUBSET BanIds /\ DueOf(s) \in SUBSET BanIds
    BY DEF TypeOK, DueOf
  <2>2. BansOK'
    <3>1. CASE PollStamp(s)
      BY <2>1, <3>1, LiftedOK DEF PollStamp
    <3> QED BY <1>4, <3>1, BansSame DEF PollStep, PollRead, PollFail
  <2> QED BY <1>4, <2>1, <2>2, TypeOther
          DEF PollStep, PollRead, PollStamp, PollFail, TypeOK
<1>5. CASE ClearLog
  <2>1. clears' \in 0..MaxClears
    BY <1>5, ModerationAssumption DEF ClearLog, TypeOK
  <2> QED BY <1>5, <2>1, ClearedOK, TypeOther DEF ClearLog, TypeOK
<1>6. CASE Tick
  <2>1. now' \in Times
    BY <1>6, ModerationAssumption DEF Tick, TypeOK, Times
  <2> QED BY <1>6, <2>1, BansSame, TypeOther DEF Tick, TypeOK
<1>7. CASE UNCHANGED vars
  <2>1. Stages' = Stages
    BY <1>7 DEF vars, Stages
  <2> QED BY <1>7, <2>1 DEF vars, TypeOK, Exists
<1> QED BY <1>1, <1>2, <1>3, <1>4, <1>5, <1>6, <1>7 DEF Next

\* Every variable has its type; ban numbers are unique although ids are not.
THEOREM TypeCorrect == Spec => []TypeOK
BY TypeInit, TypeStep, PTL DEF Spec

-----------------------------------------------------------------------------
\* What one step does to one row of bans.

RowStep(i) ==
    /\ Exists(i)' =>
          \/ /\ Exists(i)
             /\ bans'[i].nr = bans[i].nr
             /\ bans'[i].player = bans[i].player
             /\ bans[i].lifted => bans'[i].lifted
             /\ Due(i) => Due(i)'
          \/ /\ ~Exists(i)
             /\ bans'[i].nr = issued + 1
             /\ issued' = issued + 1
    /\ clears' = 0 /\ Exists(i) => Exists(i)'
    /\ issued <= issued'

LEMMA BansStep ==
    ASSUME TypeOK, [Next]_vars, NEW i \in BanIds
    PROVE  RowStep(i)
<1> USE DEF banVars, warnVars
<1>1. /\ Exists(i) => bans[i] \in BanRow
      /\ now \in Times /\ now \in Int /\ Never # now
      /\ issued \in Int
  BY ModerationAssumption DEF TypeOK, Exists, Times
<1>2. ASSUME bans'[i] = bans[i], issued' = issued, now' = now PROVE RowStep(i)
  BY <1>1, <1>2 DEF Exists, Due, RowStep
<1>3. ASSUME NEW p \in Players, NEW s \in Servers, NEW until \in Terms,
             PluginBan(p, s, until)
      PROVE  RowStep(i)
  <2> DEFINE row == [nr |-> issued + 1, player |-> p, server |-> s,
                     unbanAt |-> until, lifted |-> FALSE]
  <2>1. PICK j \in BanIds : IsNextId(j) /\ bans' = [bans EXCEPT ![j] = row]
    BY <1>3 DEF PluginBan
  <2>2. issued' = issued + 1 /\ now' = now /\ row.nr = issued + 1
    BY <1>3 DEF PluginBan
  <2> HIDE DEF row
  <2>3. CASE i = j
    <3>1. ~Exists(i)
      BY <2>1, <2>3 DEF IsNextId, BanIds
    <3>2. bans'[i] = row
      BY <2>1, <2>3 DEF TypeOK
    <3> QED BY <1>1, <2>2, <3>1, <3>2 DEF RowStep
  <2>4. CASE i # j
    <3>1. bans'[i] = bans[i]
      BY <2>1, <2>4 DEF TypeOK
    <3> QED BY <1>1, <2>2, <3>1 DEF Exists, Due, RowStep
  <2> QED BY <2>3, <2>4
<1>4. ASSUME NEW ids \in SUBSET BanIds, \A j \in ids : Exists(j),
             bans' = Lifted(ids), issued' = issued, now' = now
      PROVE  RowStep(i)
  <2>1. CASE i \in ids
    <3>1. /\ bans'[i].nr = bans[i].nr
          /\ bans'[i].player = bans[i].player
          /\ bans'[i].unbanAt = bans[i].unbanAt
          /\ bans'[i].lifted
      <4> DEFINE row == [nr |-> bans[i].nr, player |-> bans[i].player,
                         server |-> bans[i].server, unbanAt |-> bans[i].unbanAt,
                         lifted |-> TRUE]
      <4>1. /\ row.nr = bans[i].nr /\ row.player = bans[i].player
            /\ row.unbanAt = bans[i].unbanAt /\ row.lifted
        OBVIOUS
      <4>2. bans'[i] = row
        BY <1>4, <2>1, LiftedRows
      <4> HIDE DEF row
      <4> QED BY <4>1, <4>2
    <3>2. bans'[i] # NoBan
      <4>1. bans[i] \in BanRow
        BY <1>1, <1>4, <2>1
      <4>2. bans'[i] = [nr |-> bans[i].nr, player |-> bans[i].player,
                        server |-> bans[i].server, unbanAt |-> bans[i].unbanAt,
                        lifted |-> TRUE]
        BY <1>4, <2>1, LiftedRows
      <4>3. bans'[i] \in BanRow
        BY <4>1, <4>2 DEF BanRow
      <4> QED BY <4>3, ModerationAssumption
    <3> QED BY <1>1, <1>4, <2>1, <3>1, <3>2 DEF Exists, Due, RowStep
  <2>2. CASE i \notin ids
    BY <1>2, <1>4, <2>2, LiftedRows
  <2> QED BY <2>1, <2>2
<1>5. ASSUME NEW j \in BanIds, Exists(j), bans' = ForceUnban(j),
             issued' = issued, now' = now
      PROVE  RowStep(i)
  <2>1. CASE i = j
    <3>1. bans[i] \in BanRow
      BY <1>1, <1>5, <2>1
    <3>2. bans'[i] = [bans[i] EXCEPT !.unbanAt = now]
      BY <1>5, <2>1 DEF ForceUnban, TypeOK
    <3>3. /\ bans'[i] \in BanRow
          /\ bans'[i].nr = bans[i].nr
          /\ bans'[i].player = bans[i].player
          /\ bans'[i].unbanAt = now
          /\ bans'[i].lifted = bans[i].lifted
      BY <1>1, <3>1, <3>2 DEF BanRow
    <3>4. bans'[i] # NoBan
      BY <3>3, ModerationAssumption
    <3> QED BY <1>1, <1>5, <2>1, <3>3, <3>4 DEF Exists, Due, RowStep
  <2>2. CASE i # j
    <3>1. bans'[i] = bans[i]
      BY <1>5, <2>2 DEF ForceUnban, TypeOK
    <3> QED BY <1>2, <1>5, <3>1
  <2> QED BY <2>1, <2>2
<1>6. ASSUME NEW r \in Requests, BanStep(r) PROVE RowStep(i)
  <2>1. CASE UnbanStamp(r)
    <3>1. req[r].ids \in SUBSET BanIds
      BY <2>1, ReqType DEF UnbanStamp
    <3> QED BY <1>4, <2>1, <3>1 DEF UnbanStamp
  <2>2. CASE ForceWrite(r)
    <3>1. req[r].id \in BanIds
      BY <2>2, ReqType DEF ForceWrite
    <3> QED BY <1>5, <2>2, <3>1 DEF ForceWrite
  <2> QED BY <1>2, <1>6, <2>1, <2>2 DEF BanStep, UnbanRead, ForceRead
<1>7. ASSUME NEW r \in Requests, AppealStep(r) PROVE RowStep(i)
  <2>1. CASE ResolveWrite(r)
    <3>1. req[r].appeal \in DOMAIN appeals
      BY <2>1, ReqType DEF ResolveWrite
    <3>2. appeals[req[r].appeal].ban \in BanIds
      <4>1. appeals[req[r].appeal] \in Appeal
        BY <3>1 DEF TypeOK
      <4> QED BY <4>1 DEF Appeal
    <3> QED BY <1>2, <1>5, <2>1, <3>2 DEF ResolveWrite, Approved, Active
  <2> QED BY <1>2, <1>7, <2>1
          DEF AppealStep, AppealRead, AppealCheck, AppealFile, ResolveRead
<1>8. ASSUME NEW r \in Requests, WarnStep(r) \/ Fail(r) PROVE RowStep(i)
  BY <1>2, <1>8 DEF WarnStep, Warn, WarnCount, WarnDecide, WarnEscalate, Fail
<1>9. ASSUME NEW s \in Servers, PollStep(s) \/ PollFail(s) PROVE RowStep(i)
  <2>1. CASE PollStamp(s)
    <3>1. poll[s] \in SUBSET BanIds
      BY DEF TypeOK
    <3> QED BY <1>4, <2>1, <3>1 DEF PollStamp
  <2> QED BY <1>2, <1>9, <2>1 DEF PollStep, PollRead, PollFail
<1>10. CASE ClearLog
  <2>1. clears' # 0 /\ issued' = issued /\ now' = now
    BY <1>10 DEF ClearLog, TypeOK
  <2>2. bans'[i] = bans[i] \/ bans'[i] = NoBan
    BY <1>10 DEF ClearLog
  <2> QED BY <1>1, <2>1, <2>2 DEF Exists, Due, RowStep
<1>11. CASE Tick
  <2>1. bans' = bans /\ issued' = issued /\ now' = now + 1
    BY <1>11 DEF Tick
  <2>2. Exists(i) /\ Due(i) => bans[i].unbanAt \in Int
    BY <1>1, ModerationAssumption DEF BanRow, Due, Times
  <2> QED BY <1>1, <2>1, <2>2 DEF Exists, Due, RowStep
<1>12. CASE UNCHANGED vars
  BY <1>2, <1>12 DEF vars
<1> QED BY <1>3, <1>6, <1>7, <1>8, <1>9, <1>10, <1>11, <1>12 DEF Next

-----------------------------------------------------------------------------
\* Why bans are lifted.

\* Until the log is cleared, what was read of a ban still holds of the row
\* with its id.
ReadsHold ==
    clears = 0 =>
        /\ \A s \in Servers : \A i \in poll[s] : Exists(i) /\ Due(i)
        /\ \A r \in Requests : At(r, "unban") =>
              \A i \in req[r].ids :
                  Exists(i) /\ bans[i].player = req[r].player

\* How a step changes what was read.
LEMMA ReadsMove ==
    ASSUME TypeOK, [Next]_vars
    PROVE  /\ clears' \in {clears, clears + 1}
           /\ \A s \in Servers : poll'[s] \in {poll[s], DueOf(s), {}}
           /\ \A r \in Requests : At(r, "unban")' =>
                 \/ req'[r] = req[r]
                 \/ \E p \in Players :
                       req'[r] = [stage |-> "unban", player |-> p,
                                  ids |-> ActiveOf(p)]
<1> DEFINE Polls == \A s \in Servers : poll'[s] \in {poll[s], DueOf(s), {}}
           Reads == \A r \in Requests : At(r, "unban")' =>
                       \/ req'[r] = req[r]
                       \/ \E p \in Players :
                             req'[r] = [stage |-> "unban", player |-> p,
                                        ids |-> ActiveOf(p)]
<1>1. ASSUME NEW q \in Requests, NEW to, Move(q, to), to.stage # "unban"
      PROVE  Reads
  <2> SUFFICES ASSUME NEW r \in Requests, At(r, "unban")' PROVE req'[r] = req[r]
    OBVIOUS
  <2>1. CASE q \in DOMAIN req
    BY <1>1, <2>1 DEF Move, At
  <2>2. CASE q \notin DOMAIN req
    BY <1>1, <2>2 DEF Move, At
  <2> QED BY <2>1, <2>2
<1>2. ASSUME NEW q \in Requests, NEW p \in Players,
             Move(q, [stage |-> "unban", player |-> p, ids |-> ActiveOf(p)])
      PROVE  Reads
  BY <1>2 DEF Move, At
<1>3. poll' = poll => Polls
  OBVIOUS
<1>4. req' = req => Reads
  OBVIOUS
<1> HIDE DEF Polls, Reads
<1>5. ASSUME NEW r \in Requests, BanStep(r) PROVE clears' = clears /\ Polls /\ Reads
  <2>1. ASSUME NEW p \in Players, UnbanRead(r, p)
        PROVE  clears' = clears /\ Polls /\ Reads
    BY <1>2, <1>3, <2>1 DEF UnbanRead
  <2>2. ASSUME NEW i \in BanIds, ForceRead(r, i)
        PROVE  clears' = clears /\ Polls /\ Reads
    BY <1>1, <1>3, <2>2 DEF ForceRead
  <2>3. CASE UnbanStamp(r)
    BY <1>1, <1>3, <2>3 DEF UnbanStamp, Done
  <2>4. CASE ForceWrite(r)
    BY <1>1, <1>3, <2>4 DEF ForceWrite, Done
  <2> QED BY <1>5, <2>1, <2>2, <2>3, <2>4 DEF BanStep
<1>6. ASSUME NEW r \in Requests, AppealStep(r)
      PROVE  clears' = clears /\ Polls /\ Reads
  <2>1. ASSUME NEW p \in Players, AppealRead(r, p)
        PROVE  clears' = clears /\ Polls /\ Reads
    BY <1>1, <1>3, <2>1 DEF AppealRead
  <2>2. CASE AppealCheck(r)
    <3>1. CASE PendingFor(req[r].id) = {}
      <4>1. Move(r, [req[r] EXCEPT !.stage = "file"])
        BY <2>2, <3>1 DEF AppealCheck
      <4>2. [req[r] EXCEPT !.stage = "file"].stage # "unban"
        BY <2>2, ReqType DEF AppealCheck
      <4> HIDE DEF Move
      <4> QED BY <1>1, <1>3, <2>2, <4>1, <4>2 DEF AppealCheck
    <3>2. CASE PendingFor(req[r].id) # {}
      BY <1>1, <1>3, <2>2, <3>2 DEF AppealCheck, Done
    <3> QED BY <3>1, <3>2
  <2>3. CASE AppealFile(r)
    BY <1>1, <1>3, <2>3 DEF AppealFile, Done
  <2>4. ASSUME NEW a \in DOMAIN appeals, NEW approve \in BOOLEAN,
               ResolveRead(r, a, approve)
        PROVE  clears' = clears /\ Polls /\ Reads
    BY <1>1, <1>3, <2>4 DEF ResolveRead
  <2>5. CASE ResolveWrite(r)
    BY <1>1, <1>3, <2>5 DEF ResolveWrite, Done
  <2> QED BY <1>6, <2>1, <2>2, <2>3, <2>4, <2>5 DEF AppealStep
<1>7. ASSUME NEW r \in Requests, WarnStep(r)
      PROVE  clears' = clears /\ Polls /\ Reads
  <2>1. ASSUME NEW p \in Players, Warn(r, p)
        PROVE  clears' = clears /\ Polls /\ Reads
    BY <1>1, <1>3, <2>1 DEF Warn
  <2>2. CASE WarnCount(r)
    BY <1>1, <1>3, <2>2 DEF WarnCount, Done
  <2>3. CASE WarnDecide(r)
    BY <1>1, <1>3, <2>3 DEF WarnDecide, Done
  <2>4. CASE WarnEscalate(r)
    BY <1>1, <1>3, <2>4 DEF WarnEscalate, Done
  <2> QED BY <1>7, <2>1, <2>2, <2>3, <2>4 DEF WarnStep
<1>8. ASSUME NEW r \in Requests, Fail(r) PROVE clears' = clears /\ Polls /\ Reads
  BY <1>1, <1>3, <1>8 DEF Fail, Failed
<1>9. ASSUME NEW s \in Servers, PollStep(s) \/ PollFail(s)
      PROVE  clears' = clears /\ Polls /\ Reads
  <2>1. clears' = clears /\ req' = req
    BY <1>9 DEF PollStep, PollRead, PollStamp, PollFail
  <2>2. \/ poll' = [poll EXCEPT ![s] = DueOf(s)]
        \/ poll' = [poll EXCEPT ![s] = {}]
    BY <1>9 DEF PollStep, PollRead, PollStamp, PollFail
  <2>3. poll \in [Servers -> SUBSET BanIds]
    BY DEF TypeOK
  <2>4. Polls
    BY <2>2, <2>3 DEF Polls
  <2> QED BY <1>4, <2>1, <2>4
<1>10. ASSUME ClearLog PROVE clears' = clears + 1 /\ Polls /\ Reads
  BY <1>3, <1>4, <1>10 DEF ClearLog
<1>11. ASSUME NEW p \in Players, NEW s \in Servers, NEW until \in Terms,
              PluginBan(p, s, until)
       PROVE  clears' = clears /\ Polls /\ Reads
  BY <1>3, <1>4, <1>11 DEF PluginBan
<1>12. ASSUME Tick \/ UNCHANGED vars PROVE clears' = clears /\ Polls /\ Reads
  BY <1>3, <1>4, <1>12 DEF Tick, vars
<1>13. clears' \in {clears, clears + 1} /\ Polls /\ Reads
  BY <1>5, <1>6, <1>7, <1>8, <1>9, <1>10, <1>11, <1>12 DEF Next
<1> QED BY <1>13 DEF Polls, Reads

LEMMA ReadsStep == TypeOK /\ ReadsHold /\ [Next]_vars => ReadsHold'
<1> SUFFICES ASSUME TypeOK, ReadsHold, [Next]_vars, clears' = 0
             PROVE  /\ \A s \in Servers : \A i \in poll'[s] : Exists(i)' /\ Due(i)'
                    /\ \A r \in Requests : At(r, "unban")' =>
                          \A i \in req'[r].ids :
                              Exists(i)' /\ bans'[i].player = req'[r].player
  BY DEF ReadsHold
<1>1. clears = 0
  BY ReadsMove DEF TypeOK
<1>2. ASSUME NEW i \in BanIds, Exists(i)
      PROVE  /\ Exists(i)' /\ bans'[i].player = bans[i].player
             /\ Due(i) => Due(i)'
  BY <1>2, BansStep DEF RowStep
<1>3. ASSUME NEW s \in Servers, NEW i \in poll'[s]
      PROVE  i \in BanIds /\ Exists(i) /\ Due(i)
  BY <1>1, <1>3, ReadsMove DEF ReadsHold, DueOf, Active, TypeOK
<1>4. ASSUME NEW r \in Requests, At(r, "unban")'
      PROVE  \/ req'[r] = req[r]
             \/ \E p \in Players :
                   req'[r] = [stage |-> "unban", player |-> p, ids |-> ActiveOf(p)]
  BY <1>4, ReadsMove
<1>5. ASSUME NEW r \in Requests, At(r, "unban")', NEW i \in req'[r].ids
      PROVE  i \in BanIds /\ Exists(i) /\ bans[i].player = req'[r].player
  <2>1. CASE req'[r] = req[r]
    <3>1. At(r, "unban") /\ req[r].ids \in SUBSET BanIds
      BY <1>5, <2>1, ReqType DEF At
    <3> QED BY <1>1, <1>5, <2>1, <3>1 DEF ReadsHold
  <2>2. ASSUME NEW p \in Players,
               req'[r] = [stage |-> "unban", player |-> p, ids |-> ActiveOf(p)]
        PROVE  i \in BanIds /\ Exists(i) /\ bans[i].player = req'[r].player
    <3>1. i \in ActiveOf(p) /\ req'[r].player = p
      BY <1>5, <2>2
    <3> QED BY <3>1 DEF ActiveOf, Active
  <2> QED BY <1>4, <1>5, <2>1, <2>2
<1> QED BY <1>2, <1>3, <1>5

\* Whatever was read how long ago, a ban is lifted because it is due or its
\* player is unbanned, until the log is first cleared.
THEOREM LiftedJustly == Spec => LiftedForAReason
<1> DEFINE Just == clears = 0 =>
         \A i \in BanIds :
            Active(i) /\ Exists(i)' /\ bans'[i].lifted =>
               \/ Due(i)
               \/ \E r \in Requests : At(r, "unban") /\ req[r].player = bans[i].player
<1>1. Init => ReadsHold
  BY DEF Init, ReadsHold, At, Idle
<1>2. TypeOK /\ ReadsHold /\ [Next]_vars => [Just]_vars
  <2> SUFFICES ASSUME TypeOK, ReadsHold, Next, clears = 0, NEW i \in BanIds,
                      Active(i), Exists(i)', bans'[i].lifted, ~Due(i)
               PROVE  \E r \in Requests :
                         At(r, "unban") /\ req[r].player = bans[i].player
    OBVIOUS
  <2>1. bans'[i] # bans[i] /\ ~bans[i].lifted /\ bans[i] \in BanRow
    BY DEF Active, Exists, TypeOK
  <2>2. \A j \in BanIds : bans' # ForceUnban(j)
    BY <2>1 DEF ForceUnban, TypeOK, BanRow
  <2>3. ASSUME NEW p \in Players, NEW s \in Servers, NEW until \in Terms
        PROVE  ~PluginBan(p, s, until)
    <3> SUFFICES ASSUME PluginBan(p, s, until) PROVE FALSE
      OBVIOUS
    <3>1. PICK j \in BanIds :
             /\ IsNextId(j)
             /\ bans' = [bans EXCEPT ![j] =
                  [nr |-> issued + 1, player |-> p, server |-> s,
                   unbanAt |-> until, lifted |-> FALSE]]
      BY DEF PluginBan
    <3>2. i # j
      BY <3>1 DEF IsNextId, Active, BanIds
    <3> QED BY <2>1, <3>1, <3>2 DEF TypeOK
  <2>4. \A s \in Servers : ~PollStamp(s)
    BY <2>1 DEF PollStamp, Lifted, ReadsHold
  <2>5. \E r \in Requests : UnbanStamp(r)
    <3>1. ASSUME NEW r \in Requests, BanStep(r), ~UnbanStamp(r) PROVE FALSE
      BY <2>1, <2>2, <3>1, ReqType DEF banVars, BanStep, UnbanRead, ForceRead, ForceWrite
    <3>2. ASSUME NEW r \in Requests, AppealStep(r) PROVE FALSE
      <4>1. ASSUME ResolveWrite(r) PROVE FALSE
        <5>1. req[r].appeal \in DOMAIN appeals
          BY <4>1, ReqType DEF ResolveWrite
        <5>2. appeals[req[r].appeal] \in Appeal
          BY <5>1 DEF TypeOK
        <5>3. appeals[req[r].appeal].ban \in BanIds
          BY <5>2 DEF Appeal
        <5> QED BY <2>1, <2>2, <4>1, <5>3 DEF ResolveWrite, Approved
      <4> QED BY <2>1, <3>2, <4>1
              DEF banVars, AppealStep, AppealRead, AppealCheck, AppealFile, ResolveRead
    <3>3. ASSUME NEW r \in Requests, WarnStep(r) \/ Fail(r) PROVE FALSE
      BY <2>1, <3>3
         DEF banVars, WarnStep, Warn, WarnCount, WarnDecide, WarnEscalate, Fail
    <3>4. ASSUME NEW s \in Servers, PollStep(s) \/ PollFail(s) PROVE FALSE
      BY <2>1, <2>4, <3>4 DEF banVars, PollStep, PollRead, PollFail
    <3>5. ~ClearLog
      BY <2>1 DEF ClearLog, Active
    <3>6. ~Tick
      BY <2>1 DEF banVars, Tick
    <3> QED BY <2>3, <3>1, <3>2, <3>3, <3>4, <3>5, <3>6 DEF Next
  <2>6. PICK r \in Requests : UnbanStamp(r)
    BY <2>5
  <2>7. i \in req[r].ids
    BY <2>1, <2>6 DEF UnbanStamp, Lifted
  <2> QED BY <2>6, <2>7 DEF ReadsHold, UnbanStamp
<1> QED BY <1>1, <1>2, TypeCorrect, ReadsStep, PTL DEF Spec, LiftedForAReason

-----------------------------------------------------------------------------
\* What becomes of an approved appeal.

\* Only the row with id i can hold the ban numbered n.
About(i, n) ==
    /\ n <= issued
    /\ \A j \in BanIds : Exists(j) /\ bans[j].nr = n => j = i

Appealing(r) == At(r, "appeal") \/ At(r, "file")

AppealInv ==
    /\ \A a \in DOMAIN appeals : About(appeals[a].ban, appeals[a].nr)
    /\ \A r \in Requests : Appealing(r) => About(req[r].id, req[r].nr)

LEMMA AboutStep ==
    ASSUME TypeOK, [Next]_vars, NEW i \in BanIds, NEW n \in 1..MaxBans, About(i, n)
    PROVE  About(i, n)'
<1>1. issued \in Int /\ issued <= issued' /\ issued' \in Int
  BY BansStep, TypeStep DEF TypeOK, RowStep
<1>2. ASSUME NEW j \in BanIds, Exists(j)', bans'[j].nr = n PROVE j = i
  BY <1>1, <1>2, BansStep DEF RowStep, About
<1> QED BY <1>1, <1>2 DEF About

\* How a step changes an appeal.
Resolved(r, a) ==
    /\ ResolveWrite(r)
    /\ req[r].appeal = a
    /\ appeals'[a].status = Decision(req[r].approve)

AppealMove(a) ==
    \/ /\ a \in DOMAIN appeals
       /\ appeals'[a].ban = appeals[a].ban
       /\ appeals'[a].nr = appeals[a].nr
       /\ \/ appeals'[a].status = appeals[a].status
          \/ \E r \in Requests : Resolved(r, a)
    \/ \E r \in Requests :
          /\ At(r, "file")
          /\ appeals'[a].ban = req[r].id
          /\ appeals'[a].nr = req[r].nr
          /\ appeals'[a].status = "pending"

LEMMA AppealsMove ==
    ASSUME TypeOK, [Next]_vars, NEW a \in DOMAIN appeals'
    PROVE  AppealMove(a)
<1>1. appeals' = appeals => AppealMove(a)
  BY DEF AppealMove
<1>2. ASSUME NEW r \in Requests, AppealFile(r) PROVE AppealMove(a)
  <2> DEFINE filed == [ban |-> req[r].id, nr |-> req[r].nr,
                       player |-> req[r].player, status |-> "pending"]
  <2>1. appeals \in Seq(Appeal) /\ appeals' = Append(appeals, filed)
    BY <1>2 DEF AppealFile, TypeOK
  <2>2. At(r, "file")
    BY <1>2 DEF AppealFile
  <2>3. CASE a \in DOMAIN appeals
    BY <2>1, <2>3 DEF AppealMove
  <2>4. CASE a \notin DOMAIN appeals
    <3>1. appeals'[a] = filed
      <4> HIDE DEF filed
      <4> QED BY <2>1, <2>4
    <3> QED BY <2>2, <3>1 DEF AppealMove
  <2> QED BY <2>3, <2>4
<1>3. ASSUME NEW r \in Requests, ResolveWrite(r) PROVE AppealMove(a)
  <2> DEFINE b == req[r].appeal
             s == Decision(req[r].approve)
  <2>1. b \in DOMAIN appeals
    BY <1>3, ReqType DEF ResolveWrite
  <2>2. appeals' = [appeals EXCEPT ![b].status = s]
    BY <1>3 DEF ResolveWrite
  <2>3. a \in DOMAIN appeals /\ DOMAIN appeals' = DOMAIN appeals
    BY <2>2
  <2>4. appeals[a] \in Appeal
    BY <2>3 DEF TypeOK
  <2>5. CASE a = b
    <3>1. appeals'[a] = [appeals[a] EXCEPT !.status = s]
      BY <2>2, <2>3, <2>5
    <3>2. /\ appeals'[a].ban = appeals[a].ban /\ appeals'[a].nr = appeals[a].nr
          /\ appeals'[a].status = s
      <4> HIDE DEF s
      <4> QED BY <2>4, <3>1 DEF Appeal
    <3> QED BY <1>3, <2>3, <2>5, <3>2 DEF AppealMove, Resolved
  <2>6. CASE a # b
    <3>1. appeals'[a] = appeals[a]
      BY <2>2, <2>3, <2>6
    <3> QED BY <2>3, <3>1 DEF AppealMove
  <2> QED BY <2>5, <2>6
<1>4. ASSUME NEW r \in Requests, AppealStep(r) PROVE AppealMove(a)
  BY <1>1, <1>2, <1>3, <1>4 DEF AppealStep, AppealRead, AppealCheck, ResolveRead, banVars
<1>5. ASSUME NEW r \in Requests, BanStep(r) \/ WarnStep(r) \/ Fail(r)
      PROVE  appeals' = appeals
  BY <1>5 DEF banVars, BanStep, UnbanRead, UnbanStamp, ForceRead, ForceWrite,
     WarnStep, Warn, WarnCount, WarnDecide, WarnEscalate, Fail
<1>6. ASSUME NEW s \in Servers, PollStep(s) \/ PollFail(s)
      PROVE  appeals' = appeals
  BY <1>6 DEF banVars, PollStep, PollRead, PollStamp, PollFail
<1>7. ASSUME NEW p \in Players, NEW s \in Servers, NEW until \in Terms,
             PluginBan(p, s, until)
      PROVE  appeals' = appeals
  BY <1>7 DEF PluginBan
<1>8. ASSUME ClearLog \/ Tick \/ UNCHANGED vars PROVE appeals' = appeals
  BY <1>8 DEF ClearLog, Tick, vars, banVars
<1> QED BY <1>1, <1>4, <1>5, <1>6, <1>7, <1>8 DEF Next

\* How a step changes a request that is appealing after it.
AppealingMove(r) ==
    \/ /\ Appealing(r)
       /\ req'[r].id = req[r].id
       /\ req'[r].nr = req[r].nr
    \/ \E i \in BanIds :
          Exists(i) /\ req'[r].id = i /\ req'[r].nr = bans[i].nr

LEMMA AppealingsMove ==
    ASSUME TypeOK, [Next]_vars, NEW r \in Requests, Appealing(r)'
    PROVE  AppealingMove(r)
<1>1. req' = req => AppealingMove(r)
  BY DEF AppealingMove, Appealing, At
<1>2. ASSUME NEW q \in Requests, NEW to, Move(q, to),
             to.stage \notin {"appeal", "file"}
      PROVE  AppealingMove(r)
  <2>1. req'[r] = req[r] \/ req'[r] = to
    BY <1>2 DEF Move, Appealing, At
  <2> QED BY <1>2, <2>1 DEF AppealingMove, Appealing, At
<1>3. ASSUME NEW q \in Requests, BanStep(q) PROVE AppealingMove(r)
  <2> HIDE DEF Move
  <2> QED BY <1>2, <1>3 DEF BanStep, UnbanRead, UnbanStamp, ForceRead, ForceWrite, Done
<1>4. ASSUME NEW q \in Requests, NEW p \in Players, AppealRead(q, p)
      PROVE  AppealingMove(r)
  <2>1. PICK i \in ActiveOf(p) :
           Move(q, [stage |-> "appeal", player |-> p, id |-> i, nr |-> bans[i].nr])
    BY <1>4 DEF AppealRead
  <2>2. i \in BanIds /\ Exists(i)
    BY DEF ActiveOf, Active
  <2>3. CASE q = r
    <3> DEFINE read == [stage |-> "appeal", player |-> p, id |-> i,
                        nr |-> bans[i].nr]
    <3>1. read.id = i /\ read.nr = bans[i].nr /\ Move(q, read)
      BY <2>1
    <3>2. req'[r] = req[r] \/ req'[r] = read
      <4> HIDE DEF read
      <4> QED BY <2>3, <3>1 DEF Move, Appealing, At
    <3>3. CASE req'[r] = req[r]
      BY <3>3 DEF AppealingMove, Appealing, At
    <3>4. CASE req'[r] = read
      <4> HIDE DEF read
      <4> QED BY <2>2, <3>1, <3>4 DEF AppealingMove
    <3> QED BY <3>2, <3>3, <3>4
  <2>4. CASE q # r
    <3>1. req'[r] = req[r]
      BY <2>1, <2>4 DEF Move, Appealing, At
    <3> QED BY <3>1 DEF AppealingMove, Appealing, At
  <2> QED BY <2>3, <2>4
<1>5. ASSUME NEW q \in Requests, AppealCheck(q) PROVE AppealingMove(r)
  <2>1. At(q, "appeal")
    BY <1>5 DEF AppealCheck
  <2>2. CASE Move(q, Done)
    BY <1>2, <2>2 DEF Done
  <2>3. CASE Move(q, [req[q] EXCEPT !.stage = "file"])
    <3>1. req'[r] = req[r] \/ (q = r /\ req'[r] = [req[r] EXCEPT !.stage = "file"])
      BY <2>3 DEF Move, Appealing, At
    <3>2. Appealing(r) /\ req'[r].id = req[r].id /\ req'[r].nr = req[r].nr
      BY <2>1, <3>1, ReqType DEF Appealing, At
    <3> QED BY <3>2 DEF AppealingMove
  <2> QED BY <1>5, <2>2, <2>3 DEF AppealCheck
<1>6. ASSUME NEW q \in Requests, AppealStep(q) PROVE AppealingMove(r)
  <2>1. CASE AppealFile(q)
    BY <1>2, <2>1 DEF AppealFile, Done
  <2>2. ASSUME NEW a \in DOMAIN appeals, NEW approve \in BOOLEAN,
               ResolveRead(q, a, approve)
        PROVE  AppealingMove(r)
    BY <1>2, <2>2 DEF ResolveRead
  <2>3. CASE ResolveWrite(q)
    BY <1>2, <2>3 DEF ResolveWrite, Done
  <2> QED BY <1>4, <1>5, <1>6, <2>1, <2>2, <2>3 DEF AppealStep
<1>7. ASSUME NEW q \in Requests, WarnStep(q) \/ Fail(q) PROVE AppealingMove(r)
  <2>1. ASSUME NEW p \in Players, Warn(q, p) PROVE AppealingMove(r)
    BY <1>2, <2>1 DEF Warn
  <2>2. CASE WarnCount(q)
    BY <1>2, <2>2 DEF WarnCount, Done
  <2>3. CASE WarnDecide(q)
    BY <1>2, <2>3 DEF WarnDecide, Done
  <2>4. CASE WarnEscalate(q) \/ Fail(q)
    BY <1>2, <2>4 DEF WarnEscalate, Fail, Done, Failed
  <2> QED BY <1>7, <2>1, <2>2, <2>3, <2>4 DEF WarnStep
<1>8. ASSUME NEW s \in Servers, PollStep(s) \/ PollFail(s) PROVE req' = req
  BY <1>8 DEF PollStep, PollRead, PollStamp, PollFail
<1>9. ASSUME NEW p \in Players, NEW s \in Servers, NEW until \in Terms,
             PluginBan(p, s, until)
      PROVE  req' = req
  BY <1>9 DEF PluginBan
<1>10. ASSUME ClearLog \/ Tick \/ UNCHANGED vars PROVE req' = req
  BY <1>10 DEF ClearLog, Tick, vars
<1> QED BY <1>1, <1>3, <1>6, <1>7, <1>8, <1>9, <1>10 DEF Next

LEMMA AppealInvStep == TypeOK /\ AppealInv /\ [Next]_vars => AppealInv'
<1> SUFFICES ASSUME TypeOK, AppealInv, [Next]_vars PROVE AppealInv'
  OBVIOUS
<1>1. ASSUME NEW r \in Requests, Appealing(r)
      PROVE  /\ req[r].id \in BanIds /\ req[r].nr \in 1..MaxBans
             /\ About(req[r].id, req[r].nr)
  BY <1>1, ReqType DEF AppealInv, Appealing
<1>2. ASSUME NEW a \in DOMAIN appeals'
      PROVE  About(appeals[a].ban, appeals[a].nr)'
  <2>1. CASE /\ a \in DOMAIN appeals
             /\ appeals'[a].ban = appeals[a].ban
             /\ appeals'[a].nr = appeals[a].nr
    <3>1. appeals[a] \in Appeal
      BY <2>1 DEF TypeOK
    <3>2. appeals[a].ban \in BanIds /\ appeals[a].nr \in 1..MaxBans
      BY <3>1 DEF Appeal
    <3> QED BY <2>1, <3>2, AboutStep DEF AppealInv, About
  <2>2. ASSUME NEW r \in Requests, At(r, "file"),
               appeals'[a].ban = req[r].id, appeals'[a].nr = req[r].nr
        PROVE  About(appeals[a].ban, appeals[a].nr)'
    BY <1>1, <2>2, AboutStep DEF AppealInv, Appealing, About
  <2> QED BY <2>1, <2>2, AppealsMove DEF AppealMove
<1>3. ASSUME NEW r \in Requests, Appealing(r)'
      PROVE  About(req[r].id, req[r].nr)'
  <2>1. CASE /\ Appealing(r) /\ req'[r].id = req[r].id /\ req'[r].nr = req[r].nr
    BY <1>1, <2>1, AboutStep DEF AppealInv, About
  <2>2. ASSUME NEW i \in BanIds, Exists(i), req'[r].id = i, req'[r].nr = bans[i].nr
        PROVE  About(req[r].id, req[r].nr)'
    <3>1. bans[i].nr \in 1..MaxBans
      <4>1. bans[i] \in BanRow
        BY <2>2 DEF TypeOK, Exists
      <4> QED BY <4>1 DEF BanRow
    <3>2. About(i, bans[i].nr)
      BY <2>2 DEF TypeOK, About
    <3> QED BY <2>2, <3>1, <3>2, AboutStep DEF About
  <2> QED BY <1>3, <2>1, <2>2, AppealingsMove DEF AppealingMove
<1> QED BY <1>2, <1>3 DEF AppealInv

\* An approved appeal makes its ban due, and a due ban stays due until it is
\* lifted, however many bans reuse ids and whoever answers the appeal twice.
THEOREM ApprovedAreDue == Spec => []ApprovalIsExecuted
<1>1. Init => AppealInv /\ ApprovalIsExecuted
  BY DEF Init, AppealInv, ApprovalIsExecuted, Appealing, At, Idle
<1>2. TypeOK /\ AppealInv /\ ApprovalIsExecuted /\ [Next]_vars
        => ApprovalIsExecuted'
  <2> SUFFICES ASSUME TypeOK, AppealInv, ApprovalIsExecuted, [Next]_vars,
                      NEW a \in DOMAIN appeals', NEW i \in BanIds,
                      appeals'[a].status = "approved", Active(i)',
                      bans'[i].nr = appeals'[a].nr
               PROVE  Due(i)'
    BY DEF ApprovalIsExecuted
  <2>1. RowStep(i)
    BY BansStep
  <2>2. PICK b : b = appeals[a]
    OBVIOUS
  <2>3. a \in DOMAIN appeals /\ appeals'[a].nr = appeals[a].nr
    BY AppealsMove DEF AppealMove
  <2>4. appeals[a].nr <= issued /\ issued \in Int
    BY <2>3 DEF AppealInv, About, TypeOK
  <2>5. Active(i) /\ bans[i].nr = appeals[a].nr /\ (Due(i) => Due(i)')
    BY <2>1, <2>3, <2>4 DEF RowStep, Active, TypeOK
  <2>6. CASE appeals[a].status = "approved"
    BY <2>3, <2>5, <2>6 DEF ApprovalIsExecuted
  <2>7. ASSUME NEW r \in Requests, Resolved(r, a) PROVE Due(i)'
    <3>1. req[r].approve
      BY <2>7, ReqType DEF Resolved, ResolveWrite, Decision
    <3>2. i = appeals[a].ban
      BY <2>3, <2>5 DEF AppealInv, About, Active
    <3>3. bans' = ForceUnban(i) /\ now' = now
      BY <2>5, <2>7, <3>1, <3>2 DEF Resolved, ResolveWrite, Approved
    <3>4. bans[i] \in BanRow /\ bans'[i] = [bans[i] EXCEPT !.unbanAt = now]
      BY <2>5, <3>3 DEF ForceUnban, TypeOK, Active, Exists
    <3>5. bans'[i].unbanAt = now
      BY <3>4 DEF BanRow
    <3> QED BY <3>3, <3>5, ModerationAssumption DEF Due, TypeOK, Times
  <2> QED BY <2>6, <2>7, AppealsMove DEF AppealMove
<1> QED BY <1>1, <1>2, TypeCorrect, AppealInvStep, PTL DEF Spec

-----------------------------------------------------------------------------
\* How often warnings escalate, however they overlap.

Last(p) == LastCount(mark[p])

\* The escalations of p and those that its warnings under way may still make, less one
\* for each that overlapped; and the warnings that they are worth.
Grants(p) == escalated[p] - overlapped[p] + Cardinality(UnderWay(p))
Worth(p) == Grants(p) * Threshold

\* m is what the mark was when the first of the warnings under way began: none of
\* them can have read a smaller one, so none of them writes less than m + Threshold.
Began(p, m) ==
    /\ m <= Last(p)
    /\ Worth(p) <= m + Threshold
    /\ UnderWay(p) = {} => Worth(p) <= Last(p)
    /\ \A r \in UnderWay(p) : At(r, "escalate") => req[r].count >= m + Threshold

\* What a warning has counted lacks only warnings that overlap it.
CountedLately(p) ==
    \A r \in UnderWay(p) :
        At(r, "counted") \/ At(r, "escalate") =>
            req[r].count <= warned[p] /\ warned[p] - req[r].count <= overlapped[p]

WarnInvOf(p) == Last(p) <= warned[p] /\ CountedLately(p) /\ \E m \in Nat : Began(p, m)
WarnInv == \A p \in Players : WarnInvOf(p)

LEMMA WarnMove ==
    ASSUME TypeOK, NEW r \in Requests, NEW to, Move(r, to)
    PROVE  /\ req'[r] = to
           /\ \A q \in Requests : q # r => req'[q] = req[q]
BY DEF Move, TypeOK

LEMMA WarnNumbers ==
    ASSUME TypeOK, NEW p \in Players
    PROVE  /\ Last(p) \in Nat /\ warned[p] \in Nat
           /\ escalated[p] \in Nat /\ overlapped[p] \in Nat
           /\ IsFiniteSet(UnderWay(p)) /\ Cardinality(UnderWay(p)) \in Nat
           /\ UnderWay(p) # {} => Cardinality(UnderWay(p)) >= 1
           /\ UnderWay(p) = {} => Cardinality(UnderWay(p)) = 0
<1>1. IsFiniteSet(UnderWay(p))
  BY FS_Subset, ModerationAssumption DEF UnderWay
<1> QED BY <1>1, FS_CardinalityType, FS_EmptySet DEF TypeOK, Last, LastCount

\* Worth in steps of a threshold.
LEMMA Products ==
    ASSUME NEW x \in Int
    PROVE  /\ x * Threshold \in Int
           /\ (x + 1) * Threshold = x * Threshold + Threshold
           /\ (x - 1) * Threshold = x * Threshold - Threshold
BY ModerationAssumption

LEMMA WorthMoves ==
    ASSUME TypeOK, NEW p \in Players
    PROVE  /\ Grants(p) \in Int /\ Worth(p) \in Int
           /\ Grants(p)' = Grants(p) => Worth(p)' = Worth(p)
           /\ Grants(p)' = Grants(p) + 1 => Worth(p)' = Worth(p) + Threshold
           /\ Grants(p)' = Grants(p) - 1 => Worth(p)' = Worth(p) - Threshold
<1>1. PICK x \in Int : x = Grants(p)
  BY WarnNumbers DEF Grants
<1>2. PICK y : y = Grants(p)'
  OBVIOUS
<1>3. Worth(p) = x * Threshold /\ Worth(p)' = y * Threshold
  BY <1>1, <1>2 DEF Worth
<1>4. /\ y = x => Worth(p)' = Worth(p)
      /\ y = x + 1 => Worth(p)' = Worth(p) + Threshold
      /\ y = x - 1 => Worth(p)' = Worth(p) - Threshold
      /\ Worth(p) \in Int
  BY <1>3, Products
<1> HIDE DEF Worth, Grants
<1> QED BY <1>1, <1>2, <1>4

\* What WarnInvOf is about stays.
SameNumbers(p) ==
    /\ mark'[p] = mark[p] /\ warned'[p] = warned[p]
    /\ escalated'[p] = escalated[p] /\ overlapped'[p] = overlapped[p]

\* A step that none of a player's warnings notices.
LEMMA WarnQuiet ==
    ASSUME TypeOK, TypeOK', NEW p \in Players, WarnInvOf(p), SameNumbers(p),
           \A r \in Requests : r \in UnderWay(p)' <=> r \in UnderWay(p),
           \A r \in UnderWay(p) : req'[r] = req[r]
    PROVE  WarnInvOf(p)'
<1>1. UnderWay(p)' = UnderWay(p)
  BY DEF UnderWay
<1>2. Last(p)' = Last(p)
  BY DEF SameNumbers, Last, LastCount
<1>3. Worth(p)' = Worth(p)
  BY <1>1 DEF Worth, Grants, SameNumbers
<1>4. CountedLately(p)'
  BY <1>1 DEF WarnInvOf, CountedLately, SameNumbers, At
<1>5. \A m \in Nat : Began(p, m) => Began(p, m)'
  BY <1>1, <1>2, <1>3 DEF Began, At
<1> QED BY <1>2, <1>4, <1>5 DEF WarnInvOf, SameNumbers

\* A warning under way counts, or decides to escalate.
LEMMA WarnStays ==
    ASSUME TypeOK, TypeOK', NEW p \in Players, WarnInvOf(p), SameNumbers(p),
           NEW r \in UnderWay(p), r \in UnderWay(p)',
           \A q \in Requests : q # r => req'[q] = req[q],
           req'[r].count \in Nat, req'[r].count <= warned[p],
           warned[p] - req'[r].count <= overlapped[p],
           At(r, "escalate")' => req'[r].count - Last(p) >= Threshold
    PROVE  WarnInvOf(p)'
<1>1. UnderWay(p)' = UnderWay(p)
  BY DEF UnderWay, Warning
<1>2. Last(p)' = Last(p)
  BY DEF SameNumbers, Last, LastCount
<1>3. Worth(p)' = Worth(p)
  BY <1>1 DEF Worth, Grants, SameNumbers
<1>4. CountedLately(p)'
  BY <1>1 DEF WarnInvOf, CountedLately, SameNumbers, At, UnderWay
<1>5. ASSUME NEW m \in Nat, Began(p, m) PROVE Began(p, m)'
  <2>1. At(r, "escalate")' => req'[r].count >= m + Threshold
    BY <1>5, WarnNumbers, ModerationAssumption DEF Began
  <2>2. \A q \in UnderWay(p)' : At(q, "escalate")' => req'[q].count >= m + Threshold
    BY <1>1, <1>5, <2>1 DEF Began, At, UnderWay
  <2> QED BY <1>1, <1>2, <1>3, <1>5, <2>2 DEF Began
<1> QED BY <1>2, <1>4, <1>5 DEF WarnInvOf, SameNumbers

\* One leaves, without having escalated.
LEMMA WarnLeaves ==
    ASSUME TypeOK, TypeOK', NEW p \in Players, WarnInvOf(p), SameNumbers(p),
           NEW r \in UnderWay(p), UnderWay(p)' = UnderWay(p) \ {r},
           \A q \in Requests : q # r => req'[q] = req[q]
    PROVE  WarnInvOf(p)'
<1>1. Last(p)' = Last(p)
  BY DEF SameNumbers, Last, LastCount
<1>2. Cardinality(UnderWay(p)') = Cardinality(UnderWay(p)) - 1
  BY WarnNumbers, FS_RemoveElement
<1>3. Worth(p)' = Worth(p) - Threshold /\ Worth(p) \in Int
  <2>1. Grants(p)' = Grants(p) - 1
    BY <1>2, WarnNumbers DEF Grants, SameNumbers
  <2> QED BY <2>1, WorthMoves
<1>4. CountedLately(p)'
  BY DEF WarnInvOf, CountedLately, SameNumbers, At, UnderWay
<1>5. ASSUME NEW m \in Nat, Began(p, m) PROVE Began(p, m)'
  <2>1. \A q \in UnderWay(p)' : At(q, "escalate")' => req'[q].count >= m + Threshold
    BY <1>5 DEF Began, At, UnderWay
  <2>2. Worth(p)' <= m /\ m <= Last(p)'
    BY <1>1, <1>3, <1>5, ModerationAssumption DEF Began
  <2>3. Worth(p)' \in Int /\ Last(p)' \in Int
    BY <1>1, <1>3, WarnNumbers, ModerationAssumption
  <2> HIDE DEF Worth, Last
  <2> QED BY <2>1, <2>2, <2>3, ModerationAssumption DEF Began
<1> QED BY <1>1, <1>4, <1>5 DEF WarnInvOf, SameNumbers

\* One escalates.
LEMMA WarnLifts ==
    ASSUME TypeOK, TypeOK', NEW p \in Players, WarnInvOf(p),
           NEW r \in UnderWay(p), At(r, "escalate"), req[r].count \in Nat,
           UnderWay(p)' = UnderWay(p) \ {r},
           \A q \in Requests : q # r => req'[q] = req[q],
           mark'[p] = req[r].count, escalated'[p] = escalated[p] + 1,
           warned'[p] = warned[p], overlapped'[p] = overlapped[p]
    PROVE  WarnInvOf(p)'
<1>1. Last(p)' = req[r].count
  BY ModerationAssumption DEF Last, LastCount
<1>2. Cardinality(UnderWay(p)') = Cardinality(UnderWay(p)) - 1
  BY WarnNumbers, FS_RemoveElement
<1>3. Worth(p)' = Worth(p) /\ Worth(p) \in Int
  <2>1. Grants(p)' = Grants(p)
    BY <1>2, WarnNumbers DEF Grants
  <2> QED BY <2>1, WorthMoves
<1>4. CountedLately(p)'
  BY DEF WarnInvOf, CountedLately, At, UnderWay
<1>5. ASSUME NEW m \in Nat, Began(p, m) PROVE Began(p, m)'
  <2>1. \A q \in UnderWay(p)' : At(q, "escalate")' => req'[q].count >= m + Threshold
    BY <1>5 DEF Began, At, UnderWay
  <2>2. req[r].count >= m + Threshold /\ Worth(p) <= m + Threshold
    BY <1>5 DEF Began
  <2> HIDE DEF Worth, Last
  <2>3. Worth(p)' <= m + Threshold /\ m <= Last(p)' /\ Worth(p)' <= Last(p)'
    BY <1>1, <1>3, <2>2, ModerationAssumption
  <2> QED BY <2>1, <2>3 DEF Began
<1>6. Last(p)' <= warned'[p]
  BY <1>1 DEF WarnInvOf, CountedLately
<1> QED BY <1>4, <1>5, <1>6 DEF WarnInvOf

\* One begins, alone or while another is under way.
LEMMA WarnBegins ==
    ASSUME TypeOK, TypeOK', NEW p \in Players, WarnInvOf(p),
           NEW r \in Requests, r \notin UnderWay(p), UnderWay(p)' = UnderWay(p) \cup {r},
           \A q \in Requests : q # r => req'[q] = req[q], At(r, "warned")',
           mark'[p] = mark[p], escalated'[p] = escalated[p], warned'[p] = warned[p] + 1,
           overlapped'[p] = overlapped[p] + (IF UnderWay(p) = {} THEN 0 ELSE 1)
    PROVE  WarnInvOf(p)'
<1>1. Last(p)' = Last(p) /\ Last(p) \in Nat
  BY WarnNumbers DEF Last, LastCount
<1>2. Cardinality(UnderWay(p)') = Cardinality(UnderWay(p)) + 1
  BY WarnNumbers, FS_AddElement
<1>3. \A q \in UnderWay(p)' : q # r => q \in UnderWay(p) /\ req'[q] = req[q]
  BY DEF UnderWay
<1>4. CountedLately(p)'
  <2> SUFFICES ASSUME NEW q \in UnderWay(p)', At(q, "counted")' \/ At(q, "escalate")'
               PROVE  /\ req'[q].count <= warned'[p]
                      /\ warned'[p] - req'[q].count <= overlapped'[p]
    BY DEF CountedLately
  <2>1. q # r
    BY DEF At
  <2>2. /\ q \in UnderWay(p) /\ req'[q] = req[q] /\ UnderWay(p) # {}
        /\ At(q, "counted") \/ At(q, "escalate")
    BY <1>3, <2>1 DEF At
  <2>3. req[q].count \in Nat
    BY <2>2, ReqType DEF UnderWay
  <2>4. req[q].count <= warned[p] /\ warned[p] - req[q].count <= overlapped[p]
    BY <2>2 DEF WarnInvOf, CountedLately
  <2> QED BY <2>2, <2>3, <2>4, WarnNumbers
<1>5. CASE UnderWay(p) = {}
  <2>1. Worth(p)' = Worth(p) + Threshold /\ Worth(p) \in Int
    <3>1. Grants(p)' = Grants(p) + 1
      BY <1>2, <1>5, WarnNumbers DEF Grants
    <3> QED BY <3>1, WorthMoves
  <2>2. Worth(p) <= Last(p)
    BY <1>5 DEF WarnInvOf, Began
  <2>3. \A q \in UnderWay(p)' : ~At(q, "escalate")'
    BY <1>3, <1>5 DEF At
  <2>4. Worth(p)' <= Last(p) + Threshold
    BY <1>1, <2>1, <2>2, ModerationAssumption
  <2>5. Began(p, Last(p))'
    BY <1>1, <2>3, <2>4 DEF Began
  <2>6. \E m \in Nat : Began(p, m)'
    BY <1>1, <2>5
  <2> QED BY <1>1, <1>4, <2>6, WarnNumbers DEF WarnInvOf
<1>6. CASE UnderWay(p) # {}
  <2>1. Worth(p)' = Worth(p)
    <3>1. Grants(p)' = Grants(p)
      BY <1>2, <1>6, WarnNumbers DEF Grants
    <3> QED BY <3>1, WorthMoves
  <2>2. \A q \in UnderWay(p)' : At(q, "escalate")' =>
            q \in UnderWay(p) /\ req'[q] = req[q] /\ At(q, "escalate")
    BY <1>3 DEF At
  <2>3. \A m \in Nat : Began(p, m) => Began(p, m)'
    BY <1>1, <1>6, <2>1, <2>2 DEF Began
  <2> QED BY <1>1, <1>4, <2>3, WarnNumbers DEF WarnInvOf
<1> QED BY <1>5, <1>6

\* Whoever moves, only its own place among the warnings under way changes.
LEMMA UnderWayMoves ==
    ASSUME TypeOK, NEW r \in Requests, NEW to, Move(r, to), NEW p \in Players
    PROVE  /\ to.stage \in {"warned", "counted", "escalate"} /\ to.player = p
              => UnderWay(p)' = UnderWay(p) \cup {r}
           /\ ~(to.stage \in {"warned", "counted", "escalate"} /\ to.player = p)
              => UnderWay(p)' = UnderWay(p) \ {r}
BY WarnMove DEF UnderWay, Warning

\* A request that writes nothing about warnings ends, or goes on with something else.
LEMMA WarnEnds ==
    ASSUME TypeOK, TypeOK', WarnInv, UNCHANGED warnVars, NEW r \in Requests, NEW to,
           Move(r, to), to.stage \notin {"warned", "counted", "escalate"}
    PROVE  WarnInv'
<1> SUFFICES ASSUME NEW p \in Players PROVE WarnInvOf(p)'
  BY DEF WarnInv
<1>1. WarnInvOf(p) /\ SameNumbers(p)
  BY DEF WarnInv, warnVars, SameNumbers
<1>2. UnderWay(p)' = UnderWay(p) \ {r} /\ \A q \in Requests : q # r => req'[q] = req[q]
  BY UnderWayMoves, WarnMove
<1>3. CASE r \in UnderWay(p)
  BY <1>1, <1>2, <1>3, WarnLeaves
<1>4. CASE r \notin UnderWay(p)
  <2>1. UnderWay(p)' = UnderWay(p) /\ \A q \in UnderWay(p) : req'[q] = req[q]
    BY <1>2, <1>4 DEF UnderWay
  <2> QED BY <1>1, <2>1, WarnQuiet
<1> QED BY <1>3, <1>4

\* The warnings of the other players.
LEMMA WarnOthers ==
    ASSUME TypeOK, TypeOK', WarnInv, NEW r \in Requests, NEW to, Move(r, to),
           NEW p \in Players, SameNumbers(p), r \notin UnderWay(p), to.player # p
    PROVE  WarnInvOf(p)'
<1>1. UnderWay(p)' = UnderWay(p)
  BY UnderWayMoves
<1>2. \A q \in UnderWay(p) : req'[q] = req[q]
  BY WarnMove DEF UnderWay
<1> QED BY <1>1, <1>2, WarnQuiet DEF WarnInv

LEMMA WarnWarn ==
    ASSUME TypeOK, TypeOK', WarnInv, NEW r \in Requests, NEW p \in Players, Warn(r, p)
    PROVE  WarnInv'
<1> DEFINE to == [stage |-> "warned", player |-> p]
<1>1. /\ Move(r, to) /\ to.stage = "warned" /\ to.player = p /\ At(r, "idle")
      /\ mark' = mark /\ escalated' = escalated
      /\ warned' = [warned EXCEPT ![p] = @ + 1]
      /\ overlapped' = IF UnderWay(p) = {} THEN overlapped
                                           ELSE [overlapped EXCEPT ![p] = @ + 1]
  BY DEF Warn
<1> HIDE DEF to
<1>2. \A x \in Players : r \notin UnderWay(x)
  BY <1>1 DEF UnderWay, Warning, At
<1>3. ASSUME NEW x \in Players, x # p PROVE WarnInvOf(x)'
  <2>1. SameNumbers(x)
    BY <1>1, <1>3 DEF SameNumbers, TypeOK
  <2> QED BY <1>1, <1>2, <1>3, <2>1, WarnOthers
<1>4. WarnInvOf(p)'
  <2>1. /\ UnderWay(p)' = UnderWay(p) \cup {r}
        /\ req'[r] = to /\ \A q \in Requests : q # r => req'[q] = req[q]
    BY <1>1, UnderWayMoves, WarnMove
  <2>2. At(r, "warned")'
    BY <1>1, <2>1 DEF At
  <2>3. /\ warned'[p] = warned[p] + 1
        /\ overlapped'[p] = overlapped[p] + (IF UnderWay(p) = {} THEN 0 ELSE 1)
    BY <1>1 DEF TypeOK
  <2> QED BY <1>1, <1>2, <2>1, <2>2, <2>3, WarnBegins DEF WarnInv
<1> QED BY <1>3, <1>4 DEF WarnInv

\* A warning that goes on: to its count, or to the escalation it decided on.
LEMMA WarnGoesOn ==
    ASSUME TypeOK, TypeOK', WarnInv, UNCHANGED warnVars,
           NEW r \in Requests, NEW p \in Players, r \in UnderWay(p),
           NEW to, Move(r, to), to.stage \in {"counted", "escalate"}, to.player = p,
           to.count \in Nat, to.count <= warned[p], warned[p] - to.count <= overlapped[p],
           to.stage = "escalate" => to.count - Last(p) >= Threshold
    PROVE  WarnInv'
<1>1. \A x \in Players : SameNumbers(x)
  BY DEF SameNumbers, warnVars
<1>2. ASSUME NEW x \in Players, x # p PROVE WarnInvOf(x)'
  <2>1. r \notin UnderWay(x)
    BY <1>2 DEF UnderWay
  <2> QED BY <1>1, <1>2, <2>1, WarnOthers
<1>3. WarnInvOf(p)'
  <2>1. /\ UnderWay(p)' = UnderWay(p) \cup {r}
        /\ req'[r] = to /\ \A q \in Requests : q # r => req'[q] = req[q]
    BY UnderWayMoves, WarnMove
  <2>2. At(r, "escalate")' => req'[r].count - Last(p) >= Threshold
    BY <2>1 DEF At
  <2> QED BY <1>1, <2>1, <2>2, WarnStays DEF WarnInv
<1> QED BY <1>2, <1>3 DEF WarnInv

LEMMA WarnCounts ==
    ASSUME TypeOK, TypeOK', WarnInv, NEW r \in Requests, WarnCount(r)
    PROVE  WarnInv'
<1>1. PICK p \in Players : p = req[r].player
  BY ReqType DEF WarnCount
<1>2. r \in UnderWay(p) /\ UNCHANGED warnVars
  BY <1>1 DEF WarnCount, UnderWay, Warning, At
<1>3. CASE Threshold = 0
  BY <1>2, <1>3, WarnEnds, ModerationAssumption DEF WarnCount, Done
<1>4. CASE Threshold > 0
  <2> DEFINE counted == [stage |-> "counted", player |-> p, count |-> warned[p]]
  <2>1. Move(r, counted)
    BY <1>1, <1>4 DEF WarnCount
  <2>2. counted.stage = "counted" /\ counted.player = p /\ counted.count = warned[p]
    OBVIOUS
  <2> HIDE DEF counted
  <2>3. warned[p] - warned[p] <= overlapped[p] /\ warned[p] <= warned[p] /\ warned[p] \in Nat
    BY WarnNumbers
  <2> QED BY <1>2, <2>1, <2>2, <2>3, WarnGoesOn
<1> QED BY <1>3, <1>4, ModerationAssumption

LEMMA WarnDecides ==
    ASSUME TypeOK, TypeOK', WarnInv, NEW r \in Requests, WarnDecide(r)
    PROVE  WarnInv'
<1>1. PICK p \in Players : p = req[r].player
  BY ReqType DEF WarnDecide
<1>2. r \in UnderWay(p) /\ UNCHANGED warnVars /\ At(r, "counted")
  BY <1>1 DEF WarnDecide, UnderWay, Warning, At
<1>3. CASE ~ShouldEscalate(req[r].count, mark[p])
  BY <1>1, <1>2, <1>3, WarnEnds DEF WarnDecide, Done
<1>4. CASE ShouldEscalate(req[r].count, mark[p])
  <2> DEFINE decided == [stage |-> "escalate", player |-> p,
                         count |-> req[r].count, state |-> mark[p]]
  <2>1. Move(r, decided)
    BY <1>1, <1>4 DEF WarnDecide
  <2>2. /\ decided.stage = "escalate" /\ decided.player = p
        /\ decided.count = req[r].count
    OBVIOUS
  <2> HIDE DEF decided
  <2>3. /\ req[r].count \in Nat
        /\ req[r].count <= warned[p] /\ warned[p] - req[r].count <= overlapped[p]
    BY <1>2, ReqType DEF WarnInv, WarnInvOf, CountedLately
  <2>4. req[r].count - Last(p) >= Threshold
    BY <1>4 DEF ShouldEscalate, Last
  <2> QED BY <1>2, <2>1, <2>2, <2>3, <2>4, WarnGoesOn
<1> QED BY <1>3, <1>4

LEMMA WarnEscalates ==
    ASSUME TypeOK, TypeOK', WarnInv, NEW r \in Requests, WarnEscalate(r)
    PROVE  WarnInv'
<1>1. PICK p \in Players : p = req[r].player
  BY ReqType DEF WarnEscalate
<1>2. /\ r \in UnderWay(p) /\ At(r, "escalate") /\ req[r].count \in Nat /\ Move(r, Done)
  BY <1>1, ReqType DEF WarnEscalate, UnderWay, Warning, At
<1>3. /\ warned' = warned /\ overlapped' = overlapped
      /\ mark' = [mark EXCEPT ![p] = req[r].count]
      /\ escalated' = [escalated EXCEPT ![p] = @ + 1]
  BY <1>1 DEF WarnEscalate
<1>4. /\ \A x \in Players : UnderWay(x)' = UnderWay(x) \ {r}
      /\ \A q \in Requests : q # r => req'[q] = req[q]
  BY <1>2, UnderWayMoves, WarnMove DEF Done
<1>5. ASSUME NEW x \in Players, x # p PROVE WarnInvOf(x)'
  <2>1. SameNumbers(x)
    BY <1>3, <1>5 DEF SameNumbers, TypeOK
  <2>2. UnderWay(x)' = UnderWay(x) /\ \A q \in UnderWay(x) : req'[q] = req[q]
    BY <1>1, <1>4, <1>5 DEF UnderWay
  <2> QED BY <2>1, <2>2, WarnQuiet DEF WarnInv
<1>6. WarnInvOf(p)'
  <2>1. /\ mark'[p] = req[r].count /\ escalated'[p] = escalated[p] + 1
        /\ warned'[p] = warned[p] /\ overlapped'[p] = overlapped[p]
    BY <1>3 DEF TypeOK
  <2> QED BY <1>2, <1>4, <2>1, WarnLifts DEF WarnInv
<1> QED BY <1>5, <1>6 DEF WarnInv

LEMMA WarnInvStep ==
    TypeOK /\ TypeOK' /\ WarnInv /\ [Next]_vars => WarnInv'
<1> SUFFICES ASSUME TypeOK, TypeOK', WarnInv, [Next]_vars PROVE WarnInv'
  OBVIOUS
<1>1. ASSUME UNCHANGED warnVars, req' = req PROVE WarnInv'
  <2>1. \A p \in Players : SameNumbers(p) /\ UnderWay(p)' = UnderWay(p)
    BY <1>1 DEF SameNumbers, warnVars, UnderWay, Warning
  <2> QED BY <1>1, <2>1, WarnQuiet DEF WarnInv
<1>2. ASSUME NEW r \in Requests, BanStep(r) PROVE WarnInv'
  BY <1>2, WarnEnds
     DEF BanStep, UnbanRead, UnbanStamp, ForceRead, ForceWrite, Done
<1>3. ASSUME NEW r \in Requests, AppealStep(r) PROVE WarnInv'
  <2>1. CASE AppealCheck(r)
    <3>1. At(r, "appeal") /\ UNCHANGED warnVars
      BY <2>1 DEF AppealCheck
    <3>2. [req[r] EXCEPT !.stage = "file"].stage = "file"
      BY <3>1, ReqType
    <3>3. CASE Move(r, [req[r] EXCEPT !.stage = "file"])
      <4> HIDE DEF Move
      <4> QED BY <3>1, <3>2, <3>3, WarnEnds
    <3>4. CASE Move(r, Done)
      BY <3>1, <3>4, WarnEnds DEF Done
    <3> QED BY <2>1, <3>3, <3>4 DEF AppealCheck
  <2>2. ASSUME NEW p \in Players, AppealRead(r, p) PROVE WarnInv'
    BY <2>2, WarnEnds DEF AppealRead
  <2>3. CASE AppealFile(r)
    BY <2>3, WarnEnds DEF AppealFile, Done
  <2>4. ASSUME NEW a \in DOMAIN appeals, NEW approve \in BOOLEAN,
               ResolveRead(r, a, approve)
        PROVE  WarnInv'
    BY <2>4, WarnEnds DEF ResolveRead
  <2>5. CASE ResolveWrite(r)
    BY <2>5, WarnEnds DEF ResolveWrite, Done
  <2> QED BY <1>3, <2>1, <2>2, <2>3, <2>4, <2>5 DEF AppealStep
<1>4. ASSUME NEW r \in Requests, WarnStep(r) PROVE WarnInv'
  BY <1>4, WarnWarn, WarnCounts, WarnDecides, WarnEscalates DEF WarnStep
<1>5. ASSUME NEW r \in Requests, Fail(r) PROVE WarnInv'
  BY <1>5, WarnEnds DEF Fail, Failed
<1>6. ASSUME NEW s \in Servers, PollStep(s) \/ PollFail(s) PROVE WarnInv'
  BY <1>1, <1>6 DEF PollStep, PollRead, PollStamp, PollFail
<1>7. ASSUME NEW p \in Players, NEW s \in Servers, NEW until \in Terms,
             PluginBan(p, s, until)
      PROVE  WarnInv'
  BY <1>1, <1>7 DEF PluginBan
<1>8. ASSUME ClearLog \/ Tick \/ UNCHANGED vars PROVE WarnInv'
  BY <1>1, <1>8 DEF ClearLog, Tick, vars
<1> QED BY <1>2, <1>3, <1>4, <1>5, <1>6, <1>7, <1>8 DEF Next

LEMMA InitWarnInv == Init => WarnInv
<1> SUFFICES ASSUME Init, NEW p \in Players PROVE WarnInvOf(p)
  BY DEF WarnInv
<1>1. TypeOK
  BY TypeInit
<1>2. UnderWay(p) = {}
  BY DEF Init, UnderWay, Warning, Idle
<1>3. escalated[p] = 0 /\ overlapped[p] = 0 /\ warned[p] = 0 /\ Last(p) = 0
  BY DEF Init, Last, LastCount
<1>4. Worth(p) = 0
  <2>1. Cardinality(UnderWay(p)) = 0
    BY <1>1, <1>2, WarnNumbers
  <2> QED BY <1>3, <2>1, ModerationAssumption DEF Worth, Grants
<1>5. Began(p, 0)
  BY <1>2, <1>3, <1>4, ModerationAssumption DEF Began
<1> QED BY <1>2, <1>3, <1>5 DEF WarnInvOf, CountedLately

\* plugin_warn in moderation.py: however the warnings of a player overlap and whatever
\* fails, no threshold's worth of them escalates twice, but for one escalation too many
\* for each warning that began while another was under way.
THEOREM EscalatesOnce == Spec => []EscalatesOncePerThreshold
<1>1. Init => WarnInv
  BY InitWarnInv
<1>2. TypeOK /\ WarnInv => EscalatesOncePerThreshold
  <2> SUFFICES ASSUME TypeOK, WarnInv, NEW p \in Players
               PROVE  (escalated[p] - overlapped[p]) * Threshold <= warned[p]
    BY DEF EscalatesOncePerThreshold
  <2> DEFINE x == escalated[p] - overlapped[p]
             n == Cardinality(UnderWay(p))
             product == x * Threshold
  <2>1. PICK m \in Nat : Began(p, m)
    BY DEF WarnInv, WarnInvOf
  <2>2. /\ x \in Int /\ n \in Nat /\ product \in Int
        /\ Last(p) \in Nat /\ warned[p] \in Nat /\ Last(p) <= warned[p]
    BY WarnNumbers, ModerationAssumption DEF WarnInv, WarnInvOf
  <2>3. CASE UnderWay(p) = {}
    <3>1. n = 0 /\ Worth(p) = (x + n) * Threshold /\ Worth(p) <= Last(p)
      BY <2>1, <2>3, WarnNumbers DEF Worth, Grants, Began
    <3> HIDE DEF x, n
    <3>2. product <= Last(p)
      BY <2>2, <3>1
    <3> HIDE DEF product
    <3>3. product <= warned[p]
      BY <2>2, <3>2
    <3> QED BY <3>3 DEF product, x
  <2>4. CASE UnderWay(p) # {}
    <3>1. /\ n >= 1 /\ m <= Last(p)
          /\ Worth(p) = (x + n) * Threshold /\ Worth(p) <= m + Threshold
      BY <2>1, <2>4, WarnNumbers DEF Worth, Grants, Began
    <3> DEFINE rest == (n - 1) * Threshold
    <3> HIDE DEF x, n, product
    <3>2. rest \in Int /\ rest >= 0
      BY <2>2, <3>1, ModerationAssumption
    <3>3. (x + n) * Threshold = product + rest + Threshold
      BY <2>2, ModerationAssumption DEF product
    <3> HIDE DEF rest
    <3>4. product <= warned[p]
      BY <2>2, <3>1, <3>2, <3>3, ModerationAssumption
    <3> QED BY <3>4 DEF product, x
  <2> QED BY <2>3, <2>4
<1>3. TypeOK /\ TypeOK' /\ WarnInv /\ [Next]_vars => WarnInv'
  BY WarnInvStep
<1> QED BY <1>1, <1>2, <1>3, TypeCorrect, PTL DEF Spec

-----------------------------------------------------------------------------
\* That every threshold's worth of warnings escalates: the warnings since the
\* last escalation stay below the threshold, but for one under way, one for each
\* call that failed half-way and one for each that overlapped another.

Failures == {r \in Requests : At(r, "failed")}
Slack(p) == Threshold + Cardinality(Failures) + overlapped[p]
Owed(p) == warned[p] - Last(p)

SlipInv ==
    \A p \in Players :
        Owed(p) <= Slack(p) /\ (UnderWay(p) = {} => Owed(p) < Slack(p))

LEMMA SlipNumbers ==
    ASSUME TypeOK
    PROVE  /\ IsFiniteSet(Failures) /\ Cardinality(Failures) \in Nat
           /\ \A p \in Players : /\ Slack(p) \in Nat /\ Slack(p) >= Threshold + overlapped[p]
                                 /\ Owed(p) \in Int
<1>1. IsFiniteSet(Failures)
  BY FS_Subset, ModerationAssumption DEF Failures
<1>2. Cardinality(Failures) \in Nat
  BY <1>1, FS_CardinalityType
<1> QED BY <1>1, <1>2, ModerationAssumption, WarnNumbers DEF Slack, Owed

\* A step that leaves the numbers, and takes no warning away.
LEMMA SlipQuiet ==
    ASSUME SlipInv, UNCHANGED warnVars, Failures' = Failures,
           \A p \in Players : UnderWay(p) \subseteq UnderWay(p)'
    PROVE  SlipInv'
<1>1. \A p \in Players : Slack(p)' = Slack(p) /\ Owed(p)' = Owed(p)
  BY DEF Slack, Owed, warnVars, Last, LastCount
<1> QED BY <1>1 DEF SlipInv

\* A request that is no warning moves on.
LEMMA SlipMove ==
    ASSUME TypeOK, SlipInv, UNCHANGED warnVars, NEW r \in Requests, NEW to, Move(r, to),
           ~Warning(r), ~At(r, "failed"), to.stage # "failed"
    PROVE  SlipInv'
<1>1. /\ req'[r] = to
      /\ \A q \in Requests : q # r => req'[q] = req[q]
  BY WarnMove
<1>2. Failures' = Failures
  BY <1>1 DEF Failures, At
<1>3. \A p \in Players : UnderWay(p) \subseteq UnderWay(p)'
  BY <1>1 DEF UnderWay, Warning
<1> QED BY <1>2, <1>3, SlipQuiet

\* A warning under way moves on and stays one.
LEMMA SlipStays ==
    ASSUME TypeOK, SlipInv, UNCHANGED warnVars, NEW r \in Requests, NEW to, Move(r, to),
           Warning(r), to.stage \in {"counted", "escalate"}, to.player = req[r].player
    PROVE  SlipInv'
<1>1. /\ req'[r] = to
      /\ \A q \in Requests : q # r => req'[q] = req[q]
  BY WarnMove
<1>2. Failures' = Failures
  BY <1>1 DEF Failures, At, Warning
<1>3. \A p \in Players : UnderWay(p) \subseteq UnderWay(p)'
  BY <1>1 DEF UnderWay, Warning
<1> QED BY <1>2, <1>3, SlipQuiet

\* A request fails: the slack grows by one.
LEMMA SlipFail ==
    ASSUME TypeOK, SlipInv, NEW r \in Requests, Fail(r)
    PROVE  SlipInv'
<1>1. /\ req'[r] = Failed
      /\ \A q \in Requests : q # r => req'[q] = req[q]
  BY WarnMove DEF Fail
<1>2. r \notin Failures /\ Failures' = Failures \cup {r}
  BY <1>1 DEF Failures, At, Fail, Failed
<1>3. Cardinality(Failures) \in Nat /\ Cardinality(Failures') = Cardinality(Failures) + 1
  BY <1>2, SlipNumbers, FS_AddElement
<1>4. overlapped' = overlapped /\ \A p \in Players : Owed(p)' = Owed(p)
  BY DEF Owed, Fail, warnVars, Last, LastCount
<1>5. \A p \in Players : Slack(p)' = Slack(p) + 1
  BY <1>3, <1>4, ModerationAssumption, WarnNumbers DEF Slack
<1> QED BY <1>4, <1>5, SlipNumbers DEF SlipInv

\* A warning begins.  If another is under way the slack grows with what is owed.
LEMMA SlipWarn ==
    ASSUME TypeOK, SlipInv, NEW r \in Requests, NEW p \in Players, Warn(r, p)
    PROVE  SlipInv'
<1>1. /\ req'[r] = [stage |-> "warned", player |-> p]
      /\ \A q \in Requests : q # r => req'[q] = req[q]
  BY WarnMove DEF Warn
<1>2. Failures' = Failures
  BY <1>1 DEF At, Warn, Failures
<1>3. r \in UnderWay(p)' /\ \A x \in Players : UnderWay(x) \subseteq UnderWay(x)'
  BY <1>1 DEF UnderWay, Warning, Warn, At
<1>4. /\ Owed(p)' = Owed(p) + 1
      /\ \A x \in Players : x # p => Owed(x)' = Owed(x)
  BY WarnNumbers DEF Warn, Owed, Last, LastCount, TypeOK
<1>5. /\ UnderWay(p) = {} => Slack(p)' = Slack(p)
      /\ UnderWay(p) # {} => Slack(p)' = Slack(p) + 1
      /\ \A x \in Players : x # p => Slack(x)' = Slack(x)
  <2>1. /\ UnderWay(p) = {} => overlapped'[p] = overlapped[p]
        /\ UnderWay(p) # {} => overlapped'[p] = overlapped[p] + 1
        /\ \A x \in Players : x # p => overlapped'[x] = overlapped[x]
    BY DEF Warn, TypeOK
  <2>2. overlapped[p] \in Nat /\ Cardinality(Failures) \in Nat /\ Threshold \in Nat
    BY SlipNumbers, WarnNumbers, ModerationAssumption
  <2> QED BY <1>2, <2>1, <2>2 DEF Slack
<1>6. Owed(p)' <= Slack(p)'
  <2>1. /\ Owed(p) \in Int /\ Slack(p) \in Nat /\ Owed(p) <= Slack(p)
        /\ UnderWay(p) = {} => Owed(p) < Slack(p)
    BY SlipNumbers DEF SlipInv
  <2> HIDE DEF Owed, Slack
  <2> QED BY <1>4, <1>5, <2>1
<1>7. \A x \in Players : x # p => Owed(x)' <= Slack(x)' /\
                                  (UnderWay(x)' = {} => Owed(x)' < Slack(x)')
  BY <1>3, <1>4, <1>5 DEF SlipInv
<1> QED BY <1>3, <1>6, <1>7 DEF SlipInv

\* The last step of a warning: less is owed than the threshold and what overlapped.
LEMMA SlipDone ==
    ASSUME TypeOK, SlipInv, NEW r \in Requests, NEW p \in Players, Warning(r), Move(r, Done),
           req[r].player = p, Owed(p)' \in Int, Owed(p)' < Threshold + overlapped[p],
           UNCHANGED overlapped, \A x \in Players : x # p => Owed(x)' = Owed(x)
    PROVE  SlipInv'
<1>1. /\ req'[r] = Done
      /\ \A q \in Requests : q # r => req'[q] = req[q]
  BY WarnMove
<1>2. Failures' = Failures /\ \A x \in Players : Slack(x)' = Slack(x)
  <2>1. \A q \in Requests : At(q, "failed")' <=> At(q, "failed")
    BY <1>1 DEF At, Warning, Done
  <2> QED BY <2>1 DEF Failures, Slack
<1>3. \A x \in Players : x # p => UnderWay(x) \subseteq UnderWay(x)'
  BY <1>1 DEF UnderWay, Warning
<1>4. Owed(p)' < Slack(p)'
  <2>1. /\ Slack(p)' = Slack(p) /\ Slack(p) \in Nat /\ Slack(p) >= Threshold + overlapped[p]
        /\ Threshold \in Nat /\ overlapped[p] \in Nat
    BY <1>2, SlipNumbers, WarnNumbers, ModerationAssumption
  <2> HIDE DEF Owed, Slack
  <2> QED BY <2>1
<1>5. Owed(p)' <= Slack(p)'
  <2>1. Slack(p)' \in Nat
    BY <1>2, SlipNumbers
  <2> HIDE DEF Owed, Slack
  <2> QED BY <1>4, <2>1
<1>6. \A x \in Players : x # p => Owed(x)' <= Slack(x)' /\
                                  (UnderWay(x)' = {} => Owed(x)' < Slack(x)')
  BY <1>2, <1>3 DEF SlipInv
<1> QED BY <1>4, <1>5, <1>6 DEF SlipInv

LEMMA SlipWarnStep ==
    ASSUME TypeOK, WarnInv, SlipInv, Threshold # 0, NEW r \in Requests, WarnStep(r)
    PROVE  SlipInv'
<1>1. ASSUME NEW p \in Players, Warn(r, p) PROVE SlipInv'
  BY <1>1, SlipWarn
<1>2. CASE WarnCount(r)
  <2> DEFINE counted == [stage |-> "counted", player |-> req[r].player,
                         count |-> warned[req[r].player]]
  <2>1. Move(r, counted) /\ UNCHANGED warnVars /\ At(r, "warned")
    BY <1>2, ModerationAssumption DEF WarnCount
  <2>2. counted.stage = "counted" /\ counted.player = req[r].player
    OBVIOUS
  <2>3. Warning(r)
    BY <2>1 DEF Warning, At
  <2> HIDE DEF counted
  <2> QED BY <2>1, <2>2, <2>3, SlipStays
<1>3. ASSUME WarnDecide(r), NEW p \in Players, p = req[r].player PROVE SlipInv'
  <2> DEFINE decided == [stage |-> "escalate", player |-> p, count |-> req[r].count,
                         state |-> mark[p]]
  <2>1. At(r, "counted") /\ UNCHANGED warnVars /\ Warning(r)
    BY <1>3 DEF WarnDecide, Warning, At
  <2>2. CASE ShouldEscalate(req[r].count, mark[p])
    <3>1. Move(r, decided)
      BY <1>3, <2>2 DEF WarnDecide
    <3>2. decided.stage = "escalate" /\ decided.player = p
      OBVIOUS
    <3> HIDE DEF decided
    <3> QED BY <1>3, <2>1, <3>1, <3>2, SlipStays
  <2>3. CASE ~ShouldEscalate(req[r].count, mark[p])
    <3>1. Move(r, Done)
      BY <1>3, <2>3 DEF WarnDecide
    <3>2. r \in UnderWay(p) /\ req[r].count \in Nat
      BY <1>3, <2>1, ReqType DEF UnderWay
    <3>3. warned[p] - req[r].count <= overlapped[p]
      BY <2>1, <3>2 DEF WarnInv, WarnInvOf, CountedLately
    <3>4. req[r].count - Last(p) < Threshold
      BY <2>3, <3>2, WarnNumbers, ModerationAssumption DEF ShouldEscalate, Last
    <3>5. Owed(p) < Threshold + overlapped[p] /\ Owed(p) \in Int
      BY <3>2, <3>3, <3>4, WarnNumbers, ModerationAssumption DEF Owed
    <3>6. overlapped' = overlapped /\ \A x \in Players : Owed(x)' = Owed(x)
      BY <2>1 DEF Owed, warnVars, Last, LastCount
    <3>7. Owed(p)' < Threshold + overlapped[p] /\ Owed(p)' \in Int
      BY <3>5, <3>6
    <3> QED BY <1>3, <2>1, <3>1, <3>6, <3>7, SlipDone
  <2> QED BY <2>2, <2>3
<1>4. ASSUME WarnEscalate(r), NEW p \in Players, p = req[r].player PROVE SlipInv'
  <2>1. /\ req[r].count \in Nat /\ At(r, "escalate")
        /\ Warning(r) /\ Move(r, Done) /\ r \in UnderWay(p)
    BY <1>4, ReqType DEF WarnEscalate, Warning, At, UnderWay
  <2>2. /\ warned' = warned /\ overlapped' = overlapped
        /\ mark' = [mark EXCEPT ![p] = req[r].count]
    BY <1>4 DEF WarnEscalate
  <2>3. warned[p] - req[r].count <= overlapped[p]
    BY <2>1 DEF WarnInv, WarnInvOf, CountedLately
  <2>4. Owed(p)' = warned[p] - req[r].count
    BY <2>1, <2>2, ModerationAssumption DEF Owed, Last, LastCount, TypeOK
  <2>5. \A x \in Players : x # p => Owed(x)' = Owed(x)
    BY <2>1, <2>2 DEF Owed, Last, LastCount, TypeOK
  <2>6. Owed(p)' < Threshold + overlapped[p] /\ Owed(p)' \in Int
    BY <2>1, <2>3, <2>4, WarnNumbers, ModerationAssumption
  <2> QED BY <1>4, <2>1, <2>2, <2>5, <2>6, SlipDone
<1>5. WarnDecide(r) \/ WarnEscalate(r) => req[r].player \in Players
  BY ReqType DEF WarnDecide, WarnEscalate, At
<1> QED BY <1>1, <1>2, <1>3, <1>4, <1>5 DEF WarnStep

LEMMA SlipInvStep ==
    TypeOK /\ WarnInv /\ SlipInv /\ Threshold # 0 /\ [Next]_vars => SlipInv'
<1> SUFFICES ASSUME TypeOK, WarnInv, SlipInv, Threshold # 0, [Next]_vars
             PROVE  SlipInv'
  OBVIOUS
<1>1. UNCHANGED warnVars /\ req' = req => SlipInv'
  BY SlipQuiet DEF Failures, At, UnderWay, Warning
<1>2. ASSUME NEW r \in Requests, BanStep(r) PROVE SlipInv'
  <2>1. UNCHANGED warnVars /\ ~Warning(r) /\ ~At(r, "failed")
    BY <1>2 DEF BanStep, UnbanRead, UnbanStamp, ForceRead, ForceWrite, Warning, At
  <2>2. ASSUME NEW p \in Players, UnbanRead(r, p) PROVE SlipInv'
    BY <2>1, <2>2, SlipMove DEF UnbanRead
  <2>3. CASE UnbanStamp(r)
    BY <2>1, <2>3, SlipMove DEF UnbanStamp, Done
  <2>4. ASSUME NEW i \in BanIds, ForceRead(r, i) PROVE SlipInv'
    BY <2>1, <2>4, SlipMove DEF ForceRead
  <2>5. CASE ForceWrite(r)
    BY <2>1, <2>5, SlipMove DEF ForceWrite, Done
  <2> QED BY <1>2, <2>2, <2>3, <2>4, <2>5 DEF BanStep
<1>3. ASSUME NEW r \in Requests, AppealStep(r) PROVE SlipInv'
  <2>1. /\ UNCHANGED warnVars
        /\ req[r].stage \in {"idle", "appeal", "file", "resolve"}
    BY <1>3 DEF AppealStep, AppealRead, AppealCheck, AppealFile, ResolveRead, ResolveWrite, At
  <2>2. ~Warning(r) /\ ~At(r, "failed")
    BY <2>1 DEF Warning, At
  <2>3. CASE AppealCheck(r)
    <3>1. At(r, "appeal")
      BY <2>3 DEF AppealCheck
    <3>2. [req[r] EXCEPT !.stage = "file"].stage = "file"
      BY <3>1, ReqType
    <3>3. CASE Move(r, [req[r] EXCEPT !.stage = "file"])
      <4> HIDE DEF Move
      <4> QED BY <2>1, <2>2, <3>2, <3>3, SlipMove
    <3>4. CASE Move(r, Done)
      BY <2>1, <2>2, <3>4, SlipMove DEF Done
    <3> QED BY <2>3, <3>3, <3>4 DEF AppealCheck
  <2>4. ASSUME NEW p \in Players, AppealRead(r, p) PROVE SlipInv'
    BY <2>1, <2>2, <2>4, SlipMove DEF AppealRead
  <2>5. CASE AppealFile(r)
    BY <2>1, <2>2, <2>5, SlipMove DEF AppealFile, Done
  <2>6. ASSUME NEW a \in DOMAIN appeals, NEW approve \in BOOLEAN, ResolveRead(r, a, approve)
        PROVE  SlipInv'
    BY <2>1, <2>2, <2>6, SlipMove DEF ResolveRead
  <2>7. CASE ResolveWrite(r)
    BY <2>1, <2>2, <2>7, SlipMove DEF ResolveWrite, Done
  <2> QED BY <1>3, <2>3, <2>4, <2>5, <2>6, <2>7 DEF AppealStep
<1>4. ASSUME NEW r \in Requests, WarnStep(r) PROVE SlipInv'
  BY <1>4, SlipWarnStep
<1>5. ASSUME NEW r \in Requests, Fail(r) PROVE SlipInv'
  BY <1>5, SlipFail
<1>6. ASSUME NEW s \in Servers, PollStep(s) \/ PollFail(s) PROVE SlipInv'
  BY <1>1, <1>6 DEF PollStep, PollRead, PollStamp, PollFail
<1>7. ASSUME NEW p \in Players, NEW s \in Servers, NEW until \in Terms, PluginBan(p, s, until)
      PROVE  SlipInv'
  BY <1>1, <1>7 DEF PluginBan
<1>8. ASSUME ClearLog \/ Tick \/ UNCHANGED vars PROVE SlipInv'
  BY <1>1, <1>8 DEF ClearLog, Tick, vars
<1> QED BY <1>2, <1>3, <1>4, <1>5, <1>6, <1>7, <1>8 DEF Next

\* The other half of "once per threshold's worth of new warnings": a threshold's worth
\* of warnings does escalate, but for the calls of plugin_warn that fail and the warnings
\* that overlap another.
THEOREM NoneSlips == Spec => []NoThresholdSlips
<1>1. CASE Threshold = 0
  <2>1. NoThresholdSlips
    BY <1>1 DEF NoThresholdSlips
  <2> QED BY <2>1, PTL
<1>2. CASE Threshold # 0
  <2>1. Init => WarnInv
    BY InitWarnInv
  <2>2. Init => SlipInv
    <3> SUFFICES ASSUME Init PROVE SlipInv
      OBVIOUS
    <3>1. \A p \in Players : Owed(p) = 0
      BY DEF Init, Owed, Last, LastCount
    <3>2. TypeOK
      BY TypeInit
    <3> QED BY <1>2, <3>1, <3>2, SlipNumbers, WarnNumbers, ModerationAssumption DEF SlipInv
  <2>3. TypeOK /\ TypeOK' /\ WarnInv /\ [Next]_vars => WarnInv'
    BY WarnInvStep
  <2>4. TypeOK /\ WarnInv /\ SlipInv /\ [Next]_vars => SlipInv'
    BY <1>2, SlipInvStep
  <2>5. SlipInv => NoThresholdSlips
    BY DEF SlipInv, NoThresholdSlips, Owed, Last, Slack, Failures
  <2> QED BY <2>1, <2>2, <2>3, <2>4, <2>5, TypeCorrect, PTL DEF Spec
<1> QED BY <1>1, <1>2
=============================================================================
