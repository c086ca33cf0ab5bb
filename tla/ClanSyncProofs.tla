--------------------------- MODULE ClanSyncProofs ---------------------------
(***************************************************************************)
(* Proofs about the clan sync of plugins that wait for an answer before    *)
(* they sync again: nothing is orphaned, the history adds up but for what  *)
(* failing diffs left out of it, and a sync replaces the board of its      *)
(* server by its report.                                                   *)
(***************************************************************************)
EXTENDS ClanSync, TLAPS

\* A server has one sync in flight.
OneInFlight ==
    \A r, q \in Requests :
        InFlight(r) /\ InFlight(q) /\ req[r].server = req[q].server => r = q

\* What a sync in flight has read is still so: it was this server's only
\* writer since.
ReadsCurrent ==
    \A r \in Requests :
        /\ InFlight(r) =>
              /\ req[r].payload \in Payloads
              /\ req[r].joined = Joined(req[r].server, req[r].payload)
              /\ req[r].left = Left(req[r].server, req[r].payload)
        /\ At(r, "replace") => req[r].ids = IdsOf(clans, req[r].server)

IInv ==
    /\ TypeOK
    /\ OneInFlight
    /\ ReadsCurrent
    /\ NoOrphans
    /\ HistoryExplainsRoster

-----------------------------------------------------------------------------
\* A sync that holds nothing.
LEMMA IdleType ==
    Idle \in [stage: Stages, server: Servers, payload: Payloads \cup {Empty},
              logged: BOOLEAN, joined: SUBSET (Guids \X Players),
              left: SUBSET (Guids \X Players), ids: SUBSET ClanIds]
<1>1. (CHOOSE s \in Servers : TRUE) \in Servers
  BY ClanAssumption
<1> QED BY <1>1 DEF Idle, Stages

\* The initial state.
LEMMA InitIInv == Init => IInv
<1> SUFFICES ASSUME Init PROVE IInv
  OBVIOUS
<1> USE ClanAssumption DEF Init
<1>1. NoRows \in [Entries -> Nat]
  BY DEF NoRows
<1>2. TypeOK
  BY IdleType, <1>1 DEF TypeOK
<1>3. \A r \in Requests : ~InFlight(r)
  BY DEF InFlight, At, Idle
<1>4. OneInFlight /\ ReadsCurrent
  BY <1>3 DEF OneInFlight, ReadsCurrent, InFlight
<1>5. NoOrphans
  BY DEF NoOrphans
<1>6. HistoryExplainsRoster
  <2>1. \A s \in Servers : IdsOf(clans, s) = {}
    BY DEF IdsOf
  <2>2. \A s \in Servers : Members(s) = {}
    BY <2>1 DEF Members
  <2> QED BY <2>2 DEF HistoryExplainsRoster
<1> QED BY <1>2, <1>4, <1>5, <1>6 DEF IInv

\* What the history and the reads depend on: the tables alone.
LEMMA MembersSame ==
    ASSUME UNCHANGED <<clans, rows>>, NEW s \in Servers, NEW p
    PROVE  /\ Members(s)' = Members(s)
           /\ Joined(s, p)' = Joined(s, p)
           /\ Left(s, p)' = Left(s, p)
           /\ IdsOf(clans', s) = IdsOf(clans, s)
<1>1. Members(s)' = Members(s)
  BY DEF Members, IdsOf
<1> QED BY <1>1 DEF Joined, Left, Reported, IdsOf

-----------------------------------------------------------------------------
\* The steps that leave the tables alone.
LEMMA DiffStep ==
    ASSUME IInv, ~MayOverlap, NEW r \in Requests, NEW s \in Servers,
           NEW p \in Payloads, SyncDiff(r, s, p)
    PROVE  IInv'
<1> USE ClanAssumption DEF IInv
<1>0. PICK read \in BOOLEAN :
         req' = [req EXCEPT ![r] =
                   [stage |-> "ids", server |-> s, payload |-> p, logged |-> read,
                    joined |-> Joined(s, p), left |-> Left(s, p), ids |-> {}]]
  BY DEF SyncDiff
<1> DEFINE new == [stage |-> "ids", server |-> s, payload |-> p, logged |-> read,
                   joined |-> Joined(s, p), left |-> Left(s, p), ids |-> {}]
<1>1. /\ req' = [req EXCEPT ![r] = new]
      /\ \A q \in Requests : InFlight(q) => req[q].server # s
      /\ UNCHANGED <<clans, rows, history, missed, writer>>
  BY <1>0 DEF SyncDiff
<1>2. Joined(s, p) \in SUBSET (Guids \X Players)
      /\ Left(s, p) \in SUBSET (Guids \X Players)
  BY DEF Joined, Left, Reported, Members
<1>3. TypeOK'
  BY <1>1, <1>2 DEF TypeOK, Stages
<1>4. req'[r] = new /\ \A q \in Requests : q # r => req'[q] = req[q]
  BY <1>1 DEF TypeOK
<1>5. OneInFlight'
  BY <1>1, <1>4 DEF OneInFlight, InFlight, At
<1>6. ReadsCurrent'
  <2> SUFFICES ASSUME NEW q \in Requests
               PROVE  /\ InFlight(q)' =>
                            /\ req'[q].payload \in Payloads
                            /\ req'[q].joined =
                                 Joined(req[q].server, req[q].payload)'
                            /\ req'[q].left =
                                 Left(req[q].server, req[q].payload)'
                      /\ At(q, "replace")' =>
                            req'[q].ids = IdsOf(clans, req[q].server)'
    BY DEF ReadsCurrent
  <2>1. CASE q = r
    <3>1. /\ Joined(s, p)' = Joined(s, p)
          /\ Left(s, p)' = Left(s, p)
      BY <1>1, MembersSame
    <3>2. req'[q].server = s /\ req'[q].payload = p /\ req'[q].stage = "ids"
      BY <1>4, <2>1
    <3>3. /\ Joined(req[q].server, req[q].payload)' = Joined(s, p)'
          /\ Left(req[q].server, req[q].payload)' = Left(s, p)'
      BY <3>2
    <3> QED BY <1>4, <2>1, <3>1, <3>2, <3>3 DEF At
  <2>2. CASE q # r
    <3>1. req'[q] = req[q] /\ req[q].server \in Servers
      BY <1>4, <2>2 DEF TypeOK
    <3>2. \A pp : /\ Joined(req[q].server, pp)' = Joined(req[q].server, pp)
                  /\ Left(req[q].server, pp)' = Left(req[q].server, pp)
                  /\ IdsOf(clans', req'[q].server) = IdsOf(clans, req[q].server)
      BY <1>1, <3>1, MembersSame
    <3> QED BY <3>1, <3>2 DEF ReadsCurrent, InFlight, At
  <2> QED BY <2>1, <2>2
<1>7. NoOrphans' /\ HistoryExplainsRoster'
  BY <1>1, MembersSame DEF NoOrphans, HistoryExplainsRoster
<1> QED BY <1>3, <1>5, <1>6, <1>7

\* A step of sync r that leaves the tables alone, and after which r still
\* holds what it has read or is no longer in flight.
LEMMA OneReqStep ==
    ASSUME IInv, NEW r \in Requests, UNCHANGED <<clans, rows, history, missed>>,
           \A q \in Requests : q # r => req'[q] = req[q],
           InFlight(r)' => /\ InFlight(r)
                           /\ req'[r].server = req[r].server
                           /\ req'[r].payload = req[r].payload
                           /\ req'[r].joined = req[r].joined
                           /\ req'[r].left = req[r].left,
           At(r, "replace")' => req'[r].ids = IdsOf(clans, req[r].server),
           TypeOK'
    PROVE  IInv'
<1> USE DEF IInv
<1>1. \A q \in Requests :
        InFlight(q)' => InFlight(q) /\ req'[q].server = req[q].server
  BY DEF InFlight, At
<1>2. OneInFlight'
  BY <1>1 DEF OneInFlight
<1>3. ReadsCurrent'
  <2> SUFFICES ASSUME NEW q \in Requests, InFlight(q)'
               PROVE  /\ req'[q].payload \in Payloads
                      /\ req'[q].joined =
                           Joined(req[q].server, req[q].payload)'
                      /\ req'[q].left =
                           Left(req[q].server, req[q].payload)'
                      /\ At(q, "replace")' =>
                            req'[q].ids = IdsOf(clans, req[q].server)'
    BY DEF ReadsCurrent, InFlight
  <2>1. /\ req'[q].server = req[q].server
        /\ req'[q].payload = req[q].payload
        /\ req'[q].joined = req[q].joined
        /\ req'[q].left = req[q].left
        /\ InFlight(q)
    BY <1>1
  <2>2. req[q].server \in Servers
    BY DEF TypeOK
  <2>3. /\ Joined(req[q].server, req[q].payload)' =
            Joined(req[q].server, req[q].payload)
        /\ Left(req[q].server, req[q].payload)' =
            Left(req[q].server, req[q].payload)
        /\ IdsOf(clans, req[q].server)' = IdsOf(clans, req[q].server)
    BY <2>1, <2>2, MembersSame
  <2>4. At(q, "replace")' => req'[q].ids = IdsOf(clans, req[q].server)
    BY DEF ReadsCurrent, At
  <2> QED BY <2>1, <2>3, <2>4 DEF ReadsCurrent
<1>4. NoOrphans' /\ HistoryExplainsRoster'
  BY MembersSame DEF NoOrphans, HistoryExplainsRoster
<1> QED BY <1>2, <1>3, <1>4

LEMMA IdsStep ==
    ASSUME IInv, NEW r \in Requests, SyncIds(r)
    PROVE  IInv'
<1> USE ClanAssumption
<1> DEFINE mine == IdsOf(clans, req[r].server)
<1>1. /\ At(r, "ids")
      /\ writer' \in {writer, r}
      /\ req' = [req EXCEPT ![r].stage = "replace", ![r].ids = mine]
      /\ UNCHANGED <<clans, rows, history, missed>>
  BY DEF SyncIds
<1>2. mine \in SUBSET ClanIds
  BY DEF IdsOf
<1>3. TypeOK'
  <2> HIDE DEF mine
  <2>1. [req[r] EXCEPT !.stage = "replace", !.ids = mine] \in
          [stage: Stages, server: Servers, payload: Payloads \cup {Empty},
           logged: BOOLEAN, joined: SUBSET (Guids \X Players),
           left: SUBSET (Guids \X Players), ids: SUBSET ClanIds]
    BY <1>2 DEF IInv, TypeOK, Stages
  <2>2. req' = [req EXCEPT ![r] =
                  [req[r] EXCEPT !.stage = "replace", !.ids = mine]]
    BY <1>1 DEF IInv, TypeOK
  <2> QED BY <1>1, <2>1, <2>2 DEF IInv, TypeOK
<1>4. /\ \A q \in Requests : q # r => req'[q] = req[q]
      /\ req'[r].ids = mine
      /\ req'[r].server = req[r].server
      /\ req'[r].payload = req[r].payload
      /\ req'[r].joined = req[r].joined
      /\ req'[r].left = req[r].left
  BY <1>1 DEF IInv, TypeOK
<1>5. InFlight(r)
  BY <1>1 DEF InFlight
<1> HIDE DEF mine
<1> QED BY <1>1, <1>3, <1>4, <1>5, OneReqStep DEF mine

LEMMA FailStep ==
    ASSUME IInv, NEW r \in Requests, Fail(r)
    PROVE  IInv'
<1> USE ClanAssumption
<1> DEFINE end == [Idle EXCEPT !.stage = "failed"]
<1>1. /\ writer' \in {writer, NoRequest}
      /\ req' = [req EXCEPT ![r] = end]
      /\ UNCHANGED <<clans, rows, history, missed>>
  BY DEF Fail
<1>2. end \in [stage: Stages, server: Servers, payload: Payloads \cup {Empty},
                logged: BOOLEAN, joined: SUBSET (Guids \X Players),
                left: SUBSET (Guids \X Players), ids: SUBSET ClanIds]
  BY IdleType DEF Stages
<1>3. end.stage = "failed"
  BY DEF Idle
<1> HIDE DEF end
<1>4. TypeOK'
  BY <1>1, <1>2 DEF IInv, TypeOK
<1>5. req'[r] = end /\ \A q \in Requests : q # r => req'[q] = req[q]
  BY <1>1 DEF IInv, TypeOK
<1>6. ~InFlight(r)' /\ ~At(r, "replace")'
  BY <1>3, <1>5 DEF InFlight, At
<1> QED BY <1>1, <1>4, <1>5, <1>6, OneReqStep

-----------------------------------------------------------------------------
\* The step that replaces the tables.

\* What the tables hold after it: the inserted clans, under fresh keys and
\* with the reported rows alone; of the others, those of the server are
\* gone and the rest is as before.
LEMMA ReplaceTables ==
    ASSUME TypeOK, NoOrphans, NEW s \in Servers, NEW p \in Payloads,
           NEW key \in [DOMAIN p -> ClanIds],
           Allocates(key, WithoutClans(s)),
           clans' = ClansInserted(WithoutClans(s), s, key),
           rows' = RowsInserted(WithoutRows(IdsOf(clans, s)), p, key)
    PROVE  /\ \A g \in DOMAIN p :
                 /\ clans'[key[g]] = [server |-> s, guid |-> g]
                 /\ rows'[key[g]] = Contract!Shown(p[g])
                 /\ clans[key[g]] = NoClan \/ key[g] \in IdsOf(clans, s)
           /\ \A g, h \in DOMAIN p : key[g] = key[h] => g = h
           /\ \A i \in ClanIds :
                 (\A g \in DOMAIN p : key[g] # i) =>
                    IF i \in IdsOf(clans, s)
                      THEN clans'[i] = NoClan /\ rows'[i] = NoRows
                      ELSE clans'[i] = clans[i] /\ rows'[i] = rows[i]
           /\ clans' \in [ClanIds -> ClanRow \cup {NoClan}]
           /\ rows' \in [ClanIds -> [Entries -> Nat]]
<1> USE ClanAssumption
<1>1. DOMAIN key = DOMAIN p /\ DOMAIN p \subseteq Guids
      /\ \A g \in DOMAIN p : p[g] \in SUBSET Entries
  OBVIOUS
<1>2. \A g, h \in DOMAIN p : key[g] = key[h] => g = h
  BY <1>1 DEF Allocates
<1>3. \A g \in DOMAIN p : WithoutClans(s)[key[g]] = NoClan
  <2> SUFFICES ASSUME NEW g \in DOMAIN p, WithoutClans(s)[key[g]] # NoClan
               PROVE  FALSE
    OBVIOUS
  <2>1. key[g] < key[g]
    BY <1>1 DEF Allocates
  <2> QED BY <2>1 DEF ClanIds
<1>4. \A g \in DOMAIN p : clans[key[g]] = NoClan \/ key[g] \in IdsOf(clans, s)
  BY <1>3 DEF WithoutClans
<1>5. \A g \in DOMAIN p : WithoutRows(IdsOf(clans, s))[key[g]] = NoRows
  BY <1>4 DEF WithoutRows, NoOrphans
<1>6. \A g \in DOMAIN p : clans'[key[g]] = [server |-> s, guid |-> g]
  <2> SUFFICES ASSUME NEW g \in DOMAIN p
               PROVE  clans'[key[g]] = [server |-> s, guid |-> g]
    OBVIOUS
  <2>1. clans'[key[g]] =
          [server |-> s,
           guid |-> CHOOSE h \in DOMAIN key : key[h] = key[g]]
    BY <1>1 DEF ClansInserted
  <2>2. (CHOOSE h \in DOMAIN key : key[h] = key[g]) = g
    BY <1>1, <1>2
  <2> QED BY <2>1, <2>2
<1>7. \A g \in DOMAIN p : rows'[key[g]] = Contract!Shown(p[g])
  <2> SUFFICES ASSUME NEW g \in DOMAIN p
               PROVE  rows'[key[g]] = Contract!Shown(p[g])
    OBVIOUS
  <2> DEFINE left == WithoutRows(IdsOf(clans, s))
  <2>1. rows'[key[g]] = [e \in Entries |->
          IF \E h \in DOMAIN key : key[h] = key[g] /\ e \in p[h]
            THEN left[key[g]][e] + 1 ELSE left[key[g]][e]]
    BY DEF RowsInserted
  <2>2. \A e \in Entries : left[key[g]][e] = 0
    BY <1>5 DEF NoRows
  <2>3. \A e \in Entries :
          (\E h \in DOMAIN key : key[h] = key[g] /\ e \in p[h]) <=> e \in p[g]
    BY <1>1, <1>2
  <2> HIDE DEF left
  <2>4. rows'[key[g]] = [e \in Entries |-> IF e \in p[g] THEN 1 ELSE 0]
    BY <2>1, <2>2, <2>3
  <2> QED BY <2>4 DEF Contract!Shown
<1>8. ASSUME NEW i \in ClanIds, \A g \in DOMAIN p : key[g] # i
      PROVE  IF i \in IdsOf(clans, s)
               THEN clans'[i] = NoClan /\ rows'[i] = NoRows
               ELSE clans'[i] = clans[i] /\ rows'[i] = rows[i]
  <2>1. clans'[i] = WithoutClans(s)[i]
    BY <1>1, <1>8 DEF ClansInserted
  <2>2. rows'[i] = [e \in Entries |-> WithoutRows(IdsOf(clans, s))[i][e]]
    BY <1>1, <1>8 DEF RowsInserted
  <2>3. rows'[i] = WithoutRows(IdsOf(clans, s))[i]
    BY <2>2 DEF WithoutRows, NoRows, TypeOK
  <2> QED BY <2>1, <2>3 DEF WithoutClans, WithoutRows
<1>9. \A i \in ClanIds : \/ \E g \in DOMAIN p : key[g] = i
                         \/ \A g \in DOMAIN p : key[g] # i
  OBVIOUS
<1>10. clans' \in [ClanIds -> ClanRow \cup {NoClan}]
  <2>1. \A i \in ClanIds : clans'[i] \in ClanRow \cup {NoClan}
    <3> SUFFICES ASSUME NEW i \in ClanIds
                 PROVE  clans'[i] \in ClanRow \cup {NoClan}
      OBVIOUS
    <3>1. CASE \E g \in DOMAIN p : key[g] = i
      <4>1. PICK g \in DOMAIN p : key[g] = i
        BY <3>1
      <4>2. clans'[i] = [server |-> s, guid |-> g] /\ g \in Guids
        BY <1>1, <1>6, <4>1
      <4> QED BY <4>2 DEF ClanRow
    <3>2. CASE \A g \in DOMAIN p : key[g] # i
      <4>1. clans'[i] \in {NoClan, clans[i]}
        BY <1>8, <3>2
      <4> QED BY <4>1 DEF TypeOK
    <3> QED BY <1>9, <3>1, <3>2
  <2>2. clans' = [i \in ClanIds |-> clans'[i]]
    BY DEF ClansInserted
  <2> QED BY <2>1, <2>2
<1>11. rows' \in [ClanIds -> [Entries -> Nat]]
  <2>1. \A i \in ClanIds : rows'[i] \in [Entries -> Nat]
    <3> SUFFICES ASSUME NEW i \in ClanIds
                 PROVE  rows'[i] \in [Entries -> Nat]
      OBVIOUS
    <3>1. CASE \E g \in DOMAIN p : key[g] = i
      <4>1. PICK g \in DOMAIN p : key[g] = i
        BY <3>1
      <4>2. rows'[i] = Contract!Shown(p[g])
        BY <1>7, <4>1
      <4> QED BY <4>2 DEF Contract!Shown
    <3>2. CASE \A g \in DOMAIN p : key[g] # i
      <4>1. rows'[i] \in {NoRows, rows[i]}
        BY <1>8, <3>2
      <4> QED BY <4>1 DEF NoRows, TypeOK
    <3> QED BY <1>9, <3>1, <3>2
  <2>2. rows' = [i \in ClanIds |-> rows'[i]]
    BY DEF RowsInserted
  <2> QED BY <2>1, <2>2
<1> QED BY <1>2, <1>4, <1>6, <1>7, <1>8, <1>10, <1>11

\* What the site shows after it: of the server the report, of any other what
\* it showed before.
LEMMA ReplaceRosters ==
    ASSUME TypeOK, NoOrphans, NEW s \in Servers, NEW p \in Payloads,
           NEW key \in [DOMAIN p -> ClanIds],
           Allocates(key, WithoutClans(s)),
           clans' = ClansInserted(WithoutClans(s), s, key),
           rows' = RowsInserted(WithoutRows(IdsOf(clans, s)), p, key)
    PROVE  /\ IdsOf(clans', s) = {key[g] : g \in DOMAIN p}
           /\ Members(s)' = Reported(p)
           /\ \A t \in Servers \ {s} :
                 /\ IdsOf(clans', t) = IdsOf(clans, t)
                 /\ \A i \in IdsOf(clans, t) :
                       clans'[i] = clans[i] /\ rows'[i] = rows[i]
                 /\ Members(t)' = Members(t)
<1> USE ClanAssumption
<1>1. /\ \A g \in DOMAIN p :
            /\ clans'[key[g]] = [server |-> s, guid |-> g]
            /\ rows'[key[g]] = Contract!Shown(p[g])
            /\ clans[key[g]] = NoClan \/ key[g] \in IdsOf(clans, s)
      /\ \A g, h \in DOMAIN p : key[g] = key[h] => g = h
      /\ \A i \in ClanIds :
            (\A g \in DOMAIN p : key[g] # i) =>
               IF i \in IdsOf(clans, s)
                 THEN clans'[i] = NoClan /\ rows'[i] = NoRows
                 ELSE clans'[i] = clans[i] /\ rows'[i] = rows[i]
  BY ReplaceTables
<1>2. \A g \in DOMAIN p : key[g] \in ClanIds /\ g \in Guids
  OBVIOUS
<1>3. ASSUME NEW g \in DOMAIN p
      PROVE  /\ clans'[key[g]].server = s
             /\ clans'[key[g]].guid = g
             /\ clans'[key[g]] # NoClan
             /\ \A m \in Players :
                   rows'[key[g]][m] = IF m \in p[g] THEN 1 ELSE 0
  <2> DEFINE c == [server |-> s, guid |-> g]
  <2>1. c \in ClanRow /\ c.server = s /\ c.guid = g
    BY <1>2 DEF ClanRow
  <2>2. clans'[key[g]] = c
    BY <1>1
  <2>3. rows'[key[g]] = Contract!Shown(p[g])
    BY <1>1
  <2>4. \A m \in Players : Contract!Shown(p[g])[m] = IF m \in p[g] THEN 1 ELSE 0
    BY DEF Contract!Shown, Entries
  <2> HIDE DEF c
  <2> QED BY <2>1, <2>2, <2>3, <2>4
<1>4. IdsOf(clans', s) = {key[g] : g \in DOMAIN p}
  <2>1. ASSUME NEW g \in DOMAIN p PROVE key[g] \in IdsOf(clans', s)
    BY <1>3, <1>2 DEF IdsOf
  <2>2. ASSUME NEW i \in IdsOf(clans', s), \A g \in DOMAIN p : key[g] # i
        PROVE  FALSE
    <3>1. i \in ClanIds /\ clans'[i] # NoClan /\ clans'[i].server = s
      BY DEF IdsOf
    <3>2. i \notin IdsOf(clans, s) /\ clans'[i] = clans[i]
      BY <1>1, <2>2, <3>1
    <3> QED BY <3>1, <3>2 DEF IdsOf
  <2> QED BY <2>1, <2>2
<1>5. ASSUME NEW g \in Guids, NEW m \in Players
      PROVE  <<g, m>> \in Members(s)' <=> <<g, m>> \in Reported(p)
  <2>1. <<g, m>> \in Members(s)' <=>
           \E h \in DOMAIN p : clans'[key[h]].guid = g /\ rows'[key[h]][m] > 0
    BY <1>4 DEF Members
  <2>2. \A h \in DOMAIN p : /\ clans'[key[h]].guid = h
                            /\ rows'[key[h]][m] = IF m \in p[h] THEN 1 ELSE 0
    BY <1>3
  <2>3. <<g, m>> \in Members(s)' <=> \E h \in DOMAIN p : h = g /\ m \in p[h]
    BY <2>1, <2>2
  <2> QED BY <2>3 DEF Reported
<1>6. Members(s)' = Reported(p)
  BY <1>5 DEF Members, Reported
<1>7. ASSUME NEW t \in Servers \ {s}
      PROVE  /\ IdsOf(clans', t) = IdsOf(clans, t)
             /\ \A i \in IdsOf(clans, t) :
                   clans'[i] = clans[i] /\ rows'[i] = rows[i]
  <2>1. ASSUME NEW i \in IdsOf(clans, t)
        PROVE  i \in ClanIds /\ clans'[i] = clans[i] /\ rows'[i] = rows[i]
    <3>1. i \in ClanIds /\ clans[i] # NoClan /\ clans[i].server = t
      BY DEF IdsOf
    <3>2. i \notin IdsOf(clans, s)
      BY <3>1 DEF IdsOf
    <3>3. ASSUME NEW g \in DOMAIN p PROVE key[g] # i
      <4>1. clans[key[g]] = NoClan \/ key[g] \in IdsOf(clans, s)
        BY <1>1
      <4> QED BY <3>1, <3>2, <4>1
    <3> QED BY <1>1, <3>1, <3>2, <3>3
  <2>2. ASSUME NEW i \in IdsOf(clans', t) PROVE i \in IdsOf(clans, t)
    <3>1. i \in ClanIds /\ clans'[i] # NoClan /\ clans'[i].server = t
      BY DEF IdsOf
    <3>2. \A g \in DOMAIN p : key[g] # i
      BY <1>3, <3>1
    <3>3. clans'[i] = clans[i]
      BY <1>1, <3>1, <3>2
    <3> QED BY <3>1, <3>3 DEF IdsOf
  <2>3. IdsOf(clans, t) \subseteq IdsOf(clans', t)
    BY <2>1 DEF IdsOf
  <2> QED BY <2>1, <2>2, <2>3
<1>8. ASSUME NEW t \in Servers \ {s} PROVE Members(t)' = Members(t)
  <2>1. /\ IdsOf(clans', t) = IdsOf(clans, t)
        /\ \A i \in IdsOf(clans, t) :
              clans'[i] = clans[i] /\ rows'[i] = rows[i]
    BY <1>7
  <2>2. Members(t)' = {gm \in Guids \X Players :
           \E i \in IdsOf(clans, t) : /\ clans'[i].guid = gm[1]
                                     /\ rows'[i][gm[2]] > 0}
    BY <2>1 DEF Members
  <2> QED BY <2>1, <2>2 DEF Members
<1> QED BY <1>4, <1>6, <1>7, <1>8

LEMMA ReplaceStep ==
    ASSUME IInv, NEW r \in Requests, SyncReplace(r)
    PROVE  IInv'
<1> USE ClanAssumption
<1> DEFINE end == [Idle EXCEPT !.stage = "done"]
<1>1. PICK s \in Servers, p \in Payloads :
        /\ s = req[r].server /\ p = req[r].payload
        /\ At(r, "replace") /\ InFlight(r)
        /\ req[r].joined = Joined(s, p) /\ req[r].left = Left(s, p)
        /\ req[r].ids = IdsOf(clans, s)
  BY DEF SyncReplace, InFlight, IInv, ReadsCurrent, TypeOK
<1>2. /\ history' = IF req[r].logged THEN Extended(history, r) ELSE history
      /\ missed' = IF req[r].logged THEN missed ELSE Extended(missed, r)
      /\ writer' = NoRequest
      /\ req' = [req EXCEPT ![r] = end]
  BY DEF SyncReplace
<1>3. PICK key \in [DOMAIN p -> ClanIds] :
        /\ Allocates(key, WithoutClans(s))
        /\ clans' = ClansInserted(WithoutClans(s), s, key)
        /\ rows' = RowsInserted(WithoutRows(IdsOf(clans, s)), p, key)
  BY <1>1 DEF SyncReplace
<1>4. end \in [stage: Stages, server: Servers, payload: Payloads \cup {Empty},
                logged: BOOLEAN, joined: SUBSET (Guids \X Players),
                left: SUBSET (Guids \X Players), ids: SUBSET ClanIds]
      /\ end.stage = "done"
  BY IdleType DEF Stages, Idle
<1> HIDE DEF end
<1>5. /\ req'[r] = end
      /\ \A q \in Requests : q # r => req'[q] = req[q]
      /\ ~InFlight(r)'
  BY <1>2, <1>4 DEF IInv, TypeOK, InFlight, At
<1>6. /\ \A g \in DOMAIN p :
            /\ clans'[key[g]] = [server |-> s, guid |-> g]
            /\ rows'[key[g]] = Contract!Shown(p[g])
            /\ clans[key[g]] = NoClan \/ key[g] \in IdsOf(clans, s)
      /\ \A g, h \in DOMAIN p : key[g] = key[h] => g = h
      /\ \A i \in ClanIds :
            (\A g \in DOMAIN p : key[g] # i) =>
               IF i \in IdsOf(clans, s)
                 THEN clans'[i] = NoClan /\ rows'[i] = NoRows
                 ELSE clans'[i] = clans[i] /\ rows'[i] = rows[i]
      /\ clans' \in [ClanIds -> ClanRow \cup {NoClan}]
      /\ rows' \in [ClanIds -> [Entries -> Nat]]
  BY <1>1, <1>3, ReplaceTables DEF IInv
<1>7. /\ IdsOf(clans', s) = {key[g] : g \in DOMAIN p}
      /\ Members(s)' = Reported(p)
      /\ \A t \in Servers \ {s} : /\ IdsOf(clans', t) = IdsOf(clans, t)
                                  /\ Members(t)' = Members(t)
  BY <1>1, <1>3, ReplaceRosters DEF IInv
<1>8. TypeOK'
  <2>1. ASSUME NEW i \in ClanIds, NEW j \in ClanIds,
               clans'[i] # NoClan, clans'[i] = clans'[j]
        PROVE  i = j
    <3>1. i \in IdsOf(clans', s) <=> j \in IdsOf(clans', s)
      BY <2>1 DEF IdsOf
    <3>2. CASE i \in IdsOf(clans', s)
      <4>1. PICK g \in DOMAIN p, h \in DOMAIN p : i = key[g] /\ j = key[h]
        BY <1>7, <3>1, <3>2
      <4>2. [server |-> s, guid |-> g] = [server |-> s, guid |-> h]
        BY <1>6, <2>1, <4>1
      <4>3. g = h
        BY <4>2
      <4> QED BY <4>1, <4>3
    <3>3. CASE i \notin IdsOf(clans', s)
      <4>1. /\ \A g \in DOMAIN p : key[g] # i
            /\ \A g \in DOMAIN p : key[g] # j
        BY <1>7, <3>1, <3>3
      <4>2. clans'[i] = clans[i]
        BY <1>6, <2>1, <4>1
      <4>3. clans'[j] = clans[j]
        BY <1>6, <2>1, <4>1
      <4> QED BY <2>1, <4>2, <4>3 DEF IInv, TypeOK
    <3> QED BY <3>2, <3>3
  <2>2. {history', missed'} \subseteq [Servers -> [Guids -> [Players -> Int]]]
    <3>1. ASSUME NEW sums \in [Servers -> [Guids -> [Players -> Int]]]
          PROVE  Extended(sums, r) \in [Servers -> [Guids -> [Players -> Int]]]
      BY <1>1 DEF Extended
    <3> QED BY <1>2, <3>1 DEF IInv, TypeOK
  <2>3. req' \in [Requests -> [stage: Stages, server: Servers,
                              payload: Payloads \cup {Empty},
                              logged: BOOLEAN, joined: SUBSET (Guids \X Players),
                              left: SUBSET (Guids \X Players),
                              ids: SUBSET ClanIds]]
    BY <1>2, <1>4 DEF IInv, TypeOK
  <2> QED BY <1>2, <1>6, <2>1, <2>2, <2>3 DEF TypeOK
<1>9. OneInFlight'
  BY <1>5 DEF OneInFlight, InFlight, At, IInv
<1>10. ReadsCurrent'
  <2> SUFFICES ASSUME NEW q \in Requests, InFlight(q)'
               PROVE  /\ req'[q].payload \in Payloads
                      /\ req'[q].joined =
                           Joined(req[q].server, req[q].payload)'
                      /\ req'[q].left =
                           Left(req[q].server, req[q].payload)'
                      /\ At(q, "replace")' =>
                            req'[q].ids = IdsOf(clans, req[q].server)'
    BY DEF ReadsCurrent, InFlight
  <2> DEFINE t == req[q].server
  <2>1. q # r /\ req'[q] = req[q]
    BY <1>5
  <2>2. InFlight(q)
    BY <2>1 DEF InFlight, At
  <2>3. t \in Servers \ {s}
    BY <1>1, <2>1, <2>2 DEF IInv, TypeOK, OneInFlight
  <2>4. Members(t)' = Members(t) /\ IdsOf(clans', t) = IdsOf(clans, t)
    BY <1>7, <2>3, <2>1
  <2>5. /\ Joined(t, req[q].payload)' = Joined(t, req[q].payload)
        /\ Left(t, req[q].payload)' = Left(t, req[q].payload)
    BY <2>1, <2>4 DEF Joined, Left, Reported
  <2>6. IdsOf(clans, t)' = IdsOf(clans, t)
    BY <2>1, <2>4
  <2> QED BY <2>1, <2>2, <2>5, <2>6 DEF IInv, ReadsCurrent, InFlight, At
<1>11. NoOrphans'
  <2> SUFFICES ASSUME NEW i \in ClanIds, clans'[i] = NoClan
               PROVE  rows'[i] = NoRows
    BY DEF NoOrphans, NoRows
  <2>1. i \notin IdsOf(clans', s)
    BY DEF IdsOf
  <2>2. \A g \in DOMAIN p : key[g] # i
    BY <1>7, <2>1
  <2> QED BY <1>6, <2>2 DEF IInv, NoOrphans
<1>12. HistoryExplainsRoster'
  <2> SUFFICES ASSUME NEW t \in Servers, NEW g \in Guids, NEW m \in Players
               PROVE  history'[t][g][m] + missed'[t][g][m] =
                        IF <<g, m>> \in Members(t)' THEN 1 ELSE 0
    BY DEF HistoryExplainsRoster
  <2>1. /\ history[t][g][m] + missed[t][g][m] = IF <<g, m>> \in Members(t) THEN 1 ELSE 0
        /\ history[t][g][m] \in Int /\ missed[t][g][m] \in Int
    BY DEF IInv, HistoryExplainsRoster, TypeOK
  <2>2. ASSUME NEW sums \in [Servers -> [Guids -> [Players -> Int]]]
        PROVE  Extended(sums, r)[t][g][m] =
                 IF t # s THEN sums[t][g][m]
                 ELSE IF <<g, m>> \in Joined(s, p) THEN sums[s][g][m] + 1
                 ELSE IF <<g, m>> \in Left(s, p) THEN sums[s][g][m] - 1
                 ELSE sums[s][g][m]
    BY <1>1 DEF Extended
  <2>3. \/ /\ history'[t][g][m] = Extended(history, r)[t][g][m]
           /\ missed'[t][g][m] = missed[t][g][m]
        \/ /\ history'[t][g][m] = history[t][g][m]
           /\ missed'[t][g][m] = Extended(missed, r)[t][g][m]
    BY <1>2
  <2>4. /\ history \in [Servers -> [Guids -> [Players -> Int]]]
        /\ missed \in [Servers -> [Guids -> [Players -> Int]]]
    BY DEF IInv, TypeOK
  <2>5. IF t # s THEN Members(t)' = Members(t)
        ELSE /\ Members(t)' = Reported(p)
             /\ Joined(s, p) = Reported(p) \ Members(t)
             /\ Left(s, p) = Members(t) \ Reported(p)
    BY <1>7 DEF Joined, Left
  <2>6. /\ Extended(history, r)[t][g][m] =
              IF t # s THEN history[t][g][m]
              ELSE IF <<g, m>> \in Joined(s, p) THEN history[s][g][m] + 1
              ELSE IF <<g, m>> \in Left(s, p) THEN history[s][g][m] - 1
              ELSE history[s][g][m]
        /\ Extended(missed, r)[t][g][m] =
              IF t # s THEN missed[t][g][m]
              ELSE IF <<g, m>> \in Joined(s, p) THEN missed[s][g][m] + 1
              ELSE IF <<g, m>> \in Left(s, p) THEN missed[s][g][m] - 1
              ELSE missed[s][g][m]
    BY <2>2, <2>4
  <2>7. CASE t # s
    BY <2>1, <2>3, <2>5, <2>6, <2>7
  <2>8. CASE t = s
    <3>1. /\ <<g, m>> \in Joined(s, p) <=> <<g, m>> \in Reported(p) /\ <<g, m>> \notin Members(t)
          /\ <<g, m>> \in Left(s, p) <=> <<g, m>> \in Members(t) /\ <<g, m>> \notin Reported(p)
          /\ <<g, m>> \in Members(t)' <=> <<g, m>> \in Reported(p)
      BY <2>5, <2>8
    <3> QED BY <2>1, <2>3, <2>6, <2>8, <3>1
  <2> QED BY <2>7, <2>8
<1> QED BY <1>8, <1>9, <1>10, <1>11, <1>12 DEF IInv

-----------------------------------------------------------------------------
\* The theorems, for plugins that wait for the answer to their last sync.

LEMMA Inductive ==
    ASSUME IInv, ~MayOverlap, [Next]_vars
    PROVE  IInv'
<1>1. CASE UNCHANGED vars
  <2> USE <1>1 DEF vars, IInv
  <2>1. TypeOK' /\ OneInFlight' /\ NoOrphans'
    BY DEF TypeOK, OneInFlight, InFlight, At, NoOrphans
  <2>2. \A s \in Servers : \A p : /\ Joined(s, p)' = Joined(s, p)
                                  /\ Left(s, p)' = Left(s, p)
                                  /\ Members(s)' = Members(s)
    BY MembersSame
  <2>3. ReadsCurrent'
    BY <2>2 DEF ReadsCurrent, InFlight, At, IdsOf, TypeOK
  <2>4. HistoryExplainsRoster'
    BY <2>2 DEF HistoryExplainsRoster
  <2> QED BY <2>1, <2>3, <2>4
<1>2. CASE Next
  BY <1>2, DiffStep, IdsStep, ReplaceStep, FailStep DEF Next
<1> QED BY <1>1, <1>2

\* Every reachable state satisfies the inductive invariant.
LEMMA Invariance ==
    ASSUME ~MayOverlap
    PROVE  Spec => []IInv
<1>1. IInv /\ [Next]_vars => IInv'
  BY Inductive
<1> QED BY <1>1, InitIInv, PTL DEF Spec

\* Every variable has its type, and no clan of a server has two rows of one
\* guid: the deletes come before the inserts (uq_game_clan_server_guid).
THEOREM TypeCorrect ==
    ASSUME ~MayOverlap
    PROVE  Spec => []TypeOK
<1>1. IInv => TypeOK
  BY DEF IInv
<1> QED BY <1>1, Invariance, PTL

\* No member or castle row outlives its clan: a reused id inherits nothing
\* (the explicit deletes of plugin_clans_sync).
THEOREM NothingOrphaned ==
    ASSUME ~MayOverlap
    PROVE  Spec => []NoOrphans
<1>1. IInv => NoOrphans
  BY DEF IInv
<1> QED BY <1>1, Invariance, PTL

\* The joined/left history of every clan, and what the syncs whose diff failed
\* left out of it, add up to its roster (_record_clan_membership_events, its
\* except branch, and the replacement, one transaction).
THEOREM HistoryAddsUp ==
    ASSUME ~MayOverlap
    PROVE  Spec => []HistoryExplainsRoster
<1>1. IInv => HistoryExplainsRoster
  BY DEF IInv
<1> QED BY <1>1, Invariance, PTL

\* The board, before any sync.
LEMMA BoardInit == Init => Contract!Init
<1> SUFFICES ASSUME Init PROVE Board = [s \in Servers |-> Contract!ShownRoster(Contract!Empty)]
  BY DEF Contract!Init
<1>1. ASSUME NEW s \in Servers
      PROVE  [g \in {clans[i].guid : i \in IdsOf(clans, s)} |->
                rows[CHOOSE i \in IdsOf(clans, s) : clans[i].guid = g]]
             = Contract!ShownRoster(Contract!Empty)
  <2>1. {clans[i].guid : i \in IdsOf(clans, s)} = {}
    BY DEF Init, IdsOf
  <2>2. DOMAIN Contract!Empty = {}
    BY DEF Contract!Empty
  <2> QED BY <2>1, <2>2 DEF Contract!ShownRoster
<1> QED BY <1>1 DEF Board

\* A clan of a table without two rows of one guid is found by its guid.
LEMMA FoundByGuid ==
    ASSUME NEW table \in [ClanIds -> ClanRow \cup {NoClan}],
           \A i, j \in ClanIds :
              table[i] # NoClan /\ table[i] = table[j] => i = j,
           NEW s \in Servers, NEW k \in IdsOf(table, s), NEW g,
           table[k].guid = g
    PROVE  (CHOOSE i \in IdsOf(table, s) : table[i].guid = g) = k
<1>1. ASSUME NEW i \in IdsOf(table, s), table[i].guid = g
      PROVE  i = k
  <2>1. /\ i \in ClanIds /\ table[i] \in ClanRow /\ table[i].server = s
        /\ k \in ClanIds /\ table[k] \in ClanRow /\ table[k].server = s
    BY DEF IdsOf
  <2>2. table[i] = table[k]
    BY <1>1, <2>1 DEF ClanRow
  <2>3. table[i] # NoClan
    BY DEF IdsOf
  <2> QED BY <2>1, <2>2, <2>3
<1> QED BY <1>1

\* One server's part of the board.
Roster(s) ==
    [g \in {clans[i].guid : i \in IdsOf(clans, s)} |->
        rows[CHOOSE i \in IdsOf(clans, s) : clans[i].guid = g]]

\* The step that replaces the tables is a replacement of the board.
LEMMA BoardReplaced ==
    ASSUME IInv, NEW r \in Requests, SyncReplace(r)
    PROVE  Contract!Next
<1> USE ClanAssumption
<1>1. PICK s \in Servers, p \in Payloads :
        /\ s = req[r].server /\ p = req[r].payload
        /\ req[r].ids = IdsOf(clans, s)
  BY DEF SyncReplace, InFlight, At, IInv, ReadsCurrent, TypeOK
<1>2. PICK key \in [DOMAIN p -> ClanIds] :
        /\ Allocates(key, WithoutClans(s))
        /\ clans' = ClansInserted(WithoutClans(s), s, key)
        /\ rows' = RowsInserted(WithoutRows(IdsOf(clans, s)), p, key)
  BY <1>1 DEF SyncReplace
<1>3. \A g \in DOMAIN p :
         /\ clans'[key[g]] = [server |-> s, guid |-> g]
         /\ rows'[key[g]] = Contract!Shown(p[g])
  BY <1>1, <1>2, ReplaceTables DEF IInv
<1>4. /\ IdsOf(clans', s) = {key[g] : g \in DOMAIN p}
      /\ \A t \in Servers \ {s} :
            /\ IdsOf(clans', t) = IdsOf(clans, t)
            /\ \A i \in IdsOf(clans, t) :
                  clans'[i] = clans[i] /\ rows'[i] = rows[i]
  BY <1>1, <1>2, ReplaceRosters DEF IInv
<1>5. /\ clans \in [ClanIds -> ClanRow \cup {NoClan}]
      /\ \A i, j \in ClanIds :
            clans[i] # NoClan /\ clans[i] = clans[j] => i = j
      /\ clans' \in [ClanIds -> ClanRow \cup {NoClan}]
      /\ \A i, j \in ClanIds :
            clans'[i] # NoClan /\ clans'[i] = clans'[j] => i = j
  BY ReplaceStep DEF IInv, TypeOK
<1>6. Roster(s)' = Contract!ShownRoster(p)
  <2> DEFINE E(g) == rows'[CHOOSE i \in IdsOf(clans', s) : clans'[i].guid = g]
  <2>1. ASSUME NEW g \in DOMAIN p PROVE clans'[key[g]].guid = g
    <3> DEFINE c == [server |-> s, guid |-> g]
    <3>1. c.guid = g
      OBVIOUS
    <3> HIDE DEF c
    <3>2. clans'[key[g]] = c
      BY <1>3 DEF c
    <3> QED BY <3>1, <3>2
  <2>2. {clans'[i].guid : i \in IdsOf(clans', s)} = DOMAIN p
    <3>1. ASSUME NEW g \in DOMAIN p
          PROVE  g \in {clans'[i].guid : i \in IdsOf(clans', s)}
      BY <1>4, <2>1
    <3>2. ASSUME NEW i \in IdsOf(clans', s) PROVE clans'[i].guid \in DOMAIN p
      <4>1. PICK g \in DOMAIN p : i = key[g]
        BY <1>4
      <4> QED BY <2>1, <4>1
    <3> QED BY <3>1, <3>2
  <2>3. ASSUME NEW g \in DOMAIN p
        PROVE  E(g) = Contract!Shown(p[g])
    <3>1. key[g] \in IdsOf(clans', s)
      BY <1>4
    <3>2. (CHOOSE i \in IdsOf(clans', s) : clans'[i].guid = g) = key[g]
      BY <1>5, <2>1, <3>1, FoundByGuid
    <3> QED BY <1>3, <3>2
  <2>4. Roster(s)' = [g \in {clans'[i].guid : i \in IdsOf(clans', s)} |-> E(g)]
    BY DEF Roster
  <2> HIDE DEF E
  <2>5. Roster(s)' = [g \in DOMAIN p |-> Contract!Shown(p[g])]
    BY <2>2, <2>3, <2>4
  <2> QED BY <2>5 DEF Contract!ShownRoster
<1>7. ASSUME NEW t \in Servers \ {s} PROVE Roster(t)' = Roster(t)
  <2> DEFINE E(g) == rows'[CHOOSE i \in IdsOf(clans', t) : clans'[i].guid = g]
             F(g) == rows[CHOOSE i \in IdsOf(clans, t) : clans[i].guid = g]
  <2>1. {clans'[i].guid : i \in IdsOf(clans', t)}
        = {clans[i].guid : i \in IdsOf(clans, t)}
    BY <1>4
  <2>2. ASSUME NEW g \in {clans[i].guid : i \in IdsOf(clans, t)}
        PROVE  E(g) = F(g)
    <3>1. PICK k \in IdsOf(clans, t) : clans[k].guid = g
      OBVIOUS
    <3>2. k \in IdsOf(clans', t) /\ clans'[k].guid = g /\ rows'[k] = rows[k]
      BY <1>4, <3>1
    <3>3. (CHOOSE i \in IdsOf(clans, t) : clans[i].guid = g) = k
      BY <1>5, <3>1, FoundByGuid
    <3>4. (CHOOSE i \in IdsOf(clans', t) : clans'[i].guid = g) = k
      BY <1>5, <3>2, FoundByGuid
    <3> QED BY <3>2, <3>3, <3>4
  <2>3. /\ Roster(t)' = [g \in {clans'[i].guid : i \in IdsOf(clans', t)} |-> E(g)]
        /\ Roster(t) = [g \in {clans[i].guid : i \in IdsOf(clans, t)} |-> F(g)]
    BY DEF Roster
  <2> HIDE DEF E, F
  <2> QED BY <2>1, <2>2, <2>3
<1>8. Board' = [Board EXCEPT ![s] = Contract!ShownRoster(p)]
  <2>1. Board = [t \in Servers |-> Roster(t)]
    BY DEF Board, Roster
  <2>2. Board' = [t \in Servers |-> Roster(t)']
    BY DEF Board, Roster
  <2> QED BY <1>6, <1>7, <2>1, <2>2
<1> QED BY <1>8 DEF Contract!Next, Contract!Replace

\* A sync replaces the roster of its server by the reported one, whole, and
\* touches no other (plugin_clans_sync: "replaces (not merges)").
THEOREM Refinement ==
    ASSUME ~MayOverlap
    PROVE  Spec => ReplacesBoard
<1>1. IInv /\ [Next]_vars => [Contract!Next]_Board
  <2> SUFFICES ASSUME IInv, [Next]_vars PROVE [Contract!Next]_Board
    OBVIOUS
  <2>1. ASSUME UNCHANGED <<clans, rows>> PROVE Board' = Board
    BY <2>1 DEF Board, IdsOf
  <2>2. CASE UNCHANGED vars
    BY <2>1, <2>2 DEF vars
  <2>3. ASSUME NEW r \in Requests, SyncReplace(r) PROVE Contract!Next
    BY <2>3, BoardReplaced
  <2>4. ASSUME NEW r \in Requests,
               \/ \E s \in Servers, p \in Payloads : SyncDiff(r, s, p)
               \/ SyncIds(r)
               \/ Fail(r)
        PROVE  UNCHANGED <<clans, rows>>
    BY <2>4 DEF SyncDiff, SyncIds, Fail
  <2> QED BY <2>1, <2>2, <2>3, <2>4 DEF Next
<1> QED BY <1>1, BoardInit, Invariance, PTL DEF Spec, ReplacesBoard, Contract!Spec
=============================================================================
