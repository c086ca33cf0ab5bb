------------------------- MODULE MaintenanceProofs --------------------------
(***************************************************************************)
(* Proof that the flag file follows the maintenance mode, for any number   *)
(* of requests, restarts and orders: between the commit of a writer and    *)
(* its write of the file, nobody else has committed, or the file is astray. *)
(***************************************************************************)
EXTENDS Maintenance, TLAPS

\* The shape of the requests; what they are about plays no part.
Shape ==
    /\ request = [r \in Requests |-> request[r]]
    /\ \A r \in Requests :
          request[r] = [at |-> request[r].at, to |-> request[r].to, by |-> request[r].by,
                        list |-> request[r].list]

\* Unless the file is astray, one writer at most is about to write the file, with
\* the mode it committed, and without such a writer the file is right.
FlagInv ==
    ~astray =>
        /\ \A r, q \in Requests : At(r, "flag") /\ At(q, "flag") => r = q
        /\ \A r \in Requests : At(r, "flag") => request[r].to = mode
        /\ (\A r \in Requests : ~At(r, "flag")) => flag = mode

-----------------------------------------------------------------------------
\* A request moves on: the others stay where they are.
LEMMA Moves ==
    ASSUME Shape, NEW r \in Requests, NEW to, request' = [request EXCEPT ![r] = to]
    PROVE  request'[r] = to /\ \A q \in Requests : q # r => request'[q] = request[q]
BY DEF Shape

LEMMA MovesOn ==
    ASSUME Shape, NEW r \in Requests, NEW stage, Goes(r, stage)
    PROVE  /\ Shape'
           /\ request'[r].at = stage /\ request'[r].to = request[r].to
           /\ \A q \in Requests : q # r => request'[q] = request[q]
BY DEF Shape, Goes

\* A request starts or ends.
LEMMA ShapeMove ==
    ASSUME Shape, NEW r \in Requests, NEW at, NEW to, NEW by, NEW list,
           request' = [request EXCEPT ![r] =
                          [at |-> at, to |-> to, by |-> by, list |-> list]]
    PROVE  Shape'
BY DEF Shape

\* A step that leaves the mode, the file and who writes it.
LEMMA Quiet ==
    ASSUME FlagInv, UNCHANGED <<mode, flag, astray>>,
           \A q \in Requests :
              /\ At(q, "flag")' <=> At(q, "flag")
              /\ At(q, "flag") => request'[q].to = request[q].to
    PROVE  FlagInv'
BY DEF FlagInv

\* A request that does not write the file goes somewhere else.
LEMMA QuietMove ==
    ASSUME Shape, FlagInv, UNCHANGED <<mode, flag, astray>>, NEW r \in Requests,
           ~At(r, "flag"), NEW to, to.at # "flag", request' = [request EXCEPT ![r] = to]
    PROVE  FlagInv'
<1>1. \A q \in Requests : /\ At(q, "flag")' <=> At(q, "flag")
                          /\ At(q, "flag") => request'[q].to = request[q].to
  BY Moves DEF At
<1> QED BY <1>1, Quiet

LEMMA EndsQuiet ==
    ASSUME Shape, FlagInv, UNCHANGED <<mode, flag, astray>>, NEW r \in Requests,
           ~At(r, "flag"), Ends(r)
    PROVE  Shape' /\ FlagInv'
<1>1. Idle.at # "flag" /\ request' = [request EXCEPT ![r] = Idle]
  BY DEF Idle, Ends
<1>2. Shape'
  BY <1>1, ShapeMove DEF Idle
<1> QED BY <1>1, <1>2, QuietMove

\* The commit: nobody else is about to write the file, or the writers astray.
LEMMA CommitStep ==
    ASSUME Shape, FlagInv, NEW r \in Requests, Commit(r)
    PROVE  Shape' /\ FlagInv'
<1>1. /\ Shape'
      /\ request'[r].at = "flag" /\ request'[r].to = request[r].to
      /\ \A q \in Requests : q # r => request'[q] = request[q]
  BY MovesOn DEF Commit
<1>2. ~astray' => \A q \in Requests : At(q, "flag")' => q = r
  BY <1>1 DEF Commit, At
<1>3. ~astray' => mode' = request[r].to
  BY DEF Commit
<1>4. At(r, "flag")'
  BY <1>1 DEF At
<1> QED BY <1>1, <1>2, <1>3, <1>4 DEF FlagInv

\* The file is written: by the only writer, if none astray.
LEMMA WriteFlagStep ==
    ASSUME Shape, FlagInv, NEW r \in Requests, WriteFlag(r)
    PROVE  Shape' /\ FlagInv'
<1>1. /\ Shape'
      /\ request'[r].at = "record"
      /\ \A q \in Requests : q # r => request'[q] = request[q]
  BY MovesOn DEF WriteFlag
<1>2. /\ ~At(r, "flag")'
      /\ \A q \in Requests : q # r => (At(q, "flag")' <=> At(q, "flag"))
  BY <1>1 DEF At
<1>3. flag' = request[r].to /\ At(r, "flag") /\ UNCHANGED <<mode, astray>>
  BY DEF WriteFlag
<1>4. ~astray => flag' = mode /\ \A q \in Requests : At(q, "flag") => q = r
  BY <1>3 DEF FlagInv
<1> QED BY <1>1, <1>2, <1>3, <1>4 DEF FlagInv

\* It is not written, and was right before, or is astray.
LEMMA WriteFlagFailsStep ==
    ASSUME Shape, FlagInv, NEW r \in Requests, WriteFlagFails(r) \/ RefreshFails(r)
    PROVE  Shape' /\ FlagInv'
<1>1. /\ Shape'
      /\ request'[r].at # "flag"
      /\ \A q \in Requests : q # r => request'[q] = request[q]
  <2>1. CASE WriteFlagFails(r)
    BY <2>1, MovesOn DEF WriteFlagFails
  <2>2. CASE RefreshFails(r)
    <3>1. request' = [request EXCEPT ![r] = Idle] /\ Idle.at # "flag"
      BY <2>2 DEF RefreshFails, Ends, Idle
    <3>2. Shape'
      BY <3>1, ShapeMove DEF Idle
    <3> QED BY <3>1, <3>2, Moves
  <2> QED BY <2>1, <2>2
<1>2. /\ ~At(r, "flag")'
      /\ \A q \in Requests : q # r => (At(q, "flag")' <=> At(q, "flag"))
  BY <1>1 DEF At
<1>3. /\ At(r, "flag") /\ UNCHANGED <<mode, flag>>
      /\ ~astray' => ~astray /\ flag = request[r].to
  BY DEF WriteFlagFails, RefreshFails
<1>4. ~astray' => flag' = mode' /\ \A q \in Requests : At(q, "flag") => q = r
  BY <1>3 DEF FlagInv
<1> QED BY <1>1, <1>2, <1>3, <1>4 DEF FlagInv

LEMMA RequestStep ==
    ASSUME Shape, FlagInv, NEW r \in Requests,
           \/ Visit(r)
           \/ \E to \in BOOLEAN : Switch(r, to)
           \/ CommitFails(r)
           \/ RecordRead(r)
           \/ RecordWrite(r)
           \/ RecordFails(r)
    PROVE  Shape' /\ FlagInv'
<1>1. ASSUME NEW to, NEW by, UNCHANGED <<mode, flag, astray>>, Begins(r, to, by)
      PROVE  Shape' /\ FlagInv'
  <2>1. request' = [request EXCEPT ![r] =
                       [at |-> "write", to |-> to, by |-> by, list |-> <<>>]]
    BY <1>1 DEF Begins
  <2>2. Shape'
    BY <2>1, ShapeMove
  <2>3. ~At(r, "flag")
    BY <1>1 DEF At, Begins
  <2> QED BY <1>1, <2>1, <2>2, <2>3, QuietMove
<1>2. CASE Visit(r)
  BY <1>1, <1>2 DEF Visit
<1>3. ASSUME NEW to \in BOOLEAN, Switch(r, to) PROVE Shape' /\ FlagInv'
  BY <1>1, <1>3 DEF Switch
<1>4. CASE CommitFails(r) \/ RecordWrite(r) \/ RecordFails(r)
  BY <1>4, EndsQuiet DEF CommitFails, RecordWrite, RecordFails, At
<1>5. CASE RecordRead(r)
  <2>1. /\ request' = [request EXCEPT ![r].at = "recorded", ![r].list = episodes]
        /\ At(r, "record") /\ UNCHANGED <<mode, flag, astray>>
    BY <1>5 DEF RecordRead
  <2> DEFINE went == [request EXCEPT ![r].at = "recorded"]
  <2>2. /\ went = [q \in Requests |-> went[q]]
        /\ went[r] = [at |-> "recorded", to |-> request[r].to, by |-> request[r].by,
                    list |-> request[r].list]
        /\ \A q \in Requests : q # r => went[q] = request[q]
    BY DEF Shape
  <2>3. request' = [went EXCEPT ![r].list = episodes]
    BY <2>1
  <2>4. /\ request'[r] = [at |-> "recorded", to |-> request[r].to, by |-> request[r].by,
                       list |-> episodes]
        /\ \A q \in Requests : q # r => request'[q] = request[q]
    <3> HIDE DEF went
    <3> QED BY <2>2, <2>3
  <2>5. request' = [q \in Requests |-> request'[q]]
    BY <2>1 DEF Shape
  <2>6. Shape'
    BY <2>4, <2>5 DEF Shape
  <2>7. \A q \in Requests : /\ At(q, "flag")' <=> At(q, "flag")
                            /\ At(q, "flag") => request'[q].to = request[q].to
    <3>1. ~At(r, "flag") /\ ~At(r, "flag")'
      BY <2>1, <2>4 DEF At
    <3> QED BY <2>4, <3>1 DEF At
  <2> QED BY <2>1, <2>6, <2>7, Quiet
<1> QED BY <1>2, <1>3, <1>4, <1>5

\* The site is closed by nginx exactly when the setting says so, whatever requests,
\* schedules, crashes and restarts there are, unless since the last start or lone writer
\* that wrote the file an import wrote the setting, two writers crossed, or the file was
\* not written.
THEOREM FlagIsRight == Spec => []FlagFollowsMode
<1>1. Init => Shape /\ FlagInv
  <2> SUFFICES ASSUME Init PROVE Shape /\ FlagInv
    OBVIOUS
  <2>1. \A r \in Requests : request[r] = Idle
    BY DEF Init
  <2>2. Shape
    BY <2>1 DEF Init, Shape, Idle
  <2>3. \A r \in Requests : ~At(r, "flag")
    BY <2>1 DEF At, Idle
  <2>4. flag = mode
    BY DEF Init
  <2> QED BY <2>2, <2>3, <2>4 DEF FlagInv
<1>2. Shape /\ FlagInv /\ [Next]_vars => Shape' /\ FlagInv'
  <2> SUFFICES ASSUME Shape, FlagInv, [Next]_vars PROVE Shape' /\ FlagInv'
    OBVIOUS
  <2>1. ASSUME UNCHANGED <<mode, flag, astray, request>> PROVE Shape' /\ FlagInv'
    BY <2>1, Quiet DEF Shape, At
  <2>2. ASSUME NEW r \in Requests,
               Commit(r) \/ WriteFlag(r) \/ WriteFlagFails(r) \/ RefreshFails(r)
        PROVE  Shape' /\ FlagInv'
    BY <2>2, CommitStep, WriteFlagStep, WriteFlagFailsStep
  <2>3. ASSUME NEW to \in BOOLEAN, Import(to) PROVE Shape' /\ FlagInv'
    BY <2>3 DEF Import, Shape, FlagInv
  <2>4. CASE Restart \/ RestoreFails
    <3>1. /\ request' = [r \in Requests |-> Idle]
          /\ ~astray' => flag' = mode'
      BY <2>4 DEF Restart, RestoreFails, Boots
    <3>2. \A r \in Requests : ~At(r, "flag")'
      BY <3>1 DEF Idle, At
    <3> QED BY <3>1, <3>2 DEF Idle, Shape, FlagInv
  <2>5. ASSUME NEW s, NEW e, Reschedule(s, e) PROVE Shape' /\ FlagInv'
    BY <2>1, <2>5 DEF Reschedule
  <2>6. CASE Extend(1) \/ Tick \/ UNCHANGED vars
    BY <2>1, <2>6 DEF Extend, Tick, vars
  <2> QED BY <2>2, <2>3, <2>4, <2>5, <2>6, RequestStep DEF Next
<1>3. FlagInv => FlagFollowsMode
  BY DEF FlagInv, FlagFollowsMode
<1> QED BY <1>1, <1>2, <1>3, PTL DEF Spec

=============================================================================
