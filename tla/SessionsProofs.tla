--------------------------- MODULE SessionsProofs ---------------------------
(***************************************************************************)
(* What the sessions of an account keep, for any number of requests,       *)
(* passwords, seconds and attempts.                                        *)
(***************************************************************************)
EXTENDS Sessions, FiniteSetTheorems, TLAPS

-----------------------------------------------------------------------------
(***************************************************************************)
(* Types.  A request that ends the sessions has read the account (seen,    *)
(* token) at a moment that is not later than the one it takes (now).       *)
(***************************************************************************)

Factors == {"logout", "enable", "disable", "regenerate"}
Stages == {"read", "stamped"}
Moments == -1..MaxTime

FactorType == [op: Factors, stage: {"read"}, token: Seconds, seen: Nat, now: Moments]
EverywhereType == [op: {"everywhere"}, stage: Stages, token: Seconds, seen: Nat, now: Moments]
ChangeType == [op: {"change"}, stage: Stages, token: Seconds, new: Passwords, seen: Nat,
               now: Moments]
AdminType == [op: {"admin"}, stage: Stages, seen: Nat, now: Moments]
ResetType == [op: {"reset"}, stage: Stages, link: Nat, new: Passwords, seen: Nat, now: Moments]
EnderType == EverywhereType \cup ChangeType \cup AdminType \cup ResetType
Requested == RequestType \cup FactorType \cup EnderType

Types ==
    /\ clock \in Seconds
    /\ password \in Passwords
    /\ issued \subseteq Seconds /\ loggedOut \subseteq issued
    /\ cutoff \in Moments
    /\ batches \in Nat /\ unused \subseteq 1..batches
    /\ mailed \in Nat /\ links \subseteq 1..mailed /\ used \subseteq 1..mailed
    /\ fails \in Nat /\ totpFails \in Nat
    /\ endings \in Nat
    /\ req \in [Requests -> Requested]

Switches == totp \in BOOLEAN /\ pending \in BOOLEAN

\* What a request was let in with was issued, and the moment it takes is past.
Grounded ==
    \A r \in Requests :
        /\ req[r].op \in Factors \cup Reissuing => req[r].token \in issued
        /\ req[r].op \in Enders /\ req[r].stage = "stamped" => req[r].now \in 0..clock

TypeInv == Types /\ Switches /\ Grounded

LEMMA FreeRequest == Free \in Requested /\ Free.op = "none"
  BY DEF Requested, RequestType, Free

LEMMA LoginRequest ==
    ASSUME NEW q \in Requested, q.op = "login"
    PROVE  q \in RequestType
  BY DEF Requested, FactorType, Factors, EnderType, EverywhereType, ChangeType, AdminType,
     ResetType

LEMMA EnderRequest ==
    ASSUME NEW q \in Requested, q.op \in Enders
    PROVE  q \in EnderType
  BY DEF Requested, RequestType, Free, FactorType, Factors, EnderType, Enders

\* The moment of a request is written to it.
LEMMA StampedRequest ==
    ASSUME NEW q \in Requested, q.op \in Enders, NEW n \in Moments
    PROVE  LET w == [q EXCEPT !.stage = "stamped", !.now = n]
           IN /\ w \in Requested
              /\ w.op = q.op /\ w.stage = "stamped" /\ w.now = n
              /\ w.seen = q.seen
              /\ q.op \in Reissuing => w.token = q.token
<1>1. q \in EnderType
  BY EnderRequest
<1> DEFINE w == [q EXCEPT !.stage = "stamped", !.now = n]
<1> HIDE DEF Moments
<1>2. CASE q \in EverywhereType
  BY <1>2 DEF EverywhereType, Stages, Requested, EnderType
<1>3. CASE q \in ChangeType
  BY <1>3 DEF ChangeType, Stages, Requested, EnderType
<1>4. CASE q \in AdminType
  BY <1>4 DEF AdminType, Stages, Requested, EnderType, Reissuing
<1>5. CASE q \in ResetType
  BY <1>5 DEF ResetType, Stages, Requested, EnderType, Reissuing
<1> QED BY <1>1, <1>2, <1>3, <1>4, <1>5 DEF EnderType

\* A step gives request r the value w and takes nothing back.
LEMMA ReplacedRequest ==
    ASSUME Types, Grounded, NEW r \in Requests, NEW w \in Requested,
           req' = [req EXCEPT ![r] = w],
           issued \subseteq issued', clock \in Seconds, clock' \in Seconds, clock <= clock',
           w.op \in Factors \cup Reissuing => w.token \in issued',
           w.op \in Enders /\ w.stage = "stamped" => w.now \in 0..clock'
    PROVE  req' \in [Requests -> Requested] /\ Grounded'
<1>1. req' \in [Requests -> Requested]
  BY DEF Types
<1>2. ASSUME NEW q \in Requests
      PROVE  /\ req'[q].op \in Factors \cup Reissuing => req'[q].token \in issued'
             /\ req'[q].op \in Enders /\ req'[q].stage = "stamped" => req'[q].now \in 0..clock'
  <2>1. CASE q = r
    BY <2>1 DEF Types
  <2>2. CASE q # r
    <3>1. req'[q] = req[q]
      BY <2>2 DEF Types
    <3> QED BY <3>1 DEF Grounded, Seconds
  <2> QED BY <2>1, <2>2
<1> QED BY <1>1, <1>2 DEF Grounded

\* A step that frees request r, or leaves the requests alone.
LEMMA FreedRequest ==
    ASSUME Types, Grounded, NEW r \in Requests, Done(r), issued \subseteq issued',
           UNCHANGED clock
    PROVE  req' \in [Requests -> Requested] /\ Grounded'
<1>1. Free.op \notin Factors \cup Reissuing \cup Enders
  BY FreeRequest DEF Factors, Reissuing, Enders
<1>2. clock \in Seconds /\ clock <= clock
  BY SessionsAssumption DEF Types, Seconds
<1>3. req' = [req EXCEPT ![r] = Free]
  BY DEF Done
<1> QED BY <1>1, <1>2, <1>3, FreeRequest, ReplacedRequest

LEMMA SameRequests ==
    ASSUME Types, Grounded, UNCHANGED req, issued \subseteq issued',
           clock' \in Seconds, clock <= clock'
    PROVE  req' \in [Requests -> Requested] /\ Grounded'
<1>1. req' \in [Requests -> Requested]
  BY DEF Types
<1>2. 0..clock \subseteq 0..clock'
  BY SessionsAssumption DEF Types, Seconds
<1>3. Grounded'
  BY <1>2 DEF Grounded
<1> QED BY <1>1, <1>3

\* A request that begins: what it was let in with was issued.
LEMMA BegunRequest ==
    ASSUME TypeInv, NEW r \in Requests, NEW w \in Requested, Begin(r, w),
           UNCHANGED <<tokenVars, password, factorVars, linkVars, limitVars>>,
           w.op \in Factors \cup Reissuing => w.token \in issued,
           w.op \in Enders => w.stage = "read"
    PROVE  TypeInv'
<1>1. w.op \in Enders => w.stage # "stamped"
  OBVIOUS
<1>2. /\ req' = [req EXCEPT ![r] = w]
      /\ UNCHANGED <<clock, issued, loggedOut, cutoff, endings, password, totp, pending,
                     batches, unused, mailed, links, used, fails, totpFails>>
  BY DEF Begin, tokenVars, factorVars, linkVars, limitVars
<1>3. clock \in Seconds /\ clock <= clock
  BY SessionsAssumption DEF TypeInv, Types, Seconds
<1>4. req' \in [Requests -> Requested] /\ Grounded'
  BY <1>1, <1>2, <1>3, ReplacedRequest DEF TypeInv
<1> QED BY <1>2, <1>4 DEF TypeInv, Types, Switches

LEMMA LoginTypes ==
    ASSUME TypeInv, NEW r \in Requests,
           \/ \E p \in Passwords, second \in {"none", "totp", "recovery"} :
                 LoginBegin(r, p, second)
           \/ LoginWrongPassword(r) \/ LoginRead(r) \/ LoginCode(r)
           \/ LoginStamp(r) \/ LoginOpen(r)
    PROVE  TypeInv'
<1> USE DEF TypeInv
<1>1. ASSUME NEW p \in Passwords, NEW second \in {"none", "totp", "recovery"},
             LoginBegin(r, p, second)
      PROVE  TypeInv'
  <2> DEFINE w == [op |-> "login", stage |-> "begun", pass |-> p, second |-> second]
  <2>1. w \in Requested /\ w.op = "login"
    BY DEF Requested, RequestType
  <2>2. w.op \notin Factors \cup Reissuing \cup Enders
    BY <2>1 DEF Factors, Reissuing, Enders
  <2> HIDE DEF w
  <2>3. Begin(r, w)
    BY <1>1 DEF LoginBegin, w
  <2> QED BY <1>1, <2>1, <2>2, <2>3, BegunRequest DEF LoginBegin
<1>2. CASE LoginWrongPassword(r)
  BY <1>2, FreedRequest DEF LoginWrongPassword, Types, Switches, tokenVars, factorVars, linkVars
<1>3. ASSUME NEW w \in Requested, w.op = "login", req' = [req EXCEPT ![r] = w],
             issued' = issued, clock' = clock
      PROVE  req' \in [Requests -> Requested] /\ Grounded'
  <2>1. w.op \notin Factors \cup Reissuing \cup Enders
    BY <1>3 DEF Factors, Reissuing, Enders
  <2>2. clock \in Seconds /\ clock <= clock
    BY SessionsAssumption DEF Types, Seconds
  <2> QED BY <1>3, <2>1, <2>2, ReplacedRequest
<1>4. CASE LoginRead(r)
  <2>1. /\ UNCHANGED <<tokenVars, password, factorVars, linkVars, fails, made>>
        /\ \/ /\ \/ req' = [req EXCEPT ![r] = [op |-> "login", stage |-> "code"]]
                 \/ req' = [req EXCEPT ![r] = [op |-> "login", stage |-> "open", totp |-> totp]]
              /\ UNCHANGED totpFails
           \/ Done(r) /\ totpFails' \in {totpFails, totpFails + 1}
    BY <1>4 DEF LoginRead
  <2>2. /\ [op |-> "login", stage |-> "code"] \in Requested
        /\ [op |-> "login", stage |-> "code"].op = "login"
    BY DEF Requested, RequestType
  <2>3. /\ [op |-> "login", stage |-> "open", totp |-> totp] \in Requested
        /\ [op |-> "login", stage |-> "open", totp |-> totp].op = "login"
    BY DEF Requested, RequestType, Switches
  <2>4. req' \in [Requests -> Requested] /\ Grounded'
    BY <2>1, <2>2, <2>3, <1>3, FreedRequest DEF tokenVars
  <2> QED BY <2>1, <2>4 DEF Types, Switches, tokenVars, factorVars, linkVars
<1>5. CASE LoginCode(r)
  <2>1. /\ UNCHANGED <<tokenVars, password, factorVars, linkVars, fails, made>>
        /\ \/ /\ \E b \in unused :
                    req' = [req EXCEPT ![r] = [op |-> "login", stage |-> "stamp", batch |-> b]]
              /\ UNCHANGED totpFails
           \/ Done(r) /\ totpFails' = totpFails + 1
    BY <1>5 DEF LoginCode
  <2>2. ASSUME NEW b \in unused
        PROVE  /\ [op |-> "login", stage |-> "stamp", batch |-> b] \in Requested
               /\ [op |-> "login", stage |-> "stamp", batch |-> b].op = "login"
    <3>1. b \in Nat
      BY DEF Types
    <3>2. [op |-> "login", stage |-> "stamp", batch |-> b]
             \in [op: {"login"}, stage: {"stamp"}, batch: Nat]
      BY <3>1
    <3> QED BY <3>2 DEF Requested, RequestType
  <2>3. req' \in [Requests -> Requested] /\ Grounded'
    BY <2>1, <2>2, <1>3, FreedRequest DEF tokenVars
  <2> QED BY <2>1, <2>3 DEF Types, Switches, tokenVars, factorVars, linkVars
<1>6. CASE LoginStamp(r)
  <2>1. /\ [op |-> "login", stage |-> "open", totp |-> TRUE] \in Requested
        /\ [op |-> "login", stage |-> "open", totp |-> TRUE].op = "login"
    BY DEF Requested, RequestType
  <2>2. req' \in [Requests -> Requested] /\ Grounded'
    BY <1>6, <2>1, <1>3 DEF LoginStamp, tokenVars
  <2> QED BY <1>6, <2>2 DEF LoginStamp, Types, Switches, tokenVars, linkVars, limitVars
<1>7. CASE LoginOpen(r)
  <2>1. /\ issued' = issued \cup {clock} /\ Done(r)
        /\ fails' = 0 /\ totpFails' \in {0, totpFails}
        /\ UNCHANGED <<clock, loggedOut, cutoff, endings, password, factorVars, linkVars>>
    BY <1>7 DEF LoginOpen, Issue
  <2>2. req' \in [Requests -> Requested] /\ Grounded'
    BY <2>1, FreedRequest
  <2> QED BY <2>1, <2>2 DEF Types, Switches, factorVars, linkVars
<1> QED BY <1>1, <1>2, <1>4, <1>5, <1>6, <1>7

\* A request that is let in with a token, and one of an admin or of a link.
LEMMA SignedTypes ==
    ASSUME TypeInv, NEW r \in Requests,
           \/ Logout(r) \/ LogoutEverywhere(r) \/ RevokeUserSessions(r)
           \/ \E p \in Passwords : ChangePassword(r, p)
           \/ \E l \in links, p \in Passwords : DoResetPassword(r, l, p)
           \/ \E op \in {"enable", "disable", "regenerate"} : TotpRequest(r, op)
    PROVE  TypeInv'
<1>0. endings \in Nat /\ NotYet \in Moments /\ issued \subseteq Seconds
  BY SessionsAssumption DEF TypeInv, Types, NotYet, Moments
<1> HIDE DEF Moments, NotYet
<1>1. ASSUME NEW op \in Factors \cup {"everywhere"}, Signed(r, op),
             UNCHANGED <<tokenVars, password, factorVars, linkVars, limitVars>>
      PROVE  TypeInv'
  <2>1. PICK s \in issued :
               Begin(r, [op |-> op, stage |-> "read", token |-> s, seen |-> endings,
                         now |-> NotYet])
    BY <1>1 DEF Signed
  <2> DEFINE w == [op |-> op, stage |-> "read", token |-> s, seen |-> endings, now |-> NotYet]
  <2>2. w \in Requested /\ w.token = s /\ w.stage = "read"
    BY <1>0 DEF Requested, FactorType, EnderType, EverywhereType, Stages
  <2> HIDE DEF w
  <2>3. Begin(r, w)
    BY <2>1 DEF w
  <2> QED BY <1>1, <2>2, <2>3, BegunRequest
<1>2. CASE RevokeUserSessions(r)
  <2> DEFINE w == [op |-> "admin", stage |-> "read", seen |-> endings, now |-> NotYet]
  <2>1. w \in Requested /\ w.op \notin Factors \cup Reissuing /\ w.stage = "read"
    BY <1>0 DEF Requested, EnderType, AdminType, Stages, Factors, Reissuing
  <2>2. Begin(r, w)
    BY <1>2 DEF RevokeUserSessions
  <2> HIDE DEF w
  <2> QED BY <1>2, <2>1, <2>2, BegunRequest DEF RevokeUserSessions
<1>3. ASSUME NEW new \in Passwords, ChangePassword(r, new)
      PROVE  TypeInv'
  <2>1. PICK s \in issued :
               Begin(r, [op |-> "change", stage |-> "read", token |-> s, new |-> new,
                         seen |-> endings, now |-> NotYet])
    BY <1>3 DEF ChangePassword
  <2> DEFINE w == [op |-> "change", stage |-> "read", token |-> s, new |-> new,
                   seen |-> endings, now |-> NotYet]
  <2>2. w \in Requested /\ w.token = s /\ w.stage = "read"
    BY <1>0 DEF Requested, EnderType, ChangeType, Stages
  <2> HIDE DEF w
  <2>3. Begin(r, w)
    BY <2>1 DEF w
  <2> QED BY <1>3, <2>2, <2>3, BegunRequest DEF ChangePassword
<1>4. ASSUME NEW l \in links, NEW new \in Passwords, DoResetPassword(r, l, new)
      PROVE  TypeInv'
  <2> DEFINE w == [op |-> "reset", stage |-> "read", link |-> l, new |-> new,
                   seen |-> endings, now |-> NotYet]
  <2>1. l \in Nat
    BY DEF TypeInv, Types
  <2>2. w \in Requested /\ w.op \notin Factors \cup Reissuing /\ w.stage = "read"
    BY <1>0, <2>1 DEF Requested, EnderType, ResetType, Stages, Factors, Reissuing
  <2>3. Begin(r, w)
    BY <1>4 DEF DoResetPassword
  <2> HIDE DEF w
  <2> QED BY <1>4, <2>2, <2>3, BegunRequest DEF DoResetPassword
<1>5. CASE Logout(r)
  BY <1>1, <1>5 DEF Logout, Factors
<1>6. CASE LogoutEverywhere(r)
  BY <1>1, <1>6 DEF LogoutEverywhere
<1>7. ASSUME NEW op \in {"enable", "disable", "regenerate"}, TotpRequest(r, op)
      PROVE  TypeInv'
  BY <1>1, <1>7 DEF TotpRequest, Factors
<1> QED BY <1>2, <1>3, <1>4, <1>5, <1>6, <1>7

\* A request that ends the sessions stamps its moment and writes.
LEMMA EnderTypes ==
    ASSUME TypeInv, NEW r \in Requests, EndStamp(r) \/ EndFails(r) \/ EndWrite(r)
    PROVE  TypeInv'
<1> USE DEF TypeInv
<1>0. req[r] \in Requested /\ clock \in Seconds /\ clock <= clock /\ clock \in 0..clock
  BY SessionsAssumption DEF Types, Seconds
<1>1. CASE EndStamp(r)
  <2> DEFINE w == [req[r] EXCEPT !.stage = "stamped", !.now = clock]
  <2>1. req[r].op \in Enders
    BY <1>1 DEF EndStamp
  <2>2. clock \in Moments
    BY <1>0, SessionsAssumption DEF Seconds, Moments
  <2>3. /\ w \in Requested /\ w.op = req[r].op /\ w.now = clock
        /\ req[r].op \in Reissuing => w.token = req[r].token
    BY <1>0, <2>1, <2>2, StampedRequest
  <2>4. req' = [req EXCEPT ![r] = w]
    BY <1>1 DEF EndStamp
  <2>5. req[r].op \notin Factors
    BY <2>1 DEF Enders, Factors
  <2> HIDE DEF w
  <2>6. w.op \in Factors \cup Reissuing => w.token \in issued
    BY <2>3, <2>5 DEF Grounded
  <2>7. req' \in [Requests -> Requested] /\ Grounded'
    BY <1>0, <1>1, <2>3, <2>4, <2>6, ReplacedRequest DEF EndStamp, tokenVars
  <2> QED BY <1>1, <2>7 DEF EndStamp, Types, Switches, tokenVars, factorVars, linkVars, limitVars
<1>2. CASE EndFails(r)
  <2>1. req' \in [Requests -> Requested] /\ Grounded'
    BY <1>2, FreedRequest DEF EndFails, tokenVars
  <2> QED BY <1>2, <2>1 DEF EndFails, Types, Switches, tokenVars, factorVars, linkVars, limitVars
<1>3. CASE EndWrite(r)
  <2>1. req[r] \in EnderType /\ req[r].now \in 0..clock
    BY <1>0, <1>3, EnderRequest DEF EndWrite, Grounded
  <2>2. /\ req[r].op \in {"change", "reset"} => req[r].new \in Passwords
        /\ req[r].op = "reset" => req[r].link \in Nat
    BY <2>1 DEF EnderType, EverywhereType, ChangeType, AdminType, ResetType
  <2>3. password' \in Passwords
    BY <1>3, <2>2 DEF EndWrite, Types
  <2>4. cutoff' \in Moments
    <3>1. cutoff' \in {req[r].now, req[r].now - 1}
      BY <1>3 DEF EndWrite, Cutoff
    <3> QED BY <1>0, <2>1, <3>1, SessionsAssumption DEF Moments, Seconds
  <2>5. issued' \in {issued, issued \cup {clock}}
    BY <1>3 DEF EndWrite, Issue
  <2>6. Updated(req[r].link) \subseteq links \cup used
    BY DEF Updated
  <2>7. links' \subseteq 1..mailed /\ used' \subseteq 1..mailed
    BY <1>3, <2>6 DEF EndWrite, Types
  <2>8. /\ Done(r) /\ endings' = endings + 1
        /\ UNCHANGED <<clock, loggedOut, totp, pending, batches, unused, mailed, fails, totpFails>>
    BY <1>3 DEF EndWrite, factorVars, limitVars
  <2>9. req' \in [Requests -> Requested] /\ Grounded'
    BY <2>5, <2>8, FreedRequest
  <2> QED BY <2>3, <2>4, <2>5, <2>7, <2>8, <2>9 DEF Types, Switches
<1> QED BY <1>1, <1>2, <1>3

\* The second factor, logging out, and what happens by itself.
LEMMA OtherTypes ==
    ASSUME TypeInv,
           \/ \E r \in Requests : LogoutWrite(r) \/ TotpEnable(r) \/ TotpDisable(r)
                                  \/ RegenerateCodes(r)
           \/ Forget \/ ForgotPassword \/ TotpSetup \/ Tick \/ Restart
    PROVE  TypeInv'
<1> USE DEF TypeInv
<1>0. clock \in Seconds /\ clock \in Nat /\ clock <= clock
  BY SessionsAssumption DEF Types, Seconds
<1>1. ASSUME NEW r \in Requests, LogoutWrite(r)
      PROVE  TypeInv'
  <2>1. req[r].token \in issued
    BY <1>1 DEF LogoutWrite, Grounded, Factors
  <2>2. req' \in [Requests -> Requested] /\ Grounded'
    BY <1>1, FreedRequest DEF LogoutWrite
  <2> QED BY <1>1, <2>1, <2>2 DEF LogoutWrite, Types, Switches, factorVars, linkVars, limitVars
<1>2. ASSUME NEW r \in Requests, TotpEnable(r) \/ RegenerateCodes(r) \/ TotpDisable(r)
      PROVE  TypeInv'
  <2>1. /\ Done(r) /\ UNCHANGED <<tokenVars, password, linkVars, limitVars>>
        /\ \/ batches' = batches + 1 /\ unused' = {batches'}
           \/ UNCHANGED <<batches, unused>>
    BY <1>2 DEF TotpEnable, RegenerateCodes, TotpDisable, IssuedCodes
  <2>2. Switches'
    BY <1>2 DEF TotpEnable, RegenerateCodes, TotpDisable, Switches
  <2>3. req' \in [Requests -> Requested] /\ Grounded'
    BY <2>1, FreedRequest DEF tokenVars
  <2>4. batches' \in Nat /\ unused' \subseteq 1..batches'
    <3>1. batches \in Nat /\ unused \subseteq 1..batches
      BY DEF Types
    <3>2. CASE batches' = batches + 1 /\ unused' = {batches'}
      BY <3>1, <3>2
    <3>3. CASE UNCHANGED <<batches, unused>>
      BY <3>1, <3>3
    <3> QED BY <2>1, <3>2, <3>3
  <2>5. Types'
    BY <2>1, <2>3, <2>4 DEF Types, tokenVars, linkVars, limitVars
  <2> QED BY <2>2, <2>3, <2>5
<1>3. CASE Forget
  <2>1. req' \in [Requests -> Requested] /\ Grounded'
    BY <1>0, <1>3, SameRequests DEF Forget, tokenVars
  <2>2. fails' \in Nat /\ totpFails' \in Nat
    BY <1>3 DEF Forget
  <2>3. UNCHANGED <<tokenVars, password, factorVars, linkVars>>
    BY <1>3 DEF Forget
  <2>4. Types'
    BY <2>1, <2>2, <2>3 DEF Types, tokenVars, factorVars, linkVars
  <2> QED BY <2>1, <2>3, <2>4 DEF Switches, factorVars
<1>4. CASE ForgotPassword
  <2>1. req' \in [Requests -> Requested] /\ Grounded'
    BY <1>0, <1>4, SameRequests DEF ForgotPassword, tokenVars
  <2> QED BY <1>4, <2>1 DEF ForgotPassword, Fresh, Types, Switches, tokenVars, factorVars, limitVars
<1>5. CASE TotpSetup
  <2>1. req' \in [Requests -> Requested] /\ Grounded'
    BY <1>0, <1>5, SameRequests DEF TotpSetup, tokenVars
  <2> QED BY <1>5, <2>1 DEF TotpSetup, Types, Switches, tokenVars, linkVars, limitVars
<1>6. CASE Tick
  <2>1. clock' \in Seconds /\ clock <= clock'
    BY <1>0, <1>6, SessionsAssumption DEF Tick, Seconds
  <2>2. req' \in [Requests -> Requested] /\ Grounded'
    BY <1>6, <2>1, SameRequests DEF Tick
  <2> QED BY <1>6, <2>1, <2>2 DEF Tick, Types, Switches, factorVars, linkVars, limitVars
<1>7. CASE Restart
  <2>1. req' \in [Requests -> Requested] /\ \A r \in Requests : req'[r] = Free
    BY <1>7, FreeRequest DEF Restart
  <2>2. Grounded'
    BY <2>1, FreeRequest DEF Grounded, Factors, Reissuing, Enders
  <2> QED BY <1>7, <2>1, <2>2 DEF Restart, Types, Switches, tokenVars, linkVars
<1> QED BY <1>1, <1>2, <1>3, <1>4, <1>5, <1>6, <1>7

LEMMA TypesInit == Init => TypeInv
<1> SUFFICES ASSUME Init PROVE TypeInv
  OBVIOUS
<1>1. req \in [Requests -> Requested]
  BY FreeRequest DEF Init
<1>3. Types
  BY <1>1, SessionsAssumption DEF Init, Types, Seconds, Moments
<1>4. Switches
  BY DEF Init, Switches
<1>2. Grounded
  BY FreeRequest DEF Init, Grounded, Factors, Reissuing, Enders
<1> QED BY <1>2, <1>3, <1>4 DEF TypeInv

LEMMA TypesStep == TypeInv /\ [Next]_vars => TypeInv'
<1> SUFFICES ASSUME TypeInv, [Next]_vars PROVE TypeInv'
  OBVIOUS
<1>1. CASE UNCHANGED vars
  BY <1>1 DEF vars, tokenVars, factorVars, linkVars, limitVars, TypeInv, Types, Switches, Grounded
<1>2. CASE Next
  BY <1>2, LoginTypes, SignedTypes, EnderTypes, OtherTypes DEF Next
<1> QED BY <1>1, <1>2

\* A link has a row, its own or that of an earlier one.
ResetRowTypes == resetRow \in [1..mailed -> 1..mailed]

LEMMA RowsStep ==
    ASSUME TypeInv, ResetRowTypes, [Next]_vars
    PROVE  ResetRowTypes'
<1>1. UNCHANGED <<mailed, resetRow>> \/ ForgotPassword
  BY DEF Next, vars, linkVars, LoginBegin, LoginWrongPassword, LoginRead, LoginCode,
     LoginStamp, LoginOpen, Logout, LogoutWrite, LogoutEverywhere, RevokeUserSessions,
     EndStamp, EndFails, EndWrite, TotpEnable, TotpDisable, RegenerateCodes,
     ChangePassword, DoResetPassword, TotpRequest, Forget, TotpSetup, Tick, Restart
<1>2. CASE UNCHANGED <<mailed, resetRow>>
  BY <1>2 DEF ResetRowTypes
<1>3. CASE ForgotPassword
  <2>1. mailed' = mailed + 1 /\ mailed \in Nat /\ links \subseteq 1..mailed
    BY <1>3 DEF ForgotPassword, TypeInv, Types
  <2>2. PICK id \in {mailed'} \cup {resetRow[k] : k \in links} :
           resetRow' = [k \in 1..mailed' |-> IF k = mailed' THEN id ELSE resetRow[k]]
    BY <1>3 DEF ForgotPassword, NewRow
  <2>3. id \in 1..mailed'
    BY <2>1 DEF ResetRowTypes
  <2>4. \A k \in 1..mailed' : k # mailed' => resetRow[k] \in 1..mailed'
    BY <2>1 DEF ResetRowTypes
  <2> QED BY <2>2, <2>3, <2>4 DEF ResetRowTypes
<1> QED BY <1>1, <1>2, <1>3

LEMMA TypesHold == TypeInv /\ ResetRowTypes => TypeOK
<1> SUFFICES ASSUME TypeInv, ResetRowTypes PROVE TypeOK
  OBVIOUS
<1>1. ASSUME NEW r \in Requests
      PROVE  \/ req[r] \in RequestType
             \/ /\ req[r].op \in {"logout", "enable", "disable", "regenerate"}
                /\ req[r].token \in issued
             \/ /\ req[r].op \in Enders /\ req[r].stage \in {"read", "stamped"}
                /\ req[r].op \in Reissuing => req[r].token \in issued
                /\ req[r].stage = "stamped" => req[r].now \in Seconds
  <2>1. req[r] \in RequestType \cup FactorType \cup EnderType
    BY DEF TypeInv, Types, Requested
  <2>2. CASE req[r] \in FactorType
    BY <2>2 DEF FactorType, Factors, TypeInv, Grounded
  <2>3. CASE req[r] \in EnderType
    <3>1. req[r].op \in Enders /\ req[r].stage \in {"read", "stamped"}
      BY <2>3 DEF EnderType, EverywhereType, ChangeType, AdminType, ResetType, Stages, Enders
    <3>2. 0..clock \subseteq Seconds
      BY SessionsAssumption DEF TypeInv, Types, Seconds
    <3> QED BY <3>1, <3>2 DEF TypeInv, Grounded
  <2> QED BY <2>1, <2>2, <2>3
<1> QED BY <1>1 DEF TypeInv, Types, Switches, ResetRowTypes, TypeOK, Moments

\* Tokens, resets, codes and requests stay of their kind, whatever overlaps.
THEOREM SessionTypes == Spec => []TypeOK
<1>1. Init => ResetRowTypes
  BY DEF Init, ResetRowTypes
<1>2. TypeInv /\ ResetRowTypes /\ [Next]_vars => ResetRowTypes'
  BY RowsStep
<1> QED BY <1>1, <1>2, TypesInit, TypesStep, TypesHold, PTL DEF Spec

-----------------------------------------------------------------------------
(***************************************************************************)
(* What can be used once.                                                  *)
(***************************************************************************)

LEMMA NewestStep ==
    LatestBatchOnly /\ LastLinkOnly /\ [Next]_vars => (LatestBatchOnly /\ LastLinkOnly)'
<1> SUFFICES ASSUME LatestBatchOnly, LastLinkOnly, [Next]_vars
             PROVE  (LatestBatchOnly /\ LastLinkOnly)'
  OBVIOUS
<1>1. UNCHANGED factorVars \/ (unused' \subseteq unused /\ batches' = batches)
         \/ unused' = {batches'}
  BY DEF Next, vars, factorVars, LoginBegin, LoginWrongPassword, LoginRead, LoginCode,
     LoginStamp, LoginOpen, Logout, LogoutWrite, LogoutEverywhere, RevokeUserSessions,
     EndStamp, EndFails, EndWrite, TotpEnable, TotpDisable, RegenerateCodes, IssuedCodes,
     ChangePassword, DoResetPassword, TotpRequest, Forget, ForgotPassword, TotpSetup, Tick,
     Restart
<1>2. UNCHANGED linkVars \/ (links' \subseteq links /\ mailed' = mailed) \/ links' = {mailed'}
  BY DEF Next, vars, linkVars, LoginBegin, LoginWrongPassword, LoginRead, LoginCode,
     LoginStamp, LoginOpen, Logout, LogoutWrite, LogoutEverywhere, RevokeUserSessions,
     EndStamp, EndFails, EndWrite, TotpEnable, TotpDisable, RegenerateCodes, Fresh,
     ChangePassword, DoResetPassword, TotpRequest, Forget, ForgotPassword, TotpSetup, Tick,
     Restart
<1>3. LatestBatchOnly'
  BY <1>1 DEF LatestBatchOnly, factorVars
<1>4. LastLinkOnly'
  BY <1>2 DEF LastLinkOnly, linkVars
<1> QED BY <1>3, <1>4

\* Only a recovery code of the last batch and the reset link that was mailed last
\* can be unused, whatever logins, enablings, resets and mails overlap.
THEOREM NewestValid == Spec => []OnlyNewestValid
<1>1. Init => LatestBatchOnly /\ LastLinkOnly
  BY DEF Init, LatestBatchOnly, LastLinkOnly
<1> QED BY <1>1, NewestStep, PTL DEF Spec, OnlyNewestValid

-----------------------------------------------------------------------------
(***************************************************************************)
(* The failed attempts.  A request that passed the limit has not failed    *)
(* yet: it counts together with the attempts that did.                     *)
(***************************************************************************)

LoginAt(stage) == {r \in Requests : req[r].op = "login" /\ req[r].stage = stage}

AttemptsInv ==
    /\ fails + Cardinality(LoginAt("begun")) < Limit + Cardinality(Requests)
    /\ totpFails + Cardinality(LoginAt("code")) < Limit + Cardinality(Requests)

LEMMA SomeRequests ==
    ASSUME NEW S \in SUBSET Requests
    PROVE  /\ IsFiniteSet(S) /\ Cardinality(S) \in Nat /\ Cardinality(Requests) \in Nat
           /\ Cardinality(S) <= Cardinality(Requests)
           /\ \A T \in SUBSET S : Cardinality(T) <= Cardinality(S)
           /\ \A r \in Requests : r \in S => Cardinality(S \ {r}) = Cardinality(S) - 1
<1>1. IsFiniteSet(Requests)
  BY SessionsAssumption
<1>2. IsFiniteSet(S) /\ Cardinality(S) <= Cardinality(Requests)
  BY <1>1, FS_Subset
<1>3. Cardinality(S) \in Nat /\ Cardinality(Requests) \in Nat
  BY <1>1, <1>2, FS_CardinalityType
<1>4. \A T \in SUBSET S : Cardinality(T) <= Cardinality(S)
  BY <1>2, FS_Subset
<1>5. \A r \in Requests : r \in S => Cardinality(S \ {r}) = Cardinality(S) - 1
  BY <1>2, FS_RemoveElement
<1> QED BY <1>2, <1>3, <1>4, <1>5

\* A count that does not rise, and requests that do not come to the stage.
LEMMA CountStays ==
    ASSUME NEW n \in Nat, NEW m \in Nat, m <= n,
           NEW S \in SUBSET Requests, NEW T \in SUBSET S,
           n + Cardinality(S) < Limit + Cardinality(Requests)
    PROVE  m + Cardinality(T) < Limit + Cardinality(Requests)
<1>1. /\ Cardinality(T) <= Cardinality(S) /\ Cardinality(S) \in Nat
      /\ Cardinality(T) \in Nat /\ Cardinality(Requests) \in Nat
  BY SomeRequests
<1> QED BY <1>1, SessionsAssumption

\* The request that fails leaves the stage.
LEMMA CountFails ==
    ASSUME NEW n \in Nat, NEW r \in Requests, NEW S \in SUBSET Requests, r \in S,
           NEW T \in SUBSET (S \ {r}),
           n + Cardinality(S) < Limit + Cardinality(Requests)
    PROVE  n + 1 + Cardinality(T) < Limit + Cardinality(Requests)
<1>1. /\ Cardinality(S \ {r}) = Cardinality(S) - 1 /\ Cardinality(S) \in Nat
      /\ Cardinality(Requests) \in Nat
  BY SomeRequests
<1>2. Cardinality(T) <= Cardinality(S \ {r}) /\ Cardinality(T) \in Nat
  BY SomeRequests
<1> QED BY <1>1, <1>2, SessionsAssumption

\* Below the limit any number of requests may come to the stage.
LEMMA CountBelow ==
    ASSUME NEW n \in Nat, n < Limit, NEW T \in SUBSET Requests
    PROVE  n + Cardinality(T) < Limit + Cardinality(Requests)
<1>1. Cardinality(T) <= Cardinality(Requests) /\ Cardinality(T) \in Nat
         /\ Cardinality(Requests) \in Nat
  BY SomeRequests
<1> QED BY <1>1, SessionsAssumption

\* A request that is not at a stage of a login is freed or replaced.
LEMMA NoneArrives ==
    ASSUME Types, NEW r \in Requests, NEW w, req' = [req EXCEPT ![r] = w],
           NEW stage, ~(w.op = "login" /\ w.stage = stage)
    PROVE  LoginAt(stage)' \subseteq LoginAt(stage) \ {r}
  BY DEF Types, LoginAt

LEMMA AttemptsOfLogin ==
    ASSUME TypeInv, AttemptsInv, NEW r \in Requests,
           \/ \E p \in Passwords, second \in {"none", "totp", "recovery"} :
                 LoginBegin(r, p, second)
           \/ LoginWrongPassword(r) \/ LoginRead(r) \/ LoginCode(r)
           \/ LoginStamp(r) \/ LoginOpen(r)
    PROVE  AttemptsInv'
<1>0. /\ fails \in Nat /\ totpFails \in Nat /\ Types /\ Limit \in Nat
      /\ LoginAt("begun") \subseteq Requests /\ LoginAt("code") \subseteq Requests
      /\ LoginAt("begun")' \subseteq Requests /\ LoginAt("code")' \subseteq Requests
  BY SessionsAssumption DEF TypeInv, Types, LoginAt
<1>1. ASSUME NEW p \in Passwords, NEW second \in {"none", "totp", "recovery"},
             LoginBegin(r, p, second)
      PROVE  AttemptsInv'
  <2>1. fails < Limit /\ UNCHANGED <<fails, totpFails>>
    BY <1>0, <1>1 DEF LoginBegin, Exceeded, limitVars
  <2>2. LoginAt("code")' \subseteq LoginAt("code")
    <3> DEFINE w == [op |-> "login", stage |-> "begun", pass |-> p, second |-> second]
    <3>1. req' = [req EXCEPT ![r] = w] /\ w.stage # "code"
      BY <1>1 DEF LoginBegin, Begin
    <3> HIDE DEF w
    <3> QED BY <1>0, <3>1, NoneArrives
  <2> QED BY <1>0, <2>1, <2>2, CountBelow, CountStays DEF AttemptsInv
<1>2. CASE LoginWrongPassword(r)
  <2>1. fails' = fails + 1 /\ totpFails' = totpFails /\ r \in LoginAt("begun")
    BY <1>2 DEF LoginWrongPassword, LoginAt
  <2>2. /\ LoginAt("begun")' \subseteq LoginAt("begun") \ {r}
        /\ LoginAt("code")' \subseteq LoginAt("code")
    BY <1>0, <1>2, NoneArrives, FreeRequest DEF LoginWrongPassword, Done
  <2> QED BY <1>0, <2>1, <2>2, CountFails, CountStays DEF AttemptsInv
<1>3. CASE LoginRead(r)
  <2>1. fails' = fails
    BY <1>3 DEF LoginRead
  <2>2. \E w : /\ req' = [req EXCEPT ![r] = w]
               /\ ~(w.op = "login" /\ w.stage = "begun")
               /\ w.op = "login" /\ w.stage = "code" =>
                     totpFails < Limit /\ totpFails' = totpFails
               /\ ~(w.op = "login" /\ w.stage = "code") =>
                     \/ totpFails' = totpFails
                     \/ totpFails < Limit /\ totpFails' = totpFails + 1
    BY <1>0, <1>3, FreeRequest DEF LoginRead, Exceeded, Done
  <2>3. PICK w : /\ req' = [req EXCEPT ![r] = w]
                 /\ ~(w.op = "login" /\ w.stage = "begun")
                 /\ w.op = "login" /\ w.stage = "code" =>
                       totpFails < Limit /\ totpFails' = totpFails
                 /\ ~(w.op = "login" /\ w.stage = "code") =>
                       \/ totpFails' = totpFails
                       \/ totpFails < Limit /\ totpFails' = totpFails + 1
    BY <2>2
  <2>4. LoginAt("begun")' \subseteq LoginAt("begun")
    BY <1>0, <2>3, NoneArrives
  <2>5. fails' + Cardinality(LoginAt("begun")') < Limit + Cardinality(Requests)
    BY <1>0, <2>1, <2>4, CountStays DEF AttemptsInv
  <2>6. CASE w.op = "login" /\ w.stage = "code"
    BY <1>0, <2>3, <2>5, <2>6, CountBelow DEF AttemptsInv
  <2>7. CASE ~(w.op = "login" /\ w.stage = "code")
    <3>1. LoginAt("code")' \subseteq LoginAt("code") \ {r}
      BY <1>0, <2>3, <2>7, NoneArrives
    <3>2. CASE totpFails' = totpFails
      BY <1>0, <2>5, <3>1, <3>2, CountStays DEF AttemptsInv
    <3>3. CASE totpFails < Limit /\ totpFails' = totpFails + 1
      <4>1. totpFails + Cardinality(Requests) < Limit + Cardinality(Requests)
        BY <1>0, <3>3, CountBelow
      <4>2. LoginAt("code")' \in SUBSET (Requests \ {r})
        BY <1>0, <3>1
      <4> QED BY <1>0, <2>5, <3>3, <4>1, <4>2, CountFails DEF AttemptsInv
    <3> QED BY <2>3, <2>7, <3>2, <3>3
  <2> QED BY <2>6, <2>7
<1>4. CASE LoginCode(r)
  <2>1. fails' = fails /\ r \in LoginAt("code")
    BY <1>4 DEF LoginCode, LoginAt
  <2>2. PICK w : /\ req' = [req EXCEPT ![r] = w]
                 /\ ~(w.op = "login" /\ w.stage \in {"begun", "code"})
    BY <1>4, FreeRequest DEF LoginCode, Done
  <2>3. totpFails' = totpFails \/ totpFails' = totpFails + 1
    BY <1>4 DEF LoginCode
  <2>4. /\ LoginAt("begun")' \subseteq LoginAt("begun")
        /\ LoginAt("code")' \subseteq LoginAt("code") \ {r}
    BY <1>0, <2>2, NoneArrives
  <2> QED BY <1>0, <2>1, <2>3, <2>4, CountFails, CountStays DEF AttemptsInv
<1>5. CASE LoginStamp(r)
  <2>1. UNCHANGED <<fails, totpFails>>
    BY <1>5 DEF LoginStamp, limitVars
  <2>2. /\ LoginAt("begun")' \subseteq LoginAt("begun")
        /\ LoginAt("code")' \subseteq LoginAt("code")
    <3> DEFINE w == [op |-> "login", stage |-> "open", totp |-> TRUE]
    <3>1. req' = [req EXCEPT ![r] = w] /\ w.stage = "open"
      BY <1>5 DEF LoginStamp
    <3> HIDE DEF w
    <3> QED BY <1>0, <3>1, NoneArrives
  <2> QED BY <1>0, <2>1, <2>2, CountStays DEF AttemptsInv
<1>6. CASE LoginOpen(r)
  <2>1. fails' = 0 /\ totpFails' \in {0, totpFails}
    BY <1>6 DEF LoginOpen
  <2>2. /\ LoginAt("begun")' \subseteq LoginAt("begun")
        /\ LoginAt("code")' \subseteq LoginAt("code")
    <3>1. req' = [req EXCEPT ![r] = Free] /\ Free.op # "login"
      BY <1>6, FreeRequest DEF LoginOpen, Done
    <3>2. LoginAt("begun")' \subseteq LoginAt("begun") \ {r}
      BY <1>0, <3>1, NoneArrives
    <3>3. LoginAt("code")' \subseteq LoginAt("code") \ {r}
      BY <1>0, <3>1, NoneArrives
    <3> QED BY <3>2, <3>3
  <2> QED BY <1>0, <2>1, <2>2, CountStays DEF AttemptsInv
<1> QED BY <1>1, <1>2, <1>3, <1>4, <1>5, <1>6

\* What else is done frees requests, or begins or stamps one that does not log in.
LEMMA AttemptsStep ==
    ASSUME TypeInv, AttemptsInv, [Next]_vars
    PROVE  AttemptsInv'
<1>0. /\ fails \in Nat /\ totpFails \in Nat /\ Types /\ Limit \in Nat
      /\ LoginAt("begun") \subseteq Requests /\ LoginAt("code") \subseteq Requests
      /\ LoginAt("begun")' \subseteq Requests /\ LoginAt("code")' \subseteq Requests
  BY SessionsAssumption DEF TypeInv, Types, LoginAt
<1>1. ASSUME fails' \in Nat, totpFails' \in Nat, fails' <= fails, totpFails' <= totpFails,
             LoginAt("begun")' \subseteq LoginAt("begun"),
             LoginAt("code")' \subseteq LoginAt("code")
      PROVE  AttemptsInv'
  BY <1>0, <1>1, CountStays DEF AttemptsInv
<1>2. ASSUME NEW r \in Requests, NEW w, w.op # "login", req' = [req EXCEPT ![r] = w],
             UNCHANGED limitVars
      PROVE  AttemptsInv'
  <2>1. /\ LoginAt("begun")' \subseteq LoginAt("begun")
        /\ LoginAt("code")' \subseteq LoginAt("code")
    BY <1>0, <1>2, NoneArrives
  <2>2. fails' = fails /\ totpFails' = totpFails
    BY <1>2 DEF limitVars
  <2>3. fails <= fails /\ totpFails <= totpFails
    BY <1>0
  <2> QED BY <1>0, <1>1, <2>1, <2>2, <2>3
<1>3. ASSUME NEW r \in Requests,
             \/ Logout(r) \/ LogoutEverywhere(r) \/ RevokeUserSessions(r)
             \/ \E p \in Passwords : ChangePassword(r, p)
             \/ \E l \in links, p \in Passwords : DoResetPassword(r, l, p)
             \/ \E op \in {"enable", "disable", "regenerate"} : TotpRequest(r, op)
      PROVE  AttemptsInv'
  <2>1. /\ UNCHANGED limitVars
        /\ \E w : w.op # "login" /\ req' = [req EXCEPT ![r] = w]
    BY <1>3 DEF Logout, LogoutEverywhere, RevokeUserSessions, ChangePassword, DoResetPassword,
       TotpRequest, Signed, Begin
  <2> QED BY <1>2, <2>1
<1>4. ASSUME NEW r \in Requests,
             \/ LogoutWrite(r) \/ EndFails(r) \/ EndWrite(r)
             \/ TotpEnable(r) \/ TotpDisable(r) \/ RegenerateCodes(r)
      PROVE  AttemptsInv'
  <2>1. UNCHANGED limitVars /\ Done(r)
    BY <1>4 DEF LogoutWrite, EndFails, EndWrite, TotpEnable, TotpDisable, RegenerateCodes
  <2> QED BY <1>2, <2>1, FreeRequest DEF Done
<1>5. ASSUME NEW r \in Requests, EndStamp(r)
      PROVE  AttemptsInv'
  <2> DEFINE w == [req[r] EXCEPT !.stage = "stamped", !.now = clock]
  <2>1. req[r].op \in Enders /\ UNCHANGED limitVars /\ req' = [req EXCEPT ![r] = w]
    BY <1>5 DEF EndStamp
  <2>2. clock \in Moments /\ req[r] \in Requested
    BY SessionsAssumption DEF TypeInv, Types, Seconds, Moments
  <2>3. w.op # "login"
    BY <2>1, <2>2, StampedRequest DEF Enders
  <2> HIDE DEF w
  <2> QED BY <1>2, <2>1, <2>3
<1>6. ASSUME UNCHANGED req, fails' \in Nat, totpFails' \in Nat,
             fails' <= fails, totpFails' <= totpFails
      PROVE  AttemptsInv'
  BY <1>1, <1>6 DEF LoginAt
<1>7. CASE UNCHANGED req /\ UNCHANGED limitVars
  BY <1>0, <1>6, <1>7 DEF limitVars
<1>8. CASE Forget
  <2>1. /\ UNCHANGED req
        /\ fails' \in {fails, fails - 1} \cap Nat
        /\ totpFails' \in {totpFails, totpFails - 1} \cap Nat
    BY <1>8 DEF Forget
  <2> QED BY <1>0, <1>6, <2>1
<1>9. CASE Restart
  <2>1. fails' = 0 /\ totpFails' = 0 /\ \A r \in Requests : req'[r] = Free
    BY <1>9 DEF Restart
  <2>2. LoginAt("begun")' = {} /\ LoginAt("code")' = {}
    BY <2>1, FreeRequest DEF LoginAt
  <2> QED BY <1>0, <1>1, <2>1, <2>2
<1>10. CASE UNCHANGED vars
  BY <1>7, <1>10 DEF vars
<1>11. CASE ForgotPassword \/ TotpSetup \/ Tick
  BY <1>7, <1>11 DEF ForgotPassword, TotpSetup, Tick
<1> QED BY <1>3, <1>4, <1>5, <1>8, <1>9, <1>10, <1>11, AttemptsOfLogin DEF Next

\* However many logins are under way at once, the failed attempts exceed the
\* limit by less than their number.
THEOREM FewAttempts == Spec => []AttemptsBounded
<1>1. Init => AttemptsInv
  <2> SUFFICES ASSUME Init PROVE AttemptsInv
    OBVIOUS
  <2>1. LoginAt("begun") = {} /\ LoginAt("code") = {} /\ fails = 0 /\ totpFails = 0
    BY FreeRequest DEF Init, LoginAt
  <2>2. 0 \in Nat /\ 0 < Limit /\ {} \in SUBSET Requests
    BY SessionsAssumption
  <2> QED BY <2>1, <2>2, CountBelow DEF AttemptsInv
<1>2. TypeInv /\ AttemptsInv => AttemptsBounded
  <2> SUFFICES ASSUME Types, AttemptsInv PROVE AttemptsBounded
    BY DEF TypeInv
  <2>1. LoginAt("begun") \in SUBSET Requests /\ LoginAt("code") \in SUBSET Requests
    BY DEF LoginAt
  <2>2. /\ Cardinality(LoginAt("begun")) \in Nat /\ Cardinality(LoginAt("code")) \in Nat
        /\ Cardinality(Requests) \in Nat
    BY <2>1, SomeRequests
  <2> QED BY <2>2, SessionsAssumption DEF Types, AttemptsInv, AttemptsBounded
<1>3. TypeInv /\ AttemptsInv /\ [Next]_vars => AttemptsInv'
  BY AttemptsStep
<1> QED BY <1>1, <1>2, <1>3, TypesInit, TypesStep, PTL DEF Spec

-----------------------------------------------------------------------------
(***************************************************************************)
(* What is refused.  A request that ends the sessions and has not been     *)
(* overtaken takes a moment that is not before the cutoff it replaces: its *)
(* token was good when it began.                                           *)
(***************************************************************************)

InOrder(q) ==
    q.op \in Enders =>
        /\ q.seen <= endings
        /\ q.seen = endings =>
              /\ q.op \in Reissuing => cutoff < q.token
              /\ q.stage = "stamped" =>
                    cutoff <= q.now /\ (q.op \in Reissuing => q.token <= q.now)

Ordered ==
    /\ cutoff <= clock
    /\ issued \subseteq 0..clock
    /\ \A r \in Requests : InOrder(req[r])

\* Nothing ends the sessions, and a request that is replaced is in order.
LEMMA OrderStays ==
    ASSUME TypeInv, Ordered, NEW r \in Requests, NEW w, req' = [req EXCEPT ![r] = w],
           InOrder(w), UNCHANGED <<cutoff, endings>>,
           clock' \in Seconds, clock <= clock', issued' \subseteq 0..clock'
    PROVE  Ordered'
<1>1. clock \in Nat /\ clock' \in Nat /\ cutoff \in Int
  BY SessionsAssumption DEF TypeInv, Types, Seconds, Moments
<1>2. cutoff' <= clock'
  BY <1>1 DEF Ordered
<1>3. \A q \in Requests : InOrder(req'[q])
  BY DEF TypeInv, Types, Ordered
<1>4. (\A q \in Requests : InOrder(req[q]))'
  BY <1>3 DEF InOrder
<1> QED BY <1>2, <1>4 DEF Ordered

LEMMA OrderKept ==
    ASSUME TypeInv, Ordered, UNCHANGED <<req, cutoff, endings>>,
           clock' \in Seconds, clock <= clock', issued' \subseteq 0..clock'
    PROVE  Ordered'
<1>1. clock \in Nat /\ clock' \in Nat /\ cutoff \in Int
  BY SessionsAssumption DEF TypeInv, Types, Seconds, Moments
<1> QED BY <1>1 DEF Ordered, InOrder

LEMMA OrderEnds ==
    ASSUME TypeInv, Ordered, NEW r \in Requests, EndWrite(r)
    PROVE  /\ Ordered'
           /\ cutoff' \in Int /\ cutoff' <= req[r].now
           /\ req[r].seen = endings => cutoff <= cutoff'
<1>1. /\ clock \in Nat /\ cutoff \in Int /\ endings \in Nat
      /\ req[r] \in Requested /\ issued \subseteq Nat
  BY SessionsAssumption DEF TypeInv, Types, Seconds, Moments
<1>2. /\ req[r].op \in Enders /\ req[r].stage = "stamped"
      /\ cutoff' = IF req[r].op \in Reissuing THEN req[r].now - 1 ELSE req[r].now
      /\ endings' = endings + 1 /\ clock' = clock
      /\ issued' \in {issued, issued \cup {clock}}
      /\ req' = [req EXCEPT ![r] = Free]
  BY DEF EndWrite, Cutoff, Issue, Done
<1>3. req[r].now \in 0..clock
  BY <1>2 DEF TypeInv, Grounded
<1>4. req[r].op \in Reissuing => req[r].token \in Nat
  BY <1>1, <1>2 DEF TypeInv, Grounded
<1>5. InOrder(req[r])
  BY DEF Ordered
<1>6. req[r].seen = endings => cutoff <= cutoff'
  BY <1>1, <1>2, <1>3, <1>4, <1>5 DEF InOrder
<1>7. cutoff' \in Int /\ cutoff' <= req[r].now /\ cutoff' <= clock'
  BY <1>1, <1>2, <1>3
<1>8. issued' \subseteq 0..clock'
  BY <1>1, <1>2 DEF Ordered
<1>9. ASSUME NEW q \in Requests, req'[q].op \in Enders
      PROVE  req'[q].seen < endings' /\ req'[q].seen \in Nat
  <2>1. q # r
    BY <1>2, <1>9, FreeRequest DEF TypeInv, Types, Enders
  <2>2. req'[q] = req[q] /\ req[q] \in Requested
    BY <1>2, <2>1 DEF TypeInv, Types
  <2>3. req[q].seen \in Nat
    <3>1. req[q] \in EnderType
      BY <1>9, <2>2, EnderRequest
    <3> QED BY <3>1 DEF EnderType, EverywhereType, ChangeType, AdminType, ResetType
  <2>4. req[q].seen <= endings
    BY <1>9, <2>2 DEF Ordered, InOrder
  <2> QED BY <1>1, <1>2, <2>2, <2>3, <2>4
<1>10. (\A q \in Requests : InOrder(req[q]))'
  <2>1. endings' \in Nat
    BY <1>1, <1>2
  <2> QED BY <1>9, <2>1 DEF InOrder
<1> QED BY <1>6, <1>7, <1>8, <1>10 DEF Ordered

LEMMA OrderStep ==
    ASSUME TypeInv, Ordered, [Next]_vars
    PROVE  Ordered'
<1>0. /\ clock \in Seconds /\ clock \in Nat /\ clock <= clock /\ issued \subseteq 0..clock
      /\ issued \cup {clock} \subseteq 0..clock /\ endings \in Nat /\ endings <= endings
      /\ NotYet \in Int
  BY SessionsAssumption DEF TypeInv, Types, Seconds, Ordered, NotYet
<1>1. ASSUME NEW r \in Requests, NEW w, req' = [req EXCEPT ![r] = w], w.op \notin Enders,
             UNCHANGED <<clock, cutoff, endings>>, issued' \in {issued, issued \cup {clock}}
      PROVE  Ordered'
  BY <1>0, <1>1, OrderStays DEF InOrder
<1>2. Free.op \notin Enders
  BY FreeRequest DEF Enders
<1>3. ASSUME NEW r \in Requests,
             \/ \E p \in Passwords, second \in {"none", "totp", "recovery"} :
                   LoginBegin(r, p, second)
             \/ LoginWrongPassword(r) \/ LoginRead(r) \/ LoginCode(r)
             \/ LoginStamp(r) \/ LoginOpen(r)
      PROVE  Ordered'
  <2>1. /\ UNCHANGED <<clock, cutoff, endings>> /\ issued' \in {issued, issued \cup {clock}}
        /\ \E w : w.op \notin Enders /\ req' = [req EXCEPT ![r] = w]
    BY <1>2, <1>3 DEF LoginBegin, Begin, LoginWrongPassword, LoginRead, LoginCode,
       LoginStamp, LoginOpen, Done, Issue, tokenVars, Enders
  <2> QED BY <1>1, <2>1
<1>4. ASSUME NEW r \in Requests,
             \/ LogoutWrite(r) \/ EndFails(r)
             \/ TotpEnable(r) \/ TotpDisable(r) \/ RegenerateCodes(r)
      PROVE  Ordered'
  BY <1>1, <1>2, <1>4 DEF LogoutWrite, EndFails, TotpEnable, TotpDisable, RegenerateCodes,
     Done, tokenVars
<1>5. ASSUME NEW r \in Requests, NEW w, Begin(r, w), UNCHANGED tokenVars,
             w.seen = endings, w.stage = "read",
             w.op \in Reissuing => w.token \in issued /\ Accepted(w.token)
      PROVE  Ordered'
  <2>1. w.op \in Reissuing => cutoff < w.token
    <3>1. cutoff \in Int /\ issued \subseteq Nat
      BY <1>0, SessionsAssumption DEF TypeInv, Types, Moments
    <3>2. w.op \in Reissuing => w.token \in Nat /\ ~(w.token <= cutoff)
      BY <1>5, <3>1 DEF Accepted, Revoked
    <3> QED BY <3>1, <3>2
  <2>2. InOrder(w)
    BY <1>0, <1>5, <2>1 DEF InOrder
  <2> QED BY <1>0, <1>5, <2>2, OrderStays DEF Begin, tokenVars
<1>6. ASSUME NEW r \in Requests, NEW op, Signed(r, op), UNCHANGED tokenVars
      PROVE  Ordered'
  <2>1. PICK s \in issued :
               /\ Accepted(s)
               /\ Begin(r, [op |-> op, stage |-> "read", token |-> s, seen |-> endings,
                            now |-> NotYet])
    BY <1>6 DEF Signed
  <2> QED BY <1>5, <1>6, <2>1
<1>7. ASSUME NEW r \in Requests, NEW new, ChangePassword(r, new)
      PROVE  Ordered'
  <2>1. PICK s \in issued :
               /\ Accepted(s)
               /\ Begin(r, [op |-> "change", stage |-> "read", token |-> s, new |-> new,
                            seen |-> endings, now |-> NotYet])
    BY <1>7 DEF ChangePassword
  <2> QED BY <1>5, <1>7, <2>1 DEF ChangePassword
<1>8. ASSUME NEW r \in Requests, RevokeUserSessions(r)
      PROVE  Ordered'
  <2>1. Begin(r, [op |-> "admin", stage |-> "read", seen |-> endings, now |-> NotYet])
    BY <1>8 DEF RevokeUserSessions
  <2> QED BY <1>5, <1>8, <2>1 DEF RevokeUserSessions, Reissuing
<1>9. ASSUME NEW r \in Requests, NEW l, NEW new, DoResetPassword(r, l, new)
      PROVE  Ordered'
  <2>1. Begin(r, [op |-> "reset", stage |-> "read", link |-> l, new |-> new,
                  seen |-> endings, now |-> NotYet])
    BY <1>9 DEF DoResetPassword
  <2> QED BY <1>5, <1>9, <2>1 DEF DoResetPassword, Reissuing
<1>10. ASSUME NEW r \in Requests, EndStamp(r)
       PROVE  Ordered'
  <2> DEFINE w == [req[r] EXCEPT !.stage = "stamped", !.now = clock]
  <2>1. req[r].op \in Enders /\ UNCHANGED tokenVars /\ req' = [req EXCEPT ![r] = w]
    BY <1>10 DEF EndStamp
  <2>2. clock \in Moments /\ req[r] \in Requested
    BY SessionsAssumption DEF TypeInv, Types, Seconds, Moments
  <2>3. /\ w.op = req[r].op /\ w.now = clock /\ w.seen = req[r].seen
        /\ req[r].op \in Reissuing => w.token = req[r].token
    BY <2>1, <2>2, StampedRequest
  <2>4. req[r].op \in Reissuing => req[r].token \in 0..clock
    BY <1>0 DEF TypeInv, Grounded
  <2>5. InOrder(req[r]) /\ cutoff <= clock
    BY DEF Ordered
  <2> HIDE DEF w
  <2>6. InOrder(w)
    BY <1>0, <2>1, <2>3, <2>4, <2>5 DEF InOrder
  <2> QED BY <1>0, <2>1, <2>6, OrderStays DEF tokenVars
<1>11. CASE \E r \in Requests : EndWrite(r)
  BY <1>11, OrderEnds
<1>12. CASE UNCHANGED vars \/ Forget \/ ForgotPassword \/ TotpSetup
  BY <1>0, <1>12, OrderKept DEF vars, Forget, ForgotPassword, TotpSetup, tokenVars
<1>13. CASE Tick
  <2>1. clock' \in Seconds /\ clock <= clock' /\ 0..clock \subseteq 0..clock'
    BY <1>0, <1>13, SessionsAssumption DEF Tick, Seconds
  <2> QED BY <1>0, <1>13, <2>1, OrderKept DEF Tick
<1>14. CASE Restart
  <2>1. \A r \in Requests : req'[r] = Free
    BY <1>14 DEF Restart
  <2>2. (\A r \in Requests : InOrder(req[r]))'
    BY <1>2, <2>1 DEF InOrder
  <2> QED BY <1>0, <1>14, <2>2 DEF Restart, tokenVars, Ordered
<1>15. ASSUME NEW r \in Requests, Logout(r) \/ LogoutEverywhere(r)
       PROVE  Ordered'
  BY <1>6, <1>15 DEF Logout, LogoutEverywhere
<1>16. ASSUME NEW r \in Requests, NEW op \in {"enable", "disable", "regenerate"},
              TotpRequest(r, op)
       PROVE  Ordered'
  BY <1>6, <1>16 DEF TotpRequest
<1> QED BY <1>3, <1>4, <1>7, <1>8, <1>9, <1>10, <1>11, <1>12, <1>13, <1>14, <1>15, <1>16
        DEF Next

\* A token that was refused stays refused when a password is changed or reset and
\* when sessions are revoked or logged out of, in any order, as long as no two of
\* these overlap.
THEOREM RefusedForGood == Spec => RefusedStaysRefused
<1>1. ASSUME TypeInv, Ordered, Next, Undisturbed, NEW s \in Seconds, Refused(s)
      PROVE  Refused(s)'
  <2>0. s \in Int /\ cutoff \in Int
    BY <1>1, SessionsAssumption DEF TypeInv, Types, Moments, Seconds
  <2>1. ASSUME cutoff' \in Int, cutoff <= cutoff', loggedOut \subseteq loggedOut'
        PROVE  Refused(s)'
    BY <1>1, <2>0, <2>1 DEF Refused, Revoked
  <2>2. CASE cutoff' = cutoff /\ loggedOut \subseteq loggedOut'
    BY <2>0, <2>1, <2>2
  <2>3. ASSUME NEW r \in Requests, EndWrite(r)
        PROVE  Refused(s)'
    <3>3. req'[r] = Free /\ req[r].op # "none"
      BY <1>1, <2>3 DEF EndWrite, Done, TypeInv, Types, Enders
    <3>4. endings \in Nat /\ endings' = endings + 1 /\ loggedOut' = loggedOut
      BY <1>1, <2>3 DEF EndWrite, TypeInv, Types
    <3>1. endings' # endings /\ req'[r] # req[r] /\ loggedOut' = loggedOut
      BY <3>3, <3>4, FreeRequest
    <3>2. req[r].seen = endings
      BY <1>1, <3>1 DEF Undisturbed
    <3> QED BY <1>1, <2>1, <2>3, <3>1, <3>2, OrderEnds
  <2>4. \/ cutoff' = cutoff /\ loggedOut \subseteq loggedOut'
        \/ \E r \in Requests : EndWrite(r)
    BY <1>1 DEF Next, tokenVars, LoginBegin, LoginWrongPassword, LoginRead, LoginCode,
       LoginStamp, LoginOpen, Logout, LogoutWrite, LogoutEverywhere, RevokeUserSessions,
       EndStamp, EndFails, TotpEnable, TotpDisable, RegenerateCodes, ChangePassword,
       DoResetPassword, TotpRequest, Forget, ForgotPassword, TotpSetup, Tick, Restart
  <2> QED BY <2>2, <2>3, <2>4
<1>2. TypeInv /\ Ordered /\ [Next]_vars =>
          [Undisturbed => \A s \in Seconds : Refused(s) => Refused(s)']_vars
  BY <1>1
<1>3. Init => Ordered
  <2> SUFFICES ASSUME Init PROVE Ordered
    OBVIOUS
  <2>1. \A r \in Requests : req[r].op \notin Enders
    BY FreeRequest DEF Init, Enders
  <2> QED BY <2>1 DEF Init, Ordered, InOrder
<1>4. TypeInv /\ Ordered /\ [Next]_vars => Ordered'
  BY OrderStep
<1> QED BY <1>2, <1>3, <1>4, TypesInit, TypesStep, PTL DEF Spec, RefusedStaysRefused

\* Who changes the password or logs out everywhere else stays signed in.
THEOREM SessionKept == Spec => KeepsSession
<1>1. ASSUME TypeInv, Next, NEW r \in Requests, req[r].op \in Reissuing,
             endings' # endings, req'[r] # req[r], clock \notin loggedOut
      PROVE  Accepted(clock)'
  <2>1. PICK q \in Requests : EndWrite(q)
    BY <1>1 DEF Next, tokenVars, LoginBegin, LoginWrongPassword, LoginRead, LoginCode,
       LoginStamp, LoginOpen, Logout, LogoutWrite, LogoutEverywhere, RevokeUserSessions,
       EndStamp, EndFails, TotpEnable, TotpDisable, RegenerateCodes, ChangePassword,
       DoResetPassword, TotpRequest, Forget, ForgotPassword, TotpSetup, Tick, Restart
  <2>2. q = r
    BY <1>1, <2>1 DEF EndWrite, Done, TypeInv, Types
  <2>3. /\ req[r].op \in Enders /\ req[r].stage = "stamped"
        /\ cutoff' = req[r].now - 1 /\ issued' = issued \cup {clock}
        /\ UNCHANGED <<clock, loggedOut>>
    BY <1>1, <2>1, <2>2 DEF EndWrite, Cutoff, Issue
  <2>4. req[r].now \in 0..clock /\ clock \in Nat
    BY <1>1, <2>3, SessionsAssumption DEF TypeInv, Types, Grounded, Seconds
  <2>5. ~(clock' <= cutoff')
    BY <2>3, <2>4
  <2> QED BY <1>1, <2>3, <2>5 DEF Accepted, Revoked
<1>2. TypeInv /\ [Next]_vars =>
          [\A r \in Requests :
              /\ req[r].op \in Reissuing /\ endings' # endings /\ req'[r] # req[r]
              /\ Accepted(req[r].token) /\ clock \notin loggedOut
              => Accepted(clock)']_vars
  BY <1>1
<1> QED BY <1>2, TypesInit, TypesStep, PTL DEF Spec, KeepsSession
=============================================================================
