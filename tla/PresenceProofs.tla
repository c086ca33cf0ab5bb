--------------------------- MODULE PresenceProofs ---------------------------
(***************************************************************************)
(* Who signed out everywhere is not listed, for any pages, users and       *)
(* limits that satisfy PresenceAssumption.  The argument: the entry that   *)
(* hides a user is never more than MaxWait older than the last stamp of a  *)
(* page of the user, whether that is committed or still waits.             *)
(***************************************************************************)
EXTENDS Presence, TLAPS

\* The entry of u is younger than age, up to the wait for the lock.
HidesAfter(u, age) == logout[u] # None /\ logout[u] <= age + MaxWait

\* A user who left has no page.
GoneHaveNoPage == \A p \in Pages : session[p] \notin left

\* Between hiding and revoking, a logout waits for the lock at most.
LeavingIsHidden ==
    \A p \in Pages :
        /\ leaving[p] # "no" => session[p] \in Users
        /\ leaving[p] = "hidden" => HidesAfter(session[p], 0)

\* The last stamp of a user who left is hidden or old,
StampIsHidden == \A u \in left : active[u] <= Shown => HidesAfter(u, active[u])

\* and so will be the one of a page of the user that still waits.
WaitingIsHidden ==
    \A p \in Pages : (ping[p] # None /\ ping[p].user \in left)
                     => HidesAfter(ping[p].user, ping[p].at)

IInv ==
    /\ TypeOK
    /\ GoneHaveNoPage
    /\ LeavingIsHidden
    /\ StampIsHidden
    /\ WaitingIsHidden

-----------------------------------------------------------------------------
LEMMA InitInv == ASSUME PresenceAssumption, Init PROVE IInv
BY DEF PresenceAssumption, Init, IInv, TypeOK, GoneHaveNoPage, LeavingIsHidden, StampIsHidden,
       WaitingIsHidden, Ages, Entry

\* Each step keeps the types; a logout that ends is one of a user.
LEMMA TypeStep ==
    ASSUME PresenceAssumption, TypeOK, LeavingIsHidden, [Next]_vars
    PROVE  TypeOK'
<1> DEFINE Stamp == [user : Users, at : 0..MaxWait, pinged : BOOLEAN]
<1>0. /\ \A limit \in Nat : 0 \in Ages(limit) /\ limit + 1 \in Ages(limit)
      /\ Shown \in Nat /\ Hidden \in Nat /\ Spacing \in Nat /\ TTL \in Nat
      /\ 0 \in 0..MaxWait /\ 0..MaxWait \subseteq Ages(Shown)
  BY DEF PresenceAssumption, Ages
<1>1. ASSUME NEW limit \in Nat, NEW x \in Ages(limit)
      PROVE  Older(x, limit) \in Ages(limit)
  BY <1>1 DEF PresenceAssumption, Older, Ages
<1>2. ASSUME NEW x \in Entry, NEW t \in Ages(Spacing)
      PROVE  [x EXCEPT !.stamped = t] \in Entry
  BY <1>2 DEF Entry
<1>3. Fresh \in [Pages -> Entry \cup {None}]
  BY DEF Fresh, TypeOK
<1>4. Purged \in [Users -> Ages(Hidden) \cup {None}]
  BY DEF Purged, TypeOK
<1>5. CASE UNCHANGED vars
  BY <1>5 DEF vars, TypeOK
<1>6. ASSUME NEW p \in Pages, NEW u \in Users, SignIn(p, u) PROVE TypeOK'
  BY <1>6 DEF SignIn, TypeOK
<1>7. ASSUME NEW p \in Pages, Ping(p) PROVE TypeOK'
  <2> DEFINE last == IF Fresh[p] = None THEN Spacing + 1 ELSE Fresh[p].stamped
  <2>1. last \in Ages(Spacing)
    BY <1>0, <1>3 DEF Entry
  <2>2. [seen |-> 0, user |-> session[p], stamped |-> last] \in Entry
    BY <1>0, <2>1 DEF Entry, TypeOK
  <2>3. visitor' \in [Pages -> Entry \cup {None}]
    BY <1>3, <1>7, <2>2 DEF Ping
  <2>4. session[p] # Guest => [user |-> session[p], at |-> 0, pinged |-> TRUE] \in Stamp
    BY <1>0 DEF TypeOK
  <2>5. ping' \in [Pages -> Stamp \cup {None}]
    BY <1>7, <2>4 DEF Ping, TypeOK
  <2> QED BY <1>7, <2>3, <2>5 DEF Ping, TypeOK
<1>8. ASSUME NEW p \in Pages, Me(p) PROVE TypeOK'
  <2>1. [user |-> session[p], at |-> 0, pinged |-> FALSE] \in Stamp
    BY <1>0, <1>8 DEF Me, TypeOK
  <2>2. ping' \in [Pages -> Stamp \cup {None}]
    BY <1>8, <2>1 DEF Me, TypeOK
  <2> QED BY <1>8, <2>2 DEF Me, TypeOK
<1>9. ASSUME NEW p \in Pages, PingCommit(p) PROVE TypeOK'
  <2>1. ping[p] \in Stamp
    BY <1>9 DEF PingCommit, TypeOK
  <2>2. active' \in [Users -> Ages(Shown)]
    BY <1>0, <1>9, <2>1 DEF PingCommit, TypeOK
  <2>3. 0 \in Ages(Spacing)
    BY <1>0
  <2>4. visitor' \in [Pages -> Entry \cup {None}]
    BY <1>2, <1>9, <2>3 DEF PingCommit, TypeOK
  <2>5. ping' \in [Pages -> Stamp \cup {None}]
    BY <1>9 DEF PingCommit, TypeOK
  <2> QED BY <1>9, <2>2, <2>4, <2>5 DEF PingCommit, TypeOK
<1>10. ASSUME NEW p \in Pages, PingFails(p) PROVE TypeOK'
  BY <1>10 DEF PingFails, TypeOK
<1>11. ASSUME NEW p \in Pages, LogoutStamp(p) PROVE TypeOK'
  <2>1. active' \in [Users -> Ages(Shown)]
    BY <1>0, <1>11 DEF LogoutStamp, TypeOK
  <2> QED BY <1>11, <2>1 DEF LogoutStamp, TypeOK
<1>12. ASSUME NEW p \in Pages, LogoutHide(p) PROVE TypeOK'
  <2>1. visitor' \in [Pages -> Entry \cup {None}]
    BY <1>12 DEF LogoutHide, TypeOK
  <2>2. logout' \in [Users -> Ages(Hidden) \cup {None}]
    BY <1>0, <1>12 DEF LogoutHide, Marked, TypeOK
  <2> QED BY <1>12, <2>1, <2>2 DEF LogoutHide, TypeOK
<1>13. ASSUME NEW p \in Pages, LogoutRevoke(p) PROVE TypeOK'
  <2>1. session[p] \in Users
    BY <1>13 DEF LogoutRevoke, LeavingIsHidden
  <2> QED BY <1>13, <2>1 DEF LogoutRevoke, TypeOK
<1>14. CASE OnlineStatus
  BY <1>4, <1>14 DEF OnlineStatus, TypeOK
<1>15. CASE Tick
  <2>1. visitor' \in [Pages -> Entry \cup {None}]
    <3> SUFFICES ASSUME NEW p \in Pages, visitor[p] # None
                 PROVE  [visitor[p] EXCEPT !.seen = Older(@, TTL),
                                           !.stamped = Older(@, Spacing)] \in Entry
      BY <1>15 DEF Tick
    <3>1. visitor[p] \in [seen : Ages(TTL), user : Users \cup {Guest}, stamped : Ages(Spacing)]
      BY DEF TypeOK, Entry
    <3>2. Older(visitor[p].seen, TTL) \in Ages(TTL)
      BY <1>0, <1>1, <3>1
    <3>3. Older(visitor[p].stamped, Spacing) \in Ages(Spacing)
      BY <1>0, <1>1, <3>1
    <3> QED BY <3>1, <3>2, <3>3 DEF Entry
  <2>2. ping' \in [Pages -> Stamp \cup {None}]
    <3> SUFFICES ASSUME NEW p \in Pages, ping[p] # None
                 PROVE  [ping[p] EXCEPT !.at = @ + 1] \in Stamp
      BY <1>15 DEF Tick
    <3>1. ping[p] \in Stamp /\ ping[p].at < MaxWait
      BY <1>15 DEF Tick, TypeOK
    <3>2. ping[p].at + 1 \in 0..MaxWait
      BY <3>1 DEF PresenceAssumption
    <3> QED BY <3>1, <3>2
  <2>3. active' \in [Users -> Ages(Shown)]
    BY <1>0, <1>1, <1>15 DEF Tick, TypeOK
  <2>4. logout' \in [Users -> Ages(Hidden) \cup {None}]
    <3> SUFFICES ASSUME NEW u \in Users
                 PROVE  Older(logout[u], Hidden) \in Ages(Hidden) \cup {None}
      BY <1>15 DEF Tick
    <3>1. CASE logout[u] = None
      BY <3>1 DEF Older
    <3>2. CASE logout[u] \in Ages(Hidden)
      BY <1>0, <1>1, <3>2
    <3> QED BY <3>1, <3>2 DEF TypeOK
  <2> QED BY <1>15, <2>1, <2>2, <2>3, <2>4 DEF Tick, TypeOK
<1> QED BY <1>5, <1>6, <1>7, <1>8, <1>9, <1>10, <1>11, <1>12, <1>13, <1>14, <1>15 DEF Next

-----------------------------------------------------------------------------
\* The invariant, one step at a time.

LEMMA TickInv ==
    ASSUME PresenceAssumption, IInv, Tick
    PROVE  GoneHaveNoPage' /\ LeavingIsHidden' /\ StampIsHidden' /\ WaitingIsHidden'
<1>1. UNCHANGED <<session, leaving, left>>
  BY DEF Tick
<1>2. GoneHaveNoPage'
  BY <1>1 DEF IInv, GoneHaveNoPage
<1>3. ASSUME NEW u \in Users, logout[u] # None
      PROVE  /\ logout[u] \in Nat
             /\ logout'[u] \in Nat /\ logout'[u] # None
             /\ logout'[u] <= logout[u] + 1
  <2>1. logout[u] \in Nat
    BY <1>3 DEF IInv, TypeOK, Ages, PresenceAssumption
  <2>2. logout'[u] = IF logout[u] > Hidden THEN logout[u] ELSE logout[u] + 1
    BY <1>3 DEF Tick, Older
  <2>3. Hidden \in Nat /\ None \notin Nat
    BY DEF PresenceAssumption
  <2> QED BY <2>1, <2>2, <2>3
<1>4. MaxWait \in Nat /\ Shown \in Nat
  BY DEF PresenceAssumption
<1>5. LeavingIsHidden'
  <2> SUFFICES ASSUME NEW p \in Pages, leaving[p] = "hidden"
               PROVE  logout'[session[p]] # None /\ logout'[session[p]] <= 0 + MaxWait
    BY <1>1 DEF IInv, LeavingIsHidden, HidesAfter
  <2>1. session[p] \in Users /\ logout[session[p]] # None
    BY DEF IInv, LeavingIsHidden, HidesAfter
  <2>2. logout[session[p]] < MaxWait
    BY DEF Tick, Waits
  <2> QED BY <1>3, <1>4, <2>1, <2>2
<1>6. StampIsHidden'
  <2> SUFFICES ASSUME NEW u \in left, active'[u] <= Shown
               PROVE  logout'[u] # None /\ logout'[u] <= active'[u] + MaxWait
    BY <1>1 DEF StampIsHidden, HidesAfter
  <2>1. u \in Users /\ active[u] \in Nat
    BY DEF IInv, TypeOK, Ages
  <2>2. active'[u] = IF active[u] = None \/ active[u] > Shown THEN active[u] ELSE active[u] + 1
    BY <2>1 DEF Tick, Older
  <2>3. active[u] <= Shown /\ active'[u] = active[u] + 1
    BY <1>4, <2>1, <2>2 DEF PresenceAssumption
  <2>4. logout[u] # None /\ logout[u] <= active[u] + MaxWait
    BY <2>3 DEF IInv, StampIsHidden, HidesAfter
  <2> QED BY <1>3, <1>4, <2>1, <2>3, <2>4
<1>7. WaitingIsHidden'
  <2> SUFFICES ASSUME NEW p \in Pages, ping'[p] # None, ping'[p].user \in left
               PROVE  /\ logout'[ping'[p].user] # None
                      /\ logout'[ping'[p].user] <= ping'[p].at + MaxWait
    BY <1>1 DEF WaitingIsHidden, HidesAfter
  <2>1. ping[p] # None /\ ping'[p] = [ping[p] EXCEPT !.at = @ + 1]
    BY DEF Tick
  <2>2. ping[p] \in [user : Users, at : 0..MaxWait, pinged : BOOLEAN]
    BY <2>1 DEF IInv, TypeOK
  <2>3. /\ ping[p].user \in Users /\ ping'[p].user = ping[p].user
        /\ ping[p].at \in Nat /\ ping'[p].at = ping[p].at + 1
    BY <1>4, <2>1, <2>2
  <2>4. logout[ping[p].user] # None /\ logout[ping[p].user] <= ping[p].at + MaxWait
    BY <2>1, <2>3 DEF IInv, WaitingIsHidden, HidesAfter
  <2> QED BY <1>3, <1>4, <2>3, <2>4
<1> QED BY <1>2, <1>5, <1>6, <1>7

\* The steps that take no time.
LEMMA OtherInv ==
    ASSUME PresenceAssumption, IInv, [Next]_vars, ~Tick
    PROVE  GoneHaveNoPage' /\ LeavingIsHidden' /\ StampIsHidden' /\ WaitingIsHidden'
<1> DEFINE Goal == GoneHaveNoPage' /\ LeavingIsHidden' /\ StampIsHidden' /\ WaitingIsHidden'
           Stamp == [user : Users, at : 0..MaxWait, pinged : BOOLEAN]
<1>1. /\ MaxWait \in Nat /\ Shown \in Nat /\ Hidden \in Nat /\ None \notin Nat
      /\ Guest \notin Users /\ MaxWait <= Hidden /\ Shown + MaxWait <= Hidden
  BY DEF PresenceAssumption
<1>2. /\ \A p \in Pages : session[p] \in Users \cup {Guest}
      /\ \A p \in Pages : ping[p] # None => ping[p] \in Stamp
      /\ \A u \in Users : logout[u] # None => logout[u] \in Nat
      /\ \A u \in Users : active[u] \in Nat
      /\ left \subseteq Users
  BY DEF IInv, TypeOK, Ages
<1>3. CASE UNCHANGED vars
  BY <1>3 DEF IInv, vars, GoneHaveNoPage, LeavingIsHidden, StampIsHidden, WaitingIsHidden,
              HidesAfter
<1>4. ASSUME NEW p \in Pages, NEW u \in Users, SignIn(p, u) PROVE Goal
  <2>1. leaving[p] = "no"
    BY <1>1, <1>4 DEF SignIn, IInv, TypeOK, LeavingIsHidden
  <2>2. GoneHaveNoPage'
    BY <1>4 DEF SignIn, IInv, TypeOK, GoneHaveNoPage
  <2>3. LeavingIsHidden'
    BY <1>4, <2>1 DEF SignIn, IInv, TypeOK, LeavingIsHidden, HidesAfter
  <2> QED BY <1>4, <2>2, <2>3 DEF SignIn, IInv, StampIsHidden, WaitingIsHidden, HidesAfter
<1>5. ASSUME NEW p \in Pages, Ping(p) \/ Me(p) PROVE Goal
  <2>1. UNCHANGED <<session, leaving, active, logout, left>>
    BY <1>5 DEF Ping, Me
  <2>2. \A q \in Pages : ping'[q] # None => ping'[q] = ping[q] \/ ping'[q].user = session[q]
    BY <1>5 DEF Ping, Me, IInv, TypeOK
  <2>3. WaitingIsHidden'
    BY <2>1, <2>2 DEF IInv, GoneHaveNoPage, WaitingIsHidden, HidesAfter
  <2> QED BY <2>1, <2>3 DEF IInv, GoneHaveNoPage, LeavingIsHidden, StampIsHidden, HidesAfter
<1>6. ASSUME NEW p \in Pages, PingCommit(p) PROVE Goal
  <2>1. /\ UNCHANGED <<session, leaving, logout, left>>
        /\ active' = [active EXCEPT ![ping[p].user] = ping[p].at]
        /\ ping' = [ping EXCEPT ![p] = None] /\ ping[p] # None
    BY <1>6 DEF PingCommit
  <2>2. StampIsHidden'
    <3> SUFFICES ASSUME NEW u \in left, active'[u] <= Shown
                 PROVE  logout[u] # None /\ logout[u] <= active'[u] + MaxWait
      BY <2>1 DEF StampIsHidden, HidesAfter
    <3>1. CASE u = ping[p].user
      <4>1. active'[u] = ping[p].at
        BY <1>2, <2>1, <3>1 DEF IInv, TypeOK
      <4> QED BY <2>1, <3>1, <4>1 DEF IInv, WaitingIsHidden, HidesAfter
    <3>2. CASE u # ping[p].user
      <4>1. active'[u] = active[u]
        BY <1>2, <2>1, <3>2 DEF IInv, TypeOK
      <4> QED BY <4>1 DEF IInv, StampIsHidden, HidesAfter
    <3> QED BY <3>1, <3>2
  <2>3. WaitingIsHidden'
    BY <2>1 DEF IInv, TypeOK, WaitingIsHidden, HidesAfter
  <2> QED BY <2>1, <2>2, <2>3 DEF IInv, GoneHaveNoPage, LeavingIsHidden, HidesAfter
<1>7. ASSUME NEW p \in Pages, PingFails(p) PROVE Goal
  BY <1>7 DEF PingFails, IInv, TypeOK, GoneHaveNoPage, LeavingIsHidden, StampIsHidden,
              WaitingIsHidden, HidesAfter
<1>8. ASSUME NEW p \in Pages, LogoutStamp(p) PROVE Goal
  <2>1. session[p] \in Users \ left
    BY <1>2, <1>8 DEF LogoutStamp, IInv, GoneHaveNoPage
  <2>2. LeavingIsHidden'
    BY <1>8, <2>1 DEF LogoutStamp, IInv, TypeOK, LeavingIsHidden, HidesAfter
  <2>3. StampIsHidden'
    BY <1>2, <1>8, <2>1 DEF LogoutStamp, IInv, TypeOK, StampIsHidden, HidesAfter
  <2> QED BY <1>8, <2>2, <2>3 DEF LogoutStamp, IInv, GoneHaveNoPage, WaitingIsHidden, HidesAfter
<1>9. ASSUME NEW p \in Pages, LogoutHide(p) PROVE Goal
  <2>1. /\ UNCHANGED <<session, ping, active, left>> /\ session[p] \in Users
        /\ logout' = [logout EXCEPT ![session[p]] = 0]
        /\ leaving' = [leaving EXCEPT ![p] = "hidden"]
    BY <1>9 DEF LogoutHide, Marked, IInv, LeavingIsHidden
  <2>2. ASSUME NEW u \in Users, NEW x \in Nat, HidesAfter(u, x)
        PROVE  logout'[u] # None /\ logout'[u] <= x + MaxWait
    BY <1>1, <1>2, <2>1, <2>2 DEF HidesAfter, IInv, TypeOK
  <2>3. LeavingIsHidden'
    <3>1. logout'[session[p]] = 0
      BY <2>1 DEF IInv, TypeOK
    <3> QED BY <1>1, <2>1, <2>2, <3>1 DEF IInv, TypeOK, LeavingIsHidden, HidesAfter
  <2>4. StampIsHidden'
    BY <1>2, <2>1, <2>2 DEF IInv, StampIsHidden, HidesAfter
  <2>5. WaitingIsHidden'
    BY <1>1, <1>2, <2>1, <2>2 DEF IInv, WaitingIsHidden, HidesAfter
  <2> QED BY <2>1, <2>3, <2>4, <2>5 DEF IInv, GoneHaveNoPage
<1>10. ASSUME NEW p \in Pages, LogoutRevoke(p) PROVE Goal
  <2> DEFINE u == session[p]
  <2>1. /\ UNCHANGED <<ping, active, logout>> /\ u \in Users /\ HidesAfter(u, 0)
        /\ session' = [session EXCEPT ![p] = Guest]
        /\ leaving' = [leaving EXCEPT ![p] = "no"]
        /\ left' = left \/ /\ left' = left \cup {u}
                           /\ \A q \in Pages \ {p} : session[q] # u
    BY <1>10 DEF LogoutRevoke, IInv, LeavingIsHidden
  <2>2. GoneHaveNoPage'
    BY <1>1, <1>2, <2>1 DEF IInv, TypeOK, GoneHaveNoPage
  <2>3. LeavingIsHidden'
    BY <2>1 DEF IInv, TypeOK, LeavingIsHidden, HidesAfter
  <2>4. \A x \in Nat : HidesAfter(u, x)
    BY <1>1, <1>2, <2>1 DEF HidesAfter
  <2>5. StampIsHidden'
    BY <1>2, <2>1, <2>4 DEF IInv, StampIsHidden, HidesAfter
  <2>6. \A q \in Pages : ping[q] # None => ping[q].at \in Nat
    BY <1>1, <1>2
  <2>7. WaitingIsHidden'
    BY <2>1, <2>4, <2>6 DEF IInv, WaitingIsHidden, HidesAfter
  <2> QED BY <2>2, <2>3, <2>5, <2>7
<1>11. CASE OnlineStatus
  <2>1. UNCHANGED <<session, ping, leaving, active, left>> /\ logout' = Purged
    BY <1>11 DEF OnlineStatus
  <2>2. ASSUME NEW u \in Users, NEW x \in Nat, x + MaxWait <= Hidden, HidesAfter(u, x)
        PROVE  HidesAfter(u, x)'
    BY <1>1, <1>2, <2>1, <2>2 DEF HidesAfter, Purged, Expired
  <2>3. LeavingIsHidden'
    <3>1. 0 + MaxWait <= Hidden
      BY <1>1
    <3> QED BY <2>1, <2>2, <3>1 DEF IInv, LeavingIsHidden, HidesAfter
  <2>4. StampIsHidden'
    <3> SUFFICES ASSUME NEW u \in left, active[u] <= Shown PROVE HidesAfter(u, active[u])'
      BY <2>1 DEF StampIsHidden, HidesAfter
    <3>1. u \in Users /\ active[u] \in Nat /\ active[u] + MaxWait <= Hidden
      BY <1>1, <1>2
    <3>2. HidesAfter(u, active[u])
      BY DEF IInv, StampIsHidden
    <3>3. logout'[u] # None /\ logout'[u] <= active[u] + MaxWait
      BY <2>2, <3>1, <3>2 DEF HidesAfter
    <3> QED BY <2>1, <3>3 DEF HidesAfter
  <2>5. \A q \in Pages : ping[q] # None =>
            ping[q].at \in Nat /\ ping[q].at + MaxWait <= Hidden /\ ping[q].user \in Users
    BY <1>1, <1>2 DEF PresenceAssumption
  <2>6. WaitingIsHidden'
    BY <2>1, <2>2, <2>5 DEF IInv, WaitingIsHidden, HidesAfter
  <2> QED BY <2>1, <2>3, <2>4, <2>6 DEF IInv, GoneHaveNoPage
<1> QED BY <1>3, <1>4, <1>5, <1>6, <1>7, <1>8, <1>9, <1>10, <1>11 DEF Next

\* The invariant gives the property: an entry that hides a stamp that is shown
\* is not thrown away yet.
LEMMA InvGhosts == ASSUME PresenceAssumption, IInv PROVE NoGhosts
<1> SUFFICES ASSUME NEW u \in left, u \in Listed PROVE FALSE
  BY DEF NoGhosts
<1>1. u \in Users /\ active[u] <= Shown /\ active[u] \in Nat
  BY DEF Listed, IInv, TypeOK, Ages
<1>2. logout[u] # None /\ logout[u] <= active[u] + MaxWait /\ logout[u] \in Nat
  BY <1>1 DEF IInv, TypeOK, Ages, StampIsHidden, HidesAfter
<1>3. ~Expired(logout[u])
  BY <1>1, <1>2 DEF PresenceAssumption, Expired
<1> QED BY <1>1, <1>2, <1>3 DEF Listed, Purged

\* Every variable of the list of who is online has its type, and the invariant
\* above holds, however pings, logouts and the clock interleave.
THEOREM Invariant == ASSUME PresenceAssumption PROVE Spec => []IInv
<1>1. Init => IInv
  BY InitInv
<1>2. IInv /\ [Next]_vars => IInv'
  <2> SUFFICES ASSUME IInv, [Next]_vars PROVE IInv'
    OBVIOUS
  <2>1. TypeOK'
    BY TypeStep DEF IInv
  <2>2. GoneHaveNoPage' /\ LeavingIsHidden' /\ StampIsHidden' /\ WaitingIsHidden'
    BY TickInv, OtherInv
  <2> QED BY <2>1, <2>2 DEF IInv
<1> QED BY <1>1, <1>2, PTL DEF Spec

\* Who signed out on the last page is not listed by /api/online, for any
\* limits of PresenceAssumption: 120 and 30 seconds against 300 in the code.
THEOREM SignedOutAreNotListed == ASSUME PresenceAssumption PROVE Spec => []NoGhosts
<1>1. IInv => NoGhosts
  BY InvGhosts
<1> QED BY <1>1, Invariant, PTL
=============================================================================
