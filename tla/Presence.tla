------------------------------ MODULE Presence ------------------------------
(***************************************************************************)
(* Who is online (/api/online, /api/online/ping in backend/main.py, logout *)
(* in backend/routers/auth.py).  Each open page pings.  The table          *)
(* _visitor_data in memory has the last ping of each page; a ping also     *)
(* stamps last_active_at of the user, unless this page did so lately.  The *)
(* list shows who was active lately and is not in _explicit_logouts, where *)
(* a logout puts the user for a while.  The in-game badge, the peak and    *)
(* the history of the list are left out.                                   *)
(*                                                                         *)
(* Moments are ages: how many units of time have passed since.             *)
(***************************************************************************)
EXTENDS Naturals

CONSTANTS
    Users,
    Pages,   \* visitor ids: browsers with the site open
    Guest,   \* the user of a page that is not signed in
    None,    \* no entry
    Shown,   \* how long an activity is shown (120 s)
    Hidden,  \* how long a logout hides (300 s)
    Spacing, \* at most so often a page stamps its user (55 s, 60 s)
    TTL,     \* how long a page is kept (120 s)
    MaxWait  \* bound: how long a ping waits for the writer lock (30 s)

VARIABLES
    session, \* session[p]: whose session the cookie of the page is
    visitor, \* visitor[p]: the entry of _visitor_data, or None
    ping,    \* ping[p]: the stamp of the page that waits for its commit, or None
    leaving, \* leaving[p]: how far the logout of the page is
    active,  \* active[u]: the age of the committed last_active_at
    logout,  \* logout[u]: the age of the entry in _explicit_logouts, or None
    left     \* the users who signed out on their last page

vars == <<session, visitor, ping, leaving, active, logout, left>>

\* The ages up to a limit, and one for all above it.
Ages(limit) == 0..limit + 1
Older(age, limit) == IF age = None \/ age > limit THEN age ELSE age + 1
Entry == [seen : Ages(TTL), user : Users \cup {Guest}, stamped : Ages(Spacing)]

Init ==
    /\ session = [p \in Pages |-> Guest]
    /\ visitor = [p \in Pages |-> None]
    /\ ping = [p \in Pages |-> None]
    /\ leaving = [p \in Pages |-> "no"]
    /\ active = [u \in Users |-> Shown + 1]
    /\ logout = [u \in Users |-> None]
    /\ left = Users

SignIn(p, u) ==
    /\ session[p] = Guest
    /\ session' = [session EXCEPT ![p] = u]
    /\ left' = left \ {u}
    /\ UNCHANGED <<visitor, ping, leaving, active, logout>>

\* The entries that a ping leaves when it has thrown the old ones away.
Fresh == [q \in Pages |->
    IF visitor[q] # None /\ visitor[q].seen > TTL THEN None ELSE visitor[q]]

\* A ping up to its commit: the user is the one of the session, and the page
\* keeps the moment of its last stamp.
Ping(p) ==
    /\ ping[p] = None
    /\ LET last == IF Fresh[p] = None THEN Spacing + 1 ELSE Fresh[p].stamped
       IN  /\ visitor' = [Fresh EXCEPT ![p] =
                  [seen |-> 0, user |-> session[p], stamped |-> last]]
           /\ ping' = [ping EXCEPT ![p] =
                  IF session[p] # Guest /\ last > Spacing
                  THEN [user |-> session[p], at |-> 0, pinged |-> TRUE] ELSE None]
    /\ UNCHANGED <<session, leaving, active, logout, left>>

\* /api/auth/me stamps too, by the age of the last stamp of any page.
Me(p) ==
    /\ ping[p] = None /\ session[p] # Guest
    /\ active[session[p]] > Spacing
    /\ ping' = [ping EXCEPT ![p] = [user |-> session[p], at |-> 0, pinged |-> FALSE]]
    /\ UNCHANGED <<session, visitor, leaving, active, logout, left>>

\* The stamp that waited is committed, older than it was.  A logout may have
\* taken the page out of the table: then the ping fails after its commit.
PingCommit(p) ==
    /\ ping[p] # None
    /\ active' = [active EXCEPT ![ping[p].user] = ping[p].at]
    /\ visitor' = IF visitor[p] = None \/ ~ping[p].pinged THEN visitor
                  ELSE [visitor EXCEPT ![p].stamped = 0]
    /\ ping' = [ping EXCEPT ![p] = None]
    /\ UNCHANGED <<session, leaving, logout, left>>

PingFails(p) ==
    /\ ping[p] # None
    /\ ping' = [ping EXCEPT ![p] = None]
    /\ UNCHANGED <<session, visitor, leaving, active, logout, left>>

\* A logout stamps the user first,
LogoutStamp(p) ==
    /\ leaving[p] = "no" /\ session[p] # Guest
    /\ active' = [active EXCEPT ![session[p]] = 0]
    /\ leaving' = [leaving EXCEPT ![p] = "stamped"]
    /\ UNCHANGED <<session, visitor, ping, logout, left>>

\* then hides the user and forgets all pages of the user,
MarkedNot(u) == logout \* mutant: a logout that only forgets the pages
Marked(u) == [logout EXCEPT ![u] = 0]
LogoutHide(p) ==
    /\ leaving[p] = "stamped"
    /\ logout' = Marked(session[p])
    /\ visitor' = [q \in Pages |->
           IF visitor[q] # None /\ visitor[q].user = session[p] THEN None ELSE visitor[q]]
    /\ leaving' = [leaving EXCEPT ![p] = "hidden"]
    /\ UNCHANGED <<session, ping, active, left>>

\* and revokes the token last: until then the page may ping once more.
LogoutRevoke(p) ==
    /\ leaving[p] = "hidden"
    /\ session' = [session EXCEPT ![p] = Guest]
    /\ left' = IF \E q \in Pages \ {p} : session[q] = session[p] THEN left
               ELSE left \cup {session[p]}
    /\ leaving' = [leaving EXCEPT ![p] = "no"]
    /\ UNCHANGED <<visitor, ping, active, logout>>

\* The list of /api/online, and the entries it throws away before.
ExpiredWithStamp(age) == age > Shown \* mutant: hidden as long as shown
Expired(age) == age > Hidden

Purged == [u \in Users |->
    IF logout[u] # None /\ Expired(logout[u]) THEN None ELSE logout[u]]
Listed == {u \in Users : active[u] <= Shown /\ Purged[u] = None}
Guests == {p \in Pages : visitor[p] # None /\ visitor[p].seen <= TTL /\ visitor[p].user = Guest}

OnlineStatus ==
    /\ logout' = Purged
    /\ UNCHANGED <<session, visitor, ping, leaving, active, left>>

\* Time passes; what waits for the lock does not wait longer than MaxWait, and
\* nothing is awaited between the stamp of a logout and the hiding.
Waits(p) ==
    \/ leaving[p] = "no"
    \/ leaving[p] = "hidden" /\ session[p] # Guest /\ logout[session[p]] < MaxWait
Tick ==
    /\ \A p \in Pages : Waits(p) /\ (ping[p] # None => ping[p].at < MaxWait)
    /\ visitor' = [p \in Pages |-> IF visitor[p] = None THEN None ELSE
           [visitor[p] EXCEPT !.seen = Older(@, TTL), !.stamped = Older(@, Spacing)]]
    /\ ping' = [p \in Pages |-> IF ping[p] = None THEN None ELSE
           [ping[p] EXCEPT !.at = @ + 1]]
    /\ active' = [u \in Users |-> Older(active[u], Shown)]
    /\ logout' = [u \in Users |-> Older(logout[u], Hidden)]
    /\ UNCHANGED <<session, leaving, left>>

Next ==
    \/ \E p \in Pages :
        \/ \E u \in Users : SignIn(p, u)
        \/ Ping(p)
        \/ Me(p)
        \/ PingCommit(p)
        \/ PingFails(p)
        \/ LogoutStamp(p)
        \/ LogoutHide(p)
        \/ LogoutRevoke(p)
    \/ OnlineStatus
    \/ Tick

Spec == Init /\ [][Next]_vars

TypeOK ==
    /\ session \in [Pages -> Users \cup {Guest}]
    /\ visitor \in [Pages -> Entry \cup {None}]
    /\ ping \in [Pages -> [user : Users, at : 0..MaxWait, pinged : BOOLEAN] \cup {None}]
    /\ leaving \in [Pages -> {"no", "stamped", "hidden"}]
    /\ active \in [Users -> Ages(Shown)]
    /\ logout \in [Users -> Ages(Hidden) \cup {None}]
    /\ left \subseteq Users

\* The values of the constants under which NoGhosts holds: a logout hides
\* longer than a stamp that waited for the lock is shown (300, 120 and 30 s).
PresenceAssumption ==
    /\ Guest \notin Users
    /\ None \notin Nat \cup Users
    /\ Shown \in Nat /\ Hidden \in Nat /\ Spacing \in Nat /\ TTL \in Nat /\ MaxWait \in Nat
    /\ MaxWait <= Shown
    /\ Hidden >= Shown + MaxWait

\* Who signed out everywhere is not listed, although a ping of a page that was
\* on its way may stamp the user after the logout did: the logout hides longer
\* than a stamp is shown.
NoGhosts == left \cap Listed = {}

\* Who is signed in, and has pinged, is listed.  Not so for Hidden after a
\* logout on another page, or before signing in again.
SeenIsListed ==
    \A p \in Pages : (session[p] # Guest /\ visitor[p] # None /\ visitor[p].user = session[p]
                      /\ visitor[p].stamped = 0)
                     => session[p] \in Listed
=============================================================================
