------------------------------- MODULE Logins -------------------------------
(***************************************************************************)
(* The login history of one account and the mail about a login from a new  *)
(* address (_maybe_notify_new_device and _record_login_attempt in          *)
(* backend/routers/auth.py).  A login that succeeds looks for its address  *)
(* among the earlier ones, then for any earlier one, may mail, and is      *)
(* recorded last, each in a step of its own.  When either question fails,  *)
(* it is recorded all the same.  The account has an e-mail; attempts that  *)
(* fail have no address that counts and are left out.                      *)
(***************************************************************************)
EXTENDS Naturals

CONSTANTS
    Requests,  \* logins under way
    Addresses,
    None       \* no login, no address

VARIABLES
    history, \* the addresses of the recorded logins
    first,   \* the address of the first of them, or None
    login,   \* login[r]: its address and what it does next, or None
    mailed,  \* the addresses that were mailed about
    failed,  \* the addresses of logins whose check failed
    alone    \* no login was recorded after another had found none

vars == <<history, first, login, mailed, failed, alone>>

Init ==
    /\ history = {} /\ first = None
    /\ login = [r \in Requests |-> None]
    /\ mailed = {} /\ failed = {}
    /\ alone = TRUE

Goes(r, step) == login' = [login EXCEPT ![r].next = step]

\* Mutant: the login is recorded before it is asked for, and finds itself.
SeenItself(r, a) ==
    /\ login[r] = None
    /\ history' = history \cup {a}
    /\ first' = IF history = {} THEN a ELSE first
    /\ login' = [login EXCEPT ![r] = [from |-> a, next |-> "record"]]
    /\ UNCHANGED <<mailed, failed, alone>>

\* A login has succeeded and asks whether its address is known.
Seen(r, a) ==
    /\ login[r] = None
    /\ login' = [login EXCEPT ![r] =
           [from |-> a, next |-> IF a \in history THEN "record" ELSE "prior"]]
    /\ UNCHANGED <<history, first, mailed, failed, alone>>

\* A mail is sent unless this is the first login of the account.
Prior(r) ==
    /\ login[r] # None /\ login[r].next = "prior"
    /\ mailed' = IF history = {} THEN mailed ELSE mailed \cup {login[r].from}
    /\ Goes(r, IF history = {} THEN "first" ELSE "record")
    /\ UNCHANGED <<history, first, failed, alone>>

\* The first or the second question fails, and the login goes on without a mail.
SeenFails(r, a) ==
    /\ login[r] = None
    /\ login' = [login EXCEPT ![r] = [from |-> a, next |-> "record"]]
    /\ failed' = failed \cup {a}
    /\ UNCHANGED <<history, first, mailed, alone>>

PriorFails(r) ==
    /\ login[r] # None /\ login[r].next = "prior"
    /\ Goes(r, "record")
    /\ failed' = failed \cup {login[r].from}
    /\ UNCHANGED <<history, first, mailed, alone>>

\* The login is recorded; a failure of that is only logged.
Record(r) ==
    /\ login[r] # None /\ login[r].next \in {"first", "record"}
    /\ history' = history \cup {login[r].from}
    /\ first' = IF history = {} THEN login[r].from ELSE first
    /\ login' = [login EXCEPT ![r] = None]
    /\ alone' = (alone /\ \A q \in Requests \ {r} : login[q] = None \/ login[q].next # "first")
    /\ UNCHANGED <<mailed, failed>>

RecordFails(r) ==
    /\ login[r] # None
    /\ login' = [login EXCEPT ![r] = None]
    /\ UNCHANGED <<history, first, mailed, failed, alone>>

Next ==
    \E r \in Requests :
        \/ \E a \in Addresses : Seen(r, a) \/ SeenFails(r, a)
        \/ Prior(r)
        \/ PriorFails(r)
        \/ Record(r)
        \/ RecordFails(r)

Spec == Init /\ [][Next]_vars

TypeOK ==
    /\ history \subseteq Addresses /\ mailed \subseteq Addresses /\ failed \subseteq Addresses
    /\ first \in Addresses \cup {None}
    /\ login \in [Requests ->
           [from : Addresses, next : {"prior", "first", "record"}] \cup {None}]
    /\ alone \in BOOLEAN

\* "Fires only when this successful login's IP has never appeared": the user was mailed
\* about each address in the history but the first one and those of logins whose check
\* failed, however the logins overlap; unless one was recorded while another held that
\* there is none.
NewAddressIsMailed == alone => history \ ({first} \cup failed) \subseteq mailed

=============================================================================
