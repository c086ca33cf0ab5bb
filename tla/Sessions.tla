------------------------------ MODULE Sessions ------------------------------
(***************************************************************************)
(* The sessions of one account: passwords, tokens, password resets and the *)
(* second factor.  A token is a signed JWT whose claims are the account    *)
(* and the whole second of its issue, so two tokens of one second are the  *)
(* same token, and a token is modelled by that second.  Nothing is stored  *)
(* for a session but one column, revoke_before.                            *)
(*                                                                         *)
(* A handler reads the account, awaits, and writes in one transaction.  A  *)
(* token lives for hours and the model for seconds: none expires.          *)
(***************************************************************************)
EXTENDS Integers, FiniteSets, TLC

CONSTANTS
    Requests,     \* the requests that may be under way
    Passwords,
    FirstPassword,
    Limit,        \* _LOGIN_ATTEMPT_LIMIT and _TOTP_ATTEMPT_LIMIT (5 in the code)
    MaxTime,      \* bound: seconds
    MaxRequests   \* bound: requests that are ever made

ASSUME SessionsAssumption ==
    /\ IsFiniteSet(Requests)
    /\ FirstPassword \in Passwords
    /\ Limit \in Nat \ {0}
    /\ MaxTime \in Nat
    /\ MaxRequests \in Nat

VARIABLES
    clock,     \* the second
    password,  \* hashed_password
    issued,    \* the tokens that were ever issued
    loggedOut, \* revoked_tokens
    cutoff,    \* revoke_before: the last second whose tokens it refuses
    totp,      \* totp_enabled (and totp_secret)
    pending,   \* _totp_pending: a secret waits to be enabled
    batches,   \* batches of recovery codes issued
    unused,    \* the batches with an unused code
    mailed,    \* reset links mailed
    links,     \* the links that are neither used nor deleted
    used,      \* the links that were used
    resetRow,  \* the row of a link, named by the first link that had its id
    fails,     \* _failed_login_attempts
    totpFails, \* _failed_totp_attempts
    req,       \* the requests under way
    made,      \* requests made
    endings    \* how often the sessions of the account were ended

tokenVars == <<clock, issued, loggedOut, cutoff, endings>>
factorVars == <<totp, pending, batches, unused>>
linkVars == <<mailed, links, used, resetRow>>
limitVars == <<fails, totpFails>>
vars == <<tokenVars, password, factorVars, linkVars, limitVars, req, made>>

Seconds == 0..MaxTime
Free == [op |-> "none"]
NotYet == -1 \* the time a request has not taken

Init ==
    /\ clock = 0
    /\ password = FirstPassword
    /\ issued = {} /\ loggedOut = {}
    /\ cutoff = -1
    /\ totp = FALSE /\ pending = FALSE
    /\ batches = 0 /\ unused = {}
    /\ mailed = 0 /\ links = {} /\ used = {} /\ resetRow = <<>>
    /\ fails = 0 /\ totpFails = 0
    /\ req = [r \in Requests |-> Free]
    /\ made = 0
    /\ endings = 0

\* iat < revoke_before
Revoked(s) == s <= cutoff

\* get_current_user lets the token in.
Accepted(s) == s \in issued /\ s \notin loggedOut /\ ~Revoked(s)

\* Mutant: the time of issue is rounded up.
IssueLater == issued' = issued \cup {clock + 1}

Issue == issued' = issued \cup {clock}

Begin(r, with) ==
    /\ req[r] = Free
    /\ made < MaxRequests
    /\ made' = made + 1
    /\ req' = [req EXCEPT ![r] = with]

Done(r) == req' = [req EXCEPT ![r] = Free]

\* A request that is let in has read the account.
Signed(r, op) ==
    \E s \in issued :
       /\ Accepted(s)
       /\ Begin(r, [op |-> op, stage |-> "read", token |-> s, seen |-> endings,
                    now |-> NotYet])

-----------------------------------------------------------------------------
\* POST /api/auth/login

\* Mutant: one attempt more.
ExceededLater(n) == n > Limit

Exceeded(n) == n >= Limit

\* Too many attempts are refused before anything is read.
LoginBegin(r, p, second) ==
    /\ ~Exceeded(fails)
    /\ Begin(r, [op |-> "login", stage |-> "begun", pass |-> p, second |-> second])
    /\ UNCHANGED <<tokenVars, password, factorVars, linkVars, limitVars>>

LoginWrongPassword(r) ==
    /\ req[r].op = "login" /\ req[r].stage = "begun"
    /\ req[r].pass # password
    /\ fails' = fails + 1
    /\ Done(r)
    /\ UNCHANGED <<tokenVars, password, factorVars, linkVars, totpFails, made>>

\* The password is right.  Without a second factor the session may be opened;
\* the code of the authenticator opens it as well; anything else is looked up
\* among the recovery codes, and without a code it is a failed attempt.
LoginRead(r) ==
    /\ req[r].op = "login" /\ req[r].stage = "begun"
    /\ req[r].pass = password
    /\ \/ /\ totp => ~Exceeded(totpFails) /\ req[r].second # "none"
          /\ req' = [req EXCEPT ![r] =
                       IF totp /\ req[r].second = "recovery"
                       THEN [op |-> "login", stage |-> "code"]
                       ELSE [op |-> "login", stage |-> "open", totp |-> totp]]
          /\ UNCHANGED totpFails
       \/ /\ totp /\ Exceeded(totpFails)
          /\ Done(r)
          /\ UNCHANGED totpFails
       \/ /\ totp /\ ~Exceeded(totpFails) /\ req[r].second = "none"
          /\ totpFails' = totpFails + 1
          /\ Done(r)
    /\ UNCHANGED <<tokenVars, password, factorVars, linkVars, fails, made>>

\* _consume_recovery_code reads the unused codes.
LoginCode(r) ==
    /\ req[r].op = "login" /\ req[r].stage = "code"
    /\ \/ \E b \in unused :
             req' = [req EXCEPT ![r] = [op |-> "login", stage |-> "stamp", batch |-> b]]
          /\ UNCHANGED totpFails
       \/ /\ Done(r)
          /\ totpFails' = totpFails + 1
    /\ UNCHANGED <<tokenVars, password, factorVars, linkVars, fails, made>>

\* The code is stamped as used, then the token is issued.
LoginStamp(r) ==
    /\ req[r].op = "login" /\ req[r].stage = "stamp"
    /\ unused' = unused \ {req[r].batch}
    /\ req' = [req EXCEPT ![r] = [op |-> "login", stage |-> "open", totp |-> TRUE]]
    /\ UNCHANGED <<tokenVars, password, totp, pending, batches, linkVars, limitVars, made>>

LoginOpen(r) ==
    /\ req[r].op = "login" /\ req[r].stage = "open"
    /\ fails' = 0
    /\ totpFails' = IF req[r].totp THEN 0 ELSE totpFails
    /\ Issue
    /\ Done(r)
    /\ UNCHANGED <<clock, loggedOut, cutoff, endings, password, factorVars, linkVars, made>>

\* The attempts of the last five minutes are forgotten one by one.
Forget ==
    /\ fails + totpFails > 0
    /\ fails' \in {fails, fails - 1} \cap Nat
    /\ totpFails' \in {totpFails, totpFails - 1} \cap Nat
    /\ UNCHANGED <<tokenVars, password, factorVars, linkVars, req, made>>

-----------------------------------------------------------------------------
\* POST /api/auth/logout

Logout(r) ==
    /\ Signed(r, "logout")
    /\ UNCHANGED <<tokenVars, password, factorVars, linkVars, limitVars>>

\* UNIQUE(token): of two logouts with one token the second fails.
LogoutWrite(r) ==
    /\ req[r].op = "logout"
    /\ loggedOut' = loggedOut \cup {req[r].token}
    /\ Done(r)
    /\ UNCHANGED <<clock, issued, cutoff, endings, password, factorVars, linkVars,
                   limitVars, made>>

-----------------------------------------------------------------------------
\* What ends the sessions of the account: change-password, logout-everywhere,
\* reset-password and an admin's revoke-sessions.

Enders == {"change", "everywhere", "reset", "admin"}

\* The first two go on in a session of their own.
Reissuing == {"change", "everywhere"}

\* Mutant: no second is given back.
CutoffNow(op, now) == now

\* Mutant: two seconds are given back.
CutoffEarlier(op, now) == IF op \in Reissuing THEN now - 2 ELSE now

\* revoke_before = now, backdated by a second where a token is issued next.
Cutoff(op, now) == IF op \in Reissuing THEN now - 1 ELSE now

ChangePassword(r, new) ==
    /\ \E s \in issued :
          /\ Accepted(s)
          /\ Begin(r, [op |-> "change", stage |-> "read", token |-> s, new |-> new,
                       seen |-> endings, now |-> NotYet])
    /\ UNCHANGED <<tokenVars, password, factorVars, linkVars, limitVars>>

LogoutEverywhere(r) ==
    /\ Signed(r, "everywhere")
    /\ UNCHANGED <<tokenVars, password, factorVars, linkVars, limitVars>>

\* The admin's own sign-in is not modelled.
RevokeUserSessions(r) ==
    /\ Begin(r, [op |-> "admin", stage |-> "read", seen |-> endings, now |-> NotYet])
    /\ UNCHANGED <<tokenVars, password, factorVars, linkVars, limitVars>>

DoResetPassword(r, l, new) ==
    /\ l \in links
    /\ Begin(r, [op |-> "reset", stage |-> "read", link |-> l, new |-> new,
                 seen |-> endings, now |-> NotYet])
    /\ UNCHANGED <<tokenVars, password, factorVars, linkVars, limitVars>>

\* The time is taken before the transaction waits for the writer lock.
EndStamp(r) ==
    /\ req[r].op \in Enders /\ req[r].stage = "read"
    /\ req' = [req EXCEPT ![r].stage = "stamped", ![r].now = clock]
    /\ UNCHANGED <<tokenVars, password, factorVars, linkVars, limitVars, made>>

\* A reset updates the row with the id it has read: that of its link or, if the
\* link was replaced, of the newer one that got the id.
Updated(l) == {k \in links \cup used : resetRow[k] = resetRow[l]}

\* If nobody has the id the update matches no row and the reset fails.
EndFails(r) ==
    /\ req[r].op = "reset" /\ req[r].stage = "stamped"
    /\ Updated(req[r].link) = {}
    /\ Done(r)
    /\ UNCHANGED <<tokenVars, password, factorVars, linkVars, limitVars, made>>

EndWrite(r) ==
    /\ req[r].op \in Enders /\ req[r].stage = "stamped"
    /\ req[r].op = "reset" => Updated(req[r].link) # {}
    /\ cutoff' = Cutoff(req[r].op, req[r].now)
    /\ endings' = endings + 1
    /\ password' = IF req[r].op \in {"change", "reset"} THEN req[r].new ELSE password
    /\ IF req[r].op = "reset"
       THEN links' = links \ Updated(req[r].link) /\ used' = used \cup Updated(req[r].link)
       ELSE UNCHANGED <<links, used>>
    /\ IF req[r].op \in Reissuing THEN Issue ELSE UNCHANGED issued
    /\ Done(r)
    /\ UNCHANGED <<clock, loggedOut, factorVars, mailed, resetRow, limitVars, made>>

-----------------------------------------------------------------------------
\* POST /api/auth/forgot-password

\* Mutant: the links that were mailed before go on working.
Replaced(l) == links \cup {l}

\* The unused links are deleted before the new one is added, under the lock.
Fresh(l) == {l}

\* The new row gets the id of the deleted one if that was the largest of the
\* table (a plain INTEGER PRIMARY KEY), which the rows of other accounts decide.
NewRow(l) ==
    \E id \in {l} \cup {resetRow[k] : k \in links} :
        resetRow' = [k \in 1..l |-> IF k = l THEN id ELSE resetRow[k]]

ForgotPassword ==
    /\ made < MaxRequests
    /\ made' = made + 1
    /\ mailed' = mailed + 1
    /\ links' = Fresh(mailed')
    /\ NewRow(mailed')
    /\ UNCHANGED <<tokenVars, password, factorVars, used, limitVars, req>>

-----------------------------------------------------------------------------
\* The second factor.

TotpSetup ==
    /\ \E s \in issued : Accepted(s)
    /\ ~totp /\ ~pending
    /\ pending' = TRUE
    /\ UNCHANGED <<tokenVars, password, totp, batches, unused, linkVars, limitVars, req, made>>

\* Mutant: the codes issued before are still good.
IssuedBeside(b) == unused \cup {b}

\* _issue_recovery_codes: the unused codes are stamped, a batch is added.
IssuedCodes(b) == {b}

\* A request that has shown the code of its authenticator.
TotpRequest(r, op) ==
    /\ op = "enable" => pending
    /\ op \in {"disable", "regenerate"} => totp
    /\ Signed(r, op)
    /\ UNCHANGED <<tokenVars, password, factorVars, linkVars, limitVars>>

TotpEnable(r) ==
    /\ req[r].op = "enable"
    /\ totp' = TRUE /\ pending' = FALSE
    /\ batches' = batches + 1
    /\ unused' = IssuedCodes(batches')
    /\ Done(r)
    /\ UNCHANGED <<tokenVars, password, linkVars, limitVars, made>>

TotpDisable(r) ==
    /\ req[r].op = "disable"
    /\ totp' = FALSE
    /\ Done(r)
    /\ UNCHANGED <<tokenVars, password, pending, batches, unused, linkVars, limitVars, made>>

RegenerateCodes(r) ==
    /\ req[r].op = "regenerate"
    /\ batches' = batches + 1
    /\ unused' = IssuedCodes(batches')
    /\ Done(r)
    /\ UNCHANGED <<tokenVars, password, totp, pending, linkVars, limitVars, made>>

-----------------------------------------------------------------------------
Tick ==
    /\ clock < MaxTime
    /\ clock' = clock + 1
    /\ UNCHANGED <<issued, loggedOut, cutoff, endings, password, factorVars,
                   linkVars, limitVars, req, made>>

\* What is kept in memory is lost, and so is every request under way.
Restart ==
    /\ \E r \in Requests : req[r] # Free
    /\ pending' = FALSE
    /\ fails' = 0 /\ totpFails' = 0
    /\ req' = [r \in Requests |-> Free]
    /\ UNCHANGED <<tokenVars, password, totp, batches, unused, linkVars, made>>

Next ==
    \/ \E r \in Requests, p \in Passwords, second \in {"none", "totp", "recovery"} :
          LoginBegin(r, p, second)
    \/ \E r \in Requests :
          \/ LoginWrongPassword(r) \/ LoginRead(r) \/ LoginCode(r)
          \/ LoginStamp(r) \/ LoginOpen(r)
          \/ Logout(r) \/ LogoutWrite(r)
          \/ LogoutEverywhere(r) \/ RevokeUserSessions(r)
          \/ EndStamp(r) \/ EndFails(r) \/ EndWrite(r)
          \/ TotpEnable(r) \/ TotpDisable(r) \/ RegenerateCodes(r)
    \/ \E r \in Requests, p \in Passwords : ChangePassword(r, p)
    \/ \E r \in Requests, l \in links, p \in Passwords : DoResetPassword(r, l, p)
    \/ \E r \in Requests, op \in {"enable", "disable", "regenerate"} : TotpRequest(r, op)
    \/ Forget \/ ForgotPassword \/ TotpSetup \/ Tick \/ Restart

Spec == Init /\ [][Next]_vars

-----------------------------------------------------------------------------
\* Properties.

RequestType ==
    {Free}
    \cup [op: {"login"}, stage: {"begun"}, pass: Passwords,
          second: {"none", "totp", "recovery"}]
    \cup [op: {"login"}, stage: {"code"}]
    \cup [op: {"login"}, stage: {"stamp"}, batch: Nat]
    \cup [op: {"login"}, stage: {"open"}, totp: BOOLEAN]

TypeOK ==
    /\ clock \in Seconds
    /\ password \in Passwords
    /\ issued \subseteq Seconds /\ loggedOut \subseteq issued
    /\ cutoff \in -1..MaxTime
    /\ totp \in BOOLEAN /\ pending \in BOOLEAN
    /\ unused \subseteq 1..batches
    /\ links \subseteq 1..mailed /\ used \subseteq 1..mailed
    /\ resetRow \in [1..mailed -> 1..mailed]
    /\ \A r \in Requests :
          \/ req[r] \in RequestType
          \/ /\ req[r].op \in {"logout", "enable", "disable", "regenerate"}
             /\ req[r].token \in issued
          \/ /\ req[r].op \in Enders /\ req[r].stage \in {"read", "stamped"}
             /\ req[r].op \in Reissuing => req[r].token \in issued
             /\ req[r].stage = "stamped" => req[r].now \in Seconds

Refused(s) == s \in loggedOut \/ Revoked(s)

\* No request that ended the sessions was overtaken by another one.
Undisturbed == \A r \in Requests : req'[r] # req[r] /\ endings' # endings =>
                                      req[r].seen = endings

\* A token that was refused once is never let in again: no later logout,
\* password change, reset or log-out-everywhere takes back what an earlier one
\* revoked, as long as two of them do not overlap.
RefusedStaysRefused ==
    [][Undisturbed => \A s \in Seconds : Refused(s) => Refused(s)']_vars

\* change-password and logout-everywhere: "the browser tab that clicked the
\* button gets a fresh cookie, so it stays signed in" if it was until then
\* (and no token of the same second was logged out, which is the same token).
KeepsSession ==
    [][\A r \in Requests :
          /\ req[r].op \in Reissuing /\ endings' # endings /\ req'[r] # req[r]
          /\ Accepted(req[r].token) /\ clock \notin loggedOut
          => Accepted(clock)']_vars

\* "Invalidates every unused recovery code": however enabling, disabling,
\* regenerating and logging in overlap, only a code of the last batch can be
\* unused.
LatestBatchOnly == unused \subseteq {batches}

\* "Delete old unused tokens for this user": only the link that was mailed last
\* lets a reset begin.  (One that began with an older link may still end well.)
LastLinkOnly == links \subseteq {mailed}

\* Of what can be used once, only the last that was issued is unused.
OnlyNewestValid == LatestBatchOnly /\ LastLinkOnly

\* Requests under way may each add one failed attempt to the limit, no more.
AttemptsBounded ==
    /\ fails < Limit + Cardinality(Requests)
    /\ totpFails < Limit + Cardinality(Requests)
=============================================================================
