------------------------------- MODULE Roles --------------------------------
(***************************************************************************)
(* Accounts, their roles and who may act on whom, from the first start of  *)
(* the site on: the migration of the roles, the setup that founds the      *)
(* site, registration, the admin's changes of roles, bans and deletions,   *)
(* and users who delete their own accounts.  An admin's request reads the  *)
(* caller (get_current_user), then its targets, then writes; what it       *)
(* decides by may be out of date by then.                                  *)
(***************************************************************************)
EXTENDS Integers, FiniteSets

CONSTANTS
    Users,      \* accounts that may exist
    Requests,   \* the requests that may be under way
    MaxWrites   \* bound: requests that change an account

VARIABLES
    phase,     \* "seed", "migrate" and then "up": the stages of lifespan
    migrated,  \* the setting role_tiers_migrated
    setupDone, \* the setting setup_completed
    level,     \* role of the accounts that exist
    active,    \* is_active of the accounts that exist
    welcome,   \* the post the setup publishes
    founders,  \* accounts that a setup made
    req,       \* the requests under way
    writes,    \* changes of accounts that were committed
    clean      \* none was decided by roles that had changed, or was the last superadmin's leave

siteVars == <<phase, migrated, setupDone, welcome, founders>>
vars == <<siteVars, level, active, req, writes, clean>>

\* ROLE_LEVELS
User == 0
Moderator == 1
Admin == 2
Superadmin == 3
Levels == User..Superadmin

Free == [op |-> "none"]

Exists(u) == u \in DOMAIN level

\* A new installation, or one from before there were superadmins.
Init ==
    /\ phase = "seed"
    /\ migrated = FALSE /\ setupDone = FALSE /\ welcome = FALSE
    /\ \E old \in SUBSET Users : level \in [old -> {User, Admin}]
    /\ active = [u \in DOMAIN level |-> TRUE]
    /\ founders = {}
    /\ req = [r \in Requests |-> Free]
    /\ writes = 0
    /\ clean = TRUE

\* Mutant: the flag is not looked at.
PromotedAlways == [u \in DOMAIN level |-> IF level[u] = Admin THEN Superadmin ELSE level[u]]

\* The admins of an installation from before the tiers become superadmins.
Promoted ==
    IF migrated THEN level
    ELSE [u \in DOMAIN level |-> IF level[u] = Admin THEN Superadmin ELSE level[u]]

HasAdmin == \E u \in DOMAIN level : level[u] >= Admin

SeedDefaults ==
    /\ phase = "seed"
    /\ phase' = "migrate"
    /\ setupDone' = (setupDone \/ HasAdmin)
    /\ UNCHANGED <<migrated, welcome, founders, level, active, req, writes, clean>>

MigrateAdminRoleTiers ==
    /\ phase = "migrate"
    /\ phase' = "up"
    /\ level' = Promoted
    /\ migrated' = TRUE
    /\ UNCHANGED <<setupDone, welcome, founders, active, req, writes, clean>>

\* The process dies and starts again.
Restart ==
    /\ phase = "migrate" \/ \E r \in Requests : req[r] # Free
    /\ phase' = "seed"
    /\ req' = [r \in Requests |-> Free]
    /\ UNCHANGED <<migrated, setupDone, welcome, founders, level, active, writes, clean>>

Begin(r, with) ==
    /\ phase = "up"
    /\ req[r] = Free
    /\ writes < MaxWrites
    /\ req' = [req EXCEPT ![r] = with]

Done(r) == req' = [req EXCEPT ![r] = Free]

-----------------------------------------------------------------------------
\* POST /api/auth/register and POST /api/setup/complete

\* f with v for u.
With(f, u, v) == [w \in DOMAIN f \cup {u} |-> IF w = u THEN v ELSE f[w]]

\* Mutant: the default of is_active is missing.
AddedUnset(u, l) ==
    /\ ~Exists(u)
    /\ level' = With(level, u, l)
    /\ active' = active
    /\ writes' = writes + 1

Added(u, l) ==
    /\ ~Exists(u)
    /\ level' = With(level, u, l)
    /\ active' = With(active, u, TRUE)
    /\ writes' = writes + 1

Register(u) ==
    /\ phase = "up"
    /\ writes < MaxWrites
    /\ Added(u, User)
    /\ UNCHANGED <<siteVars, req, clean>>

SetupRead(r, u) ==
    /\ ~setupDone /\ ~HasAdmin
    /\ ~Exists(u)
    /\ Begin(r, [op |-> "setup", user |-> u])
    /\ UNCHANGED <<siteVars, level, active, writes, clean>>

\* Mutant: the welcome post gets a slug of its own.
WelcomeFitsAny == TRUE

\* UNIQUE(slug): there is one welcome post.
WelcomeFits == ~welcome

\* Account, flag and post are one transaction.
SetupWrite(r) ==
    /\ req[r].op = "setup"
    /\ WelcomeFits
    /\ Added(req[r].user, Superadmin)
    /\ founders' = founders \cup {req[r].user}
    /\ setupDone' = TRUE /\ welcome' = TRUE
    /\ Done(r)
    /\ UNCHANGED <<phase, migrated, clean>>

SetupFails(r) ==
    /\ req[r].op = "setup"
    /\ ~WelcomeFits \/ Exists(req[r].user)
    /\ Done(r)
    /\ UNCHANGED <<siteVars, level, active, writes, clean>>

-----------------------------------------------------------------------------
\* PUT .../role, PUT .../toggle-active, DELETE, POST .../bulk, .../bulk-role

Single == {"role", "toggle", "delete"}
Bulk == {"ban", "unban", "bulk_delete", "bulk_role"}

\* require_role(...)
Needs(op) ==
    CASE op \in {"role", "bulk_role"} -> Superadmin
      [] op = "toggle" -> Moderator
      [] OTHER -> Admin

\* get_current_user and the role it was read with
SignIn(r, op, caller, targets) ==
    /\ req[r] = Free
    /\ active[caller] /\ level[caller] >= Needs(op)
    /\ targets # {}
    /\ op \in Single => Cardinality(targets) = 1
    /\ \E to \in IF op \in {"role", "bulk_role"} THEN Levels ELSE {User} :
          Begin(r, [op |-> op, stage |-> "signed", caller |-> caller,
                    mine |-> level[caller], targets |-> targets, to |-> to])
    /\ UNCHANGED <<siteVars, level, active, writes, clean>>

\* Mutant: one's own role may be changed as well.
MayActOnSelf(q, u) ==
    q.op = "role" \/ level[u] < q.mine

\* Never on oneself (a bulk request finds its caller as get_current_user read it,
\* so not on a lower role); a role change on anybody else, the rest only on lower roles.
MayAct(q, u) ==
    /\ u # q.caller
    /\ q.op = "role" \/ level[u] < q.mine

\* The targets are read: a bulk request leaves out those it may not act on, a
\* request for one account is refused.
ReadTargets(r) ==
    /\ req[r].op \in Single \cup Bulk /\ req[r].stage = "signed"
    /\ LET q == req[r]
           rows == {u \in q.targets \cap DOMAIN level : MayAct(q, u)} IN
       req' = [req EXCEPT ![r] =
                 IF rows = {} THEN Free
                 ELSE [op |-> q.op, stage |-> "read", caller |-> q.caller,
                       mine |-> q.mine, targets |-> rows, to |-> q.to,
                       roles |-> [u \in rows |-> level[u]],
                       actives |-> [u \in rows |-> active[u]]]]
    /\ UNCHANGED <<siteVars, level, active, writes, clean>>

\* What the request makes of a row; a column with the value that was read is
\* not written.
NewActive(q, u) ==
    CASE q.op = "toggle" -> ~q.actives[u]
      [] q.op = "ban" /\ q.actives[u] -> FALSE
      [] q.op = "unban" /\ ~q.actives[u] -> TRUE
      [] OTHER -> active[u]

NewLevel(q, u) ==
    IF q.op \in {"role", "bulk_role"} /\ q.roles[u] # q.to THEN q.to ELSE level[u]

Deletes(q) == q.op \in {"delete", "bulk_delete"}

\* The caller is still what it was when it signed in, and the targets still have the
\* roles they were read with.
InForce(q) ==
    /\ q.caller \in DOMAIN level /\ active[q.caller] /\ level[q.caller] = q.mine
    /\ \A u \in q.targets \cap DOMAIN level : level[u] = q.roles[u]

WriteTargets(r) ==
    /\ req[r].op \in Single \cup Bulk /\ req[r].stage = "read"
    /\ LET q == req[r]
           gone == IF Deletes(q) THEN q.targets ELSE {}
           stay == DOMAIN level \ gone IN
       /\ Deletes(q) \/ q.targets \subseteq DOMAIN level
       /\ level' = [u \in stay |-> IF u \in q.targets THEN NewLevel(q, u) ELSE level[u]]
       /\ active' = [u \in stay |-> IF u \in q.targets THEN NewActive(q, u) ELSE active[u]]
       /\ clean' = (clean /\ InForce(q))
    /\ writes' = writes + 1
    /\ Done(r)
    /\ UNCHANGED siteVars

\* A row to be updated is gone: nothing of the request is written.
WriteFails(r) ==
    /\ req[r].op \in Single \cup Bulk /\ req[r].stage = "read"
    /\ ~Deletes(req[r]) /\ ~(req[r].targets \subseteq DOMAIN level)
    /\ Done(r)
    /\ UNCHANGED <<siteVars, level, active, writes, clean>>

-----------------------------------------------------------------------------
\* DELETE /api/profile/me: any user, whatever the role.

LeaveRead(r, u) ==
    /\ req[r] = Free
    /\ active[u]
    /\ Begin(r, [op |-> "leave", user |-> u])
    /\ UNCHANGED <<siteVars, level, active, writes, clean>>

Commands(u) == level[u] = Superadmin /\ active[u]

Leave(r) ==
    /\ req[r].op = "leave"
    /\ Exists(req[r].user)
    /\ LET stay == DOMAIN level \ {req[r].user} IN
       /\ level' = [u \in stay |-> level[u]]
       /\ active' = [u \in stay |-> active[u]]
       /\ clean' = (clean /\ (Commands(req[r].user) => \E u \in stay : Commands(u)))
    /\ writes' = writes + 1
    /\ Done(r)
    /\ UNCHANGED siteVars

\* The user is an author of news, or is gone already.
LeaveFails(r) ==
    /\ req[r].op = "leave"
    /\ Done(r)
    /\ UNCHANGED <<siteVars, level, active, writes, clean>>

Next ==
    \/ SeedDefaults \/ MigrateAdminRoleTiers \/ Restart
    \/ \E u \in Users : Register(u)
    \/ \E r \in Requests, u \in Users : SetupRead(r, u)
    \/ \E r \in Requests, op \in Single \cup Bulk, caller \in DOMAIN level,
          targets \in SUBSET Users : SignIn(r, op, caller, targets)
    \/ \E r \in Requests : \/ SetupWrite(r) \/ SetupFails(r)
                           \/ ReadTargets(r) \/ WriteTargets(r) \/ WriteFails(r)
    \/ \E r \in Requests, u \in DOMAIN level : LeaveRead(r, u)
    \/ \E r \in Requests : Leave(r) \/ LeaveFails(r)

Spec == Init /\ [][Next]_vars

-----------------------------------------------------------------------------
\* Properties.

\* A setup or a leave, and an admin's request before and after it has read its targets.
Setup == [op: {"setup", "leave"}, user: Users]
Signed == [op: Single \cup Bulk, stage: {"signed"}, caller: Users, mine: Levels,
           targets: SUBSET Users, to: Levels]
Rows(V) == UNION {[T -> V] : T \in SUBSET Users}
Read == [op: Single \cup Bulk, stage: {"read"}, caller: Users, mine: Levels,
         targets: SUBSET Users, to: Levels,
         roles: Rows(Levels), actives: Rows(BOOLEAN)]

TypeOK ==
    /\ phase \in {"seed", "migrate", "up"}
    /\ migrated \in BOOLEAN /\ setupDone \in BOOLEAN /\ welcome \in BOOLEAN
    /\ DOMAIN level \subseteq Users
    /\ level \in [DOMAIN level -> Levels]
    /\ active \in [DOMAIN level -> BOOLEAN]
    /\ founders \subseteq Users
    /\ writes \in Nat /\ clean \in BOOLEAN
    /\ req \in [Requests -> {Free} \cup Setup \cup Signed \cup Read]
    /\ \A r \in Requests : req[r] \in Read =>
          DOMAIN req[r].roles = req[r].targets /\ DOMAIN req[r].actives = req[r].targets

\* "Cannot change own role", "Cannot deactivate yourself" and the order of the
\* roles together: a site that was set up loses its last superadmin who can sign in
\* only when that one deletes the own account, which no role forbids, or when a
\* request is carried out whose caller or targets have another role by then (two
\* superadmins who demote each other at the same time leave none).  Requests may
\* overlap otherwise, and superadmins leave as long as there is another.
SuperadminRemains ==
    phase = "up" /\ setupDone /\ clean => \E u \in DOMAIN level : Commands(u)

\* "Setup already completed": of two setups at once one founds the site, since
\* both publish the same post.
OneFounder == Cardinality(founders) <= 1

\* "a second run must be a no-op, and must NOT touch a legitimately-created
\* future admin-tier account": no start of the site undoes what a superadmin set.
ChosenRolesSurvive ==
    [][MigrateAdminRoleTiers /\ founders # {} => level' = level]_vars
=============================================================================
