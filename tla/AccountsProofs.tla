--------------------------- MODULE AccountsProofs ---------------------------
(***************************************************************************)
(* What the parts of Accounts keep, each from an inductive invariant of    *)
(* its own; a step of another part leaves it alone.                        *)
(***************************************************************************)
EXTENDS Accounts, SessionsProofs, SequenceTheorems

\* A step of the site is a step of each part or leaves it alone.
LEMMA StepOfRoles == ASSUME [AccountsNext]_all PROVE [Roles!Next]_roles
  BY DEF AccountsNext, all, SessionsStep, RolesStep, PlaytimeStep, GameLinkStep,
         CommunityStep, MessagesStep, UploadsStep, MaintenanceStep, PresenceStep,
         BackupsStep, LoginsStep

-----------------------------------------------------------------------------
(***************************************************************************)
(* Roles: of two setups one founds the site.                               *)
(***************************************************************************)
\* Who founds the site has published the welcome post.
FounderInv ==
    /\ ~welcome => founders = {}
    /\ OneFounder

LEMMA CountedFounders == ASSUME NEW S PROVE Roles!Cardinality(S) = Cardinality(S)
  BY DEF Roles!Cardinality, Cardinality

LEMMA FounderStep ==
    ASSUME FounderInv, [Roles!Next]_roles
    PROVE  FounderInv'
<1>1. CASE UNCHANGED <<welcome, founders>>
  BY <1>1 DEF FounderInv, OneFounder, Roles!OneFounder
<1>2. ASSUME NEW r \in Requests, Roles!SetupWrite(r)
      PROVE  FounderInv'
  <2>1. founders' = {roleReq[r].user} /\ welcome'
    BY <1>2 DEF Roles!SetupWrite, Roles!WelcomeFits, FounderInv
  <2>2. Cardinality(founders') = 1
    BY <2>1, FS_Singleton
  <2>3. Roles!Cardinality(founders') = 1
    BY <2>2, CountedFounders
  <2> QED BY <2>1, <2>3 DEF FounderInv, OneFounder, Roles!OneFounder
<1>3. \/ UNCHANGED <<welcome, founders>>
      \/ \E r \in Requests : Roles!SetupWrite(r)
  BY DEF Roles!Next, roles, Roles!siteVars, Roles!SeedDefaults,
         Roles!MigrateAdminRoleTiers, Roles!Restart, Roles!Register, Roles!SetupRead,
         Roles!SetupFails, Roles!SignIn, Roles!ReadTargets, Roles!WriteTargets,
         Roles!WriteFails, Roles!LeaveRead, Roles!Leave, Roles!LeaveFails
<1> QED BY <1>1, <1>2, <1>3

\* POST /api/setup/complete twice at once: one of the two founds the site, since both
\* publish the post with the same slug.
THEOREM SiteFoundedOnce == AccountsSpec => []OneFounder
<1>1. AccountsInit => FounderInv
  <2>1. Roles!Cardinality({}) = 0
    BY FS_EmptySet, CountedFounders
  <2>2. AccountsInit => founders = {}
    BY DEF AccountsInit, Roles!Init
  <2> QED BY <2>1, <2>2 DEF FounderInv, OneFounder, Roles!OneFounder
<1>2. FounderInv /\ [AccountsNext]_all => FounderInv'
  BY StepOfRoles, FounderStep
<1>3. FounderInv => OneFounder
  BY DEF FounderInv
<1> QED BY <1>1, <1>2, <1>3, PTL DEF AccountsSpec

-----------------------------------------------------------------------------
(***************************************************************************)
(* Roles: the start that follows the setup changes nobody's role.          *)
(***************************************************************************)
\* Only a site that is up has requests, and it was migrated before.
ServedAfterMigration ==
    /\ phase = "up" => migrated
    /\ founders # {} => migrated
    /\ roleReq = [r \in Requests |-> roleReq[r]]
    /\ \A r \in Requests : roleReq[r] # Roles!Free => phase = "up"

LEMMA ServedAfterMigrationStep ==
    ASSUME ServedAfterMigration, [Roles!Next]_roles
    PROVE  ServedAfterMigration'
<1> USE DEF ServedAfterMigration
<1>1. CASE Roles!SeedDefaults
  BY <1>1 DEF Roles!SeedDefaults
<1>2. CASE Roles!MigrateAdminRoleTiers
  BY <1>2 DEF Roles!MigrateAdminRoleTiers
<1>3. CASE Roles!Restart
  BY <1>3 DEF Roles!Restart
<1>4. ASSUME NEW u \in Users, Roles!Register(u)
      PROVE  ServedAfterMigration'
  BY <1>4 DEF Roles!Register, Roles!siteVars
<1>5. ASSUME NEW r \in Requests, NEW u \in Users, Roles!SetupRead(r, u)
      PROVE  ServedAfterMigration'
  BY <1>5 DEF Roles!SetupRead, Roles!Begin, Roles!siteVars
<1>6. ASSUME NEW r \in Requests, NEW op \in Roles!Single \cup Roles!Bulk,
             NEW caller \in DOMAIN level, NEW targets \in SUBSET Users,
             Roles!SignIn(r, op, caller, targets)
      PROVE  ServedAfterMigration'
  BY <1>6 DEF Roles!SignIn, Roles!Begin, Roles!siteVars
<1>7. ASSUME NEW r \in Requests, Roles!SetupWrite(r)
      PROVE  ServedAfterMigration'
  <2>1. roleReq[r] # Roles!Free
    BY <1>7 DEF Roles!SetupWrite, Roles!Free
  <2> QED BY <1>7, <2>1 DEF Roles!SetupWrite, Roles!Done
<1>8. ASSUME NEW r \in Requests, Roles!SetupFails(r) \/ Roles!WriteTargets(r) \/ Roles!WriteFails(r)
      PROVE  ServedAfterMigration'
  BY <1>8 DEF Roles!SetupFails, Roles!WriteTargets, Roles!WriteFails, Roles!Done, Roles!siteVars
<1>9. ASSUME NEW r \in Requests, Roles!ReadTargets(r)
      PROVE  ServedAfterMigration'
  <2>1. roleReq[r] # Roles!Free
    BY <1>9 DEF Roles!ReadTargets, Roles!Free, Roles!Single, Roles!Bulk
  <2>2. PICK to : roleReq' = [roleReq EXCEPT ![r] = to]
    BY <1>9 DEF Roles!ReadTargets
  <2> QED BY <1>9, <2>1, <2>2 DEF Roles!ReadTargets, Roles!siteVars
<1>10. CASE UNCHANGED roles
  BY <1>10 DEF roles
<1>11. ASSUME NEW r \in Requests, NEW u \in DOMAIN level, Roles!LeaveRead(r, u)
       PROVE  ServedAfterMigration'
  BY <1>11 DEF Roles!LeaveRead, Roles!Begin, Roles!siteVars
<1>12. ASSUME NEW r \in Requests, Roles!Leave(r) \/ Roles!LeaveFails(r)
       PROVE  ServedAfterMigration'
  BY <1>12 DEF Roles!Leave, Roles!LeaveFails, Roles!Done, Roles!siteVars
<1> QED BY <1>1, <1>2, <1>3, <1>4, <1>5, <1>6, <1>7, <1>8, <1>9, <1>10, <1>11, <1>12
        DEF Roles!Next

\* _migrate_admin_role_tiers in lifespan: once somebody was set up, no start of the
\* site changes a role.
THEOREM RolesSurvive == AccountsSpec => ChosenRolesSurvive
<1>1. AccountsInit => ServedAfterMigration
  BY DEF AccountsInit, Roles!Init, ServedAfterMigration
<1>2. ServedAfterMigration /\ [AccountsNext]_all => ServedAfterMigration'
  BY StepOfRoles, ServedAfterMigrationStep
<1>3. ServedAfterMigration =>
        [Roles!MigrateAdminRoleTiers /\ founders # {} => level' = level]_Roles!vars
  BY DEF ServedAfterMigration, Roles!MigrateAdminRoleTiers, Roles!Promoted
<1> QED BY <1>1, <1>2, <1>3, PTL
        DEF AccountsSpec, ChosenRolesSurvive, Roles!ChosenRolesSurvive

-----------------------------------------------------------------------------
(***************************************************************************)
(* Roles: a superadmin remains.                                            *)
(***************************************************************************)
Governed == \E u \in DOMAIN level : level[u] = Roles!Superadmin /\ active[u]

RoleTypes ==
    /\ phase \in {"seed", "migrate", "up"}
    /\ level \in [DOMAIN level -> Roles!Levels]
    /\ active = [u \in DOMAIN level |-> active[u]]

\* Before the tiers nobody is banned, and an account that may do anything is an
\* admin.
BeforeTiers ==
    /\ \A u \in DOMAIN level : level[u] \in {Roles!User, Roles!Admin} /\ active[u]
    /\ setupDone => Roles!HasAdmin
    /\ phase = "migrate" /\ Roles!HasAdmin => setupDone

\* What an admin's request has read: its caller may do it, and may do it to the
\* targets as they were.
AsRead(q) ==
    /\ q.to \in Roles!Levels /\ q.mine \in Roles!Levels
    /\ q.mine >= Roles!Needs(q.op)
    /\ q.stage = "read" =>
          \A u \in q.targets : u # q.caller /\ (q.op = "role" \/ q.roles[u] < q.mine)

IsAdmins(q) == q.op \in Roles!Single \cup Roles!Bulk

SuperInv ==
    /\ RoleTypes
    /\ ServedAfterMigration
    /\ ~migrated => BeforeTiers
    /\ migrated /\ clean /\ (setupDone \/ Roles!HasAdmin) => Governed
    /\ \A r \in Requests : IsAdmins(roleReq[r]) => AsRead(roleReq[r])

\* Requests stay as they are, or are gone, and no account changes.
LEMMA SameAccounts ==
    ASSUME SuperInv, UNCHANGED <<level, active, writes, clean>>, RoleTypes',
           ServedAfterMigration',
           ~migrated' => BeforeTiers',
           migrated' /\ (setupDone' \/ Roles!HasAdmin) => migrated /\ (setupDone \/ Roles!HasAdmin),
           \A r \in Requests : \/ roleReq'[r] = roleReq[r]
                               \/ ~IsAdmins(roleReq'[r])
                               \/ AsRead(roleReq'[r])
    PROVE  SuperInv'
<1>1. Roles!HasAdmin' = Roles!HasAdmin /\ Governed' = Governed
  BY DEF Roles!HasAdmin, Governed
<1>2. \A r \in Requests : IsAdmins(roleReq'[r]) => AsRead(roleReq[r])' 
  BY DEF SuperInv, AsRead, IsAdmins
<1>3. migrated' /\ clean' /\ (setupDone' \/ Roles!HasAdmin') => Governed'
  BY <1>1 DEF SuperInv
<1> QED BY <1>2, <1>3 DEF SuperInv, IsAdmins

\* An account was added, and the requests but r are as before.
LEMMA OneMoreAccount ==
    ASSUME SuperInv, NEW u, NEW l \in Roles!Levels, Roles!Added(u, l), phase = "up",
           phase' = phase, migrated' = migrated, clean' = clean,
           ServedAfterMigration',
           l = Roles!Superadmin \/ (l = Roles!User /\ setupDone' = setupDone),
           \A r \in Requests : roleReq'[r] = roleReq[r] \/ ~IsAdmins(roleReq'[r])
    PROVE  SuperInv'
<1> USE DEF SuperInv
<1>1. /\ u \notin DOMAIN level
      /\ DOMAIN level' = DOMAIN level \cup {u} /\ DOMAIN active' = DOMAIN level \cup {u}
      /\ level'[u] = l /\ active'[u]
      /\ \A w \in DOMAIN level : level'[w] = level[w] /\ active'[w] = active[w]
  BY DEF Roles!Added, Roles!With, Roles!Exists, RoleTypes
<1>2. RoleTypes'
  <2>1. level' \in [DOMAIN level' -> Roles!Levels]
    BY DEF Roles!Added, Roles!With, Roles!Exists, RoleTypes
  <2>2. active' = [w \in DOMAIN level' |-> active'[w]]
    BY DEF Roles!Added, Roles!With, Roles!Exists, RoleTypes
  <2> QED BY <2>1, <2>2, <1>1 DEF RoleTypes
<1>3. migrated' /\ clean' /\ (setupDone' \/ Roles!HasAdmin') => Governed'
  <2>1. CASE l = Roles!Superadmin
    BY <1>1, <2>1 DEF Governed
  <2>2. CASE l = Roles!User /\ setupDone' = setupDone
    <3>1. Governed => Governed'
      BY <1>1 DEF Governed
    <3>2. Roles!HasAdmin' => Roles!HasAdmin
      BY <1>1, <2>2 DEF Roles!HasAdmin, Roles!User, Roles!Admin
    <3> QED BY <2>2, <3>1, <3>2
  <2> QED BY <2>1, <2>2
<1>4. \A r \in Requests : IsAdmins(roleReq'[r]) => AsRead(roleReq[r])'
  <2>1. \A r \in Requests : IsAdmins(roleReq'[r]) => roleReq'[r] = roleReq[r] /\ AsRead(roleReq[r])
    BY DEF IsAdmins
  <2> QED BY <2>1 DEF AsRead
<1> QED BY <1>2, <1>3, <1>4 DEF ServedAfterMigration, IsAdmins

LEMMA NotAdmins ==
    /\ ~IsAdmins(Roles!Free)
    /\ \A u : ~IsAdmins([op |-> "setup", user |-> u]) /\ ~IsAdmins([op |-> "leave", user |-> u])
  BY DEF IsAdmins, Roles!Free, Roles!Single, Roles!Bulk

LEMMA SuperMigrates ==
    ASSUME SuperInv, Roles!MigrateAdminRoleTiers, ServedAfterMigration'
    PROVE  SuperInv'
<1> USE DEF Roles!MigrateAdminRoleTiers
<1>1. CASE migrated
  <2>1. UNCHANGED <<level, active, writes, clean, roleReq, setupDone>>
    BY <1>1 DEF Roles!Promoted
  <2>2. RoleTypes' /\ migrated'
    BY <2>1 DEF SuperInv, RoleTypes
  <2> QED BY <1>1, <2>1, <2>2, SameAccounts
<1>2. CASE ~migrated
  <2>1. /\ BeforeTiers /\ RoleTypes
        /\ DOMAIN level' = DOMAIN level
        /\ \A u \in DOMAIN level :
              level'[u] = IF level[u] = Roles!Admin THEN Roles!Superadmin ELSE level[u]
        /\ UNCHANGED <<active, writes, clean, roleReq, setupDone>>
    BY <1>2 DEF Roles!Promoted, SuperInv
  <2>2. RoleTypes'
    <3>1. level' \in [DOMAIN level' -> Roles!Levels]
      BY <1>2 DEF Roles!Promoted, SuperInv, RoleTypes, Roles!Levels, Roles!Superadmin, Roles!User
    <3> QED BY <2>1, <3>1 DEF RoleTypes
  <2>3. Roles!HasAdmin => Governed'
    BY <2>1 DEF Roles!HasAdmin, Governed, BeforeTiers, Roles!User, Roles!Admin
  <2>4. Roles!HasAdmin' => Roles!HasAdmin
    BY <2>1 DEF Roles!HasAdmin, BeforeTiers, Roles!User, Roles!Admin
  <2>5. setupDone => Roles!HasAdmin
    BY <2>1 DEF BeforeTiers
  <2>6. \A r \in Requests : ~IsAdmins(roleReq'[r])
    BY <2>1, NotAdmins DEF SuperInv, ServedAfterMigration
  <2> QED BY <2>1, <2>2, <2>3, <2>4, <2>5, <2>6 DEF SuperInv
<1> QED BY <1>1, <1>2

LEMMA SuperSignIn ==
    ASSUME SuperInv, ServedAfterMigration',
           NEW r \in Requests, NEW op \in Roles!Single \cup Roles!Bulk,
           NEW caller \in DOMAIN level, NEW targets \in SUBSET Users,
           Roles!SignIn(r, op, caller, targets)
    PROVE  SuperInv'
<1>1. PICK to \in Roles!Levels : roleReq' = [roleReq EXCEPT ![r] =
          [op |-> op, stage |-> "signed", caller |-> caller, mine |-> level[caller],
           targets |-> targets, to |-> to]]
  <2>1. PICK to \in IF op \in {"role", "bulk_role"} THEN Roles!Levels ELSE {Roles!User} :
            Roles!Begin(r, [op |-> op, stage |-> "signed", caller |-> caller,
                            mine |-> level[caller], targets |-> targets, to |-> to])
    BY DEF Roles!SignIn
  <2>2. to \in Roles!Levels
    BY DEF Roles!Levels, Roles!User, Roles!Superadmin
  <2> QED BY <2>1, <2>2 DEF Roles!Begin
<1>2. /\ active[caller] /\ level[caller] >= Roles!Needs(op)
      /\ UNCHANGED <<level, active, writes, clean, phase, migrated, setupDone>>
  BY DEF Roles!SignIn, Roles!siteVars
<1>3. RoleTypes' /\ level[caller] \in Roles!Levels
  BY <1>2 DEF SuperInv, RoleTypes
<1>4. \A x \in Requests : roleReq'[x] = roleReq[x] \/ AsRead(roleReq'[x])
  BY <1>1, <1>2, <1>3 DEF SuperInv, ServedAfterMigration, AsRead
<1>5. ~migrated' => BeforeTiers'
  BY <1>2 DEF SuperInv, BeforeTiers, Roles!HasAdmin
<1> QED BY <1>2, <1>3, <1>4, <1>5, SameAccounts

LEMMA SuperReads ==
    ASSUME SuperInv, ServedAfterMigration', NEW r \in Requests, Roles!ReadTargets(r)
    PROVE  SuperInv'
<1> DEFINE q == roleReq[r]
           rows == {u \in q.targets \cap DOMAIN level : Roles!MayAct(q, u)}
           now1 == [op |-> q.op, stage |-> "read", caller |-> q.caller,
                    mine |-> q.mine, targets |-> rows, to |-> q.to,
                    roles |-> [u \in rows |-> level[u]],
                    actives |-> [u \in rows |-> active[u]]]
<1>1. /\ roleReq' = [roleReq EXCEPT ![r] = IF rows = {} THEN Roles!Free ELSE now1]
      /\ IsAdmins(q)
      /\ UNCHANGED <<level, active, writes, clean, phase, migrated, setupDone>>
  BY DEF Roles!ReadTargets, Roles!siteVars, IsAdmins
<1>2. AsRead(q)
  BY <1>1 DEF SuperInv
<1>3. \A u \in rows : u # now1.caller /\ (now1.op = "role" \/ now1.roles[u] < now1.mine)
  BY DEF Roles!MayAct
<1>4. AsRead(now1)
  BY <1>2, <1>3 DEF AsRead
<1> HIDE DEF rows, now1
<1>5. \A x \in Requests : roleReq'[x] = roleReq[x] \/ ~IsAdmins(roleReq'[x]) \/ AsRead(roleReq'[x])
  BY <1>1, <1>4, NotAdmins DEF SuperInv, ServedAfterMigration
<1>6. ~migrated' => BeforeTiers'
  BY <1>1 DEF SuperInv, BeforeTiers, Roles!HasAdmin
<1>7. RoleTypes'
  BY <1>1 DEF SuperInv, RoleTypes
<1> QED BY <1>1, <1>5, <1>6, <1>7, SameAccounts

\* Nobody but a superadmin acts on a superadmin, and never on oneself, while the roles
\* are those that were read.
LEMMA SuperWrites ==
    ASSUME SuperInv, ServedAfterMigration', NEW r \in Requests, Roles!WriteTargets(r)
    PROVE  SuperInv'
<1> DEFINE q == roleReq[r]
           gone == IF Roles!Deletes(q) THEN q.targets ELSE {}
           stay == DOMAIN level \ gone
<1>1. /\ IsAdmins(q) /\ q.stage = "read"
      /\ Roles!Deletes(q) \/ q.targets \subseteq DOMAIN level
      /\ level' = [u \in stay |-> IF u \in q.targets THEN Roles!NewLevel(q, u) ELSE level[u]]
      /\ active' = [u \in stay |-> IF u \in q.targets THEN Roles!NewActive(q, u) ELSE active[u]]
      /\ clean' = (clean /\ Roles!InForce(q))
      /\ roleReq' = [roleReq EXCEPT ![r] = Roles!Free]
      /\ UNCHANGED <<phase, migrated, setupDone>>
  BY DEF Roles!WriteTargets, IsAdmins, Roles!siteVars, Roles!Done
<1>2. AsRead(q) /\ phase = "up" /\ migrated /\ migrated' /\ RoleTypes
  BY <1>1, NotAdmins DEF SuperInv, ServedAfterMigration, RoleTypes
<1> HIDE DEF q
<1>3. RoleTypes'
  <2>1. \A u \in stay : Roles!NewLevel(q, u) \in Roles!Levels /\ level[u] \in Roles!Levels
    BY <1>2 DEF RoleTypes, AsRead, Roles!NewLevel
  <2>2. DOMAIN level' = stay
    BY <1>1
  <2> HIDE DEF stay
  <2>3. level' \in [stay -> Roles!Levels]
    BY <1>1, <2>1
  <2>4. active' = [u \in stay |-> active'[u]]
    BY <1>1
  <2> QED BY <1>1, <1>2, <2>2, <2>3, <2>4 DEF RoleTypes
<1>4. \A x \in Requests : IsAdmins(roleReq'[x]) => AsRead(roleReq[x])'
  <2>1. \A x \in Requests : IsAdmins(roleReq'[x]) => roleReq'[x] = roleReq[x] /\ AsRead(roleReq[x])
    BY <1>1, NotAdmins DEF SuperInv, ServedAfterMigration
  <2> QED BY <2>1 DEF AsRead
<1>5. ASSUME clean', setupDone' \/ Roles!HasAdmin'
      PROVE  Governed'
  <2>1. /\ clean
        /\ q.caller \in DOMAIN level /\ active[q.caller]
        /\ q.mine = level[q.caller] /\ q.mine >= Roles!Needs(q.op)
        /\ \A u \in q.targets : u # q.caller
        /\ \A u \in q.targets \cap DOMAIN level : q.op # "role" => level[u] < q.mine
    BY <1>1, <1>2, <1>5 DEF AsRead, Roles!InForce
  <2>2. q.mine \in Roles!Levels
    BY <1>2 DEF AsRead
  <2>3. CASE q.op \in {"role"}
    <3>1. q.caller \notin q.targets /\ q.mine = Roles!Superadmin /\ ~Roles!Deletes(q)
      BY <2>1, <2>2, <2>3 DEF Roles!Needs, Roles!Single, Roles!Levels,
         Roles!Superadmin, Roles!User, Roles!Deletes
    <3> QED BY <1>1, <2>1, <3>1 DEF Governed
  <2>4. CASE q.op # "role" /\ Governed
    <3>1. PICK s \in DOMAIN level : level[s] = Roles!Superadmin /\ active[s]
      BY <2>4 DEF Governed
    <3>2. s \notin q.targets
      BY <2>1, <2>2, <2>4, <3>1 DEF Roles!Levels, Roles!Superadmin, Roles!User
    <3> QED BY <1>1, <3>1, <3>2 DEF Governed
  <2>5. CASE q.op # "role" /\ ~Governed
    <3>1. ~setupDone /\ ~Roles!HasAdmin
      BY <1>2, <2>1, <2>5 DEF SuperInv
    <3>2. q.op = "toggle"
      <4>1. q.op # "toggle" => Roles!Needs(q.op) \in {Roles!Admin, Roles!Superadmin}
        BY DEF Roles!Needs
      <4>2. ~(level[q.caller] >= Roles!Admin)
        BY <2>1, <3>1 DEF Roles!HasAdmin
      <4> QED BY <2>1, <2>2, <4>1, <4>2 DEF Roles!Superadmin, Roles!Admin, Roles!User, Roles!Levels
    <3>3. level' = level
      BY <1>1, <1>2, <3>2 DEF RoleTypes, Roles!NewLevel, Roles!Deletes
    <3> QED BY <1>1, <1>5, <3>1, <3>3 DEF Roles!HasAdmin
  <2> QED BY <2>3, <2>4, <2>5
<1> QED BY <1>2, <1>3, <1>4, <1>5 DEF SuperInv, ServedAfterMigration, IsAdmins

\* The superadmin who is left when another one leaves.
LEMMA SuperLeaves ==
    ASSUME SuperInv, ServedAfterMigration', NEW r \in Requests, Roles!Leave(r)
    PROVE  SuperInv'
<1> DEFINE stay == DOMAIN level \ {roleReq[r].user}
<1>1. /\ level' = [u \in stay |-> level[u]]
      /\ active' = [u \in stay |-> active[u]]
      /\ clean' = (clean /\ (Roles!Commands(roleReq[r].user) =>
                                \E u \in stay : Roles!Commands(u)))
      /\ roleReq' = [roleReq EXCEPT ![r] = Roles!Free]
      /\ UNCHANGED <<phase, migrated, setupDone>>
  BY DEF Roles!Leave, Roles!siteVars, Roles!Done
<1>2. phase = "up" /\ migrated /\ RoleTypes
  <2>1. roleReq[r] # Roles!Free
    BY DEF Roles!Leave, Roles!Free
  <2> QED BY <2>1 DEF SuperInv, ServedAfterMigration
<1> HIDE DEF stay
<1>3. RoleTypes'
  <2>1. stay \subseteq DOMAIN level
    BY DEF stay
  <2>2. DOMAIN level' = stay /\ level' \in [stay -> Roles!Levels]
    BY <1>1, <1>2, <2>1 DEF RoleTypes
  <2> QED BY <1>1, <1>2, <2>2 DEF RoleTypes
<1>4. \A x \in Requests : IsAdmins(roleReq'[x]) => AsRead(roleReq[x])'
  <2>1. \A x \in Requests : IsAdmins(roleReq'[x]) => roleReq'[x] = roleReq[x] /\ AsRead(roleReq[x])
    BY <1>1, NotAdmins DEF SuperInv, ServedAfterMigration
  <2> QED BY <2>1 DEF AsRead
<1>5. ASSUME clean', setupDone' \/ Roles!HasAdmin'
      PROVE  Governed'
  <2>1. setupDone \/ Roles!HasAdmin
    BY <1>1, <1>5 DEF Roles!HasAdmin, stay
  <2>2. PICK s \in DOMAIN level : Roles!Commands(s)
    BY <1>1, <1>2, <1>5, <2>1 DEF SuperInv, Governed, Roles!Commands
  <2>3. \E u \in stay : Roles!Commands(u)
    BY <1>1, <1>5, <2>2 DEF stay
  <2> QED BY <1>1, <2>3 DEF Governed, Roles!Commands
<1> QED BY <1>1, <1>2, <1>3, <1>4, <1>5 DEF SuperInv, ServedAfterMigration, IsAdmins

LEMMA SuperStep ==
    ASSUME SuperInv, [Roles!Next]_roles
    PROVE  SuperInv'
<1>0. ServedAfterMigration'
  BY ServedAfterMigrationStep DEF SuperInv
<1>1. CASE Roles!SeedDefaults
  <2>1. RoleTypes'
    BY <1>1 DEF Roles!SeedDefaults, SuperInv, RoleTypes
  <2>2. ~migrated' => BeforeTiers'
    BY <1>1 DEF Roles!SeedDefaults, SuperInv, BeforeTiers, Roles!HasAdmin
  <2>3. Roles!HasAdmin' = Roles!HasAdmin
    BY <1>1 DEF Roles!SeedDefaults, Roles!HasAdmin
  <2>4. /\ UNCHANGED <<level, active, writes, clean, roleReq, migrated>>
        /\ setupDone' = (setupDone \/ Roles!HasAdmin)
    BY <1>1 DEF Roles!SeedDefaults
  <2> QED BY <1>0, <2>1, <2>2, <2>3, <2>4, SameAccounts
<1>2. CASE Roles!MigrateAdminRoleTiers
  BY <1>0, <1>2, SuperMigrates
<1>3. CASE Roles!Restart
  <2>1. RoleTypes'
    BY <1>3 DEF Roles!Restart, SuperInv, RoleTypes
  <2>2. ~migrated' => BeforeTiers'
    BY <1>3 DEF Roles!Restart, SuperInv, BeforeTiers, Roles!HasAdmin
  <2> QED BY <1>0, <1>3, <2>1, <2>2, NotAdmins, SameAccounts DEF Roles!Restart
<1>4. ASSUME NEW u \in Users, Roles!Register(u)
      PROVE  SuperInv'
  <2>1. Roles!User \in Roles!Levels
    BY DEF Roles!User, Roles!Superadmin, Roles!Levels
  <2> QED BY <1>0, <1>4, <2>1, OneMoreAccount DEF Roles!Register, Roles!siteVars
<1>5. ASSUME NEW r \in Requests, NEW u \in Users, Roles!SetupRead(r, u)
      PROVE  SuperInv'
  <2>0. UNCHANGED <<level, active, writes, clean, phase, migrated, setupDone>>
    BY <1>5 DEF Roles!SetupRead, Roles!siteVars
  <2>1. RoleTypes'
    BY <2>0 DEF SuperInv, RoleTypes
  <2>2. ~migrated' => BeforeTiers'
    BY <2>0 DEF SuperInv, BeforeTiers, Roles!HasAdmin
  <2>3. \A x \in Requests : roleReq'[x] = roleReq[x] \/ ~IsAdmins(roleReq'[x])
    BY <1>5, NotAdmins DEF Roles!SetupRead, Roles!Begin, SuperInv, ServedAfterMigration
  <2> QED BY <1>0, <2>0, <2>1, <2>2, <2>3, SameAccounts
<1>6. ASSUME NEW r \in Requests, NEW op \in Roles!Single \cup Roles!Bulk,
             NEW caller \in DOMAIN level, NEW targets \in SUBSET Users,
             Roles!SignIn(r, op, caller, targets)
      PROVE  SuperInv'
  BY <1>0, <1>6, SuperSignIn
<1>7. ASSUME NEW r \in Requests, Roles!SetupWrite(r)
      PROVE  SuperInv'
  <2>1. roleReq[r] # Roles!Free
    BY <1>7 DEF Roles!SetupWrite, Roles!Free
  <2>2. phase = "up"
    BY <2>1 DEF SuperInv, ServedAfterMigration
  <2>3. \A x \in Requests : roleReq'[x] = roleReq[x] \/ ~IsAdmins(roleReq'[x])
    BY <1>7, NotAdmins DEF Roles!SetupWrite, Roles!Done, SuperInv, ServedAfterMigration
  <2>4. Roles!Superadmin \in Roles!Levels
    BY DEF Roles!User, Roles!Superadmin, Roles!Levels
  <2>5. /\ Roles!Added(roleReq[r].user, Roles!Superadmin)
        /\ phase' = phase /\ migrated' = migrated /\ clean' = clean
    BY <1>7 DEF Roles!SetupWrite
  <2> QED BY <1>0, <2>2, <2>3, <2>4, <2>5, OneMoreAccount
<1>8. ASSUME NEW r \in Requests,
             Roles!SetupFails(r) \/ Roles!WriteFails(r) \/ Roles!LeaveFails(r)
      PROVE  SuperInv'
  <2>0. UNCHANGED <<level, active, writes, clean, phase, migrated, setupDone>>
    BY <1>8 DEF Roles!SetupFails, Roles!WriteFails, Roles!LeaveFails, Roles!siteVars
  <2>1. RoleTypes'
    BY <2>0 DEF SuperInv, RoleTypes
  <2>2. ~migrated' => BeforeTiers'
    BY <2>0 DEF SuperInv, BeforeTiers, Roles!HasAdmin
  <2>3. \A x \in Requests : roleReq'[x] = roleReq[x] \/ ~IsAdmins(roleReq'[x])
    BY <1>8, NotAdmins DEF Roles!SetupFails, Roles!WriteFails, Roles!LeaveFails, Roles!Done,
       SuperInv, ServedAfterMigration
  <2> QED BY <1>0, <2>0, <2>1, <2>2, <2>3, SameAccounts
<1>9. ASSUME NEW r \in Requests, Roles!ReadTargets(r)
      PROVE  SuperInv'
  BY <1>0, <1>9, SuperReads
<1>10. ASSUME NEW r \in Requests, Roles!WriteTargets(r)
       PROVE  SuperInv'
  BY <1>0, <1>10, SuperWrites
<1>11. CASE UNCHANGED roles
  BY <1>11 DEF roles, SuperInv, RoleTypes, ServedAfterMigration, BeforeTiers, Roles!HasAdmin,
     Governed, AsRead, IsAdmins
<1>12. ASSUME NEW r \in Requests, NEW u \in DOMAIN level, Roles!LeaveRead(r, u)
       PROVE  SuperInv'
  <2>0. UNCHANGED <<level, active, writes, clean, phase, migrated, setupDone>>
    BY <1>12 DEF Roles!LeaveRead, Roles!siteVars
  <2>1. RoleTypes'
    BY <2>0 DEF SuperInv, RoleTypes
  <2>2. ~migrated' => BeforeTiers'
    BY <2>0 DEF SuperInv, BeforeTiers, Roles!HasAdmin
  <2>3. \A x \in Requests : roleReq'[x] = roleReq[x] \/ ~IsAdmins(roleReq'[x])
    BY <1>12, NotAdmins DEF Roles!LeaveRead, Roles!Begin, SuperInv, ServedAfterMigration
  <2> QED BY <1>0, <2>0, <2>1, <2>2, <2>3, SameAccounts
<1>13. ASSUME NEW r \in Requests, Roles!Leave(r)
       PROVE  SuperInv'
  BY <1>0, <1>13, SuperLeaves
<1> QED BY <1>1, <1>2, <1>3, <1>4, <1>5, <1>6, <1>7, <1>8, <1>9, <1>10, <1>11, <1>12, <1>13
        DEF Roles!Next

\* The admins' routes of users.py and the user's own of profile.py together: as long as
\* requests find the roles they decided by, they leave a site that was set up a
\* superadmin who can sign in, until the last of them leaves.
THEOREM SuperadminStays == AccountsSpec => []SuperadminRemains
<1>1. AccountsInit => SuperInv
  <2> SUFFICES ASSUME AccountsInit
               PROVE  SuperInv
    OBVIOUS
  <2>1. /\ phase = "seed" /\ ~migrated /\ ~setupDone
        /\ active = [u \in DOMAIN level |-> TRUE]
        /\ level \in [DOMAIN level -> {Roles!User, Roles!Admin}]
        /\ roleReq = [r \in Requests |-> Roles!Free]
        /\ founders = {}
    BY DEF AccountsInit, Roles!Init
  <2>2. RoleTypes
    BY <2>1 DEF RoleTypes, Roles!Levels, Roles!User, Roles!Admin, Roles!Superadmin
  <2>3. BeforeTiers
    BY <2>1 DEF BeforeTiers
  <2>4. \A r \in Requests : ~IsAdmins(roleReq[r])
    BY <2>1, NotAdmins
  <2> QED BY <2>1, <2>2, <2>3, <2>4 DEF SuperInv, ServedAfterMigration
<1>2. SuperInv /\ [AccountsNext]_all => SuperInv'
  BY StepOfRoles, SuperStep
<1>3. SuperInv => SuperadminRemains
  BY DEF SuperInv, ServedAfterMigration, SuperadminRemains, Roles!SuperadminRemains, Governed,
         Roles!Commands
<1> QED BY <1>1, <1>2, <1>3, PTL DEF AccountsSpec

-----------------------------------------------------------------------------
(***************************************************************************)
(* Logins: a login from a new address is mailed about.                     *)
(***************************************************************************)
LEMMA StepOfLogins == ASSUME [AccountsNext]_all PROVE [Logins!Next]_logins
  BY DEF AccountsNext, all, SessionsStep, RolesStep, PlaytimeStep, GameLinkStep,
         CommunityStep, MessagesStep, UploadsStep, MaintenanceStep, PresenceStep,
         BackupsStep, LoginsStep

Logged == [from : Addresses, next : {"prior", "first", "record"}]

At(r, step) == login[r] # Unset /\ login[r].next = step

\* A login that does not ask any more has its address in the history, was mailed about
\* or failed to ask, unless it found the history empty; then it still is.
LoginInv ==
    /\ login \in [Requests -> Logged \cup {Unset}]
    /\ \A r \in Requests : At(r, "record") => login[r].from \in history \cup mailedTo \cup failed
    /\ alone => \A r \in Requests : At(r, "first") => history = {}
    /\ Logins!NewAddressIsMailed

\* A login begins, with or without a question.
LEMMA LoginSeen ==
    ASSUME LoginInv, NEW r \in Requests, NEW a \in Addresses,
           Logins!Seen(r, a) \/ Logins!SeenFails(r, a)
    PROVE  LoginInv'
<1>1. /\ UNCHANGED <<history, first, mailedTo, alone>> /\ login[r] = Unset
      /\ failed \subseteq failed'
  BY DEF Logins!Seen, Logins!SeenFails
<1>2. PICK to \in {"record", "prior"} :
          /\ login' = [login EXCEPT ![r] = [from |-> a, next |-> to]]
          /\ to = "record" => a \in history \cup failed'
  BY DEF Logins!Seen, Logins!SeenFails
<1>3. login' \in [Requests -> Logged \cup {Unset}]
  BY <1>2 DEF LoginInv, Logged
<1>4. \A q \in Requests :
          /\ At(q, "first")' => At(q, "first")
          /\ At(q, "record")' => login'[q].from \in history \cup mailedTo \cup failed'
  BY <1>1, <1>2 DEF LoginInv, At
<1> QED BY <1>1, <1>3, <1>4 DEF LoginInv, At, Logins!NewAddressIsMailed

\* It mails, is the first, or gives up asking.
LEMMA LoginPrior ==
    ASSUME LoginInv, NEW r \in Requests, Logins!Prior(r) \/ Logins!PriorFails(r)
    PROVE  LoginInv'
<1>1. /\ UNCHANGED <<history, first, alone>> /\ login[r] \in Logged
      /\ mailedTo \subseteq mailedTo' /\ failed \subseteq failed'
  BY DEF Logins!Prior, Logins!PriorFails, LoginInv
<1>2. PICK to \in {"first", "record"} :
          /\ login' = [login EXCEPT ![r] = [from |-> login[r].from, next |-> to]]
          /\ to = "first" => history = {}
          /\ to = "record" => login[r].from \in mailedTo' \cup failed'
  <2>1. PICK to \in {"first", "record"} :
            /\ login' = [login EXCEPT ![r] = [login[r] EXCEPT !.next = to]]
            /\ to = "first" => history = {}
            /\ to = "record" => login[r].from \in mailedTo' \cup failed'
    BY DEF Logins!Prior, Logins!PriorFails, Logins!Goes
  <2>2. [login[r] EXCEPT !.next = to] = [from |-> login[r].from, next |-> to]
    BY <1>1 DEF Logged
  <2> QED BY <2>1, <2>2
<1>3. login' \in [Requests -> Logged \cup {Unset}]
  BY <1>1, <1>2 DEF LoginInv, Logged
<1>4. \A q \in Requests :
          At(q, "record")' => login'[q].from \in history' \cup mailedTo' \cup failed'
  BY <1>1, <1>2 DEF LoginInv, At
<1>5. alone' => \A q \in Requests : At(q, "first")' => history' = {}
  BY <1>1, <1>2 DEF LoginInv, At
<1>6. Logins!NewAddressIsMailed'
  BY <1>1 DEF LoginInv, Logins!NewAddressIsMailed
<1> QED BY <1>3, <1>4, <1>5, <1>6 DEF LoginInv

LEMMA LoginRecord ==
    ASSUME LoginInv, NEW r \in Requests, Logins!Record(r)
    PROVE  LoginInv'
<1>1. /\ UNCHANGED <<mailedTo, failed>> /\ login[r] # Unset
      /\ At(r, "first") \/ At(r, "record")
      /\ history' = history \cup {login[r].from}
      /\ first' = IF history = {} THEN login[r].from ELSE first
      /\ login' = [login EXCEPT ![r] = Unset]
      /\ alone' = (alone /\ \A q \in Requests \ {r} : ~At(q, "first"))
  BY DEF Logins!Record, At
<1>2. login' \in [Requests -> Logged \cup {Unset}]
  BY <1>1 DEF LoginInv
<1>3. \A q \in Requests : \A step : At(q, step)' => q # r /\ login'[q] = login[q] /\ At(q, step)
  BY <1>1 DEF LoginInv, At
<1>4. alone' => \A q \in Requests : ~At(q, "first")'
  BY <1>1, <1>3
<1>5. Logins!NewAddressIsMailed'
  BY <1>1 DEF LoginInv, Logins!NewAddressIsMailed
<1> QED BY <1>1, <1>2, <1>3, <1>4, <1>5 DEF LoginInv

LEMMA LoginStep ==
    ASSUME LoginInv, [Logins!Next]_logins
    PROVE  LoginInv'
<1>1. ASSUME NEW r \in Requests, NEW a \in Addresses,
             Logins!Seen(r, a) \/ Logins!SeenFails(r, a)
      PROVE  LoginInv'
  BY <1>1, LoginSeen
<1>2. ASSUME NEW r \in Requests, Logins!Prior(r) \/ Logins!PriorFails(r)
      PROVE  LoginInv'
  BY <1>2, LoginPrior
<1>3. ASSUME NEW r \in Requests, Logins!Record(r)
      PROVE  LoginInv'
  BY <1>3, LoginRecord
<1>4. ASSUME NEW r \in Requests, Logins!RecordFails(r)
      PROVE  LoginInv'
  BY <1>4 DEF Logins!RecordFails, LoginInv, At, Logins!NewAddressIsMailed
<1>5. CASE UNCHANGED logins
  BY <1>5 DEF logins, LoginInv, At, Logins!NewAddressIsMailed
<1> QED BY <1>1, <1>2, <1>3, <1>4, <1>5 DEF Logins!Next

\* _maybe_notify_new_device in auth.py.
LEMMA LoginsAreMailed == AccountsSpec => []Logins!NewAddressIsMailed
<1>1. AccountsInit => LoginInv
  BY DEF AccountsInit, Logins!Init, LoginInv, At, Logins!NewAddressIsMailed
<1>2. LoginInv /\ [AccountsNext]_all => LoginInv'
  BY StepOfLogins, LoginStep
<1>3. LoginInv => Logins!NewAddressIsMailed
  BY DEF LoginInv
<1> QED BY <1>1, <1>2, <1>3, PTL DEF AccountsSpec

-----------------------------------------------------------------------------
(***************************************************************************)
(* Community: nobody is told twice of one comment.                         *)
(***************************************************************************)
LEMMA StepOfCommunity == ASSUME [AccountsNext]_all PROVE [Community!Next]_community
  BY DEF AccountsNext, all, SessionsStep, RolesStep, PlaytimeStep, GameLinkStep,
         CommunityStep, MessagesStep, UploadsStep, MaintenanceStep, PresenceStep,
         BackupsStep, LoginsStep

CommentRow == [author : Users, parent : Ids \cup {Unset}]

CommunityTypes ==
    /\ comments \in [Ids -> CommentRow \cup {Unset}]
    /\ post \in [Requests -> Community!Posting \cup {Community!Idle, Community!Done}]
    /\ notes \in [Requests \X Users -> Nat]

\* Of a comment nobody is told before the replies, and between the replies and the
\* mentions only the author of the comment that it answers.
ToldInv ==
    /\ CommunityTypes
    /\ \A r \in Requests, u \in Users :
          /\ notes[<<r, u>>] <= 1
          /\ post[r].op \in {"none", "flag", "reply"} => notes[<<r, u>>] = 0
          /\ post[r].op = "mention" /\ u # post[r].answered => notes[<<r, u>>] = 0
          /\ post[r].op = "mention" /\ u = post[r].author => notes[<<r, u>>] = 0

LEMMA PostingKinds ==
    /\ Community!Idle.op = "none" /\ Community!Done.op = "done"
    /\ \A p \in Community!Posting : p.op \in {"flag", "reply", "mention"}
  BY DEF Community!Idle, Community!Done, Community!Posting

\* One comment goes on, and nobody else's is told of.
LEMMA CommentGoesOn ==
    ASSUME ToldInv, NEW r \in Requests,
           NEW p \in Community!Posting \cup {Community!Idle, Community!Done},
           post' = [post EXCEPT ![r] = p], notes' = notes,
           comments' \in [Ids -> CommentRow \cup {Unset}],
           \/ p.op = "done"
           \/ p.op \in {"flag", "reply"} /\ post[r].op \in {"none", "flag", "reply"}
    PROVE  ToldInv'
<1>1. post' \in [Requests -> Community!Posting \cup {Community!Idle, Community!Done}]
  BY DEF ToldInv, CommunityTypes
<1>2. CommunityTypes'
  BY <1>1 DEF ToldInv, CommunityTypes
<1>3. \A q \in Requests : q # r => post'[q] = post[q]
  BY DEF ToldInv, CommunityTypes
<1>4. post'[r] = p
  BY DEF ToldInv, CommunityTypes
<1> QED BY <1>2, <1>3, <1>4 DEF ToldInv

LEMMA ToldEach ==
    ASSUME CommunityTypes, NEW r \in Requests, NEW told, notes' = Community!Told(r, told)
    PROVE  /\ notes' \in [Requests \X Users -> Nat]
           /\ \A q \in Requests : \A u \in Users :
                 notes'[<<q, u>>] = IF q = r /\ u \in told THEN notes[<<q, u>>] + 1
                                    ELSE notes[<<q, u>>]
  BY DEF CommunityTypes, Community!Told

LEMMA ToldReply ==
    ASSUME ToldInv, NEW r \in Requests, Community!Reply(r)
    PROVE  ToldInv'
<1> DEFINE p == post[r]
           who == Community!Author(p.parent)
           p2 == [op |-> "mention", id |-> p.id, author |-> p.author,
                  parent |-> p.parent, mentions |-> p.mentions, answered |-> who]
<1>1. p.op = "reply" /\ notes' = Community!Told(r, {who} \ {Unset, p.author})
  BY DEF Community!Reply
<1>2. p \in Community!Posting
  BY <1>1, PostingKinds DEF ToldInv, CommunityTypes
<1>3. who \in Users \cup {Unset}
  BY <1>2 DEF ToldInv, CommunityTypes, Community!Author, Community!Rows, CommentRow
<1>4. p2 \in Community!Posting
  BY <1>2, <1>3 DEF Community!Posting
<1>5. post' = [post EXCEPT ![r] = p2]
  <2>1. post' = [post EXCEPT ![r] = [[p EXCEPT !.op = "mention"] EXCEPT !.answered = who]]
    BY DEF Community!Reply, ToldInv, CommunityTypes
  <2>2. [[p EXCEPT !.op = "mention"] EXCEPT !.answered = who] = p2
    <3>1. p = [op |-> p.op, id |-> p.id, author |-> p.author, parent |-> p.parent,
               mentions |-> p.mentions, answered |-> p.answered]
      BY <1>2 DEF Community!Posting
    <3>2. [p EXCEPT !.op = "mention"] =
              [op |-> "mention", id |-> p.id, author |-> p.author, parent |-> p.parent,
               mentions |-> p.mentions, answered |-> p.answered]
      BY <3>1
    <3>3. [[p EXCEPT !.op = "mention"] EXCEPT !.answered = who]
            = [[op |-> "mention", id |-> p.id, author |-> p.author, parent |-> p.parent,
                mentions |-> p.mentions, answered |-> p.answered] EXCEPT !.answered = who]
      BY <3>2
    <3> QED BY <3>3
  <2> QED BY <2>1, <2>2
<1>6. UNCHANGED comments
  BY DEF Community!Reply
<1>7. p2.op = "mention" /\ p2.author = p.author /\ p2.answered = who
  OBVIOUS
<1> HIDE DEF p2, who
<1>8. CommunityTypes'
  <2>1. post' \in [Requests -> Community!Posting \cup {Community!Idle, Community!Done}]
    BY <1>4, <1>5 DEF ToldInv, CommunityTypes
  <2> QED BY <1>1, <1>6, <2>1, ToldEach DEF ToldInv, CommunityTypes
<1>9. \A q \in Requests : \A u \in Users :
          notes'[<<q, u>>] = IF q = r /\ u = who /\ u # Unset /\ u # p.author
                             THEN notes[<<q, u>>] + 1 ELSE notes[<<q, u>>]
  <2> DEFINE us == {who} \ {Unset, p.author}
  <2>1. notes' = Community!Told(r, us) /\ CommunityTypes
    BY <1>1 DEF ToldInv
  <2>2. \A u : u \in us <=> u = who /\ u # Unset /\ u # p.author
    OBVIOUS
  <2> HIDE DEF us
  <2> QED BY <2>1, <2>2 DEF Community!Told, CommunityTypes
<1>10. \A u \in Users : notes[<<r, u>>] = 0
  BY <1>1 DEF ToldInv
<1>11. post'[r] = p2 /\ \A q \in Requests : q # r => post'[q] = post[q]
  BY <1>5 DEF ToldInv, CommunityTypes
<1> QED BY <1>7, <1>8, <1>9, <1>10, <1>11 DEF ToldInv

LEMMA ToldMention ==
    ASSUME ToldInv, NEW r \in Requests, Community!Mention(r)
    PROVE  ToldInv'
<1> DEFINE p == post[r]
<1>1. /\ p.op = "mention"
      /\ notes' = Community!Told(r, p.mentions \ {p.author, p.answered})
      /\ post' = [post EXCEPT ![r] = Community!Done]
      /\ UNCHANGED comments
  BY DEF Community!Mention, Community!Skipped
<1>2. CommunityTypes'
  BY <1>1, ToldEach DEF ToldInv, CommunityTypes
<1>3. \A q \in Requests : \A u \in Users :
          notes'[<<q, u>>] = IF q = r /\ u \in p.mentions \ {p.author, p.answered}
                             THEN notes[<<q, u>>] + 1 ELSE notes[<<q, u>>]
  <2> DEFINE us == p.mentions \ {p.author, p.answered}
  <2>1. notes' = Community!Told(r, us) /\ CommunityTypes
    BY <1>1 DEF ToldInv
  <2> HIDE DEF us
  <2>2. \A q \in Requests : \A u \in Users :
            notes'[<<q, u>>] = IF q = r /\ u \in us THEN notes[<<q, u>>] + 1
                               ELSE notes[<<q, u>>]
    BY <2>1 DEF Community!Told, CommunityTypes
  <2> QED BY <2>2 DEF us
<1>4. post'[r].op = "done" /\ \A q \in Requests : q # r => post'[q] = post[q]
  BY <1>1, PostingKinds DEF ToldInv, CommunityTypes
<1>5. \A u \in Users : u # p.answered => notes[<<r, u>>] = 0
  BY <1>1 DEF ToldInv
<1> QED BY <1>2, <1>3, <1>4, <1>5 DEF ToldInv

LEMMA ToldStep ==
    ASSUME ToldInv, [Community!Next]_community
    PROVE  ToldInv'
<1>1. ASSUME NEW r \in Requests, NEW u \in Users, NEW parent \in Ids \cup {Unset},
             NEW mentions \in Mentions, Community!AddComment(r, u, parent, mentions)
      PROVE  ToldInv'
  <2>1. PICK i \in Ids :
          /\ comments' = [comments EXCEPT ![i] = [author |-> u, parent |-> parent]]
          /\ post' = [post EXCEPT ![r] = [op |-> "flag", id |-> i, author |-> u,
                        parent |-> parent, mentions |-> mentions, answered |-> Unset]]
    BY <1>1 DEF Community!AddComment
  <2>2. post[r].op = "none" /\ notes' = notes
    BY <1>1, PostingKinds DEF Community!AddComment
  <2>3. [op |-> "flag", id |-> i, author |-> u, parent |-> parent,
         mentions |-> mentions, answered |-> Unset] \in Community!Posting
    BY DEF Community!Posting
  <2>4. comments' \in [Ids -> CommentRow \cup {Unset}]
    BY <2>1 DEF ToldInv, CommunityTypes, CommentRow
  <2> QED BY <2>1, <2>2, <2>3, <2>4, CommentGoesOn
<1>2. ASSUME NEW r \in Requests, Community!Flag(r)
      PROVE  ToldInv'
  <2> DEFINE p2 == [post[r] EXCEPT !.op = "reply"]
  <2>1. post' = [post EXCEPT ![r] = p2] /\ UNCHANGED <<comments, notes>> /\ post[r].op = "flag"
    BY <1>2 DEF Community!Flag
  <2>2. post[r] \in Community!Posting
    BY <2>1, PostingKinds DEF ToldInv, CommunityTypes
  <2>3. p2 \in Community!Posting /\ p2.op = "reply"
    BY <2>2 DEF Community!Posting
  <2> HIDE DEF p2
  <2> QED BY <2>1, <2>3, CommentGoesOn DEF ToldInv, CommunityTypes
<1>3. ASSUME NEW r \in Requests, Community!Reply(r)
      PROVE  ToldInv'
  BY <1>3, ToldReply
<1>4. ASSUME NEW r \in Requests, Community!Mention(r)
      PROVE  ToldInv'
  BY <1>4, ToldMention
<1>5. ASSUME NEW r \in Requests, Community!PostLost(r)
      PROVE  ToldInv'
  BY <1>5, PostingKinds, CommentGoesOn DEF Community!PostLost, ToldInv, CommunityTypes
<1>6. ASSUME NEW i \in Ids, Community!DeleteComment(i)
      PROVE  ToldInv'
  BY <1>6 DEF Community!DeleteComment, ToldInv, CommunityTypes
<1>7. CASE UNCHANGED <<comments, post, notes>>
  BY <1>7 DEF ToldInv, CommunityTypes
<1> QED BY <1>1, <1>2, <1>3, <1>4, <1>5, <1>6, <1>7
        DEF Community!Next, community, Community!CreateReport, Community!Review,
            Community!ReactRead, Community!ReactWrite, Community!VoteRead,
            Community!VoteWrite, Community!postVars

\* add_comment in news.py: the reply and the mentions never tell anybody twice.
LEMMA CommentsAreTold == AccountsSpec => []Community!ToldOnce
<1>1. AccountsInit => ToldInv
  BY PostingKinds DEF AccountsInit, Community!Init, ToldInv, CommunityTypes
<1>2. ToldInv /\ [AccountsNext]_all => ToldInv'
  BY StepOfCommunity, ToldStep
<1>3. ToldInv => Community!ToldOnce
  <2> SUFFICES ASSUME ToldInv, NEW r \in Requests, NEW u \in Users
               PROVE  /\ notes[<<r, u>>] <= 1
                      /\ notes[<<r, u>>] = 1 => post[r] # Community!Idle
                      /\ post[r] \notin {Community!Idle, Community!Done}
                            => notes[<<r, post[r].author>>] = 0
    BY DEF Community!ToldOnce
  <2>1. notes[<<r, u>>] = 1 => post[r] # Community!Idle
    BY PostingKinds DEF ToldInv
  <2>2. ASSUME post[r] \in Community!Posting
        PROVE  notes[<<r, post[r].author>>] = 0
    <3>1. post[r].author \in Users /\ post[r].op \in {"flag", "reply", "mention"}
      BY <2>2 DEF Community!Posting
    <3> QED BY <3>1 DEF ToldInv
  <2> QED BY <2>1, <2>2 DEF ToldInv, CommunityTypes
<1> QED BY <1>1, <1>2, <1>3, PTL DEF AccountsSpec

-----------------------------------------------------------------------------
(***************************************************************************)
(* Messages: a tab is not stale.                                           *)
(***************************************************************************)
LEMMA StepOfMessages == ASSUME [AccountsNext]_all PROVE [Messages!Next]_messages
  BY DEF AccountsNext, all, SessionsStep, RolesStep, PlaytimeStep, GameLinkStep,
         CommunityStep, MessagesStep, UploadsStep, MaintenanceStep, PresenceStep,
         BackupsStep, LoginsStep

FetchType(x) ==
    \/ x = Messages!Idle
    \/ x = [at |-> "select", user |-> x.user] /\ x.user \in Readers
    \/ /\ x = [at |-> x.at, user |-> x.user, got |-> x.got, since |-> x.since,
               unread |-> x.unread]
       /\ x.at \in {"commit", "show"} /\ x.user \in Readers

MessageTypes ==
    /\ message \in [Ids -> [number : Nat, to : Readers, read : BOOLEAN] \cup {Unset}]
    /\ send \in [Senders -> [at : {"notify", "push"}, to : Readers] \cup {Messages!Idle}]
    /\ listening \subseteq Readers
    /\ notices \in [Readers -> Nat]
    /\ fetch = [f \in Fetches |-> fetch[f]] /\ \A f \in Fetches : FetchType(fetch[f])
    /\ shown = [u \in Readers |-> shown[u]] /\ synced = [u \in Readers |-> synced[u]]
    /\ sends \in Nat

Current(u) == Messages!NumbersOf(Messages!Conversation(u))

\* A notice for u is in the queue or will be.
Announced(u) ==
    \/ notices[u] # 0
    \/ \E r \in Senders : send[r] # Messages!Idle /\ send[r].to = u

IsFetched(u, f) == fetch[f] # Messages!Idle /\ fetch[f].user = u

\* A fetch of u has read the conversation, and the stream was connected since.
Answered(u, f) ==
    fetch[f].at \in {"commit", "show"} /\ fetch[f].user = u /\ fetch[f].since

\* What is missing in an answer under way, or in the tab, is announced or will be
\* fetched.
TabOf(u) ==
    u \in listening =>
        /\ \A f \in Fetches : Answered(u, f) =>
              \/ Current(u) \subseteq fetch[f].got
              \/ Announced(u)
              \/ \E g \in Fetches : g # f /\ IsFetched(u, g)
        /\ synced[u] =>
              \/ Current(u) \subseteq shown[u]
              \/ Announced(u)
              \/ \E g \in Fetches : IsFetched(u, g)

TabInv == MessageTypes /\ \A u \in Readers : TabOf(u)

LEMMA TabKept ==
    ASSUME NEW u \in Readers, TabOf(u), u \in listening' => u \in listening,
           Current(u)' \subseteq Current(u), Announced(u) => Announced(u)',
           shown'[u] = shown[u], synced'[u] => synced[u],
           \A f \in Fetches : IsFetched(u, f) => IsFetched(u, f)',
           \A f \in Fetches : Answered(u, f)' => Answered(u, f) /\ fetch'[f].got = fetch[f].got
    PROVE  TabOf(u)'
  BY DEF TabOf

LEMMA TabTold ==
    ASSUME NEW u \in Readers, u \in listening' => Announced(u)'
    PROVE  TabOf(u)'
  BY DEF TabOf

\* Another user's row does not count.
LEMMA SentToAnother ==
    ASSUME NEW u \in Readers, NEW i \in Ids, NEW new,
           message' = [message EXCEPT ![i] = new], MessageTypes,
           new = Unset \/ new.to # u
    PROVE  Current(u)' \subseteq Current(u)
<1>1. \A j \in Ids : j # i => message'[j] = message[j]
  BY DEF MessageTypes
<1>2. message'[i] = new
  BY DEF MessageTypes
<1>3. Messages!Conversation(u)' \subseteq Messages!Conversation(u) \ {i}
  BY <1>1, <1>2 DEF Messages!Conversation, Messages!Rows
<1>4. Messages!Conversation(u) \subseteq Ids
  BY DEF Messages!Conversation, Messages!Rows
<1> QED BY <1>1, <1>3, <1>4 DEF Current, Messages!NumbersOf

\* The fetches of u that have read the conversation do not count as answers any more.
LEMMA OutdatedEach ==
    ASSUME MessageTypes, NEW v \in Readers, NEW f \in Fetches
    PROVE  LET x == Messages!Outdated(v)[f] IN
           /\ FetchType(x)
           /\ x = Messages!Idle <=> fetch[f] = Messages!Idle
           /\ fetch[f] # Messages!Idle => x.user = fetch[f].user /\ x.at = fetch[f].at
           /\ fetch[f].at \in {"commit", "show"} => x.got = fetch[f].got
           /\ fetch[f].at \in {"commit", "show"} /\ fetch[f].user = v => ~x.since
           /\ fetch[f].user # v => x = fetch[f]
<1> DEFINE y == fetch[f]
           x == Messages!Outdated(v)[f]
<1>1. FetchType(y)
  BY DEF MessageTypes
<1>2. CASE y.at \in {"commit", "show"} /\ y.user = v
  <2>1. y = [at |-> y.at, user |-> y.user, got |-> y.got, since |-> y.since,
             unread |-> y.unread] /\ y.user \in Readers
    BY <1>1, <1>2 DEF FetchType, Messages!Idle
  <2>2. x = [y EXCEPT !.since = FALSE]
    BY <1>2 DEF Messages!Outdated
  <2>3. x = [at |-> y.at, user |-> y.user, got |-> y.got, since |-> FALSE,
             unread |-> y.unread]
    BY <2>1, <2>2
  <2>4. x.at = y.at /\ x.user = y.user /\ x.got = y.got /\ x.unread = y.unread /\ ~x.since
    BY <2>3
  <2>5. x # Messages!Idle /\ y # Messages!Idle
    BY <1>2, <2>4 DEF Messages!Idle
  <2> HIDE DEF x, y
  <2>6. FetchType(x)
    BY <1>2, <2>1, <2>3, <2>4 DEF FetchType
  <2> QED BY <1>2, <2>4, <2>5, <2>6 DEF x, y
<1>3. CASE ~(y.at \in {"commit", "show"} /\ y.user = v)
  BY <1>1, <1>3 DEF Messages!Outdated
<1> QED BY <1>2, <1>3

\* Nothing that was read of u's conversation counts any more.
LEMMA TabForgotten ==
    ASSUME MessageTypes, NEW u \in Readers, fetch' = Messages!Outdated(u), ~synced'[u]
    PROVE  TabOf(u)'
<1>1. \A f \in Fetches : ~Answered(u, f)'
  <2> TAKE f \in Fetches
  <2> DEFINE x == Messages!Outdated(u)[f]
  <2>1. /\ x = Messages!Idle <=> fetch[f] = Messages!Idle
        /\ fetch[f] # Messages!Idle => x.user = fetch[f].user /\ x.at = fetch[f].at
        /\ fetch[f].at \in {"commit", "show"} /\ fetch[f].user = u => ~x.since
    BY OutdatedEach
  <2>2. x = fetch'[f]
    OBVIOUS
  <2> HIDE DEF x
  <2> QED BY <2>1, <2>2 DEF Answered, Messages!Idle
<1> QED BY <1>1 DEF TabOf

\* What was read for others counts as before.
LEMMA OthersFetch ==
    ASSUME MessageTypes, NEW v \in Readers, NEW u \in Readers, u # v,
           fetch' = Messages!Outdated(v)
    PROVE  \A f \in Fetches :
              /\ IsFetched(u, f) => IsFetched(u, f)'
              /\ Answered(u, f)' => Answered(u, f) /\ fetch'[f].got = fetch[f].got
<1> TAKE f \in Fetches
<1> DEFINE x == Messages!Outdated(v)[f]
<1>1. /\ x = Messages!Idle <=> fetch[f] = Messages!Idle
      /\ fetch[f] # Messages!Idle => x.user = fetch[f].user /\ x.at = fetch[f].at
      /\ fetch[f].user # v => x = fetch[f]
  BY OutdatedEach
<1>2. x = fetch'[f]
  OBVIOUS
<1> HIDE DEF x
<1> QED BY <1>1, <1>2 DEF Answered, IsFetched, Messages!Idle

LEMMA OutdatedTypes ==
    ASSUME MessageTypes, NEW v \in Readers
    PROVE  /\ Messages!Outdated(v) = [f \in Fetches |-> Messages!Outdated(v)[f]]
           /\ \A f \in Fetches : FetchType(Messages!Outdated(v)[f])
<1>1. \A f \in Fetches : FetchType(Messages!Outdated(v)[f])
  BY OutdatedEach
<1> QED BY <1>1 DEF Messages!Outdated

LEMMA TabSend ==
    ASSUME TabInv, NEW r \in Senders, NEW to \in Readers,
           Messages!Send(r, to) \/ Messages!AdminBroadcast(r, to)
    PROVE  TabInv'
<1> DEFINE i == Messages!NextId
           row == Messages!NewRow(to)
<1>1. PICK at \in {"notify", "push"} : send' = [send EXCEPT ![r] = [at |-> at, to |-> to]]
  BY DEF Messages!Send, Messages!AdminBroadcast
<1>2. /\ i \in Ids /\ message' = [message EXCEPT ![i] = row]
      /\ send[r] = Messages!Idle /\ sends' = sends + 1
      /\ UNCHANGED <<listening, notices, fetch, shown, synced>>
  BY DEF Messages!Send, Messages!AdminBroadcast, Messages!tabVars
<1>3. row \in [number : Nat, to : Readers, read : BOOLEAN] /\ row.to = to
  BY DEF Messages!NewRow, TabInv, MessageTypes
<1> HIDE DEF i, row
<1>4. MessageTypes'
  <2>1. message' \in [Ids -> [number : Nat, to : Readers, read : BOOLEAN] \cup {Unset}]
    BY <1>2, <1>3 DEF TabInv, MessageTypes
  <2>2. send' \in [Senders -> [at : {"notify", "push"}, to : Readers] \cup {Messages!Idle}]
    BY <1>1 DEF TabInv, MessageTypes
  <2>3. sends' \in Nat
    BY <1>2 DEF TabInv, MessageTypes
  <2> QED BY <1>2, <2>1, <2>2, <2>3 DEF TabInv, MessageTypes
<1>5. send'[r] = [at |-> at, to |-> to] /\ \A q \in Senders : q # r => send'[q] = send[q]
  BY <1>1 DEF TabInv, MessageTypes
<1>6. TabOf(to)'
  <2>1. Announced(to)'
    BY <1>5 DEF Announced, Messages!Idle
  <2> QED BY <2>1, TabTold
<1>7. ASSUME NEW u \in Readers, u # to
      PROVE  TabOf(u)'
  <2>1. Current(u)' \subseteq Current(u)
    BY <1>2, <1>3, <1>7, SentToAnother DEF TabInv
  <2>2. Announced(u) => Announced(u)'
    BY <1>2, <1>5 DEF Announced
  <2>3. \A f \in Fetches : /\ IsFetched(u, f) => IsFetched(u, f)'
                           /\ Answered(u, f)' => Answered(u, f) /\ fetch'[f].got = fetch[f].got
    BY <1>2 DEF IsFetched, Answered
  <2> QED BY <1>2, <2>1, <2>2, <2>3, TabKept DEF TabInv
<1> QED BY <1>4, <1>6, <1>7 DEF TabInv

LEMMA TabNotify ==
    ASSUME TabInv, NEW r \in Senders, Messages!Notify(r)
    PROVE  TabInv'
<1>1. /\ send[r].at = "notify" /\ send' = [send EXCEPT ![r] = [send[r] EXCEPT !.at = "push"]]
      /\ UNCHANGED <<message, sends, listening, notices, fetch, shown, synced>>
  BY DEF Messages!Notify, Messages!tabVars
<1>2. send[r] \in [at : {"notify", "push"}, to : Readers]
  BY <1>1 DEF TabInv, MessageTypes, Messages!Idle
<1>3. [send[r] EXCEPT !.at = "push"] = [at |-> "push", to |-> send[r].to]
  BY <1>2
<1>4. send' \in [Senders -> [at : {"notify", "push"}, to : Readers] \cup {Messages!Idle}]
  BY <1>1, <1>2, <1>3 DEF TabInv, MessageTypes
<1>5. MessageTypes'
  BY <1>1, <1>4 DEF TabInv, MessageTypes
<1>6. /\ send'[r].to = send[r].to /\ send'[r] # Messages!Idle
      /\ \A q \in Senders : q # r => send'[q] = send[q]
  BY <1>1, <1>3 DEF TabInv, MessageTypes, Messages!Idle
<1>7. ASSUME NEW u \in Readers
      PROVE  TabOf(u)'
  <2>1. Announced(u) => Announced(u)'
    BY <1>1, <1>6 DEF Announced
  <2>2. Current(u)' = Current(u)
    BY <1>1 DEF Current, Messages!Conversation, Messages!NumbersOf, Messages!Rows
  <2>3. \A f \in Fetches : /\ IsFetched(u, f) => IsFetched(u, f)'
                           /\ Answered(u, f)' => Answered(u, f) /\ fetch'[f].got = fetch[f].got
    BY <1>1 DEF IsFetched, Answered
  <2> QED BY <1>1, <2>1, <2>2, <2>3, TabKept DEF TabInv
<1> QED BY <1>5, <1>7 DEF TabInv

LEMMA TabNotifyFails ==
    ASSUME TabInv, NEW r \in Senders, Messages!NotifyFails(r)
    PROVE  TabInv'
<1>2. PICK v \in Readers : v = send[r].to
  BY DEF Messages!NotifyFails, TabInv, MessageTypes, Messages!Idle
<1>1. /\ send[r].at = "notify" /\ send' = [send EXCEPT ![r] = Messages!Idle]
      /\ synced' = [synced EXCEPT ![v] = FALSE] /\ fetch' = Messages!Outdated(v)
      /\ UNCHANGED <<message, sends, listening, notices, shown>>
  BY <1>2 DEF Messages!NotifyFails
<1>3. MessageTypes'
  <2>1. send' \in [Senders -> [at : {"notify", "push"}, to : Readers] \cup {Messages!Idle}]
    BY <1>1 DEF TabInv, MessageTypes
  <2>2. synced' = [u \in Readers |-> synced'[u]]
    BY <1>1 DEF TabInv, MessageTypes
  <2> QED BY <1>1, <1>2, <2>1, <2>2, OutdatedTypes DEF TabInv, MessageTypes
<1>4. TabOf(v)'
  BY <1>1, <1>2, TabForgotten DEF TabInv, MessageTypes
<1>5. ASSUME NEW u \in Readers, u # v
      PROVE  TabOf(u)'
  <2>1. Announced(u) => Announced(u)'
    BY <1>1, <1>2, <1>5 DEF Announced, TabInv, MessageTypes
  <2>2. Current(u)' = Current(u)
    BY <1>1 DEF Current, Messages!Conversation, Messages!NumbersOf, Messages!Rows
  <2>3. synced'[u] = synced[u]
    BY <1>1, <1>5 DEF TabInv, MessageTypes
  <2>4. \A f \in Fetches : /\ IsFetched(u, f) => IsFetched(u, f)'
                           /\ Answered(u, f)' => Answered(u, f) /\ fetch'[f].got = fetch[f].got
    BY <1>1, <1>2, <1>5, OthersFetch DEF TabInv
  <2> QED BY <1>1, <2>1, <2>2, <2>3, <2>4, TabKept DEF TabInv
<1> QED BY <1>2, <1>3, <1>4, <1>5 DEF TabInv

\* Nothing about a user's tab changes but what is announced.
LEMMA TabUntouched ==
    ASSUME NEW u \in Readers, TabOf(u), u \in listening' => u \in listening,
           UNCHANGED <<message, fetch>>, shown'[u] = shown[u], synced'[u] = synced[u],
           Announced(u) => Announced(u)'
    PROVE  TabOf(u)'
<1>1. Current(u)' = Current(u)
  BY DEF Current, Messages!Conversation, Messages!NumbersOf, Messages!Rows
<1>2. \A f \in Fetches : /\ IsFetched(u, f) => IsFetched(u, f)'
                         /\ Answered(u, f)' => Answered(u, f) /\ fetch'[f].got = fetch[f].got
  BY DEF IsFetched, Answered
<1> QED BY <1>1, <1>2, TabKept

LEMMA TabPush ==
    ASSUME TabInv, NEW r \in Senders, Messages!Push(r)
    PROVE  TabInv'
<1>1. PICK v \in Readers : v = send[r].to
  BY DEF Messages!Push, TabInv, MessageTypes, Messages!Idle
<1>2. /\ send' = [send EXCEPT ![r] = Messages!Idle]
      /\ UNCHANGED <<message, fetch, shown, synced, sends>>
      /\ \/ notices' = [notices EXCEPT ![v] = notices[v] + 1] /\ UNCHANGED listening
         \/ listening' = listening \ {v} /\ UNCHANGED notices
  BY <1>1 DEF Messages!Push
<1>3. MessageTypes'
  <2>1. send' \in [Senders -> [at : {"notify", "push"}, to : Readers] \cup {Messages!Idle}]
    BY <1>2 DEF TabInv, MessageTypes
  <2>2. notices' \in [Readers -> Nat] /\ listening' \subseteq Readers
    BY <1>2 DEF TabInv, MessageTypes
  <2> QED BY <1>2, <2>1, <2>2 DEF TabInv, MessageTypes
<1>4. TabOf(v)'
  <2>1. CASE notices' = [notices EXCEPT ![v] = notices[v] + 1]
    <3>1. notices'[v] # 0
      BY <1>1, <2>1 DEF TabInv, MessageTypes
    <3> QED BY <3>1, TabTold DEF Announced
  <2>2. CASE listening' = listening \ {v}
    BY <2>2 DEF TabOf
  <2> QED BY <1>2, <2>1, <2>2
<1>5. ASSUME NEW u \in Readers, u # v
      PROVE  TabOf(u)'
  <2>1. Announced(u) => Announced(u)'
    BY <1>1, <1>2, <1>5 DEF Announced, TabInv, MessageTypes
  <2> QED BY <1>2, <1>5, <2>1, TabUntouched DEF TabInv
<1> QED BY <1>3, <1>4, <1>5 DEF TabInv

LEMMA TabDelete ==
    ASSUME TabInv, NEW i \in Ids, Messages!Delete(i)
    PROVE  TabInv'
<1>1. /\ message' = [message EXCEPT ![i] = Unset]
      /\ UNCHANGED <<send, sends, listening, notices, fetch, shown, synced>>
  BY DEF Messages!Delete, Messages!tabVars
<1>2. MessageTypes'
  BY <1>1 DEF TabInv, MessageTypes
<1>3. ASSUME NEW u \in Readers
      PROVE  TabOf(u)'
  <2>1. Current(u)' \subseteq Current(u)
    BY <1>1, SentToAnother DEF TabInv
  <2>2. Announced(u) => Announced(u)'
    BY <1>1 DEF Announced
  <2>3. \A f \in Fetches : /\ IsFetched(u, f) => IsFetched(u, f)'
                           /\ Answered(u, f)' => Answered(u, f) /\ fetch'[f].got = fetch[f].got
    BY <1>1 DEF IsFetched, Answered
  <2> QED BY <1>1, <2>1, <2>2, <2>3, TabKept DEF TabInv
<1> QED BY <1>2, <1>3 DEF TabInv

LEMMA TabConnect ==
    ASSUME TabInv, NEW v \in Readers, Messages!Connect(v)
    PROVE  TabInv'
<1>1. /\ listening' = listening \cup {v} /\ notices' = [notices EXCEPT ![v] = 0]
      /\ synced' = [synced EXCEPT ![v] = FALSE] /\ fetch' = Messages!Outdated(v)
      /\ UNCHANGED <<message, send, shown, sends>>
  BY DEF Messages!Connect
<1>2. MessageTypes'
  <2>1. synced' = [u \in Readers |-> synced'[u]]
    BY <1>1 DEF TabInv, MessageTypes
  <2>2. notices' \in [Readers -> Nat]
    BY <1>1 DEF TabInv, MessageTypes
  <2> QED BY <1>1, <2>1, <2>2, OutdatedTypes DEF TabInv, MessageTypes
<1>3. TabOf(v)'
  BY <1>1, TabForgotten DEF TabInv, MessageTypes
<1>4. ASSUME NEW u \in Readers, u # v
      PROVE  TabOf(u)'
  <2>1. Announced(u) => Announced(u)'
    BY <1>1, <1>4 DEF Announced, TabInv, MessageTypes
  <2>2. Current(u)' = Current(u)
    BY <1>1 DEF Current, Messages!Conversation, Messages!NumbersOf, Messages!Rows
  <2>3. synced'[u] = synced[u] /\ (u \in listening' => u \in listening)
    BY <1>1, <1>4 DEF TabInv, MessageTypes
  <2>4. \A f \in Fetches : /\ IsFetched(u, f) => IsFetched(u, f)'
                           /\ Answered(u, f)' => Answered(u, f) /\ fetch'[f].got = fetch[f].got
    BY <1>1, <1>4, OthersFetch DEF TabInv
  <2> QED BY <1>1, <2>1, <2>2, <2>3, <2>4, TabKept DEF TabInv
<1> QED BY <1>2, <1>3, <1>4 DEF TabInv

LEMMA TabDisconnect ==
    ASSUME TabInv, NEW v \in Readers, Messages!Disconnect(v)
    PROVE  TabInv'
<1>1. /\ listening' = listening \ {v}
      /\ UNCHANGED <<message, send, notices, fetch, shown, synced, sends>>
  BY DEF Messages!Disconnect
<1>2. MessageTypes'
  BY <1>1 DEF TabInv, MessageTypes
<1>3. ASSUME NEW u \in Readers
      PROVE  TabOf(u)'
  <2>1. Announced(u) => Announced(u)'
    BY <1>1 DEF Announced
  <2> QED BY <1>1, <2>1, TabUntouched DEF TabInv
<1> QED BY <1>2, <1>3 DEF TabInv

LEMMA TabFetch ==
    ASSUME TabInv, NEW v \in Readers, NEW f \in Fetches, Messages!Fetch(v, f)
    PROVE  TabInv'
<1>1. PICK noticed \in {0, 1} : /\ noticed <= notices[v]
                                /\ notices' = [notices EXCEPT ![v] = notices[v] - noticed]
  BY DEF Messages!Fetch
<1>2. /\ fetch[f] = Messages!Idle
      /\ fetch' = [fetch EXCEPT ![f] = [at |-> "select", user |-> v]]
      /\ UNCHANGED <<message, send, listening, shown, synced, sends>>
  BY DEF Messages!Fetch
<1>3. fetch'[f] = [at |-> "select", user |-> v] /\ \A g \in Fetches : g # f => fetch'[g] = fetch[g]
  BY <1>2 DEF TabInv, MessageTypes
<1>4. MessageTypes'
  <2>1. notices' \in [Readers -> Nat]
    BY <1>1 DEF TabInv, MessageTypes
  <2>2. \A g \in Fetches : FetchType(fetch'[g])
    BY <1>3 DEF TabInv, MessageTypes, FetchType
  <2>3. fetch' = [g \in Fetches |-> fetch'[g]]
    BY <1>2 DEF TabInv, MessageTypes
  <2> QED BY <1>2, <2>1, <2>2, <2>3 DEF TabInv, MessageTypes
<1>5. TabOf(v)'
  <2>1. IsFetched(v, f)' /\ ~Answered(v, f)'
    BY <1>3 DEF IsFetched, Answered, Messages!Idle
  <2> QED BY <2>1 DEF TabOf
<1>6. ASSUME NEW u \in Readers, u # v
      PROVE  TabOf(u)'
  <2>1. Announced(u) => Announced(u)'
    BY <1>1, <1>2, <1>6 DEF Announced, TabInv, MessageTypes
  <2>2. Current(u)' = Current(u)
    BY <1>2 DEF Current, Messages!Conversation, Messages!NumbersOf, Messages!Rows
  <2>3. \A g \in Fetches : /\ IsFetched(u, g) => IsFetched(u, g)'
                           /\ Answered(u, g)' => Answered(u, g) /\ fetch'[g].got = fetch[g].got
    BY <1>2, <1>3, <1>6 DEF IsFetched, Answered
  <2> QED BY <1>2, <2>1, <2>2, <2>3, TabKept DEF TabInv
<1> QED BY <1>4, <1>5, <1>6 DEF TabInv

LEMMA TabSelect ==
    ASSUME TabInv, NEW f \in Fetches, Messages!FetchSelect(f)
    PROVE  TabInv'
<1>1. PICK v \in Readers : v = fetch[f].user /\ fetch[f] # Messages!Idle
  BY DEF Messages!FetchSelect, TabInv, MessageTypes, FetchType, Messages!Idle
<1>2. PICK unread, since :
         fetch' = [fetch EXCEPT ![f] = [at |-> "commit", user |-> v, got |-> Current(v),
                                        since |-> since, unread |-> unread]]
  BY <1>1 DEF Messages!FetchSelect, Current
<1>3. UNCHANGED <<message, send, listening, notices, shown, synced, sends>>
  BY DEF Messages!FetchSelect
<1>4. /\ fetch'[f] = [at |-> "commit", user |-> v, got |-> Current(v),
                      since |-> since, unread |-> unread]
      /\ \A g \in Fetches : g # f => fetch'[g] = fetch[g]
  BY <1>2 DEF TabInv, MessageTypes
<1>5. fetch'[f].at = "commit" /\ fetch'[f].user = v /\ fetch'[f].got = Current(v)
  BY <1>4
<1>6. MessageTypes'
  <2>1. FetchType(fetch'[f])
    BY <1>4, <1>5 DEF FetchType
  <2>2. \A g \in Fetches : FetchType(fetch'[g])
    BY <1>4, <2>1 DEF TabInv, MessageTypes
  <2>3. fetch' = [g \in Fetches |-> fetch'[g]]
    BY <1>2 DEF TabInv, MessageTypes
  <2> QED BY <1>3, <2>2, <2>3 DEF TabInv, MessageTypes
<1>7. ASSUME NEW u \in Readers
      PROVE  TabOf(u)'
  <2>1. Announced(u)' = Announced(u)
    BY <1>3 DEF Announced
  <2>2. Current(u)' = Current(u)
    BY <1>3 DEF Current, Messages!Conversation, Messages!NumbersOf, Messages!Rows
  <2>3. \A g \in Fetches : IsFetched(u, g) => IsFetched(u, g)'
    BY <1>1, <1>4, <1>5 DEF IsFetched, Messages!Idle
  <2>4. \A g \in Fetches : g # f => (Answered(u, g)' => Answered(u, g) /\ fetch'[g].got = fetch[g].got)
    BY <1>4 DEF Answered
  <2>5. Answered(u, f)' => fetch'[f].got = Current(u)
    BY <1>5 DEF Answered
  <2> QED BY <1>3, <2>1, <2>2, <2>3, <2>4, <2>5 DEF TabInv, TabOf
<1> QED BY <1>6, <1>7 DEF TabInv

\* Marking rows read changes neither what they say nor to whom.
LEMMA TabCommit ==
    ASSUME TabInv, NEW f \in Fetches, Messages!FetchCommit(f)
    PROVE  TabInv'
<1> DEFINE Row == [number : Nat, to : Readers, read : BOOLEAN]
<1>1. /\ fetch[f].at = "commit"
      /\ fetch' = [fetch EXCEPT ![f] = [fetch[f] EXCEPT !.at = "show"]]
      /\ UNCHANGED <<send, listening, notices, shown, synced, sends>>
      /\ fetch[f].unread \subseteq Messages!Rows
      /\ message' = [i \in Ids |-> IF i \in fetch[f].unread
                                   THEN [message[i] EXCEPT !.read = TRUE] ELSE message[i]]
  BY DEF Messages!FetchCommit
<1>2. fetch[f] = [at |-> "commit", user |-> fetch[f].user, got |-> fetch[f].got,
                  since |-> fetch[f].since, unread |-> fetch[f].unread]
      /\ fetch[f].user \in Readers
  BY <1>1 DEF TabInv, MessageTypes, FetchType, Messages!Idle
<1>3. [fetch[f] EXCEPT !.at = "show"] =
          [at |-> "show", user |-> fetch[f].user, got |-> fetch[f].got,
           since |-> fetch[f].since, unread |-> fetch[f].unread]
  BY <1>2
<1>4. fetch'[f] = [at |-> "show", user |-> fetch[f].user, got |-> fetch[f].got,
                   since |-> fetch[f].since, unread |-> fetch[f].unread]
      /\ \A g \in Fetches : g # f => fetch'[g] = fetch[g]
  BY <1>1, <1>3 DEF TabInv, MessageTypes
<1>5. /\ fetch'[f].at = "show" /\ fetch'[f].user = fetch[f].user
      /\ fetch'[f].got = fetch[f].got /\ fetch'[f].since = fetch[f].since
  BY <1>4
<1>6. \A i \in Ids : /\ message'[i] \in Row \cup {Unset}
                     /\ message'[i] # Unset => message[i] # Unset
                     /\ message[i] # Unset => message'[i].number = message[i].number
                                              /\ message'[i].to = message[i].to
  <2> TAKE i \in Ids
  <2>1. message[i] \in Row \cup {Unset}
    BY DEF TabInv, MessageTypes
  <2>2. CASE i \in fetch[f].unread
    <3>1. message[i] # Unset /\ message[i] \in Row
      BY <1>1, <2>1, <2>2 DEF Messages!Rows
    <3>2. message'[i] = [message[i] EXCEPT !.read = TRUE]
      BY <1>1, <2>2
    <3>3. message'[i] \in Row /\ message'[i].number = message[i].number
                              /\ message'[i].to = message[i].to
      BY <3>1, <3>2
    <3> QED BY <3>1, <3>3
  <2>3. CASE i \notin fetch[f].unread
    BY <1>1, <2>1, <2>3
  <2> QED BY <2>2, <2>3
<1>7. MessageTypes'
  <2>1. message' \in [Ids -> Row \cup {Unset}]
    BY <1>1, <1>6
  <2>2. FetchType(fetch'[f])
    BY <1>2, <1>4, <1>5 DEF FetchType
  <2>3. \A g \in Fetches : FetchType(fetch'[g])
    BY <1>4, <2>2 DEF TabInv, MessageTypes
  <2>4. fetch' = [g \in Fetches |-> fetch'[g]]
    BY <1>1 DEF TabInv, MessageTypes
  <2> QED BY <1>1, <2>1, <2>3, <2>4 DEF TabInv, MessageTypes
<1>8. ASSUME NEW u \in Readers
      PROVE  TabOf(u)'
  <2>1. Announced(u) => Announced(u)'
    BY <1>1 DEF Announced
  <2>2. Current(u)' \subseteq Current(u)
    BY <1>6 DEF Current, Messages!Conversation, Messages!NumbersOf, Messages!Rows
  <2>3. \A g \in Fetches : /\ IsFetched(u, g) => IsFetched(u, g)'
                           /\ Answered(u, g)' => Answered(u, g) /\ fetch'[g].got = fetch[g].got
    <3> TAKE g \in Fetches
    <3>1. CASE g = f
      <4>1. fetch'[f] # Messages!Idle
        BY <1>5 DEF Messages!Idle
      <4> QED BY <1>1, <1>5, <3>1, <4>1 DEF IsFetched, Answered
    <3>2. CASE g # f
      BY <1>4, <3>2 DEF IsFetched, Answered
    <3> QED BY <3>1, <3>2
  <2> QED BY <1>1, <2>1, <2>2, <2>3, TabKept DEF TabInv
<1> QED BY <1>7, <1>8 DEF TabInv

\* A fetch ends, and what other fetches of its user have read does not count any more.
LEMMA FetchEnds ==
    ASSUME MessageTypes, NEW v \in Readers, NEW f \in Fetches, fetch[f].user = v,
           fetch' = [Messages!Outdated(v) EXCEPT ![f] = Messages!Idle]
    PROVE  /\ fetch' = [g \in Fetches |-> fetch'[g]]
           /\ \A g \in Fetches :
                 /\ FetchType(fetch'[g])
                 /\ ~Answered(v, g)'
                 /\ g # f => \A u \in Readers : IsFetched(u, g) => IsFetched(u, g)'
                 /\ \A u \in Readers : u # v =>
                       /\ IsFetched(u, g) => IsFetched(u, g)'
                       /\ Answered(u, g)' => Answered(u, g) /\ fetch'[g].got = fetch[g].got
<1>1. /\ Messages!Outdated(v) = [g \in Fetches |-> Messages!Outdated(v)[g]]
      /\ \A g \in Fetches : FetchType(Messages!Outdated(v)[g])
  BY OutdatedTypes
<1>2. fetch'[f] = Messages!Idle /\ \A g \in Fetches : g # f => fetch'[g] = Messages!Outdated(v)[g]
  BY <1>1
<1>3. fetch' = [g \in Fetches |-> fetch'[g]]
  BY <1>1
<1>4. ASSUME NEW g \in Fetches
      PROVE  /\ FetchType(fetch'[g])
             /\ ~Answered(v, g)'
             /\ g # f => \A u \in Readers : IsFetched(u, g) => IsFetched(u, g)'
             /\ \A u \in Readers : u # v =>
                   /\ IsFetched(u, g) => IsFetched(u, g)'
                   /\ Answered(u, g)' => Answered(u, g) /\ fetch'[g].got = fetch[g].got
  <2>1. CASE g = f
    BY <1>2, <2>1 DEF FetchType, Answered, IsFetched, Messages!Idle
  <2>2. CASE g # f
    <3> DEFINE x == Messages!Outdated(v)[g]
    <3>1. /\ x = Messages!Idle <=> fetch[g] = Messages!Idle
          /\ fetch[g] # Messages!Idle => x.user = fetch[g].user /\ x.at = fetch[g].at
          /\ fetch[g].at \in {"commit", "show"} /\ fetch[g].user = v => ~x.since
          /\ fetch[g].user # v => x = fetch[g]
          /\ FetchType(x)
      BY OutdatedEach
    <3>2. x = fetch'[g]
      BY <1>2, <2>2
    <3> HIDE DEF x
    <3> QED BY <3>1, <3>2 DEF Answered, IsFetched, Messages!Idle
  <2> QED BY <2>1, <2>2
<1> QED BY <1>3, <1>4

LEMMA TabFails ==
    ASSUME TabInv, NEW f \in Fetches, Messages!FetchFails(f)
    PROVE  TabInv'
<1>1. PICK v \in Readers : v = fetch[f].user
  BY DEF Messages!FetchFails, TabInv, MessageTypes, FetchType, Messages!Idle
<1>2. /\ synced' = [synced EXCEPT ![v] = FALSE]
      /\ fetch' = [Messages!Outdated(v) EXCEPT ![f] = Messages!Idle]
      /\ UNCHANGED <<message, send, listening, notices, shown, sends>>
  BY <1>1 DEF Messages!FetchFails
<1>3. MessageTypes'
  <2>1. synced' = [u \in Readers |-> synced'[u]]
    BY <1>2 DEF TabInv, MessageTypes
  <2> QED BY <1>1, <1>2, <2>1, FetchEnds DEF TabInv, MessageTypes
<1>4. TabOf(v)'
  <2>1. ~synced'[v]
    BY <1>2 DEF TabInv, MessageTypes
  <2>2. \A g \in Fetches : ~Answered(v, g)'
    BY <1>1, <1>2, FetchEnds DEF TabInv
  <2> QED BY <2>1, <2>2 DEF TabOf
<1>5. ASSUME NEW u \in Readers, u # v
      PROVE  TabOf(u)'
  <2>1. Announced(u) => Announced(u)'
    BY <1>2 DEF Announced
  <2>2. Current(u)' = Current(u)
    BY <1>2 DEF Current, Messages!Conversation, Messages!NumbersOf, Messages!Rows
  <2>3. synced'[u] = synced[u]
    BY <1>2, <1>5 DEF TabInv, MessageTypes
  <2>4. \A g \in Fetches : /\ IsFetched(u, g) => IsFetched(u, g)'
                           /\ Answered(u, g)' => Answered(u, g) /\ fetch'[g].got = fetch[g].got
    BY <1>1, <1>2, <1>5, FetchEnds DEF TabInv
  <2> QED BY <1>2, <2>1, <2>2, <2>3, <2>4, TabKept DEF TabInv
<1> QED BY <1>3, <1>4, <1>5 DEF TabInv

\* What a tab shows is the answer, and what it misses of the conversation is announced
\* or asked for by another fetch.
LEMMA TabShow ==
    ASSUME TabInv, NEW f \in Fetches, Messages!Show(f)
    PROVE  TabInv'
<1>1. PICK v \in Readers : v = fetch[f].user
  BY DEF Messages!Show, TabInv, MessageTypes, FetchType, Messages!Idle
<1>2. /\ fetch[f].at = "show"
      /\ shown' = [shown EXCEPT ![v] = fetch[f].got]
      /\ synced' = [synced EXCEPT ![v] = fetch[f].since /\ v \in listening]
      /\ fetch' = [Messages!Outdated(v) EXCEPT ![f] = Messages!Idle]
      /\ UNCHANGED <<message, send, listening, notices, sends>>
  BY <1>1 DEF Messages!Show
<1>3. MessageTypes'
  <2>1. synced' = [u \in Readers |-> synced'[u]] /\ shown' = [u \in Readers |-> shown'[u]]
    BY <1>2 DEF TabInv, MessageTypes
  <2> QED BY <1>1, <1>2, <2>1, FetchEnds DEF TabInv, MessageTypes
<1>4. \A u \in Readers : Announced(u)' = Announced(u) /\ Current(u)' = Current(u)
  BY <1>2 DEF Announced, Current, Messages!Conversation, Messages!NumbersOf, Messages!Rows
<1>5. TabOf(v)'
  <2>1. synced'[v] => fetch[f].since /\ v \in listening
    BY <1>2 DEF TabInv, MessageTypes
  <2>2. \A g \in Fetches : ~Answered(v, g)' /\ (g # f => (IsFetched(v, g) => IsFetched(v, g)'))
    BY <1>1, <1>2, FetchEnds DEF TabInv
  <2>3. shown'[v] = fetch[f].got
    BY <1>2 DEF TabInv, MessageTypes
  <2>4. ASSUME synced'[v]
        PROVE  \/ Current(v) \subseteq fetch[f].got
               \/ Announced(v)
               \/ \E g \in Fetches : g # f /\ IsFetched(v, g)
    BY <1>1, <1>2, <2>1, <2>4 DEF TabInv, TabOf, Answered
  <2> QED BY <1>4, <2>2, <2>3, <2>4 DEF TabOf
<1>6. ASSUME NEW u \in Readers, u # v
      PROVE  TabOf(u)'
  <2>1. synced'[u] = synced[u] /\ shown'[u] = shown[u]
    BY <1>2, <1>6 DEF TabInv, MessageTypes
  <2>2. \A g \in Fetches : /\ IsFetched(u, g) => IsFetched(u, g)'
                           /\ Answered(u, g)' => Answered(u, g) /\ fetch'[g].got = fetch[g].got
    BY <1>1, <1>2, <1>6, FetchEnds DEF TabInv
  <2> QED BY <1>2, <1>4, <2>1, <2>2, TabKept DEF TabInv
<1> QED BY <1>3, <1>5, <1>6 DEF TabInv

LEMMA TabStep ==
    ASSUME TabInv, [Messages!Next]_messages
    PROVE  TabInv'
<1>1. CASE Messages!Next
  BY <1>1, TabSend, TabNotify, TabNotifyFails, TabPush, TabDelete, TabConnect, TabDisconnect,
     TabFetch, TabSelect, TabCommit, TabFails, TabShow DEF Messages!Next
<1>2. CASE UNCHANGED messages
  <2>1. UNCHANGED <<message, send, listening, notices, fetch, shown, synced, sends>>
    BY <1>2 DEF messages
  <2>2. \A u \in Readers : TabOf(u)'
    BY <2>1, TabUntouched DEF TabInv, Announced
  <2> QED BY <2>1, <2>2 DEF TabInv, MessageTypes
<1> QED BY <1>1, <1>2

\* messages_stream and dm_broadcast in messages.py.
LEMMA TabsAreCurrent == AccountsSpec => []Messages!TabNotStale
<1>1. AccountsInit => TabInv
  BY DEF AccountsInit, Messages!Init, TabInv, MessageTypes, FetchType, TabOf, Messages!Idle
<1>2. TabInv /\ [AccountsNext]_all => TabInv'
  BY StepOfMessages, TabStep
<1>3. TabInv => Messages!TabNotStale
  BY DEF TabInv, MessageTypes, TabOf, Messages!TabNotStale, Messages!Quiet, Announced, IsFetched,
     Current
<1> QED BY <1>1, <1>2, <1>3, PTL DEF AccountsSpec

\* What users are told: a comment's reply and mentions once, a direct message in an open
\* tab, a login from a new address by mail; however requests, fetches and logins overlap.
THEOREM ReadersTold == AccountsSpec => []ReadersAreTold
<1>1. Community!ToldOnce /\ Messages!TabNotStale /\ Logins!NewAddressIsMailed => ReadersAreTold
  BY DEF ReadersAreTold
<1> QED BY <1>1, CommentsAreTold, TabsAreCurrent, LoginsAreMailed, PTL

-----------------------------------------------------------------------------
(***************************************************************************)
(* Uploads: a cover that is shown is there.                                *)
(***************************************************************************)
LEMMA StepOfUploads == ASSUME [AccountsNext]_all PROVE [Uploads!Next]_uploads
  BY DEF AccountsNext, all, SessionsStep, RolesStep, PlaytimeStep, GameLinkStep,
         CommunityStep, MessagesStep, UploadsStep, MaintenanceStep, PresenceStep,
         BackupsStep, LoginsStep

Given == 1..uploaded \cup {Unset}  \* the names given so far

Uploading(r) == upload[r].at \in {"read", "commit"}
Uploaded(r) == upload[r].at = "commit"

UploadTypes ==
    /\ uploaded \in Nat
    /\ url \in [Slots -> Given]
    /\ upload = [r \in Requests |-> upload[r]]
    /\ \A r \in Requests : Uploading(r) => upload[r].slot \in Slots /\ upload[r].old \in Given
    /\ \A r \in Requests : Uploaded(r) => upload[r].new \in Given

\* A file is of one slot only, and the one that an upload has written of no other
\* upload.
OneSlot ==
    /\ \A s, t \in Slots : s # t /\ url[s] # Unset => url[s] # url[t]
    /\ \A r \in Requests : Uploading(r) /\ upload[r].old # Unset =>
          \A s \in Slots : s # upload[r].slot => url[s] # upload[r].old
    /\ \A r \in Requests : Uploaded(r) /\ upload[r].new # Unset =>
          /\ \A s \in Slots : url[s] # upload[r].new
          /\ \A q \in Requests : /\ Uploading(q) => upload[q].old # upload[r].new
                                 /\ Uploaded(q) /\ q # r => upload[q].new # upload[r].new

Found(f) == f \in files \cup torn \cup {Unset}

UploadInv ==
    /\ UploadTypes
    /\ OneSlot
    /\ \A s \in Slots : Found(url[s])
    /\ \A r \in Requests : Uploaded(r) => Found(upload[r].new)

\* No row and no upload changes, and a file that goes is known to be gone.
LEMMA FilesMove ==
    ASSUME UploadInv, UNCHANGED <<url, upload>>, uploaded' \in Nat, uploaded <= uploaded',
           files \cup torn \subseteq files' \cup torn'
    PROVE  UploadInv'
<1>1. Given \subseteq Given'
  BY DEF Given, UploadInv, UploadTypes
<1>2. UploadTypes'
  BY <1>1 DEF UploadInv, UploadTypes, Uploading, Uploaded
<1>3. OneSlot'
  BY DEF UploadInv, OneSlot, Uploading, Uploaded
<1> QED BY <1>2, <1>3 DEF UploadInv, Found, Uploaded

\* An upload is given up.
LEMMA UploadEnds ==
    ASSUME UploadInv, NEW r \in Requests, upload' = [upload EXCEPT ![r] = Uploads!Idle],
           UNCHANGED <<url, files, uploaded, torn>>
    PROVE  UploadInv'
<1>1. ~Uploading(r)' /\ ~Uploaded(r)'
  BY DEF UploadInv, UploadTypes, Uploading, Uploaded, Uploads!Idle
<1>2. \A q \in Requests : q # r => upload'[q] = upload[q]
  BY DEF UploadInv, UploadTypes
<1>3. UploadTypes'
  BY <1>1, <1>2 DEF UploadInv, UploadTypes, Uploading, Uploaded, Given
<1>4. OneSlot'
  BY <1>1, <1>2 DEF UploadInv, OneSlot, Uploading, Uploaded
<1> QED BY <1>1, <1>2, <1>3, <1>4 DEF UploadInv, Found, Uploaded

LEMMA UploadBegins ==
    ASSUME UploadInv, NEW r \in Requests, NEW s \in Slots, Uploads!Begin(r, s)
    PROVE  UploadInv'
<1>1. /\ upload' = [upload EXCEPT ![r] = [at |-> "read", slot |-> s, old |-> url[s]]]
      /\ UNCHANGED <<url, files, uploaded, torn>>
  BY DEF Uploads!Begin
<1>2. /\ upload'[r] = [at |-> "read", slot |-> s, old |-> url[s]]
      /\ \A q \in Requests : q # r => upload'[q] = upload[q]
  BY <1>1 DEF UploadInv, UploadTypes
<1>3. /\ ~Uploaded(r)' /\ upload'[r].slot = s /\ upload'[r].old = url[s]
      /\ url[s] \in Given
  BY <1>2 DEF Uploaded, UploadInv, UploadTypes
<1>4. UploadTypes'
  BY <1>1, <1>2, <1>3 DEF UploadInv, UploadTypes, Uploading, Uploaded, Given
<1>5. OneSlot'
  BY <1>1, <1>2, <1>3 DEF UploadInv, OneSlot, Uploading, Uploaded
<1> QED BY <1>1, <1>2, <1>3, <1>4, <1>5 DEF UploadInv, Found, Uploaded

\* The upload has a file of its own now, or none, and the old one is gone.
LEMMA UploadWrites ==
    ASSUME UploadInv, NEW r \in Requests, Uploads!Write(r) \/ Uploads!Clear(r)
    PROVE  UploadInv'
<1>1. PICK new \in {uploaded + 1, Unset} :
        /\ upload' = [upload EXCEPT ![r] = [at |-> "commit", slot |-> upload[r].slot,
                                            old |-> upload[r].old, new |-> new]]
        /\ new = Unset \/ new \in files' \cup torn'
        /\ uploaded' \in {uploaded, uploaded + 1} /\ (new # Unset => uploaded' = uploaded + 1)
  BY DEF Uploads!Write, Uploads!Clear, Uploads!NewName, UploadInv, UploadTypes
<1>2. /\ Uploading(r) /\ UNCHANGED url
      /\ \A f : Found(f) => Found(f)'
  BY DEF Uploads!Write, Uploads!Clear, Uploading, Found
<1>3. uploaded \in Nat /\ uploaded' \in Nat /\ new \in Given' /\ Given \subseteq Given'
  BY <1>1 DEF UploadInv, UploadTypes, Given
<1>4. new # Unset => new \notin Given
  BY <1>1, <1>3 DEF Given
<1>5. /\ upload'[r] = [at |-> "commit", slot |-> upload[r].slot,
                       old |-> upload[r].old, new |-> new]
      /\ \A q \in Requests : q # r => upload'[q] = upload[q]
  BY <1>1 DEF UploadInv, UploadTypes
<1>6. /\ upload'[r].at = "commit" /\ upload'[r].slot = upload[r].slot
      /\ upload'[r].old = upload[r].old /\ upload'[r].new = new
  BY <1>5
<1>7. UploadTypes'
  <2>1. upload' = [q \in Requests |-> upload'[q]]
    BY <1>1 DEF UploadInv, UploadTypes
  <2>2. url' \in [Slots -> Given']
    BY <1>2, <1>3 DEF UploadInv, UploadTypes
  <2> HIDE DEF Given
  <2> QED BY <1>2, <1>3, <1>5, <1>6, <2>1, <2>2 DEF UploadInv, UploadTypes, Uploading, Uploaded
<1>8. OneSlot'
  <2>1. /\ \A s \in Slots : url[s] \in Given
        /\ \A q \in Requests : /\ Uploading(q) => upload[q].old \in Given
                               /\ Uploaded(q) => upload[q].new \in Given
    BY DEF UploadInv, UploadTypes
  <2> QED BY <1>2, <1>4, <1>5, <1>6, <2>1 DEF UploadInv, OneSlot, Uploading, Uploaded
<1>9. \A q \in Requests : Uploaded(q)' => Found(upload[q].new)'
  BY <1>1, <1>2, <1>5, <1>6 DEF UploadInv, Found, Uploaded
<1> QED BY <1>2, <1>7, <1>8, <1>9 DEF UploadInv

\* The row has the new file, and the old one was the slot's and nobody else's.
LEMMA UploadCommits ==
    ASSUME UploadInv, NEW r \in Requests, Uploads!Commit(r)
    PROVE  UploadInv'
<1>1. /\ Uploaded(r) /\ Uploading(r)
      /\ url' = IF upload[r].new = upload[r].old THEN url
                ELSE [url EXCEPT ![upload[r].slot] = upload[r].new]
      /\ torn' = torn \ {upload[r].old}
      /\ upload' = [upload EXCEPT ![r] = Uploads!Idle]
      /\ UNCHANGED <<files, uploaded>>
  BY DEF Uploads!Commit, Uploaded, Uploading
<1>2. PICK new \in Given, old \in Given, slot \in Slots :
          new = upload[r].new /\ old = upload[r].old /\ slot = upload[r].slot
  BY <1>1 DEF UploadInv, UploadTypes
<1>3. /\ new = old => new = Unset
      /\ Found(new)
      /\ new # Unset => \A s \in Slots : url[s] # new
      /\ old # Unset => \A s \in Slots : s # slot => url[s] # old
      /\ \A q \in Requests : q # r /\ new # Unset =>
            /\ Uploading(q) => upload[q].old # new
            /\ Uploaded(q) => upload[q].new # new
      /\ \A q \in Requests : Uploaded(q) /\ upload[q].new # Unset => upload[q].new # old
  BY <1>1, <1>2 DEF UploadInv, OneSlot
<1>4. /\ ~Uploading(r)' /\ ~Uploaded(r)'
      /\ \A q \in Requests : q # r => upload'[q] = upload[q]
  BY <1>1 DEF UploadInv, UploadTypes, Uploading, Uploaded, Uploads!Idle
<1>5. \A s \in Slots : \/ url'[s] = url[s] /\ (s # slot \/ new = old)
                       \/ url'[s] = new /\ s = slot /\ new # old
  BY <1>1, <1>2 DEF UploadInv, UploadTypes
<1>6. UploadTypes'
  <2>1. url' \in [Slots -> Given]
    BY <1>1, <1>2 DEF UploadInv, UploadTypes
  <2>2. upload' = [q \in Requests |-> upload'[q]]
    BY <1>1 DEF UploadInv, UploadTypes
  <2>3. Given' = Given
    BY <1>1 DEF Given
  <2> QED BY <1>1, <1>4, <2>1, <2>2, <2>3 DEF UploadInv, UploadTypes, Uploading, Uploaded
<1>7. OneSlot'
  BY <1>3, <1>4, <1>5 DEF UploadInv, OneSlot, Uploading, Uploaded
<1>8. \A f : Found(f) /\ (f = Unset \/ f # old) => Found(f)'
  BY <1>1, <1>2 DEF Found
<1>9. \A s \in Slots : Found(url[s])'
  <2>1. \A s \in Slots : Found(url'[s]) /\ (url'[s] = Unset \/ url'[s] # old)
    BY <1>3, <1>5 DEF UploadInv, Found
  <2> QED BY <1>8, <2>1 DEF Found
<1>10. \A q \in Requests : Uploaded(q)' => Found(upload[q].new)'
  BY <1>3, <1>4, <1>8 DEF UploadInv, Uploaded, Found
<1> QED BY <1>6, <1>7, <1>9, <1>10 DEF UploadInv

LEMMA UploadStep ==
    ASSUME UploadInv, [Uploads!Next]_uploads
    PROVE  UploadInv'
<1>1. ASSUME NEW r \in Requests, NEW s \in Slots, Uploads!Begin(r, s)
      PROVE  UploadInv'
  BY <1>1, UploadBegins
<1>2. ASSUME NEW r \in Requests, Uploads!Refuse(r) \/ Uploads!Abort(r)
      PROVE  UploadInv'
  BY <1>2, UploadEnds DEF Uploads!Refuse, Uploads!Abort
<1>3. ASSUME NEW r \in Requests, Uploads!Write(r) \/ Uploads!Clear(r)
      PROVE  UploadInv'
  BY <1>3, UploadWrites
<1>4. ASSUME NEW r \in Requests, Uploads!Commit(r)
      PROVE  UploadInv'
  BY <1>4, UploadCommits
<1>5. uploaded \in Nat
  BY DEF UploadInv, UploadTypes
<1>6. CASE Uploads!AdminUpload
  BY <1>5, <1>6, FilesMove DEF Uploads!AdminUpload
<1>7. ASSUME NEW f \in Uploads!FileNames, Uploads!SetLogo(f) \/ Uploads!DeleteUnused(f)
      PROVE  UploadInv'
  BY <1>5, <1>7, FilesMove DEF Uploads!SetLogo, Uploads!DeleteUnused
<1>8. CASE Uploads!List \/ Uploads!Expire \/ UNCHANGED uploads
  BY <1>5, <1>8, FilesMove DEF Uploads!List, Uploads!Expire, uploads
<1> QED BY <1>1, <1>2, <1>3, <1>4, <1>6, <1>7, <1>8 DEF Uploads!Next

\* upload_cover, upload_badge_icon and clear_badge_icon in profile.py.
LEMMA CoversAreThere == AccountsSpec => []Uploads!CoverExists
<1>1. AccountsInit => UploadInv
  BY DEF AccountsInit, Uploads!Init, UploadInv, UploadTypes, OneSlot, Uploading, Uploaded, Given,
     Found, Uploads!Idle
<1>2. UploadInv /\ [AccountsNext]_all => UploadInv'
  BY StepOfUploads, UploadStep
<1>3. UploadInv => Uploads!CoverExists
  BY DEF UploadInv, Uploads!CoverExists, Found
<1> QED BY <1>1, <1>2, <1>3, PTL DEF AccountsSpec

-----------------------------------------------------------------------------
(***************************************************************************)
(* Backups: the last night's copy stays.                                   *)
(***************************************************************************)
LEMMA StepOfBackups == ASSUME [AccountsNext]_all PROVE [Backups!Next]_backups
  BY DEF AccountsNext, all, SessionsStep, RolesStep, PlaytimeStep, GameLinkStep,
         CommunityStep, MessagesStep, UploadsStep, MaintenanceStep, PresenceStep,
         BackupsStep, LoginsStep

LEMMA CountedCopies == ASSUME NEW S PROVE Backups!Cardinality(S) = Cardinality(S)
  BY DEF Backups!Cardinality, Cardinality

CopyTypes ==
    /\ db \in Nat /\ stored \in Nat /\ copied \in Nat /\ created \in Nat
    /\ flooded \in BOOLEAN
    /\ copies \in [DOMAIN copies -> Nat \cup {Unset}]
    /\ DOMAIN copies \subseteq 1..copied
    /\ night # Unset => night \in [file : Nat, has : Nat, step : {"copy", "offsite", "prune"}]
    /\ create # Unset => create \in [file : Nat, has : Nat]

\* A file has one writer, and until that is done it is incomplete.
OneWriter ==
    /\ night # Unset => night.file <= copied
    /\ create # Unset => create.file <= copied
    /\ night # Unset /\ create # Unset => night.file # create.file
    /\ create # Unset /\ create.file \in DOMAIN copies => copies[create.file] = Unset

\* Since the night's file administrators have made `created' files; the file is there,
\* and complete once it was copied.
NightsFile ==
    /\ night # Unset => copied = night.file + created
    /\ night # Unset /\ ~removed =>
          /\ night.file \in DOMAIN copies
          /\ night.step # "copy" => copies[night.file] = stored /\ stored = night.has

\* What was begun after the night's file has at least as much, once it is complete.
NewerHasMore ==
    night # Unset =>
        /\ night.has <= db
        /\ \A n \in DOMAIN copies : n > night.file /\ copies[n] # Unset => copies[n] >= night.has
        /\ create # Unset /\ create.file > night.file => create.has >= night.has

CopyInv == CopyTypes /\ OneWriter /\ NightsFile /\ NewerHasMore /\ Backups!LastNightIsKept

\* A file is added, or the incomplete one of an administrator is complete.
LEMMA NewNumber ==
    ASSUME CopyTypes, NEW v \in Nat \cup {Unset},
           copies' = Backups!With(copies, copied + 1, v)
    PROVE  /\ DOMAIN copies' = DOMAIN copies \cup {copied + 1}
           /\ copied + 1 \notin DOMAIN copies
           /\ DOMAIN copies' \subseteq 1..(copied + 1)
           /\ copies'[copied + 1] = v
           /\ \A n \in DOMAIN copies : copies'[n] = copies[n]
           /\ copies' \in [DOMAIN copies' -> Nat \cup {Unset}]
  BY DEF CopyTypes, Backups!With

LEMMA CopyMidnight ==
    ASSUME CopiesAssumption, CopyInv, Backups!Midnight
    PROVE  CopyInv'
<1>1. /\ copied' = copied + 1 /\ created' = 0
      /\ copies' = Backups!With(copies, copied + 1, Unset)
      /\ night' = [file |-> copied + 1, has |-> db, step |-> "copy"]
      /\ UNCHANGED <<db, create, stored, removed, flooded>>
  BY DEF Backups!Midnight
<1>2. /\ DOMAIN copies' = DOMAIN copies \cup {copied + 1}
      /\ copied + 1 \notin DOMAIN copies
      /\ DOMAIN copies' \subseteq 1..(copied + 1)
      /\ copies'[copied + 1] = Unset
      /\ \A n \in DOMAIN copies : copies'[n] = copies[n]
      /\ copies' \in [DOMAIN copies' -> Nat \cup {Unset}]
  BY <1>1, NewNumber DEF CopyInv
<1>3. night'.file = copied + 1 /\ night'.has = db /\ night'.step = "copy" /\ night' \in [file : Nat, has : Nat, step : {"copy", "offsite", "prune"}]
  BY <1>1 DEF CopyInv, CopyTypes
<1>4. db \in Nat /\ copied \in Nat /\ created \in Nat
  BY DEF CopyInv, CopyTypes
<1>5. CopyTypes'
  BY <1>1, <1>2, <1>3, <1>4 DEF CopyInv, CopyTypes
<1>6. OneWriter'
  <2>1. create # Unset => create.file \in Nat
    BY DEF CopyInv, CopyTypes
  <2> QED BY <1>1, <1>2, <1>3, <1>4, <2>1 DEF CopyInv, OneWriter
<1>7. NightsFile'
  BY <1>1, <1>2, <1>3, <1>4 DEF CopyInv, NightsFile
<1>8. Backups!LastNightIsKept'
  BY <1>1, <1>2 DEF CopyInv, Backups!LastNightIsKept
<1>9. NewerHasMore'
  <2>1. create # Unset => create.file <= copied /\ create.file \in Nat
    BY DEF CopyInv, CopyTypes, OneWriter
  <2>2. \A n \in DOMAIN copies' : ~(n > copied + 1)
    BY <1>2, <1>4
  <2> QED BY <1>1, <1>3, <1>4, <2>1, <2>2 DEF NewerHasMore
<1> QED BY <1>5, <1>6, <1>7, <1>8, <1>9 DEF CopyInv

LEMMA CopyCreate ==
    ASSUME CopiesAssumption, CopyInv, Backups!CreateBackup
    PROVE  CopyInv'
<1>1. /\ copied' = copied + 1 /\ created' = created + 1
      /\ copies' = Backups!With(copies, copied + 1, Unset)
      /\ create' = [file |-> copied + 1, has |-> db]
      /\ UNCHANGED <<db, night, stored, removed, flooded>>
  BY DEF Backups!CreateBackup
<1>2. /\ DOMAIN copies' = DOMAIN copies \cup {copied + 1}
      /\ copied + 1 \notin DOMAIN copies
      /\ DOMAIN copies' \subseteq 1..(copied + 1)
      /\ copies'[copied + 1] = Unset
      /\ \A n \in DOMAIN copies : copies'[n] = copies[n]
      /\ copies' \in [DOMAIN copies' -> Nat \cup {Unset}]
  BY <1>1, NewNumber DEF CopyInv
<1>3. create'.file = copied + 1 /\ create'.has = db /\ create' \in [file : Nat, has : Nat]
  BY <1>1 DEF CopyInv, CopyTypes
<1>4. copied \in Nat /\ created \in Nat /\ (night # Unset => night.file \in Nat)
  BY DEF CopyInv, CopyTypes
<1>5. CopyTypes'
  BY <1>1, <1>2, <1>3, <1>4 DEF CopyInv, CopyTypes
<1>6. OneWriter'
  BY <1>1, <1>2, <1>3, <1>4 DEF CopyInv, OneWriter
<1>7. NightsFile'
  BY <1>1, <1>2, <1>4 DEF CopyInv, NightsFile
<1>8. Backups!LastNightIsKept'
  BY <1>1, <1>2 DEF CopyInv, Backups!LastNightIsKept
<1>9. NewerHasMore'
  BY <1>1, <1>2, <1>3 DEF CopyInv, NewerHasMore
<1> QED BY <1>5, <1>6, <1>7, <1>8, <1>9 DEF CopyInv

LEMMA Completed ==
    ASSUME CopyTypes, NEW file \in Nat, NEW has \in Nat, NEW copy,
           copy.file = file, copy.has = has, copies' = Backups!Copied(copy)
    PROVE  /\ DOMAIN copies' = DOMAIN copies
           /\ copies' \in [DOMAIN copies' -> Nat \cup {Unset}]
           /\ \A n \in DOMAIN copies : copies'[n] = IF n = file THEN has ELSE copies[n]
<1>1. CASE file \in DOMAIN copies
  BY <1>1 DEF CopyTypes, Backups!Copied, Backups!With
<1>2. CASE file \notin DOMAIN copies
  BY <1>2 DEF CopyTypes, Backups!Copied
<1> QED BY <1>1, <1>2

LEMMA CopyNightCopied ==
    ASSUME CopiesAssumption, CopyInv, Backups!NightCopied
    PROVE  CopyInv'
<1>1. PICK file \in Nat, has \in Nat : /\ night.file = file /\ night.has = has
                                       /\ night' = [file |-> file, has |-> has, step |-> "offsite"]
  <2>1. night' = [night EXCEPT !.step = "offsite"] /\ night # Unset
    BY DEF Backups!NightCopied
  <2>2. night \in [file : Nat, has : Nat, step : {"copy", "offsite", "prune"}]
    BY <2>1 DEF CopyInv, CopyTypes
  <2>3. [night EXCEPT !.step = "offsite"] = [file |-> night.file, has |-> night.has, step |-> "offsite"]
    BY <2>2
  <2> QED BY <2>1, <2>2, <2>3
<1>2. /\ night # Unset /\ copies' = Backups!Copied(night)
      /\ stored' = IF file \in DOMAIN copies THEN has ELSE stored
      /\ flooded' = FALSE
      /\ UNCHANGED <<db, copied, create, created, removed>>
  BY <1>1 DEF Backups!NightCopied
<1>3. /\ DOMAIN copies' = DOMAIN copies
      /\ copies' \in [DOMAIN copies' -> Nat \cup {Unset}]
      /\ \A n \in DOMAIN copies : copies'[n] = IF n = file THEN has ELSE copies[n]
  BY <1>1, <1>2, Completed DEF CopyInv
<1>4. /\ night'.file = file /\ night'.has = has /\ night'.step = "offsite"
      /\ night' \in [file : Nat, has : Nat, step : {"copy", "offsite", "prune"}]
  BY <1>1
<1>5. CopyTypes'
  BY <1>2, <1>3, <1>4 DEF CopyInv, CopyTypes
<1>6. OneWriter'
  BY <1>1, <1>2, <1>3, <1>4 DEF CopyInv, OneWriter
<1>7. NightsFile'
  BY <1>1, <1>2, <1>3, <1>4 DEF CopyInv, NightsFile
<1>8. Backups!LastNightIsKept'
  <2> SUFFICES ASSUME ~removed
               PROVE  \E n \in DOMAIN copies' : copies'[n] # Unset /\ copies'[n] >= stored'
    BY <1>2 DEF Backups!LastNightIsKept
  <2>1. file \in DOMAIN copies
    BY <1>1, <1>2 DEF CopyInv, NightsFile
  <2> QED BY <1>2, <1>3, <2>1 DEF CopiesAssumption
<1>9. NewerHasMore'
  BY <1>1, <1>2, <1>3, <1>4 DEF CopyInv, NewerHasMore
<1> QED BY <1>5, <1>6, <1>7, <1>8, <1>9 DEF CopyInv

LEMMA CopyCreateCopied ==
    ASSUME CopiesAssumption, CopyInv, Backups!CreateCopied
    PROVE  CopyInv'
<1>1. PICK file \in Nat, has \in Nat : create.file = file /\ create.has = has
  BY DEF Backups!CreateCopied, CopyInv, CopyTypes
<1>2. /\ create # Unset /\ create' = Unset /\ copies' = Backups!Copied(create)
      /\ UNCHANGED <<db, copied, night, created, stored, removed, flooded>>
  BY DEF Backups!CreateCopied
<1>3. /\ DOMAIN copies' = DOMAIN copies
      /\ copies' \in [DOMAIN copies' -> Nat \cup {Unset}]
      /\ \A n \in DOMAIN copies : copies'[n] = IF n = file THEN has ELSE copies[n]
  BY <1>1, <1>2, Completed DEF CopyInv
<1>4. CopyTypes' /\ OneWriter'
  BY <1>2, <1>3 DEF CopyInv, CopyTypes, OneWriter
<1>5. NightsFile'
  <2>1. night # Unset => night.file # file
    BY <1>1, <1>2 DEF CopyInv, OneWriter
  <2> QED BY <1>2, <1>3, <2>1 DEF CopyInv, NightsFile
<1>6. file \in DOMAIN copies => copies[file] = Unset
  BY <1>1, <1>2 DEF CopyInv, OneWriter
<1>7. Backups!LastNightIsKept'
  BY <1>2, <1>3, <1>6 DEF CopyInv, Backups!LastNightIsKept
<1>8. NewerHasMore'
  BY <1>1, <1>2, <1>3 DEF CopyInv, NewerHasMore
<1> QED BY <1>4, <1>5, <1>7, <1>8 DEF CopyInv

\* Fewer files are newer than the night's than the task keeps.
LEMMA NightIsNoSurplus ==
    ASSUME CopiesAssumption, CopyInv, night # Unset, created < KeptCopies
    PROVE  night.file \notin Backups!Surplus
<1> DEFINE file == night.file
           newer == {k \in DOMAIN copies : k > file}
<1>1. /\ file \in Nat /\ copied \in Nat /\ created \in Nat /\ copied = file + created
      /\ KeptCopies \in Nat
  BY DEF CopyInv, CopyTypes, NightsFile, CopiesAssumption, Backups!BackupsAssumption
<1>2. newer \subseteq (file + 1)..copied
  BY <1>1 DEF CopyInv, CopyTypes
<1> HIDE DEF file, newer
<1>3. IsFiniteSet((file + 1)..copied) /\ Cardinality((file + 1)..copied) = created
  <2>1. file + 1 \in Int /\ copied \in Int
    BY <1>1
  <2>2. /\ IsFiniteSet((file + 1)..copied)
        /\ Cardinality((file + 1)..copied) = IF file + 1 > copied THEN 0 ELSE copied - (file + 1) + 1
    BY <2>1, FS_Interval
  <2> QED BY <1>1, <2>2
<1>4. Cardinality(newer) <= created /\ Cardinality(newer) \in Nat
  BY <1>2, <1>3, FS_Subset, FS_CardinalityType
<1>5. ~(Backups!Cardinality(newer) >= KeptCopies)
  BY <1>1, <1>4, CountedCopies
<1> QED BY <1>5 DEF Backups!Surplus, file, newer

LEMMA CopyPrune ==
    ASSUME CopiesAssumption, CopyInv, Backups!Prune
    PROVE  CopyInv'
<1>1. /\ night # Unset /\ night.step = "prune" /\ night' = Unset
      /\ copies' = Backups!Without(copies, Backups!Surplus)
      /\ flooded' = Backups!Floods
      /\ UNCHANGED <<db, copied, create, created, stored, removed>>
  BY DEF Backups!Prune
<1>2. /\ DOMAIN copies' = DOMAIN copies \ Backups!Surplus
      /\ \A n \in DOMAIN copies' : copies'[n] = copies[n]
      /\ copies' \in [DOMAIN copies' -> Nat \cup {Unset}]
  BY <1>1 DEF CopyInv, CopyTypes, Backups!Without
<1>3. CopyTypes' /\ OneWriter' /\ NightsFile' /\ NewerHasMore'
  <2>1. flooded' \in BOOLEAN
    BY <1>1, Zenon DEF Backups!Floods
  <2> QED BY <1>1, <1>2, <2>1 DEF CopyInv, CopyTypes, OneWriter, NightsFile, NewerHasMore
<1>4. Backups!LastNightIsKept'
  <2> SUFFICES ASSUME ~removed, ~Backups!Floods
               PROVE  \E n \in DOMAIN copies' : copies'[n] # Unset /\ copies'[n] >= stored'
    BY <1>1 DEF Backups!LastNightIsKept
  <2>1. created \in Nat /\ KeptCopies \in Nat
    BY DEF CopyInv, CopyTypes, CopiesAssumption, Backups!BackupsAssumption
  <2>2. CASE created < KeptCopies
    <3>1. night.file \in DOMAIN copies' /\ copies'[night.file] = stored
      BY <1>1, <1>2, <2>2, NightIsNoSurplus DEF CopyInv, NightsFile
    <3> QED BY <1>1, <3>1 DEF CopyInv, CopyTypes, CopiesAssumption
  <2>3. CASE created >= KeptCopies
    <3>1. PICK n \in DOMAIN copies' : n > night.file /\ copies[n] # Unset
      BY <1>2, <2>3 DEF Backups!Floods
    <3>2. copies[n] >= night.has /\ stored = night.has
      BY <1>1, <1>2, <3>1 DEF CopyInv, NewerHasMore, NightsFile
    <3> QED BY <1>1, <1>2, <3>1, <3>2
  <2> QED BY <2>1, <2>2, <2>3
<1> QED BY <1>3, <1>4 DEF CopyInv

LEMMA CopyStep ==
    ASSUME CopiesAssumption, CopyInv, [Backups!Next]_backups
    PROVE  CopyInv'
<1> USE DEF CopyInv
<1>1. CASE Backups!Commit
  BY <1>1 DEF Backups!Commit, CopyTypes, OneWriter, NightsFile,
     NewerHasMore, Backups!LastNightIsKept
<1>2. CASE Backups!Midnight
  BY <1>2, CopyMidnight
<1>3. CASE Backups!NightCopied
  BY <1>3, CopyNightCopied
<1>4. CASE Backups!NightFails
  BY <1>4 DEF Backups!NightFails, CopyTypes, OneWriter, NightsFile,
     NewerHasMore, Backups!LastNightIsKept
<1>5. CASE Backups!Offsite
  <2>1. /\ night # Unset /\ night.step = "offsite" /\ night' = [night EXCEPT !.step = "prune"]
        /\ UNCHANGED <<db, copies, copied, create, created, stored, removed, flooded>>
    BY <1>5 DEF Backups!Offsite
  <2>2. night \in [file : Nat, has : Nat, step : {"copy", "offsite", "prune"}]
    BY <2>1 DEF CopyTypes
  <2>3. /\ night' \in [file : Nat, has : Nat, step : {"copy", "offsite", "prune"}]
        /\ night'.file = night.file /\ night'.has = night.has /\ night'.step = "prune"
    BY <2>1, <2>2
  <2> QED BY <2>1, <2>3 DEF CopyTypes, OneWriter, NightsFile,
     NewerHasMore, Backups!LastNightIsKept
<1>6. CASE Backups!Prune
  BY <1>6, CopyPrune
<1>7. CASE Backups!CreateBackup
  BY <1>7, CopyCreate
<1>8. CASE Backups!CreateCopied
  BY <1>8, CopyCreateCopied
<1>9. CASE Backups!CreateFails
  BY <1>9 DEF Backups!CreateFails, CopyTypes, OneWriter, NightsFile,
     NewerHasMore, Backups!LastNightIsKept
<1>10. ASSUME NEW n \in Backups!Numbers, Backups!DeleteBackup(n)
       PROVE  CopyInv'
  BY <1>10 DEF Backups!DeleteBackup, Backups!Without, CopyTypes, OneWriter, NightsFile,
     NewerHasMore, Backups!LastNightIsKept
<1>11. CASE Backups!Crash
  BY <1>11 DEF Backups!Crash, CopyTypes, OneWriter, NightsFile,
     NewerHasMore, Backups!LastNightIsKept
<1>12. CASE UNCHANGED backups
  BY <1>12 DEF backups, CopyTypes, OneWriter, NightsFile,
     NewerHasMore, Backups!LastNightIsKept
<1> QED BY <1>1, <1>2, <1>3, <1>4, <1>5, <1>6, <1>7, <1>8, <1>9, <1>10, <1>11, <1>12
        DEF Backups!Next

\* _auto_backup_task in main.py: nights that fail do not push the last complete copy
\* out of those that stay, nor do the files of administrators unless a night keeps nothing
\* but their failures.
LEMMA LastNightStays == ASSUME CopiesAssumption PROVE AccountsSpec => []Backups!LastNightIsKept
<1>1. ASSUME AccountsInit PROVE CopyInv
  <2>1. /\ db = 0 /\ stored = 0 /\ copied = 0 /\ created = 0 /\ flooded = FALSE
        /\ copies = [n \in {} |-> 0] /\ night = Unset /\ create = Unset
    BY <1>1 DEF AccountsInit, Backups!Init
  <2>2. flooded \in BOOLEAN
    BY <2>1, Zenon
  <2>3. CopyTypes
    BY <2>1, <2>2 DEF CopyTypes
  <2> QED BY <2>1, <2>3 DEF CopyInv, OneWriter, NightsFile, NewerHasMore,
                            Backups!LastNightIsKept
<1>2. CopyInv /\ [AccountsNext]_all => CopyInv'
  BY StepOfBackups, CopyStep
<1>3. CopyInv => Backups!LastNightIsKept
  BY DEF CopyInv
<1> QED BY <1>1, <1>2, <1>3, PTL DEF AccountsSpec

\* The files that somebody relies on: the images that rows name, and the copy of the
\* database from the last night that one was completed.
THEOREM FilesStay == ASSUME CopiesAssumption PROVE AccountsSpec => []FilesAreKept
<1>1. Uploads!CoverExists /\ Backups!LastNightIsKept => FilesAreKept
  BY DEF FilesAreKept
<1> QED BY <1>1, CoversAreThere, LastNightStays, PTL

-----------------------------------------------------------------------------
(***************************************************************************)
(* Playtime: a report that is under way belongs to the name its player     *)
(* bears, and to a row that is the player's or that nobody can take        *)
(* meanwhile; what it reports is not paid for yet.                         *)
(***************************************************************************)
LEMMA StepOfPlaytime == ASSUME [AccountsNext]_all PROVE [Playtime!Next]_playtime
  BY DEF AccountsNext, all, SessionsStep, RolesStep, PlaytimeStep, GameLinkStep,
         CommunityStep, MessagesStep, UploadsStep, MaintenanceStep, PresenceStep,
         BackupsStep, LoginsStep

Sighting == [name : Names, seconds : Nat]
SentReport(p) == [stage : {"sent"}, name : {name[p]}, seconds : Nat]
ReadReport(p) == [stage : {"read"}, name : {name[p]}, seconds : Nat, id : {0}, row : {Unset}]
    \cup [stage : {"read"}, name : {name[p]}, seconds : Nat, id : DOMAIN records,
          row : Playtime!Record]
AskedPoll == [stage : {"asked"}, seen : SUBSET Sighting]
ReadPoll == [stage : {"read"}, seen : SUBSET Sighting, first : Sighting, id : {0}, row : {Unset}]
    \cup [stage : {"read"}, seen : SUBSET Sighting, first : Sighting, id : DOMAIN records,
          row : Playtime!Record]

PlayersType ==
    /\ name \in [Players -> Names]
    /\ \A p, q \in Players : name[p] = name[q] => p = q
    /\ session \in [Players -> Nat \cup {Unset}]
    /\ played \in [Players -> Nat]
    /\ points \in [Players -> Nat]
ReportsType ==
    /\ report = [p \in Players |-> report[p]]
    /\ \A p \in Players : \/ report[p] = Playtime!Idle
                          \/ session[p] = Unset /\ report[p] \in SentReport(p) \cup ReadReport(p)
PollType ==
    \/ poll = Playtime!Idle
    \/ poll \in AskedPoll \cup ReadPoll /\ IsFiniteSet(poll.seen)
PlayTypes ==
    /\ PlayersType
    /\ records \in Seq(Playtime!Record)
    /\ ReportsType
    /\ PollType

PlayAssumption == Playtime!PlaytimeAssumption

-----------------------------------------------------------------------------
\* Lemmas about minutes, sets and records.
LEMMA WholeMinutes ==
    ASSUME NEW s \in Nat, NEW m \in Nat \ {0}
    PROVE  s \div m \in Nat /\ (s \div m) * m <= s
<1>1. s \div m \in Int /\ s = m * (s \div m) + (s % m) /\ s % m \in 0..(m - 1)
  BY Z3T(20)
<1> DEFINE d == s \div m
           e == s % m
<1>2. d \in Int /\ e \in 0..m-1 /\ s = m * d + e
  BY <1>1
<1> HIDE DEF d, e
<1>3. d >= 0
  <2> SUFFICES ASSUME d <= -1 PROVE FALSE
    BY <1>2
  <2>1. m * d <= -m
    BY <1>2, Z3T(20)
  <2> QED BY <1>2, <2>1
<1>4. d * m <= s
  BY <1>2
<1> QED BY <1>2, <1>3, <1>4 DEF d

LEMMA FiniteImage ==
    ASSUME NEW S, IsFiniteSet(S), NEW f, DOMAIN f = S, f = [x \in S |-> f[x]]
    PROVE  IsFiniteSet({f[x] : x \in S})
<1> DEFINE T == {f[x] : x \in S}
<1>1. f \in Surjection(S, T)
  BY DEF Surjection
<1> QED BY <1>1, FS_Surjection

\* A set in the order of a sequence.
LEMMA Enumerated ==
    ASSUME NEW S, IsFiniteSet(S)
    PROVE  Playtime!SetToSeq(S) \in Seq(S)
<1>1. Cardinality(S) \in Nat /\ ExistsBijection(1..Cardinality(S), S)
  BY FS_CardinalityType
<1>2. PICK f : f \in [1..Cardinality(S) -> S] /\ IsInjective(f)
  BY <1>1 DEF ExistsBijection, Bijection, Injection
<1>3. Playtime!Cardinality(S) = Cardinality(S) /\ Playtime!IsInjective(f) = IsInjective(f)
  BY DEF Playtime!Cardinality, Cardinality, Playtime!IsInjective, IsInjective
<1>4. Playtime!SetToSeq(S) \in [1..Cardinality(S) -> S]
  BY <1>2, <1>3 DEF Playtime!SetToSeq
<1> QED BY <1>1, <1>4

\* Only what an object changed is written back.
LEMMA FlushedRecord ==
    ASSUME NEW row \in Playtime!Record, NEW read, NEW new \in Playtime!Record
    PROVE  /\ Playtime!Flushed(row, read, new) \in Playtime!Record
           /\ Playtime!Flushed(row, read, new).name =
                 IF new.name = read.name THEN row.name ELSE new.name
           /\ Playtime!Flushed(row, read, new).steam =
                 IF new.steam = read.steam THEN row.steam ELSE new.steam
  BY DEF Playtime!Flushed, Playtime!Record

LEMMA CountedRecord ==
    ASSUME NEW row \in Playtime!Record, NEW seconds \in Nat
    PROVE  /\ Playtime!Counted(row, seconds) \in Playtime!Record
           /\ Playtime!Counted(row, seconds).name = row.name
           /\ Playtime!Counted(row, seconds).steam = row.steam
<1>1. CASE seconds >= row.last
  <2>1. row.total + (seconds - row.last) \in Nat
    BY <1>1 DEF Playtime!Record
  <2> QED BY <1>1, <2>1 DEF Playtime!Counted, Playtime!Record
<1>2. CASE ~(seconds >= row.last)
  <2>1. row.total + seconds \in Nat
    BY DEF Playtime!Record
  <2> QED BY <1>2, <2>1 DEF Playtime!Counted, Playtime!Record
<1> QED BY <1>1, <1>2

-----------------------------------------------------------------------------
\* What is written: the rows of a report,
LEMMA RecordsDomain ==
    ASSUME records \in Seq(Playtime!Record)
    PROVE  DOMAIN records = 1..Len(records) /\ Len(records) \in Nat /\ 0 \notin DOMAIN records
  OBVIOUS

LEMMA ReportFields ==
    ASSUME PlayAssumption, PlayTypes, NEW p \in Players, report[p].stage = "read"
    PROVE  /\ session[p] = Unset
           /\ report[p].name = name[p] /\ report[p].seconds \in Nat
           /\ \/ report[p].id = 0
              \/ report[p].id # 0 /\ report[p].id \in DOMAIN records
                 /\ report[p].row \in Playtime!Record
<1>1. report[p] \in ReadReport(p) /\ session[p] = Unset
  BY DEF PlayTypes, ReportsType, Playtime!Idle, SentReport
<1>2. 0 \notin DOMAIN records
  BY RecordsDomain DEF PlayTypes
<1> QED BY <1>1, <1>2 DEF ReadReport

LEMMA RowInserted ==
    ASSUME PlayAssumption, PlayTypes, NEW p \in Players, Playtime!ReportWrite(p),
           report[p].id = 0
    PROVE  /\ records' \in Seq(Playtime!Record)
           /\ DOMAIN records' = DOMAIN records \cup {Len(records) + 1}
           /\ \A i \in DOMAIN records : records'[i] = records[i]
           /\ records'[Len(records) + 1].steam = p
<1> DEFINE new == [name |-> report[p].name, steam |-> p, total |-> 0 + report[p].seconds,
                   last |-> report[p].seconds]
<1>1. report[p].stage = "read" /\ records' = Append(records, new)
  BY DEF Playtime!ReportWrite, Playtime!Reported
<1>2. new \in Playtime!Record /\ new.steam = p
  <2>1. report[p].seconds \in Nat /\ report[p].name \in Names
    BY <1>1, ReportFields DEF PlayTypes, PlayersType
  <2>2. 0 + report[p].seconds \in Nat
    BY <2>1
  <2> QED BY <2>1, <2>2 DEF Playtime!Record
<1>3. /\ records' \in Seq(Playtime!Record) /\ Len(records') = Len(records) + 1
      /\ \A i \in 1..Len(records) : records'[i] = records[i]
      /\ records'[Len(records) + 1] = new
  <2> HIDE DEF new
  <2> QED BY <1>1, <1>2, AppendProperties DEF PlayTypes
<1>4. DOMAIN records' = 1..(Len(records) + 1) /\ DOMAIN records = 1..Len(records)
      /\ Len(records) \in Nat
  BY <1>3 DEF PlayTypes
<1>5. DOMAIN records' = DOMAIN records \cup {Len(records) + 1}
  BY <1>4
<1> QED BY <1>2, <1>3, <1>4, <1>5

LEMMA RowUpdated ==
    ASSUME PlayAssumption, PlayTypes, NEW p \in Players, Playtime!ReportWrite(p),
           report[p].id # 0
    PROVE  /\ records' \in Seq(Playtime!Record)
           /\ DOMAIN records' = DOMAIN records
           /\ \A i \in DOMAIN records : i # report[p].id => records'[i] = records[i]
           /\ records'[report[p].id].steam =
                 IF report[p].row.steam = p THEN records[report[p].id].steam ELSE p
<1> DEFINE new == Playtime!Reported(p, report[p].row)
           id == report[p].id
<1>1. /\ report[p].stage = "read"
      /\ records' = [records EXCEPT ![id] =
                        Playtime!Flushed(records[id], report[p].row, new)]
  BY DEF Playtime!ReportWrite
<1>2. id \in DOMAIN records /\ report[p].row \in Playtime!Record /\ records[id] \in Playtime!Record
  BY <1>1, ReportFields DEF PlayTypes
<1>3. new \in Playtime!Record /\ new.steam = p
  <2>1. report[p].seconds \in Nat /\ report[p].name \in Names
    BY <1>1, ReportFields DEF PlayTypes, PlayersType
  <2>2. report[p].row.total + report[p].seconds \in Nat
    BY <1>2, <2>1 DEF Playtime!Record
  <2> QED BY <2>1, <2>2 DEF Playtime!Record, Playtime!Reported
<1>4. PICK row : row = Playtime!Flushed(records[id], report[p].row, new)
  OBVIOUS
<1>5. row \in Playtime!Record
      /\ row.steam = IF report[p].row.steam = p THEN records[id].steam ELSE p
  <2> HIDE DEF new, id
  <2> QED BY <1>2, <1>3, <1>4, FlushedRecord
<1>6. records' = [records EXCEPT ![id] = row]
  BY <1>1, <1>4
<1>7. records' \in Seq(Playtime!Record) /\ DOMAIN records' = DOMAIN records
  BY <1>2, <1>5, <1>6 DEF PlayTypes
<1> QED BY <1>2, <1>5, <1>6, <1>7

\* and those of a poll, which neither renames nor claims a row.
LEMMA PollFields ==
    ASSUME PlayAssumption, PlayTypes, poll.stage = "read"
    PROVE  /\ poll.seen \in SUBSET Sighting /\ IsFiniteSet(poll.seen) /\ poll.first \in Sighting
           /\ \/ poll.id = 0
              \/ poll.id # 0 /\ poll.id \in DOMAIN records /\ poll.row \in Playtime!Record
<1>1. poll \in ReadPoll /\ IsFiniteSet(poll.seen)
  BY DEF PlayTypes, PollType, Playtime!Idle, AskedPoll
<1>2. 0 \notin DOMAIN records
  BY RecordsDomain DEF PlayTypes
<1> QED BY <1>1, <1>2 DEF ReadPoll

LEMMA Polled ==
    ASSUME PlayAssumption, PlayTypes, Playtime!PollWrite
    PROVE  /\ records' \in Seq(Playtime!Record)
           /\ DOMAIN records \subseteq DOMAIN records'
           /\ \A i \in DOMAIN records : /\ records'[i].name = records[i].name
                                        /\ records'[i].steam = records[i].steam
           /\ \A i \in DOMAIN records' \ DOMAIN records : records'[i].steam = Unset
<1> DEFINE others == poll.seen
           names == {o \in others : Playtime!RowsNamed(o.name) = {}}
                       \cup (IF poll.id = 0 THEN {poll.first} ELSE {})
           new == {Playtime!Seen(s) : s \in names}
           Row(i) ==
              IF i = poll.id
              THEN Playtime!Flushed(records[i], poll.row,
                                    Playtime!Counted(poll.row, poll.first.seconds))
              ELSE LET of == {s \in others : s.name = records[i].name}
                   IN  IF of = {} THEN records[i]
                       ELSE Playtime!Counted(records[i], (CHOOSE s \in of : TRUE).seconds)
           old == [i \in DOMAIN records |-> Row(i)]
<1>1. poll.stage = "read" /\ records' = old \o Playtime!SetToSeq(new)
  BY DEF Playtime!PollWrite, Playtime!AfterPoll
<1>2. /\ others \subseteq Sighting /\ IsFiniteSet(others) /\ poll.first \in Sighting
      /\ poll.id # 0 => poll.id \in DOMAIN records /\ poll.row \in Playtime!Record
  BY <1>1, PollFields
<1>3. \A i \in DOMAIN records : records[i] \in Playtime!Record
  BY DEF PlayTypes
<1>4. ASSUME NEW i \in DOMAIN records
      PROVE  /\ Row(i) \in Playtime!Record
             /\ Row(i).name = records[i].name /\ Row(i).steam = records[i].steam
  <2>1. CASE i = poll.id
    <3>1. i # 0
      BY RecordsDomain DEF PlayTypes
    <3>2. poll.row \in Playtime!Record /\ poll.first.seconds \in Nat
      BY <1>2, <2>1, <3>1 DEF Sighting
    <3>3. PICK c : c = Playtime!Counted(poll.row, poll.first.seconds)
      OBVIOUS
    <3>4. c \in Playtime!Record /\ c.name = poll.row.name /\ c.steam = poll.row.steam
      BY <3>2, <3>3, CountedRecord
    <3>5. Row(i) = Playtime!Flushed(records[i], poll.row, c)
      BY <2>1, <3>3
    <3> HIDE DEF Row
    <3> QED BY <1>3, <3>4, <3>5, FlushedRecord
  <2>2. CASE i # poll.id
    <3> DEFINE of == {s \in others : s.name = records[i].name}
    <3>1. CASE of = {}
      BY <1>3, <2>2, <3>1
    <3>2. CASE of # {}
      <4>1. PICK s : s = CHOOSE x \in of : TRUE
        OBVIOUS
      <4>2. s \in of
        BY <3>2, <4>1
      <4>3. s.seconds \in Nat
        BY <1>2, <4>2 DEF Sighting
      <4>4. Row(i) = Playtime!Counted(records[i], s.seconds)
        BY <2>2, <3>2, <4>1
      <4> HIDE DEF Row, of
      <4> QED BY <1>3, <4>3, <4>4, CountedRecord
    <3> QED BY <3>1, <3>2
  <2> QED BY <2>1, <2>2
<1>5. names \subseteq Sighting /\ IsFiniteSet(names)
  <2>1. IsFiniteSet({o \in others : Playtime!RowsNamed(o.name) = {}})
    BY <1>2, FS_Subset
  <2>2. IsFiniteSet(IF poll.id = 0 THEN {poll.first} ELSE {})
    BY FS_Singleton, FS_EmptySet
  <2>3. IsFiniteSet(names)
    BY <2>1, <2>2, FS_Union
  <2> QED BY <1>2, <2>3
<1>6. IsFiniteSet(new)
  <2> DEFINE f == [s \in names |-> Playtime!Seen(s)]
  <2>1. new = {f[s] : s \in names}
    OBVIOUS
  <2>2. IsFiniteSet({f[s] : s \in names})
    <3>1. DOMAIN f = names /\ f = [s \in names |-> f[s]] /\ IsFiniteSet(names)
      BY <1>5
    <3> HIDE DEF f, names
    <3> QED BY <3>1, FiniteImage
  <2> QED BY <2>1, <2>2
<1>7. \A x \in new : x \in Playtime!Record /\ x.steam = Unset
  BY <1>5 DEF Playtime!Seen, Playtime!Record, Sighting
<1>8. PICK seq : seq = Playtime!SetToSeq(new) /\ seq \in Seq(new)
  BY <1>6, Enumerated
<1>9. seq \in Seq(Playtime!Record) /\ \A i \in 1..Len(seq) : seq[i].steam = Unset
  <2> HIDE DEF new
  <2>1. \A i \in 1..Len(seq) : seq[i] \in new
    BY <1>8, ElementOfSeq
  <2>2. new \subseteq Playtime!Record
    BY <1>7
  <2> QED BY <1>7, <1>8, <2>1, <2>2, SeqMonotonic
<1>10. PICK o : o = old
  OBVIOUS
<1>11. o \in Seq(Playtime!Record) /\ Len(o) = Len(records) /\ DOMAIN o = DOMAIN records
       /\ \A i \in DOMAIN records : o[i].name = records[i].name /\ o[i].steam = records[i].steam
  <2>1. DOMAIN records = 1..Len(records) /\ Len(records) \in Nat
    BY RecordsDomain DEF PlayTypes
  <2> HIDE DEF Row
  <2>2. o \in [1..Len(records) -> Playtime!Record]
    BY <1>4, <1>10, <2>1
  <2>3. o \in Seq(Playtime!Record) /\ Len(o) = Len(records)
    BY <2>1, <2>2
  <2> QED BY <1>4, <1>10, <2>3
<1>12. records' = o \o seq
  BY <1>1, <1>8, <1>10
<1>13. /\ records' \in Seq(Playtime!Record) /\ Len(records') = Len(o) + Len(seq)
       /\ \A i \in 1..(Len(o) + Len(seq)) :
             records'[i] = IF i <= Len(o) THEN o[i] ELSE seq[i - Len(o)]
  <2>1. o \in Seq(Playtime!Record) /\ seq \in Seq(Playtime!Record)
    BY <1>9, <1>11
  <2> QED BY ONLY <1>12, <2>1, ConcatProperties
<1>14. /\ Len(o) \in Nat /\ Len(seq) \in Nat
       /\ DOMAIN records = 1..Len(o) /\ DOMAIN records' = 1..(Len(o) + Len(seq))
  BY <1>9, <1>11, <1>13, RecordsDomain DEF PlayTypes
<1> HIDE DEF others, names, new, Row, old
<1>15. \A i \in DOMAIN records : records'[i] = o[i]
  BY <1>13, <1>14
<1>16. ASSUME NEW i \in DOMAIN records' \ DOMAIN records PROVE records'[i].steam = Unset
  <2>1. i - Len(o) \in 1..Len(seq) /\ records'[i] = seq[i - Len(o)]
    BY <1>13, <1>14
  <2> QED BY <1>9, <2>1
<1> QED BY <1>11, <1>13, <1>14, <1>15, <1>16

-----------------------------------------------------------------------------
\* Types, one step at a time.
LEMMA GrownTypes ==
    ASSUME PlayTypes, PlayersType', records' \in Seq(Playtime!Record),
           DOMAIN records \subseteq DOMAIN records', UNCHANGED <<name, session>>,
           report' = [p \in Players |-> report'[p]],
           \A p \in Players : report'[p] = report[p] \/ report'[p] = Playtime!Idle,
           poll' = poll \/ poll' = Playtime!Idle
    PROVE  PlayTypes'
<1>1. \A p \in Players : ReadReport(p) \subseteq ReadReport(p)' /\ SentReport(p)' = SentReport(p)
  BY DEF ReadReport, SentReport
<1>2. ReadPoll \subseteq ReadPoll' /\ AskedPoll' = AskedPoll
  BY DEF ReadPoll, AskedPoll
<1>3. ReportsType'
  BY <1>1 DEF ReportsType, PlayTypes
<1>4. PollType'
  BY <1>2 DEF PollType, PlayTypes
<1> QED BY <1>3, <1>4 DEF PlayTypes

\* A step of a player's own.
LEMMA PlayersTypes ==
    ASSUME PlayTypes, PlayersType', UNCHANGED <<records, poll>>, NEW p \in Players,
           \A q \in Players \ {p} : /\ session'[q] = session[q] /\ name'[q] = name[q]
                                    /\ report'[q] = report[q],
           report' = [q \in Players |-> report'[q]],
           \/ report'[p] = Playtime!Idle
           \/ session'[p] = Unset /\ report'[p] \in SentReport(p)' \cup ReadReport(p)'
    PROVE  PlayTypes'
<1>1. \A q \in Players \ {p} : ReadReport(q) = ReadReport(q)' /\ SentReport(q)' = SentReport(q)
  BY DEF ReadReport, SentReport
<1>2. ReadPoll = ReadPoll' /\ AskedPoll' = AskedPoll
  BY DEF ReadPoll, AskedPoll
<1>3. ReportsType'
  BY <1>1 DEF ReportsType, PlayTypes
<1>4. PollType'
  BY <1>2 DEF PollType, PlayTypes
<1> QED BY <1>3, <1>4 DEF PlayTypes

\* Who is in the game has no report under way.
LEMMA InGameIdle ==
    ASSUME PlayTypes, NEW p \in Players, Playtime!InGame(p)
    PROVE  report[p] = Playtime!Idle /\ session[p] \in Nat
  BY DEF PlayTypes, ReportsType, PlayersType, Playtime!InGame

LEMMA StagesOfReports ==
    ASSUME PlayTypes, NEW p \in Players
    PROVE  /\ report[p].stage = "idle" => report[p] = Playtime!Idle
           /\ report[p].stage = "sent" => session[p] = Unset /\ report[p] \in SentReport(p)
           /\ report[p].stage = "read" => session[p] = Unset /\ report[p] \in ReadReport(p)
           /\ report[p].stage # "read" /\ report[p].stage # "sent" => report[p] = Playtime!Idle
  BY DEF PlayTypes, ReportsType, SentReport, ReadReport, Playtime!Idle

LEMMA ReportMoves ==
    ASSUME PlayTypes, NEW p \in Players, NEW to, report' = [report EXCEPT ![p] = to]
    PROVE  /\ report' = [q \in Players |-> report'[q]] /\ report'[p] = to
           /\ \A q \in Players \ {p} : report'[q] = report[q]
  BY DEF PlayTypes, ReportsType

LEMMA GameTypes ==
    ASSUME PlayAssumption, PlayTypes, NEW p \in Players,
           \/ Playtime!Join(p) \/ Playtime!Play(p) \/ Playtime!Leave(p)
           \/ \E n \in Names : Playtime!Rename(p, n)
    PROVE  PlayTypes'
<1> USE DEF Playtime!gameVars
<1>0. /\ session \in [Players -> Nat \cup {Unset}] /\ played \in [Players -> Nat]
      /\ name \in [Players -> Names] /\ report = [q \in Players |-> report[q]]
      /\ \A q, r \in Players : name[q] = name[r] => q = r
  BY DEF PlayTypes, PlayersType, ReportsType
<1>1. CASE Playtime!Join(p)
  <2>1. /\ session' = [session EXCEPT ![p] = 0] /\ report[p] = Playtime!Idle
        /\ UNCHANGED <<name, played, points, report, records, poll>>
    BY <1>1, StagesOfReports DEF Playtime!Join
  <2>2. PlayersType'
    BY <2>1 DEF PlayersType, PlayTypes
  <2> QED BY <1>0, <2>1, <2>2, PlayersTypes
<1>2. CASE Playtime!Play(p)
  <2>1. /\ session' = [session EXCEPT ![p] = session[p] + 1]
        /\ played' = [played EXCEPT ![p] = played[p] + 1]
        /\ report[p] = Playtime!Idle /\ session[p] \in Nat
        /\ UNCHANGED <<name, points, report, records, poll>>
    BY <1>2, InGameIdle DEF Playtime!Play
  <2>2. PlayersType'
    BY <2>1 DEF PlayersType, PlayTypes
  <2> QED BY <1>0, <2>1, <2>2, PlayersTypes
<1>3. CASE Playtime!Leave(p)
  <2> DEFINE to == [stage |-> "sent", name |-> name[p], seconds |-> session[p]]
  <2>1. /\ session' = [session EXCEPT ![p] = Unset] /\ session[p] \in Nat
        /\ report' = [report EXCEPT ![p] = to]
        /\ UNCHANGED <<name, played, points, records, poll>>
    BY <1>3, InGameIdle DEF Playtime!Leave
  <2>2. PlayersType'
    BY <2>1 DEF PlayersType, PlayTypes
  <2>3. session'[p] = Unset /\ to \in SentReport(p)'
    BY <1>0, <2>1 DEF SentReport
  <2>4. /\ report' = [q \in Players |-> report'[q]] /\ report'[p] = to
        /\ \A q \in Players \ {p} : report'[q] = report[q]
    <3> HIDE DEF to
    <3> QED BY <2>1, ReportMoves
  <2> HIDE DEF to
  <2> QED BY <1>0, <2>1, <2>2, <2>3, <2>4, PlayersTypes
<1>4. ASSUME NEW n \in Names, Playtime!Rename(p, n) PROVE PlayTypes'
  <2>1. /\ name' = [name EXCEPT ![p] = n] /\ \A q \in Players : name[q] # n
        /\ report[p] = Playtime!Idle
        /\ UNCHANGED <<session, played, points, report, records, poll>>
    BY <1>4, InGameIdle DEF Playtime!Rename
  <2>2. PlayersType'
    BY <2>1 DEF PlayersType, PlayTypes
  <2> QED BY <1>0, <2>1, <2>2, PlayersTypes
<1> QED BY <1>1, <1>2, <1>3, <1>4

LEMMA ReadTypes ==
    ASSUME PlayAssumption, PlayTypes, NEW p \in Players, Playtime!ReportRead(p)
    PROVE  PlayTypes'
<1> DEFINE match == Playtime!Match(p, report[p].name)
<1>1. PICK i \in IF match = {} THEN {0} ELSE match :
         report' = [report EXCEPT ![p] =
                      [stage |-> "read", name |-> report[p].name, seconds |-> report[p].seconds,
                       id |-> i, row |-> IF i = 0 THEN Unset ELSE records[i]]]
  BY DEF Playtime!ReportRead
<1>2. i = 0 \/ i \in DOMAIN records
  BY <1>1 DEF Playtime!Match, Playtime!RowsOf, Playtime!Claimable, Playtime!RowsNamed
<1>3. session[p] = Unset /\ report[p] \in SentReport(p)
  BY StagesOfReports DEF Playtime!ReportRead
<1>4. PICK row : row = IF i = 0 THEN Unset ELSE records[i]
  OBVIOUS
<1>5. (i = 0 /\ row = Unset) \/ (i \in DOMAIN records /\ row \in Playtime!Record)
  BY <1>2, <1>4, RecordsDomain DEF PlayTypes
<1> DEFINE to == [stage |-> "read", name |-> report[p].name, seconds |-> report[p].seconds,
                  id |-> i, row |-> row]
<1>6. UNCHANGED <<name, session, played, points, records, poll>>
  BY DEF Playtime!ReportRead, Playtime!gameVars
<1>7. to \in ReadReport(p) /\ ReadReport(p)' = ReadReport(p)
  BY <1>3, <1>5, <1>6 DEF ReadReport, SentReport
<1>8. report' = [report EXCEPT ![p] = to]
  BY <1>1, <1>4
<1>9. /\ report' = [q \in Players |-> report'[q]] /\ report'[p] = to
      /\ \A q \in Players \ {p} : report'[q] = report[q]
  <2> HIDE DEF to
  <2> QED BY <1>8, ReportMoves
<1>10. PlayersType'
  BY <1>6 DEF PlayTypes, PlayersType
<1> HIDE DEF to
<1> QED BY <1>3, <1>6, <1>7, <1>9, <1>10, PlayersTypes

LEMMA Salary ==
    ASSUME PlayAssumption, NEW s \in Nat, NEW row
    PROVE  Playtime!Earned(row, s) = (s \div Minute) * Rate /\ Playtime!Earned(row, s) \in Nat
<1>1. s \div Minute \in Nat /\ Rate \in Nat
  BY WholeMinutes DEF PlayAssumption, Playtime!PlaytimeAssumption
<1>2. \A a, b \in Nat : a * b \in Nat
  OBVIOUS
<1> QED BY <1>1, <1>2 DEF Playtime!Earned

\* What a report pays.
LEMMA ReportPays ==
    ASSUME PlayAssumption, PlayTypes, NEW p \in Players, Playtime!ReportWrite(p)
    PROVE  \E pay \in Nat :
              /\ points' = [points EXCEPT ![p] = points[p] + pay]
              /\ pay = 0 \/ pay = (report[p].seconds \div Minute) * Rate
<1>1. report[p].stage = "read"
  BY DEF Playtime!ReportWrite
<1>2. report[p].seconds \in Nat /\ points[p] \in Nat
  BY <1>1, ReportFields DEF PlayTypes, PlayersType
<1>3. PICK new :
        points' = [points EXCEPT ![p] = IF p \in Linked
                      THEN points[p] + Playtime!Earned(new, report[p].seconds) ELSE points[p]]
  BY DEF Playtime!ReportWrite
<1> DEFINE pay == IF p \in Linked THEN Playtime!Earned(new, report[p].seconds) ELSE 0
<1>4. pay \in Nat /\ (pay = 0 \/ pay = (report[p].seconds \div Minute) * Rate)
  BY <1>2, Salary
<1>5. (IF p \in Linked THEN points[p] + Playtime!Earned(new, report[p].seconds) ELSE points[p])
         = points[p] + pay
  BY <1>2
<1>6. points' = [points EXCEPT ![p] = points[p] + pay]
  <2> HIDE DEF pay
  <2> QED BY <1>3, <1>5
<1> QED BY <1>4, <1>6

LEMMA WriteTypes ==
    ASSUME PlayAssumption, PlayTypes, NEW p \in Players, Playtime!ReportWrite(p)
    PROVE  PlayTypes'
<1>1. records' \in Seq(Playtime!Record) /\ DOMAIN records \subseteq DOMAIN records'
  BY RowInserted, RowUpdated
<1>2. /\ report' = [report EXCEPT ![p] = Playtime!Idle]
      /\ UNCHANGED <<name, session, played, poll>>
  BY DEF Playtime!ReportWrite, Playtime!gameVars
<1>3. PlayersType'
  <2>1. PICK pay \in Nat : points' = [points EXCEPT ![p] = points[p] + pay]
    BY ReportPays
  <2> QED BY <1>2, <2>1 DEF PlayTypes, PlayersType
<1>4. /\ report' = [q \in Players |-> report'[q]]
      /\ \A q \in Players : report'[q] = report[q] \/ report'[q] = Playtime!Idle
  BY <1>2, ReportMoves
<1> QED BY <1>1, <1>2, <1>3, <1>4, GrownTypes

LEMMA FinitePlayers == ASSUME PlayAssumption PROVE IsFiniteSet(Players)
<1>1. Playtime!IsFiniteSet(Players)
  BY DEF PlayAssumption, Playtime!PlaytimeAssumption
<1> QED BY <1>1 DEF Playtime!IsFiniteSet, IsFiniteSet

LEMMA AskTypes ==
    ASSUME PlayAssumption, PlayTypes, Playtime!PollAsk
    PROVE  PlayTypes'
<1> DEFINE G == {q \in Players : Playtime!InGame(q)}
           f == [p \in G |-> [name |-> name[p], seconds |-> session[p]]]
           seen == {[name |-> name[p], seconds |-> session[p]] : p \in G}
<1>1. poll' = [stage |-> "asked", seen |-> seen]
      /\ UNCHANGED <<name, session, played, records, points, report>>
  BY DEF Playtime!PollAsk, Playtime!gameVars
<1>2. IsFiniteSet(seen)
  <2>1. IsFiniteSet(G)
    BY FinitePlayers, FS_Subset
  <2>2. seen = {f[p] : p \in G} /\ DOMAIN f = G /\ f = [p \in G |-> f[p]]
    OBVIOUS
  <2> HIDE DEF f, G
  <2> QED BY <2>1, <2>2, FiniteImage
<1>3. seen \subseteq Sighting
  BY InGameIdle DEF Sighting, PlayTypes, PlayersType
<1>4. poll' \in AskedPoll' /\ IsFiniteSet(poll'.seen)
  <2> HIDE DEF seen
  <2> QED BY <1>1, <1>2, <1>3 DEF AskedPoll
<1>5. PollType'
  BY <1>4 DEF PollType
<1> QED BY <1>1, <1>5 DEF PlayTypes, PlayersType, ReportsType, ReadReport, SentReport

LEMMA PollReadTypes ==
    ASSUME PlayAssumption, PlayTypes, Playtime!PollRead
    PROVE  PlayTypes'
<1>1. poll \in AskedPoll /\ IsFiniteSet(poll.seen)
      /\ UNCHANGED <<name, session, played, records, points, report>>
  BY DEF Playtime!PollRead, Playtime!gameVars, PlayTypes, PollType, Playtime!Idle, ReadPoll
<1>2. PICK s \in poll.seen : \E i \in IF Playtime!RowsNamed(s.name) = {} THEN {0}
                                      ELSE Playtime!RowsNamed(s.name) :
         poll' = [stage |-> "read", seen |-> poll.seen \ {s}, first |-> s,
                  id |-> i, row |-> IF i = 0 THEN Unset ELSE records[i]]
  BY DEF Playtime!PollRead
<1>3. PICK i \in IF Playtime!RowsNamed(s.name) = {} THEN {0} ELSE Playtime!RowsNamed(s.name) :
         poll' = [stage |-> "read", seen |-> poll.seen \ {s}, first |-> s,
                  id |-> i, row |-> IF i = 0 THEN Unset ELSE records[i]]
  BY <1>2
<1>4. PICK row : row = IF i = 0 THEN Unset ELSE records[i]
  OBVIOUS
<1>5. (i = 0 /\ row = Unset) \/ (i \in DOMAIN records /\ row \in Playtime!Record)
  BY <1>3, <1>4, RecordsDomain DEF PlayTypes, Playtime!RowsNamed
<1>6. PICK seen : seen = poll.seen \ {s}
  OBVIOUS
<1>7. seen \in SUBSET Sighting /\ s \in Sighting /\ IsFiniteSet(seen)
  BY <1>1, <1>2, <1>6, FS_Subset DEF AskedPoll
<1>8. poll' = [stage |-> "read", seen |-> seen, first |-> s, id |-> i, row |-> row]
  BY <1>3, <1>4, <1>6
<1>9. poll' \in ReadPoll' /\ IsFiniteSet(poll'.seen)
  BY <1>1, <1>5, <1>7, <1>8 DEF ReadPoll
<1>10. PollType'
  BY <1>9 DEF PollType
<1> QED BY <1>1, <1>10 DEF PlayTypes, PlayersType, ReportsType, ReadReport, SentReport

LEMMA PlayTypesStep ==
    ASSUME PlayAssumption, PlayTypes, [Playtime!Next]_playtime
    PROVE  PlayTypes'
<1>1. ASSUME NEW p \in Players, Playtime!ReportFails(p) PROVE PlayTypes'
  <2>1. /\ report' = [report EXCEPT ![p] = Playtime!Idle]
        /\ UNCHANGED <<name, session, played, records, points, poll>>
    BY <1>1 DEF Playtime!ReportFails, Playtime!gameVars
  <2>2. /\ report' = [q \in Players |-> report'[q]]
        /\ \A q \in Players : report'[q] = report[q] \/ report'[q] = Playtime!Idle
    BY <2>1, ReportMoves
  <2>3. PlayersType' /\ records' \in Seq(Playtime!Record)
    BY <2>1 DEF PlayTypes, PlayersType
  <2> QED BY <2>1, <2>2, <2>3, GrownTypes
<1>2. CASE Playtime!PollWrite
  <2>1. /\ poll' = Playtime!Idle /\ UNCHANGED <<name, session, played, points, report>>
        /\ report = [p \in Players |-> report[p]]
    BY <1>2 DEF Playtime!PollWrite, Playtime!gameVars, PlayTypes, ReportsType
  <2>2. PlayersType'
    BY <2>1 DEF PlayTypes, PlayersType
  <2> QED BY <1>2, <2>1, <2>2, Polled, GrownTypes
<1>3. CASE Playtime!PollFails \/ Playtime!Crash
  <2>1. /\ poll' = Playtime!Idle /\ UNCHANGED <<name, session, played, points, records>>
        /\ report' = report \/ report' = [p \in Players |-> Playtime!Idle]
        /\ report = [p \in Players |-> report[p]]
    BY <1>3 DEF Playtime!PollFails, Playtime!Crash, Playtime!gameVars, PlayTypes, ReportsType
  <2>2. PlayersType' /\ records' \in Seq(Playtime!Record)
    BY <2>1 DEF PlayTypes, PlayersType
  <2>3. /\ report' = [q \in Players |-> report'[q]]
        /\ \A q \in Players : report'[q] = report[q] \/ report'[q] = Playtime!Idle
    BY <2>1
  <2> QED BY <2>1, <2>2, <2>3, GrownTypes
<1>4. CASE UNCHANGED playtime
  BY <1>4 DEF playtime, PlayTypes, PlayersType, ReportsType, ReadReport, SentReport, PollType,
              ReadPoll, AskedPoll
<1> QED BY <1>1, <1>2, <1>3, <1>4, GameTypes, ReadTypes, WriteTypes, AskTypes, PollReadTypes
        DEF Playtime!Next

-----------------------------------------------------------------------------
\* Whose rows are.
NoRowOf(p) == \A i \in DOMAIN records : records[i].steam # p

\* What a report has read is its player's row, or one that nobody else can claim.
Held(p) ==
    report[p].stage = "read" =>
        \/ report[p].id = 0 /\ NoRowOf(p)
        \/ /\ report[p].id # 0
           /\ report[p].row.steam = p /\ records[report[p].id].steam = p
        \/ /\ report[p].id # 0
           /\ report[p].row.steam = Unset /\ NoRowOf(p)
           /\ records[report[p].id].steam = Unset
           /\ records[report[p].id].name = report[p].name

OneRow ==
    \A i, j \in DOMAIN records :
        records[i].steam = records[j].steam /\ records[i].steam # Unset => i = j

ClaimInv == OneRow /\ \A p \in Players : Held(p)

\* A row is of the player who claimed it.
Kept == \A i \in DOMAIN records :
            records[i].steam # Unset => records'[i].steam = records[i].steam

\* No row is claimed or renamed, and new ones are nobody's.
LEMMA ClaimKept ==
    ASSUME PlayAssumption, PlayTypes, ClaimInv,
           DOMAIN records \subseteq DOMAIN records',
           \A i \in DOMAIN records : /\ records'[i].name = records[i].name
                                     /\ records'[i].steam = records[i].steam,
           \A i \in DOMAIN records' \ DOMAIN records : records'[i].steam = Unset,
           \A p \in Players : report'[p] = report[p] \/ report'[p].stage # "read"
    PROVE  ClaimInv' /\ Kept
<1>1. Unset \notin Players
  BY DEF PlayAssumption, Playtime!PlaytimeAssumption
<1>2. \A p \in Players : NoRowOf(p) => NoRowOf(p)'
  BY <1>1 DEF NoRowOf
<1>3. ASSUME NEW p \in Players PROVE Held(p)'
  <2>1. CASE report'[p].stage # "read"
    BY <2>1 DEF Held
  <2>2. CASE report'[p] = report[p] /\ report[p].stage = "read"
    <3>1. report[p].id # 0 => report[p].id \in DOMAIN records
      BY <2>2, ReportFields
    <3> QED BY <1>2, <2>2, <3>1 DEF ClaimInv, Held
  <2> QED BY <2>1, <2>2
<1>4. OneRow'
  BY DEF ClaimInv, OneRow
<1> QED BY <1>3, <1>4 DEF ClaimInv, Kept

LEMMA ClaimRead ==
    ASSUME PlayAssumption, PlayTypes, ClaimInv, NEW p \in Players, Playtime!ReportRead(p)
    PROVE  ClaimInv' /\ Kept
<1> DEFINE match == Playtime!Match(p, report[p].name)
<1>1. PICK i \in IF match = {} THEN {0} ELSE match :
         report' = [report EXCEPT ![p] =
                      [stage |-> "read", name |-> report[p].name, seconds |-> report[p].seconds,
                       id |-> i, row |-> IF i = 0 THEN Unset ELSE records[i]]]
  BY DEF Playtime!ReportRead
<1>2. UNCHANGED records
  BY DEF Playtime!ReportRead
<1>3. PICK row : row = IF i = 0 THEN Unset ELSE records[i]
  OBVIOUS
<1> DEFINE to == [stage |-> "read", name |-> report[p].name, seconds |-> report[p].seconds,
                  id |-> i, row |-> row]
<1>4. report' = [report EXCEPT ![p] = to]
  BY <1>1, <1>3
<1>5. report'[p] = to /\ \A q \in Players \ {p} : report'[q] = report[q]
  <2> HIDE DEF to
  <2> QED BY <1>4, ReportMoves
<1>6. Unset \notin Players /\ 0 \notin DOMAIN records
  BY RecordsDomain DEF PlayAssumption, Playtime!PlaytimeAssumption, PlayTypes
<1>7. Held(p)'
  <2>1. CASE Playtime!RowsOf(p) # {}
    <3>1. i \in DOMAIN records /\ records[i].steam = p
      BY <1>1, <2>1 DEF Playtime!Match, Playtime!RowsOf
    <3> QED BY <1>2, <1>3, <1>5, <1>6, <3>1 DEF Held
  <2>2. CASE Playtime!RowsOf(p) = {}
    <3>1. NoRowOf(p)
      BY <2>2 DEF NoRowOf, Playtime!RowsOf
    <3>2. \/ i = 0
          \/ /\ i \in DOMAIN records /\ records[i].steam = Unset
             /\ records[i].name = report[p].name
      BY <1>1, <2>2 DEF Playtime!Match, Playtime!Claimable, Playtime!RowsNamed
    <3> QED BY <1>2, <1>3, <1>5, <1>6, <3>1, <3>2 DEF Held, NoRowOf
  <2> QED BY <2>1, <2>2
<1>8. \A q \in Players \ {p} : Held(q)'
  BY <1>2, <1>5 DEF ClaimInv, Held, NoRowOf
<1> QED BY <1>2, <1>7, <1>8 DEF ClaimInv, OneRow, Kept

LEMMA ClaimWrite ==
    ASSUME PlayAssumption, PlayTypes, ClaimInv, NEW p \in Players, Playtime!ReportWrite(p)
    PROVE  ClaimInv' /\ Kept
<1> DEFINE id == report[p].id
           k == IF id = 0 THEN Len(records) + 1 ELSE id
<1>1. /\ report[p].stage = "read" /\ report' = [report EXCEPT ![p] = Playtime!Idle]
  BY DEF Playtime!ReportWrite
<1>2. report'[p].stage # "read" /\ \A q \in Players \ {p} : report'[q] = report[q]
  BY <1>1, ReportMoves DEF Playtime!Idle
<1>3. /\ Unset \notin Players /\ DOMAIN records = 1..Len(records) /\ Len(records) \in Nat
      /\ \A q, r \in Players : name[q] = name[r] => q = r
  BY RecordsDomain DEF PlayAssumption, Playtime!PlaytimeAssumption, PlayTypes, PlayersType
<1>4. Held(p) /\ (id # 0 => id \in DOMAIN records) /\ report[p].name = name[p]
  BY <1>1, ReportFields DEF ClaimInv
\* The one row that changes was nobody's or p's, and is p's.
<1>5. /\ DOMAIN records' = DOMAIN records \cup {k}
      /\ \A i \in DOMAIN records : i # k => records'[i] = records[i]
      /\ records'[k].steam = p
  <2>1. CASE id = 0
    <3>1. Len(records) + 1 \notin DOMAIN records
      BY <1>3
    <3> QED BY <2>1, <3>1, RowInserted
  <2>2. CASE id # 0
    <3>1. records'[id].steam = p
      BY <1>1, <1>4, <2>2, RowUpdated DEF Held
    <3> QED BY <1>4, <2>2, <3>1, RowUpdated
  <2> QED BY <2>1, <2>2
<1>6. \/ k \notin DOMAIN records /\ NoRowOf(p)
      \/ k \in DOMAIN records /\ k = id /\ records[k].steam = p
      \/ /\ k \in DOMAIN records /\ k = id /\ records[k].steam = Unset
         /\ records[k].name = name[p] /\ NoRowOf(p)
  BY <1>1, <1>3, <1>4 DEF Held
<1> HIDE DEF k, id
<1>7. Kept
  BY <1>5, <1>6 DEF Kept
<1>8. OneRow'
  BY <1>5, <1>6 DEF ClaimInv, OneRow, NoRowOf
<1>9. ASSUME NEW q \in Players, q # p PROVE Held(q)'
  <2>1. CASE report[q].stage # "read"
    BY <1>2, <1>9, <2>1 DEF Held
  <2>2. CASE report[q].stage = "read"
    <3>1. /\ report'[q] = report[q] /\ report[q].name = name[q]
          /\ report[q].id # 0 => report[q].id \in DOMAIN records
      BY <1>2, <1>9, <2>2, ReportFields
    <3>2. NoRowOf(q) => NoRowOf(q)'
      BY <1>5, <1>9 DEF NoRowOf
    <3>3. name[q] # name[p]
      BY <1>3, <1>9
    <3>4. Held(q)
      BY DEF ClaimInv
    <3>5. CASE report[q].id = 0
      BY <2>2, <3>1, <3>2, <3>4, <3>5 DEF Held
    <3>6. CASE report[q].id # 0
      <4>1. report[q].id # k
        BY <1>3, <1>6, <1>9, <2>2, <3>1, <3>3, <3>4, <3>6 DEF Held
      <4>2. records'[report[q].id] = records[report[q].id]
        BY <1>5, <3>1, <3>6, <4>1
      <4> QED BY <2>2, <3>1, <3>2, <3>4, <3>6, <4>2 DEF Held
    <3> QED BY <3>5, <3>6
  <2> QED BY <2>1, <2>2
<1>10. Held(p)'
  BY <1>2 DEF Held
<1> QED BY <1>7, <1>8, <1>9, <1>10 DEF ClaimInv

LEMMA ClaimStep ==
    ASSUME PlayAssumption, PlayTypes, ClaimInv, [Playtime!Next]_playtime
    PROVE  ClaimInv' /\ Kept
<1>1. ASSUME UNCHANGED records,
             \A p \in Players : report'[p] = report[p] \/ report'[p].stage # "read"
      PROVE  ClaimInv' /\ Kept
  BY <1>1, ClaimKept
<1>2. ASSUME NEW p \in Players,
             \/ Playtime!Join(p) \/ Playtime!Play(p) \/ \E n \in Names : Playtime!Rename(p, n)
      PROVE  ClaimInv' /\ Kept
  BY <1>1, <1>2 DEF Playtime!Join, Playtime!Play, Playtime!Rename
<1>3. ASSUME NEW p \in Players, Playtime!Leave(p) PROVE ClaimInv' /\ Kept
  <2> DEFINE to == [stage |-> "sent", name |-> name[p], seconds |-> session[p]]
  <2>1. UNCHANGED records /\ report' = [report EXCEPT ![p] = to] /\ to.stage # "read"
    BY <1>3 DEF Playtime!Leave
  <2> HIDE DEF to
  <2> QED BY <1>1, <2>1, ReportMoves
<1>4. ASSUME NEW p \in Players, Playtime!ReportFails(p) PROVE ClaimInv' /\ Kept
  <2>1. UNCHANGED records /\ report' = [report EXCEPT ![p] = Playtime!Idle]
        /\ Playtime!Idle.stage # "read"
    BY <1>4 DEF Playtime!ReportFails, Playtime!Idle
  <2> QED BY <1>1, <2>1, ReportMoves
<1>5. CASE Playtime!PollAsk \/ Playtime!PollRead \/ Playtime!PollFails
  BY <1>1, <1>5 DEF Playtime!PollAsk, Playtime!PollRead, Playtime!PollFails
<1>6. CASE Playtime!PollWrite
  <2>1. UNCHANGED report
    BY <1>6 DEF Playtime!PollWrite
  <2> QED BY <1>6, <2>1, Polled, ClaimKept
<1>7. CASE Playtime!Crash
  BY <1>1, <1>7 DEF Playtime!Crash, Playtime!Idle
<1>8. CASE UNCHANGED playtime
  BY <1>1, <1>8 DEF playtime
<1> QED BY <1>2, <1>3, <1>4, <1>5, <1>6, <1>7, <1>8, ClaimRead, ClaimWrite DEF Playtime!Next

-----------------------------------------------------------------------------
\* What was played and is not reported yet is not paid for yet.
Due(p) ==
    IF session[p] # Unset THEN session[p]
    ELSE IF report[p] = Playtime!Idle THEN 0 ELSE report[p].seconds

Owed(p) ==
    /\ Due(p) \in Nat /\ Due(p) <= played[p]
    /\ points[p] * Minute <= (played[p] - Due(p)) * Rate

PaidInv == \A p \in Players : Owed(p)

LEMMA Times == ASSUME NEW a \in Nat, NEW b \in Nat, NEW c \in Nat, a <= b
               PROVE  a * c <= b * c /\ a * c \in Nat /\ b * c \in Nat
<1>1. b * c = a * c + (b - a) * c
  OBVIOUS
<1>2. \A x, y \in Nat : x * y \in Nat
  OBVIOUS
<1>3. b - a \in Nat
  OBVIOUS
<1>4. PICK x \in Nat, y \in Nat, z \in Nat : x = a * c /\ y = b * c /\ z = (b - a) * c
  BY <1>2, <1>3
<1> QED BY <1>1, <1>4

LEMMA OwedLess ==
    ASSUME PlayAssumption, PlayTypes, PaidInv, NEW p \in Players,
           played'[p] = played[p], points'[p] = points[p],
           Due(p)' \in Nat, Due(p)' <= Due(p)
    PROVE  Owed(p)'
<1>1. /\ played[p] \in Nat /\ points[p] \in Nat /\ Minute \in Nat /\ Rate \in Nat
      /\ Due(p) \in Nat /\ Due(p) <= played[p]
      /\ points[p] * Minute <= (played[p] - Due(p)) * Rate
  BY DEF PlayAssumption, Playtime!PlaytimeAssumption, PlayTypes, PlayersType, PaidInv, Owed
<1>2. PICK d, e : d = Due(p) /\ e = Due(p)'
  OBVIOUS
<1>3. /\ played[p] - d \in Nat /\ played[p] - e \in Nat /\ played[p] - d <= played[p] - e
      /\ e <= played[p]
  BY <1>1, <1>2
<1>4. (played[p] - d) * Rate <= (played[p] - e) * Rate
      /\ (played[p] - d) * Rate \in Nat /\ (played[p] - e) * Rate \in Nat
  BY <1>1, <1>3, Times
<1>5. points[p] * Minute \in Nat
  BY <1>1, Times
<1>6. points[p] * Minute <= (played[p] - e) * Rate
  BY <1>1, <1>2, <1>4, <1>5
<1> QED BY <1>2, <1>3, <1>6 DEF Owed

LEMMA OwedPaid ==
    ASSUME PlayAssumption, PlayTypes, PaidInv, NEW p \in Players, Playtime!ReportWrite(p)
    PROVE  Owed(p)'
<1>1. report[p].stage = "read" /\ report' = [report EXCEPT ![p] = Playtime!Idle]
      /\ UNCHANGED <<session, played>>
  BY DEF Playtime!ReportWrite, Playtime!gameVars
<1>2. /\ session[p] = Unset /\ report[p].seconds \in Nat /\ report[p] # Playtime!Idle
  BY <1>1, ReportFields DEF Playtime!Idle
<1>3. PICK pay \in Nat : /\ points' = [points EXCEPT ![p] = points[p] + pay]
                         /\ pay = 0 \/ pay = (report[p].seconds \div Minute) * Rate
  BY ReportPays
<1>4. PICK s \in Nat : s = report[p].seconds
  BY <1>2
<1>5. /\ played[p] \in Nat /\ points[p] \in Nat /\ Minute \in Nat \ {0} /\ Rate \in Nat
      /\ Due(p) = s /\ s <= played[p]
      /\ points[p] * Minute <= (played[p] - s) * Rate
  BY <1>2, <1>4
     DEF PlayAssumption, Playtime!PlaytimeAssumption, PlayTypes, PlayersType, PaidInv, Owed, Due
<1>6. pay * Minute <= s * Rate
  <2>1. CASE pay = 0
    BY <1>4, <1>5, <2>1, Times
  <2>2. CASE pay = (s \div Minute) * Rate
    <3>1. PICK m \in Nat : m = s \div Minute /\ m * Minute <= s
      BY <1>5, WholeMinutes
    <3>2. m * Minute \in Nat
      BY <1>5, Times
    <3>3. (m * Minute) * Rate <= s * Rate
      BY <1>4, <1>5, <3>1, <3>2, Times
    <3>4. pay * Minute = (m * Minute) * Rate
      BY <1>5, <2>2, <3>1
    <3> QED BY <3>3, <3>4
  <2> QED BY <1>3, <1>4, <2>1, <2>2
<1>7. (points[p] + pay) * Minute = points[p] * Minute + pay * Minute
  BY <1>5
<1>8. (played[p] - s) * Rate + s * Rate = played[p] * Rate
  BY <1>5
<1>9. (points[p] + pay) * Minute <= (played[p] - 0) * Rate
  <2>1. PICK a \in Nat, b \in Nat, c \in Nat, d \in Nat :
           /\ a = points[p] * Minute /\ b = pay * Minute
           /\ c = (played[p] - s) * Rate /\ d = s * Rate
    <3>1. played[p] - s \in Nat
      BY <1>5
    <3>2. \A x, y \in Nat : x * y \in Nat
      BY Times
    <3>3. /\ points[p] * Minute \in Nat /\ pay * Minute \in Nat
          /\ (played[p] - s) * Rate \in Nat /\ s * Rate \in Nat
      BY <1>3, <1>5, <3>1, <3>2
    <3> QED BY <3>3
  <2> QED BY <1>5, <1>6, <1>7, <1>8, <2>1
<1>10. report'[p] = Playtime!Idle
  BY <1>1, ReportMoves
<1>11. Due(p)' = 0
  BY <1>1, <1>2, <1>10 DEF Due
<1>12. points'[p] = points[p] + pay
  BY <1>3 DEF PlayTypes, PlayersType
<1> QED BY <1>1, <1>5, <1>9, <1>11, <1>12 DEF Owed

LEMMA PaidStep ==
    ASSUME PlayAssumption, PlayTypes, PaidInv, [Playtime!Next]_playtime
    PROVE  PaidInv'
<1> USE DEF Playtime!gameVars
<1>0. /\ session \in [Players -> Nat \cup {Unset}] /\ played \in [Players -> Nat]
      /\ points \in [Players -> Nat] /\ Unset \notin Nat
      /\ \A q \in Players : Due(q) \in Nat /\ Due(q) <= played[q]
  BY DEF PlayTypes, PlayersType, PlayAssumption, Playtime!PlaytimeAssumption, PaidInv, Owed
\* A step of p that neither plays nor pays.
<1>1. ASSUME NEW p \in Players, UNCHANGED <<played, points>>,
             \A q \in Players \ {p} : session'[q] = session[q] /\ report'[q] = report[q],
             Due(p)' \in Nat, Due(p)' <= Due(p)
      PROVE  PaidInv'
  <2>1. \A q \in Players \ {p} : Due(q)' = Due(q)
    BY <1>1 DEF Due
  <2>2. \A q \in Players : Due(q)' \in Nat /\ Due(q)' <= Due(q)
    BY <1>0, <1>1, <2>1
  <2> QED BY <1>1, <2>2, OwedLess DEF PaidInv
<1>2. ASSUME UNCHANGED <<played, points, session, report>> PROVE PaidInv'
  BY <1>2 DEF PaidInv, Owed, Due
<1>3. ASSUME NEW p \in Players, Playtime!Join(p) PROVE PaidInv'
  <2>1. /\ session' = [session EXCEPT ![p] = 0] /\ UNCHANGED <<played, points, report>>
    BY <1>3 DEF Playtime!Join
  <2>2. session'[p] = 0 /\ \A q \in Players \ {p} : session'[q] = session[q]
    BY <1>0, <2>1
  <2>3. Due(p)' = 0
    BY <1>0, <2>2 DEF Due
  <2> QED BY <1>0, <1>1, <2>1, <2>2, <2>3
<1>4. ASSUME NEW p \in Players, Playtime!Play(p) PROVE PaidInv'
  <2>1. /\ session' = [session EXCEPT ![p] = session[p] + 1] /\ session[p] \in Nat
        /\ played' = [played EXCEPT ![p] = played[p] + 1] /\ UNCHANGED <<points, report>>
    BY <1>4, InGameIdle DEF Playtime!Play
  <2>2. /\ session'[p] = session[p] + 1 /\ played'[p] = played[p] + 1
        /\ \A q \in Players \ {p} : session'[q] = session[q] /\ played'[q] = played[q]
    BY <1>0, <2>1
  <2>3. \A q \in Players \ {p} : Owed(q)'
    BY <2>1, <2>2 DEF PaidInv, Owed, Due
  <2>4. Due(p) = session[p] /\ Due(p)' = session[p] + 1 /\ played[p] \in Nat
    BY <1>0, <2>1, <2>2 DEF Due
  <2>5. played'[p] - Due(p)' = played[p] - Due(p) /\ Due(p)' \in Nat /\ Due(p)' <= played'[p]
    BY <1>0, <2>1, <2>2, <2>4
  <2>6. Owed(p)'
    BY <2>1, <2>5 DEF PaidInv, Owed
  <2> QED BY <2>3, <2>6 DEF PaidInv
<1>5. ASSUME NEW p \in Players, Playtime!Leave(p) PROVE PaidInv'
  <2> DEFINE to == [stage |-> "sent", name |-> name[p], seconds |-> session[p]]
  <2>1. /\ session' = [session EXCEPT ![p] = Unset] /\ session[p] \in Nat
        /\ report' = [report EXCEPT ![p] = to] /\ UNCHANGED <<played, points>>
        /\ to.seconds = session[p] /\ to # Playtime!Idle
    BY <1>5, InGameIdle DEF Playtime!Leave, Playtime!Idle
  <2>2. /\ report'[p].seconds = session[p] /\ report'[p] # Playtime!Idle
        /\ \A q \in Players \ {p} : report'[q] = report[q]
    <3> HIDE DEF to
    <3> QED BY <2>1, ReportMoves
  <2>3. session'[p] = Unset /\ \A q \in Players \ {p} : session'[q] = session[q]
    BY <1>0, <2>1
  <2>4. Due(p)' = Due(p)
    BY <1>0, <2>1, <2>2, <2>3 DEF Due
  <2> HIDE DEF to
  <2> QED BY <1>0, <1>1, <2>1, <2>2, <2>3, <2>4
<1>6. ASSUME NEW p \in Players, Playtime!ReportRead(p) PROVE PaidInv'
  <2>1. UNCHANGED <<session, played, points>> /\ report[p].stage = "sent"
    BY <1>6 DEF Playtime!ReportRead
  <2>2. PICK i : report' = [report EXCEPT ![p] =
                      [stage |-> "read", name |-> report[p].name, seconds |-> report[p].seconds,
                       id |-> i, row |-> IF i = 0 THEN Unset ELSE records[i]]]
    BY <1>6 DEF Playtime!ReportRead
  <2> DEFINE to == [stage |-> "read", name |-> report[p].name, seconds |-> report[p].seconds,
                    id |-> i, row |-> IF i = 0 THEN Unset ELSE records[i]]
  <2>3. report' = [report EXCEPT ![p] = to] /\ to.seconds = report[p].seconds
        /\ to # Playtime!Idle /\ report[p] # Playtime!Idle
    BY <2>1, <2>2 DEF Playtime!Idle
  <2>4. /\ report'[p].seconds = report[p].seconds /\ report'[p] # Playtime!Idle
        /\ \A q \in Players \ {p} : report'[q] = report[q]
    <3> HIDE DEF to
    <3> QED BY <2>3, ReportMoves
  <2>5. Due(p)' = Due(p)
    BY <2>1, <2>3, <2>4 DEF Due
  <2> HIDE DEF to
  <2> QED BY <1>0, <1>1, <2>1, <2>4, <2>5
<1>7. ASSUME NEW p \in Players, Playtime!ReportFails(p) PROVE PaidInv'
  <2>1. /\ report' = [report EXCEPT ![p] = Playtime!Idle] /\ UNCHANGED <<session, played, points>>
        /\ session[p] = Unset
    BY <1>7, StagesOfReports DEF Playtime!ReportFails
  <2>2. report'[p] = Playtime!Idle /\ \A q \in Players \ {p} : report'[q] = report[q]
    BY <2>1, ReportMoves
  <2>3. Due(p)' = 0
    BY <2>1, <2>2 DEF Due
  <2> QED BY <1>0, <1>1, <2>1, <2>2, <2>3
<1>8. ASSUME NEW p \in Players, Playtime!ReportWrite(p) PROVE PaidInv'
  <2>1. PICK pay : points' = [points EXCEPT ![p] = points[p] + pay]
    BY <1>8, ReportPays
  <2>2. report' = [report EXCEPT ![p] = Playtime!Idle] /\ UNCHANGED <<session, played>>
    BY <1>8 DEF Playtime!ReportWrite
  <2>3. \A q \in Players \ {p} : report'[q] = report[q] /\ points'[q] = points[q]
    BY <1>0, <2>1, <2>2, ReportMoves
  <2>4. \A q \in Players \ {p} : Owed(q)'
    BY <2>2, <2>3 DEF PaidInv, Owed, Due
  <2> QED BY <1>8, <2>4, OwedPaid DEF PaidInv
<1>9. ASSUME NEW p \in Players, NEW n \in Names, Playtime!Rename(p, n) PROVE PaidInv'
  BY <1>2, <1>9 DEF Playtime!Rename
<1>10. CASE Playtime!PollAsk \/ Playtime!PollRead \/ Playtime!PollWrite \/ Playtime!PollFails
  BY <1>2, <1>10 DEF Playtime!PollAsk, Playtime!PollRead, Playtime!PollWrite, Playtime!PollFails
<1>11. CASE Playtime!Crash
  <2>1. report' = [p \in Players |-> Playtime!Idle] /\ UNCHANGED <<session, played, points>>
    BY <1>11 DEF Playtime!Crash
  <2>2. \A p \in Players : Due(p)' = Due(p) \/ Due(p)' = 0
    BY <2>1 DEF Due
  <2>3. \A p \in Players : Due(p)' \in Nat /\ Due(p)' <= Due(p)
    BY <1>0, <2>2
  <2> QED BY <2>1, <2>3, OwedLess DEF PaidInv
<1>12. CASE UNCHANGED playtime
  BY <1>2, <1>12 DEF playtime
<1> QED BY <1>3, <1>4, <1>5, <1>6, <1>7, <1>8, <1>9, <1>10, <1>11, <1>12 DEF Playtime!Next

-----------------------------------------------------------------------------
\* The invariant, and what follows from it.
PlaytimeInv == PlayTypes /\ ClaimInv /\ PaidInv

LEMMA PlaytimeInit ==
    ASSUME PlayAssumption, AccountsInit
    PROVE  PlaytimeInv
<1>1. /\ name = FirstName /\ session = [p \in Players |-> Unset]
      /\ played = [p \in Players |-> 0] /\ points = [p \in Players |-> 0]
      /\ records = <<>> /\ report = [p \in Players |-> Playtime!Idle]
      /\ poll = Playtime!Idle
  BY DEF AccountsInit, Playtime!Init
<1>2. PlayersType
  BY <1>1 DEF PlayersType, PlayAssumption, Playtime!PlaytimeAssumption
<1>3. records \in Seq(Playtime!Record) /\ DOMAIN records = {}
  BY <1>1
<1>4. ReportsType /\ PollType
  BY <1>1 DEF ReportsType, PollType
<1>5. \A p \in Players : report[p].stage # "read"
  BY <1>1 DEF Playtime!Idle
<1>6. ClaimInv
  BY <1>3, <1>5 DEF ClaimInv, OneRow, Held
<1>7. ASSUME NEW p \in Players PROVE Owed(p)
  <2>1. Due(p) = 0 /\ played[p] = 0 /\ points[p] = 0
    BY <1>1 DEF Due
  <2>2. Minute \in Nat /\ Rate \in Nat
    BY DEF PlayAssumption, Playtime!PlaytimeAssumption
  <2> QED BY <2>1, <2>2 DEF Owed
<1> QED BY <1>2, <1>3, <1>4, <1>6, <1>7 DEF PlaytimeInv, PlayTypes, PaidInv

LEMMA PlaytimeStepKeeps ==
    ASSUME PlayAssumption, PlaytimeInv, [Playtime!Next]_playtime
    PROVE  PlaytimeInv' /\ Kept
  BY PlayTypesStep, ClaimStep, PaidStep DEF PlaytimeInv

LEMMA OneRowAtMost ==
    ASSUME PlayAssumption, PlaytimeInv
    PROVE  Playtime!OneRowPerPlayer
<1> SUFFICES ASSUME NEW p \in Players
             PROVE  Playtime!Cardinality(Playtime!RowsOf(p)) <= 1
  BY DEF Playtime!OneRowPerPlayer
<1>1. \A i, j \in Playtime!RowsOf(p) : i = j
  BY DEF Playtime!RowsOf, PlaytimeInv, ClaimInv, OneRow, PlayAssumption,
         Playtime!PlaytimeAssumption
<1>2. Cardinality(Playtime!RowsOf(p)) <= 1
  <2>1. CASE Playtime!RowsOf(p) = {}
    BY <2>1, FS_EmptySet
  <2>2. CASE Playtime!RowsOf(p) # {}
    <3>1. PICK i : Playtime!RowsOf(p) = {i}
      BY <1>1, <2>2
    <3> QED BY <3>1, FS_Singleton
  <2> QED BY <2>1, <2>2
<1> QED BY <1>2 DEF Playtime!Cardinality, Cardinality

LEMMA PaidWasPlayed ==
    ASSUME PlayAssumption, PlaytimeInv
    PROVE  Playtime!PaidIsPlayed
<1> SUFFICES ASSUME NEW p \in Players
             PROVE  points[p] * Minute <= played[p] * Rate
  BY DEF Playtime!PaidIsPlayed
<1>1. /\ played[p] \in Nat /\ points[p] \in Nat /\ Minute \in Nat /\ Rate \in Nat
      /\ Due(p) \in Nat /\ Due(p) <= played[p]
      /\ points[p] * Minute <= (played[p] - Due(p)) * Rate
  BY DEF PlayAssumption, Playtime!PlaytimeAssumption, PlaytimeInv, PlayTypes, PlayersType,
         PaidInv, Owed
<1>2. PICK d \in Nat : d = played[p] - Due(p) /\ d <= played[p]
  BY <1>1
<1>3. d * Rate <= played[p] * Rate /\ d * Rate \in Nat /\ played[p] * Rate \in Nat
  BY <1>1, <1>2, Times
<1>4. points[p] * Minute \in Nat
  BY <1>1, Times
<1> QED BY <1>1, <1>2, <1>3, <1>4

\* POST /api/plugin/sessions and _track_players: a row that a player has claimed stays with
\* that player, whatever is polled, renamed, lost or refused.
THEOREM ClaimsStay ==
    ASSUME Playtime!PlaytimeAssumption
    PROVE  AccountsSpec => ClaimsAreFinal
<1> USE DEF PlayAssumption
<1>1. AccountsInit => PlaytimeInv
  BY PlaytimeInit
<1>2. PlaytimeInv /\ [AccountsNext]_all => PlaytimeInv' /\ Kept
  BY StepOfPlaytime, PlaytimeStepKeeps
<1> QED BY <1>1, <1>2, PTL DEF AccountsSpec, ClaimsAreFinal, Playtime!ClaimsAreFinal, Kept

\* No player has two rows, with which every later report of that player would fail, and
\* nobody is paid for a minute that was not played.
THEOREM PlaytimeStaysSound ==
    ASSUME Playtime!PlaytimeAssumption
    PROVE  AccountsSpec => []PlaytimeIsSound
<1> USE DEF PlayAssumption
<1>1. AccountsInit => PlaytimeInv
  BY PlaytimeInit
<1>2. PlaytimeInv /\ [AccountsNext]_all => PlaytimeInv'
  BY StepOfPlaytime, PlaytimeStepKeeps
<1>3. PlaytimeInv => PlaytimeIsSound
  BY OneRowAtMost, PaidWasPlayed DEF PlaytimeIsSound
<1> QED BY <1>1, <1>2, <1>3, PTL DEF AccountsSpec

-----------------------------------------------------------------------------
(***************************************************************************)
(* Maintenance and Presence: their own theorems, for their part of the     *)
(* state.                                                                  *)
(***************************************************************************)
Mode == INSTANCE MaintenanceProofs WITH Keep <- KeptEpisodes
Online == INSTANCE PresenceProofs WITH
    Users <- Visitors, Pages <- Requests, Guest <- Unset, None <- Unset,
    session <- page, active <- lastActive

LEMMA StepOfMaintenance == ASSUME [AccountsNext]_all PROVE [Maintenance!Next]_maintenance
  BY DEF AccountsNext, all, SessionsStep, RolesStep, PlaytimeStep, GameLinkStep,
         CommunityStep, MessagesStep, UploadsStep, MaintenanceStep, PresenceStep,
         BackupsStep, LoginsStep

LEMMA StepOfPresence == ASSUME [AccountsNext]_all PROVE [Presence!Next]_presence
  BY DEF AccountsNext, all, SessionsStep, RolesStep, PlaytimeStep, GameLinkStep,
         CommunityStep, MessagesStep, UploadsStep, MaintenanceStep, PresenceStep,
         BackupsStep, LoginsStep

\* The two instances of each module are one.
LEMMA SameRecorded ==
    ASSUME NEW list, NEW opened
    PROVE  Mode!Recorded(list, opened) = Maintenance!Recorded(list, opened)
  BY DEF Mode!Recorded, Maintenance!Recorded, Mode!ToSet, Maintenance!ToSet,
         Mode!SelectInSeq, Maintenance!SelectInSeq, Mode!Min, Maintenance!Min

LEMMA SameMode == ASSUME [Maintenance!Next]_maintenance PROVE [Mode!Next]_Mode!vars
  BY SameRecorded DEF maintenance, Mode!vars,
         Maintenance!Next, Mode!Next, Maintenance!Times, Mode!Times, Maintenance!Idle,
         Mode!Idle, Maintenance!Order, Mode!Order, Maintenance!At, Mode!At,
         Maintenance!Goes, Mode!Goes, Maintenance!Ends, Mode!Ends,
         Maintenance!Begins, Mode!Begins, Maintenance!Opens,
         Mode!Opens, Maintenance!Closes, Mode!Closes, Maintenance!Visit, Mode!Visit,
         Maintenance!Switch, Mode!Switch, Maintenance!Commit, Mode!Commit,
         Maintenance!CommitFails, Mode!CommitFails, Maintenance!WriteFlag,
         Mode!WriteFlag, Maintenance!WriteFlagFails, Mode!WriteFlagFails,
         Maintenance!RefreshFails, Mode!RefreshFails, Maintenance!RecordRead, Mode!RecordRead,
         Maintenance!RecordWrite, Mode!RecordWrite,
         Maintenance!RecordFails, Mode!RecordFails, Maintenance!Reschedule,
         Mode!Reschedule, Maintenance!Import, Mode!Import, Maintenance!Extend,
         Mode!Extend, Maintenance!Tick, Mode!Tick, Maintenance!Boots, Mode!Boots,
         Maintenance!Restart, Mode!Restart, Maintenance!RestoreFails, Mode!RestoreFails

LEMMA SamePresence == ASSUME [Presence!Next]_presence PROVE [Online!Next]_Online!vars
  BY DEF presence, Online!vars,
         Presence!Next, Online!Next, Presence!Ages, Online!Ages, Presence!Older,
         Online!Older, Presence!Entry, Online!Entry, Presence!SignIn, Online!SignIn,
         Presence!Fresh, Online!Fresh, Presence!Ping, Online!Ping, Presence!Me,
         Online!Me, Presence!PingCommit, Online!PingCommit, Presence!PingFails,
         Online!PingFails, Presence!LogoutStamp, Online!LogoutStamp, Presence!Marked,
         Online!Marked, Presence!LogoutHide, Online!LogoutHide, Presence!LogoutRevoke,
         Online!LogoutRevoke, Presence!Expired, Online!Expired, Presence!Purged,
         Online!Purged, Presence!OnlineStatus, Online!OnlineStatus, Presence!Waits,
         Online!Waits, Presence!Tick, Online!Tick

\* The flag file of nginx says what the setting says, however requests, schedules,
\* crashes and restarts interleave, unless an import, two writers that crossed or a
\* file that was not written has led it astray since it was last put right.
THEOREM FlagIsKept == AccountsSpec => []FlagFollowsMode
<1>1. AccountsInit => Mode!Init
  BY DEF AccountsInit, Mode!Init, Maintenance!Init, Mode!Idle, Maintenance!Idle
<1>2. [AccountsNext]_all => [Mode!Next]_Mode!vars
  BY StepOfMaintenance, SameMode
<1>3. FlagFollowsMode <=> Mode!FlagFollowsMode
  BY DEF FlagFollowsMode, Mode!FlagFollowsMode, Maintenance!FlagFollowsMode,
         Maintenance!At, Mode!At
<1> QED BY <1>1, <1>2, <1>3, Mode!FlagIsRight, PTL DEF AccountsSpec, Mode!Spec

\* Who signed out everywhere is not listed as online, however late a ping of an old page
\* is written, since a logout hides longer than a stamp is shown.
THEOREM NobodyIsAGhost ==
    ASSUME Presence!PresenceAssumption
    PROVE  AccountsSpec => []NoGhosts
<1>0. Online!PresenceAssumption
  BY DEF Presence!PresenceAssumption, Online!PresenceAssumption
<1>1. AccountsInit => Online!Init
  BY DEF AccountsInit, Presence!Init, Online!Init
<1>2. [AccountsNext]_all => [Online!Next]_Online!vars
  BY StepOfPresence, SamePresence
<1>3. NoGhosts <=> Online!NoGhosts
  BY DEF NoGhosts, Presence!NoGhosts, Online!NoGhosts, Presence!Listed, Online!Listed,
         Presence!Purged, Online!Purged, Presence!Expired, Online!Expired
<1>4. Online!Spec => []Online!NoGhosts
  BY <1>0, Online!SignedOutAreNotListed
<1> QED BY <1>1, <1>2, <1>3, <1>4, PTL DEF AccountsSpec, Online!Spec

-----------------------------------------------------------------------------
(***************************************************************************)
(* The types of the parts.  Most hold of themselves; three say more than   *)
(* types and need what was proved above or one fact more: an account has   *)
(* one Steam id, a session is not longer than its player played, and a     *)
(* request about many accounts answers for those it was asked about.       *)
(***************************************************************************)
-----------------------------------------------------------------------------
(* GameLink: an account that is not there yet has no Steam id, so signing  *)
(* it up leaves every Steam id with one account.                           *)
LEMMA StepOfGameLink == ASSUME [AccountsNext]_all PROVE [GameLink!Next]_gameLink
  BY DEF AccountsNext, all, SessionsStep, RolesStep, PlaytimeStep, GameLinkStep,
         CommunityStep, MessagesStep, UploadsStep, MaintenanceStep, PresenceStep,
         BackupsStep, LoginsStep

\* A player is linked to one account at most.
OnePerPlayer ==
    \A a, b \in users : steamId[a] # Unset /\ steamId[a] = steamId[b] => a = b

LEMMA LinksInjective ==
    ASSUME users \subseteq Users
    PROVE  OnePerPlayer <=> GameLink!IsInjective(GameLink!Restrict(steamId,
               {a \in users : steamId[a] # Unset}))
  BY DEF OnePerPlayer, GameLink!IsInjective, GameLink!Restrict

\* An account that is not there yet is not linked.
LinkInv == GameLink!TypeOK /\ \A a \in Users \ users : steamId[a] = Unset

\* Keys, heartbeats and texts leave the accounts alone.
LEMMA LinkOfServers ==
    ASSUME LinkInv, UNCHANGED <<users, steamId, rules, command>>,
           globalKey' \in Keys \cup {Unset}, serverKey' \in [Servers -> Keys \cup {Unset}],
           alive' \subseteq Servers,
           template' \in [Servers -> SUBSET {"connect", "disconnect"}]
    PROVE  LinkInv'
  BY DEF LinkInv, GameLink!TypeOK, GameLink!IsInjective, GameLink!Restrict

\* A command begins, or rules are accepted.
LEMMA LinkOfPlayers ==
    ASSUME LinkInv, UNCHANGED <<globalKey, serverKey, template, alive, users, steamId>>,
           rules' \subseteq users, command' \in [Requests -> GameLink!Command \cup {GameLink!Idle}]
    PROVE  LinkInv'
  BY DEF LinkInv, GameLink!TypeOK, GameLink!IsInjective, GameLink!Restrict

LEMMA LinkSignUp ==
    ASSUME LinkInv, NEW a \in Users, GameLink!SignUp(a)
    PROVE  LinkInv'
<1>1. /\ users' = users \cup {a} /\ steamId[a] = Unset
      /\ UNCHANGED <<globalKey, serverKey, template, alive, steamId, rules, command>>
  BY DEF GameLink!SignUp, GameLink!siteVars, LinkInv
<1>2. users' \subseteq Users /\ rules' \subseteq users'
  BY <1>1 DEF LinkInv, GameLink!TypeOK
<1>3. OnePerPlayer
  BY LinksInjective DEF LinkInv, GameLink!TypeOK
<1>4. OnePerPlayer'
  BY <1>1, <1>3 DEF OnePerPlayer
<1>5. GameLink!IsInjective(GameLink!Restrict(steamId, {b \in users : steamId[b] # Unset}))'
  BY <1>1, <1>2, <1>4 DEF OnePerPlayer, GameLink!IsInjective, GameLink!Restrict
<1> QED BY <1>1, <1>2, <1>5 DEF LinkInv, GameLink!TypeOK, GameLink!Command, GameLink!Idle

\* UNIQUE(steam_id) is what keeps the players apart when commands overlap.
LEMMA LinkWrite ==
    ASSUME LinkInv, NEW c \in Requests, GameLink!Write(c)
    PROVE  LinkInv'
<1> DEFINE a == command[c].a
           steam == command[c].steam
<1>1. /\ command[c] \in GameLink!Command
      /\ a \in Users /\ steam \in Steams
  BY DEF GameLink!Write, LinkInv, GameLink!TypeOK, GameLink!Command
<1>2. /\ command' \in [Requests -> GameLink!Command \cup {GameLink!Idle}]
      /\ UNCHANGED <<globalKey, serverKey, template, alive, rules>>
  BY DEF GameLink!Write, GameLink!siteVars, LinkInv, GameLink!TypeOK
<1> HIDE DEF a, steam
<1>3. CASE GameLink!Admits(c)
  <2>1. /\ users' = users \cup {a} /\ steamId' = [steamId EXCEPT ![a] = steam]
        /\ \A b \in users : b # a => steamId[b] # steam
    BY <1>3 DEF GameLink!Write, GameLink!Admits, a, steam
  <2>2. /\ users' \subseteq Users /\ rules' \subseteq users'
        /\ steamId' \in [Users -> Steams \cup {Unset}]
        /\ steamId'[a] = steam /\ \A b \in Users : b # a => steamId'[b] = steamId[b]
    BY <1>1, <1>2, <2>1 DEF LinkInv, GameLink!TypeOK
  <2>3. OnePerPlayer /\ users \subseteq Users
    BY LinksInjective DEF LinkInv, GameLink!TypeOK
  <2>4. OnePerPlayer'
    BY <2>1, <2>2, <2>3 DEF OnePerPlayer
  <2>5. GameLink!IsInjective(GameLink!Restrict(steamId, {b \in users : steamId[b] # Unset}))'
    BY <2>2, <2>4 DEF OnePerPlayer, GameLink!IsInjective, GameLink!Restrict
  <2>6. \A b \in Users \ users' : steamId'[b] = Unset
    BY <2>1, <2>2 DEF LinkInv
  <2> QED BY <1>2, <2>2, <2>5, <2>6 DEF LinkInv, GameLink!TypeOK, GameLink!Command, GameLink!Idle
<1>4. CASE ~GameLink!Admits(c)
  <2>1. UNCHANGED <<users, steamId>>
    BY <1>4 DEF GameLink!Write
  <2> QED BY <1>2, <2>1, LinkOfPlayers DEF LinkInv, GameLink!TypeOK
<1> QED BY <1>3, <1>4

LEMMA LinkStep ==
    ASSUME LinkInv, [GameLink!Next]_gameLink
    PROVE  LinkInv'
<1>0. /\ globalKey \in Keys \cup {Unset} /\ serverKey \in [Servers -> Keys \cup {Unset}]
      /\ alive \subseteq Servers /\ template \in [Servers -> SUBSET {"connect", "disconnect"}]
      /\ rules \subseteq users /\ command \in [Requests -> GameLink!Command \cup {GameLink!Idle}]
  BY DEF LinkInv, GameLink!TypeOK
<1>1. CASE UNCHANGED gameLink
  BY <1>0, <1>1, LinkOfPlayers DEF gameLink
<1>2. ASSUME NEW key \in Keys \cup {Unset},
             GameLink!SetGlobalKey(key) \/ \E s \in Servers : GameLink!SetServerKey(s, key)
      PROVE  LinkInv'
  BY <1>0, <1>2, LinkOfServers DEF GameLink!SetGlobalKey, GameLink!SetServerKey
<1>3. ASSUME NEW s \in Servers,
             \/ GameLink!Heartbeat(s)
             \/ \E side \in {"connect", "disconnect"} : GameLink!SetTemplate(s, side)
      PROVE  LinkInv'
  BY <1>0, <1>3, LinkOfServers DEF GameLink!Heartbeat, GameLink!SetTemplate, GameLink!siteVars
<1>4. ASSUME NEW s \in Servers, NEW steam \in Steams, GameLink!AcceptRules(s, steam)
      PROVE  LinkInv'
  BY <1>0, <1>4, LinkOfPlayers DEF GameLink!AcceptRules, GameLink!siteVars
<1>5. ASSUME NEW s \in Servers, NEW c \in Requests, NEW a \in Users, NEW steam \in Steams,
             GameLink!RegisterRead(c, s, a, steam) \/ GameLink!LoginRead(c, s, a, steam)
      PROVE  LinkInv'
  <2>1. PICK op \in {"register", "login"} :
            /\ command' = [command EXCEPT ![c] = [op |-> op, a |-> a, steam |-> steam]]
            /\ UNCHANGED <<globalKey, serverKey, template, alive, users, steamId, rules>>
    BY <1>5 DEF GameLink!RegisterRead, GameLink!LoginRead, GameLink!siteVars
  <2>2. command' \in [Requests -> GameLink!Command \cup {GameLink!Idle}]
    BY <1>0, <2>1 DEF GameLink!Command
  <2> QED BY <1>0, <2>1, <2>2, LinkOfPlayers
<1>6. ASSUME NEW a \in Users, GameLink!SignUp(a) PROVE LinkInv'
  BY <1>6, LinkSignUp
<1>7. ASSUME NEW c \in Requests, GameLink!Write(c) PROVE LinkInv'
  BY <1>7, LinkWrite
<1> QED BY <1>1, <1>2, <1>3, <1>4, <1>5, <1>6, <1>7 DEF GameLink!Next

LEMMA LinkInit == ASSUME AccountsInit PROVE LinkInv
<1>1. GameLink!Init
  BY DEF AccountsInit
<1>2. OnePerPlayer /\ users \subseteq Users
  BY <1>1 DEF GameLink!Init, OnePerPlayer
<1>3. GameLink!IsInjective(GameLink!Restrict(steamId, {a \in users : steamId[a] # Unset}))
  BY <1>2, LinksInjective
<1> QED BY <1>1, <1>3 DEF GameLink!Init, LinkInv, GameLink!TypeOK

LEMMA LinksTyped == AccountsSpec => []GameLink!TypeOK
<1>1. LinkInv => GameLink!TypeOK
  BY DEF LinkInv
<1> QED BY <1>1, LinkInit, StepOfGameLink, LinkStep, PTL DEF AccountsSpec

-----------------------------------------------------------------------------
(* Logins.                                                                 *)
LEMMA LoginsStepTypes ==
    ASSUME Logins!TypeOK, [Logins!Next]_logins
    PROVE  Logins!TypeOK'
<1> DEFINE Step == {"prior", "first", "record"}
<1>0. /\ history \subseteq Addresses /\ mailedTo \subseteq Addresses /\ failed \subseteq Addresses
      /\ first \in Addresses \cup {Unset} /\ alone \in BOOLEAN
      /\ login \in [Requests -> Logged \cup {Unset}]
  BY DEF Logins!TypeOK, Logged
<1>1. ASSUME UNCHANGED logins PROVE Logins!TypeOK'
  BY <1>1 DEF logins, Logins!TypeOK
<1>2. ASSUME NEW r \in Requests, NEW a \in Addresses,
             Logins!Seen(r, a) \/ Logins!SeenFails(r, a)
      PROVE  Logins!TypeOK'
  <2>1. UNCHANGED <<history, first, mailedTo, alone>> /\ failed' \subseteq Addresses
    BY <1>0, <1>2 DEF Logins!Seen, Logins!SeenFails
  <2>2. login' \in [Requests -> Logged \cup {Unset}]
    BY <1>0, <1>2 DEF Logins!Seen, Logins!SeenFails, Logged
  <2> QED BY <1>0, <2>1, <2>2 DEF Logins!TypeOK, Logged
<1>3. ASSUME NEW r \in Requests, Logins!Prior(r) \/ Logins!PriorFails(r)
      PROVE  Logins!TypeOK'
  <2>1. login[r] \in Logged /\ UNCHANGED <<history, first, alone>>
    BY <1>0, <1>3 DEF Logins!Prior, Logins!PriorFails
  <2>2. mailedTo' \subseteq Addresses /\ failed' \subseteq Addresses
    BY <1>0, <1>3, <2>1 DEF Logins!Prior, Logins!PriorFails, Logged
  <2>3. login' \in [Requests -> Logged \cup {Unset}]
    BY <1>0, <1>3, <2>1 DEF Logins!Prior, Logins!PriorFails, Logins!Goes, Logged
  <2> QED BY <1>0, <2>1, <2>2, <2>3 DEF Logins!TypeOK, Logged
<1>4. ASSUME NEW r \in Requests, Logins!Record(r) \/ Logins!RecordFails(r)
      PROVE  Logins!TypeOK'
  <2>1. login[r] \in Logged /\ UNCHANGED <<mailedTo, failed>> /\ alone' \in BOOLEAN
    BY <1>0, <1>4 DEF Logins!Record, Logins!RecordFails
  <2>2. login' \in [Requests -> Logged \cup {Unset}]
    BY <1>0, <1>4 DEF Logins!Record, Logins!RecordFails
  <2>3. history' \subseteq Addresses /\ first' \in Addresses \cup {Unset}
    BY <1>0, <1>4, <2>1 DEF Logins!Record, Logins!RecordFails, Logged
  <2> QED BY <1>0, <2>1, <2>2, <2>3 DEF Logins!TypeOK, Logged
<1> QED BY <1>1, <1>2, <1>3, <1>4 DEF Logins!Next

LEMMA LoginsInitTypes == ASSUME AccountsInit PROVE Logins!TypeOK
<1>1. Logins!Init
  BY DEF AccountsInit
<1> QED BY <1>1 DEF Logins!Init, Logins!TypeOK

LEMMA LoginsTyped == AccountsSpec => []Logins!TypeOK
  BY LoginsInitTypes, StepOfLogins, LoginsStepTypes, PTL DEF AccountsSpec

-----------------------------------------------------------------------------
(* Community: what a post and a click may be waiting for.                  *)
Posts == Community!Posting \cup {Community!Idle, Community!Done}
Pressed == Community!Click \cup {Community!Idle}
Reviewed == {"pending", "reviewed", "dismissed", Unset}

\* A comment on its way, and what is told of it.
PostTypes ==
    /\ comments \in [Ids -> CommentRow \cup {Unset}]
    /\ post \in [Requests -> Posts]
    /\ reports \in [Ids -> Reviewed]
    /\ notes \in [Requests \X Users -> Nat]
ClickTypes ==
    /\ reactions \subseteq Community!Numbers \X Users
    /\ votes \subseteq Users \X Options
    /\ click \in [Clicks -> Pressed]

LEMMA CommunityParts ==
    Community!TypeOK <=> PostTypes /\ ClickTypes /\ posted \in 0..MaxPosts
  BY DEF Community!TypeOK, PostTypes, ClickTypes, CommentRow, Posts, Pressed, Reviewed

LEMMA PostedTypes ==
    ASSUME AccountsAssumption, posted \in 0..MaxPosts, Community!Write
    PROVE  posted' \in 0..MaxPosts
  BY DEF AccountsAssumption, Community!Write

\* A comment under way is one that was posted, and changes only where it goes on.
LEMMA PostMoves ==
    ASSUME PostTypes, NEW r \in Requests, post[r].op \in {"flag", "reply", "mention"},
           NEW op \in {"flag", "reply", "mention"}, NEW x \in Users \cup {Unset}
    PROVE  /\ post[r] \in Community!Posting
           /\ [post EXCEPT ![r].op = op] \in [Requests -> Posts]
           /\ [post EXCEPT ![r].op = op, ![r].answered = x] \in [Requests -> Posts]
           /\ [post EXCEPT ![r] = Community!Done] \in [Requests -> Posts]
<1>1. post[r] \in Community!Posting
  BY PostingKinds DEF PostTypes, Posts
<1>2. /\ [post[r] EXCEPT !.op = op] \in Community!Posting
      /\ [post[r] EXCEPT !.op = op, !.answered = x] \in Community!Posting
  BY <1>1 DEF Community!Posting
<1> QED BY <1>1, <1>2 DEF PostTypes, Posts

LEMMA ToldTypes ==
    ASSUME notes \in [Requests \X Users -> Nat], NEW r, NEW us
    PROVE  Community!Told(r, us) \in [Requests \X Users -> Nat]
  BY DEF Community!Told

LEMMA PostStepTypes ==
    ASSUME PostTypes, NEW r \in Requests,
           \/ Community!Flag(r) \/ Community!Reply(r) \/ Community!Mention(r)
           \/ Community!PostLost(r)
    PROVE  PostTypes' /\ UNCHANGED <<reactions, votes, click, posted>>
<1>1. CASE Community!Flag(r)
  <2>1. /\ post' \in [Requests -> Posts] /\ post[r] \in Community!Posting
        /\ UNCHANGED <<comments, notes, reactions, votes, click, posted>>
    BY <1>1, PostMoves DEF Community!Flag, Community!clickVars
  <2>2. reports' \in [Ids -> Reviewed]
    BY <1>1 DEF PostTypes, Community!Flag, Reviewed
  <2> QED BY <2>1, <2>2 DEF PostTypes
<1>2. CASE Community!Reply(r)
  <2>1. Community!Author(post[r].parent) \in Users \cup {Unset}
    BY DEF PostTypes, CommentRow, Community!Author, Community!Rows
  <2>2. /\ post' \in [Requests -> Posts]
        /\ UNCHANGED <<comments, reports, reactions, votes, click, posted>>
    BY <1>2, <2>1, PostMoves DEF Community!Reply, Community!clickVars
  <2>3. notes' \in [Requests \X Users -> Nat]
    BY <1>2, ToldTypes DEF PostTypes, Community!Reply
  <2> QED BY <2>2, <2>3 DEF PostTypes
<1>3. CASE Community!Mention(r)
  <2>1. /\ post' \in [Requests -> Posts]
        /\ UNCHANGED <<comments, reports, reactions, votes, click, posted>>
    BY <1>3 DEF PostTypes, Posts, Community!Mention, Community!clickVars
  <2>2. notes' \in [Requests \X Users -> Nat]
    BY <1>3, ToldTypes DEF PostTypes, Community!Mention
  <2> QED BY <2>1, <2>2 DEF PostTypes
<1>4. CASE Community!PostLost(r)
  BY <1>4 DEF PostTypes, Posts, Community!PostLost, Community!clickVars
<1> QED BY <1>1, <1>2, <1>3, <1>4

LEMMA ClickStepTypes ==
    ASSUME ClickTypes, NEW k \in Clicks,
           \/ Community!ReactWrite(k) \/ Community!VoteWrite(k)
           \/ \E u \in Users : \/ Community!ReactRead(k, u)
                               \/ \E o \in Options : Community!VoteRead(k, u, o)
    PROVE  ClickTypes' /\ UNCHANGED <<comments, post, reports, notes>>
<1>0. /\ click[k] \in Pressed /\ Community!Idle.op = "none"
      /\ \A x \in Community!Click : x.user \in Users
      /\ \A x \in Community!Click : x.op = "vote" => x.option \in Options
  BY DEF ClickTypes, Pressed, Community!Click, Community!Idle
<1>1. CASE Community!ReactWrite(k)
  <2>1. click[k].user \in Users
    BY <1>0, <1>1 DEF Community!ReactWrite, Pressed
  <2>2. reactions' \subseteq Community!Numbers \X Users
    BY <1>1, <2>1 DEF ClickTypes, Community!ReactWrite
  <2> QED BY <1>1, <2>2 DEF ClickTypes, Pressed, Community!ReactWrite, Community!postVars
<1>2. CASE Community!VoteWrite(k)
  <2>1. click[k].user \in Users /\ click[k].option \in Options
    BY <1>0, <1>2 DEF Community!VoteWrite, Pressed
  <2> QED BY <1>2, <2>1 DEF ClickTypes, Pressed, Community!VoteWrite, Community!postVars
<1>3. ASSUME NEW u \in Users, Community!ReactRead(k, u)
      PROVE  ClickTypes' /\ UNCHANGED <<comments, post, reports, notes>>
  <2> DEFINE had == {x[1] : x \in {y \in reactions : y[2] = u}}
  <2>1. had \subseteq Community!Numbers
    BY DEF ClickTypes
  <2>2. [op |-> "react", user |-> u, had |-> had] \in Community!Click
    BY <2>1 DEF Community!Click
  <2> QED BY <1>3, <2>2 DEF ClickTypes, Pressed, Community!ReactRead, Community!postVars
<1>4. ASSUME NEW u \in Users, NEW o \in Options, Community!VoteRead(k, u, o)
      PROVE  ClickTypes' /\ UNCHANGED <<comments, post, reports, notes>>
  <2>1. [op |-> "vote", user |-> u, option |-> o] \in Community!Click
    BY DEF Community!Click
  <2> QED BY <1>4, <2>1 DEF ClickTypes, Pressed, Community!VoteRead, Community!postVars
<1> QED BY <1>1, <1>2, <1>3, <1>4

LEMMA AddCommentTypes ==
    ASSUME PostTypes, NEW r \in Requests, NEW u \in Users, NEW parent \in Ids \cup {Unset},
           NEW mentions \in Mentions, Community!AddComment(r, u, parent, mentions)
    PROVE  PostTypes' /\ UNCHANGED <<reactions, votes, click>>
<1>1. PICK i \in Ids :
          /\ comments' = [comments EXCEPT ![i] = [author |-> u, parent |-> parent]]
          /\ post' = [post EXCEPT ![r] = [op |-> "flag", id |-> i, author |-> u,
                        parent |-> parent, mentions |-> mentions, answered |-> Unset]]
          /\ UNCHANGED <<reports, notes, reactions, votes, click>>
  BY DEF Community!AddComment, Community!clickVars
<1>2. [op |-> "flag", id |-> i, author |-> u, parent |-> parent, mentions |-> mentions,
       answered |-> Unset] \in Community!Posting
  BY DEF Community!Posting
<1> QED BY <1>1, <1>2 DEF PostTypes, Posts, CommentRow

LEMMA CommunityStepTypes ==
    ASSUME AccountsAssumption, Community!TypeOK, [Community!Next]_community
    PROVE  Community!TypeOK'
<1>0. PostTypes /\ ClickTypes /\ posted \in 0..MaxPosts
  BY CommunityParts
<1> SUFFICES PostTypes' /\ ClickTypes' /\ posted' \in 0..MaxPosts
  BY DEF Community!TypeOK, PostTypes, ClickTypes, CommentRow, Posts, Pressed, Reviewed
<1>1. CASE UNCHANGED community
  BY <1>0, <1>1 DEF community, PostTypes, ClickTypes
<1>2. ASSUME NEW r \in Requests, NEW u \in Users, NEW parent \in Ids \cup {Unset},
             NEW mentions \in Mentions, Community!AddComment(r, u, parent, mentions)
      PROVE  PostTypes' /\ ClickTypes' /\ posted' \in 0..MaxPosts
  <2>1. PostTypes' /\ UNCHANGED <<reactions, votes, click>>
    BY <1>0, <1>2, AddCommentTypes
  <2>2. posted' \in 0..MaxPosts
    BY <1>0, <1>2, PostedTypes DEF Community!AddComment
  <2> QED BY <1>0, <2>1, <2>2 DEF ClickTypes
<1>3. ASSUME NEW r \in Requests,
             \/ Community!Flag(r) \/ Community!Reply(r) \/ Community!Mention(r)
             \/ Community!PostLost(r)
      PROVE  PostTypes' /\ ClickTypes' /\ posted' \in 0..MaxPosts
  BY <1>0, <1>3, PostStepTypes DEF ClickTypes
<1>4. ASSUME NEW i \in Ids,
             \/ Community!DeleteComment(i) \/ Community!CreateReport(i)
             \/ \E status \in {"reviewed", "dismissed"} : Community!Review(i, status)
      PROVE  PostTypes' /\ ClickTypes' /\ posted' \in 0..MaxPosts
  <2>1. Community!Write /\ UNCHANGED <<reactions, votes, click>>
    BY <1>4 DEF Community!DeleteComment, Community!CreateReport, Community!Review,
                Community!clickVars
  <2>2. PostTypes'
    BY <1>0, <1>4 DEF PostTypes, Reviewed, Community!DeleteComment, Community!CreateReport,
                      Community!Review
  <2> QED BY <1>0, <2>1, <2>2, PostedTypes DEF ClickTypes
<1>5. ASSUME NEW k \in Clicks,
             \/ Community!ReactWrite(k) \/ Community!VoteWrite(k)
             \/ \E u \in Users : \/ Community!ReactRead(k, u)
                                 \/ \E o \in Options : Community!VoteRead(k, u, o)
      PROVE  PostTypes' /\ ClickTypes' /\ posted' \in 0..MaxPosts
  <2>1. ClickTypes' /\ UNCHANGED <<comments, post, reports, notes>>
    BY <1>0, <1>5, ClickStepTypes
  <2>2. Community!Write \/ UNCHANGED posted
    BY <1>5 DEF Community!ReactWrite, Community!VoteWrite, Community!ReactRead,
                Community!VoteRead
  <2> QED BY <1>0, <2>1, <2>2, PostedTypes DEF PostTypes
<1> QED BY <1>1, <1>2, <1>3, <1>4, <1>5 DEF Community!Next

LEMMA CommunityInitTypes == ASSUME AccountsAssumption, AccountsInit PROVE Community!TypeOK
<1>1. Community!Init /\ MaxPosts \in Nat
  BY DEF AccountsInit, AccountsAssumption
<1> QED BY <1>1 DEF Community!Init, Community!TypeOK

LEMMA CommunityTyped == ASSUME AccountsAssumption PROVE AccountsSpec => []Community!TypeOK
  BY CommunityInitTypes, StepOfCommunity, CommunityStepTypes, PTL DEF AccountsSpec

-----------------------------------------------------------------------------
(* Messages: the rows, the streams and their queues, and the fetches.      *)
Sent == Messages!Sending \cup {Messages!Idle}
Fetched == Messages!Fetching \cup {Messages!Idle}
Sends == 1..MaxSends

\* The rows and what is sent of them; the tabs.
RowTypes ==
    /\ message \in [Ids -> Messages!Message \cup {Unset}]
    /\ send \in [Senders -> Sent]
    /\ sends \in 0..MaxSends
StreamTypes ==
    /\ listening \subseteq Readers
    /\ notices \in [Readers -> 0..Size]
    /\ shown \in [Readers -> SUBSET Sends]
    /\ synced \in [Readers -> BOOLEAN]
FetchTypes == fetch \in [Fetches -> Fetched]

LEMMA MessagesParts == Messages!TypeOK <=> RowTypes /\ StreamTypes /\ FetchTypes
  BY DEF Messages!TypeOK, RowTypes, StreamTypes, FetchTypes, Sent, Fetched, Sends

LEMMA MessagesPartsNext == Messages!TypeOK' <=> RowTypes' /\ StreamTypes' /\ FetchTypes'
  BY DEF Messages!TypeOK, RowTypes, StreamTypes, FetchTypes, Sent, Fetched, Sends

LEMMA SendKinds ==
    /\ Messages!Idle.at = "idle"
    /\ \A x \in Messages!Sending : x.at \in {"notify", "push"} /\ x.to \in Readers
    /\ \A x \in Messages!Fetching : x.at \in {"select", "commit", "show"} /\ x.user \in Readers
    /\ \A x \in Messages!Fetching : x.at \in {"commit", "show"} =>
          x.got \in SUBSET Sends /\ x.since \in BOOLEAN /\ x.unread \in SUBSET Ids
  BY DEF Messages!Idle, Messages!Sending, Messages!Fetching, Sends

LEMMA SendTypes ==
    ASSUME AccountsAssumption, RowTypes, NEW r \in Senders, NEW to \in Readers,
           Messages!Send(r, to) \/ Messages!AdminBroadcast(r, to)
    PROVE  RowTypes' /\ UNCHANGED <<listening, notices, fetch, shown, synced>>
<1>1. MaxSends \in Nat /\ sends \in Nat /\ sends < MaxSends /\ sends' = sends + 1
  BY DEF AccountsAssumption, RowTypes, Messages!Send, Messages!AdminBroadcast
<1>2. Messages!NewRow(to) \in Messages!Message
  BY <1>1 DEF Messages!NewRow, Messages!Message
<1>3. message' \in [Ids -> Messages!Message \cup {Unset}]
  BY <1>2 DEF RowTypes, Messages!Send, Messages!AdminBroadcast
<1>4. send' \in [Senders -> Sent]
  BY DEF RowTypes, Sent, Messages!Sending, Messages!Send, Messages!AdminBroadcast
<1>5. sends' \in 0..MaxSends
  BY <1>1
<1> QED BY <1>3, <1>4, <1>5 DEF RowTypes, Messages!Send, Messages!AdminBroadcast, Messages!tabVars

\* An answer that is out of date is still an answer.
LEMMA OutdatedTyped == ASSUME FetchTypes, NEW u PROVE Messages!Outdated(u) \in [Fetches -> Fetched]
<1> SUFFICES ASSUME NEW f \in Fetches, fetch[f].at \in {"commit", "show"}
             PROVE  [fetch[f] EXCEPT !.since = FALSE] \in Messages!Fetching
  BY DEF Messages!Outdated, FetchTypes, Fetched
<1>1. fetch[f] \in Messages!Fetching
  BY SendKinds DEF FetchTypes, Fetched
<1> QED BY <1>1 DEF Messages!Fetching

LEMMA SenderTypes ==
    ASSUME AccountsAssumption, RowTypes, StreamTypes, FetchTypes, NEW r \in Senders,
           Messages!Notify(r) \/ Messages!NotifyFails(r) \/ Messages!Push(r)
    PROVE  RowTypes' /\ StreamTypes' /\ FetchTypes'
<1>1. send[r] \in Messages!Sending /\ send[r].to \in Readers
  BY SendKinds DEF RowTypes, Sent, Messages!Notify, Messages!NotifyFails, Messages!Push
<1>2. RowTypes'
  <2>1. [send[r] EXCEPT !.at = "push"] \in Messages!Sending
    BY <1>1 DEF Messages!Sending
  <2>2. send' \in [Senders -> Sent]
    BY <2>1 DEF RowTypes, Sent, Messages!Notify, Messages!NotifyFails, Messages!Push
  <2> QED BY <2>2 DEF RowTypes, Messages!Notify, Messages!NotifyFails, Messages!Push
<1>3. CASE Messages!Notify(r)
  BY <1>2, <1>3 DEF Messages!Notify, Messages!tabVars, StreamTypes, FetchTypes
<1>4. CASE Messages!NotifyFails(r)
  <2>1. FetchTypes'
    BY <1>4, OutdatedTyped DEF Messages!NotifyFails, FetchTypes
  <2>2. synced' \in [Readers -> BOOLEAN]
    BY <1>4 DEF Messages!NotifyFails, StreamTypes
  <2> QED BY <1>2, <1>4, <2>1, <2>2 DEF Messages!NotifyFails, StreamTypes
<1>5. CASE Messages!Push(r)
  <2>1. /\ UNCHANGED <<fetch, shown, synced>>
        /\ \/ UNCHANGED listening /\ notices[send[r].to] < Size
              /\ notices' = [notices EXCEPT ![send[r].to] = @ + 1]
           \/ UNCHANGED notices /\ listening' = listening \ {send[r].to}
    BY <1>5 DEF Messages!Push
  <2>2. Size \in Nat /\ notices[send[r].to] \in 0..Size
    BY <1>1 DEF AccountsAssumption, StreamTypes
  <2>3. notices' \in [Readers -> 0..Size] /\ listening' \subseteq Readers
    BY <2>1, <2>2 DEF StreamTypes
  <2> QED BY <1>2, <2>1, <2>3 DEF StreamTypes, FetchTypes
<1> QED BY <1>3, <1>4, <1>5

LEMMA StreamStepTypes ==
    ASSUME AccountsAssumption, StreamTypes, FetchTypes, NEW u \in Readers,
           \/ Messages!Connect(u) \/ Messages!Disconnect(u)
           \/ \E f \in Fetches : Messages!Fetch(u, f)
    PROVE  StreamTypes' /\ FetchTypes' /\ UNCHANGED <<message, send, sends>>
<1>0. Size \in Nat /\ notices[u] \in 0..Size
  BY DEF AccountsAssumption, StreamTypes
<1>1. CASE Messages!Connect(u)
  <2>1. FetchTypes'
    BY <1>1, OutdatedTyped DEF Messages!Connect, FetchTypes
  <2>2. notices' \in [Readers -> 0..Size]
    BY <1>0, <1>1 DEF Messages!Connect, StreamTypes
  <2>3. listening' \subseteq Readers /\ synced' \in [Readers -> BOOLEAN]
    BY <1>1 DEF Messages!Connect, StreamTypes
  <2> QED BY <1>1, <2>1, <2>2, <2>3 DEF Messages!Connect, StreamTypes
<1>2. CASE Messages!Disconnect(u)
  BY <1>2 DEF Messages!Disconnect, StreamTypes, FetchTypes
<1>3. ASSUME NEW f \in Fetches, Messages!Fetch(u, f)
      PROVE  StreamTypes' /\ FetchTypes' /\ UNCHANGED <<message, send, sends>>
  <2>1. PICK noticed \in {0, 1} :
            noticed <= notices[u] /\ notices' = [notices EXCEPT ![u] = @ - noticed]
    BY <1>3 DEF Messages!Fetch
  <2>2. notices' \in [Readers -> 0..Size]
    BY <1>0, <2>1 DEF StreamTypes
  <2>3. FetchTypes'
    BY <1>3 DEF Messages!Fetch, FetchTypes, Fetched, Messages!Fetching
  <2> QED BY <1>3, <2>2, <2>3 DEF Messages!Fetch, StreamTypes
<1> QED BY <1>1, <1>2, <1>3

LEMMA SelectTypes ==
    ASSUME RowTypes, FetchTypes, NEW f \in Fetches, Messages!FetchSelect(f)
    PROVE  FetchTypes' /\ UNCHANGED <<message, send, listening, notices, shown, synced, sends>>
<1> DEFINE u == fetch[f].user
           got == Messages!NumbersOf(Messages!Conversation(u))
           unread == {i \in Messages!Conversation(u) : ~message[i].read}
<1>1. u \in Readers
  BY SendKinds DEF Messages!FetchSelect, FetchTypes, Fetched
<1>2. got \in SUBSET Sends /\ unread \in SUBSET Ids
  BY DEF RowTypes, Messages!NumbersOf, Messages!Conversation, Messages!Rows, Messages!Message, Sends
<1>3. (u \in listening) \in BOOLEAN
  OBVIOUS
<1>4. /\ fetch' = [fetch EXCEPT ![f] = [at |-> "commit", user |-> u, got |-> got,
                     since |-> u \in listening, unread |-> unread]]
      /\ UNCHANGED <<message, send, listening, notices, shown, synced, sends>>
  BY DEF Messages!FetchSelect
<1> HIDE DEF u, got, unread
<1>5. [at |-> "commit", user |-> u, got |-> got, since |-> u \in listening, unread |-> unread]
          \in Messages!Fetching
  BY <1>1, <1>2, <1>3 DEF Messages!Fetching, Sends
<1> QED BY <1>4, <1>5 DEF FetchTypes, Fetched

LEMMA AnswerTypes ==
    ASSUME RowTypes, StreamTypes, FetchTypes, NEW f \in Fetches,
           Messages!FetchCommit(f) \/ Messages!FetchFails(f) \/ Messages!Show(f)
    PROVE  RowTypes' /\ StreamTypes' /\ FetchTypes'
<1>1. /\ fetch[f] \in Messages!Fetching /\ fetch[f].user \in Readers
      /\ fetch[f].at \in {"commit", "show"} /\ fetch[f].got \in SUBSET Sends
      /\ fetch[f].since \in BOOLEAN /\ fetch[f].unread \in SUBSET Ids
  BY SendKinds DEF FetchTypes, Fetched, Messages!FetchCommit, Messages!FetchFails, Messages!Show
<1>2. CASE Messages!FetchCommit(f)
  <2>1. \A i \in fetch[f].unread : message[i] \in Messages!Message
    BY <1>1, <1>2 DEF Messages!FetchCommit, Messages!Rows, RowTypes
  <2>2. \A i \in fetch[f].unread : [message[i] EXCEPT !.read = TRUE] \in Messages!Message
    BY <2>1 DEF Messages!Message
  <2>3. message' \in [Ids -> Messages!Message \cup {Unset}]
    BY <1>2, <2>2 DEF Messages!FetchCommit, RowTypes
  <2>4. [fetch[f] EXCEPT !.at = "show"] \in Messages!Fetching
    BY <1>1, <1>2 DEF Messages!FetchCommit, Messages!Fetching
  <2>5. FetchTypes'
    BY <1>2, <2>4 DEF Messages!FetchCommit, FetchTypes, Fetched
  <2> QED BY <1>2, <2>3, <2>5 DEF Messages!FetchCommit, RowTypes, StreamTypes
<1>3. CASE Messages!FetchFails(f)
  <2>1. FetchTypes'
    BY <1>3, OutdatedTyped DEF Messages!FetchFails, FetchTypes, Fetched
  <2>2. synced' \in [Readers -> BOOLEAN]
    BY <1>3 DEF Messages!FetchFails, StreamTypes
  <2> QED BY <1>3, <2>1, <2>2 DEF Messages!FetchFails, RowTypes, StreamTypes
<1>4. CASE Messages!Show(f)
  <2>1. FetchTypes'
    BY <1>4, OutdatedTyped DEF Messages!Show, FetchTypes, Fetched
  <2>2. (fetch[f].since /\ fetch[f].user \in listening) \in BOOLEAN
    OBVIOUS
  <2>3. synced' \in [Readers -> BOOLEAN]
    BY <1>4, <2>2 DEF Messages!Show, StreamTypes
  <2>4. shown' \in [Readers -> SUBSET Sends]
    BY <1>1, <1>4 DEF Messages!Show, StreamTypes
  <2> QED BY <1>4, <2>1, <2>3, <2>4 DEF Messages!Show, RowTypes, StreamTypes
<1> QED BY <1>2, <1>3, <1>4

LEMMA MessagesStepTypes ==
    ASSUME AccountsAssumption, Messages!TypeOK, [Messages!Next]_messages
    PROVE  Messages!TypeOK'
<1>0. RowTypes /\ StreamTypes /\ FetchTypes
  BY MessagesParts
<1> SUFFICES RowTypes' /\ StreamTypes' /\ FetchTypes'
  BY MessagesPartsNext
<1>1. CASE UNCHANGED messages
  BY <1>0, <1>1 DEF messages, RowTypes, StreamTypes, FetchTypes
<1>2. ASSUME NEW r \in Senders, NEW to \in Readers,
             Messages!Send(r, to) \/ Messages!AdminBroadcast(r, to)
      PROVE  RowTypes' /\ StreamTypes' /\ FetchTypes'
  BY <1>0, <1>2, SendTypes DEF StreamTypes, FetchTypes
<1>3. ASSUME NEW r \in Senders,
             Messages!Notify(r) \/ Messages!NotifyFails(r) \/ Messages!Push(r)
      PROVE  RowTypes' /\ StreamTypes' /\ FetchTypes'
  BY <1>0, <1>3, SenderTypes
<1>4. ASSUME NEW i \in Ids, Messages!Delete(i) PROVE RowTypes' /\ StreamTypes' /\ FetchTypes'
  BY <1>0, <1>4 DEF Messages!Delete, Messages!tabVars, RowTypes, StreamTypes, FetchTypes
<1>5. ASSUME NEW u \in Readers,
             \/ Messages!Connect(u) \/ Messages!Disconnect(u)
             \/ \E f \in Fetches : Messages!Fetch(u, f)
      PROVE  RowTypes' /\ StreamTypes' /\ FetchTypes'
  BY <1>0, <1>5, StreamStepTypes DEF RowTypes
<1>6. ASSUME NEW f \in Fetches, Messages!FetchSelect(f)
      PROVE  RowTypes' /\ StreamTypes' /\ FetchTypes'
  BY <1>0, <1>6, SelectTypes DEF RowTypes, StreamTypes
<1>7. ASSUME NEW f \in Fetches,
             Messages!FetchCommit(f) \/ Messages!FetchFails(f) \/ Messages!Show(f)
      PROVE  RowTypes' /\ StreamTypes' /\ FetchTypes'
  BY <1>0, <1>7, AnswerTypes
<1> QED BY <1>1, <1>2, <1>3, <1>4, <1>5, <1>6, <1>7 DEF Messages!Next

LEMMA MessagesInitTypes == ASSUME AccountsAssumption, AccountsInit PROVE Messages!TypeOK
<1>1. Messages!Init /\ MaxSends \in Nat /\ Size \in Nat
  BY DEF AccountsInit, AccountsAssumption
<1> QED BY <1>1 DEF Messages!Init, Messages!TypeOK

LEMMA MessagesTyped == ASSUME AccountsAssumption PROVE AccountsSpec => []Messages!TypeOK
  BY MessagesInitTypes, StepOfMessages, MessagesStepTypes, PTL DEF AccountsSpec

-----------------------------------------------------------------------------
(* Uploads: the names that rows, requests and the list hold.               *)
Named == 1..MaxUploads \cup {Unset}
Asked == {Uploads!Idle} \cup Uploads!Reading \cup Uploads!Writing

NameTypes ==
    /\ url \in [Slots -> Named]
    /\ files \subseteq 1..MaxUploads
    /\ uploaded \in 0..MaxUploads
    /\ upload \in [Requests -> Asked]
    /\ torn \subseteq 1..MaxUploads
ListTypes == logo \in Named /\ lookup \in Named \cup {Lapsed}

LEMMA UploadsParts == Uploads!TypeOK <=> NameTypes /\ ListTypes
  BY DEF Uploads!TypeOK, NameTypes, ListTypes, Named, Asked, Uploads!FileNames
LEMMA UploadsPartsNext == Uploads!TypeOK' <=> NameTypes' /\ ListTypes'
  BY DEF Uploads!TypeOK, NameTypes, ListTypes, Named, Asked, Uploads!FileNames

LEMMA AskedKinds ==
    /\ Uploads!Idle.at = "idle"
    /\ \A x \in Uploads!Reading \cup Uploads!Writing : x.slot \in Slots /\ x.old \in Named
    /\ \A x \in Asked : /\ x.at = "read" => x \in Uploads!Reading
                        /\ x.at = "commit" => x \in Uploads!Writing
    /\ \A x \in Uploads!Writing : x.new \in Named
    /\ \A s \in Slots, o \in Named : [at |-> "read", slot |-> s, old |-> o] \in Asked
    /\ \A s \in Slots, o, n \in Named :
          [at |-> "commit", slot |-> s, old |-> o, new |-> n] \in Asked
  BY DEF Uploads!Idle, Uploads!Reading, Uploads!Writing, Uploads!FileNames, Named, Asked

LEMMA NewNameTypes ==
    ASSUME AccountsAssumption, uploaded \in 0..MaxUploads, uploaded < MaxUploads
    PROVE  Uploads!NewName \in 1..MaxUploads /\ uploaded + 1 \in 0..MaxUploads
  BY DEF AccountsAssumption, Uploads!NewName

LEMMA UploadStepTypes ==
    ASSUME AccountsAssumption, NameTypes, NEW r \in Requests,
           \/ \E s \in Slots : Uploads!Begin(r, s)
           \/ Uploads!Refuse(r) \/ Uploads!Write(r) \/ Uploads!Clear(r)
           \/ Uploads!Commit(r) \/ Uploads!Abort(r)
    PROVE  NameTypes' /\ UNCHANGED <<logo, lookup>>
<1>0. Uploads!Idle \in Asked
  BY DEF Asked
<1>1. ASSUME NEW s \in Slots, Uploads!Begin(r, s) PROVE NameTypes' /\ UNCHANGED <<logo, lookup>>
  <2>1. [at |-> "read", slot |-> s, old |-> url[s]] \in Asked
    BY AskedKinds DEF NameTypes
  <2> QED BY <1>1, <2>1 DEF NameTypes, Uploads!Begin
<1>2. CASE Uploads!Refuse(r) \/ Uploads!Abort(r)
  BY <1>0, <1>2 DEF NameTypes, Uploads!Refuse, Uploads!Abort
<1>3. CASE Uploads!Write(r)
  <2>1. upload[r].slot \in Slots /\ upload[r].old \in Named
    BY <1>3, AskedKinds DEF NameTypes, Uploads!Write
  <2>2. /\ Uploads!NewName \in 1..MaxUploads /\ uploaded' \in 0..MaxUploads
    BY <1>3, NewNameTypes DEF NameTypes, Uploads!Write
  <2>3. [at |-> "commit", slot |-> upload[r].slot, old |-> upload[r].old,
         new |-> Uploads!NewName] \in Asked
    BY <2>1, <2>2, AskedKinds DEF Named
  <2>4. upload' \in [Requests -> Asked]
    BY <1>3, <2>3 DEF NameTypes, Uploads!Write
  <2>5. files' \subseteq 1..MaxUploads /\ torn' \subseteq 1..MaxUploads
    BY <1>3, <2>1, <2>2 DEF NameTypes, Named, Uploads!Write
  <2> QED BY <1>3, <2>2, <2>4, <2>5 DEF NameTypes, Uploads!Write
<1>4. CASE Uploads!Clear(r)
  <2>1. upload[r].slot \in Slots /\ upload[r].old \in Named
    BY <1>4, AskedKinds DEF NameTypes, Uploads!Clear
  <2>2. [at |-> "commit", slot |-> upload[r].slot, old |-> upload[r].old, new |-> Unset] \in Asked
    BY <2>1, AskedKinds DEF Named
  <2>3. upload' \in [Requests -> Asked]
    BY <1>4, <2>2 DEF NameTypes, Uploads!Clear
  <2>4. files' \subseteq 1..MaxUploads /\ torn' \subseteq 1..MaxUploads
    BY <1>4, <2>1 DEF NameTypes, Named, Uploads!Clear
  <2> QED BY <1>4, <2>3, <2>4 DEF NameTypes, Uploads!Clear
<1>5. CASE Uploads!Commit(r)
  <2>1. upload[r].slot \in Slots /\ upload[r].new \in Named
    BY <1>5, AskedKinds DEF NameTypes, Uploads!Commit
  <2>2. url' \in [Slots -> Named]
    BY <1>5, <2>1 DEF NameTypes, Uploads!Commit
  <2>3. upload' \in [Requests -> Asked] /\ torn' \subseteq 1..MaxUploads
    BY <1>0, <1>5 DEF NameTypes, Uploads!Commit
  <2> QED BY <1>5, <2>2, <2>3 DEF NameTypes, Uploads!Commit
<1> QED BY <1>1, <1>2, <1>3, <1>4, <1>5

LEMMA UploadsStepTypes ==
    ASSUME AccountsAssumption, Uploads!TypeOK, [Uploads!Next]_uploads
    PROVE  Uploads!TypeOK'
<1>0. NameTypes /\ ListTypes
  BY UploadsParts
<1> SUFFICES NameTypes' /\ ListTypes'
  BY UploadsPartsNext
<1>1. CASE UNCHANGED uploads
  BY <1>0, <1>1 DEF uploads, NameTypes, ListTypes
<1>2. ASSUME NEW r \in Requests,
             \/ \E s \in Slots : Uploads!Begin(r, s)
             \/ Uploads!Refuse(r) \/ Uploads!Write(r) \/ Uploads!Clear(r)
             \/ Uploads!Commit(r) \/ Uploads!Abort(r)
      PROVE  NameTypes' /\ ListTypes'
  BY <1>0, <1>2, UploadStepTypes DEF ListTypes
<1>3. CASE Uploads!AdminUpload
  <2>1. Uploads!NewName \in 1..MaxUploads /\ uploaded' \in 0..MaxUploads
    BY <1>0, <1>3, NewNameTypes DEF NameTypes, Uploads!AdminUpload
  <2> QED BY <1>0, <1>3, <2>1 DEF NameTypes, ListTypes, Uploads!AdminUpload
<1>4. ASSUME NEW f \in Uploads!FileNames, Uploads!SetLogo(f) \/ Uploads!DeleteUnused(f)
      PROVE  NameTypes' /\ ListTypes'
  BY <1>0, <1>4 DEF NameTypes, ListTypes, Named, Uploads!FileNames, Uploads!SetLogo,
                    Uploads!DeleteUnused
<1>5. CASE Uploads!List \/ Uploads!Expire
  BY <1>0, <1>5 DEF NameTypes, ListTypes, Uploads!List, Uploads!Expire
<1> QED BY <1>1, <1>2, <1>3, <1>4, <1>5 DEF Uploads!Next

LEMMA UploadsInitTypes == ASSUME AccountsAssumption, AccountsInit PROVE Uploads!TypeOK
<1>1. Uploads!Init /\ MaxUploads \in Nat
  BY DEF AccountsInit, AccountsAssumption
<1> QED BY <1>1 DEF Uploads!Init, Uploads!TypeOK

LEMMA UploadsTyped == ASSUME AccountsAssumption PROVE AccountsSpec => []Uploads!TypeOK
  BY UploadsInitTypes, StepOfUploads, UploadsStepTypes, PTL DEF AccountsSpec

-----------------------------------------------------------------------------
(* Backups: files hold what the database once was, or are torn.            *)
Copying == [file : Backups!Numbers, has : Backups!Changes]
Nightly == [file : Backups!Numbers, has : Backups!Changes, step : {"copy", "offsite", "prune"}]
Contents == \A n \in DOMAIN copies : copies[n] \in Backups!Changes \cup {Unset}

LEMMA CopiedTypes ==
    ASSUME DOMAIN copies \subseteq Backups!Numbers, Contents, NEW copy,
           copy.file \in Backups!Numbers, copy.has \in Backups!Changes,
           copies' = Backups!Copied(copy)
    PROVE  DOMAIN copies' \subseteq Backups!Numbers /\ Contents'
  BY DEF Backups!Copied, Backups!With, Contents

LEMMA AddedTypes ==
    ASSUME DOMAIN copies \subseteq Backups!Numbers, Contents, NEW n \in Backups!Numbers,
           copies' = Backups!With(copies, n, Unset)
    PROVE  DOMAIN copies' \subseteq Backups!Numbers /\ Contents'
  BY DEF Backups!With, Contents

LEMMA RemovedTypes ==
    ASSUME DOMAIN copies \subseteq Backups!Numbers, Contents, NEW S,
           copies' = Backups!Without(copies, S)
    PROVE  DOMAIN copies' \subseteq Backups!Numbers /\ Contents'
  BY DEF Backups!Without, Contents

LEMMA BackupsStepTypes ==
    ASSUME AccountsAssumption, Backups!TypeOK, [Backups!Next]_backups
    PROVE  Backups!TypeOK'
<1>0. /\ db \in Backups!Changes /\ stored \in Backups!Changes
      /\ DOMAIN copies \subseteq Backups!Numbers /\ Contents
      /\ copied \in 0..MaxCopies /\ created \in 0..copied
      /\ night \in Nightly \cup {Unset} /\ create \in Copying \cup {Unset}
      /\ removed \in BOOLEAN /\ flooded \in BOOLEAN
  BY DEF Backups!TypeOK, Contents, Nightly, Copying
<1>a. MaxCopies \in Nat /\ MaxCommits \in Nat
  BY DEF AccountsAssumption, CopiesAssumption, Backups!BackupsAssumption
<1> SUFFICES /\ db' \in Backups!Changes /\ stored' \in Backups!Changes
             /\ DOMAIN copies' \subseteq Backups!Numbers /\ Contents'
             /\ copied' \in 0..MaxCopies /\ created' \in 0..copied'
             /\ night' \in Nightly \cup {Unset} /\ create' \in Copying \cup {Unset}
             /\ removed' \in BOOLEAN /\ flooded' \in BOOLEAN
  BY DEF Backups!TypeOK, Contents, Nightly, Copying
<1>1. CASE UNCHANGED backups
  BY <1>0, <1>1 DEF backups, Contents
<1>2. CASE Backups!Commit
  <2>1. db' \in Backups!Changes
    BY <1>0, <1>a, <1>2 DEF Backups!Commit, Backups!Changes
  <2> QED BY <1>0, <1>2, <2>1 DEF Backups!Commit, Contents
<1>b. ASSUME copied < MaxCopies, copied' = copied + 1
      PROVE  copied' \in Backups!Numbers /\ copied' \in 0..MaxCopies
  BY <1>0, <1>a, <1>b DEF Backups!Numbers
<1>3. CASE Backups!Midnight
  <2>1. copied' \in Backups!Numbers /\ copied' \in 0..MaxCopies
    BY <1>b, <1>3 DEF Backups!Midnight
  <2>2. DOMAIN copies' \subseteq Backups!Numbers /\ Contents'
    BY <1>0, <1>3, <2>1, AddedTypes DEF Backups!Midnight
  <2>3. night' \in Nightly /\ created' \in 0..copied'
    BY <1>0, <1>a, <1>3, <2>1 DEF Backups!Midnight, Nightly
  <2> QED BY <1>0, <1>3, <2>1, <2>2, <2>3 DEF Backups!Midnight
<1>4. CASE Backups!NightCopied
  <2>1. /\ night \in Nightly /\ night.file \in Backups!Numbers /\ night.has \in Backups!Changes
    BY <1>0, <1>4 DEF Backups!NightCopied, Nightly
  <2>2. DOMAIN copies' \subseteq Backups!Numbers /\ Contents'
    BY <1>0, <1>4, <2>1, CopiedTypes DEF Backups!NightCopied
  <2>3. night' \in Nightly
    BY <1>4, <2>1 DEF Backups!NightCopied, Nightly
  <2>4. stored' \in Backups!Changes
    BY <1>0, <1>4, <2>1 DEF Backups!NightCopied
  <2> QED BY <1>0, <1>4, <2>2, <2>3, <2>4 DEF Backups!NightCopied
<1>5. CASE Backups!NightFails
  BY <1>0, <1>5 DEF Backups!NightFails, Contents
<1>6. CASE Backups!Offsite
  <2>1. night' \in Nightly
    BY <1>0, <1>6 DEF Backups!Offsite, Nightly
  <2> QED BY <1>0, <1>6, <2>1 DEF Backups!Offsite, Contents
<1>7. CASE Backups!Prune
  <2>1. DOMAIN copies' \subseteq Backups!Numbers /\ Contents'
    BY <1>0, <1>7, RemovedTypes DEF Backups!Prune
  <2>2. flooded' \in BOOLEAN
    BY <1>7, Zenon DEF Backups!Prune, Backups!Floods
  <2> QED BY <1>0, <1>7, <2>1, <2>2 DEF Backups!Prune
<1>8. CASE Backups!CreateBackup
  <2>1. copied' \in Backups!Numbers /\ copied' \in 0..MaxCopies
    BY <1>b, <1>8 DEF Backups!CreateBackup
  <2>2. DOMAIN copies' \subseteq Backups!Numbers /\ Contents'
    BY <1>0, <1>8, <2>1, AddedTypes DEF Backups!CreateBackup
  <2>3. create' \in Copying
    BY <1>0, <1>8, <2>1 DEF Backups!CreateBackup, Copying
  <2>4. created' \in 0..copied'
    BY <1>0, <1>a, <1>8 DEF Backups!CreateBackup
  <2> QED BY <1>0, <1>8, <2>1, <2>2, <2>3, <2>4 DEF Backups!CreateBackup
<1>9. CASE Backups!CreateCopied
  <2>1. create.file \in Backups!Numbers /\ create.has \in Backups!Changes
    BY <1>0, <1>9 DEF Backups!CreateCopied, Copying
  <2>2. DOMAIN copies' \subseteq Backups!Numbers /\ Contents'
    BY <1>0, <1>9, <2>1, CopiedTypes DEF Backups!CreateCopied
  <2> QED BY <1>0, <1>9, <2>2 DEF Backups!CreateCopied
<1>10. CASE Backups!CreateFails \/ Backups!Crash
  BY <1>0, <1>10 DEF Backups!CreateFails, Backups!Crash, Contents
<1>11. ASSUME NEW n \in Backups!Numbers, Backups!DeleteBackup(n)
       PROVE  DOMAIN copies' \subseteq Backups!Numbers /\ Contents'
  BY <1>0, <1>11, RemovedTypes DEF Backups!DeleteBackup
<1>12. CASE \E n \in Backups!Numbers : Backups!DeleteBackup(n)
  BY <1>0, <1>11, <1>12 DEF Backups!DeleteBackup
<1> QED BY <1>1, <1>2, <1>3, <1>4, <1>5, <1>6, <1>7, <1>8, <1>9, <1>10, <1>12 DEF Backups!Next

LEMMA BackupsInitTypes == ASSUME AccountsAssumption, AccountsInit PROVE Backups!TypeOK
<1>1. /\ Backups!Init
      /\ MaxCopies \in Nat /\ MaxCommits \in Nat
  BY DEF AccountsInit, AccountsAssumption, CopiesAssumption, Backups!BackupsAssumption
<1>2. DOMAIN copies = {} /\ night = Unset /\ create = Unset /\ removed = FALSE /\ flooded = FALSE
  BY <1>1 DEF Backups!Init
<1>3. /\ db \in Backups!Changes /\ stored \in Backups!Changes
      /\ copied \in 0..MaxCopies /\ created \in 0..copied
  BY <1>1 DEF Backups!Init, Backups!Changes
<1> QED BY <1>2, <1>3 DEF Backups!TypeOK

LEMMA BackupsTyped == ASSUME AccountsAssumption PROVE AccountsSpec => []Backups!TypeOK
  BY BackupsInitTypes, StepOfBackups, BackupsStepTypes, PTL DEF AccountsSpec

-----------------------------------------------------------------------------
(* Roles: the site, its accounts, and what each request read and decided.  *)
Plain == {Roles!Free} \cup Roles!Setup \cup Roles!Signed
RolesAsked == Plain \cup Roles!Read
Decided(q) == DOMAIN q.roles = q.targets /\ DOMAIN q.actives = q.targets

\* The accounts, what is committed of them, and the requests that change them.
SiteTypes ==
    /\ phase \in {"seed", "migrate", "up"}
    /\ migrated \in BOOLEAN /\ setupDone \in BOOLEAN /\ welcome \in BOOLEAN
    /\ founders \subseteq Users
AccountTypes ==
    /\ DOMAIN level \subseteq Users
    /\ level \in [DOMAIN level -> Roles!Levels]
    /\ active \in [DOMAIN level -> BOOLEAN]
    /\ writes \in Nat
RequestTypes ==
    /\ roleReq \in [Requests -> RolesAsked]
    /\ \A r \in Requests : roleReq[r] \in Roles!Read => Decided(roleReq[r])

LEMMA RolesParts ==
    Roles!TypeOK <=> SiteTypes /\ AccountTypes /\ RequestTypes /\ clean \in BOOLEAN
  BY DEF Roles!TypeOK, SiteTypes, AccountTypes, RequestTypes, Plain, RolesAsked, Decided
LEMMA RolesPartsNext ==
    Roles!TypeOK' <=> SiteTypes' /\ AccountTypes' /\ RequestTypes' /\ clean' \in BOOLEAN
  BY DEF Roles!TypeOK, SiteTypes, AccountTypes, RequestTypes, Plain, RolesAsked, Decided

LEMMA AskedOfRoles ==
    ASSUME NEW q \in RolesAsked
    PROVE  /\ q.op \in {"setup", "leave"} => q \in Roles!Setup
           /\ q.op \in Roles!Single \cup Roles!Bulk => q \in Roles!Signed \cup Roles!Read
           /\ q.op \in Roles!Single \cup Roles!Bulk /\ q.stage = "signed" => q \in Roles!Signed
           /\ q.op \in Roles!Single \cup Roles!Bulk /\ q.stage = "read" => q \in Roles!Read
           /\ q \in Plain => q \notin Roles!Read
  BY DEF RolesAsked, Plain, Roles!Free, Roles!Setup, Roles!Signed, Roles!Read, Roles!Single,
         Roles!Bulk

\* A request begins or ends.
LEMMA PlainRequest ==
    ASSUME RequestTypes, NEW r \in Requests, NEW q \in Plain,
           roleReq' = [roleReq EXCEPT ![r] = q]
    PROVE  RequestTypes'
<1>1. q \in RolesAsked /\ q \notin Roles!Read
  BY AskedOfRoles DEF RolesAsked
<1> QED BY <1>1 DEF RequestTypes

LEMMA EndedRequest ==
    ASSUME RequestTypes, NEW r \in Requests, Roles!Done(r)
    PROVE  RequestTypes'
<1>1. Roles!Free \in Plain
  BY DEF Plain
<1> QED BY <1>1, PlainRequest DEF Roles!Done

LEMMA WithTypes ==
    ASSUME NEW f, NEW D, NEW V, f \in [D -> V], NEW u, NEW v \in V
    PROVE  Roles!With(f, u, v) \in [D \cup {u} -> V]
  BY DEF Roles!With

LEMMA AddedAccount ==
    ASSUME AccountTypes, NEW u \in Users, NEW l \in Roles!Levels, Roles!Added(u, l)
    PROVE  AccountTypes'
<1>1. level' = Roles!With(level, u, l) /\ active' = Roles!With(active, u, TRUE)
  BY DEF Roles!Added
<1>2. level' \in [DOMAIN level \cup {u} -> Roles!Levels]
  BY <1>1, WithTypes DEF AccountTypes
<1>3. active' \in [DOMAIN level \cup {u} -> BOOLEAN]
  BY <1>1, WithTypes DEF AccountTypes
<1>4. DOMAIN level' = DOMAIN level \cup {u} /\ writes' \in Nat
  BY <1>2 DEF AccountTypes, Roles!Added
<1>5. DOMAIN level' \subseteq Users
  BY <1>4 DEF AccountTypes
<1> QED BY <1>2, <1>3, <1>4, <1>5 DEF AccountTypes

LEMMA SignInTypes ==
    ASSUME AccountTypes, RequestTypes, NEW r \in Requests, NEW op \in Roles!Single \cup Roles!Bulk,
           NEW caller \in DOMAIN level, NEW targets \in SUBSET Users,
           Roles!SignIn(r, op, caller, targets)
    PROVE  RequestTypes'
<1>1. PICK to \in Roles!Levels :
          roleReq' = [roleReq EXCEPT ![r] =
              [op |-> op, stage |-> "signed", caller |-> caller, mine |-> level[caller],
               targets |-> targets, to |-> to]]
  <2>1. Roles!User \in Roles!Levels
    BY DEF Roles!Levels, Roles!User, Roles!Superadmin
  <2> QED BY <2>1 DEF Roles!SignIn, Roles!Begin
<1>2. level[caller] \in Roles!Levels /\ caller \in Users
  BY DEF AccountTypes
<1>3. [op |-> op, stage |-> "signed", caller |-> caller, mine |-> level[caller],
       targets |-> targets, to |-> to] \in Plain
  BY <1>2 DEF Plain, Roles!Signed
<1> QED BY <1>1, <1>3, PlainRequest

LEMMA RowsOver ==
    ASSUME NEW T \in SUBSET Users, NEW V, NEW f \in [T -> V]
    PROVE  f \in Roles!Rows(V)
  BY DEF Roles!Rows

LEMMA ReadTargetsTypes ==
    ASSUME AccountTypes, RequestTypes, NEW r \in Requests, Roles!ReadTargets(r)
    PROVE  RequestTypes'
<1> DEFINE q == roleReq[r]
           rows == {u \in q.targets \cap DOMAIN level : Roles!MayAct(q, u)}
           levels == [u \in rows |-> level[u]]
           actives == [u \in rows |-> active[u]]
           new == [op |-> q.op, stage |-> "read", caller |-> q.caller, mine |-> q.mine,
                   targets |-> rows, to |-> q.to,
                   roles |-> levels, actives |-> actives]
<1>1. q \in Roles!Signed
  BY AskedOfRoles DEF Roles!ReadTargets, RequestTypes
<1>2. rows \in SUBSET Users /\ levels \in [rows -> Roles!Levels]
  BY DEF AccountTypes
<1>3. actives \in [rows -> BOOLEAN]
  BY DEF AccountTypes
<1>4. roleReq' = [roleReq EXCEPT ![r] = IF rows = {} THEN Roles!Free ELSE new]
  BY DEF Roles!ReadTargets
<1>5. levels \in Roles!Rows(Roles!Levels) /\ actives \in Roles!Rows(BOOLEAN)
  BY <1>2, <1>3, RowsOver
<1>6. DOMAIN levels = rows /\ DOMAIN actives = rows
  OBVIOUS
<1>7. new.roles = levels /\ new.actives = actives /\ new.targets = rows
  OBVIOUS
<1>8. /\ q.op \in Roles!Single \cup Roles!Bulk /\ q.caller \in Users /\ q.mine \in Roles!Levels
      /\ q.to \in Roles!Levels
  BY <1>1 DEF Roles!Signed
<1> HIDE DEF q, rows, levels, actives
<1>9. new \in Roles!Read
  BY <1>2, <1>5, <1>8 DEF Roles!Read
<1>10. Decided(new)
  BY <1>6, <1>7 DEF Decided
<1> HIDE DEF new
<1>11. CASE rows = {}
  BY <1>4, <1>11, PlainRequest DEF Plain
<1>12. CASE rows # {}
  BY <1>4, <1>9, <1>10, <1>12 DEF RequestTypes, RolesAsked
<1> QED BY <1>11, <1>12

LEMMA WriteTargetsTypes ==
    ASSUME AccountTypes, RequestTypes, NEW r \in Requests, Roles!WriteTargets(r)
    PROVE  AccountTypes' /\ RequestTypes'
<1> DEFINE q == roleReq[r]
           gone == IF Roles!Deletes(q) THEN q.targets ELSE {}
           stay == DOMAIN level \ gone
<1>1. q \in Roles!Read /\ Decided(q)
  BY AskedOfRoles DEF Roles!WriteTargets, RequestTypes
<1>2. /\ level' = [u \in stay |-> IF u \in q.targets THEN Roles!NewLevel(q, u) ELSE level[u]]
      /\ active' = [u \in stay |-> IF u \in q.targets THEN Roles!NewActive(q, u) ELSE active[u]]
      /\ writes' = writes + 1 /\ Roles!Done(r)
  BY DEF Roles!WriteTargets
<1>3. stay \subseteq DOMAIN level
  OBVIOUS
<1>4. q.to \in Roles!Levels
  BY <1>1 DEF Roles!Read
<1>5. q.actives \in [q.targets -> BOOLEAN]
  BY <1>1 DEF Roles!Read, Roles!Rows, Decided
<1> HIDE DEF q, gone, stay
<1>6. level' \in [stay -> Roles!Levels]
  <2>1. \A u \in stay : level[u] \in Roles!Levels /\ Roles!NewLevel(q, u) \in Roles!Levels
    BY <1>3, <1>4 DEF AccountTypes, Roles!NewLevel
  <2> QED BY <1>2, <2>1
<1>7. active' \in [stay -> BOOLEAN]
  <2>1. ASSUME NEW u \in stay PROVE active[u] \in BOOLEAN
    BY <1>3 DEF AccountTypes
  <2>2. ASSUME NEW u \in stay, u \in q.targets PROVE Roles!NewActive(q, u) \in BOOLEAN
    <3>1. active[u] \in BOOLEAN /\ (~q.actives[u]) \in BOOLEAN
      BY <2>1, <2>2
    <3> QED BY <3>1 DEF Roles!NewActive
  <2> QED BY <1>2, <2>1, <2>2
<1>8. DOMAIN level' = stay
  BY <1>6
<1>9. writes' \in Nat /\ DOMAIN level' \subseteq Users
  BY <1>2, <1>3, <1>8 DEF AccountTypes
<1> QED BY <1>2, <1>6, <1>7, <1>8, <1>9, EndedRequest DEF AccountTypes

LEMMA MigratedTypes ==
    ASSUME AccountTypes
    PROVE  Roles!Promoted \in [DOMAIN level -> Roles!Levels]
  BY DEF AccountTypes, Roles!Promoted, Roles!Levels, Roles!User, Roles!Superadmin

LEMMA RolesStepTypes ==
    ASSUME Roles!TypeOK, [Roles!Next]_roles
    PROVE  Roles!TypeOK'
<1>0. SiteTypes /\ AccountTypes /\ RequestTypes /\ clean \in BOOLEAN
  BY RolesParts
<1> DEFINE Goal == SiteTypes' /\ AccountTypes' /\ RequestTypes' /\ clean' \in BOOLEAN
<1> SUFFICES Goal
  BY RolesPartsNext
<1>1. CASE UNCHANGED roles
  BY <1>0, <1>1 DEF roles, SiteTypes, AccountTypes, RequestTypes
<1>2. CASE Roles!SeedDefaults
  <2>1. (setupDone \/ Roles!HasAdmin) \in BOOLEAN
    OBVIOUS
  <2>2. SiteTypes'
    BY <1>0, <1>2, <2>1 DEF Roles!SeedDefaults, SiteTypes
  <2> QED BY <1>0, <1>2, <2>2 DEF Roles!SeedDefaults, AccountTypes, RequestTypes
<1>3. CASE Roles!MigrateAdminRoleTiers
  <2>1. AccountTypes'
    <3>1. level' \in [DOMAIN level -> Roles!Levels] /\ UNCHANGED <<active, writes>>
      BY <1>0, <1>3, MigratedTypes DEF Roles!MigrateAdminRoleTiers
    <3>2. DOMAIN level' = DOMAIN level
      BY <3>1
    <3> QED BY <1>0, <3>1, <3>2 DEF AccountTypes
  <2>2. SiteTypes'
    BY <1>0, <1>3 DEF Roles!MigrateAdminRoleTiers, SiteTypes
  <2> QED BY <1>0, <1>3, <2>1, <2>2 DEF Roles!MigrateAdminRoleTiers, RequestTypes
<1>4. CASE Roles!Restart
  <2>1. RequestTypes'
    <3>1. Roles!Free \in Plain /\ roleReq' = [r \in Requests |-> Roles!Free]
      BY <1>4 DEF Plain, Roles!Restart
    <3> QED BY <3>1, AskedOfRoles DEF RequestTypes, RolesAsked
  <2> QED BY <1>0, <1>4, <2>1 DEF Roles!Restart, SiteTypes, AccountTypes
<1>5. ASSUME NEW u \in Users, Roles!Register(u) PROVE Goal
  <2>1. Roles!User \in Roles!Levels
    BY DEF Roles!Levels, Roles!User, Roles!Superadmin
  <2>2. AccountTypes'
    BY <1>0, <1>5, <2>1, AddedAccount DEF Roles!Register
  <2> QED BY <1>0, <1>5, <2>2 DEF Roles!Register, Roles!siteVars, SiteTypes, RequestTypes
<1>6. ASSUME NEW r \in Requests, NEW u \in Users, Roles!SetupRead(r, u) PROVE Goal
  <2>1. [op |-> "setup", user |-> u] \in Plain
    BY DEF Plain, Roles!Setup
  <2>2. RequestTypes'
    BY <1>0, <1>6, <2>1, PlainRequest DEF Roles!SetupRead, Roles!Begin
  <2> QED BY <1>0, <1>6, <2>2 DEF Roles!SetupRead, Roles!siteVars, SiteTypes, AccountTypes
<1>7. ASSUME NEW r \in Requests, NEW op \in Roles!Single \cup Roles!Bulk,
             NEW caller \in DOMAIN level, NEW targets \in SUBSET Users,
             Roles!SignIn(r, op, caller, targets)
      PROVE  Goal
  <2>1. RequestTypes'
    BY <1>0, <1>7, SignInTypes
  <2> QED BY <1>0, <1>7, <2>1 DEF Roles!SignIn, Roles!siteVars, SiteTypes, AccountTypes
<1>8. ASSUME NEW r \in Requests, Roles!SetupWrite(r) PROVE Goal
  <2>1. roleReq[r].user \in Users
    <3>1. roleReq[r] \in Roles!Setup
      BY <1>0, <1>8, AskedOfRoles DEF Roles!SetupWrite, RequestTypes
    <3> QED BY <3>1 DEF Roles!Setup
  <2>2. Roles!Superadmin \in Roles!Levels
    BY DEF Roles!Levels, Roles!User, Roles!Superadmin
  <2>3. AccountTypes'
    BY <1>0, <1>8, <2>1, <2>2, AddedAccount DEF Roles!SetupWrite
  <2>4. RequestTypes'
    BY <1>0, <1>8, EndedRequest DEF Roles!SetupWrite
  <2>5. SiteTypes' /\ UNCHANGED clean
    BY <1>0, <1>8, <2>1 DEF Roles!SetupWrite, SiteTypes
  <2> QED BY <1>0, <2>3, <2>4, <2>5
<1>9. ASSUME NEW r \in Requests,
             Roles!SetupFails(r) \/ Roles!WriteFails(r) \/ Roles!LeaveFails(r)
      PROVE  Goal
  <2>1. RequestTypes'
    BY <1>0, <1>9, EndedRequest DEF Roles!SetupFails, Roles!WriteFails, Roles!LeaveFails
  <2> QED BY <1>0, <1>9, <2>1 DEF Roles!SetupFails, Roles!WriteFails, Roles!LeaveFails,
                                 Roles!siteVars, SiteTypes, AccountTypes
<1>10. ASSUME NEW r \in Requests, Roles!ReadTargets(r) PROVE Goal
  <2>1. RequestTypes'
    BY <1>0, <1>10, ReadTargetsTypes
  <2> QED BY <1>0, <1>10, <2>1 DEF Roles!ReadTargets, Roles!siteVars, SiteTypes, AccountTypes
<1>11. ASSUME NEW r \in Requests, Roles!WriteTargets(r) PROVE Goal
  <2>1. AccountTypes' /\ RequestTypes'
    BY <1>0, <1>11, WriteTargetsTypes
  <2>2. clean' \in BOOLEAN /\ UNCHANGED <<phase, migrated, setupDone, welcome, founders>>
    BY <1>0, <1>11 DEF Roles!WriteTargets, Roles!siteVars
  <2> QED BY <1>0, <2>1, <2>2 DEF SiteTypes
<1>12. ASSUME NEW r \in Requests, NEW u \in DOMAIN level, Roles!LeaveRead(r, u) PROVE Goal
  <2>1. [op |-> "leave", user |-> u] \in Plain
    BY <1>0 DEF Plain, Roles!Setup, AccountTypes
  <2>2. RequestTypes'
    BY <1>0, <1>12, <2>1, PlainRequest DEF Roles!LeaveRead, Roles!Begin
  <2> QED BY <1>0, <1>12, <2>2 DEF Roles!LeaveRead, Roles!siteVars, SiteTypes, AccountTypes
<1>13. ASSUME NEW r \in Requests, Roles!Leave(r) PROVE Goal
  <2> DEFINE stay == DOMAIN level \ {roleReq[r].user}
  <2>1. /\ level' = [u \in stay |-> level[u]]
        /\ active' = [u \in stay |-> active[u]]
        /\ writes' = writes + 1 /\ Roles!Done(r)
        /\ UNCHANGED <<phase, migrated, setupDone, welcome, founders>>
    BY <1>13 DEF Roles!Leave, Roles!siteVars
  <2>2. clean' \in BOOLEAN
    BY <1>0, <1>13 DEF Roles!Leave
  <2>3. stay \subseteq DOMAIN level
    OBVIOUS
  <2> HIDE DEF stay
  <2>4. DOMAIN level' = stay /\ level' \in [stay -> Roles!Levels] /\ writes' \in Nat
    BY <1>0, <2>1, <2>3 DEF AccountTypes
  <2>5. active' \in [stay -> BOOLEAN]
    BY <1>0, <2>1, <2>3 DEF AccountTypes
  <2>6. AccountTypes'
    BY <1>0, <2>3, <2>4, <2>5 DEF AccountTypes
  <2> QED BY <1>0, <2>1, <2>2, <2>6, EndedRequest DEF SiteTypes
<1> QED BY <1>1, <1>2, <1>3, <1>4, <1>5, <1>6, <1>7, <1>8, <1>9, <1>10, <1>11, <1>12, <1>13
        DEF Roles!Next

LEMMA RolesInitTypes == ASSUME AccountsInit PROVE Roles!TypeOK
<1>1. Roles!Init
  BY DEF AccountsInit
<1>2. SiteTypes /\ clean \in BOOLEAN
  BY <1>1 DEF Roles!Init, SiteTypes
<1>3. AccountTypes
  BY <1>1 DEF Roles!Init, AccountTypes, Roles!Levels, Roles!User, Roles!Superadmin, Roles!Admin
<1>4. RequestTypes
  <2>1. Roles!Free \in Plain /\ roleReq = [r \in Requests |-> Roles!Free]
    BY <1>1 DEF Plain, Roles!Init
  <2> QED BY <2>1, AskedOfRoles DEF RequestTypes, RolesAsked
<1> QED BY <1>2, <1>3, <1>4, RolesParts

LEMMA RolesTyped == AccountsSpec => []Roles!TypeOK
  BY RolesInitTypes, StepOfRoles, RolesStepTypes, PTL DEF AccountsSpec

-----------------------------------------------------------------------------
(* Maintenance: the list of episodes is never longer than those kept.      *)
KeptLists == Maintenance!BoundedSeq(BOOLEAN, KeptEpisodes)
ModeStages == {"idle", "write", "flag", "record", "recorded"}
ModeRequests == [at : ModeStages, to : BOOLEAN, by : {"visit", "change", "same"}, list : KeptLists]
Dates == Maintenance!Times \cup {Unset}

ModeTypes == /\ mode \in BOOLEAN
             /\ flag \in BOOLEAN
             /\ astray \in BOOLEAN
             /\ request \in [Requests -> ModeRequests]
             /\ episodes \in KeptLists
DateTypes == start \in Dates /\ end \in Dates /\ now \in 0..MaxTime /\ orders \in 0..MaxOrders

LEMMA MaintenanceParts == Maintenance!TypeOK <=> ModeTypes /\ DateTypes
  BY DEF Maintenance!TypeOK, ModeTypes, DateTypes, ModeRequests, KeptLists, ModeStages, Dates
LEMMA MaintenancePartsNext == Maintenance!TypeOK' <=> ModeTypes' /\ DateTypes'
  BY DEF Maintenance!TypeOK, ModeTypes, DateTypes, ModeRequests, KeptLists, ModeStages, Dates

LEMMA ShortLists ==
    ASSUME AccountsAssumption, NEW list \in KeptLists
    PROVE  /\ list \in Seq(BOOLEAN)
           /\ Len(list) \in 0..KeptEpisodes
<1>1. PICK m \in 0..KeptEpisodes : list \in [1..m -> BOOLEAN]
  BY DEF KeptLists, Maintenance!BoundedSeq, Maintenance!SeqOf
<1>2. m \in Nat
  BY <1>1 DEF AccountsAssumption
<1> QED BY <1>1, <1>2

LEMMA ListsKept ==
    ASSUME AccountsAssumption, NEW list \in Seq(BOOLEAN), Len(list) <= KeptEpisodes
    PROVE  list \in KeptLists
<1>1. /\ list \in [1..Len(list) -> BOOLEAN]
      /\ Len(list) \in 0..KeptEpisodes
  BY LenProperties DEF AccountsAssumption
<1> QED BY <1>1 DEF KeptLists, Maintenance!BoundedSeq, Maintenance!SeqOf

LEMMA RecordedKept ==
    ASSUME AccountsAssumption, NEW list \in KeptLists, NEW opened \in BOOLEAN
    PROVE  Maintenance!Recorded(list, opened) \in KeptLists
<1>1. /\ list \in Seq(BOOLEAN) /\ Len(list) \in Nat /\ Len(list) <= KeptEpisodes
      /\ KeptEpisodes \in Nat
  BY ShortLists DEF AccountsAssumption
<1>2. CASE opened
  <2> DEFINE long == <<TRUE>> \o list
             k == IF Len(list) < KeptEpisodes THEN Len(list) + 1 ELSE KeptEpisodes
  <2>1. long \in Seq(BOOLEAN) /\ Len(long) = Len(list) + 1
    BY <1>1
  <2>2. k \in 0..KeptEpisodes /\ k <= Len(list) + 1
    BY <1>1
  <2> HIDE DEF long, k
  <2>3. \A i \in 1..k : long[i] \in BOOLEAN
    BY <1>1, <2>1, <2>2
  <2>4. SubSeq(long, 1, k) \in Seq(BOOLEAN) /\ Len(SubSeq(long, 1, k)) = k
    BY <2>2, <2>3, SubSeqProperties
  <2>5. SubSeq(long, 1, k) \in KeptLists
    <3>1. PICK x : x = SubSeq(long, 1, k)
      OBVIOUS
    <3>2. x \in Seq(BOOLEAN) /\ Len(x) <= KeptEpisodes
      BY <1>1, <2>2, <2>4, <3>1
    <3>3. x \in KeptLists
      BY <3>2, ListsKept
    <3> QED BY <3>1, <3>3
  <2> QED BY <1>2, <2>5 DEF Maintenance!Recorded, long, k
<1>3. CASE ~opened
  <2>1. \A k : [list EXCEPT ![k] = FALSE] \in KeptLists
    <3> TAKE k
    <3>0. list \in [1..Len(list) -> BOOLEAN]
      BY <1>1, LenProperties
    <3>1. [list EXCEPT ![k] = FALSE] \in [1..Len(list) -> BOOLEAN]
      BY <3>0
    <3> QED BY <1>1, <3>1 DEF KeptLists, Maintenance!BoundedSeq, Maintenance!SeqOf
  <2> QED BY <1>3, <2>1 DEF Maintenance!Recorded
<1> QED BY <1>2, <1>3

LEMMA NothingKept == ASSUME AccountsAssumption PROVE <<>> \in KeptLists
<1>1. <<>> \in [1..0 -> BOOLEAN] /\ 0 \in 0..KeptEpisodes
  BY DEF AccountsAssumption
<1> QED BY <1>1 DEF KeptLists, Maintenance!BoundedSeq, Maintenance!SeqOf

LEMMA RequestKinds ==
    ASSUME AccountsAssumption
    PROVE  /\ Maintenance!Idle \in ModeRequests
           /\ \A to \in BOOLEAN, by \in {"visit", "change", "same"} :
                 [at |-> "write", to |-> to, by |-> by, list |-> <<>>] \in ModeRequests
  BY NothingKept DEF Maintenance!Idle, ModeStages, ModeRequests

LEMMA ModeStepTypes ==
    ASSUME AccountsAssumption, ModeTypes, NEW r \in Requests,
           \/ Maintenance!Visit(r) \/ \E to \in BOOLEAN : Maintenance!Switch(r, to)
           \/ Maintenance!Commit(r) \/ Maintenance!CommitFails(r) \/ Maintenance!WriteFlag(r)
           \/ Maintenance!WriteFlagFails(r) \/ Maintenance!RefreshFails(r)
           \/ Maintenance!RecordRead(r) \/ Maintenance!RecordWrite(r)
           \/ Maintenance!RecordFails(r)
    PROVE  ModeTypes'
<1>0. request[r] \in ModeRequests
  BY DEF ModeTypes
<1>1. CASE Maintenance!Visit(r)
  <2>1. Maintenance!Opens \in BOOLEAN
    BY DEF Maintenance!Opens
  <2> QED BY <1>1, <2>1, RequestKinds DEF ModeTypes, Maintenance!Visit, Maintenance!Begins
<1>2. ASSUME NEW to \in BOOLEAN, Maintenance!Switch(r, to) PROVE ModeTypes'
  BY <1>2, RequestKinds DEF ModeTypes, Maintenance!Switch, Maintenance!Begins
<1>3. CASE Maintenance!Commit(r)
  <2>1. mode' \in BOOLEAN /\ astray' \in BOOLEAN
    BY <1>0, <1>3 DEF ModeTypes, ModeRequests, Maintenance!Commit
  <2> QED BY <1>0, <1>3, <2>1 DEF ModeTypes, ModeRequests, ModeStages, Maintenance!Commit,
                                 Maintenance!Goes
<1>4. CASE \/ Maintenance!CommitFails(r) \/ Maintenance!RecordFails(r)
           \/ Maintenance!RefreshFails(r)
  <2>1. astray' \in BOOLEAN /\ UNCHANGED <<mode, flag, episodes>> /\ Maintenance!Ends(r)
    BY <1>4 DEF ModeTypes, Maintenance!CommitFails, Maintenance!RecordFails,
                Maintenance!RefreshFails
  <2> QED BY <2>1, RequestKinds DEF ModeTypes, Maintenance!Ends
<1>5. CASE Maintenance!WriteFlag(r) \/ Maintenance!WriteFlagFails(r)
  <2>1. /\ flag' \in BOOLEAN /\ astray' \in BOOLEAN
        /\ UNCHANGED <<mode, episodes>> /\ Maintenance!Goes(r, "record")
    BY <1>0, <1>5 DEF ModeTypes, ModeRequests, Maintenance!WriteFlag, Maintenance!WriteFlagFails
  <2> QED BY <1>0, <2>1 DEF ModeTypes, ModeRequests, ModeStages, Maintenance!Goes
<1>6. CASE Maintenance!RecordRead(r)
  BY <1>0, <1>6 DEF ModeTypes, ModeRequests, ModeStages, Maintenance!RecordRead
<1>7. CASE Maintenance!RecordWrite(r)
  <2>1. episodes' \in KeptLists
    BY <1>0, <1>7, RecordedKept DEF ModeRequests, Maintenance!RecordWrite
  <2> QED BY <1>7, <2>1, RequestKinds DEF ModeTypes, Maintenance!RecordWrite, Maintenance!Ends
<1> QED BY <1>1, <1>2, <1>3, <1>4, <1>5, <1>6, <1>7

LEMMA OrderTypes ==
    ASSUME AccountsAssumption, orders \in 0..MaxOrders, Maintenance!Order
    PROVE  orders' \in 0..MaxOrders
  BY DEF AccountsAssumption, Maintenance!Order

LEMMA ModeStepDates ==
    ASSUME AccountsAssumption, DateTypes, NEW r \in Requests,
           \/ Maintenance!Visit(r) \/ \E to \in BOOLEAN : Maintenance!Switch(r, to)
           \/ Maintenance!Commit(r) \/ Maintenance!CommitFails(r) \/ Maintenance!WriteFlag(r)
           \/ Maintenance!WriteFlagFails(r) \/ Maintenance!RefreshFails(r)
           \/ Maintenance!RecordRead(r) \/ Maintenance!RecordWrite(r)
           \/ Maintenance!RecordFails(r)
    PROVE  DateTypes'
<1>1. UNCHANGED <<start, end, now>>
  BY DEF Maintenance!Visit, Maintenance!Switch, Maintenance!Commit, Maintenance!CommitFails,
         Maintenance!WriteFlag, Maintenance!WriteFlagFails, Maintenance!RefreshFails,
         Maintenance!RecordRead, Maintenance!RecordWrite, Maintenance!RecordFails
<1>2. UNCHANGED orders \/ Maintenance!Order
  BY DEF Maintenance!Visit, Maintenance!Switch, Maintenance!Commit, Maintenance!CommitFails,
         Maintenance!WriteFlag, Maintenance!WriteFlagFails, Maintenance!RefreshFails,
         Maintenance!RecordRead, Maintenance!RecordWrite, Maintenance!RecordFails
<1>3. orders' \in 0..MaxOrders
  BY <1>2, OrderTypes DEF DateTypes
<1> QED BY <1>1, <1>3 DEF DateTypes, Dates, Maintenance!Times

LEMMA MaintenanceStepTypes ==
    ASSUME AccountsAssumption, Maintenance!TypeOK, [Maintenance!Next]_maintenance
    PROVE  Maintenance!TypeOK'
<1>0. ModeTypes /\ DateTypes
  BY MaintenanceParts
<1> SUFFICES ModeTypes' /\ DateTypes'
  BY MaintenancePartsNext
<1>1. CASE UNCHANGED maintenance
  BY <1>0, <1>1 DEF maintenance, ModeTypes, DateTypes, Dates, Maintenance!Times
<1>2. ASSUME NEW r \in Requests,
             \/ Maintenance!Visit(r) \/ \E to \in BOOLEAN : Maintenance!Switch(r, to)
             \/ Maintenance!Commit(r) \/ Maintenance!CommitFails(r) \/ Maintenance!WriteFlag(r)
             \/ Maintenance!WriteFlagFails(r) \/ Maintenance!RefreshFails(r)
             \/ Maintenance!RecordRead(r) \/ Maintenance!RecordWrite(r)
             \/ Maintenance!RecordFails(r)
      PROVE  ModeTypes' /\ DateTypes'
  BY <1>0, <1>2, ModeStepTypes, ModeStepDates
<1>3. ASSUME NEW s \in {1, Unset}, NEW e \in {1, Unset}, Maintenance!Reschedule(s, e)
      PROVE  ModeTypes' /\ DateTypes'
  <2>1. s \in Dates /\ e \in Dates
    BY SessionsAssumption DEF Dates, Maintenance!Times
  <2>2. DateTypes'
    BY <1>0, <1>3, <2>1, OrderTypes
      DEF DateTypes, Dates, Maintenance!Times, Maintenance!Reschedule
  <2> QED BY <1>0, <1>3, <2>2 DEF ModeTypes, Maintenance!Reschedule
<1>4. ASSUME NEW to \in BOOLEAN, Maintenance!Import(to) PROVE ModeTypes' /\ DateTypes'
  <2>1. DateTypes'
    BY <1>0, <1>4, OrderTypes DEF DateTypes, Dates, Maintenance!Times, Maintenance!Import
  <2> QED BY <1>0, <1>4, <2>1 DEF ModeTypes, Maintenance!Import
<1>5. CASE Maintenance!Extend(1)
  <2>1. DateTypes'
    BY <1>0, <1>5, OrderTypes DEF DateTypes, Dates, Maintenance!Times, Maintenance!Extend
  <2> QED BY <1>0, <1>5, <2>1 DEF ModeTypes, Maintenance!Extend
<1>6. CASE Maintenance!Tick
  <2>1. DateTypes'
    BY <1>0, <1>6, SessionsAssumption DEF DateTypes, Dates, Maintenance!Times, Maintenance!Tick
  <2> QED BY <1>0, <1>6, <2>1 DEF ModeTypes, Maintenance!Tick
<1>7. CASE Maintenance!Restart \/ Maintenance!RestoreFails
  <2>1. DateTypes'
    BY <1>0, <1>7, OrderTypes DEF DateTypes, Dates, Maintenance!Times, Maintenance!Restart,
                                  Maintenance!RestoreFails
  <2> QED BY <1>0, <1>7, <2>1, RequestKinds DEF ModeTypes, Maintenance!Restart, Maintenance!Boots,
                                                Maintenance!RestoreFails
<1> QED BY <1>1, <1>2, <1>3, <1>4, <1>5, <1>6, <1>7 DEF Maintenance!Next

LEMMA MaintenanceInitTypes == ASSUME AccountsAssumption, AccountsInit PROVE Maintenance!TypeOK
<1>1. Maintenance!Init /\ MaxOrders \in Nat /\ MaxTime \in Nat
  BY SessionsAssumption DEF AccountsInit, AccountsAssumption
<1>2. DateTypes
  BY <1>1 DEF Maintenance!Init, DateTypes, Dates, Maintenance!Times
<1>3. episodes \in KeptLists
  BY <1>1, NothingKept DEF Maintenance!Init
<1>4. ModeTypes
  BY <1>1, <1>3, RequestKinds DEF Maintenance!Init, ModeTypes
<1> QED BY <1>2, <1>4, MaintenanceParts

LEMMA MaintenanceTyped == ASSUME AccountsAssumption PROVE AccountsSpec => []Maintenance!TypeOK
  BY MaintenanceInitTypes, StepOfMaintenance, MaintenanceStepTypes, PTL DEF AccountsSpec

-----------------------------------------------------------------------------
(* Playtime: besides its invariant, what a poll has seen was played, and   *)
(* the played seconds only grow.                                           *)
SeenInv == poll = Playtime!Idle \/ \A s \in poll.seen : \E p \in Players : s.seconds <= played[p]
CountTypes == joins \in [Players -> Nat] /\ renames \in [Players -> Nat]

LEMMA PlayedGrows ==
    ASSUME PlayTypes, [Playtime!Next]_playtime
    PROVE  \A p \in Players : played[p] \in Nat /\ played'[p] \in Nat /\ played[p] <= played'[p]
<1>0. played \in [Players -> Nat]
  BY DEF PlayTypes, PlayersType
<1>1. ASSUME NEW p \in Players, Playtime!Play(p)
      PROVE  played' = [played EXCEPT ![p] = played[p] + 1]
  BY <1>1 DEF Playtime!Play
<1>2. UNCHANGED played \/ \E p \in Players : Playtime!Play(p)
  BY DEF Playtime!Next, playtime, Playtime!gameVars, Playtime!Join, Playtime!Leave,
         Playtime!ReportRead, Playtime!ReportWrite, Playtime!ReportFails, Playtime!Rename,
         Playtime!PollAsk, Playtime!PollRead, Playtime!PollWrite, Playtime!PollFails,
         Playtime!Crash
<1> QED BY <1>0, <1>1, <1>2

LEMMA SeenStep ==
    ASSUME PlayAssumption, PlaytimeInv, SeenInv, [Playtime!Next]_playtime
    PROVE  SeenInv'
<1>1. \A p \in Players : played[p] \in Nat /\ played'[p] \in Nat /\ played[p] <= played'[p]
  BY PlayedGrows DEF PlaytimeInv
<1>2. CASE Playtime!PollAsk
  <2>1. /\ poll'.seen = {[name |-> name[p], seconds |-> session[p]] :
                            p \in {q \in Players : Playtime!InGame(q)}}
        /\ UNCHANGED played
    BY <1>2 DEF Playtime!PollAsk, Playtime!gameVars
  <2>2. \A p \in Players : Playtime!InGame(p) => session[p] <= played[p]
    BY DEF PlaytimeInv, PaidInv, Owed, Due, Playtime!InGame
  <2> QED BY <2>1, <2>2 DEF SeenInv
<1>3. CASE Playtime!PollRead
  <2>1. /\ poll'.seen \subseteq poll.seen /\ UNCHANGED played /\ poll # Playtime!Idle
    BY <1>3 DEF Playtime!PollRead, Playtime!gameVars, Playtime!Idle
  <2> QED BY <2>1 DEF SeenInv
<1>4. CASE poll' = Playtime!Idle
  BY <1>4 DEF SeenInv
<1>5. CASE UNCHANGED poll
  <2>1. poll # Playtime!Idle => \A s \in poll.seen : s.seconds \in Nat
    BY DEF PlaytimeInv, PlayTypes, PollType, AskedPoll, ReadPoll, Sighting
  <2> QED BY <1>1, <1>5, <2>1 DEF SeenInv
<1> QED BY <1>2, <1>3, <1>4, <1>5
  DEF Playtime!Next, playtime, Playtime!Join, Playtime!Play, Playtime!Leave, Playtime!ReportRead,
      Playtime!ReportWrite, Playtime!ReportFails, Playtime!Rename, Playtime!PollWrite,
      Playtime!PollFails, Playtime!Crash

LEMMA CountsStep ==
    ASSUME CountTypes, [Playtime!Next]_playtime
    PROVE  CountTypes'
<1>1. ASSUME NEW p \in Players, Playtime!Join(p) PROVE CountTypes'
  BY <1>1 DEF CountTypes, Playtime!Join
<1>2. ASSUME NEW p \in Players, NEW n \in Names, Playtime!Rename(p, n) PROVE CountTypes'
  BY <1>2 DEF CountTypes, Playtime!Rename
<1>3. CASE UNCHANGED <<joins, renames>>
  BY <1>3 DEF CountTypes
<1> QED BY <1>1, <1>2, <1>3
  DEF Playtime!Next, playtime, Playtime!gameVars, Playtime!Play, Playtime!Leave,
      Playtime!ReportRead, Playtime!ReportWrite, Playtime!ReportFails, Playtime!PollAsk,
      Playtime!PollRead, Playtime!PollWrite, Playtime!PollFails, Playtime!Crash

LEMMA PlaytimeTypesFollow ==
    ASSUME PlayAssumption, PlaytimeInv, SeenInv, CountTypes
    PROVE  Playtime!TypeOK
<1>0. PlayTypes /\ PlayersType /\ records \in Seq(Playtime!Record)
  BY DEF PlaytimeInv, PlayTypes
<1>1. /\ name \in [Players -> Names] /\ played \in [Players -> Nat] /\ DOMAIN session = Players
      /\ points \in [Players -> Nat] /\ joins \in [Players -> Nat]
      /\ renames \in [Players -> Nat]
  BY <1>0 DEF PlayersType, CountTypes
<1>2. \A p \in Players : Due(p) \in Playtime!Seconds(p)
  BY <1>1 DEF PlaytimeInv, PaidInv, Owed, Playtime!Seconds
<1>3. \A p \in Players : session[p] \in Playtime!Seconds(p) \cup {Unset}
  BY <1>2 DEF Due
<1>4. ASSUME NEW p \in Players
      PROVE  \/ report[p] = Playtime!Idle
             \/ report[p] \in [stage: {"sent"}, name: Names, seconds: Playtime!Seconds(p)]
             \/ report[p] \in [stage: {"read"}, name: Names, seconds: Playtime!Seconds(p),
                               id: Playtime!Read, row: Playtime!Record \cup {Unset}]
  <2>1. report[p] # Playtime!Idle => report[p].seconds \in Playtime!Seconds(p)
    BY <1>0, <1>2 DEF Due, PlayTypes, ReportsType
  <2>2. CASE report[p] \in SentReport(p)
    <3>1. report[p].seconds \in Playtime!Seconds(p)
      BY <2>1, <2>2 DEF SentReport, Playtime!Idle
    <3> QED BY <1>1, <2>2, <3>1 DEF SentReport
  <2>3. CASE report[p] \in ReadReport(p)
    <3>1. report[p].seconds \in Playtime!Seconds(p)
      BY <2>1, <2>3 DEF ReadReport, Playtime!Idle
    <3> QED BY <1>1, <2>3, <3>1 DEF ReadReport, Playtime!Read
  <2> QED BY <1>0, <2>2, <2>3 DEF PlayTypes, ReportsType
<1>5. \/ poll = Playtime!Idle
      \/ /\ poll.stage \in {"asked", "read"}
         /\ poll.seen \subseteq [name: Names, seconds: UNION {Playtime!Seconds(p) : p \in Players}]
  <2>1. CASE poll \in AskedPoll \cup ReadPoll /\ poll # Playtime!Idle
    <3>1. poll.stage \in {"asked", "read"} /\ poll.seen \subseteq Sighting
      BY <2>1 DEF AskedPoll, ReadPoll
    <3>2. \A s \in poll.seen : \E p \in Players : s.seconds \in Playtime!Seconds(p)
      BY <1>1, <2>1, <3>1 DEF SeenInv, Sighting, Playtime!Seconds
    <3>3. \A s \in poll.seen :
             s \in [name: Names, seconds: UNION {Playtime!Seconds(p) : p \in Players}]
      BY <3>1, <3>2 DEF Sighting
    <3> QED BY <3>1, <3>3
  <2> QED BY <1>0, <2>1 DEF PlayTypes, PollType
<1> QED BY <1>0, <1>1, <1>3, <1>4, <1>5 DEF Playtime!TypeOK

LEMMA PlaytimeTyped == ASSUME AccountsAssumption PROVE AccountsSpec => []Playtime!TypeOK
<1>0. PlayAssumption
  BY DEF AccountsAssumption, PlayAssumption
<1>1. AccountsInit => PlaytimeInv /\ SeenInv /\ CountTypes
  <2> SUFFICES ASSUME AccountsInit PROVE PlaytimeInv /\ SeenInv /\ CountTypes
    OBVIOUS
  <2>1. Playtime!Init
    BY DEF AccountsInit
  <2> QED BY <1>0, <2>1, PlaytimeInit DEF Playtime!Init, SeenInv, CountTypes
<1>2. /\ PlaytimeInv /\ SeenInv /\ CountTypes /\ [AccountsNext]_all
      => PlaytimeInv' /\ SeenInv' /\ CountTypes'
  BY <1>0, StepOfPlaytime, PlaytimeStepKeeps, SeenStep, CountsStep
<1>3. PlaytimeInv /\ SeenInv /\ CountTypes => Playtime!TypeOK
  BY <1>0, PlaytimeTypesFollow
<1> QED BY <1>1, <1>2, <1>3, PTL DEF AccountsSpec

-----------------------------------------------------------------------------
(* Presence and Sessions: their own theorems.                              *)
LEMMA OnlineTypes ==
    /\ Presence!TypeOK <=> Online!TypeOK
    /\ Presence!TypeOK' <=> Online!TypeOK'
  BY DEF Presence!TypeOK, Online!TypeOK, Presence!Entry, Online!Entry, Presence!Ages,
         Online!Ages

LEMMA PresenceTyped == ASSUME AccountsAssumption PROVE AccountsSpec => []Presence!TypeOK
<1>0. Online!PresenceAssumption
  BY DEF AccountsAssumption, Presence!PresenceAssumption, Online!PresenceAssumption
<1>1. AccountsInit => Online!Init
  BY DEF AccountsInit, Presence!Init, Online!Init
<1>2. [AccountsNext]_all => [Online!Next]_Online!vars
  BY StepOfPresence, SamePresence
<1>3. Online!IInv => Presence!TypeOK
  BY OnlineTypes DEF Online!IInv
<1>4. Online!Spec => []Online!IInv
  BY <1>0, Online!Invariant
<1> QED BY <1>1, <1>2, <1>3, <1>4, PTL DEF AccountsSpec, Online!Spec

LEMMA StepOfSessions == ASSUME [AccountsNext]_all PROVE [Next]_vars
  BY DEF AccountsNext, all, sessions, SessionsStep, RolesStep, PlaytimeStep, GameLinkStep,
         CommunityStep, MessagesStep, UploadsStep, MaintenanceStep, PresenceStep,
         BackupsStep, LoginsStep

\* The account of Sessions runs by its own rules, whatever the other parts do.
LEMMA SessionsRun == AccountsSpec => Spec
<1>1. AccountsInit => Init
  BY DEF AccountsInit
<1> QED BY <1>1, StepOfSessions, PTL DEF AccountsSpec, Spec

\* What Sessions promises, of the account on the whole site: the newest codes and the
\* newest link are the only valid ones, guesses are bounded, what is refused stays
\* refused, and who ends the other sessions keeps their own.
THEOREM SessionsStaySound ==
    AccountsSpec => /\ []OnlyNewestValid
                    /\ []AttemptsBounded
                    /\ RefusedStaysRefused
                    /\ KeepsSession
  BY SessionsRun, NewestValid, FewAttempts, RefusedForGood, SessionKept, PTL

\* Every part keeps its types, whatever the others do: no Steam id has two accounts, no
\* session is longer than its player played, no queue of a stream is longer than Size, and
\* no more episodes are kept than may be.
THEOREM AccountsTypes == ASSUME AccountsAssumption PROVE AccountsSpec => []AccountsTypeOK
<1>1. /\ TypeOK /\ Roles!TypeOK /\ Playtime!TypeOK /\ GameLink!TypeOK /\ Community!TypeOK
      /\ Messages!TypeOK /\ Uploads!TypeOK /\ Maintenance!TypeOK /\ Presence!TypeOK
      /\ Backups!TypeOK /\ Logins!TypeOK
      => AccountsTypeOK
  BY DEF AccountsTypeOK
<1> QED BY <1>1, SessionsRun, SessionTypes, RolesTyped, PlaytimeTyped, LinksTyped,
           CommunityTyped, MessagesTyped, UploadsTyped, MaintenanceTyped, PresenceTyped,
           BackupsTyped, LoginsTyped, PTL
=============================================================================
