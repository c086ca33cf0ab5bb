------------------------------ MODULE GameLink ------------------------------
(***************************************************************************)
(* What a game server's plugin may ask and what it is told: its key, its   *)
(* heartbeat and message templates, and the chat commands .register and    *)
(* .login, which give a player an account or link one.  Both commands look *)
(* first and write later; UNIQUE(users.steam_id) and UNIQUE(users.username)*)
(* decide between two that overlap.  An account is its character name.     *)
(***************************************************************************)
EXTENDS Functions

CONSTANTS
    Servers,
    Accounts,
    Steams,
    Commands,  \* the chat commands under way
    Keys,      \* plugin keys
    Unset      \* NULL, no row

VARIABLES
    globalKey, \* Setting plugin_api_key
    serverKey, \* server_api_keys
    alive,     \* the servers with a plugin_heartbeats row
    template,  \* server_message_templates: whether the two texts are set
    users,     \* the accounts there are
    steamId,   \* users.steam_id
    rules,     \* the accounts with rules_accepted_at
    command    \* command[c]: the command c under way

vars == <<globalKey, serverKey, alive, template, users, steamId, rules, command>>
siteVars == <<globalKey, serverKey, template>>
Idle == [op |-> "none"]

Init ==
    /\ globalKey = Unset
    /\ serverKey = [s \in Servers |-> Unset]
    /\ alive = {}
    /\ template = [s \in Servers |-> {}]
    /\ users = {}
    /\ steamId = [a \in Accounts |-> Unset]
    /\ rules = {}
    /\ command = [c \in Commands |-> Idle]

\* _require_plugin_key: a server's own key, and only without one the global.
Expected(s) == IF serverKey[s] # Unset THEN serverKey[s] ELSE globalKey
Authorized(s) == \E key \in Keys : key = Expected(s)

SetGlobalKey(key) ==
    /\ globalKey' = key
    /\ UNCHANGED <<serverKey, alive, template, users, steamId, rules, command>>

\* update_server_api_key: an empty one deletes the row.
SetServerKey(s, key) ==
    /\ serverKey' = [serverKey EXCEPT ![s] = key]
    /\ UNCHANGED <<globalKey, alive, template, users, steamId, rules, command>>

\* update_message_templates: the side of the body, the other is kept.
SetTemplate(s, side) ==
    /\ template' = [template EXCEPT ![s] = IF side \in @ THEN @ \ {side} ELSE @ \cup {side}]
    /\ UNCHANGED <<globalKey, serverKey, alive, users, steamId, rules, command>>

Heartbeat(s) ==
    /\ Authorized(s)
    /\ alive' = alive \cup {s}
    /\ UNCHANGED <<siteVars, users, steamId, rules, command>>

LinkedSteams == {steamId[a] : a \in users} \ {Unset}

\* A visitor of the site registers.
SignUp(a) ==
    /\ a \notin users
    /\ users' = users \cup {a}
    /\ UNCHANGED <<siteVars, alive, steamId, rules, command>>

RegisterRead(c, s, a, steam) ==
    /\ Authorized(s)
    /\ command[c] = Idle
    /\ steam \notin LinkedSteams
    /\ a \notin users
    /\ command' = [command EXCEPT ![c] = [op |-> "register", a |-> a, steam |-> steam]]
    /\ UNCHANGED <<siteVars, alive, users, steamId, rules>>

\* With the password of the account, which is not linked to another player.
LoginRead(c, s, a, steam) ==
    /\ Authorized(s)
    /\ command[c] = Idle
    /\ a \in users
    /\ steamId[a] = Unset
    /\ command' = [command EXCEPT ![c] = [op |-> "login", a |-> a, steam |-> steam]]
    /\ UNCHANGED <<siteVars, alive, users, steamId, rules>>

\* The two constraints; without them the command fails with a 500.
Admits(c) ==
    /\ command[c].op = "register" => command[c].a \notin users
    /\ command[c].steam \notin {steamId[a] : a \in users \ {command[c].a}}

\* An overlapping .login of the account by another player is overwritten.
Write(c) ==
    /\ command[c] # Idle
    /\ IF Admits(c)
       THEN /\ users' = users \cup {command[c].a}
            /\ steamId' = [steamId EXCEPT ![command[c].a] = command[c].steam]
       ELSE UNCHANGED <<users, steamId>>
    /\ command' = [command EXCEPT ![c] = Idle]
    /\ UNCHANGED <<siteVars, alive, rules>>

AcceptRules(s, steam) ==
    /\ Authorized(s)
    /\ steam \in LinkedSteams
    /\ rules' = rules \cup {a \in users : steamId[a] = steam}
    /\ UNCHANGED <<siteVars, alive, users, steamId, command>>

Next ==
    \/ \E key \in Keys \cup {Unset} :
           \/ SetGlobalKey(key)
           \/ \E s \in Servers : SetServerKey(s, key)
    \/ \E s \in Servers :
           \/ Heartbeat(s)
           \/ \E side \in {"connect", "disconnect"} : SetTemplate(s, side)
           \/ \E steam \in Steams : AcceptRules(s, steam)
           \/ \E c \in Commands, a \in Accounts, steam \in Steams :
                  RegisterRead(c, s, a, steam) \/ LoginRead(c, s, a, steam)
    \/ \E a \in Accounts : SignUp(a)
    \/ \E c \in Commands : Write(c)

Command == [op : {"register", "login"}, a : Accounts, steam : Steams]

\* A player has one account at most, whichever commands overlap.
TypeOK ==
    /\ globalKey \in Keys \cup {Unset}
    /\ serverKey \in [Servers -> Keys \cup {Unset}]
    /\ alive \subseteq Servers
    /\ template \in [Servers -> SUBSET {"connect", "disconnect"}]
    /\ users \subseteq Accounts
    /\ steamId \in [Accounts -> Steams \cup {Unset}]
    /\ IsInjective(Restrict(steamId, {a \in users : steamId[a] # Unset}))
    /\ rules \subseteq users
    /\ command \in [Commands -> Command \cup {Idle}]
=============================================================================
