----------------------------- MODULE MCAccounts -----------------------------
(***************************************************************************)
(* Accounts for TLC.  Its parts share no state, so in a behaviour only the *)
(* part in focus moves: the states are the sum of the parts' states and    *)
(* not their product.                                                      *)
(***************************************************************************)
EXTENDS Accounts

CONSTANTS r1, r2, ann, ben, pw1, pw2, steam1, steam2, alice, bob, key

MCRequests == {r1, r2}
MCPasswords == {pw1, pw2}
MCUsers == {ann, ben}
MCPlayers == {alice, bob}
MCLinked == {bob}
MCNames == {"Ann", "Bo", "Cy"}
MCFirstName == alice :> "Ann" @@ bob :> "Bo"
MCMaxJoins == alice :> 1 @@ bob :> 2
MCMaxRenames == alice :> 1 @@ bob :> 1
MCSteams == {steam1, steam2}
MCKeys == {key}
MCOne == {1}
MCTwo == {1, 2}
MCThree == {1, 2, 3}
MCMentions == {{}, {ben}}
MCReaders == {"one"}
MCSlots == {"badge"}

\* Comments, deletions and reports; reactions and votes are few, and there are
\* MaxPosts of them: enough to free an id and give it to another user.
MCComments == 3

\* The last request and the last second do not both come.
LastNotLate == made # MaxRequests \/ clock # MaxTime

\* Two renames, or one with three sessions, only where no second is counted.
ShortSessions ==
    \/ \A p \in Players : played[p] = 0
    \/ Playtime!SumOf(renames) = 0
    \/ renames # MCMaxRenames /\ joins # MCMaxJoins

VARIABLE focus \* the part that moves

MCInit ==
    /\ AccountsInit
    /\ focus \in {"sessions", "roles", "playtime", "gameLink", "community", "clicks",
                  "messages", "uploads", "maintenance", "presence", "backups", "logins"}
    /\ focus # "roles" => DOMAIN level = {}

MCNext ==
    /\ UNCHANGED focus
    /\ \/ focus = "sessions" /\ SessionsStep /\ LastNotLate'
       \/ focus = "roles" /\ RolesStep
       \/ focus = "playtime" /\ PlaytimeStep /\ ShortSessions'
       \/ focus = "gameLink" /\ GameLinkStep
       \/ focus = "community" /\ CommunityStep /\ UNCHANGED click /\ posted' <= MCComments
       \/ focus = "clicks" /\ CommunityStep /\ UNCHANGED comments
       \/ focus = "messages" /\ MessagesStep
       \/ focus = "uploads" /\ UploadsStep
       \/ focus = "maintenance" /\ MaintenanceStep
       \/ focus = "presence" /\ PresenceStep
       \/ focus = "backups" /\ BackupsStep
       \/ focus = "logins" /\ LoginsStep

MCSpec == MCInit /\ [][MCNext]_<<focus, all>>

ASSUME AccountsAssumption

\* Only the requests: the other values are few and permuting them costs more.
Symmetric == Permutations(Requests)
=============================================================================
