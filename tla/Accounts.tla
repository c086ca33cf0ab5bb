------------------------------ MODULE Accounts ------------------------------
(***************************************************************************)
(* The parts of the site that are about its users: the sessions of one     *)
(* account and its history of logins, the roles of the accounts, their     *)
(* links to players, the playtime of the players, comments, reactions and  *)
(* votes, direct messages, who is online, uploads, the maintenance mode    *)
(* that keeps everyone out, and the copies of the database.  Their         *)
(* requests interleave, and they share no state here.                      *)
(***************************************************************************)
EXTENDS Sessions

CONSTANTS
    Unset,                                       \* no value, no row, no user
    Users, MaxWrites,                            \* Roles
    Players, Linked, Names, FirstName, Minute,   \* Playtime
    Rate, MaxPlayed, MaxJoins, MaxRenames,
    Servers, Steams, Keys,                       \* GameLink
    Ids, Options, Clicks, Mentions, MaxPosts,    \* Community
    Readers, Senders, Fetches, Size, MaxSends,   \* Messages
    Slots, Lapsed, MaxUploads,                  \* Uploads
    MaxOrders, KeptEpisodes,                     \* Maintenance
    Visitors, Shown, Hidden, Spacing, TTL,       \* Presence
    MaxWait,
    KeptCopies, MaxCopies, MaxCommits,           \* Backups
    Addresses                                    \* Logins

VARIABLES
    phase, migrated, setupDone, welcome, founders, level, active, writes, clean,
    roleReq,
    name, session, played, joins, renames, records, points, report, poll,
    globalKey, serverKey, alive, template, users, steamId, rules, command,
    comments, post, reports, notes, reactions, votes, click, posted,
    message, send, listening, notices, fetch, shown, synced, sends,
    url, files, uploaded, upload, logo, lookup, torn,
    mode, start, end, now, flag, episodes, request, orders, astray,
    page, visitor, ping, leaving, lastActive, logout, left,
    db, copies, copied, night, create, created, stored, removed, flooded,
    history, first, login, mailedTo, failed, alone

sessions == vars
roles == <<phase, migrated, setupDone, welcome, founders, level, active,
           writes, clean, roleReq>>
playtime == <<name, session, played, joins, renames, records, points, report, poll>>
gameLink == <<globalKey, serverKey, alive, template, users, steamId, rules, command>>
community == <<comments, post, reports, notes, reactions, votes, click, posted>>
messages == <<message, send, listening, notices, fetch, shown, synced, sends>>
uploads == <<url, files, uploaded, upload, logo, lookup, torn>>
maintenance == <<mode, start, end, now, flag, episodes, request, orders, astray>>
presence == <<page, visitor, ping, leaving, lastActive, logout, left>>
backups == <<db, copies, copied, night, create, created, stored, removed, flooded>>
logins == <<history, first, login, mailedTo, failed, alone>>

Roles == INSTANCE Roles WITH req <- roleReq
Playtime == INSTANCE Playtime WITH NoSteam <- Unset, NoRow <- Unset, Offline <- Unset
GameLink == INSTANCE GameLink WITH Accounts <- Users, Commands <- Requests
Community == INSTANCE Community WITH
    NoRow <- Unset, MaxWrites <- MaxPosts, writes <- posted
Messages == INSTANCE Messages WITH
    Users <- Readers, Requests <- Senders, NoRow <- Unset,
    row <- message, registered <- listening
Uploads == INSTANCE Uploads WITH
    NoFile <- Unset, MaxFiles <- MaxUploads, made <- uploaded
Maintenance == INSTANCE Maintenance WITH Keep <- KeptEpisodes
Presence == INSTANCE Presence WITH
    Users <- Visitors, Pages <- Requests, Guest <- Unset, None <- Unset,
    session <- page, active <- lastActive
Backups == INSTANCE Backups WITH
    Keep <- KeptCopies, Incomplete <- Unset, None <- Unset, MaxFiles <- MaxCopies,
    files <- copies, made <- copied
Logins == INSTANCE Logins WITH None <- Unset, mailed <- mailedTo

all == <<sessions, roles, playtime, gameLink, community, messages, uploads,
         maintenance, presence, backups, logins>>

AccountsInit ==
    /\ Init
    /\ Roles!Init
    /\ Playtime!Init
    /\ GameLink!Init
    /\ Community!Init
    /\ Messages!Init
    /\ Uploads!Init
    /\ Maintenance!Init
    /\ Presence!Init
    /\ Backups!Init
    /\ Logins!Init

\* A step of one part leaves the others alone.
SessionsStep ==
    /\ Next
    /\ UNCHANGED <<roles, playtime, gameLink, community, messages, uploads,
                   maintenance, presence, backups, logins>>
RolesStep ==
    /\ Roles!Next
    /\ UNCHANGED <<sessions, playtime, gameLink, community, messages, uploads,
                   maintenance, presence, backups, logins>>
PlaytimeStep ==
    /\ Playtime!Next
    /\ UNCHANGED <<sessions, roles, gameLink, community, messages, uploads,
                   maintenance, presence, backups, logins>>
GameLinkStep ==
    /\ GameLink!Next
    /\ UNCHANGED <<sessions, roles, playtime, community, messages, uploads,
                   maintenance, presence, backups, logins>>
CommunityStep ==
    /\ Community!Next
    /\ UNCHANGED <<sessions, roles, playtime, gameLink, messages, uploads,
                   maintenance, presence, backups, logins>>
MessagesStep ==
    /\ Messages!Next
    /\ UNCHANGED <<sessions, roles, playtime, gameLink, community, uploads,
                   maintenance, presence, backups, logins>>
UploadsStep ==
    /\ Uploads!Next
    /\ UNCHANGED <<sessions, roles, playtime, gameLink, community, messages,
                   maintenance, presence, backups, logins>>
MaintenanceStep ==
    /\ Maintenance!Next
    /\ UNCHANGED <<sessions, roles, playtime, gameLink, community, messages,
                   uploads, presence, backups, logins>>
PresenceStep ==
    /\ Presence!Next
    /\ UNCHANGED <<sessions, roles, playtime, gameLink, community, messages,
                   uploads, maintenance, backups, logins>>
BackupsStep ==
    /\ Backups!Next
    /\ UNCHANGED <<sessions, roles, playtime, gameLink, community, messages,
                   uploads, maintenance, presence, logins>>
LoginsStep ==
    /\ Logins!Next
    /\ UNCHANGED <<sessions, roles, playtime, gameLink, community, messages,
                   uploads, maintenance, presence, backups>>

AccountsNext ==
    \/ SessionsStep
    \/ RolesStep
    \/ PlaytimeStep
    \/ GameLinkStep
    \/ CommunityStep
    \/ MessagesStep
    \/ UploadsStep
    \/ MaintenanceStep
    \/ PresenceStep
    \/ BackupsStep
    \/ LoginsStep

AccountsSpec == AccountsInit /\ [][AccountsNext]_all

\* The properties of the parts, as they are stated there; those of Sessions are
\* its own.  The types of each part say of some what a table's constraints are for:
\* a player has one account, a notice has a place in its queue, no session is longer
\* than what was played.
AccountsTypeOK ==
    /\ TypeOK
    /\ Roles!TypeOK
    /\ Playtime!TypeOK
    /\ GameLink!TypeOK
    /\ Community!TypeOK
    /\ Messages!TypeOK
    /\ Uploads!TypeOK
    /\ Maintenance!TypeOK
    /\ Presence!TypeOK
    /\ Backups!TypeOK
    /\ Logins!TypeOK
SuperadminRemains == Roles!SuperadminRemains
OneFounder == Roles!OneFounder
ChosenRolesSurvive == Roles!ChosenRolesSurvive
PlaytimeIsSound == Playtime!OneRowPerPlayer /\ Playtime!PaidIsPlayed
ClaimsAreFinal == Playtime!ClaimsAreFinal
\* What a user is told: of a comment once; of every message, by a tab that was fetched
\* on its connection, with nothing failed or out of order; of a login from a new
\* address, unless the check of it failed.
ReadersAreTold ==
    /\ Community!ToldOnce
    /\ Messages!TabNotStale
    /\ Logins!NewAddressIsMailed
FilesAreKept == Uploads!CoverExists /\ Backups!LastNightIsKept
FlagFollowsMode == Maintenance!FlagFollowsMode
NoGhosts == Presence!NoGhosts

\* An incomplete copy is told from a complete one.
CopiesAssumption == Backups!BackupsAssumption /\ Unset \notin Nat

\* What the constants are: the limits are numbers.
AccountsAssumption ==
    /\ Playtime!PlaytimeAssumption
    /\ CopiesAssumption
    /\ Presence!PresenceAssumption
    /\ {MaxPosts, Size, MaxSends, MaxUploads, MaxOrders, KeptEpisodes} \subseteq Nat
=============================================================================
