----------------------------- MODULE ClanBoard -----------------------------
(***************************************************************************)
(* What POST /api/plugin/clans/sync promises: "this replaces (not merges)  *)
(* all game_clans rows" of one server.  The board of a server is always    *)
(* one roster its plugin reported, whole, every member and castle once.    *)
(***************************************************************************)
EXTENDS Integers

CONSTANTS
    Servers,    \* game servers (server_num)
    Entries,    \* the rows a clan may have: its members and its castles
    Payloads    \* the rosters a plugin may report: guid -> set of entries

VARIABLE board  \* board[s][guid][e]: how often the site shows entry e

Empty == [g \in {} |-> {}]

\* A reported clan as the site shows it.
Shown(entries) == [e \in Entries |-> IF e \in entries THEN 1 ELSE 0]

ShownRoster(p) == [g \in DOMAIN p |-> Shown(p[g])]

Init == board = [s \in Servers |-> ShownRoster(Empty)]

Replace(s, p) == board' = [board EXCEPT ![s] = ShownRoster(p)]

Next == \E s \in Servers, p \in Payloads : Replace(s, p)

Spec == Init /\ [][Next]_board
=============================================================================
