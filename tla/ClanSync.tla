------------------------------ MODULE ClanSync ------------------------------
(***************************************************************************)
(* POST /api/plugin/clans/sync (backend/routers/plugin_integration.py):    *)
(* the game plugin of each server reports its full clan roster, the site   *)
(* deletes what it had for that server and inserts the report, with a      *)
(* joined/left history on the side.                                        *)
(*                                                                         *)
(* A sync is interleaved with others at its awaits.  The roster it diffs   *)
(* against, and the clan ids whose members it deletes, are read before it  *)
(* holds SQLite's writer lock, with one exception: if the diff staged any  *)
(* history row, the read of the ids flushes it first, and that INSERT      *)
(* takes the lock.  Foreign keys are not enforced, so rows of a clan       *)
(* outlive it unless they are deleted by name, and ids are reused.  The    *)
(* diff may fail; the sync then goes on without any history.               *)
(***************************************************************************)
EXTENDS Integers, FiniteSets

CONSTANTS
    Servers,     \* game servers (server_num)
    Guids,       \* the game's own clan ids, stable over time
    Players,     \* steam ids
    Castles,     \* castle territories (game_clan_bases)
    Payloads,    \* the rosters a plugin may report
    Requests,    \* the syncs of a behaviour, each made once
    MaxId,       \* bound: the largest primary key of game_clans
    NoClan,      \* a primary key without a row
    NoRequest,   \* nobody holds the writer lock
    MayOverlap   \* may a plugin sync again before its last sync has ended?

Entries == Players \cup Castles

ClanIds == 1..MaxId

ClanRow == [server: Servers, guid: Guids]

ASSUME ClanAssumption ==
    /\ Servers # {}
    /\ Players \cap Castles = {}
    /\ \A p \in Payloads : /\ DOMAIN p \subseteq Guids
                           /\ p \in [DOMAIN p -> SUBSET Entries]
    /\ MaxId \in Nat
    /\ NoClan \notin ClanRow
    /\ NoRequest \notin Requests
    /\ MayOverlap \in BOOLEAN

VARIABLES
    clans,    \* clans[i]: the row of game_clans with primary key i
    rows,     \* rows[i][e]: the member and castle rows with clan_id i
    history,  \* history[s][g][m]: joined rows less left rows
    missed,   \* what the syncs whose diff failed would have added to it
    writer,   \* the sync that holds SQLite's writer lock
    req       \* req[r]: where sync r is and what it has read so far

vars == <<clans, rows, history, missed, writer, req>>

Empty == [g \in {} |-> {}]

NoRows == [e \in Entries |-> 0]

Stages == {"idle", "ids", "replace", "done", "failed"}

Idle == [stage |-> "idle", server |-> CHOOSE s \in Servers : TRUE,
         payload |-> Empty, logged |-> TRUE, joined |-> {}, left |-> {}, ids |-> {}]

Init ==
    /\ clans = [i \in ClanIds |-> NoClan]
    /\ rows = [i \in ClanIds |-> NoRows]
    /\ history = [s \in Servers |-> [g \in Guids |-> [m \in Players |-> 0]]]
    /\ missed = history
    /\ writer = NoRequest
    /\ req = [r \in Requests |-> Idle]

At(r, stage) == req[r].stage = stage

InFlight(r) == At(r, "ids") \/ At(r, "replace")

\* Mutant: the SELECT of the ids forgets the server.
IdsOfAnyServer(table, s) == {i \in ClanIds : table[i] # NoClan}

\* The clans of server s among the rows of a table.
IdsOf(table, s) ==
    {i \in ClanIds : table[i] # NoClan /\ table[i].server = s}

\* The (guid, player) pairs that the site, and a report, have.
Members(s) ==
    {gm \in Guids \X Players :
        \E i \in IdsOf(clans, s) : /\ clans[i].guid = gm[1]
                                   /\ rows[i][gm[2]] > 0}

Reported(p) ==
    {gm \in Guids \X Players : gm[1] \in DOMAIN p /\ gm[2] \in p[gm[1]]}

-----------------------------------------------------------------------------
\* Mutant: the history is diffed against an empty roster.
JoinedForgetsOld(s, p) == Reported(p)

Joined(s, p) == Reported(p) \ Members(s)

Left(s, p) == Members(s) \ Reported(p)

\* _record_clan_membership_events: read the old roster, stage the difference.
\* If that read fails nothing is staged, and plugin_clans_sync only logs it; a
\* difference, if there is one, is kept to say what the history misses.
SyncDiff(r, s, p) ==
    /\ At(r, "idle")
    /\ MayOverlap \/ \A q \in Requests : InFlight(q) => req[q].server # s
    /\ \E read \in BOOLEAN :
          /\ read \/ Joined(s, p) \cup Left(s, p) # {}
          /\ req' = [req EXCEPT ![r] =
                       [stage |-> "ids", server |-> s, payload |-> p, logged |-> read,
                        joined |-> Joined(s, p), left |-> Left(s, p), ids |-> {}]]
    /\ UNCHANGED <<clans, rows, history, missed, writer>>

Staged(r) == IF req[r].logged THEN req[r].joined \cup req[r].left ELSE {}

\* SELECT the clan ids of the server; the staged history rows, if any, are
\* inserted before it.
SyncIds(r) ==
    /\ At(r, "ids")
    /\ \/ /\ Staged(r) = {}
          /\ UNCHANGED writer
       \/ /\ Staged(r) # {}
          /\ writer = NoRequest
          /\ writer' = r
    /\ req' = [req EXCEPT ![r].stage = "replace",
                          ![r].ids = IdsOf(clans, req[r].server)]
    /\ UNCHANGED <<clans, rows, history, missed>>

\* Mutant: the members are left to the ON DELETE CASCADE.
WithoutRowsCascade(ids) == rows

\* DELETE the member and castle rows of the ids that were read.
WithoutRows(ids) == [i \in ClanIds |-> IF i \in ids THEN NoRows ELSE rows[i]]

\* Mutant: the old clans are not deleted.
WithoutClansKept(s) == clans

\* DELETE the clans of the server.
WithoutClans(s) ==
    [i \in ClanIds |-> IF i \in IdsOf(clans, s) THEN NoClan ELSE clans[i]]

\* The primary keys of the inserted clans: each the largest in use plus one.
Allocates(key, table) ==
    LET used == {i \in ClanIds : table[i] # NoClan} IN
    \A g \in DOMAIN key :
        /\ \A i \in used : i < key[g]
        /\ \A i \in 1..(key[g] - 1) :
              (\E j \in used : i <= j) \/ \E h \in DOMAIN key : key[h] = i
        /\ \A h \in DOMAIN key : key[h] = key[g] => h = g

\* The tables once the report p is inserted under the keys.
ClansInserted(table, s, key) ==
    [i \in ClanIds |->
        IF \E g \in DOMAIN key : key[g] = i
          THEN [server |-> s, guid |-> CHOOSE g \in DOMAIN key : key[g] = i]
          ELSE table[i]]

RowsInserted(table, p, key) ==
    [i \in ClanIds |-> [e \in Entries |->
        IF \E g \in DOMAIN key : key[g] = i /\ e \in p[g]
          THEN table[i][e] + 1
          ELSE table[i][e]]]

\* The rows that were staged, or would have been, added up.
Extended(sums, r) ==
    [sums EXCEPT ![req[r].server] =
        [g \in Guids |-> [m \in Players |->
            IF <<g, m>> \in req[r].joined THEN @[g][m] + 1
            ELSE IF <<g, m>> \in req[r].left THEN @[g][m] - 1
            ELSE @[g][m]]]]

\* The deletions, the insertions and the commit: one transaction that reads
\* nothing more.
SyncReplace(r) ==
    LET s == req[r].server
        p == req[r].payload IN
    /\ At(r, "replace")
    /\ writer = IF Staged(r) = {} THEN NoRequest ELSE r
    /\ \E key \in [DOMAIN p -> ClanIds] :
          /\ Allocates(key, WithoutClans(s))
          /\ clans' = ClansInserted(WithoutClans(s), s, key)
          /\ rows' = RowsInserted(WithoutRows(req[r].ids), p, key)
    /\ history' = IF req[r].logged THEN Extended(history, r) ELSE history
    /\ missed' = IF req[r].logged THEN missed ELSE Extended(missed, r)
    /\ writer' = NoRequest
    /\ req' = [req EXCEPT ![r] = [Idle EXCEPT !.stage = "done"]]

\* Waiting for the lock for too long, or a stop of the process: the
\* transaction is rolled back.
Fail(r) ==
    /\ InFlight(r)
    /\ writer' = IF writer = r THEN NoRequest ELSE writer
    /\ req' = [req EXCEPT ![r] = [Idle EXCEPT !.stage = "failed"]]
    /\ UNCHANGED <<clans, rows, history, missed>>

Next ==
    \E r \in Requests :
        \/ \E s \in Servers, p \in Payloads : SyncDiff(r, s, p)
        \/ SyncIds(r)
        \/ SyncReplace(r)
        \/ Fail(r)

Spec == Init /\ [][Next]_vars

-----------------------------------------------------------------------------
\* Properties.

\* Every variable has its type; no clan has two rows of one guid (the unique
\* key uq_game_clan_server_guid, which the order of the deletions and the
\* insertions respects).
TypeOK ==
    /\ clans \in [ClanIds -> ClanRow \cup {NoClan}]
    /\ \A i, j \in ClanIds :
          clans[i] # NoClan /\ clans[i] = clans[j] => i = j
    /\ rows \in [ClanIds -> [Entries -> Nat]]
    /\ {history, missed} \subseteq [Servers -> [Guids -> [Players -> Int]]]
    /\ writer \in Requests \cup {NoRequest}
    /\ req \in [Requests -> [stage: Stages, server: Servers,
                             payload: Payloads \cup {Empty}, logged: BOOLEAN,
                             joined: SUBSET (Guids \X Players),
                             left: SUBSET (Guids \X Players),
                             ids: SUBSET ClanIds]]

\* No member and no castle row is left behind by a clan that is gone: the
\* next clan to get its id would inherit it ("silently reattach and pile up").
NoOrphans == \A i \in ClanIds : clans[i] = NoClan => rows[i] = NoRows

\* The joined/left history adds up to the roster but for the changes of the
\* syncs whose diff failed, and for no sync that was rolled back: where none was
\* missed, a player the site shows in a clan has joined it once more than left
\* it, any other as often.  What was missed stays missed.
HistoryExplainsRoster ==
    \A s \in Servers, g \in Guids, m \in Players :
        history[s][g][m] + missed[s][g][m] =
            IF <<g, m>> \in Members(s) THEN 1 ELSE 0

\* Seen through the join of clans and their rows, a sync replaces the board
\* of its server by its report and touches no other.
Board ==
    [s \in Servers |->
        [g \in {clans[i].guid : i \in IdsOf(clans, s)} |->
            rows[CHOOSE i \in IdsOf(clans, s) : clans[i].guid = g]]]

Contract == INSTANCE ClanBoard WITH board <- Board

ReplacesBoard == Contract!Spec

\* "This replaces (not merges)" the roster, members "must be deleted
\* explicitly" lest "every previous cycle's orphaned rows ... pile up" (the
\* docstring of plugin_clans_sync): no clan shows a member or castle twice.
NothingPilesUp ==
    \A i \in ClanIds, e \in Entries : clans[i] # NoClan => rows[i][e] <= 1
=============================================================================
