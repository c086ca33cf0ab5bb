------------------------------ MODULE Playtime ------------------------------
(***************************************************************************)
(* The playtime of a server's players (player_records), which two sources  *)
(* write: the session report the plugin posts when a player leaves, and    *)
(* the A2S poll of the running server (_track_players).  Both read a row,  *)
(* await, and write what they computed from it; the second transaction to  *)
(* commit wins, and UNIQUE(server_num, player_name) refuses a second row   *)
(* of a name.                                                              *)
(*                                                                         *)
(* A player is not back in the game before the report of the last session  *)
(* is answered, and no two characters bear one name.                       *)
(***************************************************************************)
EXTENDS Integers, Sequences, FiniteSets, FiniteSetsExt, SequencesExt

CONSTANTS
    Players,    \* steam ids
    Linked,     \* the players with a site account
    Names,      \* character names
    FirstName,  \* FirstName[p]: the name p starts with
    NoSteam,    \* steam_id of a row only the poll has written
    NoRow,      \* what a SELECT returns that finds nothing
    Offline,    \* the session of a player who is not in the game
    Minute,     \* seconds in a minute of the points rule (60 in the code)
    Rate,       \* points_per_minute_playtime
    MaxPlayed,  \* bound: seconds all players play altogether
    MaxJoins,   \* bound: MaxJoins[p] sessions of p
    MaxRenames  \* bound: MaxRenames[p] renames of p's character

\* What the constants are.
PlaytimeAssumption ==
    /\ IsFiniteSet(Players)
    /\ Linked \subseteq Players
    /\ FirstName \in [Players -> Names]
    /\ \A p, q \in Players : FirstName[p] = FirstName[q] => p = q
    /\ NoSteam \notin Players
    /\ Minute \in Nat \ {0}
    /\ Rate \in Nat
    /\ MaxPlayed \in Nat
    /\ MaxJoins \in [Players -> Nat]
    /\ MaxRenames \in [Players -> Nat]
    /\ Offline \notin Nat

VARIABLES
    name,     \* name[p]: the name of p's character
    session,  \* session[p]: seconds since p joined, or Offline
    played,   \* played[p]: the seconds p really played
    joins,    \* joins[p]: sessions p began
    renames,  \* renames[p]: how often p's character was renamed
    records,  \* player_records, in the order of their ids
    points,   \* points[p]: what p's account was awarded for playtime
    report,   \* report[p]: the report of p's last session
    poll      \* the A2S poll under way

gameVars == <<name, session, played, joins, renames>>
vars == <<gameVars, records, points, report, poll>>

\* A row of player_records.  session_count and last_seen, which no handler
\* decides anything by, are left out.
Record == [name: Names, steam: Players \cup {NoSteam}, total: Nat, last: Nat]

Idle == [stage |-> "idle"]

Init ==
    /\ name = FirstName
    /\ session = [p \in Players |-> Offline]
    /\ played = [p \in Players |-> 0]
    /\ joins = [p \in Players |-> 0]
    /\ renames = [p \in Players |-> 0]
    /\ records = <<>>
    /\ points = [p \in Players |-> 0]
    /\ report = [p \in Players |-> Idle]
    /\ poll = Idle

SumOf(f) == MapThenSumSet(LAMBDA x : f[x], DOMAIN f)

InGame(p) == session[p] # Offline

RowsNamed(n) == {i \in DOMAIN records : records[i].name = n}

RowsOf(p) == {i \in DOMAIN records : records[i].steam = p}

\* An ORM object writes back the columns whose value it changed, and no other.
Flushed(row, read, new) ==
    [c \in DOMAIN row |-> IF new[c] = read[c] THEN row[c] ELSE new[c]]

-----------------------------------------------------------------------------
\* The game.

Join(p) ==
    /\ ~InGame(p)
    /\ joins[p] < MaxJoins[p]
    /\ report[p].stage = "idle"
    /\ joins' = [joins EXCEPT ![p] = @ + 1]
    /\ session' = [session EXCEPT ![p] = 0]
    /\ UNCHANGED <<name, played, renames, records, points, report, poll>>

Play(p) ==
    /\ InGame(p)
    /\ SumOf(played) < MaxPlayed
    /\ session' = [session EXCEPT ![p] = @ + 1]
    /\ played' = [played EXCEPT ![p] = @ + 1]
    /\ UNCHANGED <<name, joins, renames, records, points, report, poll>>

\* The .nick command writes the new name into the running game.
Rename(p, n) ==
    /\ InGame(p)
    /\ renames[p] < MaxRenames[p]
    /\ \A q \in Players : name[q] # n
    /\ name' = [name EXCEPT ![p] = n]
    /\ renames' = [renames EXCEPT ![p] = @ + 1]
    /\ UNCHANGED <<session, played, joins, records, points, report, poll>>

Leave(p) ==
    /\ InGame(p)
    /\ session' = [session EXCEPT ![p] = Offline]
    /\ report' = [report EXCEPT ![p] =
                    [stage |-> "sent", name |-> name[p], seconds |-> session[p]]]
    /\ UNCHANGED <<name, played, joins, renames, records, points, poll>>

-----------------------------------------------------------------------------
\* POST /api/plugin/sessions

\* Mutant: a row somebody else has claimed is taken over as well.
ClaimableAnyOwner(p, n) == RowsNamed(n)

\* A row only the poll has written may be claimed by its name.
Claimable(p, n) == {i \in RowsNamed(n) : records[i].steam = NoSteam}

\* Mutant: only rows under the reported name are looked at.
MatchByName(p, n) == {i \in RowsNamed(n) : records[i].steam \in {p, NoSteam}}

\* The row of this steam id, else one that can be claimed, else none.
Match(p, n) == IF RowsOf(p) # {} THEN RowsOf(p) ELSE Claimable(p, n)

ReportRead(p) ==
    /\ report[p].stage = "sent"
    /\ LET match == Match(p, report[p].name) IN
       \E i \in IF match = {} THEN {0} ELSE match :
          report' = [report EXCEPT ![p] =
                       [stage |-> "read", name |-> @.name, seconds |-> @.seconds,
                        id |-> i, row |-> IF i = 0 THEN NoRow ELSE records[i]]]
    /\ UNCHANGED <<gameVars, records, points, poll>>

\* Mutant: the points are worked out from the total of the row.
EarnedByTotal(row, seconds) == (row.total \div Minute) * Rate

\* earned = (session_seconds // 60) * per_minute
Earned(row, seconds) == (seconds \div Minute) * Rate

\* What the report makes of the row it read.
Reported(p, row) ==
    [name |-> report[p].name, steam |-> p,
     total |-> row.total + report[p].seconds,
     last |-> report[p].seconds]

\* Every write of the handler is one transaction, from the autoflush of the
\* SELECT that follows to the commit: row, balance and ledger together.
ReportWrite(p) ==
    /\ report[p].stage = "read"
    /\ RowsNamed(report[p].name) \subseteq {report[p].id}
    /\ LET r == report[p]
           new == Reported(p, IF r.id = 0 THEN [total |-> 0] ELSE r.row) IN
       /\ records' = IF r.id = 0 THEN Append(records, new)
                     ELSE [records EXCEPT ![r.id] = Flushed(@, r.row, new)]
       /\ points' = [points EXCEPT ![p] =
                       IF p \in Linked THEN @ + Earned(new, r.seconds) ELSE @]
    /\ report' = [report EXCEPT ![p] = Idle]
    /\ UNCHANGED <<gameVars, poll>>

\* The name belongs to another row: IntegrityError, nothing is written, and
\* the session is not counted.
ReportFails(p) ==
    /\ report[p].stage = "read"
    /\ ~(RowsNamed(report[p].name) \subseteq {report[p].id})
    /\ report' = [report EXCEPT ![p] = Idle]
    /\ UNCHANGED <<gameVars, records, points, poll>>

-----------------------------------------------------------------------------
\* _track_players, called with what get_server_status answered.

\* The server answers with the players in the game and their time connected.
PollAsk ==
    /\ poll.stage = "idle"
    /\ \E p \in Players : InGame(p)
    /\ poll' = [stage |-> "asked",
                seen |-> {[name |-> name[p], seconds |-> session[p]] :
                            p \in {q \in Players : InGame(q)}}]
    /\ UNCHANGED <<gameVars, records, points, report>>

\* The first player of the list is looked up before the transaction begins.
PollRead ==
    /\ poll.stage = "asked"
    /\ \E s \in poll.seen :
          LET found == RowsNamed(s.name) IN
          \E i \in IF found = {} THEN {0} ELSE found :
             poll' = [stage |-> "read", seen |-> poll.seen \ {s}, first |-> s,
                      id |-> i, row |-> IF i = 0 THEN NoRow ELSE records[i]]
    /\ UNCHANGED <<gameVars, records, points, report>>

\* The session of last time goes on, or a new one has begun.
Counted(row, seconds) ==
    IF seconds >= row.last
    THEN [row EXCEPT !.total = @ + (seconds - row.last), !.last = seconds]
    ELSE [row EXCEPT !.total = @ + seconds, !.last = seconds]

\* Mutant: the name lands in the column of the steam id.
SeenSwapped(s) == [name |-> s.name, steam |-> s.name, total |-> s.seconds,
                   last |-> s.seconds]

\* A name that is polled for the first time.
Seen(s) == [name |-> s.name, steam |-> NoSteam, total |-> s.seconds,
            last |-> s.seconds]

\* The rows after the poll: the first player's from what was read, the others'
\* from the rows as they are, and a row for every name without one.
AfterPoll ==
    LET others == poll.seen
        new == {Seen(s) : s \in {o \in others : RowsNamed(o.name) = {}}
                                \cup (IF poll.id = 0 THEN {poll.first} ELSE {})}
        Row(i) ==
            IF i = poll.id
            THEN Flushed(records[i], poll.row, Counted(poll.row, poll.first.seconds))
            ELSE LET of == {s \in others : s.name = records[i].name}
                 IN  IF of = {} THEN records[i]
                     ELSE Counted(records[i], (CHOOSE s \in of : TRUE).seconds)
    IN  [i \in DOMAIN records |-> Row(i)] \o SetToSeq(new)

PollWrite ==
    /\ poll.stage = "read"
    /\ poll.id = 0 => RowsNamed(poll.first.name) = {}
    /\ records' = AfterPoll
    /\ poll' = Idle
    /\ UNCHANGED <<gameVars, points, report>>

\* A report inserted the name in the meantime: the poll is lost.
PollFails ==
    /\ poll.stage = "read"
    /\ poll.id = 0 /\ RowsNamed(poll.first.name) # {}
    /\ poll' = Idle
    /\ UNCHANGED <<gameVars, records, points, report>>

\* The site restarts: what is under way is lost, and nobody sends it again.
Crash ==
    /\ \/ poll.stage # "idle"
       \/ \E p \in Players : report[p].stage \in {"sent", "read"}
    /\ poll' = Idle
    /\ report' = [p \in Players |-> Idle]
    /\ UNCHANGED <<gameVars, records, points>>

Next ==
    \/ \E p \in Players : \/ Join(p) \/ Play(p) \/ Leave(p)
                          \/ ReportRead(p) \/ ReportWrite(p) \/ ReportFails(p)
    \/ \E p \in Players, n \in Names : Rename(p, n)
    \/ PollAsk \/ PollRead \/ PollWrite \/ PollFails
    \/ Crash

Spec == Init /\ [][Next]_vars

-----------------------------------------------------------------------------
\* Properties.

\* No session is longer than its player really played.
Seconds(p) == 0..played[p]

Read == {0} \cup DOMAIN records

TypeOK ==
    /\ name \in [Players -> Names]
    /\ played \in [Players -> Nat]
    /\ DOMAIN session = Players
    /\ \A p \in Players : session[p] \in Seconds(p) \cup {Offline}
    /\ joins \in [Players -> Nat]
    /\ renames \in [Players -> Nat]
    /\ records \in Seq(Record)
    /\ points \in [Players -> Nat]
    /\ \A p \in Players :
          \/ report[p] = Idle
          \/ report[p] \in [stage: {"sent"}, name: Names, seconds: Seconds(p)]
          \/ report[p] \in [stage: {"read"}, name: Names, seconds: Seconds(p),
                            id: Read, row: Record \cup {NoRow}]
    /\ \/ poll = Idle
       \/ /\ poll.stage \in {"asked", "read"}
          /\ poll.seen \subseteq [name: Names, seconds: UNION {Seconds(p) : p \in Players}]

\* SELECT ... steam_id = :id raises on two rows, and every later report of the
\* player would fail: claims, renames and inserts leave at most one.
OneRowPerPlayer == \A p \in Players : Cardinality(RowsOf(p)) <= 1

\* A row that is claimed stays with its player: a report under a name somebody
\* else bore before never takes that player's time.
ClaimsAreFinal ==
    [][\A i \in DOMAIN records :
          records[i].steam # NoSteam => records'[i].steam = records[i].steam]_vars

\* Nobody is paid for a minute they did not play, whatever is polled, renamed,
\* lost or refused.
PaidIsPlayed == \A p \in Players : points[p] * Minute <= played[p] * Rate

Counts == SumOf([i \in DOMAIN records |-> records[i].total])

\* "This is the accuracy source for playtime, replacing A2S polling wherever the
\* plugin is running": a second is on the board once.
CountedOnce == SumOf(renames) = 0 => Counts <= SumOf(played)
=============================================================================
