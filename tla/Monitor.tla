------------------------------ MODULE Monitor -------------------------------
(***************************************************************************)
(* The server monitor: a cycle asks the game servers one after the other,  *)
(* stores a snapshot, caches the answer and pushes an alert when a server  *)
(* comes back, or stays away for too long.  What it remembers of a server  *)
(* is in the memory of the process.  A cycle ends early when the database  *)
(* fails or a minute is over; the servers after that wait for the next.    *)
(***************************************************************************)
EXTENDS Integers, Sequences, SequencesExt

CONSTANTS
    Servers,     \* 1..n, in the order of a cycle
    Unknown,     \* None
    Threshold,   \* ADMIN_DOWNTIME_ALERT_THRESHOLD, in cycles
    Keep,        \* snapshots kept (31 days of them in the code)
    MaxStarts    \* bound: restarts of the process

VARIABLES
    online,      \* online[s]: whether the game server s runs
    next,        \* the server the cycle asks next, or Unknown between cycles
    answer,      \* what the server just asked answered, or Unknown
    starts,      \* restarts of the process so far
    snaps,       \* snaps[s]: server_snapshots, oldest first
    cache,       \* cache[s]: _status_cache while it is fresh, or Unknown
    prev,        \* prev[s]: _prev_server_online
    since,       \* since[s]: the age of _offline_since, or Unknown
    alerted,     \* _admin_alerted_offline
    pushed       \* pushed[s]: the last alert about s

vars == <<online, next, answer, starts, snaps, cache, prev, since, alerted, pushed>>
memory == <<prev, since, alerted>>

Nothing == [s \in Servers |-> Unknown]

Init ==
    /\ online = [s \in Servers |-> TRUE]
    /\ next = Unknown
    /\ answer = Unknown
    /\ starts = 0
    /\ snaps = [s \in Servers |-> <<>>]
    /\ cache = Nothing
    /\ prev = Nothing
    /\ since = Nothing
    /\ alerted = {}
    /\ pushed = Nothing

\* The task wakes up after its sleep: a cache entry is stale by then, and the
\* outages are one cycle older.
Wake ==
    /\ next = Unknown
    /\ next' = 1
    /\ cache' = Nothing
    /\ since' = [s \in Servers |-> IF since[s] \in 0..(Threshold - 1)
                                   THEN since[s] + 1 ELSE since[s]]
    /\ UNCHANGED <<online, answer, starts, snaps, prev, alerted, pushed>>

\* A server that does not answer is offline; get_server_status repeats an
\* answer for 30 seconds.
Ask ==
    /\ next # Unknown
    /\ answer = Unknown
    /\ answer' \in {online[next], cache[next]} \ {Unknown}
    /\ UNCHANGED <<online, next, starts, snaps, cache, memory, pushed>>

StoredForGood(s, up) == [snaps EXCEPT ![s] = Append(@, up)] \* mutant

\* _save_snapshot: the row, then the deletion of those out of the window.
Stored(s, up) ==
    LET all == Append(snaps[s], up)
    IN [snaps EXCEPT ![s] = IF Len(all) > Keep THEN Tail(all) ELSE all]

FirstSeenAgain(s) == 0 \* mutant

\* setdefault: the first observation of the outage stays.
FirstSeen(s) == IF since[s] = Unknown THEN 0 ELSE since[s]

TooLong(s) == FirstSeen(s) >= Threshold /\ s \notin alerted

Observed(s, up) ==
    /\ prev' = [prev EXCEPT ![s] = up]
    /\ IF up
       THEN /\ since' = [since EXCEPT ![s] = Unknown]
            /\ alerted' = alerted \ {s}
            /\ pushed' = IF prev[s] = FALSE THEN [pushed EXCEPT ![s] = "back"] ELSE pushed
       ELSE /\ since' = [since EXCEPT ![s] = FirstSeen(s)]
            /\ alerted' = IF TooLong(s) THEN alerted \cup {s} ELSE alerted
            /\ pushed' = IF TooLong(s) THEN [pushed EXCEPT ![s] = "down"] ELSE pushed

Following(s) == IF s + 1 \in Servers THEN s + 1 ELSE Unknown

\* Once the snapshot is committed nothing is awaited before the next server.
Save(s) ==
    /\ next = s
    /\ answer # Unknown
    /\ snaps' = Stored(s, answer)
    /\ cache' = [cache EXCEPT ![s] = answer]
    /\ Observed(s, answer)
    /\ next' = Following(s)
    /\ answer' = Unknown
    /\ UNCHANGED <<online, starts>>

\* An exception of the database, or the minute is over, perhaps after the
\* commit of the snapshot: the rest is skipped.
CycleFails ==
    /\ next # Unknown
    /\ \/ answer # Unknown /\ snaps' = Stored(next, answer)
       \/ UNCHANGED snaps
    /\ next' = Unknown
    /\ answer' = Unknown
    /\ UNCHANGED <<online, starts, cache, memory, pushed>>

\* GET /api/monitor/status and /status2: from the cache while it is fresh,
\* else the server is asked; alerts are left to the cycle.
Visit(s) ==
    /\ cache[s] = Unknown
    /\ cache' = [cache EXCEPT ![s] = online[s]]
    /\ \/ snaps' = Stored(s, online[s])
       \/ UNCHANGED snaps
    /\ UNCHANGED <<online, next, answer, starts, memory, pushed>>

Restart ==
    /\ starts < MaxStarts
    /\ starts' = starts + 1
    /\ next' = Unknown
    /\ answer' = Unknown
    /\ cache' = Nothing
    /\ prev' = Nothing
    /\ since' = Nothing
    /\ alerted' = {}
    /\ UNCHANGED <<online, snaps, pushed>>

Flip(s) ==
    /\ online' = [online EXCEPT ![s] = ~@]
    /\ UNCHANGED <<next, answer, starts, snaps, cache, memory, pushed>>

Next ==
    \/ Wake
    \/ Ask
    \/ CycleFails
    \/ Restart
    \/ \E s \in Servers : Save(s) \/ Visit(s) \/ Flip(s)

Maybe == BOOLEAN \cup {Unknown}

TypeOK ==
    /\ online \in [Servers -> BOOLEAN]
    /\ next \in Servers \cup {Unknown}
    /\ answer \in Maybe
    /\ starts \in 0..MaxStarts
    /\ \A s \in Servers : snaps[s] \in BoundedSeq(BOOLEAN, Keep)
    /\ cache \in [Servers -> Maybe]
    /\ prev \in [Servers -> Maybe]
    /\ since \in [Servers -> 0..Threshold \cup {Unknown}]
    /\ alerted \subseteq {s \in Servers : since[s] = Threshold}
    /\ pushed \in [Servers -> {"back", "down", Unknown}]

\* A cycle that gets to the server time and again stores its answer now and
\* then: neither the database nor the minute fails it for ever.
PolledNowAndThen(s) == []<>(next = s) => []<><<Save(s)>>_vars

\* The outage in which a server stays away is reported to the admins and stays
\* so, whichever other server is away, and although cycles fail and the
\* process restarts, as long as its polls, and those of the servers in front
\* of it, do not all fail.
DownIsReported ==
    \A s \in Servers :
        (\A q \in 1..s : PolledNowAndThen(q)) /\ <>[](~online[s])
            => <>[](s \in alerted /\ pushed[s] = "down")

\* get_monitor_incidents: the walk over the snapshots, oldest first.
Walked(ss) ==
    FoldLeft(LAMBDA run, i :
               IF ~ss[i] THEN [run EXCEPT !.from = IF @ = 0 THEN i ELSE @, !.to = i]
               ELSE IF run.from = 0 THEN run
               ELSE [run EXCEPT !.from = 0, !.closed = Append(@, <<run.from, run.to>>)],
             [from |-> 0, to |-> 0, closed |-> <<>>], [i \in DOMAIN ss |-> i])

\* Newest first; an outage that is not over has no end.
Incidents(ss) ==
    LET run == Walked(ss)
    IN IF run.from = 0 THEN Reverse(run.closed)
       ELSE <<<<run.from, Unknown>>>> \o Reverse(run.closed)

\* The incidents are the longest runs of offline snapshots, none left out or
\* cut in two, also when the last has not ended.
IncidentsAreRuns(n) ==
    \A ss \in BoundedSeq(BOOLEAN, n) :
        LET found == Incidents(ss)
            Ends(i) == IF found[i][2] = Unknown THEN Len(ss) ELSE found[i][2]
        IN /\ \A k \in DOMAIN ss :
                 ~ss[k] <=> \E i \in DOMAIN found : k \in found[i][1]..Ends(i)
           /\ \A i \in DOMAIN found : i > 1 => Ends(i) + 1 < found[i - 1][1]
           /\ \A i \in DOMAIN found :
                 found[i][2] = Unknown <=> i = 1 /\ ~ss[Len(ss)]
=============================================================================
