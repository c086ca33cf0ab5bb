------------------------------ MODULE Rankings ------------------------------
(***************************************************************************)
(* What the leaderboard and the activity feed compute from the rows: the   *)
(* standings and their pages, the ranks of a week ago from the nightly     *)
(* snapshots, streaks, trends and milestones.  Days and hours are numbers. *)
(***************************************************************************)
EXTENDS Integers, Sequences, FiniteSets, SequencesExt, FiniteSetsExt, Functions

\* _leaderboard_snapshot_task: every player's total, under one time.
Snapshot(records, at) == {[name |-> r.name, total |-> r.total, at |-> at] : r \in records}

\* The next 00:15, counted in minutes: always tomorrow's, so that a start
\* between midnight and 00:15 misses a night.
NextSnapshot(now) == (now \div 1440 + 1) * 1440 + 15

\* _closest_prior_snapshot_totals: by name, the total of its last snapshot.
ClosestPrior(snapshots, cutoff) ==
    LET before == {s \in snapshots : s.at <= cutoff}
        last(n) == CHOOSE s \in before :
                       /\ s.name = n
                       /\ \A t \in before : t.name = n => t.at <= s.at
    IN [n \in {s.name : s \in before} |-> last(n).total]

\* Names by their totals, the highest first; what ties do is left to SQLite.
Standings(totals) ==
    SetToSortSeq(DOMAIN totals, LAMBDA a, b : totals[a] > totals[b])

Page(seq, page, perPage) ==
    LET from == (page - 1) * perPage
    IN SubSeq(seq, from + 1, IF from + perPage < Len(seq) THEN from + perPage ELSE Len(seq))

Totals(records) == [n \in {r.name : r \in records} |->
                        (CHOOSE r \in records : r.name = n).total]

\* get_leaderboard: live, or as of a day from the snapshots.  A search or a
\* clan leaves only some names.
Leaderboard(records, wanted) == Standings(Restrict(Totals(records), wanted))
LeaderboardAsOf(snapshots, wanted, cutoff) ==
    LET totals == ClosestPrior(snapshots, cutoff)
    IN Standings(Restrict(totals, wanted \cap DOMAIN totals))

\* rank_delta of the k-th row of a page, for a name that had a rank; the ranks of the week before are
\* those of everyone, also when the rows are only those searched for.
RankDelta(rows, snapshots, cutoff, page, perPage, k) ==
    LET then == Standings(ClosestPrior(snapshots, cutoff))
        name == Page(rows, page, perPage)[k]
    IN SelectInSeq(then, LAMBDA n : n = name) - ((page - 1) * perPage + k)

\* _current_streak: back from today, or from yesterday if not yet seen today.
CurrentStreak(dates, today) ==
    LET run[n \in Nat] == IF today - n \in dates THEN 1 + run[n + 1] ELSE 0
    IN IF today \in dates THEN run[0] ELSE run[1]

\* The dates the leaderboard and the feed load.
Since(dates, today, days) == {d \in dates : d >= today - days}

\* get_leaderboard_trend: differences of the snapshots in a row, dated by the
\* later one, which was taken just after the midnight that ends the day.
Trend(snapshots) ==
    LET rows == SetToSortSeq(snapshots, LAMBDA s, t : s.at < t.at)
    IN [k \in 1..Len(rows) - 1 |->
           [date |-> rows[k + 1].at,
            total |-> IF rows[k + 1].total > rows[k].total
                      THEN rows[k + 1].total - rows[k].total ELSE 0]]

\* The highest tier between the last snapshot and now; 0 is none.
HourTier(tiers, before, now) ==
    Max({0} \cup {t \in tiers : before < t /\ t <= now})

\* A player whose character was renamed has more than one row: the row seen
\* last speaks for the account.
Speakers(records) ==
    {r \in records : \A q \in records : q.steam = r.steam => q.seen <= r.seen}

\* The milestones of get_activity_feed: of linked players, against the last
\* snapshot of that name if there is one.
HourMilestones(records, linked, snapshots, tiers, now) ==
    LET before == ClosestPrior(snapshots, now)
    IN {<<r.name, HourTier(tiers, before[r.name], r.total)>> :
           r \in {s \in Speakers(records) :
                     /\ s.steam \in linked
                     /\ s.name \in DOMAIN before
                     /\ HourTier(tiers, before[s.name], s.total) # 0}}

StreakMilestone(dates, today, milestones) ==
    LET streak == CurrentStreak(Since(dates, today, Max(milestones) + 1), today)
    IN IF streak \in milestones THEN streak ELSE 0

\* get_activity_feed: the newest of each kind, then the newest of all; at are
\* the times of the items of a kind.
Newest(at, limit) ==
    LET sorted == SetToSortSeq(at, LAMBDA a, b : a > b)
    IN ToSet(Page(sorted, 1, limit))
Feed(kinds, limits, limit) ==
    Newest(UNION {Newest(kinds[k], limits[k]) : k \in DOMAIN kinds}, limit)

(***************************************************************************)
(* What they are to compute.                                               *)
(***************************************************************************)
Records(names, totals) ==
    {{[name |-> n, total |-> f[n]] : n \in names} :
        f \in {g \in [names -> totals] : IsInjective(g)}}

\* The streak is the longest run of days that ends today or yesterday.
StreaksAreRuns(days) ==
    \A dates \in SUBSET (0..days) :
        CurrentStreak(dates, days)
            = Max({0} \cup {n \in 1..days + 1 : \E last \in {days - 1, days} :
                   /\ last - n + 1 \in 0..last
                   /\ (last - n + 1)..last \subseteq dates
                   /\ days \in dates => last = days})

\* The feed loads one day more than its highest milestone: a longer streak
\* is not taken for that milestone, and none is missed.
MilestonesAreReal(days, milestones) ==
    \A dates \in SUBSET (0..days) :
        LET streak == CurrentStreak(dates, days)
        IN StreakMilestone(dates, days, milestones)
               = (IF streak \in milestones THEN streak ELSE 0)

\* The pages show everyone once and in order, and the delta is the number of
\* players that were ahead a week ago, those whose row or name is gone since
\* included, less the number that are ahead now.
RanksAreCounts(names, gone, totals, perPage) ==
    \A records \in Records(names, totals), week \in Records(names \cup gone, totals) :
        LET now == Totals(records)
            then == Totals(week)
            rows == Leaderboard(records, names)
            ahead(t, n) == Cardinality({m \in DOMAIN t : t[m] > t[n]})
        IN /\ FlattenSeq([p \in 1..(Len(rows) + perPage - 1) \div perPage |->
                              Page(rows, p, perPage)]) = rows
           /\ \A page \in 1..2 : \A k \in DOMAIN Page(rows, page, perPage) :
                 LET n == Page(rows, page, perPage)[k]
                 IN RankDelta(rows, Snapshot(week, 0), 0, page, perPage, k)
                        = ahead(then, n) - ahead(now, n)

\* A past day shows the standings of its night, whatever was played, deleted
\* or renamed since; names without a later snapshot keep their old total.
HistoryIsKept(names, totals) ==
    \A first \in Records(names, totals), left \in SUBSET names :
        \A second \in Records(left, totals) :
            LET snapshots == Snapshot(first, 1) \cup Snapshot(second, 2)
            IN /\ LeaderboardAsOf(snapshots, names, 1) = Leaderboard(first, names)
               /\ ClosestPrior(snapshots, 2) = Totals(second) @@ Totals(first)

\* An account whose character was renamed has at most one milestone, under
\* the name seen last, and none before the first night of that name.
OneMilestoneEach(names, steams, tiers, hours) ==
    \A steam \in [names -> steams], total \in [names -> 0..hours], seen \in [names -> 1..2] :
        LET records == {[name |-> n, steam |-> steam[n], total |-> total[n], seen |-> seen[n]] :
                            n \in names}
            night == {[name |-> n, total |-> 0, at |-> 0] : n \in names \ {CHOOSE n \in names : TRUE}}
        IN IsInjective(seen) =>
               \A m \in HourMilestones(records, steams, night, tiers, 1) :
                   /\ \A n \in names : steam[n] = steam[m[1]] => seen[n] <= seen[m[1]]
                   /\ m[1] \in {s.name : s \in night}
                   /\ m[2] <= total[m[1]]

\* A day's difference, added up, is what was played; a wiped total counts as
\* a day without play.
TrendAddsUp(totals, nights) ==
    \A f \in [1..nights -> totals] :
        LET snapshots == {[name |-> "player", total |-> f[k], at |-> k] : k \in 1..nights}
            gained(k) == IF f[k + 1] > f[k] THEN f[k + 1] - f[k] ELSE 0
        IN Trend(snapshots) = [k \in 1..nights - 1 |-> [date |-> k + 1, total |-> gained(k)]]

\* A tier is announced exactly when it was crossed, and only the highest.
TiersAreCrossed(tiers, hours) ==
    \A before, now \in 0..hours :
        LET tier == HourTier(tiers, before, now)
        IN /\ tier # 0 <=> \E t \in tiers : before < t /\ t <= now
           /\ tier # 0 => \A t \in tiers : t <= now => t <= tier

\* Whatever each kind leaves out, the newest item of all is in the feed, and
\* the feed is never longer than its limit.
FeedHasNewest(times, limits, limit) ==
    \A kinds \in [DOMAIN limits -> SUBSET times] :
        LET items == UNION {kinds[k] : k \in DOMAIN kinds}
            feed == Feed(kinds, limits, limit)
        IN /\ items # {} => Max(items) \in feed
           /\ Cardinality(feed) <= limit

\* A night is kept, unless the process starts in the first minutes of its day.
NightsAreKept ==
    \A now \in 0..2880 : (NextSnapshot(now) - now < 1440) <=> (now % 1440 > 15)
=============================================================================
