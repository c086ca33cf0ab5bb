------------------------------- MODULE MCSite --------------------------------
(***************************************************************************)
(* Site for TLC.  Its parts share no state, so in a behaviour only the     *)
(* part in focus moves: the states are the sum of the parts' states and    *)
(* not their product.                                                      *)
(***************************************************************************)
EXTENDS Site

CONSTANTS ann, ben, c1, c2, c3, page, scheduler, weekly, byhand

MCServers == 1..2
MCIds == 1..2
MCUsers == {ann, ben}
MCClients == {c1, c2}
MCConnects == {c1, c2, c3}
MCTasks == {page, scheduler}
MCSenders == {weekly, byhand}
MCStarts == {3, 8}
MCIntervals == {2}

VARIABLE focus \* the part that moves

Rankings == INSTANCE Rankings

MCInit ==
    /\ SiteInit
    /\ focus \in {"streaks", "restarts", "monitor", "publishing", "digests", "events",
                  "streams", "announcements"}
    /\ focus # "streaks" => linked

\* The news without digests; or with them, and then with one of the tasks, no
\* templates, and only until two digests have crossed.
News == {"publishing", "digests"}
DigestsFocus ==
    /\ task[page] = Publishing!Asleep
    /\ \A i \in Publishing!Rows : ~news[i].template

MCNext ==
    /\ UNCHANGED focus
    /\ \/ focus = "streaks" /\ StreaksStep
       \/ focus = "restarts" /\ RestartsStep
       \/ focus = "monitor" /\ MonitorStep
       \/ focus = "publishing" /\ PublishingStep /\ UNCHANGED digest
       \/ focus = "digests" /\ PublishingStep /\ ~crossed /\ DigestsFocus'
       \/ focus = "events" /\ EventsStep
       \/ focus = "streams" /\ StreamsStep
       \/ focus = "announcements" /\ AnnouncementsStep

\* The plugin polls and restarts the server, and an admin's call or a busy
\* lock does not stop each poll: its writes are tried again every time.
RestartsFair ==
    /\ WF_restarts(focus = "restarts" /\ Restarts!Tick)
    /\ WF_restarts(focus = "restarts" /\ Restarts!PollRead)
    /\ WF_restarts(focus = "restarts" /\ Restarts!Execute)
    /\ WF_restarts(focus = "restarts" /\ Restarts!CleanUp)

\* The loop of _monitor_poll_task wakes up for ever, and a cycle goes on or,
\* after a minute, fails.
MonitorFair ==
    /\ WF_monitor(focus = "monitor" /\ Monitor!Wake)
    /\ WF_monitor(/\ focus = "monitor"
                  /\ \/ Monitor!Ask
                     \/ \E s \in Servers : Monitor!Save(s)
                     \/ Monitor!CycleFails)

\* Time passes, and the loops of the two tasks go on for ever.
PublishingFair ==
    /\ \A i \in Ids : WF_publishing(focus \in News /\ Publishing!Moment(i))
    /\ WF_publishing(focus = "publishing" /\ Publishing!Read(page))
    /\ WF_publishing(focus \in News /\ Publishing!Read(scheduler))

\* What is tried again and again does not fail for ever.  Only one part moves
\* in a behaviour, so the first is the fairness of one action of each part.
Retry(arm, publish) ==
    \/ focus = "restarts" /\ arm /\ UNCHANGED publishing
    \/ focus \in News /\ publish /\ UNCHANGED restarts

RetriesFair ==
    /\ SF_<<restarts, publishing>>(Retry(Restarts!PollArm, Publishing!Publish(page)))
    /\ SF_publishing(focus \in News /\ Publishing!Publish(scheduler))

MCSpec ==
    /\ MCInit
    /\ [][MCNext]_<<focus, all>>
    /\ RestartsFair
    /\ MonitorFair
    /\ PublishingFair
    /\ RetriesFair

ASSUME BoundsAssumption
ASSUME StreamsAssumption
ASSUME EventsAssumption
ASSUME AnnouncementsAssumption
ASSUME StreaksAssumption
ASSUME IncidentsAssumption == Monitor!IncidentsAreRuns(8)
ASSUME RankingsAssumption ==
    /\ Rankings!StreaksAreRuns(6)
    /\ Rankings!MilestonesAreReal(6, {2, 3})
    /\ Rankings!RanksAreCounts({"a", "b", "c"}, {"d"}, 1..4, 2)
    /\ Rankings!HistoryIsKept({"a", "b", "c"}, 1..3)
    /\ Rankings!OneMilestoneEach({"a", "b"}, {"s", "t"}, {2, 3}, 4)
    /\ Rankings!FeedHasNewest(1..4, [k \in 1..2 |-> k], 2)
    /\ Rankings!TrendAddsUp(0..2, 4)
    /\ Rankings!TiersAreCrossed({2, 5, 7}, 9)
    /\ Rankings!NightsAreKept
=============================================================================
