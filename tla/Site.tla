-------------------------------- MODULE Site --------------------------------
(***************************************************************************)
(* The smaller parts of the site that go by clocks and loops: the streaks  *)
(* of the players, the restarts, the monitor, the news, an event, the live *)
(* streams and the announcements.  They run as tasks of one process, their *)
(* steps interleave, and they share no state.                              *)
(***************************************************************************)
EXTENDS Streaks, Sequences

CONSTANTS
    Unset, Nobody, NoRow,                         \* no value, no client, no row
    Hours, MaxOrders,                             \* Restarts
    Servers, Threshold, Keep, MaxStarts,          \* Monitor
    Tasks, NoTemplates, Ids, Senders, MaxEdits,   \* Publishing
    Users, Limit, Starts, WindowFrom, WindowTo,   \* Events
    MaxPlans,
    Clients, Channels, Size, MaxItems,            \* Streams
    Intervals, MaxWrites, MaxAge                  \* Announcements

VARIABLES
    hour, restartAt, dailyTime, wish, plugin, arming, heard, orders,
    online, next, answer, starts, snaps, cache, prev, since, alerted, pushed,
    news, task, edits, cutoff, digest, mailed, twice, early, crossed,
    event, staleStatus, joining, reminded, finding, gap, planned, told, spent, blind,
    open, registered, queue, seen, sent,
    row, poll, heardAt, asked, written

streaks == vars
restarts == <<hour, restartAt, dailyTime, wish, plugin, arming, heard, orders>>
monitor == <<online, next, answer, starts, snaps, cache, prev, since, alerted, pushed>>
publishing == <<news, task, edits, cutoff, digest, mailed, twice, early, crossed>>
events == <<event, staleStatus, joining, reminded, finding, gap, planned, told, spent, blind>>
streams == <<open, registered, queue, seen, sent>>
announcements == <<row, poll, heardAt, asked, written>>

Restarts == INSTANCE Restarts
Monitor == INSTANCE Monitor WITH Unknown <- Unset
Publishing == INSTANCE Publishing WITH NoPost <- NoRow, Never <- Unset
Events == INSTANCE Events WITH
    NoEvent <- NoRow, Nothing <- Unset, MaxEdits <- MaxPlans, edits <- planned
Streams == INSTANCE Streams
Announcements == INSTANCE Announcements WITH
    Idle <- Nobody, heard <- heardAt, pushed <- asked, writes <- written

all == <<streaks, restarts, monitor, publishing, events, streams, announcements>>

SiteInit ==
    /\ Init
    /\ Restarts!Init
    /\ Monitor!Init
    /\ Publishing!Init
    /\ Events!Init
    /\ Streams!Init
    /\ Announcements!Init

\* A step of one part leaves the others alone.
StreaksStep ==
    /\ Next
    /\ UNCHANGED <<restarts, monitor, publishing, events, streams,
                   announcements>>
RestartsStep ==
    /\ Restarts!Next
    /\ UNCHANGED <<streaks, monitor, publishing, events, streams,
                   announcements>>
MonitorStep ==
    /\ Monitor!Next
    /\ UNCHANGED <<streaks, restarts, publishing, events, streams,
                   announcements>>
PublishingStep ==
    /\ Publishing!Next
    /\ UNCHANGED <<streaks, restarts, monitor, events, streams,
                   announcements>>
EventsStep ==
    /\ Events!Next
    /\ UNCHANGED <<streaks, restarts, monitor, publishing, streams,
                   announcements>>
StreamsStep ==
    /\ Streams!Next
    /\ UNCHANGED <<streaks, restarts, monitor, publishing, events,
                   announcements>>
AnnouncementsStep ==
    /\ Announcements!Next
    /\ UNCHANGED <<streaks, restarts, monitor, publishing, events, streams>>

SiteNext ==
    \/ StreaksStep
    \/ RestartsStep
    \/ MonitorStep
    \/ PublishingStep
    \/ EventsStep
    \/ StreamsStep
    \/ AnnouncementsStep

SiteSpec == SiteInit /\ [][SiteNext]_all

\* The properties of the parts, as they are stated there; BonusIsEarnedOnce is
\* that of Streaks itself.
MailedOnce == Publishing!MailedOnce
NoEventUnreminded == Events!NoEventUnreminded
NoGap == Streams!NoGap
NotTooOften == Announcements!NotTooOften
DailyRecurs == Restarts!DailyRecurs
DownIsReported == Monitor!DownIsReported
ScheduledGoesOut == Publishing!ScheduledGoesOut

SiteTypeOK ==
    /\ TypeOK
    /\ Restarts!TypeOK
    /\ Monitor!TypeOK
    /\ Publishing!TypeOK
    /\ Events!TypeOK
    /\ Streams!TypeOK
    /\ Announcements!TypeOK

\* What the constants are.
BoundsAssumption ==
    /\ IsFiniteSet(Connects) /\ MaxShifts \in Nat
    /\ Hours \in Nat \ {0} /\ MaxOrders \in Nat
    /\ 1 \in Servers /\ Threshold \in Nat /\ Keep \in Nat /\ MaxStarts \in Nat
    /\ MaxEdits \in Nat /\ MaxPlans \in Nat
    /\ Size \in Nat /\ MaxItems \in Nat
    /\ MaxWrites \in Nat

StreamsAssumption == Nobody \notin Channels

EventsAssumption ==
    /\ Starts \subseteq Nat
    /\ WindowFrom \in Nat \ {0} /\ WindowTo \in Nat /\ WindowFrom <= WindowTo
    /\ Unset # "active"

AnnouncementsAssumption ==
    /\ Intervals \subseteq Nat /\ MaxAge \in Nat /\ 2 <= MaxAge
    /\ Unset \notin Nat
=============================================================================
