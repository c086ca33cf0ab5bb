----------------------------- MODULE SiteProofs ------------------------------
(***************************************************************************)
(* What the parts of Site keep.                                            *)
(***************************************************************************)
EXTENDS Site, FiniteSetTheorems, SequenceTheorems, WellFoundedInduction, TLAPS

-----------------------------------------------------------------------------
(***************************************************************************)
(* Streams.                                                                *)
(***************************************************************************)
Stream ==
    /\ open \in [Clients -> Channels \cup {Nobody}]
    /\ registered \subseteq {c \in Clients : open[c] # Nobody}
    /\ queue \in [Clients -> Seq(Nat)]
    /\ seen \in [Clients -> Nat]
    /\ sent \in [Channels -> Nat]

StreamInv == Stream /\ NoGap

LEMMA StreamConnect ==
    ASSUME StreamsAssumption, StreamInv, NEW c \in Clients, NEW ch \in Channels,
           Streams!Connect(c, ch)
    PROVE  StreamInv'
<1>1. Stream'
  BY DEF Streams!Connect, StreamInv, Stream, StreamsAssumption
<1>2. NoGap'
  BY DEF Streams!Connect, StreamInv, Stream, StreamsAssumption, NoGap, Streams!NoGap
<1> QED BY <1>1, <1>2 DEF StreamInv

LEMMA StreamSend ==
    ASSUME StreamInv, NEW c \in Clients, Streams!Send(c)
    PROVE  StreamInv'
<1> DEFINE q == queue[c]
<1>1. /\ q \in Seq(Nat) /\ q # <<>> /\ Len(q) \in Nat \ {0} /\ DOMAIN q = 1..Len(q)
      /\ Head(q) = q[1] /\ q[1] \in Nat
      /\ Tail(q) \in Seq(Nat) /\ Len(Tail(q)) = Len(q) - 1
      /\ DOMAIN Tail(q) = 1..(Len(q) - 1)
      /\ \A k \in 1..(Len(q) - 1) : Tail(q)[k] = q[k + 1]
  BY HeadTailProperties, EmptySeq DEF Streams!Send, StreamInv, Stream
<1>2. /\ seen' = [seen EXCEPT ![c] = q[1]]
      /\ queue' = [queue EXCEPT ![c] = Tail(q)]
      /\ UNCHANGED <<open, registered, sent>> /\ open[c] # Nobody
  BY <1>1 DEF Streams!Send
<1>3. Stream'
  BY <1>1, <1>2 DEF StreamInv, Stream
<1>4. seen[c] \in Nat /\ \A k \in 1..Len(q) : q[k] = seen[c] + k
  BY <1>1, <1>2 DEF StreamInv, Stream, NoGap, Streams!NoGap
<1>10. c \in registered => seen[c] + Len(q) = sent[open[c]]
  BY <1>2 DEF StreamInv, NoGap, Streams!NoGap
<1>7. seen'[c] = q[1] /\ queue'[c] = Tail(q)
  BY <1>2 DEF StreamInv, Stream
<1>8. \A d \in Clients : d # c => seen'[d] = seen[d] /\ queue'[d] = queue[d]
  BY <1>2 DEF StreamInv, Stream
<1> HIDE DEF q
<1>11. q[1] = seen[c] + 1
  BY <1>1, <1>4
<1>5. \A k \in DOMAIN Tail(q) : Tail(q)[k] = q[1] + k
  <2> SUFFICES ASSUME NEW k \in 1..(Len(q) - 1)
               PROVE  q[k + 1] = q[1] + k
    BY <1>1
  <2>0. Len(q) \in Nat
    BY <1>1
  <2>1. k + 1 \in 1..Len(q) /\ k \in Nat
    BY <2>0
  <2>2. q[k + 1] = seen[c] + (k + 1)
    BY <1>4, <2>1
  <2>3. \A n, m \in Nat : n + (m + 1) = (n + 1) + m
    OBVIOUS
  <2> QED BY <1>4, <1>11, <2>1, <2>2, <2>3
<1>6. c \in registered => q[1] + Len(Tail(q)) = sent[open[c]]
  BY <1>1, <1>4, <1>10, <1>11
<1>9. NoGap'
  <2> SUFFICES ASSUME NEW d \in Clients, open[d] # Nobody
               PROVE  /\ \A k \in DOMAIN queue'[d] : queue'[d][k] = seen'[d] + k
                      /\ d \in registered => seen'[d] + Len(queue'[d]) = sent[open[d]]
    BY <1>2 DEF NoGap, Streams!NoGap
  <2>1. CASE d = c
    BY <2>1, <1>5, <1>6, <1>7
  <2>2. CASE d # c
    BY <2>2, <1>8 DEF StreamInv, NoGap, Streams!NoGap
  <2> QED BY <2>1, <2>2
<1> QED BY <1>3, <1>9 DEF StreamInv

LEMMA StreamDisconnect ==
    ASSUME StreamInv, NEW c \in Clients, Streams!Disconnect(c)
    PROVE  StreamInv'
  BY DEF Streams!Disconnect, StreamInv, Stream, NoGap, Streams!NoGap

\* Who is still registered and listens has room, and gets the item next in number.
LEMMA StreamBroadcast ==
    ASSUME StreamInv, NEW ch \in Channels, Streams!Broadcast(ch)
    PROVE  StreamInv'
<1>1. /\ sent' = [sent EXCEPT ![ch] = sent[ch] + 1]
      /\ sent[ch] \in Nat /\ sent'[ch] = sent[ch] + 1
      /\ UNCHANGED <<open, seen>>
      /\ registered' \subseteq registered
  BY DEF Streams!Broadcast, Streams!Kept, StreamInv, Stream
<1> DEFINE Gets(c) == c \in registered /\ open[c] = ch /\ ~Streams!Full(c)
<1>2. \A c \in Clients : queue'[c] = IF Gets(c) THEN Append(queue[c], sent[ch] + 1)
                                     ELSE queue[c]
  BY <1>1 DEF Streams!Broadcast, Streams!Listening
<1>3. \A c \in registered' : open[c] = ch => Gets(c)
  BY DEF Streams!Broadcast, Streams!Kept, Streams!Listening
<1> HIDE DEF Gets
<1>4. \A c \in Clients : queue[c] \in Seq(Nat)
  BY DEF StreamInv, Stream
<1>5. \A c \in Clients : queue'[c] \in Seq(Nat)
  <2> TAKE c \in Clients
  <2>1. sent[ch] + 1 \in Nat
    BY <1>1
  <2>2. Append(queue[c], sent[ch] + 1) \in Seq(Nat)
    BY <1>4, <2>1, AppendProperties
  <2> QED BY <1>2, <1>4, <2>2
<1>6. queue' \in [Clients -> Seq(Nat)]
  BY <1>5 DEF Streams!Broadcast
<1>7. Stream'
  BY <1>1, <1>6 DEF StreamInv, Stream
<1>8. ASSUME NEW c \in Clients, open[c] # Nobody
      PROVE  /\ \A k \in DOMAIN queue'[c] : queue'[c][k] = seen[c] + k
             /\ c \in registered' => seen[c] + Len(queue'[c]) = sent'[open[c]]
  <2>1. /\ \A k \in DOMAIN queue[c] : queue[c][k] = seen[c] + k
        /\ c \in registered => seen[c] + Len(queue[c]) = sent[open[c]]
        /\ seen[c] \in Nat
    BY <1>8 DEF StreamInv, Stream, NoGap, Streams!NoGap
  <2>2. CASE Gets(c)
    <3> DEFINE q == queue[c]
               item == sent[ch] + 1
    <3>1. queue'[c] = Append(q, item) /\ q \in Seq(Nat)
      BY <1>2, <1>4, <2>2
    <3>2. c \in registered /\ open[c] = ch
      BY <2>2 DEF Gets
    <3>3. item = seen[c] + Len(q) + 1
      BY <1>1, <2>1, <3>2
    <3> HIDE DEF q, item
    <3>4. /\ Len(Append(q, item)) = Len(q) + 1
          /\ DOMAIN Append(q, item) = 1..(Len(q) + 1) /\ DOMAIN q = 1..Len(q)
          /\ Len(q) \in Nat
          /\ \A k \in 1..Len(q) : Append(q, item)[k] = q[k]
          /\ Append(q, item)[Len(q) + 1] = item
      BY <3>1, <3>3, <1>1, <2>1, AppendProperties DEF item
    <3>5. \A k \in 1..Len(q) : q[k] = seen[c] + k
      BY <2>1, <3>4 DEF q
    <3>6. \A k \in DOMAIN queue'[c] : queue'[c][k] = seen[c] + k
      <4> TAKE k \in DOMAIN queue'[c]
      <4>1. k \in 1..Len(q) \/ k = Len(q) + 1
        BY <3>1, <3>4
      <4>2. CASE k \in 1..Len(q)
        BY <4>2, <3>1, <3>4, <3>5
      <4>3. CASE k = Len(q) + 1
        <5>1. queue'[c][k] = item
          BY <4>3, <3>1, <3>4
        <5> QED BY <4>3, <5>1, <3>3, <3>4, <2>1
      <4> QED BY <4>1, <4>2, <4>3
    <3>7. seen[c] + Len(queue'[c]) = sent'[ch]
      BY <1>1, <2>1, <3>1, <3>3, <3>4 DEF item
    <3> QED BY <3>2, <3>6, <3>7
  <2>3. CASE ~Gets(c)
    <3>1. queue'[c] = queue[c]
      BY <1>2, <2>3
    <3>2. c \in registered' => c \in registered /\ open[c] # ch
      BY <1>1, <1>3, <2>3
    <3>3. open[c] \in Channels
      BY <1>8 DEF StreamInv, Stream
    <3>4. open[c] # ch => sent'[open[c]] = sent[open[c]]
      BY <1>1, <3>3 DEF StreamInv, Stream
    <3> QED BY <2>1, <3>1, <3>2, <3>4
  <2> QED BY <2>2, <2>3
<1>9. NoGap'
  BY <1>1, <1>8 DEF NoGap, Streams!NoGap
<1> QED BY <1>7, <1>9 DEF StreamInv

LEMMA StreamStep ==
    ASSUME StreamsAssumption, StreamInv, [SiteNext]_all
    PROVE  StreamInv'
<1>1. CASE UNCHANGED streams
  BY <1>1 DEF streams, StreamInv, Stream, NoGap, Streams!NoGap
<1>2. CASE Streams!Next
  BY <1>2, StreamConnect, StreamSend, StreamDisconnect, StreamBroadcast DEF Streams!Next
<1> QED BY <1>1, <1>2 DEF SiteNext, all, StreaksStep, RestartsStep, MonitorStep,
           PublishingStep, EventsStep, StreamsStep, AnnouncementsStep

LEMMA StreamInit == SiteInit => StreamInv
  BY EmptySeq DEF SiteInit, Streams!Init, StreamInv, Stream, NoGap, Streams!NoGap

\* What a client of a live stream got and still has in its queue is what was
\* broadcast since it came, without a gap, for any number of clients, channels and
\* any size of the queues; a client whose queue ran full only stops to get more.
THEOREM StreamsHaveNoGap ==
    ASSUME StreamsAssumption
    PROVE  SiteSpec => []NoGap
<1>1. StreamInv /\ [SiteNext]_all => StreamInv'
  BY StreamStep
<1>2. StreamInv => NoGap
  BY DEF StreamInv
<1> QED BY <1>1, <1>2, StreamInit, PTL DEF SiteSpec

-----------------------------------------------------------------------------
(***************************************************************************)
(* Events.                                                                 *)
(***************************************************************************)

EventType ==
    /\ event \in Events!Row \cup {NoRow}
    /\ staleStatus \in {"active", "ended", Unset}
    /\ gap \in 0..(Events!Width + 1)

\* The id had its reminder for this start or for one before it.
ReminderIsKnown == event # NoRow /\ reminded => told \/ spent

Awaits == event # NoRow /\ event.early /\ ~told /\ ~spent /\ ~blind

\* Before its reminder a start is past the end of the window by no more than
\* the time since the last poll; that of an event which a late status may
\* bring back is not past it at all.
BeforeWindow ==
    Awaits =>
        /\ ~Events!Over => event.start + gap > WindowTo
        /\ staleStatus = "active" => event.start > WindowTo

EventInv == EventType /\ ReminderIsKnown /\ BeforeWindow

LEMMA EventStep ==
    ASSUME EventsAssumption, EventInv, [SiteNext]_all
    PROVE  EventInv'
<1> USE DEF EventsAssumption, EventInv, EventType, Events!Row, Events!Statuses, Events!Over,
        Events!Width, Events!row, Events!reminder
<1>0. /\ event # NoRow => event \in Events!Row
      /\ gap \in Nat /\ WindowFrom \in Nat /\ WindowTo \in Nat
      /\ gap <= WindowTo - WindowFrom + 1
  OBVIOUS
<1>1. CASE UNCHANGED events
  BY <1>1 DEF events, ReminderIsKnown, BeforeWindow, Awaits
<1>2. ASSUME NEW start \in Starts, Events!Create(start)
      PROVE  EventInv'
  <2> DEFINE new == [status |-> "upcoming", start |-> start,
                     early |-> start > WindowTo, who |-> {}]
  <2>0. new \in Events!Row
    OBVIOUS
  <2>1. /\ event' = new
        /\ told' = FALSE /\ spent' = reminded
        /\ UNCHANGED <<staleStatus, reminded, gap>>
    BY <1>2, Zenon DEF Events!Create, Events!NewStart
  <2>2. /\ new.start = start /\ new.early = (start > WindowTo) /\ start \in Nat
    OBVIOUS
  <2> HIDE DEF new
  <2>3. EventType'
    BY <2>0, <2>1
  <2>4. ReminderIsKnown'
    BY <2>1 DEF ReminderIsKnown
  <2>5. BeforeWindow'
    <3>1. Awaits' => start > WindowTo
      BY <2>1, <2>2, Zenon DEF Awaits
    <3>2. event'.start = start /\ gap' = gap
      BY <2>1, <2>2
    <3>3. start > WindowTo => event'.start > WindowTo /\ event'.start + gap' > WindowTo
      BY <1>0, <2>2, <3>2
    <3> QED BY <3>1, <3>3, Zenon DEF BeforeWindow
  <2> QED BY <2>3, <2>4, <2>5
<1>3. ASSUME NEW start \in Starts, NEW status \in {"upcoming", "cancelled", Unset},
             Events!Update(start, status)
      PROVE  EventInv'
  <2> DEFINE to == IF status = Unset THEN event.status ELSE status
             kept == start = event.start /\ (Events!Over => to = event.status)
             ahead == IF kept THEN event.early ELSE start > WindowTo
             new == [event EXCEPT !.start = start, !.status = to, !.early = ahead]
  <2>1. /\ event # NoRow /\ event' = new /\ staleStatus' = staleStatus
        /\ IF start = event.start THEN UNCHANGED <<reminded, gap, told, spent, blind>>
           ELSE told' = FALSE /\ spent' = reminded /\ UNCHANGED <<reminded, gap>>
    BY <1>3, Zenon DEF Events!Update, Events!NewStart
  <2>2. event \in Events!Row /\ to \in Events!Statuses /\ start \in Nat
    BY <1>0, <2>1
  <2>3. ahead \in BOOLEAN
    <3>1. event.early \in BOOLEAN /\ (start > WindowTo) \in BOOLEAN
      BY <2>2
    <3> QED BY <3>1, Zenon
  <2>4. /\ ahead => start > WindowTo \/ kept
        /\ kept => start = event.start /\ ahead = event.early
    OBVIOUS
  <2>5. kept => (Events!Over => to = event.status)
    OBVIOUS
  <2> HIDE DEF to, kept, ahead
  <2>6. /\ event' \in Events!Row
        /\ event'.start = start /\ event'.early = ahead /\ event'.status = to
    BY <2>1, <2>2, <2>3
  <2>7. EventType'
    BY <2>1, <2>6
  <2>8. ReminderIsKnown'
    <3>1. reminded' = reminded
      BY <2>1
    <3>2. \/ told' = told /\ spent' = spent
          \/ spent' = reminded
      BY <2>1, Zenon
    <3> QED BY <2>1, <3>1, <3>2, Zenon DEF EventInv, ReminderIsKnown
  <2>9. BeforeWindow'
    <3>1. CASE start > WindowTo
      BY <1>0, <2>1, <2>2, <2>6, <3>1 DEF BeforeWindow
    <3>2. CASE ~(start > WindowTo)
      <4>1. Awaits' => kept /\ Awaits /\ UNCHANGED gap
        BY <2>1, <2>4, <2>6, <3>2 DEF Awaits
      <4>2. kept /\ ~Events!Over' => ~Events!Over
        BY <2>5, <2>6
      <4> QED BY <2>1, <2>4, <2>6, <4>1, <4>2 DEF BeforeWindow
    <3> QED BY <3>1, <3>2
  <2> QED BY <2>7, <2>8, <2>9
<1>4. ASSUME Events!Delete
      PROVE  EventInv'
  BY <1>4 DEF Events!Delete, ReminderIsKnown, BeforeWindow, Awaits
<1>5. ASSUME NEW u \in Users, Events!JoinRead(u) \/ Events!JoinWrite(u) \/ Events!Leave(u)
      PROVE  EventInv'
  BY <1>5 DEF Events!JoinRead, Events!JoinWrite, Events!Leave, ReminderIsKnown, BeforeWindow,
     Awaits
<1>6. ASSUME Events!ScheduleRead
      PROVE  EventInv'
  BY <1>0, <1>6 DEF Events!ScheduleRead, Events!Moved, ReminderIsKnown, BeforeWindow, Awaits
<1>7. ASSUME Events!ScheduleWrite
      PROVE  EventInv'
  BY <1>7 DEF Events!ScheduleWrite, ReminderIsKnown, BeforeWindow, Awaits
<1>8. ASSUME Events!RemindRead
      PROVE  EventInv'
  <2>1. /\ UNCHANGED <<event, staleStatus, reminded, told, spent, blind>>
        /\ \/ gap' = gap
           \/ gap' = 0 /\ ~Events!Reminds
    BY <1>8 DEF Events!RemindRead
  <2>2. EventType' /\ ReminderIsKnown'
    BY <1>0, <2>1 DEF ReminderIsKnown
  <2>3. CASE gap' = gap
    BY <2>1, <2>2, <2>3 DEF BeforeWindow, Awaits
  <2>4. CASE gap' = 0 /\ ~Events!Reminds
    <3>1. Awaits' => Awaits /\ ~reminded
      BY <2>1 DEF Awaits, ReminderIsKnown
    <3>2. Awaits /\ ~Events!Over => event.start \notin WindowFrom..WindowTo
      BY <1>0, <2>4, <3>1, <2>1 DEF Events!Reminds, Events!InWindow, Awaits, ReminderIsKnown
    <3>3. Awaits /\ ~Events!Over => event.start > WindowTo
      BY <1>0, <3>2 DEF BeforeWindow, Awaits
    <3>4. BeforeWindow'
      BY <1>0, <2>1, <2>4, <3>1, <3>3 DEF BeforeWindow, Awaits
    <3> QED BY <2>2, <3>4
  <2> QED BY <2>1, <2>3, <2>4
<1>9. ASSUME Events!Remind
      PROVE  EventInv'
  <2>1. /\ gap' = 0 /\ UNCHANGED <<event, staleStatus>>
        /\ told' = TRUE \/ spent' = TRUE
    BY <1>9 DEF Events!Remind
  <2>2. EventType' /\ ReminderIsKnown'
    BY <1>0, <2>1 DEF ReminderIsKnown
  <2> QED BY <2>1, <2>2 DEF BeforeWindow, Awaits
<1>10. ASSUME Events!RemindFails
       PROVE  EventInv'
  BY <1>10 DEF Events!RemindFails, ReminderIsKnown, BeforeWindow, Awaits
<1>11. ASSUME Events!Restart
       PROVE  EventInv'
  BY <1>11 DEF Events!Restart, ReminderIsKnown, BeforeWindow, Awaits
<1>12. ASSUME Events!Tick
       PROVE  EventInv'
  <2>1. /\ staleStatus = Unset
        /\ gap' = IF gap > Events!Width THEN gap ELSE gap + 1
        /\ blind' = (blind \/ gap' > Events!Width)
        /\ event' = IF event = NoRow \/ event.start = 0 THEN event
                    ELSE [event EXCEPT !.start = @ - 1]
        /\ UNCHANGED <<staleStatus, reminded, told, spent>>
    BY <1>12, Zenon DEF Events!Tick
  <2>2. /\ event = NoRow => event' = NoRow
        /\ event # NoRow => /\ event' \in Events!Row /\ event'.early = event.early
                            /\ event'.status = event.status
                            /\ event'.start + 1 >= event.start
    BY <1>0, <2>1
  <2>3. EventType' /\ ReminderIsKnown'
    BY <1>0, <2>1, <2>2 DEF ReminderIsKnown
  <2>4. Awaits' => Awaits /\ gap' = gap + 1
    BY <1>0, <2>1, <2>2 DEF Awaits
  <2>5. BeforeWindow'
    BY <1>0, <2>1, <2>2, <2>4 DEF BeforeWindow, Awaits
  <2> QED BY <2>3, <2>5
<1>13. CASE Events!Next
  BY <1>2, <1>3, <1>4, <1>5, <1>6, <1>7, <1>8, <1>9, <1>10, <1>11, <1>12, <1>13
  DEF Events!Next
<1> QED BY <1>1, <1>13 DEF SiteNext, all, StreaksStep, RestartsStep, MonitorStep,
           PublishingStep, EventsStep, StreamsStep, AnnouncementsStep

LEMMA EventInit == ASSUME EventsAssumption PROVE SiteInit => EventInv
<1> SUFFICES ASSUME Events!Init
             PROVE  EventInv
  BY DEF SiteInit
<1>1. EventType
  BY DEF Events!Init, EventsAssumption, EventType, Events!Width
<1> QED BY <1>1 DEF Events!Init, EventInv, ReminderIsKnown, BeforeWindow, Awaits

\* No start passes the window without its reminder, for any window, unless polls have
\* been further apart than it is wide, or the id had its reminder for another start.
THEOREM EventsAreReminded ==
    ASSUME EventsAssumption
    PROVE  SiteSpec => []NoEventUnreminded
<1>1. EventInv /\ [SiteNext]_all => EventInv'
  BY EventStep
<1>2. EventInv => NoEventUnreminded
  BY DEF EventsAssumption, EventInv, EventType, BeforeWindow, Awaits, Events!Over, Events!Width,
     NoEventUnreminded, Events!NoEventUnreminded, Events!Row
<1> QED BY <1>1, <1>2, EventInit, PTL DEF SiteSpec

-----------------------------------------------------------------------------
(***************************************************************************)
(* Announcements.                                                          *)
(***************************************************************************)
AnnouncementType ==
    /\ row \in Announcements!Row \cup {Unset}
    /\ poll \in 0..MaxAge \cup {Unset, Nobody}
    /\ heardAt \in 0..MaxAge

\* Unless an admin asked for it, the column tells when the players heard it.
SentWhenHeard == row # Unset /\ ~asked => row.sentAge = heardAt

\* What a poll found due stays due until the stamp.
StillDue ==
    row # Unset /\ ~asked /\ poll # Nobody =>
        row.interval # Unset /\ heardAt >= row.interval

AnnouncementInv == AnnouncementType /\ SentWhenHeard /\ StillDue

LEMMA AnnouncementStep ==
    ASSUME AnnouncementsAssumption, AnnouncementInv, [SiteNext]_all
    PROVE  AnnouncementInv'
<1> USE DEF AnnouncementsAssumption, AnnouncementInv, AnnouncementType,
        Announcements!Row, SentWhenHeard, StillDue
<1>1. CASE UNCHANGED announcements
  BY <1>1 DEF announcements
<1>2. ASSUME NEW interval \in Intervals \cup {Unset}, NEW enabled \in BOOLEAN,
             NEW expires \in {2, Unset}, Announcements!Create(interval, enabled, expires)
      PROVE  AnnouncementInv'
  <2>1. [interval |-> interval, enabled |-> enabled, sentAge |-> Unset, expires |-> expires]
            \in Announcements!Row
    OBVIOUS
  <2> QED BY <1>2, <2>1 DEF Announcements!Create
<1>3. ASSUME NEW interval \in Intervals \cup {Unset}, NEW enabled \in BOOLEAN,
             NEW expires \in {2, Unset}, Announcements!Update(interval, enabled, expires)
      PROVE  AnnouncementInv'
  <2>2. /\ row # Unset
        /\ row' = [row EXCEPT !.interval = interval, !.enabled = enabled, !.expires = expires]
        /\ asked' = (asked \/ interval # row.interval)
        /\ UNCHANGED <<poll, heardAt>>
    BY <1>3, Zenon DEF Announcements!Update
  <2>3. row \in Announcements!Row /\ expires \in 0..MaxAge \cup {Unset}
    BY <2>2
  <2>1. /\ row \in Announcements!Row /\ row' \in Announcements!Row
        /\ row'.interval = interval /\ row'.sentAge = row.sentAge
    BY <2>2, <2>3
  <2> QED BY <2>1, <2>2
<1>4. CASE Announcements!Delete
  BY <1>4 DEF Announcements!Delete
<1>5. CASE Announcements!SendNow
  BY <1>5 DEF Announcements!SendNow
<1>6. CASE Announcements!PollRead
  BY <1>6 DEF Announcements!PollRead, Announcements!Due
<1>7. CASE Announcements!PollStamp
  <2>1. CASE row = Unset
    BY <1>7, <2>1 DEF Announcements!PollStamp
  <2>2. CASE row # Unset
    <3>1. row \in Announcements!Row /\ row' = [row EXCEPT !.sentAge = 0]
      BY <1>7, <2>2 DEF Announcements!PollStamp
    <3>2. row' \in Announcements!Row /\ row'.sentAge = 0
      BY <3>1
    <3>3. poll' = Nobody /\ heardAt' = 0 /\ asked' = FALSE
      BY <1>7, <2>2 DEF Announcements!PollStamp
    <3> QED BY <3>2, <3>3
  <2> QED BY <2>1, <2>2
<1>8. CASE Announcements!PollFails
  BY <1>8 DEF Announcements!PollFails
<1>9. CASE Announcements!Tick
  <2> DEFINE Older(age) == IF age = Unset \/ age = MaxAge THEN age ELSE age + 1
             left == IF row.expires \in {0, Unset} THEN row.expires ELSE row.expires - 1
  <2>1. \A age \in 0..MaxAge : Older(age) \in 0..MaxAge /\ Older(Unset) = Unset
    OBVIOUS
  <2>2. /\ heardAt' = Older(heardAt)
        /\ UNCHANGED <<poll, asked>> /\ poll = Nobody
        /\ row = Unset => row' = Unset
        /\ row # Unset => row' = [row EXCEPT !.sentAge = Older(row.sentAge), !.expires = left]
    BY <1>9 DEF Announcements!Tick, Announcements!Older
  <2>3. row # Unset => left \in 0..MaxAge \cup {Unset}
    OBVIOUS
  <2> HIDE DEF left, Older
  <2>4. row # Unset => row' \in Announcements!Row /\ row'.sentAge = Older(row.sentAge)
    BY <2>1, <2>2, <2>3
  <2>5. AnnouncementType'
    BY <2>1, <2>2, <2>4
  <2>6. SentWhenHeard' /\ StillDue'
    BY <2>2, <2>4
  <2> QED BY <2>5, <2>6
<1>10. CASE Announcements!Next
  BY <1>2, <1>3, <1>4, <1>5, <1>6, <1>7, <1>8, <1>9, <1>10 DEF Announcements!Next
<1> QED BY <1>1, <1>10 DEF SiteNext, all, StreaksStep, RestartsStep, MonitorStep,
           PublishingStep, EventsStep, StreamsStep, AnnouncementsStep

LEMMA AnnouncementInit == ASSUME AnnouncementsAssumption PROVE SiteInit => AnnouncementInv
<1> SUFFICES ASSUME Announcements!Init
             PROVE  AnnouncementInv
  BY DEF SiteInit
<1> QED BY DEF Announcements!Init, AnnouncementsAssumption, AnnouncementInv,
           AnnouncementType, SentWhenHeard, StillDue

\* An announcement is not heard before its interval is over, whatever admins
\* write while a poll is under way, for any intervals.
THEOREM AnnouncedNotTooOften ==
    ASSUME AnnouncementsAssumption
    PROVE  SiteSpec => NotTooOften
<1>1. AnnouncementInv /\ [SiteNext]_all => AnnouncementInv'
  BY AnnouncementStep
<1>2. AnnouncementInv /\ Announcements!PollStamp /\ row # Unset /\ ~asked =>
          row.interval # Unset /\ heardAt >= row.interval
  BY DEF AnnouncementInv, StillDue, Announcements!PollStamp
<1>3. AnnouncementInv =>
          [Announcements!PollStamp /\ row # Unset /\ ~asked =>
              row.interval # Unset /\ heardAt >= row.interval]_(Announcements!vars)
  BY <1>2
<1> QED BY <1>1, <1>3, AnnouncementInit, PTL DEF SiteSpec, NotTooOften, Announcements!NotTooOften

-----------------------------------------------------------------------------
(***************************************************************************)
(* Streaks: a bonus is paid once a day and for the days it rewards, for    *)
(* any number of overlapping connections, timezone shifts and any length.  *)
(***************************************************************************)
\* The report r is the one that inserted its day: it may earn the bonus.
Claims(r) ==
    \/ connect[r].stage = "recorded" /\ connect[r].new
    \/ connect[r].stage = "earned"

Rewarded(d) == (d - MinDays + 1)..d \subseteq dates

StreakType ==
    /\ today \in Days
    /\ dates \subseteq Days
    /\ connect \in [Connects -> Report \cup {Idle, Done}]
    /\ bonuses \in [Days -> Nat]

\* The unique key lets one report insert a day, before its bonus is paid.
Claimed ==
    /\ \A r \in Connects : Claims(r) => connect[r].day \in dates
    /\ \A r, q \in Connects :
          Claims(r) /\ Claims(q) /\ connect[r].day = connect[q].day => r = q
    /\ \A r \in Connects : connect[r].stage = "earned" => Rewarded(connect[r].day)

Paid ==
    \A d \in Days :
        \/ bonuses[d] = 0
        \/ /\ bonuses[d] = 1
           /\ d \in dates /\ Rewarded(d)
           /\ \A r \in Connects : Claims(r) => connect[r].day # d

StreakInv == StreakType /\ Claimed /\ Paid

-----------------------------------------------------------------------------
\* The maximum of a set of numbers up to d is one of them.
LEMMA Least ==
    ASSUME NEW T \in SUBSET Nat, T # {}
    PROVE  \E x \in T : \A y \in T : x <= y
<1>1. PICK x \in T : \A y \in T : ~ (<<y, x>> \in OpToRel(<, Nat))
  BY NatLessThanWellFounded, WFMin
<1>2. \A y \in T : ~ (y < x)
  BY <1>1 DEF OpToRel
<1> QED BY <1>2

LEMMA MaxIn ==
    ASSUME NEW d \in Nat, NEW S \in SUBSET (0..d), S # {}
    PROVE  Max(S) \in S
<1>1. /\ S \subseteq Int /\ \A n \in S : n >= 0 /\ n <= d
  OBVIOUS
<1>2. {d - n : n \in S} \in SUBSET Nat
  <2> SUFFICES ASSUME NEW n \in S PROVE d - n \in Nat
    OBVIOUS
  <2> QED BY <1>1
<1>3. {d - n : n \in S} # {}
  OBVIOUS
<1>4. PICK x \in {d - n : n \in S} : \A y \in {d - n : n \in S} : x <= y
  BY <1>2, <1>3, Least
<1>5. PICK m \in S : x = d - m
  OBVIOUS
<1>6. ASSUME NEW n \in S PROVE m >= n
  <2>1. d - n \in {d - k : k \in S}
    OBVIOUS
  <2>2. x <= d - n
    BY <1>4, <2>1
  <2> QED BY <1>1, <1>5, <2>2
<1> QED BY <1>6 DEF Max

\* What StreakAt counts are days without a gap.
LEMMA StreakIsRewarded ==
    ASSUME StreaksAssumption, NEW d \in Days, StreakAt(d) >= MinDays
    PROVE  Rewarded(d)
<1> DEFINE S == {n \in 0..d : (d - n + 1)..d \subseteq dates}
<1>1. d \in Nat /\ MinDays \in Nat
  BY DEF Days, StreaksAssumption
<1>2. 0 \in S /\ S \in SUBSET (0..d)
  BY <1>1
<1>3. Max(S) \in S /\ Max(S) >= MinDays
  BY <1>1, <1>2, MaxIn DEF StreakAt
<1>4. PICK m \in 0..d : m >= MinDays /\ (d - m + 1)..d \subseteq dates
  BY <1>3
<1> QED BY <1>1, <1>4 DEF Rewarded

\* The parts of a report.
LEMMA ReportType ==
    ASSUME StreakType, NEW r \in Connects
    PROVE  /\ connect[r].stage \in {"looked", "recorded", "earned"}
                => connect[r] \in Report
           /\ Claims(r) => connect[r] \in Report
BY DEF StreakType, Report, Idle, Done, Claims

LEMMA Moves ==
    ASSUME StreakType, NEW r \in Connects, NEW to, connect' = [connect EXCEPT ![r] = to]
    PROVE  connect'[r] = to /\ \A q \in Connects : q # r => connect'[q] = connect[q]
BY DEF StreakType

\* A step after which nobody claims who did not, and no bonus is paid.
LEMMA Quiet ==
    ASSUME Claimed, Paid, dates' = dates, bonuses' = bonuses,
           \A q \in Connects : Claims(q)' => Claims(q) /\ connect'[q].day = connect[q].day,
           \A q \in Connects : connect'[q].stage = "earned" =>
                                  connect[q].stage = "earned" \/ Rewarded(connect'[q].day)
    PROVE  Claimed' /\ Paid'
<1>1. \A d : Rewarded(d)' = Rewarded(d)
  BY DEF Rewarded
<1>2. \A q \in Connects : connect'[q].stage = "earned" => Claims(q)'
  BY DEF Claims
<1> QED BY <1>1, <1>2 DEF Claimed, Paid

\* A report ends without a bonus, or waits to be recorded.
LEMMA QuietMove ==
    ASSUME StreakType, Claimed, Paid, dates' = dates, bonuses' = bonuses,
           NEW r \in Connects, NEW to, connect' = [connect EXCEPT ![r] = to],
           to.stage \in {"looked", "done"} \/ (to.stage = "recorded" /\ ~to.new)
    PROVE  Claimed' /\ Paid'
<1>1. connect'[r] = to /\ \A q \in Connects : q # r => connect'[q] = connect[q]
  BY Moves
<1>2. ~Claims(r)' /\ connect'[r].stage # "earned"
  BY <1>1 DEF Claims
<1>3. \A q \in Connects : q # r => (Claims(q)' <=> Claims(q))
  BY <1>1 DEF Claims
<1> QED BY <1>1, <1>2, <1>3, Quiet

\* The day is new: nobody has claimed it, and no bonus is paid for it.
LEMMA RecordNew ==
    ASSUME StreakInv, NEW r \in Connects, Record(r), connect[r].new, Inserts(r)
    PROVE  Claimed' /\ Paid'
<1> DEFINE d == connect[r].day
<1>1. connect[r] \in Report /\ d \in Days
  BY ReportType DEF Record, StreakInv, Report
<1>2. /\ connect' = [connect EXCEPT ![r].stage = "recorded"]
      /\ dates' = dates \cup {d} /\ bonuses' = bonuses
      /\ d \notin dates
  BY DEF Record, Inserts
<1>3. /\ connect'[r].day = d /\ connect'[r].stage = "recorded"
      /\ \A q \in Connects : q # r => connect'[q] = connect[q]
  BY <1>1, <1>2 DEF StreakInv, StreakType, Report
<1>4. \A q \in Connects : q # r => (Claims(q)' <=> Claims(q))
  BY <1>3 DEF Claims
<1>5. \A q \in Connects : Claims(q) => connect[q].day # d
  BY <1>2 DEF StreakInv, Claimed
<1>6. \A x : Rewarded(x) => Rewarded(x)'
  BY <1>2 DEF Rewarded
<1>7. Claimed'
  BY <1>2, <1>3, <1>4, <1>5, <1>6 DEF StreakInv, Claimed
<1>8. \A x \in Days : bonuses[x] = 1 => x # d
  BY <1>2 DEF StreakInv, Paid
<1>9. Paid'
  BY <1>2, <1>3, <1>4, <1>6, <1>8 DEF StreakInv, Paid
<1> QED BY <1>7, <1>9

LEMMA CountStep ==
    ASSUME StreaksAssumption, StreakInv, NEW r \in Connects, Count(r)
    PROVE  Claimed' /\ Paid'
<1>1. CASE ~(Earns(r) /\ linked)
  <2>1. connect' = [connect EXCEPT ![r] = Done]
    BY <1>1 DEF Count
  <2> QED BY <2>1, QuietMove DEF StreakInv, Done, Count
<1>2. CASE Earns(r) /\ linked
  <2>1. connect[r] \in Report /\ connect[r].new
    BY <1>2, ReportType DEF Count, StreakInv, Earns
  <2>2. connect' = [connect EXCEPT ![r].stage = "earned"]
    BY <1>2 DEF Count
  <2>3. /\ connect'[r].stage = "earned" /\ connect'[r].day = connect[r].day
        /\ \A q \in Connects : q # r => connect'[q] = connect[q]
    BY <2>1, <2>2 DEF StreakInv, StreakType, Report
  <2>4. Rewarded(connect[r].day)
    BY <1>2, <2>1, StreakIsRewarded DEF Earns, Report
  <2>5. Claims(r) /\ dates' = dates /\ bonuses' = bonuses
    BY <2>1 DEF Claims, Count
  <2>6. \A q \in Connects : Claims(q)' => Claims(q) /\ connect'[q].day = connect[q].day
    BY <2>3, <2>5 DEF Claims
  <2>7. \A q \in Connects : connect'[q].stage = "earned" =>
            connect[q].stage = "earned" \/ Rewarded(connect'[q].day)
    BY <2>3, <2>4
  <2> QED BY <2>5, <2>6, <2>7, Quiet DEF StreakInv
<1> QED BY <1>1, <1>2

\* The bonus is paid to the one report that claims the day.
LEMMA AwardStep ==
    ASSUME StreakInv, NEW r \in Connects, Award(r)
    PROVE  Claimed' /\ Paid'
<1> DEFINE d == connect[r].day
<1>1. Claims(r) /\ d \in Days /\ d \in dates /\ Rewarded(d)
  BY ReportType DEF Award, StreakInv, Claims, Claimed, Report
<1>2. connect'[r] = Done /\ \A q \in Connects : q # r => connect'[q] = connect[q]
  BY Moves DEF Award, StreakInv
<1>3. ~Claims(r)' /\ connect'[r].stage # "earned"
  BY <1>2 DEF Claims, Done
<1>4. \A q \in Connects : Claims(q)' => q # r /\ Claims(q) /\ connect'[q] = connect[q]
  BY <1>2, <1>3 DEF Claims
<1>5. dates' = dates /\ \A x : Rewarded(x)' = Rewarded(x)
  BY DEF Award, Rewarded
<1>6. Claimed'
  BY <1>2, <1>3, <1>4, <1>5 DEF StreakInv, Claimed
<1>7. bonuses[d] = 0
  BY <1>1 DEF StreakInv, Paid
<1>8. /\ bonuses'[d] = 1
      /\ \A x \in Days : x # d => bonuses'[x] = bonuses[x]
  BY <1>1, <1>7 DEF Award, StreakInv, StreakType
<1>9. \A q \in Connects : Claims(q)' => connect'[q].day # d
  BY <1>1, <1>4 DEF StreakInv, Claimed
<1>10. Paid'
  BY <1>1, <1>4, <1>5, <1>8, <1>9 DEF StreakInv, Paid
<1> QED BY <1>6, <1>10

LEMMA StreakTypeStep == ASSUME StreaksAssumption, StreakType, [Next]_vars PROVE StreakType'
<1>1. ASSUME NEW r \in Connects, Connect(r) PROVE StreakType'
  BY <1>1 DEF Connect, StreakType, Report
<1>2. ASSUME NEW r \in Connects, Record(r) PROVE StreakType'
  <2>1. connect[r] \in Report
    BY <1>2, ReportType DEF Record
  <2> QED BY <1>2, <2>1 DEF Record, StreakType, Report
<1>3. ASSUME NEW r \in Connects, Count(r) PROVE StreakType'
  <2>1. connect[r] \in Report
    BY <1>3, ReportType DEF Count
  <2>2. [connect[r] EXCEPT !.stage = "earned"] \in Report
    BY <2>1 DEF Report
  <2> QED BY <1>3, <2>2 DEF Count, StreakType
<1>4. ASSUME NEW r \in Connects, Award(r) PROVE StreakType'
  <2>1. connect[r].day \in Days
    BY <1>4, ReportType DEF Award, Report
  <2> QED BY <1>4, <2>1 DEF Award, StreakType
<1>5. ASSUME NEW r \in Connects, Lost(r) PROVE StreakType'
  BY <1>5 DEF Lost, StreakType
<1>6. CASE Midnight \/ ShiftTimezone
  <2>1. today' \in Days
    BY <1>6 DEF Midnight, ShiftTimezone, StreakType, Days, StreaksAssumption
  <2> QED BY <1>6, <2>1 DEF Midnight, ShiftTimezone, StreakType, Days
<1>7. CASE Link \/ UNCHANGED vars
  BY <1>7 DEF Link, vars, StreakType
<1> QED BY <1>1, <1>2, <1>3, <1>4, <1>5, <1>6, <1>7 DEF Next

LEMMA StreakInvStep == ASSUME StreaksAssumption, StreakInv, [Next]_vars PROVE Claimed' /\ Paid'
<1>1. ASSUME NEW r \in Connects, Connect(r) PROVE Claimed' /\ Paid'
  <2> DEFINE to == [stage |-> "looked", day |-> today, new |-> today \notin dates]
  <2>1. to.stage = "looked"
    OBVIOUS
  <2>2. connect' = [connect EXCEPT ![r] = to] /\ dates' = dates /\ bonuses' = bonuses
    BY <1>1 DEF Connect
  <2> HIDE DEF to
  <2> QED BY <2>1, <2>2, QuietMove DEF StreakInv
<1>2. ASSUME NEW r \in Connects, Record(r) PROVE Claimed' /\ Paid'
  <2>1. connect[r] \in Report
    BY <1>2, ReportType DEF Record, StreakInv
  <2>2. CASE connect[r].new /\ Inserts(r)
    BY <1>2, <2>2, RecordNew
  <2>3. CASE connect[r].new /\ ~Inserts(r)
    BY <1>2, <2>3, QuietMove DEF Record, StreakInv, Done
  <2>4. CASE ~connect[r].new
    <3> DEFINE to == [connect[r] EXCEPT !.stage = "recorded"]
    <3>1. to.stage = "recorded" /\ ~to.new
      BY <2>1, <2>4 DEF Report
    <3>2. connect' = [connect EXCEPT ![r] = to] /\ dates' = dates /\ bonuses' = bonuses
      BY <1>2, <2>4 DEF Record
    <3> HIDE DEF to
    <3> QED BY <3>1, <3>2, QuietMove DEF StreakInv
  <2> QED BY <2>2, <2>3, <2>4
<1>3. ASSUME NEW r \in Connects, Count(r) PROVE Claimed' /\ Paid'
  BY <1>3, CountStep
<1>4. ASSUME NEW r \in Connects, Award(r) PROVE Claimed' /\ Paid'
  BY <1>4, AwardStep
<1>5. ASSUME NEW r \in Connects, Lost(r) PROVE Claimed' /\ Paid'
  BY <1>5, QuietMove DEF Lost, StreakInv, Done
<1>6. CASE Midnight \/ ShiftTimezone \/ Link \/ UNCHANGED vars
  <2>1. UNCHANGED <<dates, connect, bonuses>>
    BY <1>6 DEF Midnight, ShiftTimezone, Link, vars
  <2> QED BY <2>1, Quiet DEF StreakInv, Claims
<1> QED BY <1>1, <1>2, <1>3, <1>4, <1>5, <1>6 DEF Next

LEMMA StreakInit == ASSUME StreaksAssumption PROVE SiteInit => StreakInv
<1> SUFFICES ASSUME Init PROVE StreakInv
  BY DEF SiteInit
<1>1. \A r \in Connects : connect[r] = Idle
  BY DEF Init
<1>2. \A r \in Connects : ~Claims(r) /\ connect[r].stage # "earned"
  BY <1>1 DEF Claims, Idle
<1>3. StreakType
  BY DEF Init, StreakType, Days, StreaksAssumption
<1> QED BY <1>2, <1>3 DEF StreakInv, Claimed, Paid, Init

LEMMA StreakStep == ASSUME StreaksAssumption, StreakInv, [SiteNext]_all PROVE StreakInv'
<1>1. [Next]_vars
  BY DEF SiteNext, all, StreaksStep, RestartsStep, MonitorStep, PublishingStep,
         EventsStep, StreamsStep, AnnouncementsStep, streaks
<1> QED BY <1>1, StreakTypeStep, StreakInvStep DEF StreakInv

\* plugin_connect_streak pays a streak once a day, and only one that the
\* recorded days bear out, although the day and its bonus are two commits and
\* connections of a day overlap: the unique key of the day decides.
THEOREM PaidOnceADay ==
    ASSUME StreaksAssumption
    PROVE  SiteSpec => []BonusIsEarnedOnce
<1>1. StreakInv /\ [SiteNext]_all => StreakInv'
  BY StreakStep
<1>2. StreakInv => BonusIsEarnedOnce
  BY DEF StreakInv, Paid, Rewarded, BonusIsEarnedOnce
<1> QED BY <1>1, <1>2, StreakInit, PTL DEF SiteSpec

-----------------------------------------------------------------------------
(***************************************************************************)
(* The types of every part.                                                *)
(***************************************************************************)
LEMMA RestartTypes ==
    ASSUME BoundsAssumption, Restarts!TypeOK, [Restarts!Next]_restarts
    PROVE  Restarts!TypeOK'
<1> USE DEF BoundsAssumption, Restarts!TypeOK, Restarts!Day, Restarts!Moment
<1>1. CASE UNCHANGED restarts
  BY <1>1 DEF restarts
<1>2. CASE Restarts!PollRead \/ Restarts!PollFails \/ Restarts!Execute \/ Restarts!CleanUp
  BY <1>2 DEF Restarts!PollRead, Restarts!PollFails, Restarts!Execute, Restarts!CleanUp,
     Restarts!Cancelled
<1>3. CASE Restarts!PollArm
  BY <1>3 DEF Restarts!PollArm, Restarts!NextDaily
<1>4. CASE Restarts!Cancel \/ Restarts!ClearDaily
  BY <1>4 DEF Restarts!Cancel, Restarts!ClearDaily, Restarts!Order, Restarts!Cancelled
<1>5. ASSUME NEW n \in 1..Hours, Restarts!Schedule(n) PROVE Restarts!TypeOK'
  BY <1>5 DEF Restarts!Schedule, Restarts!Order
<1>6. ASSUME NEW t \in Restarts!Day, Restarts!SetDaily(t) PROVE Restarts!TypeOK'
  BY <1>6 DEF Restarts!SetDaily, Restarts!Order
<1>7. CASE Restarts!Tick
  <2>1. (hour + 1) % Hours \in 0..(Hours - 1)
    OBVIOUS
  <2>2. \A m \in Restarts!Moment \cup {Unset} : Restarts!Sooner(m) \in Restarts!Moment \cup {Unset}
    BY DEF Restarts!Sooner
  <2> QED BY <1>7, <2>1, <2>2 DEF Restarts!Tick
<1> QED BY <1>1, <1>2, <1>3, <1>4, <1>5, <1>6, <1>7 DEF Restarts!Next

\* The rows of snapshots, oldest first, are cut to Keep.
LEMMA SnapsCut ==
    ASSUME BoundsAssumption, NEW ss \in Monitor!BoundedSeq(BOOLEAN, Keep), NEW up \in BOOLEAN
    PROVE  LET more == Append(ss, up)
           IN (IF Len(more) > Keep THEN Tail(more) ELSE more) \in Monitor!BoundedSeq(BOOLEAN, Keep)
<1>1. PICK m \in 0..Keep : ss \in [1..m -> BOOLEAN]
  BY DEF Monitor!BoundedSeq, Monitor!SeqOf
<1>2. m \in Nat /\ Keep \in Nat
  BY DEF BoundsAssumption
<1>3. ss \in Seq(BOOLEAN) /\ Len(ss) = m
  BY <1>1, <1>2
<1> DEFINE more == Append(ss, up)
<1>4. /\ more \in Seq(BOOLEAN) /\ Len(more) = m + 1 /\ more # <<>>
      /\ Tail(more) \in Seq(BOOLEAN) /\ Len(Tail(more)) = m
  BY <1>3, <1>2, AppendProperties, HeadTailProperties
<1> HIDE DEF more
<1>5. \A n \in 0..Keep, s \in Seq(BOOLEAN) : Len(s) = n => s \in Monitor!BoundedSeq(BOOLEAN, Keep)
  <2> TAKE n \in 0..Keep, s \in Seq(BOOLEAN)
  <2>1. s \in [1..Len(s) -> BOOLEAN]
    OBVIOUS
  <2> QED BY <2>1 DEF Monitor!BoundedSeq, Monitor!SeqOf
<1>6. CASE m + 1 > Keep
  BY <1>4, <1>5, <1>6 DEF more
<1>7. CASE ~(m + 1 > Keep)
  <2>1. m + 1 \in 0..Keep
    BY <1>2, <1>7
  <2> QED BY <1>4, <1>5, <1>7, <2>1 DEF more
<1> QED BY <1>6, <1>7


LEMMA SnapsStored ==
    ASSUME BoundsAssumption, NEW s \in Servers, NEW up \in BOOLEAN,
           \A t \in Servers : snaps[t] \in Monitor!BoundedSeq(BOOLEAN, Keep),
           snaps' = Monitor!Stored(s, up)
    PROVE  \A t \in Servers : snaps'[t] \in Monitor!BoundedSeq(BOOLEAN, Keep)
<1> TAKE t \in Servers
<1> DEFINE more == Append(snaps[s], up)
           cut == IF Len(more) > Keep THEN Tail(more) ELSE more
<1>1. cut \in Monitor!BoundedSeq(BOOLEAN, Keep)
  BY SnapsCut
<1>2. snaps' = [snaps EXCEPT ![s] = cut]
  BY DEF Monitor!Stored
<1> HIDE DEF cut
<1>3. snaps'[t] = cut \/ snaps'[t] = snaps[t]
  BY <1>2
<1> QED BY <1>1, <1>3

LEMMA MonitorTypes ==
    ASSUME BoundsAssumption, AnnouncementsAssumption, Monitor!TypeOK, [Monitor!Next]_monitor
    PROVE  Monitor!TypeOK'
<1> USE DEF Monitor!TypeOK, Monitor!Maybe
<1>0. Threshold \in Nat /\ Unset \notin 0..Threshold /\ 1 \in Servers /\ MaxStarts \in Nat
  BY DEF BoundsAssumption, AnnouncementsAssumption
<1>1. CASE UNCHANGED monitor
  BY <1>1 DEF monitor
<1>2. CASE Monitor!Wake
  <2>1. \A s \in Servers : /\ since'[s] \in 0..Threshold \cup {Unset}
                           /\ since[s] = Threshold => since'[s] = Threshold
    BY <1>0, <1>2 DEF Monitor!Wake
  <2>2. since' \in [Servers -> 0..Threshold \cup {Unset}]
    BY <1>2, <2>1 DEF Monitor!Wake
  <2> QED BY <1>0, <1>2, <2>1, <2>2 DEF Monitor!Wake, Monitor!Nothing
<1>3. CASE Monitor!Ask
  BY <1>3 DEF Monitor!Ask, Monitor!memory
<1>4. CASE Monitor!CycleFails
  <2>1. next \in Servers /\ UNCHANGED <<online, starts, cache, prev, since, alerted, pushed>>
        /\ next' = Unset /\ answer' = Unset
    BY <1>4 DEF Monitor!CycleFails, Monitor!memory
  <2>2. \A s \in Servers : snaps'[s] \in Monitor!BoundedSeq(BOOLEAN, Keep)
    BY <1>4, <2>1, SnapsStored DEF Monitor!CycleFails
  <2> QED BY <2>1, <2>2
<1>5. CASE Monitor!Restart
  BY <1>0, <1>5 DEF Monitor!Restart, Monitor!Nothing
<1>6. ASSUME NEW s \in Servers, Monitor!Save(s) PROVE Monitor!TypeOK'
  <2>1. answer \in BOOLEAN
    BY <1>6 DEF Monitor!Save
  <2>2. \A t \in Servers : snaps'[t] \in Monitor!BoundedSeq(BOOLEAN, Keep)
    BY <1>6, <2>1, SnapsStored DEF Monitor!Save
  <2>3. /\ cache' \in [Servers -> BOOLEAN \cup {Unset}]
        /\ next' \in Servers \cup {Unset} /\ answer' = Unset
        /\ UNCHANGED <<online, starts>>
    BY <1>6, <2>1 DEF Monitor!Save, Monitor!Following
  <2>4. /\ Monitor!FirstSeen(s) \in 0..Threshold
        /\ since[s] = Threshold => Monitor!FirstSeen(s) = Threshold
    BY <1>0 DEF Monitor!FirstSeen
  <2>5. /\ prev' \in [Servers -> BOOLEAN \cup {Unset}]
        /\ since' \in [Servers -> 0..Threshold \cup {Unset}]
        /\ pushed' \in [Servers -> {"back", "down", Unset}]
        /\ alerted' \subseteq {t \in Servers : since'[t] = Threshold}
    <3>1. Monitor!Observed(s, answer)
      BY <1>6 DEF Monitor!Save
    <3>2. CASE answer
      BY <2>1, <3>1, <3>2 DEF Monitor!Observed
    <3>3. CASE ~answer
      <4>1. Monitor!TooLong(s) => Monitor!FirstSeen(s) = Threshold
        BY <1>0, <2>4 DEF Monitor!TooLong
      <4> QED BY <2>1, <2>4, <3>1, <3>3, <4>1 DEF Monitor!Observed
    <3> QED BY <2>1, <3>2, <3>3
  <2> QED BY <2>2, <2>3, <2>5
<1>7. ASSUME NEW s \in Servers, Monitor!Visit(s) PROVE Monitor!TypeOK'
  <2>1. /\ cache' = [cache EXCEPT ![s] = online[s]] /\ online[s] \in BOOLEAN
        /\ UNCHANGED <<online, next, answer, starts, prev, since, alerted, pushed>>
    BY <1>7 DEF Monitor!Visit, Monitor!memory
  <2>2. \A t \in Servers : snaps'[t] \in Monitor!BoundedSeq(BOOLEAN, Keep)
    BY <1>7, <2>1, SnapsStored DEF Monitor!Visit
  <2> QED BY <2>1, <2>2
<1>8. ASSUME NEW s \in Servers, Monitor!Flip(s) PROVE Monitor!TypeOK'
  BY <1>8 DEF Monitor!Flip, Monitor!memory
<1> QED BY <1>1, <1>2, <1>3, <1>4, <1>5, <1>6, <1>7, <1>8 DEF Monitor!Next

\* A task that is under way has read ids.
TaskOK(w) == w = Publishing!Asleep \/ (w.stage = "read" /\ w.found \subseteq Ids)

PublishingTypes == Publishing!TypeOK /\ task = [t \in Tasks |-> task[t]]

LEMMA PublishingTypesStep ==
    ASSUME BoundsAssumption, PublishingTypes, [Publishing!Next]_publishing
    PROVE  PublishingTypes'
<1> USE DEF PublishingTypes, Publishing!TypeOK, TaskOK, Publishing!Rows, Publishing!NoCutoff,
        Publishing!digests, Publishing!posts
<1>0. MaxEdits \in Nat
  BY DEF BoundsAssumption
<1>01. \A p \in Publishing!Post : p.created \in 1..MaxEdits
  BY DEF Publishing!Post
<1>1. CASE UNCHANGED publishing
  BY <1>0, <1>1 DEF publishing
<1>2. ASSUME NEW t \in Tasks, NEW w, task' = [task EXCEPT ![t] = w], TaskOK(w)
      PROVE  task' = [q \in Tasks |-> task'[q]] /\ \A q \in Tasks : TaskOK(task'[q])
  BY <1>0, <1>2
<1>3. ASSUME NEW t \in Tasks, Publishing!Read(t) PROVE PublishingTypes'
  <2> DEFINE found == {i \in Publishing!Rows : /\ ~news[i].published
                                               /\ Publishing!Due(news[i])
                                               /\ t = NoTemplates => ~news[i].template}
             w == IF found = {} THEN Publishing!Asleep ELSE [stage |-> "read", found |-> found]
  <2>1. TaskOK(w)
    BY DEF TaskOK
  <2>2. /\ task' = [task EXCEPT ![t] = w]
        /\ UNCHANGED <<news, edits, cutoff, digest, mailed, twice, early, crossed>>
    BY <1>3 DEF Publishing!Read
  <2> HIDE DEF w
  <2> QED BY <1>0, <1>2, <2>1, <2>2
<1>4. ASSUME NEW t \in Tasks, Publishing!CycleFails(t) PROVE PublishingTypes'
  <2>1. /\ task' = [task EXCEPT ![t] = Publishing!Asleep]
        /\ UNCHANGED <<news, edits, cutoff, digest, mailed, twice, early, crossed>>
    BY <1>4 DEF Publishing!CycleFails, Publishing!AfterCycle
  <2>2. TaskOK(Publishing!Asleep)
    BY DEF TaskOK
  <2> QED BY <1>0, <1>2, <2>1, <2>2
<1>5. ASSUME NEW t \in Tasks, Publishing!Publish(t) PROVE PublishingTypes'
  <2>1. /\ task' = [task EXCEPT ![t] = Publishing!Asleep]
        /\ UNCHANGED <<edits, cutoff, digest, mailed, twice, early, crossed>>
    BY <1>5 DEF Publishing!Publish, Publishing!AfterCycle
  <2>2. TaskOK(Publishing!Asleep)
    BY DEF TaskOK
  <2>3. \A p \in Publishing!Post :
            [p EXCEPT !.published = TRUE, !.at = Unset] \in Publishing!Post
    BY DEF Publishing!Post
  <2>4. news' \in [Ids -> Publishing!Post \cup {NoRow}]
    BY <1>0, <1>5, <2>3 DEF Publishing!Publish, Publishing!Commits
  <2> QED BY <1>0, <1>2, <2>1, <2>2, <2>4
<1>6. ASSUME NEW published \in BOOLEAN, NEW template \in BOOLEAN, NEW at \in {"later", Unset},
             Publishing!Create(published, at, template)
      PROVE  PublishingTypes'
  <2> DEFINE shown == published /\ at = Unset
             new == [published |-> shown, at |-> at, template |-> template, created |-> edits + 1]
  <2>1. PICK i \in Ids :
            /\ edits < MaxEdits /\ edits' = edits + 1
            /\ news' = [news EXCEPT ![i] = new]
            /\ UNCHANGED <<task, cutoff, digest, mailed, twice, early, crossed>>
    BY <1>6 DEF Publishing!Create, Publishing!Edit
  <2>2. new \in Publishing!Post
    BY <1>0, <2>1 DEF Publishing!Post
  <2> HIDE DEF new, shown
  <2>3. news' \in [Ids -> Publishing!Post \cup {NoRow}]
    BY <1>0, <2>1, <2>2
  <2> QED BY <1>0, <2>1, <2>3
<1>7. ASSUME NEW i \in Ids, NEW published \in BOOLEAN, NEW at \in {"later", "kept", Unset},
             Publishing!Update(i, published, at)
      PROVE  PublishingTypes'
  <2> DEFINE shown == published /\ at # "later"
             to == IF at = "kept" THEN news[i].at ELSE at
             new == [news[i] EXCEPT !.published = shown, !.at = to]
  <2>1. /\ edits < MaxEdits /\ edits' = edits + 1 /\ news[i] # NoRow
        /\ news' = [news EXCEPT ![i] = new]
        /\ UNCHANGED <<task, cutoff, digest, mailed, twice, early, crossed>>
    BY <1>7 DEF Publishing!Update, Publishing!Edit
  <2>2. news[i] \in Publishing!Post /\ shown \in BOOLEAN
    BY <1>0, <2>1
  <2>3. to \in {"due", "later", Unset}
    BY <2>2 DEF Publishing!Post
  <2> HIDE DEF to, shown
  <2>4. new \in Publishing!Post
    BY <2>2, <2>3 DEF Publishing!Post
  <2> HIDE DEF new
  <2>5. news' \in [Ids -> Publishing!Post \cup {NoRow}]
    BY <1>0, <2>1, <2>4
  <2> QED BY <1>0, <2>1, <2>5
<1>8. ASSUME NEW i \in Ids, Publishing!Delete(i) PROVE PublishingTypes'
  BY <1>0, <1>8 DEF Publishing!Delete, Publishing!Edit
<1>9. ASSUME NEW i \in Ids, Publishing!Moment(i) PROVE PublishingTypes'
  <2> DEFINE new == [news[i] EXCEPT !.at = "due"]
  <2>1. /\ news[i] \in Publishing!Post /\ news' = [news EXCEPT ![i] = new]
        /\ UNCHANGED <<task, edits, cutoff, digest, mailed, twice, early, crossed>>
    BY <1>0, <1>9 DEF Publishing!Moment
  <2>2. new \in Publishing!Post
    BY <2>1 DEF Publishing!Post
  <2> HIDE DEF new
  <2> QED BY <1>0, <2>1, <2>2
<1>10. ASSUME NEW d \in Senders, Publishing!DigestStart(d) PROVE PublishingTypes'
  <2> DEFINE w == [stage |-> "started", now |-> edits, since |-> cutoff, items |-> {}]
             both == crossed \/ \E q \in Senders : digest[q] # Publishing!Asleep
  <2>1. /\ digest' = [digest EXCEPT ![d] = w] /\ crossed' = both
        /\ UNCHANGED <<news, task, edits, cutoff, mailed, twice, early>>
    BY <1>10, Zenon DEF Publishing!DigestStart, Publishing!posts
  <2>2. w \in Publishing!Work
    BY <1>0 DEF Publishing!Work
  <2>3. both \in BOOLEAN
    OBVIOUS
  <2> HIDE DEF w, both
  <2> QED BY <2>1, <2>2, <2>3
<1>11. ASSUME NEW d \in Senders, Publishing!DigestRead(d) PROVE PublishingTypes'
  <2> DEFINE found == {i \in Publishing!After(digest[d].since) :
                           news[i].published /\ ~news[i].template}
             items == {news[i].created : i \in found}
             w == [digest[d] EXCEPT !.stage = "read", !.items = items]
  <2>1. /\ digest[d] # Publishing!Asleep
        /\ digest' = [digest EXCEPT ![d] = w]
        /\ UNCHANGED <<news, task, edits, cutoff, mailed, twice, early, crossed>>
    BY <1>11 DEF Publishing!DigestRead
  <2>2. digest[d] \in Publishing!Work
    BY <2>1
  <2>3. items \subseteq 1..MaxEdits
    <3>1. \A i \in found : news[i] \in Publishing!Post
      BY DEF Publishing!After
    <3> QED BY <1>01, <3>1, Zenon
  <2> HIDE DEF items
  <2>4. w \in Publishing!Work
    BY <2>2, <2>3 DEF Publishing!Work
  <2> HIDE DEF w
  <2> QED BY <2>1, <2>4
<1>12. ASSUME NEW d \in Senders, Publishing!DigestSend(d) PROVE PublishingTypes'
  <2>1. PICK w : w = digest[d]
    OBVIOUS
  <2>2. /\ w # Publishing!Asleep /\ cutoff' = w.now
        /\ \/ /\ mailed' = mailed \cup w.items
              /\ twice' = twice \cup (w.items \cap mailed)
              /\ early' = early \cup {p \in w.items : p > w.now}
           \/ UNCHANGED <<mailed, twice, early>>
        /\ digest' = [digest EXCEPT ![d] = Publishing!Asleep]
        /\ UNCHANGED <<news, task, edits, crossed>>
    BY <1>12, <2>1 DEF Publishing!DigestSend
  <2>3. w \in Publishing!Work
    BY <2>1, <2>2
  <2>4. w.now \in 0..MaxEdits /\ w.items \subseteq 1..MaxEdits
    BY <2>3 DEF Publishing!Work
  <2>5. cutoff' \in -1..MaxEdits
    BY <1>0, <2>2, <2>4
  <2>6. mailed' \subseteq 1..MaxEdits /\ twice' \subseteq mailed' /\ early' \subseteq mailed'
    BY <2>2, <2>4
  <2>7. digest' \in [Senders -> Publishing!Work \cup {Publishing!Asleep}]
    BY <2>2
  <2> QED BY <2>2, <2>5, <2>6, <2>7
<1>13. ASSUME NEW d \in Senders, Publishing!DigestFails(d) PROVE PublishingTypes'
  BY <1>13 DEF Publishing!DigestFails
<1> QED BY <1>1, <1>3, <1>4, <1>5, <1>6, <1>7, <1>8, <1>9, <1>10, <1>11, <1>12, <1>13
        DEF Publishing!Next

(***************************************************************************)
(* The digests of Publishing.                                              *)
(***************************************************************************)

\* As long as no digests cross: one is at work, it goes by the cutoff there is, and what
\* was mailed is behind the cutoff, unless it was written while its digest was at work.
MailInv ==
    \/ crossed
    \/ /\ \A d, q \in Senders :
              d = q \/ digest[d] = Publishing!Asleep \/ digest[q] = Publishing!Asleep
       /\ \A d \in Senders :
              digest[d] # Publishing!Asleep =>
                  /\ digest[d].since = cutoff
                  /\ cutoff <= digest[d].now /\ digest[d].now <= edits
                  /\ \A p \in digest[d].items : p > digest[d].since
       /\ cutoff <= edits
       /\ \A p \in mailed : p <= cutoff \/ p \in early
       /\ twice \subseteq early

LEMMA MailStep ==
    ASSUME BoundsAssumption, PublishingTypes, MailInv, [Publishing!Next]_publishing
    PROVE  MailInv'
<1> USE DEF Publishing!digests, Publishing!posts
<1>0. /\ MaxEdits \in Nat /\ edits \in 0..MaxEdits /\ cutoff \in -1..MaxEdits
      /\ news \in [Ids -> Publishing!Post \cup {NoRow}]
      /\ digest \in [Senders -> Publishing!Work \cup {Publishing!Asleep}]
      /\ mailed \subseteq 1..MaxEdits
  BY DEF BoundsAssumption, PublishingTypes, Publishing!TypeOK, Publishing!NoCutoff
<1>1. \A d \in Senders : digest[d] # Publishing!Asleep =>
          /\ digest[d].now \in 0..MaxEdits /\ digest[d].since \in -1..MaxEdits
          /\ digest[d].items \subseteq 1..MaxEdits
  BY <1>0 DEF Publishing!Work, Publishing!NoCutoff
<1>2. CASE UNCHANGED publishing
  BY <1>2 DEF publishing, MailInv
<1>3. ASSUME UNCHANGED <<cutoff, digest, mailed, twice, early, crossed>>,
             edits' = edits \/ edits' = edits + 1
      PROVE  MailInv'
  BY <1>0, <1>1, <1>3 DEF MailInv
<1>4. ASSUME NEW d \in Senders, Publishing!DigestStart(d) PROVE MailInv'
  <2> DEFINE w == [stage |-> "started", now |-> edits, since |-> cutoff, items |-> {}]
  <2>1. /\ digest' = [digest EXCEPT ![d] = w]
        /\ crossed' = (crossed \/ \E q \in Senders : digest[q] # Publishing!Asleep)
        /\ UNCHANGED <<edits, cutoff, mailed, twice, early>>
    BY <1>4, Zenon DEF Publishing!DigestStart
  <2>2. w.now = edits /\ w.since = cutoff /\ w.items = {}
    OBVIOUS
  <2> HIDE DEF w
  <2>3. CASE crossed'
    BY <2>3 DEF MailInv
  <2>4. CASE ~crossed'
    <3>1. ~crossed /\ \A q \in Senders : digest[q] = Publishing!Asleep
      BY <2>1, <2>4
    <3>2. digest'[d] = w /\ \A q \in Senders : q # d => digest'[q] = Publishing!Asleep
      BY <1>0, <2>1, <3>1
    <3>3. cutoff <= edits /\ (\A p \in mailed : p <= cutoff \/ p \in early) /\ twice \subseteq early
      BY <3>1 DEF MailInv
    <3> QED BY <1>0, <2>1, <2>2, <3>2, <3>3 DEF MailInv
  <2> QED BY <2>3, <2>4
<1>5. ASSUME NEW d \in Senders, Publishing!DigestRead(d) PROVE MailInv'
  <2> DEFINE found == {i \in Publishing!After(digest[d].since) :
                           news[i].published /\ ~news[i].template}
             items == {news[i].created : i \in found}
             w == [digest[d] EXCEPT !.stage = "read", !.items = items]
  <2>1. /\ digest[d] # Publishing!Asleep
        /\ digest' = [digest EXCEPT ![d] = w]
        /\ UNCHANGED <<edits, cutoff, mailed, twice, early, crossed>>
    BY <1>5 DEF Publishing!DigestRead
  <2>2. \A p \in items : p > digest[d].since
    BY DEF Publishing!After
  <2> HIDE DEF items
  <2>3. w.now = digest[d].now /\ w.since = digest[d].since /\ w.items = items
    <3>1. digest[d] \in Publishing!Work
      BY <1>0, <2>1
    <3> QED BY <3>1 DEF Publishing!Work
  <2> HIDE DEF w
  <2>4. digest'[d] = w /\ \A q \in Senders : q # d => digest'[q] = digest[q]
    BY <1>0, <2>1
  <2>5. CASE crossed
    BY <2>1, <2>5 DEF MailInv
  <2>6. CASE ~crossed
    <3>1. /\ \A q, r \in Senders :
                q = r \/ digest'[q] = Publishing!Asleep \/ digest'[r] = Publishing!Asleep
      BY <2>1, <2>4, <2>6 DEF MailInv
    <3>2. \A q \in Senders : digest'[q] # Publishing!Asleep =>
              /\ digest'[q].since = cutoff
              /\ cutoff <= digest'[q].now /\ digest'[q].now <= edits
              /\ \A p \in digest'[q].items : p > digest'[q].since
      BY <2>1, <2>2, <2>3, <2>4, <2>6 DEF MailInv
    <3> QED BY <2>1, <2>6, <3>1, <3>2 DEF MailInv
  <2> QED BY <2>5, <2>6
<1>6. ASSUME NEW d \in Senders, Publishing!DigestSend(d) PROVE MailInv'
  <2>1. PICK w : w = digest[d]
    OBVIOUS
  <2>2. /\ w # Publishing!Asleep /\ cutoff' = w.now
        /\ \/ /\ mailed' = mailed \cup w.items
              /\ twice' = twice \cup (w.items \cap mailed)
              /\ early' = early \cup {p \in w.items : p > w.now}
           \/ UNCHANGED <<mailed, twice, early>>
        /\ digest' = [digest EXCEPT ![d] = Publishing!Asleep]
        /\ UNCHANGED <<edits, crossed>>
    BY <1>6, <2>1 DEF Publishing!DigestSend
  <2>3. CASE crossed
    BY <2>2, <2>3 DEF MailInv
  <2>4. CASE ~crossed
    <3>1. /\ w.since = cutoff /\ cutoff <= w.now /\ w.now <= edits
          /\ \A p \in w.items : p > w.since
          /\ \A p \in mailed : p <= cutoff \/ p \in early
          /\ twice \subseteq early
      BY <2>1, <2>2, <2>4 DEF MailInv
    <3>2. w.now \in Int /\ w.items \subseteq Int
      BY <1>1, <2>1, <2>2
    <3>3. \A p \in w.items \cap mailed : p \in early
      BY <1>0, <3>1, <3>2
    <3>4. twice' \subseteq early'
      BY <2>2, <3>1, <3>3
    <3>5. \A p \in mailed' : p <= cutoff' \/ p \in early'
      <4>1. \A p \in mailed : p <= w.now \/ p \in early
        <5>1. \A p \in mailed : p \in Int
          BY <1>0
        <5>2. cutoff \in Int /\ cutoff <= w.now
          BY <1>0, <3>1
        <5>3. \A p \in mailed : p <= cutoff => p <= w.now
          BY <3>2, <5>1, <5>2
        <5> QED BY <3>1, <5>3, Zenon
      <4>2. \A p \in w.items : p <= w.now \/ p > w.now
        BY <3>2
      <4> QED BY <2>2, <4>1, <4>2, Zenon
    <3>6. \A q \in Senders : digest'[q] = Publishing!Asleep
      BY <1>0, <2>1, <2>2, <2>4 DEF MailInv
    <3> QED BY <2>2, <3>1, <3>4, <3>5, <3>6 DEF MailInv
  <2> QED BY <2>3, <2>4
<1>7. ASSUME NEW d \in Senders, Publishing!DigestFails(d) PROVE MailInv'
  <2>1. /\ digest' = [digest EXCEPT ![d] = Publishing!Asleep]
        /\ UNCHANGED <<edits, cutoff, mailed, twice, early, crossed>>
    BY <1>7 DEF Publishing!DigestFails
  <2>2. \A q \in Senders : digest'[q] # Publishing!Asleep => digest'[q] = digest[q]
    BY <1>0, <2>1
  <2> QED BY <2>1, <2>2 DEF MailInv
<1>8. CASE Publishing!Next
  BY <1>3, <1>4, <1>5, <1>6, <1>7, <1>8 DEF Publishing!Next, Publishing!Read, Publishing!Publish,
     Publishing!CycleFails, Publishing!Create, Publishing!Update, Publishing!Delete,
     Publishing!Moment, Publishing!Edit
<1> QED BY <1>2, <1>8

LEMMA PublishingInit ==
    ASSUME BoundsAssumption, SiteInit
    PROVE  PublishingTypes /\ MailInv
<1>1. PublishingTypes
  <2>1. /\ news = [i \in Ids |-> NoRow]
        /\ task = [t \in Tasks |-> Publishing!Asleep]
        /\ digest = [d \in Senders |-> Publishing!Asleep]
        /\ edits = 0 /\ cutoff = -1 /\ mailed = {} /\ twice = {} /\ early = {}
        /\ crossed = FALSE
    BY DEF SiteInit, Publishing!Init, Publishing!NoCutoff
  <2>2. edits \in 0..MaxEdits /\ cutoff \in -1..MaxEdits
    BY <2>1 DEF BoundsAssumption
  <2>3. /\ news \in [Ids -> Publishing!Post \cup {NoRow}]
        /\ digest \in [Senders -> Publishing!Work \cup {Publishing!Asleep}]
        /\ \A t \in Tasks : task[t] = Publishing!Asleep
        /\ task = [t \in Tasks |-> task[t]]
    BY <2>1
  <2> QED BY <2>1, <2>2, <2>3 DEF Publishing!TypeOK, PublishingTypes, Publishing!NoCutoff
<1>2. MailInv
  BY DEF SiteInit, Publishing!Init, MailInv, Publishing!NoCutoff
<1> QED BY <1>1, <1>2

\* No post is mailed by two digests that have not crossed, with any number of senders,
\* tasks and posts.
THEOREM DigestsMailOnce ==
    ASSUME BoundsAssumption
    PROVE  SiteSpec => []MailedOnce
<1>1. SiteInit => PublishingTypes /\ MailInv
  BY PublishingInit
<1>2. PublishingTypes /\ MailInv /\ [SiteNext]_all => PublishingTypes' /\ MailInv'
  <2>1. [SiteNext]_all => [Publishing!Next]_publishing
    BY DEF SiteNext, all, StreaksStep, RestartsStep, MonitorStep, PublishingStep, EventsStep,
           StreamsStep, AnnouncementsStep
  <2> QED BY <2>1, PublishingTypesStep, MailStep
<1>3. MailInv => MailedOnce
  BY DEF MailInv, MailedOnce, Publishing!MailedOnce
<1> QED BY <1>1, <1>2, <1>3, PTL DEF SiteSpec

EventTypes ==
    /\ EventType
    /\ joining \subseteq Users /\ planned \in 0..MaxPlans
    /\ finding \in {"as it is", "as it was", Unset}
    /\ reminded \in BOOLEAN /\ told \in BOOLEAN /\ spent \in BOOLEAN /\ blind \in BOOLEAN

LEMMA EventTypesStep ==
    ASSUME BoundsAssumption, EventsAssumption, EventInv, EventTypes, [SiteNext]_all
    PROVE  EventTypes'
<1> USE DEF Events!row, Events!reminder
<1>1. EventType'
  BY EventStep DEF EventInv
<1>2. MaxPlans \in Nat
  BY DEF BoundsAssumption
<1>3. CASE Events!Next
  <2>1. \/ planned' = planned
        \/ planned < MaxPlans /\ planned' = planned + 1
    BY <1>3
    DEF Events!Next, Events!Create, Events!Update, Events!Delete, Events!JoinRead,
        Events!JoinWrite, Events!Leave, Events!ScheduleRead, Events!ScheduleWrite,
        Events!RemindRead, Events!Remind, Events!RemindFails, Events!Restart, Events!Tick,
        Events!Edit
  <2>2. joining' \subseteq Users
    BY <1>3
    DEF EventTypes, Events!Next, Events!Create, Events!Update, Events!Delete, Events!JoinRead,
        Events!JoinWrite, Events!Leave, Events!ScheduleRead, Events!ScheduleWrite,
        Events!RemindRead, Events!Remind, Events!RemindFails, Events!Restart, Events!Tick
  <2>3. /\ reminded' \in BOOLEAN /\ told' \in BOOLEAN /\ spent' \in BOOLEAN
        /\ blind' \in BOOLEAN /\ finding' \in {"as it is", "as it was", Unset}
    BY <1>3
    DEF EventTypes, Events!Next, Events!Create, Events!Update, Events!Delete, Events!JoinRead,
        Events!JoinWrite, Events!Leave, Events!ScheduleRead, Events!ScheduleWrite,
        Events!RemindRead, Events!Remind, Events!RemindFails, Events!Restart, Events!Tick,
        Events!NewStart
  <2>4. planned' \in 0..MaxPlans
    <3>1. planned \in 0..MaxPlans
      BY Zenon DEF EventTypes
    <3> QED BY <1>2, <2>1, <3>1
  <2> QED BY <1>1, <2>2, <2>3, <2>4, Zenon DEF EventTypes
<1>4. CASE UNCHANGED events
  BY <1>1, <1>4 DEF events, EventTypes
<1> QED BY <1>3, <1>4 DEF SiteNext, all, StreaksStep, RestartsStep, MonitorStep,
           PublishingStep, EventsStep, StreamsStep, AnnouncementsStep

AnnouncementTypes ==
    AnnouncementType /\ asked \in BOOLEAN /\ written \in 0..MaxWrites

LEMMA AnnouncementTypesStep ==
    ASSUME BoundsAssumption, AnnouncementsAssumption, AnnouncementInv, AnnouncementTypes,
           [SiteNext]_all
    PROVE  AnnouncementTypes'
<1>1. AnnouncementType'
  BY AnnouncementStep DEF AnnouncementInv
<1>2. MaxWrites \in Nat
  BY DEF BoundsAssumption
<1>3. CASE Announcements!Next
  <2>1. \/ written' = written
        \/ written < MaxWrites /\ written' = written + 1
    BY <1>3
    DEF Announcements!Next, Announcements!Create, Announcements!Update, Announcements!Delete,
        Announcements!SendNow, Announcements!PollRead, Announcements!PollStamp,
        Announcements!PollFails, Announcements!Tick, Announcements!Write
  <2>2. asked' \in BOOLEAN
    BY <1>3, Zenon
    DEF AnnouncementTypes, Announcements!Next, Announcements!Create, Announcements!Update,
        Announcements!Delete, Announcements!SendNow, Announcements!PollRead, Announcements!PollStamp,
        Announcements!PollFails, Announcements!Tick
  <2>3. written' \in 0..MaxWrites
    BY <1>2, <2>1 DEF AnnouncementTypes
  <2> QED BY <1>1, <2>2, <2>3, Zenon DEF AnnouncementTypes
<1>4. CASE UNCHANGED announcements
  BY <1>1, <1>4 DEF announcements, AnnouncementTypes
<1> QED BY <1>3, <1>4 DEF SiteNext, all, StreaksStep, RestartsStep, MonitorStep,
           PublishingStep, EventsStep, StreamsStep, AnnouncementsStep

\* Who got a bonus connected, so one bonus is not more than there are connections.
StreakTypes ==
    /\ shifts \in 0..MaxShifts /\ linked \in BOOLEAN
    /\ \A d \in Days : bonuses[d] > 0 => Connects # {}

LEMMA StreakTypesStep ==
    ASSUME BoundsAssumption, StreaksAssumption, StreakInv, StreakTypes, [Next]_vars
    PROVE  StreakTypes'
<1> USE DEF StreakTypes
<1>1. MaxShifts \in Nat
  BY DEF BoundsAssumption
<1>2. CASE UNCHANGED vars
  BY <1>2 DEF vars
<1>3. ASSUME NEW r \in Connects, Connect(r) \/ Record(r) \/ Count(r) \/ Award(r) \/ Lost(r)
      PROVE  StreakTypes'
  <2>1. UNCHANGED <<shifts, linked>>
    BY <1>3 DEF Connect, Record, Count, Award, Lost
  <2> QED BY <1>3, <2>1
<1>4. CASE Midnight \/ ShiftTimezone \/ Link
  <2>1. shifts' \in 0..MaxShifts /\ bonuses' = bonuses
    BY <1>1, <1>4 DEF Midnight, ShiftTimezone, Link
  <2>2. linked' \in BOOLEAN
    BY <1>4, Zenon DEF Midnight, ShiftTimezone, Link
  <2> QED BY <2>1, <2>2
<1> QED BY <1>2, <1>3, <1>4 DEF Next

LEMMA StreakTypesHold ==
    ASSUME BoundsAssumption, StreaksAssumption, StreakInv, StreakTypes
    PROVE  TypeOK
<1>1. IsFiniteSet(Connects)
  BY DEF BoundsAssumption
<1>2. Connects # {} => Cardinality(Connects) \in Nat \ {0}
  BY <1>1, FS_EmptySet, FS_CardinalityType
<1>3. Cardinality(Connects) \in Nat
  BY <1>1, FS_CardinalityType
<1>4. \A d \in Days : bonuses[d] \in 0..Cardinality(Connects)
  <2> TAKE d \in Days
  <2>1. bonuses[d] = 0 \/ bonuses[d] = 1
    BY DEF StreakInv, Paid
  <2>2. bonuses[d] = 1 => Cardinality(Connects) \in Nat \ {0}
    BY <1>2 DEF StreakTypes
  <2> QED BY <1>3, <2>1, <2>2
<1>5. bonuses \in [Days -> 0..Cardinality(Connects)]
  BY <1>4 DEF StreakInv, StreakType
<1> QED BY <1>5 DEF StreakInv, StreakType, StreakTypes, TypeOK

\* A queue holds Size items at most, and no number goes beyond what was sent.
InQueue(q) == Len(q) <= Size /\ \A k \in DOMAIN q : q[k] \in 1..MaxItems

StreamBounds ==
    /\ \A c \in Clients : InQueue(queue[c]) /\ seen[c] <= MaxItems
    /\ \A ch \in Channels : sent[ch] <= MaxItems

LEMMA QueueBounds ==
    ASSUME BoundsAssumption, NEW q \in Seq(Nat), InQueue(q)
    PROVE  /\ q \in Streams!BoundedSeq(1..MaxItems, Size)
           /\ q # <<>> => InQueue(Tail(q)) /\ Head(q) \in 1..MaxItems
           /\ Len(q) # Size => \A i \in 1..MaxItems : InQueue(Append(q, i))
<1>1. /\ Size \in Nat /\ Len(q) \in Nat /\ Len(q) <= Size /\ Len(q) \in 0..Size
      /\ DOMAIN q = 1..Len(q)
  BY DEF BoundsAssumption, InQueue
<1>2. q \in [1..Len(q) -> 1..MaxItems]
  BY <1>1 DEF InQueue
<1>3. q \in Streams!BoundedSeq(1..MaxItems, Size)
  BY <1>1, <1>2 DEF Streams!BoundedSeq, Streams!SeqOf
<1>4. ASSUME q # <<>> PROVE InQueue(Tail(q)) /\ Head(q) \in 1..MaxItems
  <2>1. /\ Head(q) = q[1] /\ Len(q) > 0 /\ Tail(q) \in Seq(Nat)
        /\ Len(Tail(q)) = Len(q) - 1 /\ DOMAIN Tail(q) = 1..(Len(q) - 1)
        /\ \A k \in 1..(Len(q) - 1) : Tail(q)[k] = q[k + 1]
    BY <1>1, <1>4, EmptySeq, HeadTailProperties
  <2>2. \A k \in 1..(Len(q) - 1) : k + 1 \in DOMAIN q
    BY <1>1
  <2> QED BY <1>1, <2>1, <2>2 DEF InQueue
<1>5. ASSUME Len(q) # Size, NEW i \in 1..MaxItems PROVE InQueue(Append(q, i))
  <2>1. i \in Nat
    BY DEF BoundsAssumption
  <2>2. /\ Len(Append(q, i)) = Len(q) + 1 /\ DOMAIN Append(q, i) = 1..(Len(q) + 1)
        /\ \A k \in 1..Len(q) : Append(q, i)[k] = q[k]
        /\ Append(q, i)[Len(q) + 1] = i
    BY <1>1, <2>1, AppendProperties
  <2>3. \A k \in 1..(Len(q) + 1) : k \in DOMAIN q \/ k = Len(q) + 1
    BY <1>1
  <2>4. \A k \in DOMAIN Append(q, i) : Append(q, i)[k] \in 1..MaxItems
    BY <1>1, <2>2, <2>3 DEF InQueue
  <2>5. Len(q) + 1 <= Size
    <3>1. \A n, m \in Nat : n <= m /\ n # m => n + 1 <= m
      OBVIOUS
    <3> QED BY <1>1, <1>5, <3>1, Zenon
  <2> QED BY <2>2, <2>4, <2>5 DEF InQueue
<1> QED BY <1>3, <1>4, <1>5

LEMMA StreamBoundsStep ==
    ASSUME BoundsAssumption, Stream, StreamBounds, [Streams!Next]_streams
    PROVE  StreamBounds'
<1> USE DEF StreamBounds
<1>0. InQueue(<<>>) /\ \A c \in Clients : queue[c] \in Seq(Nat)
  BY EmptySeq DEF InQueue, BoundsAssumption, Stream
<1>1. CASE UNCHANGED streams
  BY <1>1 DEF streams
<1>2. ASSUME NEW c \in Clients, NEW ch \in Channels, Streams!Connect(c, ch)
      PROVE  StreamBounds'
  <2>1. UNCHANGED sent /\ \A d \in Clients : /\ queue'[d] = <<>> \/ queue'[d] = queue[d]
                                             /\ seen'[d] = sent[ch] \/ seen'[d] = seen[d]
    BY <1>2 DEF Streams!Connect, Stream
  <2> QED BY <1>0, <2>1
<1>3. ASSUME NEW c \in Clients, Streams!Disconnect(c)
      PROVE  StreamBounds'
  <2>1. UNCHANGED <<seen, sent>> /\ \A d \in Clients : queue'[d] = <<>> \/ queue'[d] = queue[d]
    BY <1>3 DEF Streams!Disconnect, Stream
  <2> QED BY <1>0, <2>1
<1>4. ASSUME NEW c \in Clients, Streams!Send(c)
      PROVE  StreamBounds'
  <2>1. /\ UNCHANGED sent /\ queue[c] # <<>>
        /\ queue'[c] = Tail(queue[c]) /\ seen'[c] = Head(queue[c])
        /\ \A d \in Clients : d # c => queue'[d] = queue[d] /\ seen'[d] = seen[d]
    BY <1>4 DEF Streams!Send, Stream
  <2>2. InQueue(Tail(queue[c])) /\ Head(queue[c]) \in 1..MaxItems
    BY <1>0, <2>1, QueueBounds
  <2> QED BY <2>1, <2>2 DEF BoundsAssumption
<1>5. ASSUME NEW ch \in Channels, Streams!Broadcast(ch)
      PROVE  StreamBounds'
  <2>1. /\ sent[ch] \in Nat /\ sent[ch] < MaxItems /\ sent' = [sent EXCEPT ![ch] = sent[ch] + 1]
        /\ sent'[ch] = sent[ch] + 1
        /\ UNCHANGED seen
    BY <1>5 DEF Streams!Broadcast, Stream
  <2>2. sent'[ch] \in 1..MaxItems
    BY <2>1 DEF BoundsAssumption
  <2>3. \A c \in Clients :
            \/ queue'[c] = queue[c]
            \/ queue'[c] = Append(queue[c], sent'[ch]) /\ Len(queue[c]) # Size
    BY <1>5 DEF Streams!Broadcast, Streams!Full
  <2>4. \A c \in Clients : InQueue(queue'[c])
    BY <1>0, <2>2, <2>3, QueueBounds
  <2>5. \A c \in Channels : sent'[c] <= MaxItems
    BY <2>1, <2>2 DEF Stream, BoundsAssumption
  <2> QED BY <2>1, <2>4, <2>5
<1> QED BY <1>1, <1>2, <1>3, <1>4, <1>5 DEF Streams!Next

LEMMA StreamTypesHold ==
    ASSUME BoundsAssumption, Stream, StreamBounds
    PROVE  Streams!TypeOK
<1>1. \A c \in Clients : queue[c] \in Streams!BoundedSeq(1..MaxItems, Size)
  BY QueueBounds DEF Stream, StreamBounds
<1>2. \A c \in Clients : seen[c] \in 0..MaxItems
  BY DEF Stream, StreamBounds, BoundsAssumption
<1>3. \A ch \in Channels : sent[ch] \in 0..MaxItems
  BY DEF Stream, StreamBounds, BoundsAssumption
<1> QED BY <1>1, <1>2, <1>3 DEF Stream, Streams!TypeOK

TypesInv ==
    /\ StreakInv /\ StreakTypes
    /\ Restarts!TypeOK
    /\ Monitor!TypeOK
    /\ PublishingTypes
    /\ EventInv /\ EventTypes
    /\ StreamInv /\ StreamBounds
    /\ AnnouncementInv /\ AnnouncementTypes

LEMMA TypesStep ==
    ASSUME BoundsAssumption, StreaksAssumption, StreamsAssumption, EventsAssumption,
           AnnouncementsAssumption, TypesInv, [SiteNext]_all
    PROVE  TypesInv'
<1>1. /\ [Next]_vars
      /\ [Restarts!Next]_restarts
      /\ [Monitor!Next]_monitor
      /\ [Publishing!Next]_publishing
      /\ [Streams!Next]_streams
  BY DEF SiteNext, all, StreaksStep, RestartsStep, MonitorStep, PublishingStep, EventsStep,
         StreamsStep, AnnouncementsStep, streaks
<1>2. StreakInv' /\ StreakTypes'
  BY <1>1, StreakStep, StreakTypesStep DEF TypesInv
<1>3. Restarts!TypeOK' /\ Monitor!TypeOK' /\ PublishingTypes'
  BY <1>1, RestartTypes, MonitorTypes, PublishingTypesStep DEF TypesInv
<1>4. EventInv' /\ EventTypes' /\ AnnouncementInv' /\ AnnouncementTypes'
  BY EventStep, EventTypesStep, AnnouncementStep, AnnouncementTypesStep DEF TypesInv
<1>5. StreamInv' /\ StreamBounds'
  BY <1>1, StreamStep, StreamBoundsStep DEF TypesInv, StreamInv
<1> QED BY <1>2, <1>3, <1>4, <1>5 DEF TypesInv

LEMMA TypesInit ==
    ASSUME BoundsAssumption, StreaksAssumption, StreamsAssumption, EventsAssumption,
           AnnouncementsAssumption, SiteInit
    PROVE  TypesInv
<1>1. StreakInv /\ EventInv /\ StreamInv /\ AnnouncementInv
  BY StreakInit, EventInit, StreamInit, AnnouncementInit
<1>2. StreakTypes
  BY DEF SiteInit, Init, StreakTypes, BoundsAssumption
<1>3. Restarts!TypeOK
  BY DEF SiteInit, Restarts!Init, Restarts!TypeOK, Restarts!Day, BoundsAssumption
<1>4. Monitor!TypeOK
  <2>1. <<>> \in Monitor!BoundedSeq(BOOLEAN, Keep)
    <3>1. <<>> \in [1..0 -> BOOLEAN] /\ 0 \in 0..Keep
      BY DEF BoundsAssumption
    <3> QED BY <3>1 DEF Monitor!BoundedSeq, Monitor!SeqOf
  <2> QED BY <2>1 DEF SiteInit, Monitor!Init, Monitor!Nothing, Monitor!Maybe, Monitor!TypeOK,
             BoundsAssumption
<1>5. PublishingTypes
  BY PublishingInit
<1>6. EventTypes
  <2>1. /\ planned = 0 /\ joining = {} /\ finding = Unset
        /\ reminded = FALSE /\ told = FALSE /\ spent = FALSE /\ blind = FALSE
    BY DEF SiteInit, Events!Init
  <2>2. 0 \in 0..MaxPlans
    BY DEF BoundsAssumption
  <2> QED BY <1>1, <2>1, <2>2, Zenon DEF EventInv, EventTypes
<1>7. StreamBounds
  BY EmptySeq DEF SiteInit, Streams!Init, StreamBounds, InQueue, BoundsAssumption
<1>8. AnnouncementTypes
  <2>1. asked = FALSE /\ written = 0
    BY DEF SiteInit, Announcements!Init
  <2>2. 0 \in 0..MaxWrites
    BY DEF BoundsAssumption
  <2> QED BY <1>1, <2>1, <2>2, Zenon DEF AnnouncementInv, AnnouncementTypes
<1> QED BY <1>1, <1>2, <1>3, <1>4, <1>5, <1>6, <1>7, <1>8 DEF TypesInv

\* Every part of the site keeps its types, for any clients, servers, tasks, windows and
\* lengths of the queues: no queue grows beyond its size, no server has more snapshots
\* than are kept, and who was alerted about has been away for as long as it takes.
THEOREM SiteTypes ==
    ASSUME BoundsAssumption, StreaksAssumption, StreamsAssumption, EventsAssumption,
           AnnouncementsAssumption
    PROVE  SiteSpec => []SiteTypeOK
<1>1. SiteInit => TypesInv
  BY TypesInit
<1>2. TypesInv /\ [SiteNext]_all => TypesInv'
  BY TypesStep
<1>3. TypesInv => SiteTypeOK
  <2> SUFFICES ASSUME TypesInv PROVE SiteTypeOK
    OBVIOUS
  <2>1. TypeOK /\ Streams!TypeOK
    BY StreakTypesHold, StreamTypesHold DEF TypesInv, StreamInv
  <2>2. Events!TypeOK
    BY DEF TypesInv, EventTypes, EventType, Events!TypeOK
  <2>3. Announcements!TypeOK
    BY DEF TypesInv, AnnouncementTypes, AnnouncementType, Announcements!TypeOK
  <2> QED BY <2>1, <2>2, <2>3 DEF TypesInv, PublishingTypes, SiteTypeOK
<1> QED BY <1>1, <1>2, <1>3, PTL DEF SiteSpec
=============================================================================
