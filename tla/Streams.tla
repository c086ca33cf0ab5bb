------------------------------ MODULE Streams -------------------------------
(***************************************************************************)
(* The live streams (server-sent events): the activity feed, the server    *)
(* status, the online widget and each user's direct messages.  A client    *)
(* has a bounded queue; a broadcast that finds it full forgets the client, *)
(* whose connection stays open and only carries keepalives from then on.   *)
(***************************************************************************)
EXTENDS Integers, Sequences, SequencesExt

CONSTANTS
    Clients,
    Channels,  \* a flat stream, or the user of a stream of messages
    Nobody,    \* a connection that is closed
    Size,      \* maxsize of a queue
    MaxItems   \* bound: items broadcast on a channel

VARIABLES
    open,       \* open[c]: the channel of c's connection, or Nobody
    registered, \* the clients whose queue a broadcast finds
    queue,      \* queue[c]: items not yet sent, by number
    seen,       \* seen[c]: the number of the last item sent, or when c came
    sent        \* sent[ch]: items broadcast on ch

vars == <<open, registered, queue, seen, sent>>

Init ==
    /\ open = [c \in Clients |-> Nobody]
    /\ registered = {}
    /\ queue = [c \in Clients |-> <<>>]
    /\ seen = [c \in Clients |-> 0]
    /\ sent = [ch \in Channels |-> 0]

Connect(c, ch) ==
    /\ open[c] = Nobody
    /\ open' = [open EXCEPT ![c] = ch]
    /\ registered' = registered \cup {c}
    /\ queue' = [queue EXCEPT ![c] = <<>>]
    /\ seen' = [seen EXCEPT ![c] = sent[ch]]
    /\ UNCHANGED sent

Full(c) == Len(queue[c]) = Size
Listening(ch) == {c \in registered : open[c] = ch}

KeptAll(ch) == registered \* mutant: a full queue only misses the item

\* A client whose queue is full is dropped.
Kept(ch) == registered \ {c \in Listening(ch) : Full(c)}

\* put_nowait to every queue of the channel: nothing is awaited in between.
Broadcast(ch) ==
    /\ sent[ch] < MaxItems
    /\ sent' = [sent EXCEPT ![ch] = @ + 1]
    /\ queue' = [c \in Clients |-> IF c \in Listening(ch) /\ ~Full(c)
                                   THEN Append(queue[c], sent'[ch]) ELSE queue[c]]
    /\ registered' = Kept(ch)
    /\ UNCHANGED <<open, seen>>

\* The generator sends the oldest item.
Send(c) ==
    /\ open[c] # Nobody
    /\ queue[c] # <<>>
    /\ seen' = [seen EXCEPT ![c] = Head(queue[c])]
    /\ queue' = [queue EXCEPT ![c] = Tail(@)]
    /\ UNCHANGED <<open, registered, sent>>

Disconnect(c) ==
    /\ open[c] # Nobody
    /\ open' = [open EXCEPT ![c] = Nobody]
    /\ registered' = registered \ {c}
    /\ queue' = [queue EXCEPT ![c] = <<>>]
    /\ UNCHANGED <<seen, sent>>

Next ==
    \/ \E c \in Clients :
           \/ \E ch \in Channels : Connect(c, ch)
           \/ Send(c)
           \/ Disconnect(c)
    \/ \E ch \in Channels : Broadcast(ch)

TypeOK ==
    /\ open \in [Clients -> Channels \cup {Nobody}]
    /\ registered \subseteq {c \in Clients : open[c] # Nobody}
    /\ queue \in [Clients -> BoundedSeq(1..MaxItems, Size)]
    /\ seen \in [Clients -> 0..MaxItems]
    /\ sent \in [Channels -> 0..MaxItems]

\* A client has the items of its channel in order and without a gap: all of
\* them while it is registered, all up to some item if its queue was once full.
NoGap ==
    \A c \in Clients : open[c] # Nobody =>
        /\ \A k \in DOMAIN queue[c] : queue[c][k] = seen[c] + k
        /\ c \in registered => seen[c] + Len(queue[c]) = sent[open[c]]
=============================================================================
