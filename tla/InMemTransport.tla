--------------------------- MODULE InMemTransport ---------------------------
(***************************************************************************)
(* delivery-transport's in-process bus.  Its send and recv are async fns   *)
(* without an await: a call that has been picked up by a worker thread     *)
(* keeps it until it returns, and recv blocks that thread on a std Mutex   *)
(* and on a std channel.  The calls of a test are given; workers pick them *)
(* up in any order.                                                        *)
(***************************************************************************)
EXTENDS Naturals, Sequences, FiniteSets

CONSTANTS
    Topics,
    Sends,       \* the send calls; a call is also the envelope it sends
    Recvs,       \* the recv calls
    TopicOf,     \* the topic of each call
    Counts,      \* the numbers of worker threads it may run on
    Free         \* nobody holds a lock

Calls == Sends \cup Recvs

ASSUME InMemAssumption ==
    /\ IsFiniteSet(Calls)
    /\ Sends \cap Recvs = {}
    /\ TopicOf \in [Calls -> Topics]
    /\ Counts \subseteq Nat
    /\ Free \notin Calls

VARIABLES
    workers,    \* how many worker threads run the calls
    pc,         \* where each call is
    map,        \* who holds InMemoryTransport.inner
    rx,         \* who holds the receiver of each topic
    channel,    \* the envelopes in each topic's channel, oldest first
    sent,       \* per topic, the envelopes in the order they were sent
    result      \* what each finished recv returned

vars == <<workers, pc, map, rx, channel, sent, result>>

Where == {"waiting", "started", "map", "cloned", "rx", "done"}

TypeOK ==
    /\ workers \in Counts
    /\ pc \in [Calls -> Where]
    /\ map \in Calls \cup {Free}
    /\ rx \in [Topics -> Recvs \cup {Free}]
    /\ channel \in [Topics -> Seq(Sends)]
    /\ sent \in [Topics -> Seq(Sends)]
    /\ result \in [Recvs -> Sends \cup {Free}]

Init ==
    /\ workers \in Counts
    /\ pc = [c \in Calls |-> "waiting"]
    /\ map = Free
    /\ rx = [t \in Topics |-> Free]
    /\ channel = [t \in Topics |-> <<>>]
    /\ sent = [t \in Topics |-> <<>>]
    /\ result = [r \in Recvs |-> Free]

Goes(c, place) ==
    /\ pc' = [pc EXCEPT ![c] = place]
    /\ UNCHANGED workers

Running == {c \in Calls : pc[c] \notin {"waiting", "done"}}

\* A free worker polls the call's future.
Start(c) ==
    /\ pc[c] = "waiting"
    /\ Cardinality(Running) < workers
    /\ Goes(c, "started")
    /\ UNCHANGED <<map, rx, channel, sent, result>>

\* channel_for locks the map, ...
LockMap(c) ==
    /\ pc[c] = "started"
    /\ map = Free
    /\ map' = c
    /\ Goes(c, "map")
    /\ UNCHANGED <<rx, channel, sent, result>>

\* Faulty variants: recv's clone borrows from the map's guard, which lives until
\* recv returns; every call puts a new channel into the map.
GuardKept(c) ==
    /\ pc[c] = "map"
    /\ map' = IF c \in Sends THEN Free ELSE c
    /\ Goes(c, "cloned")
    /\ UNCHANGED <<rx, channel, sent, result>>

FreshChannel(c) ==
    /\ pc[c] = "map"
    /\ map' = Free
    /\ channel' = [channel EXCEPT ![TopicOf[c]] = <<>>]
    /\ Goes(c, "cloned")
    /\ UNCHANGED <<rx, sent, result>>

\* ... clones the topic's two ends and unlocks it when it returns.
CloneEnds(c) ==
    /\ pc[c] = "map"
    /\ map' = Free
    /\ Goes(c, "cloned")
    /\ UNCHANGED <<rx, channel, sent, result>>

\* The channel is unbounded: sending never blocks.
TxSend(s) ==
    /\ pc[s] = "cloned"
    /\ channel' = [channel EXCEPT ![TopicOf[s]] = Append(@, s)]
    /\ sent' = [sent EXCEPT ![TopicOf[s]] = Append(@, s)]
    /\ Goes(s, "done")
    /\ UNCHANGED <<map, rx, result>>

LockRx(r) ==
    /\ pc[r] = "cloned"
    /\ rx[TopicOf[r]] = Free
    /\ rx' = [rx EXCEPT ![TopicOf[r]] = r]
    /\ Goes(r, "rx")
    /\ UNCHANGED <<map, channel, sent, result>>

\* Faulty variant: the newest envelope is taken.
TakeNewest(r) ==
    LET t == TopicOf[r]
        n == Len(channel[t])
    IN  /\ pc[r] = "rx"
        /\ n > 0
        /\ result' = [result EXCEPT ![r] = channel[t][n]]
        /\ channel' = [channel EXCEPT ![t] = SubSeq(@, 1, n - 1)]
        /\ rx' = [rx EXCEPT ![t] = Free]
        /\ Goes(r, "done")
        /\ UNCHANGED <<map, sent>>

\* guard.recv blocks until the channel has an envelope; the sender kept in the
\* map never hangs up, so it has no other way to return.
GuardRecv(r) ==
    LET t == TopicOf[r]
    IN  /\ pc[r] = "rx"
        /\ channel[t] # <<>>
        /\ result' = [result EXCEPT ![r] = Head(channel[t])]
        /\ channel' = [channel EXCEPT ![t] = Tail(@)]
        /\ rx' = [rx EXCEPT ![t] = Free]
        /\ Goes(r, "done")
        /\ UNCHANGED <<map, sent>>

Step(c) ==
    \/ Start(c)
    \/ LockMap(c)
    \/ CloneEnds(c)
    \/ c \in Sends /\ TxSend(c)
    \/ c \in Recvs /\ (LockRx(c) \/ GuardRecv(c))

Next == \E c \in Calls : Step(c)

\* Every worker makes progress when it can, and no waiting call is passed over
\* for ever.
Fairness == \A c \in Calls : WF_vars(Step(c))

Spec == Init /\ [][Next]_vars /\ Fairness

-----------------------------------------------------------------------------
Received(t) == {r \in Recvs : TopicOf[r] = t /\ pc[r] = "done"}

\* What was received are the oldest envelopes sent, each by one recv, and the rest
\* is still in the channel in order.
Fifo(t) ==
    LET n == Cardinality(Received(t))
    IN  /\ Len(sent[t]) = n + Len(channel[t])
        /\ channel[t] = SubSeq(sent[t], n + 1, Len(sent[t]))
        /\ {result[r] : r \in Received(t)} = {sent[t][i] : i \in 1 .. n}

\* FIFO and exactly once, per topic and whatever the workers do.
FifoOnce == \A t \in Topics : Fifo(t)

BusInv == TypeOK /\ FifoOnce

\* A worker whose call waits for an envelope of its topic, or for the receiver
\* that another such call holds.
Starved(c) ==
    LET t == TopicOf[c]
    IN  /\ c \in Recvs
        /\ channel[t] = <<>>
        /\ \/ pc[c] = "rx"
           \/ pc[c] = "cloned" /\ rx[t] # Free /\ pc[rx[t]] = "rx"

\* Nothing is ever stuck on a lock cycle: when no call can move, every running
\* call is a recv starved of envelopes, and calls are left over only because the
\* starved ones occupy every worker.
StallIsStarvation ==
    (\A c \in Calls : ~ENABLED Step(c)) =>
        /\ \A c \in Running : Starved(c)
        /\ Running # {c \in Calls : pc[c] # "done"} =>
              Cardinality(Running) = workers

WorkerToSpare == workers > Cardinality(Recvs)

\* A blocked recv does not keep a sender waiting, as long as there are more
\* workers than recv calls.
SendsComplete == WorkerToSpare => \A s \in Sends : <>(pc[s] = "done")

EnoughSent ==
    \A t \in Topics : Cardinality({r \in Recvs : TopicOf[r] = t})
                         <= Cardinality({s \in Sends : TopicOf[s] = t})

\* recv "blocks until a message arrives": with an envelope for each of them and
\* a worker more than there are recv calls, all of them return.
RecvsComplete ==
    WorkerToSpare /\ EnoughSent => \A r \in Recvs : <>(pc[r] = "done")
=============================================================================
