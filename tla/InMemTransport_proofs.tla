------------------------ MODULE InMemTransport_proofs ------------------------
(***************************************************************************)
(* Proofs about the in-process bus, for every set of calls and topics and  *)
(* every number of workers.                                                *)
(***************************************************************************)
EXTENDS InMemTransport, FiniteSetTheorems, SequenceTheorems, TLAPS

\* A call is between locking and unlocking exactly while it holds the lock.
LocksHeld ==
    /\ \A c \in Calls : pc[c] = "map" <=> map = c
    /\ \A r \in Recvs : pc[r] = "rx" <=> rx[TopicOf[r]] = r
    /\ \A t \in Topics : rx[t] # Free => TopicOf[rx[t]] = t
    /\ \A s \in Sends : pc[s] # "rx"

\* No more calls run than there are workers.
WithinWorkers == Cardinality(Running) <= workers

IInv == TypeOK /\ FifoOnce /\ LocksHeld /\ WithinWorkers

\* The guards of a call's steps.
CanMove(c) ==
    \/ pc[c] = "waiting" /\ Cardinality(Running) < workers
    \/ pc[c] = "started" /\ map = Free
    \/ pc[c] = "map"
    \/ pc[c] = "cloned" /\ (c \in Recvs => rx[TopicOf[c]] = Free)
    \/ pc[c] = "rx" /\ channel[TopicOf[c]] # <<>>

-----------------------------------------------------------------------------
(* Queues.                                                                 *)

\* What is sent goes behind what is left of what was sent before.
LEMMA QueueGrows ==
    ASSUME NEW S, NEW s \in Seq(S), NEW e \in S, NEW n \in 0 .. Len(s)
    PROVE  /\ Append(s, e) \in Seq(S) /\ Len(Append(s, e)) = Len(s) + 1
           /\ \A i \in 1 .. Len(s) : Append(s, e)[i] = s[i]
           /\ Append(SubSeq(s, n + 1, Len(s)), e) =
                 SubSeq(Append(s, e), n + 1, Len(s) + 1)
<1>1. /\ Append(s, e) \in Seq(S) /\ Len(Append(s, e)) = Len(s) + 1
      /\ \A i \in 1 .. Len(s) : Append(s, e)[i] = s[i]
      /\ Append(s, e)[Len(s) + 1] = e
  OBVIOUS
<1> DEFINE rest == SubSeq(s, n + 1, Len(s))
           new == SubSeq(Append(s, e), n + 1, Len(s) + 1)
<1>2. /\ rest \in Seq(S) /\ Len(rest) = Len(s) - n
      /\ \A i \in 1 .. Len(s) - n : rest[i] = s[n + i]
  OBVIOUS
<1>3. /\ new \in Seq(S) /\ Len(new) = Len(s) + 1 - n
      /\ \A i \in 1 .. Len(s) + 1 - n : new[i] = Append(s, e)[n + i]
  BY <1>1
<1> HIDE DEF rest, new
<1>4. /\ Append(rest, e) \in Seq(S) /\ Len(Append(rest, e)) = Len(rest) + 1
      /\ \A i \in 1 .. Len(rest) : Append(rest, e)[i] = rest[i]
      /\ Append(rest, e)[Len(rest) + 1] = e
  BY <1>2, AppendProperties
<1>5. ASSUME NEW i \in 1 .. Len(s) + 1 - n PROVE Append(rest, e)[i] = new[i]
  <2>1. CASE i = Len(s) + 1 - n
    <3>1. i = Len(rest) + 1 /\ n + i = Len(s) + 1
      BY <1>2, <2>1
    <3>2. Append(rest, e)[i] = e /\ new[i] = e
      BY <1>1, <1>3, <1>4, <3>1
    <3>3. QED BY <3>2
  <2>2. CASE i \in 1 .. Len(s) - n
    <3>1. i \in 1 .. Len(rest) /\ n + i \in 1 .. Len(s)
      BY <1>2, <2>2
    <3>2. Append(rest, e)[i] = s[n + i] /\ new[i] = s[n + i]
      BY <1>1, <1>2, <1>3, <1>4, <2>2, <3>1
    <3>3. QED BY <3>2
  <2>3. i = Len(s) + 1 - n \/ i \in 1 .. Len(s) - n
    <3>1. Len(s) \in Nat /\ n \in Nat /\ i \in Nat
      OBVIOUS
    <3>2. QED BY <3>1
  <2>4. QED BY <2>1, <2>2, <2>3
<1>6. Append(rest, e) = new
  BY <1>2, <1>3, <1>4, <1>5, SeqEqual
<1>7. QED BY <1>1, <1>6 DEF rest, new

\* What is taken is the oldest of what is left.
LEMMA QueueShrinks ==
    ASSUME NEW S, NEW s \in Seq(S), NEW n \in 0 .. Len(s),
           NEW rest, rest = SubSeq(s, n + 1, Len(s)), rest # <<>>
    PROVE  /\ n + 1 \in 0 .. Len(s)
           /\ Head(rest) = s[n + 1] /\ Head(rest) \in S
           /\ Tail(rest) \in Seq(S)
           /\ Tail(rest) = SubSeq(s, n + 2, Len(s))
<1>1. n + 1 \in 1 .. Len(s)
  BY SubSeqEmpty
<1>2. Head(rest) = s[n + 1] /\ Tail(rest) = SubSeq(s, n + 2, Len(s))
  BY <1>1, HeadTailOfSubSeq
<1>3. \A i \in n + 1 .. Len(s) : s[i] \in S
  BY <1>1
<1>4. rest \in Seq(S)
  BY <1>1, <1>3, SubSeqProperties
<1>5. QED BY <1>1, <1>2, <1>4, HeadTailProperties

-----------------------------------------------------------------------------
(* Steps.                                                                  *)

\* Received, whether or not a call has moved.
LEMMA ReceivedFinite ==
    ASSUME NEW t
    PROVE  /\ IsFiniteSet(Received(t)) /\ Cardinality(Received(t)) \in Nat
           /\ Received(t) \subseteq Recvs
<1>1. IsFiniteSet(Recvs)
  BY FS_Subset, InMemAssumption DEF Calls
<1>2. Received(t) \subseteq Recvs
  BY DEF Received
<1>3. QED BY <1>1, <1>2, FS_Subset, FS_CardinalityType

\* A call goes to another place, and the others stay where they are.
LEMMA Going ==
    ASSUME TypeOK, NEW c \in Calls, NEW place \in Where, Goes(c, place)
    PROVE  /\ workers' \in Counts /\ pc' \in [Calls -> Where]
           /\ pc'[c] = place
           /\ \A d \in Calls : d # c => pc'[d] = pc[d]
  BY DEF TypeOK, Goes

\* The calls that run: one more where one starts, no other otherwise.
LEMMA RunningFinite ==
    ASSUME NEW R, R \subseteq Calls
    PROVE  IsFiniteSet(R) /\ Cardinality(R) \in Nat
  BY FS_Subset, FS_CardinalityType, InMemAssumption

LEMMA StepsWithinWorkers ==
    ASSUME IInv, NEW c \in Calls, NEW place \in Where, Goes(c, place),
           pc[c] # "done", pc[c] = "waiting" => Cardinality(Running) < workers
    PROVE  WithinWorkers'
<1>1. Running' \subseteq Running \cup {c} /\ workers' = workers
  BY Going DEF IInv, Running, Goes
<1>2. /\ IsFiniteSet(Running) /\ Cardinality(Running) \in Nat
      /\ IsFiniteSet(Running \cup {c}) /\ Cardinality(Running \cup {c}) \in Nat
      /\ Cardinality(Running') \in Nat
  BY RunningFinite DEF Running
<1>3. Cardinality(Running') <= Cardinality(Running \cup {c})
  BY <1>1, <1>2, FS_Subset
<1>4. workers \in Nat
  BY InMemAssumption DEF IInv, TypeOK
<1>5. CASE pc[c] = "waiting"
  <2>1. c \notin Running /\ Cardinality(Running) < workers
    BY <1>5 DEF Running
  <2>2. Cardinality(Running \cup {c}) = Cardinality(Running) + 1
    BY <1>2, <2>1, FS_AddElement
  <2>3. QED BY <1>1, <1>2, <1>3, <1>4, <2>1, <2>2 DEF WithinWorkers
<1>6. CASE pc[c] # "waiting"
  <2>1. Running \cup {c} = Running
    BY <1>6 DEF Running
  <2>2. QED BY <1>1, <1>2, <1>3, <1>4, <2>1 DEF IInv, WithinWorkers
<1>7. QED BY <1>5, <1>6

\* As long as no recv returns and nothing is sent, nothing is lost.
LEMMA QuietStep ==
    ASSUME IInv, UNCHANGED <<channel, sent, result>>,
           NEW c \in Calls, NEW place \in Where, Goes(c, place),
           pc[c] # "done", place # "done"
    PROVE  FifoOnce'
<1>1. \A t : Received(t)' = Received(t)
  BY Going DEF Received, IInv, Calls
<1>2. ASSUME NEW t \in Topics PROVE Fifo(t)'
  <2>1. Fifo(t) /\ Received(t)' = Received(t)
    BY <1>1 DEF IInv, FifoOnce
  <2>2. QED BY <2>1 DEF Fifo
<1>3. QED BY <1>2 DEF FifoOnce

\* ... and a topic is as it was when another is sent to or received from.
LEMMA OtherTopic ==
    ASSUME NEW t, Fifo(t), Received(t)' = Received(t),
           sent'[t] = sent[t], channel'[t] = channel[t],
           \A r \in Received(t) : result'[r] = result[r]
    PROVE  Fifo(t)'
<1> DEFINE n == Cardinality(Received(t))
<1>1. {result'[r] : r \in Received(t)} = {result[r] : r \in Received(t)}
  OBVIOUS
<1>2. /\ Len(sent[t]) = n + Len(channel[t])
      /\ channel[t] = SubSeq(sent[t], n + 1, Len(sent[t]))
      /\ {result'[r] : r \in Received(t)} = {sent[t][i] : i \in 1 .. n}
  BY <1>1 DEF Fifo
<1>3. /\ Len(sent'[t]) = n + Len(channel'[t])
      /\ channel'[t] = SubSeq(sent'[t], n + 1, Len(sent'[t]))
      /\ {result'[r] : r \in Received(t)} = {sent'[t][i] : i \in 1 .. n}
  BY <1>2
<1>4. QED BY <1>3 DEF Fifo

LEMMA InitInv == Init => IInv
<1> SUFFICES ASSUME Init PROVE IInv
  OBVIOUS
<1>1. TypeOK
  <2>1. /\ workers \in Counts /\ pc \in [Calls -> Where]
        /\ map \in Calls \cup {Free} /\ rx \in [Topics -> Recvs \cup {Free}]
        /\ result \in [Recvs -> Sends \cup {Free}]
    BY DEF Init, Where
  <2>2. <<>> \in Seq(Sends)
    OBVIOUS
  <2>3. channel \in [Topics -> Seq(Sends)] /\ sent \in [Topics -> Seq(Sends)]
    BY <2>2 DEF Init
  <2>4. QED BY <2>1, <2>3 DEF TypeOK
<1>2. FifoOnce
  <2> SUFFICES ASSUME NEW t \in Topics PROVE Fifo(t)
    BY DEF FifoOnce
  <2>1. Received(t) = {} /\ channel[t] = <<>> /\ sent[t] = <<>>
    BY DEF Init, Received, Calls
  <2>2. Cardinality(Received(t)) = 0
    BY <2>1, FS_EmptySet
  <2>3. SubSeq(<<>>, 0 + 1, 0) = <<>> /\ Len(<<>>) = 0
    BY SubSeqEmpty
  <2>4. QED BY <2>1, <2>2, <2>3 DEF Fifo
<1>3. LocksHeld
  BY InMemAssumption DEF Init, LocksHeld, Calls
<1>4. WithinWorkers
  <2>1. Running = {} /\ workers \in Nat
    BY InMemAssumption DEF Init, Running
  <2>2. QED BY <2>1, FS_EmptySet DEF WithinWorkers
<1>5. QED BY <1>1, <1>2, <1>3, <1>4 DEF IInv

LEMMA StartInv == ASSUME IInv, NEW c \in Calls, Start(c) PROVE IInv'
<1>1. /\ Goes(c, "started") /\ "started" \in Where /\ pc[c] = "waiting"
      /\ UNCHANGED <<map, rx, channel, sent, result>>
  BY DEF Start, Where
<1>2. TypeOK'
  BY <1>1, Going DEF IInv, TypeOK
<1>3. FifoOnce'
  BY <1>1, QuietStep
<1>4. LocksHeld'
  BY <1>1, Going DEF IInv, LocksHeld, Calls
<1>5. WithinWorkers'
  BY <1>1, StepsWithinWorkers DEF Start
<1>6. QED BY <1>2, <1>3, <1>4, <1>5 DEF IInv

LEMMA LockMapInv == ASSUME IInv, NEW c \in Calls, LockMap(c) PROVE IInv'
<1>1. /\ Goes(c, "map") /\ "map" \in Where /\ pc[c] = "started"
      /\ map = Free /\ map' = c
      /\ UNCHANGED <<rx, channel, sent, result>>
  BY DEF LockMap, Where
<1>2. TypeOK'
  BY <1>1, Going DEF IInv, TypeOK
<1>3. FifoOnce'
  BY <1>1, QuietStep
<1>4. LocksHeld'
  BY <1>1, Going, InMemAssumption DEF IInv, LocksHeld, Calls
<1>5. WithinWorkers'
  BY <1>1, StepsWithinWorkers
<1>6. QED BY <1>2, <1>3, <1>4, <1>5 DEF IInv

LEMMA CloneEndsInv == ASSUME IInv, NEW c \in Calls, CloneEnds(c) PROVE IInv'
<1>1. /\ Goes(c, "cloned") /\ "cloned" \in Where /\ pc[c] = "map"
      /\ map' = Free
      /\ UNCHANGED <<rx, channel, sent, result>>
  BY DEF CloneEnds, Where
<1>2. TypeOK'
  BY <1>1, Going DEF IInv, TypeOK
<1>3. FifoOnce'
  BY <1>1, QuietStep
<1>4. LocksHeld'
  BY <1>1, Going, InMemAssumption DEF IInv, LocksHeld, Calls
<1>5. WithinWorkers'
  BY <1>1, StepsWithinWorkers
<1>6. QED BY <1>2, <1>3, <1>4, <1>5 DEF IInv

LEMMA LockRxInv == ASSUME IInv, NEW r \in Recvs, LockRx(r) PROVE IInv'
<1>1. /\ Goes(r, "rx") /\ "rx" \in Where /\ pc[r] = "cloned"
      /\ rx[TopicOf[r]] = Free /\ rx' = [rx EXCEPT ![TopicOf[r]] = r]
      /\ UNCHANGED <<map, channel, sent, result>>
  BY DEF LockRx, Where
<1>2. r \in Calls /\ r \notin Sends /\ TopicOf[r] \in Topics
  BY InMemAssumption DEF Calls
<1>3. TypeOK'
  BY <1>1, <1>2, Going DEF IInv, TypeOK
<1>4. FifoOnce'
  BY <1>1, <1>2, QuietStep
<1>5. LocksHeld'
  <2>1. /\ pc'[r] = "rx" /\ rx'[TopicOf[r]] = r
        /\ \A d \in Calls : d # r => pc'[d] = pc[d]
        /\ \A t \in Topics : t # TopicOf[r] => rx'[t] = rx[t]
    BY <1>1, <1>2, Going DEF IInv, TypeOK
  <2>2. r # Free /\ \A d \in Recvs : d \in Calls /\ TopicOf[d] \in Topics /\ d # Free
    BY InMemAssumption DEF Calls
  <2>3. \A c \in Calls : (pc[c] = "map" <=> map = c)'
    BY <1>1, <1>2, <2>1 DEF IInv, LocksHeld
  <2>4. \A d \in Recvs : (pc[d] = "rx" <=> rx[TopicOf[d]] = d)'
    BY <1>1, <2>1, <2>2 DEF IInv, LocksHeld
  <2>5. \A t \in Topics : (rx[t] # Free => TopicOf[rx[t]] = t)'
    BY <2>1, <2>2 DEF IInv, LocksHeld
  <2>6. \A s \in Sends : (pc[s] # "rx")'
    BY <1>2, <2>1 DEF IInv, LocksHeld, Calls
  <2>7. QED BY <2>3, <2>4, <2>5, <2>6 DEF LocksHeld
<1>6. WithinWorkers'
  BY <1>1, <1>2, StepsWithinWorkers
<1>7. QED BY <1>3, <1>4, <1>5, <1>6 DEF IInv

\* An envelope goes behind those of its topic.
LEMMA TxSendInv == ASSUME IInv, NEW s \in Sends, TxSend(s) PROVE IInv'
<1> DEFINE topic == TopicOf[s]
<1>1. /\ Goes(s, "done") /\ "done" \in Where /\ pc[s] = "cloned"
      /\ channel' = [channel EXCEPT ![topic] = Append(@, s)]
      /\ sent' = [sent EXCEPT ![topic] = Append(@, s)]
      /\ UNCHANGED <<map, rx, result>>
  BY DEF TxSend, Where
<1>2. s \in Calls /\ s \notin Recvs /\ topic \in Topics
  BY InMemAssumption DEF Calls
<1>3. /\ pc' \in [Calls -> Where] /\ workers' \in Counts /\ pc'[s] = "done"
      /\ \A d \in Calls : d # s => pc'[d] = pc[d]
  BY <1>1, <1>2, Going DEF IInv
<1>4. /\ sent[topic] \in Seq(Sends) /\ channel[topic] \in Seq(Sends)
      /\ sent'[topic] = Append(sent[topic], s)
      /\ channel'[topic] = Append(channel[topic], s)
      /\ \A t \in Topics : t # topic =>
            sent'[t] = sent[t] /\ channel'[t] = channel[t]
  BY <1>1, <1>2 DEF IInv, TypeOK
<1>5. TypeOK'
  <2>1. channel' \in [Topics -> Seq(Sends)]
    BY <1>1, <1>2 DEF IInv, TypeOK
  <2>2. sent' \in [Topics -> Seq(Sends)]
    BY <1>1, <1>2 DEF IInv, TypeOK
  <2>3. QED BY <1>1, <1>3, <2>1, <2>2 DEF IInv, TypeOK
<1>6. \A t : Received(t)' = Received(t)
  BY <1>2, <1>3 DEF Received, Calls
<1>7. FifoOnce'
  <2> SUFFICES ASSUME NEW t \in Topics PROVE Fifo(t)'
    BY DEF FifoOnce
  <2>1. CASE t # topic
    <3>1. Fifo(t) /\ Received(t)' = Received(t)
      BY <1>6 DEF IInv, FifoOnce
    <3>2. QED BY <1>1, <1>4, <2>1, <3>1, OtherTopic
  <2>2. CASE t = topic
    <3> DEFINE n == Cardinality(Received(topic))
    <3>1. /\ Len(sent[topic]) = n + Len(channel[topic])
          /\ channel[topic] = SubSeq(sent[topic], n + 1, Len(sent[topic]))
          /\ {result[r] : r \in Received(topic)} = {sent[topic][i] : i \in 1 .. n}
      BY <1>2 DEF IInv, FifoOnce, Fifo
    <3>2. n \in Nat /\ Len(sent[topic]) \in Nat /\ Len(channel[topic]) \in Nat
      BY <1>4, ReceivedFinite
    <3>3. n \in 0 .. Len(sent[topic])
      BY <3>1, <3>2
    <3> HIDE DEF n, topic
    <3>4. /\ Len(sent'[topic]) = Len(sent[topic]) + 1
          /\ \A i \in 1 .. Len(sent[topic]) : sent'[topic][i] = sent[topic][i]
          /\ channel'[topic] = SubSeq(sent'[topic], n + 1, Len(sent'[topic]))
          /\ Len(channel'[topic]) = Len(channel[topic]) + 1
      <4>1. /\ Len(Append(sent[topic], s)) = Len(sent[topic]) + 1
            /\ \A i \in 1 .. Len(sent[topic]) :
                  Append(sent[topic], s)[i] = sent[topic][i]
            /\ Append(SubSeq(sent[topic], n + 1, Len(sent[topic])), s) =
                  SubSeq(Append(sent[topic], s), n + 1, Len(sent[topic]) + 1)
        BY <1>4, <3>3, QueueGrows
      <4>2. Len(Append(channel[topic], s)) = Len(channel[topic]) + 1
        BY <1>4, AppendProperties
      <4>3. Append(channel[topic], s) =
               SubSeq(Append(sent[topic], s), n + 1, Len(Append(sent[topic], s)))
        BY <3>1, <4>1
      <4>4. QED BY <1>4, <4>1, <4>2, <4>3
    <3>5. \A i \in 1 .. n : sent'[topic][i] = sent[topic][i]
      BY <3>2, <3>3, <3>4
    <3>6. /\ Len(sent'[topic]) = n + Len(channel'[topic])
          /\ {result'[r] : r \in Received(topic)} =
                {sent'[topic][i] : i \in 1 .. n}
      <4>1. Len(sent'[topic]) = n + Len(channel'[topic])
        BY <3>1, <3>2, <3>4
      <4>2. {sent'[topic][i] : i \in 1 .. n} = {sent[topic][i] : i \in 1 .. n}
        BY <3>5
      <4>3. QED BY <1>1, <3>1, <4>1, <4>2
    <3>7. Received(topic)' = Received(topic)
      BY <1>6
    <3>8. QED BY <2>2, <3>4, <3>6, <3>7 DEF Fifo, n, topic
  <2>3. QED BY <2>1, <2>2
<1>8. LocksHeld'
  BY <1>1, <1>2, <1>3 DEF IInv, LocksHeld, Calls
<1>9. WithinWorkers'
  BY <1>1, <1>2, StepsWithinWorkers
<1>10. QED BY <1>5, <1>7, <1>8, <1>9 DEF IInv

\* The recv that holds the receiver takes the oldest envelope there is.
LEMMA GuardRecvInv == ASSUME IInv, NEW r \in Recvs, GuardRecv(r) PROVE IInv'
<1> DEFINE topic == TopicOf[r]
<1>1. /\ Goes(r, "done") /\ "done" \in Where /\ pc[r] = "rx"
      /\ channel[topic] # <<>>
      /\ result' = [result EXCEPT ![r] = Head(channel[topic])]
      /\ channel' = [channel EXCEPT ![topic] = Tail(@)]
      /\ rx' = [rx EXCEPT ![topic] = Free]
      /\ UNCHANGED <<map, sent>>
  BY DEF GuardRecv, Where
<1>2. r \in Calls /\ r \notin Sends /\ topic \in Topics
  BY InMemAssumption DEF Calls
<1>3. /\ pc' \in [Calls -> Where] /\ workers' \in Counts /\ pc'[r] = "done"
      /\ \A d \in Calls : d # r => pc'[d] = pc[d]
  BY <1>1, <1>2, Going DEF IInv
<1> DEFINE n == Cardinality(Received(topic))
<1>4. /\ Len(sent[topic]) = n + Len(channel[topic])
      /\ channel[topic] = SubSeq(sent[topic], n + 1, Len(sent[topic]))
      /\ {result[d] : d \in Received(topic)} = {sent[topic][i] : i \in 1 .. n}
  BY <1>2 DEF IInv, FifoOnce, Fifo
<1>5. /\ sent[topic] \in Seq(Sends) /\ channel[topic] \in Seq(Sends)
      /\ n \in Nat /\ n \in 0 .. Len(sent[topic])
  <2>1. sent[topic] \in Seq(Sends) /\ channel[topic] \in Seq(Sends) /\ n \in Nat
    BY <1>2, ReceivedFinite DEF IInv, TypeOK
  <2>2. Len(sent[topic]) \in Nat /\ Len(channel[topic]) \in Nat
    BY <2>1
  <2>3. Len(sent[topic]) = n + Len(channel[topic])
    BY <1>4
  <2>4. n \in 0 .. Len(sent[topic])
    <3> DEFINE k == Len(sent[topic])
               m == Len(channel[topic])
    <3>1. n \in Nat /\ k \in Nat /\ m \in Nat /\ k = n + m
      BY <2>1, <2>2, <2>3
    <3> HIDE DEF n, k, m
    <3>2. n \in 0 .. k
      BY <3>1
    <3>3. QED BY <3>2 DEF k
  <2> HIDE DEF n
  <2>5. QED BY <2>1, <2>4
<1>6. /\ n + 1 \in 0 .. Len(sent[topic])
      /\ Head(channel[topic]) = sent[topic][n + 1]
      /\ Head(channel[topic]) \in Sends
      /\ Tail(channel[topic]) \in Seq(Sends)
      /\ Tail(channel[topic]) = SubSeq(sent[topic], n + 2, Len(sent[topic]))
      /\ Len(Tail(channel[topic])) = Len(channel[topic]) - 1
  <2> HIDE DEF n
  <2>1. QED BY <1>1, <1>4, <1>5, QueueShrinks, HeadTailProperties
<1>7. /\ channel'[topic] = Tail(channel[topic])
      /\ result'[r] = sent[topic][n + 1]
      /\ \A d \in Recvs : d # r => result'[d] = result[d]
      /\ \A t \in Topics : t # topic => channel'[t] = channel[t]
      /\ rx'[topic] = Free /\ \A t \in Topics : t # topic => rx'[t] = rx[t]
  BY <1>1, <1>2, <1>6 DEF IInv, TypeOK
<1>8. TypeOK'
  <2>1. channel' \in [Topics -> Seq(Sends)]
    BY <1>1, <1>2, <1>6 DEF IInv, TypeOK
  <2>2. result' \in [Recvs -> Sends \cup {Free}]
    BY <1>1, <1>6 DEF IInv, TypeOK
  <2>3. rx' \in [Topics -> Recvs \cup {Free}]
    BY <1>1 DEF IInv, TypeOK
  <2>4. QED BY <1>1, <1>3, <2>1, <2>2, <2>3 DEF IInv, TypeOK
<1>9. FifoOnce'
  <2> SUFFICES ASSUME NEW t \in Topics PROVE Fifo(t)'
    BY DEF FifoOnce
  <2>1. CASE t # topic
    <3>1. Fifo(t) /\ Received(t)' = Received(t) /\ r \notin Received(t)
      BY <1>1, <1>3, <2>1 DEF IInv, FifoOnce, Received, Calls
    <3>2. \A d \in Received(t) : result'[d] = result[d]
      BY <1>7, <3>1, ReceivedFinite
    <3>3. sent'[t] = sent[t] /\ channel'[t] = channel[t]
      BY <1>1, <1>7, <2>1
    <3>4. QED BY <3>1, <3>2, <3>3, OtherTopic
  <2>2. CASE t = topic
    <3>1. /\ Received(topic)' = Received(topic) \cup {r}
          /\ r \notin Received(topic)
      BY <1>1, <1>3 DEF Received, Calls
    <3>2. Cardinality(Received(topic) \cup {r}) = n + 1
      BY <3>1, ReceivedFinite, FS_AddElement
    <3> HIDE DEF n, topic
    <3>3. {result'[d] : d \in Received(topic) \cup {r}} =
             {result[d] : d \in Received(topic)} \cup {sent[topic][n + 1]}
      BY <1>7, <3>1, ReceivedFinite
    <3>4. {sent[topic][i] : i \in 1 .. n + 1} =
             {sent[topic][i] : i \in 1 .. n} \cup {sent[topic][n + 1]}
      BY <1>5
    <3>5. {result'[d] : d \in Received(topic) \cup {r}} =
             {sent[topic][i] : i \in 1 .. n + 1}
      BY <1>4, <3>3, <3>4
    <3>6. Len(channel[topic]) \in Nat /\ (n + 1) + 1 = n + 2
      BY <1>5
    <3>7. /\ Len(sent[topic]) = (n + 1) + Len(channel'[topic])
          /\ channel'[topic] = SubSeq(sent[topic], (n + 1) + 1, Len(sent[topic]))
      <4>1. Len(channel'[topic]) = Len(channel[topic]) - 1
        BY <1>6, <1>7
      <4>2. Len(sent[topic]) = n + Len(channel[topic]) /\ n \in Nat
        BY <1>4, <1>5
      <4>3. n + Len(channel[topic]) = (n + 1) + (Len(channel[topic]) - 1)
        <5>1. n \in Nat /\ Len(channel[topic]) \in Nat
          BY <3>6, <4>2
        <5>2. \A a, b \in Nat : a + b = (a + 1) + (b - 1)
          OBVIOUS
        <5>3. QED BY <5>1, <5>2
      <4>4. Len(sent[topic]) = (n + 1) + Len(channel'[topic])
        BY Zenon, <4>1, <4>2, <4>3
      <4>5. QED BY <1>6, <1>7, <3>6, <4>4
    <3>8. Cardinality(Received(topic)') = n + 1
      BY <3>1, <3>2
    <3>9. QED BY <1>1, <2>2, <3>1, <3>5, <3>7, <3>8 DEF Fifo
  <2>3. QED BY <2>1, <2>2
<1>10. LocksHeld'
  <2>1. \A d \in Recvs : d \in Calls /\ TopicOf[d] \in Topics /\ d # Free
    BY InMemAssumption DEF Calls
  <2>2. rx[topic] = r
    BY <1>1 DEF IInv, LocksHeld
  <2>3. \A c \in Calls : (pc[c] = "map" <=> map = c)'
    BY <1>1, <1>2, <1>3 DEF IInv, LocksHeld
  <2>4. \A d \in Recvs : (pc[d] = "rx" <=> rx[TopicOf[d]] = d)'
    BY <1>1, <1>3, <1>7, <2>1, <2>2 DEF IInv, LocksHeld
  <2>5. \A t \in Topics : (rx[t] # Free => TopicOf[rx[t]] = t)'
    BY <1>7 DEF IInv, LocksHeld
  <2>6. \A s \in Sends : (pc[s] # "rx")'
    BY <1>2, <1>3 DEF IInv, LocksHeld, Calls
  <2>7. QED BY <2>3, <2>4, <2>5, <2>6 DEF LocksHeld
<1>11. WithinWorkers'
  BY <1>1, <1>2, StepsWithinWorkers
<1>12. QED BY <1>8, <1>9, <1>10, <1>11 DEF IInv

LEMMA NextInv == IInv /\ [Next]_vars => IInv'
<1> SUFFICES ASSUME IInv, [Next]_vars PROVE IInv'
  OBVIOUS
<1>1. CASE Next
  <2>1. PICK c \in Calls : Step(c)
    BY <1>1 DEF Next
  <2>2. QED
    BY <2>1, StartInv, LockMapInv, CloneEndsInv, TxSendInv, LockRxInv,
       GuardRecvInv DEF Step
<1>2. CASE UNCHANGED vars
  <2>1. UNCHANGED <<workers, pc, map, rx, channel, sent, result>>
    BY <1>2 DEF vars
  <2>2. TypeOK' /\ LocksHeld'
    BY <2>1 DEF IInv, TypeOK, LocksHeld
  <2>3. Running' = Running /\ \A t : Received(t)' = Received(t)
    BY <2>1 DEF Running, Received
  <2>4. FifoOnce'
    BY <2>1, <2>3, OtherTopic DEF IInv, FifoOnce
  <2>5. WithinWorkers'
    BY <2>1, <2>3 DEF IInv, WithinWorkers
  <2>6. QED BY <2>2, <2>4, <2>5 DEF IInv
<1>3. QED BY <1>1, <1>2

-----------------------------------------------------------------------------
(* Theorems.                                                               *)

\* The strengthened invariant holds in every state.
THEOREM Invariance == Spec => []IInv
<1>1. Init => IInv
  BY InitInv
<1>2. IInv /\ [Next]_vars => IInv'
  BY NextInv
<1>3. QED BY <1>1, <1>2, PTL DEF Spec

\* Whatever the workers do, the recv calls that returned on a topic were given its
\* oldest envelopes, each one to one of them, and the others are in the channel in
\* the order they were sent (inmem.rs, send and recv).
THEOREM BusIsFifo == Spec => []BusInv
<1>1. IInv => BusInv
  BY DEF IInv, BusInv
<1>2. QED BY <1>1, Invariance, PTL

\* The two locks that channel_for and recv take one after the other are never
\* waited for in a circle: when no guard holds, all that runs is starved of
\* envelopes, and what is left over waits for a worker.
THEOREM OnlyStarvationStalls ==
    Spec => [](( \A c \in Calls : ~CanMove(c)) =>
                 /\ \A c \in Running : Starved(c)
                 /\ Running # {c \in Calls : pc[c] # "done"} =>
                       Cardinality(Running) = workers)
<1>1. ASSUME IInv, \A c \in Calls : ~CanMove(c)
      PROVE  /\ \A c \in Running : Starved(c)
             /\ Running # {c \in Calls : pc[c] # "done"} =>
                   Cardinality(Running) = workers
  <2>1. map = Free
    <3>1. map \in Calls => CanMove(map)
      BY <1>1 DEF IInv, LocksHeld, CanMove
    <3>2. QED BY <1>1, <3>1 DEF IInv, TypeOK
  <2>2. ASSUME NEW r \in Recvs, pc[r] = "rx"
        PROVE  channel[TopicOf[r]] = <<>>
    BY <1>1, <2>2 DEF CanMove, Calls
  <2>3. ASSUME NEW c \in Running PROVE Starved(c)
    <3>1. c \in Calls /\ pc[c] \in {"started", "map", "cloned", "rx"} /\ ~CanMove(c)
      BY <1>1 DEF Running, IInv, TypeOK, Where
    <3>2. pc[c] \in {"cloned", "rx"} /\ (pc[c] = "cloned" => rx[TopicOf[c]] # Free)
      BY <2>1, <3>1 DEF CanMove
    <3>3. c \in Recvs
      BY <1>1, <3>1, <3>2 DEF CanMove, IInv, LocksHeld, Calls
    <3>4. CASE pc[c] = "rx"
      BY <2>2, <3>3, <3>4 DEF Starved
    <3>5. CASE pc[c] = "cloned"
      <4> DEFINE holder == rx[TopicOf[c]]
      <4>1. TopicOf[c] \in Topics /\ holder # Free
        BY <3>1, <3>2, <3>5, InMemAssumption
      <4>2. holder \in Recvs /\ TopicOf[holder] = TopicOf[c]
        BY <1>1, <4>1 DEF IInv, TypeOK, LocksHeld
      <4>3. pc[holder] = "rx"
        BY <1>1, <4>1, <4>2 DEF IInv, LocksHeld
      <4>4. channel[TopicOf[c]] = <<>>
        BY <2>2, <4>2, <4>3
      <4>5. QED BY <3>3, <3>5, <4>1, <4>3, <4>4 DEF Starved
    <3>6. QED BY <3>2, <3>4, <3>5
  <2>4. ASSUME Running # {c \in Calls : pc[c] # "done"}
        PROVE  Cardinality(Running) = workers
    <3>1. PICK c \in Calls : pc[c] = "waiting"
      BY <2>4 DEF Running
    <3>2. ~(Cardinality(Running) < workers)
      BY <1>1, <3>1 DEF CanMove
    <3>3. /\ Cardinality(Running) \in Nat /\ workers \in Nat
          /\ Cardinality(Running) <= workers
      BY <1>1, RunningFinite, InMemAssumption DEF IInv, TypeOK, WithinWorkers, Running
    <3>4. QED BY <3>2, <3>3
  <2>5. QED BY <2>3, <2>4
<1>2. QED BY <1>1, Invariance, PTL
=============================================================================
