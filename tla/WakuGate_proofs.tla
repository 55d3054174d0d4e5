--------------------------- MODULE WakuGate_proofs ---------------------------
(***************************************************************************)
(* Proofs about the demonstration over two Waku nodes, for every set of    *)
(* credentials and junk on the topic and every budget of polls, and about  *)
(* its codecs, for bytes, texts and topics of every length.                *)
(***************************************************************************)
EXTENDS WakuGate, WellFoundedInduction, SequenceTheorems, TLAPS

\* Where the run is says what it has done: nothing is taken before the polls, the
\* node is subscribed from then on, the envelope is published before them, and the
\* budget is not used up while they go on.
RunSoFar ==
    /\ phase \in {"connect", "subscribe", "prove", "publish"} =>
          /\ received = Nothing
          /\ dropped = {}
          /\ Mine \notin relayed
    /\ phase \in {"prove", "publish", "poll", "decide"} => subscribed
    /\ phase = "poll" => Mine \in relayed
    /\ phase = "decide" => received \in Credentials
    /\ phase # "end" => tries < MaxTries

IInv == RelayInv /\ ReportsTrue /\ HeardWhenPublished /\ RunSoFar

-----------------------------------------------------------------------------
(* The operator's buffer.                                                  *)

\* A message that arrives is one more in the buffer.
LEMMA RangeOfAppend ==
    ASSUME NEW S, NEW s \in Seq(S), NEW m \in S
    PROVE  /\ Append(s, m) \in Seq(S)
           /\ Range(Append(s, m)) = Range(s) \cup {m}
           /\ IsInjective(s) /\ m \notin Range(s) => IsInjective(Append(s, m))
<1>1. /\ Append(s, m) \in Seq(S)
      /\ DOMAIN Append(s, m) = DOMAIN s \cup {Len(s) + 1}
      /\ \A i \in DOMAIN s : Append(s, m)[i] = s[i]
      /\ Append(s, m)[Len(s) + 1] = m
  OBVIOUS
<1>2. Range(Append(s, m)) = Range(s) \cup {m}
  BY <1>1 DEF Range
<1>3. ASSUME IsInjective(s), m \notin Range(s)
      PROVE  IsInjective(Append(s, m))
  BY <1>1, <1>3 DEF Range, IsInjective
<1>4. QED BY <1>1, <1>2, <1>3

\* What recv decodes and what it leaves are all there was.
LEMMA RangeOfTail ==
    ASSUME NEW S, NEW s \in Seq(S), s # <<>>
    PROVE  /\ Head(s) \in S
           /\ Range(s) = {Head(s)} \cup Range(Tail(s))
           /\ IsInjective(s) => Head(s) \notin Range(Tail(s))
<1>1. /\ Head(s) \in S /\ Head(s) = s[1]
      /\ 1 \in DOMAIN s /\ DOMAIN s = 1 .. Len(s)
      /\ DOMAIN Tail(s) = 1 .. (Len(s) - 1)
      /\ \A i \in DOMAIN Tail(s) : Tail(s)[i] = s[i + 1]
      /\ Len(s) \in Nat
  OBVIOUS
<1>2. \A i \in DOMAIN s : i = 1 \/ s[i] \in Range(Tail(s))
  <2>1. ASSUME NEW i \in DOMAIN s, i # 1
        PROVE  i - 1 \in DOMAIN Tail(s) /\ Tail(s)[i - 1] = s[i]
    BY <1>1, <2>1
  <2>2. QED BY <2>1 DEF Range
<1>3. \A i \in DOMAIN Tail(s) : i + 1 \in DOMAIN s /\ i + 1 # 1
  BY <1>1
<1>4. Range(s) = {Head(s)} \cup Range(Tail(s))
  <2>1. \A x \in Range(s) : x \in {Head(s)} \cup Range(Tail(s))
    BY <1>1, <1>2 DEF Range
  <2>2. Head(s) \in Range(s)
    BY <1>1 DEF Range
  <2>3. \A x \in Range(Tail(s)) : x \in Range(s)
    BY <1>1, <1>3 DEF Range
  <2>4. QED BY <2>1, <2>2, <2>3
<1>5. IsInjective(s) => Head(s) \notin Range(Tail(s))
  BY <1>1, <1>3 DEF Range, IsInjective
<1>6. QED BY <1>1, <1>4, <1>5

\* An empty buffer holds nothing, once.
LEMMA RangeOfEmpty == Range(<<>>) = {} /\ IsInjective(<<>>)
  BY DEF Range, IsInjective

\* A buffer holds messages.
LEMMA RangeWithin ==
    ASSUME NEW S, NEW s \in Seq(S)
    PROVE  Range(s) \subseteq S
<1>1. \A i \in DOMAIN s : s[i] \in S
  OBVIOUS
<1> SUFFICES ASSUME NEW x \in Range(s) PROVE x \in S
  OBVIOUS
<1>2. PICK i \in DOMAIN s : x = s[i]
  BY DEF Range
<1>3. QED BY <1>1, <1>2

-----------------------------------------------------------------------------
(* Every step preserves the invariant.                                     *)

\* A relayed message is a member of exactly what the conservation law names.
LEMMA InitInv == Init => IInv
<1> SUFFICES ASSUME Init PROVE IInv
  OBVIOUS
<1> USE DEF Init
<1>1. TypeOK
  <2>1. phase \in Phases /\ outcome \in Outcomes
    BY DEF Phases, Outcomes
  <2>2. phase = "end" <=> outcome # "none"
    OBVIOUS
  <2>3. tries \in 0 .. MaxTries
    BY RelayAssumption
  <2>4. buffer \in Seq(Messages)
    OBVIOUS
  <2>5. subscribed \in BOOLEAN /\ peered \in BOOLEAN
    OBVIOUS
  <2>6. /\ received \in Credentials \cup {Nothing}
        /\ dropped \subseteq Messages
        /\ relayed \subseteq Messages
        /\ inflight \subseteq relayed
        /\ lost \subseteq relayed
    OBVIOUS
  <2>7. QED BY <2>1, <2>2, <2>3, <2>4, <2>5, <2>6 DEF TypeOK
<1>2. Conserved
  BY RangeOfEmpty DEF Conserved
<1>3. ReportsTrue /\ HeardWhenPublished
  BY DEF ReportsTrue, HeardWhenPublished
<1>4. RunSoFar
  BY RelayAssumption DEF RunSoFar
<1>5. QED BY <1>1, <1>2, <1>3, <1>4 DEF IInv, RelayInv

\* A step that moves no message keeps the conservation law.
LEMMA NothingMoves ==
    ASSUME IInv,
           UNCHANGED <<received, dropped, buffer, relayed, inflight, lost>>
    PROVE  Conserved'
  BY DEF IInv, RelayInv, Conserved

\* A step of the driver that only moves its own counters keeps the types of the
\* rest.
LEMMA DriverMovesOnly ==
    ASSUME IInv, phase' \in Phases, outcome' \in Outcomes,
           phase' = "end" <=> outcome' # "none",
           tries' \in 0 .. MaxTries, subscribed' \in BOOLEAN,
           UNCHANGED <<received, dropped, buffer, peered, relayed, inflight, lost>>
    PROVE  TypeOK'
<1>1. /\ received' \in Credentials \cup {Nothing}
      /\ dropped' \subseteq Messages
      /\ buffer' \in Seq(Messages)
      /\ relayed' \subseteq Messages
      /\ inflight' \subseteq relayed'
      /\ lost' \subseteq relayed'
  BY DEF IInv, RelayInv, TypeOK
<1>2. peered' \in BOOLEAN
  BY DEF IInv, RelayInv, TypeOK
<1>3. QED BY <1>1, <1>2 DEF TypeOK

LEMMA BeforePublishInv ==
    ASSUME IInv, Connect \/ Subscribe \/ ProveAndSign
    PROVE  IInv'
<1>1. /\ UNCHANGED <<tries, received, dropped, buffer, peered, relayed,
                     inflight, lost>>
      /\ phase \in {"connect", "subscribe", "prove"}
  BY DEF Connect, Subscribe, ProveAndSign, nodeVars, netVars
<1>2. /\ outcome = "none"
      /\ received = Nothing /\ dropped = {} /\ Mine \notin relayed
      /\ tries \in 0 .. MaxTries /\ tries < MaxTries
  BY <1>1 DEF IInv, RelayInv, TypeOK, RunSoFar
<1>3. /\ phase' \in {"subscribe", "prove", "publish", "end"}
      /\ outcome' \in {"none", "not connected", "not subscribed", "not proved"}
      /\ phase' = "end" <=> outcome' # "none"
  BY <1>2 DEF Connect, Subscribe, ProveAndSign, GoTo, End
<1>4. subscribed' \in BOOLEAN
  BY DEF IInv, RelayInv, TypeOK, Connect, Subscribe, ProveAndSign, nodeVars
<1>5. phase' \in {"prove", "publish"} => subscribed'
  BY DEF IInv, RunSoFar, Connect, Subscribe, ProveAndSign, GoTo, End, nodeVars
<1>6. TypeOK'
  BY <1>1, <1>2, <1>3, <1>4, DriverMovesOnly DEF Phases, Outcomes
<1>7. Conserved'
  BY <1>1, NothingMoves
<1>8. phase' = "poll" => received' = Nothing /\ dropped' = {}
  BY <1>3
<1>9. ReportsTrue' /\ HeardWhenPublished'
  BY <1>1, <1>2, <1>3 DEF ReportsTrue, HeardWhenPublished
<1>10. RunSoFar'
  BY <1>1, <1>2, <1>3, <1>5 DEF RunSoFar
<1>11. QED BY <1>6, <1>7, <1>8, <1>9, <1>10 DEF IInv, RelayInv

\* The network takes the candidate's envelope at most once.
LEMMA PublishInv == ASSUME IInv, Publish PROVE IInv'
<1>1. /\ UNCHANGED <<tries, received, dropped, subscribed, buffer, lost, peered>>
      /\ phase = "publish"
  BY DEF Publish, Relay, nodeVars, netVars
<1>2. /\ received = Nothing /\ dropped = {} /\ Mine \notin relayed
      /\ subscribed /\ tries < MaxTries
      /\ inflight \subseteq relayed
  BY <1>1 DEF IInv, RelayInv, TypeOK, RunSoFar
<1>3. \/ /\ relayed' = relayed \cup {Mine}
         /\ inflight' = inflight \cup {Mine}
         /\ \/ phase' = "poll" /\ outcome' = outcome
            \/ phase' = "end" /\ outcome' = "publish failed"
      \/ /\ UNCHANGED <<relayed, inflight>>
         /\ phase' = "end" /\ outcome' \in {"no peers", "publish failed"}
  BY DEF Publish, Relay, GoTo, End, netVars
<1>4. outcome = "none"
  BY <1>1 DEF IInv, RelayInv, TypeOK
<1>5. TypeOK'
  <2>1. phase' \in Phases /\ outcome' \in Outcomes
    BY <1>3, <1>4 DEF Phases, Outcomes
  <2>2. phase' = "end" <=> outcome' # "none"
    BY <1>3, <1>4
  <2>3. subscribed' \in BOOLEAN /\ peered' \in BOOLEAN
    BY <1>1 DEF IInv, RelayInv, TypeOK
  <2>4. /\ relayed' \subseteq Messages
        /\ inflight' \subseteq relayed'
        /\ lost' \subseteq relayed'
    BY <1>1, <1>3 DEF IInv, RelayInv, TypeOK, Messages, Credentials
  <2>5. /\ tries' \in 0 .. MaxTries
        /\ received' \in Credentials \cup {Nothing}
        /\ dropped' \subseteq Messages
        /\ buffer' \in Seq(Messages)
    BY <1>1 DEF IInv, RelayInv, TypeOK
  <2>6. QED BY <2>1, <2>2, <2>3, <2>4, <2>5 DEF TypeOK
<1>6. Conserved'
  <2>1. /\ relayed = inflight \cup lost \cup Range(buffer)
        /\ inflight \cap (lost \cup Range(buffer)) = {}
        /\ lost \cap Range(buffer) = {}
        /\ IsInjective(buffer)
    BY <1>2 DEF IInv, RelayInv, Conserved
  <2>2. /\ relayed' = inflight' \cup lost \cup Range(buffer)
        /\ inflight' \cap (lost \cup Range(buffer)) = {}
    BY <1>2, <1>3, <2>1
  <2>3. QED BY <1>1, <1>2, <2>1, <2>2 DEF Conserved
<1>7. ReportsTrue' /\ HeardWhenPublished'
  BY <1>1, <1>2, <1>3, <1>4 DEF ReportsTrue, HeardWhenPublished
<1>8. RunSoFar'
  BY <1>1, <1>2, <1>3 DEF RunSoFar
<1>9. QED BY <1>1, <1>2, <1>5, <1>6, <1>7, <1>8 DEF IInv, RelayInv

\* When the budget ends, the envelope is still the network's or in the buffer: it
\* was published, and nothing was taken.
LEMMA PollNothingInv == ASSUME IInv, PollNothing PROVE IInv'
<1>1. /\ UNCHANGED <<received, dropped, subscribed, buffer, peered, relayed,
                     inflight, lost>>
      /\ phase = "poll" /\ tries' = tries + 1
  BY DEF PollNothing, nodeVars, netVars
<1>2. /\ received = Nothing /\ dropped = {} /\ Mine \in relayed
      /\ subscribed /\ tries < MaxTries /\ tries \in 0 .. MaxTries
      /\ outcome = "none" /\ MaxTries \in Nat
  BY <1>1, RelayAssumption DEF IInv, RelayInv, TypeOK, RunSoFar
<1>3. \/ tries' = MaxTries /\ phase' = "end" /\ outcome' = "nothing arrived"
      \/ tries' # MaxTries /\ phase' = "poll" /\ outcome' = "none"
  BY <1>2 DEF PollNothing, GoTo, End
<1>4. /\ phase' \in Phases /\ outcome' \in Outcomes
      /\ phase' = "end" <=> outcome' # "none"
  BY <1>3 DEF Phases, Outcomes
<1>5. tries' \in 0 .. MaxTries /\ (tries' # MaxTries => tries' < MaxTries)
  BY <1>1, <1>2
<1>6. TypeOK'
  <2>1. subscribed' \in BOOLEAN
    BY <1>1 DEF IInv, RelayInv, TypeOK
  <2>2. QED BY <1>1, <1>4, <1>5, <2>1, DriverMovesOnly
<1>7. Conserved'
  BY <1>1, NothingMoves
<1>8. Mine \in inflight \cup lost \cup Range(buffer)
  BY <1>2 DEF IInv, RelayInv, Conserved
<1>9. ReportsTrue' /\ HeardWhenPublished'
  BY <1>1, <1>2, <1>3, <1>8 DEF ReportsTrue, HeardWhenPublished
<1>10. RunSoFar'
  BY <1>1, <1>2, <1>3, <1>5 DEF RunSoFar
<1>11. QED BY <1>1, <1>2, <1>6, <1>7, <1>9, <1>10 DEF IInv, RelayInv

\* What a poll takes out of the buffer is received or dropped, and nothing else.
LEMMA PollSomeInv == ASSUME IInv, PollSome PROVE IInv'
<1>1. /\ UNCHANGED <<tries, subscribed, peered, relayed, inflight, lost>>
      /\ phase = "poll" /\ buffer # <<>> /\ buffer' = <<>>
  BY DEF PollSome, netVars
<1>2. /\ received = Nothing /\ dropped = {} /\ Mine \in relayed
      /\ subscribed /\ outcome = "none" /\ tries < MaxTries
      /\ buffer \in Seq(Messages) /\ relayed \subseteq Messages
  BY <1>1 DEF IInv, RelayInv, TypeOK, RunSoFar
<1>3. \/ /\ Head(buffer) \in Credentials
         /\ received' = Head(buffer) /\ dropped' = Range(Tail(buffer))
         /\ phase' = "decide" /\ outcome' = "none"
      \/ /\ received' = Nothing /\ dropped' = Range(buffer)
         /\ phase' = "end" /\ outcome' = "undecodable"
  BY <1>2 DEF PollSome, GoTo, End
<1>4. /\ Range(buffer) = {Head(buffer)} \cup Range(Tail(buffer))
      /\ Head(buffer) \in Messages
  BY <1>1, <1>2, RangeOfTail
<1>5. /\ relayed = inflight \cup lost \cup Range(buffer)
      /\ inflight \cap (lost \cup Range(buffer)) = {}
      /\ lost \cap Range(buffer) = {}
      /\ Head(buffer) \notin Range(Tail(buffer))
  BY <1>1, <1>2, RangeOfTail DEF IInv, RelayInv, Conserved
<1>6. Nothing \notin Messages
  BY RelayAssumption
<1>7. TypeOK'
  <2>1. /\ phase' \in Phases /\ outcome' \in Outcomes
        /\ phase' = "end" <=> outcome' # "none"
    BY <1>3 DEF Phases, Outcomes
  <2>2. subscribed' \in BOOLEAN /\ peered' \in BOOLEAN
    BY <1>1 DEF IInv, RelayInv, TypeOK
  <2>3. received' \in Credentials \cup {Nothing} /\ dropped' \subseteq Messages
    BY <1>2, <1>3, <1>4, <1>5
  <2>4. buffer' \in Seq(Messages)
    BY <1>1
  <2>5. /\ tries' \in 0 .. MaxTries /\ relayed' \subseteq Messages
        /\ inflight' \subseteq relayed' /\ lost' \subseteq relayed'
    BY <1>1 DEF IInv, RelayInv, TypeOK
  <2>6. QED BY <2>1, <2>2, <2>3, <2>4, <2>5 DEF TypeOK
<1>8. Conserved'
  <2> DEFINE taken == dropped' \cup ({received'} \ {Nothing})
  <2>1. taken = Range(buffer) /\ received' \notin dropped'
    <3>1. CASE phase' = "decide"
      BY <1>3, <1>4, <1>5, <1>6, <3>1
    <3>2. CASE phase' = "end"
      BY <1>2, <1>3, <1>5, <1>6, <3>2
    <3>3. QED BY <1>3, <3>1, <3>2
  <2>2. Range(buffer') = {} /\ IsInjective(buffer')
    BY <1>1, RangeOfEmpty
  <2>3. /\ relayed' = inflight' \cup lost' \cup taken
        /\ inflight' \cap (lost' \cup taken) = {}
        /\ lost' \cap taken = {}
    BY <1>1, <1>5, <2>1
  <2>4. QED BY <2>1, <2>2, <2>3 DEF Conserved
<1>9. ReportsTrue' /\ HeardWhenPublished'
  BY <1>1, <1>2, <1>3 DEF ReportsTrue, HeardWhenPublished
<1>10. RunSoFar'
  BY <1>1, <1>2, <1>3 DEF RunSoFar
<1>11. QED BY <1>3, <1>7, <1>8, <1>9, <1>10 DEF IInv, RelayInv

LEMMA PollFailsInv == ASSUME IInv, PollFails PROVE IInv'
<1>1. /\ UNCHANGED <<tries, received, subscribed, peered, relayed, inflight, lost>>
      /\ phase = "poll" /\ phase' = "end" /\ outcome' = "poll failed"
      /\ \/ UNCHANGED <<dropped, buffer>>
         \/ dropped' = dropped \cup Range(buffer) /\ buffer' = <<>>
  BY DEF PollFails, netVars, End
<1>2. /\ received = Nothing /\ dropped = {} /\ subscribed
      /\ buffer \in Seq(Messages)
  BY <1>1 DEF IInv, RelayInv, TypeOK, RunSoFar
<1>3. /\ relayed = inflight \cup lost \cup Range(buffer)
      /\ inflight \cap (lost \cup Range(buffer)) = {}
      /\ lost \cap Range(buffer) = {}
      /\ IsInjective(buffer) /\ relayed \subseteq Messages
  BY <1>2 DEF IInv, RelayInv, Conserved, TypeOK
<1>4. TypeOK'
  <2>1. /\ phase' \in Phases /\ outcome' \in Outcomes
        /\ phase' = "end" <=> outcome' # "none"
    BY <1>1 DEF Phases, Outcomes
  <2>2. subscribed' \in BOOLEAN /\ peered' \in BOOLEAN
    BY <1>1 DEF IInv, RelayInv, TypeOK
  <2>3. dropped' \subseteq Messages
    BY <1>1, <1>2, <1>3
  <2>4. buffer' \in Seq(Messages)
    <3>1. <<>> \in Seq(Messages)
      OBVIOUS
    <3>2. QED BY <1>1, <1>2, <3>1
  <2>5. /\ tries' \in 0 .. MaxTries /\ relayed' \subseteq Messages
        /\ inflight' \subseteq relayed' /\ lost' \subseteq relayed'
        /\ received' \in Credentials \cup {Nothing}
    BY <1>1 DEF IInv, RelayInv, TypeOK
  <2>6. QED BY <2>1, <2>2, <2>3, <2>4, <2>5 DEF TypeOK
<1>5. Conserved'
  <2>1. CASE UNCHANGED <<dropped, buffer>>
    BY <1>1, <2>1, NothingMoves
  <2>2. CASE dropped' = Range(buffer) /\ buffer' = <<>>
    <3>1. Range(buffer') = {} /\ IsInjective(buffer')
      BY <2>2, RangeOfEmpty
    <3>2. received' \notin dropped'
      BY <1>1, <1>2, <1>3, <2>2, RelayAssumption
    <3>3. QED BY <1>1, <1>2, <1>3, <2>2, <3>1, <3>2 DEF Conserved
  <2>3. QED BY <1>1, <1>2, <2>1, <2>2
<1>6. ReportsTrue' /\ HeardWhenPublished'
  BY <1>1, <1>2 DEF ReportsTrue, HeardWhenPublished
<1>7. RunSoFar'
  BY <1>1 DEF RunSoFar
<1>8. QED BY <1>1, <1>4, <1>5, <1>6, <1>7 DEF IInv, RelayInv

\* Whatever the roster admits was relayed: it was taken out of the buffer.
LEMMA DecideInv == ASSUME IInv, Decide PROVE IInv'
<1>1. /\ UNCHANGED <<tries, received, dropped, subscribed, buffer, peered, relayed,
                     inflight, lost>>
      /\ phase = "decide" /\ phase' = "end"
      /\ outcome' = IF received \in Admissible THEN "admitted" ELSE "refused"
  BY DEF Decide, End, nodeVars, netVars
<1>2. received \in Credentials /\ subscribed
  BY <1>1 DEF IInv, RunSoFar
<1>3. TypeOK'
  <2>1. /\ phase' \in Phases /\ outcome' \in Outcomes
        /\ phase' = "end" <=> outcome' # "none"
    BY <1>1 DEF Phases, Outcomes
  <2>2. subscribed' \in BOOLEAN /\ tries' \in 0 .. MaxTries
    BY <1>1 DEF IInv, RelayInv, TypeOK
  <2>3. QED BY <1>1, <2>1, <2>2, DriverMovesOnly
<1>4. Conserved'
  BY <1>1, NothingMoves
<1>5. received \in relayed
  BY <1>2, RelayAssumption DEF IInv, RelayInv, Conserved, Messages
<1>6. ReportsTrue' /\ HeardWhenPublished'
  BY <1>1, <1>2, <1>5 DEF ReportsTrue, HeardWhenPublished
<1>7. RunSoFar'
  BY <1>1 DEF RunSoFar
<1>8. QED BY <1>1, <1>3, <1>4, <1>6, <1>7 DEF IInv, RelayInv

\* A step of the network leaves the driver where it is.
LEMMA NetworkKeepsRun ==
    ASSUME IInv, UNCHANGED <<driverVars, subscribed>>,
           relayed \subseteq relayed', Mine \in relayed' => Mine \in relayed,
           Mine \in inflight \cup lost \cup Range(buffer) =>
              Mine \in inflight' \cup lost' \cup Range(buffer')
    PROVE  /\ phase' = "poll" => received' = Nothing /\ dropped' = {}
           /\ ReportsTrue' /\ HeardWhenPublished' /\ RunSoFar'
<1> USE DEF driverVars, IInv
<1>1. phase' = "poll" => received' = Nothing /\ dropped' = {}
  BY DEF RelayInv
<1>2. ReportsTrue' /\ HeardWhenPublished'
  BY DEF ReportsTrue, HeardWhenPublished
<1>3. RunSoFar'
  BY DEF RunSoFar
<1>4. QED BY <1>1, <1>2, <1>3

\* ... and keeps the types, if it keeps those of the messages.
LEMMA NetworkTypes ==
    ASSUME IInv, UNCHANGED <<driverVars, subscribed>>, peered' \in BOOLEAN,
           buffer' \in Seq(Messages), relayed' \subseteq Messages,
           inflight' \subseteq relayed', lost' \subseteq relayed'
    PROVE  TypeOK'
<1>1. /\ phase' \in Phases /\ outcome' \in Outcomes
      /\ phase' = "end" <=> outcome' # "none"
      /\ tries' \in 0 .. MaxTries
  BY DEF driverVars, IInv, RelayInv, TypeOK
<1>2. received' \in Credentials \cup {Nothing} /\ dropped' \subseteq Messages
  BY DEF driverVars, IInv, RelayInv, TypeOK
<1>3. subscribed' \in BOOLEAN
  BY DEF IInv, RelayInv, TypeOK
<1>4. QED BY <1>1, <1>2, <1>3 DEF TypeOK

LEMMA PeersChangeInv == ASSUME IInv, PeersChange PROVE IInv'
<1>1. /\ UNCHANGED <<driverVars, subscribed, buffer, relayed, inflight, lost>>
      /\ UNCHANGED <<received, dropped>>
      /\ peered' \in BOOLEAN
  BY DEF PeersChange, driverVars, nodeVars
<1>2. TypeOK'
  <2>1. /\ buffer' \in Seq(Messages) /\ relayed' \subseteq Messages
        /\ inflight' \subseteq relayed' /\ lost' \subseteq relayed'
    BY <1>1 DEF IInv, RelayInv, TypeOK
  <2>2. QED BY <1>1, <2>1, NetworkTypes
<1>3. Conserved'
  BY <1>1, NothingMoves
<1>4. QED BY <1>1, <1>2, <1>3, NetworkKeepsRun DEF IInv, RelayInv

LEMMA OthersPublishInv ==
    ASSUME IInv, NEW m \in Foreign \cup Junk, OthersPublish(m)
    PROVE  IInv'
<1>1. /\ UNCHANGED <<driverVars, subscribed, buffer, peered, lost>>
      /\ UNCHANGED <<received, dropped>>
      /\ relayed' = relayed \cup {m} /\ inflight' = inflight \cup {m}
      /\ m \notin relayed
  BY DEF OthersPublish, Relay, driverVars, nodeVars
<1>2. m \in Messages /\ m # Mine
  BY RelayAssumption DEF Messages, Credentials
<1>3. TypeOK'
  <2>1. peered' \in BOOLEAN
    BY <1>1 DEF IInv, RelayInv, TypeOK
  <2>2. /\ buffer' \in Seq(Messages) /\ relayed' \subseteq Messages
        /\ inflight' \subseteq relayed' /\ lost' \subseteq relayed'
    BY <1>1, <1>2 DEF IInv, RelayInv, TypeOK
  <2>3. QED BY <1>1, <2>1, <2>2, NetworkTypes
<1>4. Conserved'
  <2> DEFINE taken == dropped \cup ({received} \ {Nothing})
  <2>1. /\ relayed = inflight \cup lost \cup Range(buffer) \cup taken
        /\ inflight \cap (lost \cup Range(buffer) \cup taken) = {}
        /\ lost \cap (Range(buffer) \cup taken) = {}
        /\ Range(buffer) \cap taken = {}
        /\ received \notin dropped /\ IsInjective(buffer)
    BY DEF IInv, RelayInv, Conserved
  <2>2. /\ relayed' = inflight' \cup lost \cup Range(buffer) \cup taken
        /\ inflight' \cap (lost \cup Range(buffer) \cup taken) = {}
    BY <1>1, <2>1
  <2>3. QED BY <1>1, <2>1, <2>2 DEF Conserved
<1>5. QED BY <1>1, <1>2, <1>3, <1>4, NetworkKeepsRun DEF IInv, RelayInv

\* A message that arrives is moved from the network to the buffer, or lost where
\* the node does not listen.
LEMMA DeliverInv ==
    ASSUME IInv, NEW m \in inflight, Deliver(m) \/ Lose(m)
    PROVE  IInv'
<1>1. /\ UNCHANGED <<driverVars, subscribed, peered, relayed>>
      /\ UNCHANGED <<received, dropped>>
      /\ inflight' = inflight \ {m}
      /\ \/ buffer' = Append(buffer, m) /\ UNCHANGED lost
         \/ lost' = lost \cup {m} /\ UNCHANGED buffer
  BY DEF Deliver, Lose, driverVars, nodeVars
<1> DEFINE taken == dropped \cup ({received} \ {Nothing})
<1>2. /\ relayed = inflight \cup lost \cup Range(buffer) \cup taken
      /\ inflight \cap (lost \cup Range(buffer) \cup taken) = {}
      /\ lost \cap (Range(buffer) \cup taken) = {}
      /\ Range(buffer) \cap taken = {}
      /\ received \notin dropped /\ IsInjective(buffer)
  BY DEF IInv, RelayInv, Conserved
<1>3. buffer \in Seq(Messages) /\ m \in Messages /\ m \notin Range(buffer)
  BY <1>2 DEF IInv, RelayInv, TypeOK
<1>4. /\ Append(buffer, m) \in Seq(Messages)
      /\ Range(Append(buffer, m)) = Range(buffer) \cup {m}
      /\ IsInjective(Append(buffer, m))
  BY <1>2, <1>3, RangeOfAppend
<1>5. /\ buffer' \in Seq(Messages)
      /\ \/ Range(buffer') = Range(buffer) \cup {m} /\ lost' = lost
         \/ Range(buffer') = Range(buffer) /\ lost' = lost \cup {m}
      /\ IsInjective(buffer')
  BY <1>1, <1>2, <1>3, <1>4
<1>6. TypeOK'
  <2>1. peered' \in BOOLEAN
    BY <1>1 DEF IInv, RelayInv, TypeOK
  <2>2. /\ relayed' \subseteq Messages /\ inflight' \subseteq relayed'
        /\ lost' \subseteq relayed'
    BY <1>1, <1>2 DEF IInv, RelayInv, TypeOK
  <2>3. QED BY <1>1, <1>5, <2>1, <2>2, NetworkTypes
<1>7. Conserved'
  <2>1. relayed = inflight' \cup lost' \cup Range(buffer') \cup taken
    BY <1>1, <1>2, <1>5
  <2>2. /\ inflight' \cap (lost' \cup Range(buffer') \cup taken) = {}
        /\ lost' \cap (Range(buffer') \cup taken) = {}
        /\ Range(buffer') \cap taken = {}
    BY <1>1, <1>2, <1>5
  <2>3. QED BY <1>1, <1>2, <1>5, <2>1, <2>2 DEF Conserved
<1>8. Mine \in inflight \cup lost \cup Range(buffer) =>
         Mine \in inflight' \cup lost' \cup Range(buffer')
  BY <1>1, <1>5
<1>9. QED BY <1>1, <1>6, <1>7, <1>8, NetworkKeepsRun DEF IInv, RelayInv

LEMMA NextInv == IInv /\ [Next]_vars => IInv'
<1> SUFFICES ASSUME IInv, [Next]_vars PROVE IInv'
  OBVIOUS
<1>1. CASE Driver
  BY <1>1, BeforePublishInv, PublishInv, PollNothingInv, PollSomeInv,
     PollFailsInv, DecideInv DEF Driver
<1>2. CASE Network
  BY <1>2, PeersChangeInv, OthersPublishInv, DeliverInv DEF Network
<1>3. CASE UNCHANGED vars
  BY <1>3 DEF vars, IInv, RelayInv, TypeOK, Conserved, ReportsTrue,
              HeardWhenPublished, RunSoFar
<1>4. QED BY <1>1, <1>2, <1>3 DEF Next

-----------------------------------------------------------------------------
\* The invariant of the run, whatever the network delays, loses and carries for
\* others.
THEOREM Invariance == Spec => []IInv
<1>1. QED BY InitInv, NextInv, PTL DEF Spec

\* No message is in two places and none that was relayed is nowhere; a poll that
\* drops messages is the last of the run.
THEOREM NothingVanishes == Spec => []RelayInv
<1>1. IInv => RelayInv
  BY DEF IInv
<1>2. QED BY <1>1, Invariance, PTL

\* "No peers", "nothing arrived" and "admitted" are only reported when that is what
\* happened.
THEOREM Reported == Spec => []ReportsTrue
<1>1. IInv => ReportsTrue
  BY DEF IInv
<1>2. QED BY <1>1, Invariance, PTL

\* The operator's node is subscribed before the candidate publishes.
THEOREM Heard == Spec => []HeardWhenPublished
<1>1. IInv => HeardWhenPublished
  BY DEF IInv
<1>2. QED BY <1>1, Invariance, PTL

\* Numbers that are not all in a set have a least one that is not.
LEMMA LeastNumber ==
    ASSUME NEW T \in SUBSET Nat, T # {}
    PROVE  \E m \in T : \A k \in T : ~(k < m)
<1>1. IsWellFoundedOn(OpToRel(<, Nat), Nat)
  BY NatLessThanWellFounded
<1>2. PICK m \in T : \A k \in T : ~(<<k, m>> \in OpToRel(<, Nat))
  BY <1>1, WFMin
<1>3. \A k \in T : ~(k < m)
  BY <1>2 DEF OpToRel
<1>4. QED BY <1>3

\* Induction, over the numbers up to a bound, for a property given as a set.
LEMMA UpTo ==
    ASSUME NEW N \in Nat, NEW T, 0 \in T,
           \A n \in 0 .. N : n \in T /\ n + 1 \in 0 .. N => n + 1 \in T
    PROVE  0 .. N \subseteq T
<1> DEFINE Left == {n \in Nat : n \in 0 .. N /\ n \notin T}
<1> SUFFICES ASSUME Left # {} PROVE FALSE
  OBVIOUS
<1>1. PICK m \in Left : \A k \in Left : ~(k < m)
  BY LeastNumber
<1>2. m # 0 /\ m \in Nat /\ m \in 0 .. N
  BY <1>1
<1>3. m - 1 \in 0 .. N /\ m - 1 \in Nat /\ m - 1 < m /\ (m - 1) + 1 = m
  BY <1>2
<1>4. m - 1 \in T
  BY <1>1, <1>3
<1>5. m \in T
  BY <1>2, <1>3, <1>4
<1>6. QED BY <1>1, <1>5

\* A number by what a division by p leaves of it.
LEMMA DivMod ==
    ASSUME NEW p \in Nat, p > 0, NEW q \in Nat, NEW r \in Nat, r < p
    PROVE  /\ (q * p + r) \div p = q
           /\ (q * p + r) % p = r
  OBVIOUS


-----------------------------------------------------------------------------
(* Folds over a sequence.                                                  *)

\* What takes a value and a position to the next value.
Steps(V, n) == [V \X (1 .. n) -> V]

\* A fold over sets of positions, the last position of each first.
Turn(it, base, step, s) == IF s = {} THEN base ELSE step[<<it[s \ {Max(s)}], Max(s)>>]

IsFold(it, V, n, base, step) ==
    /\ it \in [SUBSET (1 .. n) -> V]
    /\ \A s \in SUBSET (1 .. n) : it[s] = Turn(it, base, step, s)

\* What folds as long as its values are of the kind that the step is for.
FoldsOn(it, V, n, base, step) ==
    \A s \in SUBSET (1 .. n) :
        (s = {} \/ it[s \ {Max(s)}] \in V) => it[s] = Turn(it, base, step, s)

\* The values of a fold, position by position.
IsRun(run, V, n, base, step) ==
    /\ run \in [0 .. n -> V]
    /\ run[0] = base
    /\ \A k \in 1 .. n : run[k] = step[<<run[k - 1], k>>]

LEMMA GreatestOf ==
    ASSUME NEW n \in Nat, NEW s \in SUBSET (1 .. n), n \in s
    PROVE  Max(s) = n
<1>1. \A y \in s : n >= y
  OBVIOUS
<1>2. ASSUME NEW x \in s, \A y \in s : x >= y PROVE x = n
  <2>1. x >= n /\ n >= x /\ x \in Nat
    BY <1>1, <1>2
  <2>2. QED BY <2>1
<1>3. Max(s) \in s /\ \A y \in s : Max(s) >= y
  BY <1>1 DEF Max
<1>4. QED BY <1>2, <1>3

\* What a fold over a sequence of n elements is defined by exists: one function on
\* the sets of positions, built position by position.
LEMMA Recursion ==
    ASSUME NEW n \in Nat, NEW V, NEW base \in V, NEW step \in Steps(V, n)
    PROVE  \E it : IsFold(it, V, n, base, step)
<1> DEFINE Value(it, s) == IF s = {} THEN base ELSE step[<<it[s \ {Max(s)}], Max(s)>>]
           Folds(m, it) == /\ it \in [SUBSET (1 .. m) -> V]
                           /\ \A s \in SUBSET (1 .. m) : it[s] = Value(it, s)
           T == {m \in Nat : \E it : Folds(m, it)}
<1>0. step \in [V \X (1 .. n) -> V]
  BY DEF Steps
<1>1. 0 \in T
  <2>1. Folds(0, [s \in SUBSET (1 .. 0) |-> base])
    OBVIOUS
  <2> HIDE DEF Folds
  <2>2. QED BY <2>1
<1>2. ASSUME NEW m \in 0 .. n, m \in T, m + 1 \in 0 .. n PROVE m + 1 \in T
  <2>1. PICK f : Folds(m, f)
    BY <1>2
  <2>2. m \in Nat /\ m + 1 \in 1 .. n /\ 1 .. m \subseteq 1 .. m + 1
    BY <1>2
  <2> DEFINE g == [s \in SUBSET (1 .. m + 1) |->
                      IF m + 1 \in s THEN step[<<f[s \ {m + 1}], m + 1>>] ELSE f[s]]
  <2>3. ASSUME NEW s \in SUBSET (1 .. m + 1) PROVE g[s] \in V /\ g[s] = Value(g, s)
    <3>1. CASE m + 1 \in s
      <4>1. s \ {m + 1} \in SUBSET (1 .. m) /\ s \ {m + 1} \in SUBSET (1 .. m + 1)
        BY <2>2
      <4>2. f[s \ {m + 1}] \in V /\ g[s \ {m + 1}] = f[s \ {m + 1}]
        BY <2>1, <4>1
      <4>3. Max(s) = m + 1
        BY <2>2, <3>1, GreatestOf
      <4>4. g[s] = step[<<f[s \ {m + 1}], m + 1>>] /\ s # {}
        BY <3>1
      <4>5. g[s] \in V
        BY <1>0, <2>2, <4>2, <4>4
      <4> HIDE DEF g
      <4>6. QED BY <4>2, <4>3, <4>4, <4>5
    <3>2. CASE m + 1 \notin s
      <4>1. s \in SUBSET (1 .. m) /\ s \ {Max(s)} \in SUBSET (1 .. m)
        <5>1. \A x \in 1 .. m + 1 : x # m + 1 => x \in 1 .. m
          BY <2>2
        <5>2. \A x \in s : x \in 1 .. m + 1 /\ x # m + 1
          BY <3>2
        <5>3. QED BY <5>1, <5>2
      <4>2. f[s] \in V /\ f[s] = Value(f, s)
        BY <2>1, <4>1
      <4>3. g[s] = f[s] /\ g[s \ {Max(s)}] = f[s \ {Max(s)}]
        <5>1. m + 1 \notin s \ {Max(s)}
          BY <3>2
        <5>2. s \ {Max(s)} \in SUBSET (1 .. m + 1)
          OBVIOUS
        <5>3. QED BY <3>2, <5>1, <5>2
      <4> HIDE DEF g
      <4>4. QED BY <4>2, <4>3
    <3>3. QED BY <3>1, <3>2
  <2>4. g \in [SUBSET (1 .. m + 1) -> V]
    BY <2>3
  <2>5. Folds(m + 1, g)
    BY <2>3, <2>4
  <2>6. \E it : Folds(m + 1, it)
    <3> HIDE DEF Folds, g
    <3>1. QED BY <2>5
  <2> HIDE DEF Folds
  <2>7. QED BY <2>2, <2>6
<1>3. n \in T
  <2> HIDE DEF T
  <2>1. 0 .. n \subseteq T
    BY <1>1, <1>2, UpTo
  <2>2. n \in 0 .. n
    OBVIOUS
  <2>3. QED BY <2>1, <2>2
<1>4. PICK it : Folds(n, it)
  BY <1>3
<1>5. IsFold(it, V, n, base, step)
  BY <1>4 DEF IsFold, Turn
<1>6. QED BY <1>5

\* From all positions up to k, a fold goes on to those up to k - 1.
LEMMA Before ==
    ASSUME NEW n \in Nat, NEW k \in 1 .. n
    PROVE  /\ 1 .. k \in SUBSET (1 .. n)
           /\ 1 .. k # {}
           /\ Max(1 .. k) = k
           /\ (1 .. k) \ {k} = 1 .. k - 1
<1>1. 1 .. k \in SUBSET (1 .. k) /\ k \in 1 .. k /\ k \in Nat
  OBVIOUS
<1>2. Max(1 .. k) = k
  BY <1>1, GreatestOf
<1>3. QED BY <1>1, <1>2

LEMMA GreatestIn ==
    ASSUME NEW n \in Nat, NEW s \in SUBSET (1 .. n), s # {}
    PROVE  Max(s) \in 1 .. n /\ Max(s) \in s
<1> DEFINE Short == {k \in Nat : \E x \in s : k = n - x}
<1>1. \A x \in s : x \in Nat /\ x <= n /\ n - x \in Nat
  OBVIOUS
<1>2. Short # {}
  BY <1>1
<1>3. PICK k \in Short : \A j \in Short : ~(j < k)
  <2> HIDE DEF Short
  <2>1. Short \in SUBSET Nat
    BY DEF Short
  <2>2. QED BY <1>2, <2>1, LeastNumber
<1>4. PICK x \in s : k = n - x
  BY <1>3
<1>5. ASSUME NEW y \in s PROVE x >= y
  <2>1. n - y \in Short
    BY <1>1
  <2>2. ~(n - y < n - x) /\ n - y \in Nat /\ n - x \in Nat /\ x \in Nat /\ y \in Nat
    BY <1>1, <1>3, <1>4, <2>1
  <2>3. QED BY <2>2
<1>6. Max(s) \in s
  BY <1>4, <1>5 DEF Max
<1>7. QED BY <1>6

\* What a fold is, position by position.
LEMMA RunOf ==
    ASSUME NEW n \in Nat, NEW V, NEW base \in V, NEW step \in Steps(V, n),
           NEW It, FoldsOn(It, V, n, base, step)
    PROVE  \E run : IsRun(run, V, n, base, step) /\ It[1 .. n] = run[n]
<1> DEFINE run == [k \in 0 .. n |-> It[1 .. k]]
           T == {k \in Nat : It[1 .. k] \in V}
<1>0. {} \in SUBSET (1 .. n) /\ 1 .. 0 = {}
  OBVIOUS
<1>1. 1 .. 0 = {} /\ It[{}] = base
  BY <1>0 DEF FoldsOn, Turn
<1>2. ASSUME NEW k \in 1 .. n, It[1 .. k - 1] \in V
      PROVE  It[1 .. k] = step[<<It[1 .. k - 1], k>>] /\ It[1 .. k] \in V
  <2>1. /\ 1 .. k \in SUBSET (1 .. n)
        /\ 1 .. k # {}
        /\ Max(1 .. k) = k
        /\ (1 .. k) \ {k} = 1 .. k - 1
    BY Before
  <2>2. It[1 .. k] = step[<<It[1 .. k - 1], k>>]
    BY <1>2, <2>1 DEF FoldsOn, Turn
  <2>3. <<It[1 .. k - 1], k>> \in V \X (1 .. n)
    BY <1>2
  <2>4. QED BY <2>2, <2>3 DEF Steps
<1>3. 0 \in T
  BY <1>1
<1>4. ASSUME NEW k \in 0 .. n, k \in T, k + 1 \in 0 .. n PROVE k + 1 \in T
  <2>1. k + 1 \in 1 .. n /\ (k + 1) - 1 = k /\ k + 1 \in Nat
    BY <1>4
  <2>2. It[1 .. (k + 1) - 1] \in V
    BY <1>4, <2>1
  <2>3. It[1 .. k + 1] \in V
    BY <1>2, <2>1, <2>2
  <2>4. QED BY <2>1, <2>3
<1>5. \A k \in 0 .. n : It[1 .. k] \in V
  <2> HIDE DEF T
  <2>1. 0 .. n \subseteq T
    BY <1>3, <1>4, UpTo
  <2>2. QED BY <2>1 DEF T
<1>6. run \in [0 .. n -> V] /\ run[0] = base /\ It[1 .. n] = run[n]
  BY <1>1, <1>5
<1>7. ASSUME NEW k \in 1 .. n PROVE run[k] = step[<<run[k - 1], k>>]
  <2>1. k \in 0 .. n /\ k - 1 \in 0 .. n
    OBVIOUS
  <2>2. It[1 .. k] = step[<<It[1 .. k - 1], k>>]
    BY <1>2, <1>5, <2>1
  <2>3. QED BY <2>1, <2>2
<1> HIDE DEF run
<1>8. IsRun(run, V, n, base, step) /\ It[1 .. n] = run[n]
  BY <1>6, <1>7 DEF IsRun
<1>9. QED BY <1>8

LEMMA ElementsOf ==
    ASSUME NEW S, NEW s \in Seq(S)
    PROVE  /\ Len(s) \in Nat
           /\ DOMAIN s = 1 .. Len(s)
           /\ \A k \in 1 .. Len(s) : s[k] \in S
  OBVIOUS

LEMMA Joined ==
    ASSUME NEW S, NEW s \in Seq(S), NEW t \in Seq(S)
    PROVE  /\ s \o t \in Seq(S)
           /\ Len(s \o t) = Len(s) + Len(t)
           /\ \A k \in 1 .. Len(s) : (s \o t)[k] = s[k]
           /\ \A k \in 1 .. Len(t) : (s \o t)[Len(s) + k] = t[k]
<1>1. Len(s) \in Nat /\ Len(t) \in Nat
  BY ElementsOf
<1>2. /\ s \o t \in Seq(S) /\ Len(s \o t) = Len(s) + Len(t)
      /\ \A i \in 1 .. Len(s) + Len(t) :
            (s \o t)[i] = IF i <= Len(s) THEN s[i] ELSE t[i - Len(s)]
  BY ConcatProperties
<1>3. ASSUME NEW k \in 1 .. Len(s) PROVE (s \o t)[k] = s[k]
  <2>1. k \in 1 .. Len(s) + Len(t) /\ k <= Len(s)
    BY <1>1
  <2>2. QED BY <1>2, <2>1
<1>4. ASSUME NEW k \in 1 .. Len(t) PROVE (s \o t)[Len(s) + k] = t[k]
  <2>1. Len(s) + k \in 1 .. Len(s) + Len(t) /\ ~(Len(s) + k <= Len(s))
        /\ (Len(s) + k) - Len(s) = k
    BY <1>1
  <2>2. QED BY <1>2, <2>1
<1>5. QED BY <1>2, <1>3, <1>4

-----------------------------------------------------------------------------
(* Sequences of sequences put one behind the other.                        *)

Prefix(a, b) == Len(a) <= Len(b) /\ \A i \in 1 .. Len(a) : b[i] = a[i]

\* What stands in front, block by block.
Fronts(run, S, seqs) ==
    /\ run \in [0 .. Len(seqs) -> Seq(S)]
    /\ run[0] = <<>>
    /\ \A k \in 1 .. Len(seqs) : run[k] = run[k - 1] \o seqs[k]

LEMMA Flattened ==
    ASSUME NEW S, NEW seqs \in Seq(Seq(S))
    PROVE  \E run : Fronts(run, S, seqs) /\ FlattenSeq(seqs) = run[Len(seqs)]
<1> DEFINE n == Len(seqs)
           V == Seq(S)
           none == <<>>
           step == [p \in V \X (1 .. n) |-> p[1] \o seqs[p[2]]]
<1>1. n \in Nat /\ \A k \in 1 .. n : seqs[k] \in V
  BY ElementsOf
<1>2. none \in V
  OBVIOUS
<1>3. \A v \in V, k \in 1 .. n : step[<<v, k>>] = v \o seqs[k] /\ v \o seqs[k] \in V
  BY <1>1, Joined
<1>4. step \in Steps(V, n)
  BY <1>3 DEF Steps
<1> HIDE DEF n, V, none, step
<1>5. PICK it : IsFold(it, V, n, none, step)
  BY <1>1, <1>2, <1>4, Recursion
<1>6. FoldsOn(it, V, n, none, step)
  BY <1>5 DEF IsFold, FoldsOn
<1>7. PICK run : IsRun(run, V, n, none, step)
  BY <1>1, <1>2, <1>4, <1>6, RunOf
<1>8. /\ run \in [0 .. n -> V]
      /\ run[0] = none
      /\ \A k \in 1 .. n : run[k] = step[<<run[k - 1], k>>]
  BY <1>7 DEF IsRun
<1>9. ASSUME NEW k \in 1 .. n PROVE run[k] = run[k - 1] \o seqs[k]
  <2>1. k - 1 \in 0 .. n /\ run[k - 1] \in V
    BY <1>1, <1>8
  <2>2. QED BY <1>3, <1>8, <2>1
<1>10. Fronts(run, S, seqs)
  BY <1>8, <1>9 DEF Fronts, n, V, none
<1>11. FlattenSeq(seqs) = run[n]
  <2> DEFINE Is(f) == f = [i \in 1 .. n |-> IF i = 1 THEN seqs[i] ELSE f[i - 1] \o seqs[i]]
             Flat == CHOOSE f : Is(f)
             g == [i \in 1 .. n |-> run[i]]
  <2>1. CASE n = 0
    <3>1. FlattenSeq(seqs) = seqs /\ seqs = <<>>
      BY <2>1 DEF FlattenSeq, n
    <3>2. QED BY <1>8, <2>1, <3>1 DEF none
  <2>2. CASE n # 0
    <3>1. FlattenSeq(seqs) = Flat[n]
      BY <2>2 DEF FlattenSeq, n
    <3>2. n \in 1 .. n /\ 1 \in 1 .. n
      BY <1>1, <2>2
    <3>3. run[1] = seqs[1]
      <4>1. ASSUME NEW k \in 1 .. n, k = 1 PROVE run[k] = none \o seqs[k]
        <5>1. k - 1 = 0
          BY <4>1
        <5>2. run[k] = run[k - 1] \o seqs[k]
          BY <1>9, Zenon
        <5>3. QED BY <1>8, <5>1, <5>2
      <4>2. run[1] = none \o seqs[1]
        BY <3>2, <4>1
      <4>3. seqs[1] \in Seq(S)
        BY <1>1, <3>2 DEF V
      <4>4. QED BY <4>2, <4>3, ConcatEmptySeq DEF none
    <3>4. ASSUME NEW i \in 1 .. n, i # 1 PROVE i - 1 \in 1 .. n
      BY <1>1, <3>4
    <3>5. ASSUME NEW i \in 1 .. n
          PROVE  g[i] = IF i = 1 THEN seqs[i] ELSE g[i - 1] \o seqs[i]
      BY <1>9, <3>3, <3>4
    <3>6. Is(g)
      BY <3>5
    <3> HIDE DEF g
    <3>7. Is(Flat)
      <4> HIDE DEF Is
      <4>1. QED BY <3>6
    <3> HIDE DEF Flat
    <3> DEFINE T == {k \in Nat : k # 0 => Flat[k] = run[k]}
    <3>8. 0 \in T
      OBVIOUS
    <3>9. ASSUME NEW k \in 0 .. n, k \in T, k + 1 \in 0 .. n PROVE k + 1 \in T
      <4>1. k + 1 \in 1 .. n /\ (k + 1) - 1 = k /\ k + 1 \in Nat
        BY <1>1, <3>9
      <4>2. CASE k = 0
        <5>1. Flat[1] = seqs[1]
          BY <3>2, <3>7
        <5>2. QED BY <3>3, <4>1, <4>2, <5>1
      <4>3. CASE k # 0
        <5>1. k + 1 # 1 /\ Flat[k] = run[k]
          BY <3>9, <4>1, <4>3
        <5>2. Flat[k + 1] = Flat[k] \o seqs[k + 1] /\ run[k + 1] = run[k] \o seqs[k + 1]
          BY <1>9, <3>7, <4>1, <5>1
        <5>3. QED BY <4>1, <5>1, <5>2
      <4>4. QED BY <4>2, <4>3
    <3>10. Flat[n] = run[n]
      <4> HIDE DEF T
      <4>1. 0 .. n \subseteq T
        BY <1>1, <3>8, <3>9, UpTo
      <4>2. n \in T
        BY <1>1, <4>1
      <4>3. QED BY <2>2, <4>2 DEF T
    <3>11. QED BY <3>1, <3>10
  <2>3. QED BY <2>1, <2>2
<1>12. QED BY <1>10, <1>11 DEF n

\* Whatever stands in front stays in front.
LEMMA FrontsStay ==
    ASSUME NEW S, NEW seqs \in Seq(Seq(S)), NEW run, Fronts(run, S, seqs),
           NEW k \in 0 .. Len(seqs)
    PROVE  run[k] \in Seq(S) /\ Prefix(run[k], run[Len(seqs)])
<1> DEFINE n == Len(seqs)
           T == {m \in Nat : k + m <= n => Prefix(run[k], run[k + m])}
<1>1. /\ n \in Nat /\ \A i \in 1 .. n : seqs[i] \in Seq(S)
      /\ \A i \in 0 .. n : run[i] \in Seq(S)
      /\ \A i \in 1 .. n : run[i] = run[i - 1] \o seqs[i]
  BY ElementsOf DEF Fronts
<1>2. k \in Nat /\ k <= n /\ n - k \in Nat /\ k \in 0 .. n
  BY <1>1
<1> HIDE DEF n
<1>3. 0 \in T
  <2>1. Len(run[k]) \in Nat
    BY <1>1, <1>2, ElementsOf
  <2>2. k + 0 = k
    BY <1>2
  <2>3. QED BY <2>1, <2>2 DEF Prefix
<1>4. ASSUME NEW m \in 0 .. n - k, m \in T, m + 1 \in 0 .. n - k PROVE m + 1 \in T
  <2> DEFINE a == run[k]
             b == run[k + m]
             c == seqs[k + (m + 1)]
             d == run[k + (m + 1)]
  <2>1. /\ k + (m + 1) \in 1 .. n /\ (k + (m + 1)) - 1 = k + m /\ k + m \in 0 .. n
        /\ m + 1 \in Nat /\ k + m <= n
    BY <1>1, <1>2, <1>4
  <2>2. a \in Seq(S) /\ b \in Seq(S) /\ c \in Seq(S) /\ d = b \o c /\ Prefix(a, b)
    BY <1>1, <1>2, <1>4, <2>1
  <2> HIDE DEF a, b, c, d
  <2>3. /\ Len(d) = Len(b) + Len(c)
        /\ \A i \in 1 .. Len(b) : d[i] = b[i]
        /\ Len(a) \in Nat /\ Len(b) \in Nat /\ Len(c) \in Nat
    BY <2>2, Joined, ElementsOf
  <2>4. Prefix(a, d)
    <3>1. Len(a) <= Len(d) /\ \A i \in 1 .. Len(a) : i \in 1 .. Len(b)
      BY <2>2, <2>3 DEF Prefix
    <3>2. QED BY <2>2, <2>3, <3>1 DEF Prefix
  <2>5. QED BY <2>1, <2>4 DEF a, d
<1>5. Prefix(run[k], run[n])
  <2> HIDE DEF T
  <2>1. 0 .. n - k \subseteq T
    BY <1>2, <1>3, <1>4, UpTo
  <2>2. n - k \in T /\ k + (n - k) = n
    BY <1>1, <1>2, <2>1
  <2>3. QED BY <1>1, <2>2 DEF T
<1>6. QED BY <1>1, <1>2, <1>5 DEF n

\* A block is found behind what stands in front of it.
BlockHeld(run, seqs, k) ==
    /\ Len(run[k]) = Len(run[k - 1]) + Len(seqs[k])
    /\ Len(run[k]) <= Len(run[Len(seqs)])
    /\ \A i \in 1 .. Len(seqs[k]) : run[Len(seqs)][Len(run[k - 1]) + i] = seqs[k][i]

LEMMA BlockAt ==
    ASSUME NEW S, NEW seqs \in Seq(Seq(S)), NEW run, Fronts(run, S, seqs),
           NEW k \in 1 .. Len(seqs)
    PROVE  BlockHeld(run, seqs, k)
<1> DEFINE n == Len(seqs)
           a == run[k - 1]
           c == seqs[k]
           b == run[k]
           all == run[n]
<1>1. n \in Nat /\ k \in 0 .. n /\ k - 1 \in 0 .. n /\ c \in Seq(S)
  BY ElementsOf
<1>2. b \in Seq(S) /\ Prefix(b, all) /\ a \in Seq(S)
  BY <1>1, FrontsStay
<1>3. b = a \o c
  BY DEF Fronts
<1> HIDE DEF a, b, c, all, BlockHeld
<1>4. /\ Len(b) = Len(a) + Len(c) /\ Len(a) \in Nat /\ Len(c) \in Nat
      /\ \A i \in 1 .. Len(c) : b[Len(a) + i] = c[i]
  BY <1>1, <1>2, <1>3, Joined, ElementsOf
<1>5. ASSUME NEW i \in 1 .. Len(c) PROVE all[Len(a) + i] = c[i]
  <2>1. Len(a) + i \in 1 .. Len(b)
    BY <1>4
  <2>2. QED BY <1>2, <1>4, <2>1 DEF Prefix
<1>6. Len(b) <= Len(all)
  BY <1>2 DEF Prefix
<1>7. QED BY <1>4, <1>5, <1>6 DEF a, b, c, all, BlockHeld

-----------------------------------------------------------------------------
(* The encoding of a topic.                                                *)

\* What a byte of a topic is written as.
Escaped(b) == IF Unreserved(b) THEN <<b>>
              ELSE <<37, HexDigit(b \div 16), HexDigit(b % 16)>>

\* What may stand in a path segment.
Segment == {b \in Nat : Unreserved(b) \/ b = 37}

LEMMA HexDigits ==
    /\ \A n \in 0 .. 15 : HexDigit(n) \in (48 .. 57) \cup (65 .. 70)
    /\ \A n, m \in 0 .. 15 : HexDigit(n) = HexDigit(m) => n = m
  BY DEF HexDigit

LEMMA EscapedIs ==
    ASSUME NEW b \in Byte
    PROVE  /\ Escaped(b) \in Seq(Segment)
           /\ Unreserved(b) => Len(Escaped(b)) = 1 /\ Escaped(b)[1] = b /\ b # 37
           /\ ~Unreserved(b) => /\ Len(Escaped(b)) = 3
                                /\ Escaped(b)[1] = 37
                                /\ Escaped(b)[2] = HexDigit(b \div 16)
                                /\ Escaped(b)[3] = HexDigit(b % 16)
           /\ b \div 16 \in 0 .. 15 /\ b % 16 \in 0 .. 15
<1>1. b \in Nat /\ b \div 16 \in 0 .. 15 /\ b % 16 \in 0 .. 15
  BY DEF Byte
<1>2. CASE Unreserved(b)
  <2>1. Escaped(b) = <<b>> /\ b \in Segment /\ b # 37
    BY <1>1, <1>2 DEF Escaped, Segment, Unreserved
  <2>2. QED BY <1>1, <1>2, <2>1
<1>3. CASE ~Unreserved(b)
  <2> DEFINE h == HexDigit(b \div 16)
             l == HexDigit(b % 16)
  <2>1. Escaped(b) = <<37, h, l>>
    BY <1>3 DEF Escaped
  <2>2. h \in (48 .. 57) \cup (65 .. 70) /\ l \in (48 .. 57) \cup (65 .. 70)
    BY <1>1, HexDigits
  <2>3. \A x \in (48 .. 57) \cup (65 .. 70) : x \in Segment
    BY DEF Segment, Unreserved
  <2>4. 37 \in Segment
    BY DEF Segment
  <2> HIDE DEF h, l
  <2>5. h \in Segment /\ l \in Segment
    BY <2>2, <2>3
  <2>6. \A x, y, z \in Segment :
           /\ <<x, y, z>> \in Seq(Segment) /\ Len(<<x, y, z>>) = 3
           /\ <<x, y, z>>[1] = x /\ <<x, y, z>>[2] = y /\ <<x, y, z>>[3] = z
    OBVIOUS
  <2>7. QED BY <1>1, <1>3, <2>1, <2>4, <2>5, <2>6 DEF h, l
<1>4. QED BY <1>2, <1>3

\* Two bytes are not written alike, not even as far as the shorter one goes.
LEMMA EscapedApart ==
    ASSUME NEW b \in Byte, NEW c \in Byte,
           \A i \in 1 .. Len(Escaped(b)) :
              i \in 1 .. Len(Escaped(c)) => Escaped(b)[i] = Escaped(c)[i]
    PROVE  b = c
<1>1. Escaped(b)[1] = Escaped(c)[1]
  <2>1. 1 \in 1 .. Len(Escaped(b)) /\ 1 \in 1 .. Len(Escaped(c))
    BY EscapedIs
  <2>2. QED BY <2>1
<1>2. CASE Unreserved(b) \/ Unreserved(c)
  BY <1>1, <1>2, EscapedIs
<1>3. CASE ~Unreserved(b) /\ ~Unreserved(c)
  <2>1. Len(Escaped(b)) = 3 /\ Len(Escaped(c)) = 3 /\ 2 \in 1 .. 3 /\ 3 \in 1 .. 3
    BY <1>3, EscapedIs
  <2>2. Escaped(b)[2] = Escaped(c)[2] /\ Escaped(b)[3] = Escaped(c)[3]
    BY <2>1
  <2>3. HexDigit(b \div 16) = HexDigit(c \div 16) /\ HexDigit(b % 16) = HexDigit(c % 16)
    BY <1>3, <2>2, EscapedIs
  <2>4. b \div 16 = c \div 16 /\ b % 16 = c % 16
    BY <2>3, EscapedIs, HexDigits
  <2>5. \A x \in Byte : x = 16 * (x \div 16) + (x % 16)
    BY DEF Byte
  <2>6. QED BY <2>4, <2>5
<1>4. QED BY <1>2, <1>3

\* The encoding of a topic, byte by byte.
LEMMA TopicFronts ==
    ASSUME NEW t \in Seq(Byte)
    PROVE  \E seqs, run : /\ seqs \in Seq(Seq(Segment))
                          /\ Len(seqs) = Len(t)
                          /\ \A i \in 1 .. Len(t) : seqs[i] = Escaped(t[i])
                          /\ Fronts(run, Segment, seqs)
                          /\ EncodeTopic(t) = run[Len(t)]
<1> DEFINE n == Len(t)
           seqs == [i \in 1 .. n |-> Escaped(t[i])]
<1>1. n \in Nat /\ DOMAIN t = 1 .. n /\ \A i \in 1 .. n : t[i] \in Byte
  BY ElementsOf
<1> HIDE DEF n
<1>2. seqs \in [1 .. n -> Seq(Segment)]
  BY <1>1, EscapedIs
<1>3. seqs \in Seq(Seq(Segment)) /\ Len(seqs) = n
  <2> HIDE DEF seqs
  <2>1. QED BY <1>1, <1>2
<1>4. EncodeTopic(t) = FlattenSeq(seqs)
  BY <1>1 DEF EncodeTopic, Escaped
<1>5. \A i \in 1 .. n : seqs[i] = Escaped(t[i])
  OBVIOUS
<1> HIDE DEF seqs
<1>6. PICK run : Fronts(run, Segment, seqs) /\ FlattenSeq(seqs) = run[Len(seqs)]
  BY <1>3, Flattened
<1>7. QED BY <1>3, <1>4, <1>5, <1>6 DEF n

\* What two topics with the same encoding have in common so far.
LEMMA CommonTopic ==
    ASSUME NEW t \in Seq(Byte), NEW u \in Seq(Byte), EncodeTopic(t) = EncodeTopic(u),
           Len(t) <= Len(u)
    PROVE  t = u
<1> DEFINE n == Len(t)
           m == Len(u)
<1>1. /\ n \in Nat /\ m \in Nat /\ n <= m
      /\ \A i \in 1 .. n : t[i] \in Byte
      /\ \A i \in 1 .. m : u[i] \in Byte
  BY ElementsOf
<1>2. PICK ts, tr : /\ ts \in Seq(Seq(Segment)) /\ Len(ts) = n
                    /\ \A i \in 1 .. n : ts[i] = Escaped(t[i])
                    /\ Fronts(tr, Segment, ts) /\ EncodeTopic(t) = tr[n]
  BY TopicFronts
<1>3. PICK us, ur : /\ us \in Seq(Seq(Segment)) /\ Len(us) = m
                    /\ \A i \in 1 .. m : us[i] = Escaped(u[i])
                    /\ Fronts(ur, Segment, us) /\ EncodeTopic(u) = ur[m]
  BY TopicFronts
<1> HIDE DEF n, m
<1> DEFINE T == {k \in Nat : tr[k] = ur[k] /\ \A i \in 1 .. k : t[i] = u[i]}
<1>4. 0 \in T
  BY <1>2, <1>3 DEF Fronts
<1>5. ASSUME NEW k \in 0 .. n, k \in T, k + 1 \in 0 .. n PROVE k + 1 \in T
  <2> DEFINE j == k + 1
             b == t[j]
             c == u[j]
  <2>1. /\ j \in 1 .. n /\ j \in 1 .. m /\ j - 1 = k /\ j \in Nat
        /\ \A i \in 1 .. j : i \in 1 .. k \/ i = j
    BY <1>1, <1>5
  <2>2. tr[k] = ur[k] /\ \A i \in 1 .. k : t[i] = u[i]
    BY <1>5
  <2> HIDE DEF j
  <2>3. b \in Byte /\ c \in Byte /\ ts[j] = Escaped(b) /\ us[j] = Escaped(c)
    BY <1>1, <1>2, <1>3, <2>1
  <2>4. \A i \in 1 .. Len(ts[j]) : tr[n][Len(tr[k]) + i] = ts[j][i]
    <3>1. j \in 1 .. Len(ts)
      BY <1>2, <2>1
    <3>2. BlockHeld(tr, ts, j)
      BY <1>2, <3>1, BlockAt
    <3>3. QED BY <1>2, <2>1, <3>2 DEF BlockHeld
  <2>5. \A i \in 1 .. Len(us[j]) : ur[m][Len(ur[k]) + i] = us[j][i]
    <3>1. j \in 1 .. Len(us)
      BY <1>3, <2>1
    <3>2. BlockHeld(ur, us, j)
      BY <1>3, <3>1, BlockAt
    <3>3. QED BY <1>3, <2>1, <3>2 DEF BlockHeld
  <2>6. tr[n] = ur[m]
    BY <1>2, <1>3
  <2>7. b = c
    <3>1. \A i \in 1 .. Len(Escaped(b)) :
             i \in 1 .. Len(Escaped(c)) => Escaped(b)[i] = Escaped(c)[i]
      BY <2>2, <2>3, <2>4, <2>5, <2>6
    <3> HIDE DEF b, c
    <3>2. QED BY <2>3, <3>1, EscapedApart
  <2>8. tr[j] = tr[k] \o ts[j] /\ ur[j] = ur[k] \o us[j]
    BY <1>2, <1>3, <2>1 DEF Fronts
  <2>9. tr[j] = ur[j]
    BY <2>2, <2>3, <2>7, <2>8
  <2>10. j \in T
    BY <2>1, <2>2, <2>7, <2>9
  <2>11. QED BY <2>10 DEF j
<1>6. tr[n] = ur[n] /\ \A i \in 1 .. n : t[i] = u[i]
  <2> HIDE DEF T
  <2>1. 0 .. n \subseteq T
    BY <1>1, <1>4, <1>5, UpTo
  <2>2. n \in T
    BY <1>1, <2>1
  <2>3. QED BY <2>2 DEF T
<1>7. n = m
  <2> SUFFICES ASSUME n < m PROVE FALSE
    BY <1>1
  <2>1. n + 1 \in 1 .. m /\ (n + 1) - 1 = n
    BY <1>1
  <2>2. /\ Len(ur[n + 1]) = Len(ur[n]) + Len(us[n + 1])
        /\ Len(ur[n + 1]) <= Len(ur[m])
    <3>1. n + 1 \in 1 .. Len(us)
      BY <1>3, <2>1
    <3>2. BlockHeld(ur, us, n + 1)
      BY <1>3, <3>1, BlockAt
    <3>3. QED BY <1>3, <2>1, <3>2 DEF BlockHeld
  <2>3. Len(us[n + 1]) \in {1, 3}
    <3>1. u[n + 1] \in Byte /\ us[n + 1] = Escaped(u[n + 1])
      BY <1>1, <1>3, <2>1
    <3>2. QED BY <3>1, EscapedIs
  <2>4. ur[m] = ur[n]
    BY <1>2, <1>3, <1>6
  <2>5. Len(ur[n]) \in Nat
    <3>1. n \in 0 .. m
      BY <1>1
    <3>2. ur[n] \in Seq(Segment)
      BY <1>3, <3>1, FrontsStay
    <3>3. QED BY <3>2, ElementsOf
  <2>6. \A x \in Nat, y \in {1, 3} : ~(x + y <= x)
    OBVIOUS
  <2>7. Len(ur[n]) + Len(us[n + 1]) <= Len(ur[n])
    BY <2>2, <2>4
  <2>8. QED BY <2>3, <2>5, <2>6, <2>7
<1>8. QED BY <1>6, <1>7, SeqEqual DEF n, m

LEMMA TopicsTried ==
    ASSUME NEW t \in SeqOf(TopicBytes, MaxLen)
    PROVE  t \in Seq(Byte)
  BY CodecAssumption DEF SeqOf

LEMMA TopicSegments == SegmentsApart
<1> DEFINE topics == SeqOf(TopicBytes, MaxLen)
<1>1. ASSUME NEW t \in topics, NEW u \in topics, EncodeTopic(t) = EncodeTopic(u)
      PROVE  t = u
  <2>1. t \in Seq(Byte) /\ u \in Seq(Byte)
    BY TopicsTried
  <2>2. Len(t) \in Nat /\ Len(u) \in Nat
    BY <2>1, ElementsOf
  <2>3. Len(t) <= Len(u) \/ Len(u) <= Len(t)
    BY <2>2
  <2>4. QED BY <1>1, <2>1, <2>3, CommonTopic
<1>2. ASSUME NEW t \in topics, NEW b \in ToSet(EncodeTopic(t))
      PROVE  Unreserved(b) \/ b = 37
  <2>1. t \in Seq(Byte)
    BY TopicsTried
  <2>2. PICK seqs, run : /\ seqs \in Seq(Seq(Segment)) /\ Len(seqs) = Len(t)
                         /\ Fronts(run, Segment, seqs) /\ EncodeTopic(t) = run[Len(t)]
    BY <2>1, TopicFronts
  <2>3. EncodeTopic(t) \in Seq(Segment)
    <3>1. Len(t) \in 0 .. Len(t)
      BY <2>1, ElementsOf
    <3>2. QED BY <2>2, <3>1, FrontsStay
  <2>4. b \in Segment
    BY <2>3, ElementsOf DEF ToSet
  <2>5. QED BY <2>4 DEF Segment
<1>3. QED BY <1>1, <1>2 DEF SegmentsApart

-----------------------------------------------------------------------------
(* Powers of two and the accumulator.                                      *)

\* The powers of two are what their definition says: a function with these values
\* exists, one power at a time.
LEMMA TwoToDef ==
    \A n \in 0 .. AccBits : TwoTo[n] = IF n = 0 THEN 1 ELSE 2 * TwoTo[n - 1]
<1> DEFINE Powers(m, f) == f = [n \in 0 .. m |-> IF n = 0 THEN 1 ELSE 2 * f[n - 1]]
           T == {m \in Nat : \E f : Powers(m, f)}
<1>1. AccBits \in Nat
  BY CodecAssumption
<1>2. 0 \in T
  <2>1. Powers(0, [n \in 0 .. 0 |-> 1])
    OBVIOUS
  <2>2. QED BY <2>1
<1>3. ASSUME NEW m \in Nat, m \in T PROVE m + 1 \in T
  <2>1. PICK f : Powers(m, f)
    BY <1>3
  <2> DEFINE g == [n \in 0 .. m + 1 |-> IF n = m + 1 THEN 2 * f[m] ELSE f[n]]
  <2>2. ASSUME NEW n \in 0 .. m + 1
        PROVE  g[n] = IF n = 0 THEN 1 ELSE 2 * g[n - 1]
    <3>1. CASE n = m + 1
      BY <3>1
    <3>2. CASE n \in 0 .. m
      <4>1. f[n] = IF n = 0 THEN 1 ELSE 2 * f[n - 1]
        BY <2>1, <3>2
      <4>2. n # 0 => g[n - 1] = f[n - 1]
        BY <3>2
      <4>3. QED BY <3>2, <4>1, <4>2
    <3>3. QED BY <3>1, <3>2
  <2>3. Powers(m + 1, g)
    BY <2>2
  <2>4. \E h : Powers(m + 1, h)
    <3> HIDE DEF Powers, g
    <3>1. QED BY <2>3
  <2> HIDE DEF Powers
  <2>5. QED BY <2>4
<1>4. AccBits \in T
  <2> HIDE DEF T
  <2>1. QED BY <1>1, <1>2, <1>3, UpTo
<1>5. \E f : Powers(AccBits, f)
  BY <1>4
<1>6. Powers(AccBits, TwoTo)
  BY <1>5 DEF TwoTo
<1>7. QED BY <1>6

LEMMA Powers ==
    /\ TwoTo[0] = 1 /\ TwoTo[1] = 2 /\ TwoTo[2] = 4 /\ TwoTo[3] = 8
    /\ TwoTo[4] = 16 /\ TwoTo[5] = 32 /\ TwoTo[6] = 64 /\ TwoTo[7] = 128
    /\ \E q \in Nat : q > 0 /\ TwoTo[AccBits] = 4096 * q
<1>1. AccBits \in Nat /\ AccBits >= 13
  BY CodecAssumption
<1>2. ASSUME NEW n \in 0 .. AccBits, n + 1 \in 0 .. AccBits PROVE TwoTo[n + 1] = 2 * TwoTo[n]
  <2>1. n + 1 # 0 /\ (n + 1) - 1 = n
    OBVIOUS
  <2>2. QED BY <1>2, <2>1, TwoToDef
<1>3. TwoTo[0] = 1
  BY <1>1, TwoToDef
<1>4. \A n \in 0 .. 11 : n \in 0 .. AccBits /\ n + 1 \in 0 .. AccBits
  BY <1>1
<1>5. \A n \in 0 .. 11 : TwoTo[n + 1] = 2 * TwoTo[n]
  BY <1>2, <1>4
<1>6. TwoTo[1] = 2 /\ TwoTo[2] = 4 /\ TwoTo[3] = 8 /\ TwoTo[4] = 16
  <2>1. TwoTo[0 + 1] = 2 * TwoTo[0] /\ TwoTo[1 + 1] = 2 * TwoTo[1]
        /\ TwoTo[2 + 1] = 2 * TwoTo[2] /\ TwoTo[3 + 1] = 2 * TwoTo[3]
    BY <1>5
  <2>2. QED BY <1>3, <2>1
<1>7. TwoTo[5] = 32 /\ TwoTo[6] = 64 /\ TwoTo[7] = 128 /\ TwoTo[8] = 256
  <2>1. TwoTo[4 + 1] = 2 * TwoTo[4] /\ TwoTo[5 + 1] = 2 * TwoTo[5]
        /\ TwoTo[6 + 1] = 2 * TwoTo[6] /\ TwoTo[7 + 1] = 2 * TwoTo[7]
    BY <1>5
  <2>2. QED BY <1>6, <2>1
<1>8. TwoTo[12] = 4096
  <2>1. TwoTo[8 + 1] = 2 * TwoTo[8] /\ TwoTo[9 + 1] = 2 * TwoTo[9]
        /\ TwoTo[10 + 1] = 2 * TwoTo[10] /\ TwoTo[11 + 1] = 2 * TwoTo[11]
    BY <1>5
  <2>2. QED BY <1>7, <2>1
<1> DEFINE T == {n \in Nat : \E q \in Nat : q > 0 /\ TwoTo[12 + n] = 4096 * q}
<1>9. 0 \in T
  BY <1>8
<1>10. ASSUME NEW n \in 0 .. AccBits - 12, n \in T, n + 1 \in 0 .. AccBits - 12
       PROVE  n + 1 \in T
  <2>1. PICK q \in Nat : q > 0 /\ TwoTo[12 + n] = 4096 * q
    BY <1>10
  <2>2. /\ 12 + n \in 0 .. AccBits /\ (12 + n) + 1 \in 0 .. AccBits
        /\ (12 + n) + 1 = 12 + (n + 1) /\ n + 1 \in Nat
    BY <1>1, <1>10
  <2>3. TwoTo[12 + (n + 1)] = 2 * (4096 * q)
    BY <1>2, <2>1, <2>2
  <2> DEFINE r == 2 * q
  <2>4. r \in Nat /\ r > 0 /\ 2 * (4096 * q) = 4096 * r
    BY <2>1
  <2> HIDE DEF r
  <2>5. TwoTo[12 + (n + 1)] = 4096 * r
    BY <2>3, <2>4
  <2>6. QED BY <2>2, <2>4, <2>5
<1>11. AccBits - 12 \in T
  <2> HIDE DEF T
  <2>1. AccBits - 12 \in Nat /\ AccBits - 12 \in 0 .. AccBits - 12
    BY <1>1
  <2>2. 0 .. AccBits - 12 \subseteq T
    BY <1>9, <1>10, <2>1, UpTo
  <2>3. QED BY <2>1, <2>2
<1>12. 12 + (AccBits - 12) = AccBits
  BY <1>1
<1>13. QED BY <1>3, <1>6, <1>7, <1>11, <1>12

\* What the shift drops on the left is not in the byte that is taken.
LowBits(acc, p, c) ==
    /\ acc \in Nat /\ acc % 64 = c
    /\ (acc \div 16) % 256 = p * 4 + c \div 16
    /\ (acc \div 4) % 256 = (p % 16) * 16 + c \div 4
    /\ (acc \div 1) % 256 = (p % 4) * 64 + c

LEMMA LowBitsStay ==
    ASSUME NEW a \in Nat, NEW c \in 0 .. 63, NEW p \in 0 .. 63, p = a % 64
    PROVE  LowBits((a * 64 + c) % TwoTo[AccBits], p, c)
<1>1. PICK q \in Nat : q > 0 /\ TwoTo[AccBits] = 4096 * q
  BY Powers
<1> DEFINE m == 4096 * q
           b == a * 64 + c
           acc == b % m
           t == b \div m
           u == q * t
           v == a \div 64
<1>2. m \in Nat /\ m > 0 /\ b \in Nat
  BY <1>1
<1>3. acc \in Nat /\ t \in Nat /\ b = m * t + acc
  <2>1. \A x, y \in Nat : y > 0 => x % y \in Nat /\ x \div y \in Nat /\ x = y * (x \div y) + (x % y)
    OBVIOUS
  <2> HIDE DEF m, b
  <2>2. QED BY <1>2, <2>1
<1> HIDE DEF acc, t
<1>4. u \in Nat /\ m * t = 4096 * u
  <2>1. \A x, y \in Nat : x * y \in Nat /\ (4096 * x) * y = 4096 * (x * y)
    OBVIOUS
  <2>2. QED BY <1>1, <1>3, <2>1
<1> HIDE DEF m, u
<1>5. v \in Nat /\ a = 64 * v + p
  OBVIOUS
<1> HIDE DEF v
<1>6. 4096 * v + 64 * p + c = 4096 * u + acc
  BY <1>3, <1>4, <1>5
<1>7. acc % 64 = c
  BY <1>3, <1>4, <1>5, <1>6
<1>8. (acc \div 16) % 256 = p * 4 + c \div 16
  BY <1>3, <1>4, <1>5, <1>6
<1>9. (acc \div 4) % 256 = (p % 16) * 16 + c \div 4
  <2> DEFINE h == p \div 16
             l == p % 16
             d == c \div 4
             e == c % 4
  <2>1. /\ h \in 0 .. 3 /\ l \in 0 .. 15 /\ p = 16 * h + l
        /\ d \in 0 .. 15 /\ e \in 0 .. 3 /\ c = 4 * d + e
    OBVIOUS
  <2> HIDE DEF h, l, d, e
  <2>2. acc = 4 * (1024 * (v - u) + 256 * h + 16 * l + d) + e
    BY <1>3, <1>4, <1>5, <1>6, <2>1
  <2>3. acc \div 4 = 1024 * (v - u) + 256 * h + 16 * l + d
    BY <1>3, <1>4, <1>5, <2>1, <2>2
  <2>4. (acc \div 4) % 256 = 16 * l + d
    BY <1>4, <1>5, <2>1, <2>3
  <2>5. QED BY <2>1, <2>4 DEF l, d
<1>10. (acc \div 1) % 256 = (p % 4) * 64 + c
  BY <1>3, <1>4, <1>5, <1>6
<1>11. LowBits(acc, p, c)
  BY <1>3, <1>7, <1>8, <1>9, <1>10 DEF LowBits
<1>12. QED BY <1>1, <1>11 DEF acc, m

-----------------------------------------------------------------------------
(* What the decoder does, character by character.                          *)

\* What it holds between two characters, and what it may be given.
Held == [acc : Nat, bits : {0, 2, 4, 6}, out : Seq(Nat)]
Text == 0 .. 65

LEMMA TakeType ==
    ASSUME NEW s \in Held, NEW c \in Text
    PROVE  Take(s, c) \in Held
<1> DEFINE t == TwoTo[AccBits]
           a == (s.acc * 64 + c) % t
           w == TwoTo[s.bits - 2]
<1>1. t \in Nat /\ t > 0
  BY Powers
<1>2. s.acc \in Nat /\ s.bits \in {0, 2, 4, 6} /\ s.out \in Seq(Nat) /\ c \in Nat
  BY DEF Held, Text
<1>3. a \in Nat
  <2>1. \A x, y \in Nat : y > 0 => (x * 64 + c) % y \in Nat
    BY <1>2
  <2> HIDE DEF t
  <2>2. QED BY <1>1, <1>2, <2>1
<1>4. s.bits \in {2, 4, 6} => w \in Nat /\ w > 0
  BY Powers
<1> HIDE DEF a, w
<1>5. CASE Skipped(c)
  BY <1>5 DEF Take
<1>6. CASE ~Skipped(c) /\ s.bits = 0
  <2>1. Take(s, c) = [acc |-> a, bits |-> 6, out |-> s.out]
    BY <1>6 DEF Take, TakeChar, a
  <2>2. QED BY <1>2, <1>3, <2>1 DEF Held
<1>7. CASE ~Skipped(c) /\ s.bits \in {2, 4, 6}
  <2> DEFINE x == (a \div w) % 256
  <2>1. Take(s, c) = [acc |-> a, bits |-> s.bits - 2, out |-> Append(s.out, x)]
    BY <1>7 DEF Take, TakeChar, a, w
  <2>2. x \in Nat
    <3>1. \A y, z \in Nat : z > 0 => (y \div z) % 256 \in Nat
      OBVIOUS
    <3>2. QED BY <1>3, <1>4, <1>7, <3>1
  <2> HIDE DEF x
  <2>3. s.bits - 2 \in {0, 2, 4, 6} /\ Append(s.out, x) \in Seq(Nat)
    BY <1>2, <1>7, <2>2
  <2>4. QED BY <1>3, <2>1, <2>3 DEF Held
<1>8. QED BY <1>2, <1>5, <1>6, <1>7

Begin == [acc |-> 0, bits |-> 0, out |-> <<>>]

\* The states of the decoder along a text.
Decoding(run, text) ==
    /\ run \in [0 .. Len(text) -> Held]
    /\ run[0] = Begin
    /\ \A k \in 1 .. Len(text) : run[k] = Take(run[k - 1], text[k])

LEMMA Decodes ==
    ASSUME NEW text \in Seq(Text)
    PROVE  \E run : Decoding(run, text) /\ B64Decode(text) = run[Len(text)].out
<1> DEFINE n == Len(text)
           V == Held
           Step(it, s) == Take(it[s \ {Max(s)}], text[Max(s)])
           Folds(it) == it = [s \in SUBSET DOMAIN text |-> IF s = {} THEN Begin ELSE Step(it, s)]
           It == CHOOSE it : Folds(it)
           step == [p \in V \X (1 .. n) |-> Take(p[1], text[p[2]])]
<1>1. n \in Nat /\ DOMAIN text = 1 .. n /\ \A k \in 1 .. n : text[k] \in Text
  BY ElementsOf
<1>2. B64Decode(text) = It[1 .. n].out
  BY <1>1 DEF B64Decode, FoldLeft, MapThenFoldSet, Begin
<1> HIDE DEF n
<1>3. step \in [V \X (1 .. n) -> V]
  BY <1>1, TakeType
<1>4. \A v \in V, k \in 1 .. n : step[<<v, k>>] = Take(v, text[k])
  OBVIOUS
<1> HIDE DEF step
<1>5. Begin \in V /\ step \in Steps(V, n)
  BY <1>3 DEF Steps, Begin, Held
<1> HIDE DEF V
<1>6. PICK it : IsFold(it, V, n, Begin, step)
  BY <1>1, <1>5, Recursion
<1>7. Folds(it)
  <2>1. ASSUME NEW s \in SUBSET (1 .. n), s # {} PROVE it[s] = Step(it, s)
    <3>1. Max(s) \in 1 .. n /\ it[s \ {Max(s)}] \in V
      BY <1>1, <1>6, <2>1, GreatestIn DEF IsFold
    <3>2. it[s] = step[<<it[s \ {Max(s)}], Max(s)>>]
      BY <1>6, <2>1 DEF IsFold, Turn
    <3>3. QED BY <1>4, <3>1, <3>2
  <2>2. {} \in SUBSET (1 .. n) /\ it[{}] = Begin /\ it \in [SUBSET (1 .. n) -> V]
    BY <1>6 DEF IsFold, Turn
  <2> HIDE DEF Step
  <2>3. QED BY <1>1, <2>1, <2>2
<1>8. Folds(It)
  <2> HIDE DEF Folds
  <2>1. QED BY <1>7
<1> HIDE DEF It
<1>9. FoldsOn(It, V, n, Begin, step)
  <2>1. It[{}] = Begin
    <3> HIDE DEF Step
    <3>1. {} \in SUBSET DOMAIN text
      OBVIOUS
    <3>2. QED BY <1>8, <3>1
  <2>2. ASSUME NEW s \in SUBSET (1 .. n), s # {}, It[s \ {Max(s)}] \in V
        PROVE  It[s] = step[<<It[s \ {Max(s)}], Max(s)>>]
    <3>1. Max(s) \in 1 .. n
      BY <1>1, <2>2, GreatestIn
    <3>2. It[s] = Step(It, s)
      <4> HIDE DEF Step
      <4>1. QED BY <1>1, <1>8, <2>2
    <3>3. QED BY <1>4, <2>2, <3>1, <3>2
  <2>3. QED BY <2>1, <2>2 DEF FoldsOn, Turn
<1> HIDE DEF Folds
<1>10. PICK run : IsRun(run, V, n, Begin, step) /\ It[1 .. n] = run[n]
  BY <1>1, <1>5, <1>9, RunOf
<1>11. /\ run \in [0 .. n -> V]
       /\ run[0] = Begin
       /\ \A k \in 1 .. n : run[k] = step[<<run[k - 1], k>>]
  BY <1>10 DEF IsRun
<1>12. ASSUME NEW k \in 1 .. n PROVE run[k] = Take(run[k - 1], text[k])
  <2>1. k - 1 \in 0 .. n /\ run[k - 1] \in V
    BY <1>1, <1>11
  <2>2. QED BY <1>4, <1>11, <2>1
<1>13. B64Decode(text) = run[n].out
  BY <1>2, <1>10
<1>14. Decoding(run, text)
  BY <1>11, <1>12 DEF n, V, Decoding
<1>15. QED BY <1>13, <1>14 DEF n

\* What is kept of a text without some characters.
Kept(drop, kept, c) == IF c \in drop THEN kept ELSE Append(kept, c)

Keeping(run, drop, text) ==
    /\ run \in [0 .. Len(text) -> Seq(Text)]
    /\ run[0] = <<>>
    /\ \A k \in 1 .. Len(text) : run[k] = Kept(drop, run[k - 1], text[k])

LEMMA Keeps ==
    ASSUME NEW drop, NEW text \in Seq(Text)
    PROVE  \E run : Keeping(run, drop, text) /\ Without(drop, text) = run[Len(text)]
<1> DEFINE n == Len(text)
           V == Seq(Text)
           none == <<>>
           Step(it, s) == Kept(drop, it[s \ {Max(s)}], text[Max(s)])
           Folds(it) == it = [s \in SUBSET DOMAIN text |-> IF s = {} THEN none ELSE Step(it, s)]
           It == CHOOSE it : Folds(it)
           step == [p \in V \X (1 .. n) |-> Kept(drop, p[1], text[p[2]])]
<1>1. n \in Nat /\ DOMAIN text = 1 .. n /\ \A k \in 1 .. n : text[k] \in Text
  BY ElementsOf
<1>2. Without(drop, text) = It[1 .. n]
  BY <1>1 DEF Without, FoldLeft, MapThenFoldSet, Kept
<1> HIDE DEF n
<1>3. step \in [V \X (1 .. n) -> V]
  <2>1. \A v \in V, c \in Text : Kept(drop, v, c) \in V
    BY DEF Kept
  <2> HIDE DEF V
  <2>2. QED BY <1>1, <2>1
<1>4. \A v \in V, k \in 1 .. n : step[<<v, k>>] = Kept(drop, v, text[k])
  OBVIOUS
<1> HIDE DEF step
<1>5. none \in V /\ step \in Steps(V, n)
  BY <1>3 DEF Steps
<1> HIDE DEF V, none
<1>6. PICK it : IsFold(it, V, n, none, step)
  BY <1>1, <1>5, Recursion
<1>7. Folds(it)
  <2>1. ASSUME NEW s \in SUBSET (1 .. n), s # {} PROVE it[s] = Step(it, s)
    <3>1. Max(s) \in 1 .. n /\ it[s \ {Max(s)}] \in V
      BY <1>1, <1>6, <2>1, GreatestIn DEF IsFold
    <3>2. it[s] = step[<<it[s \ {Max(s)}], Max(s)>>]
      BY <1>6, <2>1 DEF IsFold, Turn
    <3>3. QED BY <1>4, <3>1, <3>2
  <2>2. {} \in SUBSET (1 .. n) /\ it[{}] = none /\ it \in [SUBSET (1 .. n) -> V]
    BY <1>6 DEF IsFold, Turn
  <2> HIDE DEF Step
  <2>3. QED BY <1>1, <2>1, <2>2
<1>8. Folds(It)
  <2> HIDE DEF Folds
  <2>1. QED BY <1>7
<1> HIDE DEF It
<1>9. FoldsOn(It, V, n, none, step)
  <2>1. It[{}] = none
    <3> HIDE DEF Step
    <3>1. {} \in SUBSET DOMAIN text
      OBVIOUS
    <3>2. QED BY <1>8, <3>1
  <2>2. ASSUME NEW s \in SUBSET (1 .. n), s # {}, It[s \ {Max(s)}] \in V
        PROVE  It[s] = step[<<It[s \ {Max(s)}], Max(s)>>]
    <3>1. Max(s) \in 1 .. n
      BY <1>1, <2>2, GreatestIn
    <3>2. It[s] = Step(It, s)
      <4> HIDE DEF Step
      <4>1. QED BY <1>1, <1>8, <2>2
    <3>3. QED BY <1>4, <2>2, <3>1, <3>2
  <2>3. QED BY <2>1, <2>2 DEF FoldsOn, Turn
<1> HIDE DEF Folds
<1>10. PICK run : IsRun(run, V, n, none, step) /\ It[1 .. n] = run[n]
  BY <1>1, <1>5, <1>9, RunOf
<1>11. /\ run \in [0 .. n -> V]
       /\ run[0] = none
       /\ \A k \in 1 .. n : run[k] = step[<<run[k - 1], k>>]
  BY <1>10 DEF IsRun
<1>12. ASSUME NEW k \in 1 .. n PROVE run[k] = Kept(drop, run[k - 1], text[k])
  <2>1. k - 1 \in 0 .. n /\ run[k - 1] \in V
    BY <1>1, <1>11
  <2>2. QED BY <1>4, <1>11, <2>1
<1>13. Without(drop, text) = run[n]
  BY <1>2, <1>10
<1>14. Keeping(run, drop, text)
  BY <1>11, <1>12 DEF n, V, none, Keeping
<1>15. QED BY <1>13, <1>14 DEF n

-----------------------------------------------------------------------------
(* The bytes of a text are those of its characters' bits.                  *)

Alphabet == 0 .. 63

\* Byte m: what two neighbouring characters say about it.
ByteOf(kept, m) ==
    LET g == (m - 1) \div 3
        r == (m - 1) % 3
        a == kept[m + g]
        b == kept[m + g + 1]
    IN  IF r = 0 THEN a * 4 + b \div 16
        ELSE IF r = 1 THEN (a % 16) * 16 + b \div 4
        ELSE (a % 4) * 64 + b

\* The bytes of the characters kept, and no others.
BytesOf(out, kept) ==
    /\ out \in Seq(Nat)
    /\ Len(out) = (3 * Len(kept)) \div 4
    /\ \A m \in 1 .. Len(out) : out[m] = ByteOf(kept, m)

\* The bits that do not fill a byte yet.
Over(j) == IF j % 4 = 0 THEN 0 ELSE IF j % 4 = 1 THEN 6 ELSE IF j % 4 = 2 THEN 4 ELSE 2

DecoderInv(s, kept) ==
    /\ s \in Held
    /\ kept \in Seq(Alphabet)
    /\ s.bits = Over(Len(kept))
    /\ Len(kept) > 0 => s.acc % 64 = kept[Len(kept)]
    /\ BytesOf(s.out, kept)

\* The place of a byte among the characters.
LEMMA Places ==
    ASSUME NEW j \in Nat, NEW m \in 1 .. (3 * j) \div 4
    PROVE  /\ (m - 1) \div 3 \in Nat
           /\ m + (m - 1) \div 3 \in 1 .. j
           /\ m + (m - 1) \div 3 + 1 \in 1 .. j
<1> DEFINE g == (m - 1) \div 3
           r == (m - 1) % 3
           t == (3 * j) \div 4
<1>1. g \in Nat /\ r \in 0 .. 2 /\ m = 3 * g + r + 1
  OBVIOUS
<1>2. t \in Nat /\ 4 * t <= 3 * j /\ m <= t
  OBVIOUS
<1> HIDE DEF g, r, t
<1>3. 12 * g + 4 * r + 4 <= 3 * j
  BY <1>1, <1>2
<1>4. 4 * g + r + 2 <= j
  BY <1>1, <1>3
<1>5. m + g = 4 * g + r + 1
  BY <1>1
<1>6. m + g \in 1 .. j /\ m + g + 1 \in 1 .. j
  BY <1>1, <1>4, <1>5
<1>7. QED BY <1>1, <1>6 DEF g

\* A character more leaves the bytes there are.
LEMMA BytesStay ==
    ASSUME NEW kept \in Seq(Alphabet), NEW c \in Alphabet, NEW m \in 1 .. (3 * Len(kept)) \div 4
    PROVE  ByteOf(Append(kept, c), m) = ByteOf(kept, m)
<1> DEFINE p == m + (m - 1) \div 3
<1>1. Len(kept) \in Nat
  BY ElementsOf
<1>2. p \in 1 .. Len(kept) /\ p + 1 \in 1 .. Len(kept)
  BY <1>1, Places
<1>3. \A i \in 1 .. Len(kept) : Append(kept, c)[i] = kept[i]
  OBVIOUS
<1>4. Append(kept, c)[p] = kept[p] /\ Append(kept, c)[p + 1] = kept[p + 1]
  <2> HIDE DEF p
  <2>1. QED BY <1>2, <1>3
<1>5. QED BY <1>4 DEF ByteOf

LEMMA HeldIs ==
    ASSUME NEW s \in Held
    PROVE  /\ s.acc \in Nat /\ s.bits \in {0, 2, 4, 6} /\ s.out \in Seq(Nat)
           /\ s.acc % 64 \in 0 .. 63
<1>1. s.acc \in Nat /\ s.bits \in {0, 2, 4, 6} /\ s.out \in Seq(Nat)
  BY DEF Held
<1>2. \A a \in Nat : a % 64 \in 0 .. 63
  OBVIOUS
<1>3. QED BY <1>1, <1>2

LEMMA NewBytes ==
    ASSUME NEW p \in 0 .. 63, NEW c \in 0 .. 63
    PROVE  /\ p * 4 + c \div 16 \in Nat
           /\ (p % 16) * 16 + c \div 4 \in Nat
           /\ (p % 4) * 64 + c \in Nat
  OBVIOUS

\* The place of the byte that the next character fills, if it fills one.
LEMMA NextPlace ==
    ASSUME NEW j \in Nat, NEW m \in Nat, m = (3 * j) \div 4 + 1
    PROVE  /\ j % 4 = 0 => Over(j) = 0 /\ Over(j + 1) = 6 /\ (3 * (j + 1)) \div 4 = m - 1
           /\ j % 4 # 0 => j > 0 /\ (3 * (j + 1)) \div 4 = m /\ m + (m - 1) \div 3 = j
           /\ j % 4 = 1 => Over(j) = 6 /\ Over(j + 1) = 4 /\ (m - 1) % 3 = 0
           /\ j % 4 = 2 => Over(j) = 4 /\ Over(j + 1) = 2 /\ (m - 1) % 3 = 1
           /\ j % 4 = 3 => Over(j) = 2 /\ Over(j + 1) = 0 /\ (m - 1) % 3 = 2
<1> DEFINE q == j \div 4
           t == j % 4
<1>1. q \in Nat /\ t \in 0 .. 3 /\ j = 4 * q + t
  OBVIOUS
<1> HIDE DEF q
<1>2. CASE t = 0
  <2>1. j = 4 * q /\ m = 3 * q + 1 /\ (j + 1) % 4 = 1 /\ (3 * (j + 1)) \div 4 = 3 * q
    BY <1>1, <1>2
  <2>2. QED BY <1>1, <1>2, <2>1 DEF Over
<1>3. CASE t = 1
  <2>1. j = 4 * q + 1 /\ m = 3 * q + 1 /\ (j + 1) % 4 = 2 /\ (3 * (j + 1)) \div 4 = 3 * q + 1
    BY <1>1, <1>3
  <2>2. (m - 1) \div 3 = q /\ (m - 1) % 3 = 0
    BY <1>1, <2>1
  <2>3. QED BY <1>1, <1>3, <2>1, <2>2 DEF Over
<1>4. CASE t = 2
  <2>1. j = 4 * q + 2 /\ m = 3 * q + 2 /\ (j + 1) % 4 = 3 /\ (3 * (j + 1)) \div 4 = 3 * q + 2
    BY <1>1, <1>4
  <2>2. (m - 1) \div 3 = q /\ (m - 1) % 3 = 1
    BY <1>1, <2>1
  <2>3. QED BY <1>1, <1>4, <2>1, <2>2 DEF Over
<1>5. CASE t = 3
  <2>1. j = 4 * q + 3 /\ m = 3 * q + 3 /\ (j + 1) % 4 = 0 /\ (3 * (j + 1)) \div 4 = 3 * q + 3
    BY <1>1, <1>5
  <2>2. (m - 1) \div 3 = q /\ (m - 1) % 3 = 2
    BY <1>1, <2>1
  <2>3. QED BY <1>1, <1>5, <2>1, <2>2 DEF Over
<1>6. QED BY <1>1, <1>2, <1>3, <1>4, <1>5

\* One character of the alphabet: what comes of it, by the bits that are over.
LEMMA Taken ==
    ASSUME NEW s \in Held, NEW c \in Alphabet
    PROVE  LET p == s.acc % 64
               next == TakeChar(s, c)
           IN  /\ next.acc % 64 = c
               /\ s.bits = 0 => next.bits = 6 /\ next.out = s.out
               /\ s.bits = 6 => /\ next.bits = 4
                                /\ next.out = Append(s.out, p * 4 + c \div 16)
               /\ s.bits = 4 => /\ next.bits = 2
                                /\ next.out = Append(s.out, (p % 16) * 16 + c \div 4)
               /\ s.bits = 2 => /\ next.bits = 0
                                /\ next.out = Append(s.out, (p % 4) * 64 + c)
<1> DEFINE p == s.acc % 64
           acc == (s.acc * 64 + c) % TwoTo[AccBits]
           next == TakeChar(s, c)
<1>1. s.acc \in Nat /\ s.bits \in {0, 2, 4, 6} /\ p \in 0 .. 63
  BY HeldIs
<1>2. /\ acc % 64 = c
      /\ (acc \div 16) % 256 = p * 4 + c \div 16
      /\ (acc \div 4) % 256 = (p % 16) * 16 + c \div 4
      /\ (acc \div 1) % 256 = (p % 4) * 64 + c
  <2>1. c \in 0 .. 63
    BY DEF Alphabet
  <2> HIDE DEF p
  <2>2. p = s.acc % 64
    BY DEF p
  <2>3. LowBits(acc, p, c)
    BY <1>1, <2>1, <2>2, LowBitsStay
  <2> HIDE DEF acc
  <2>4. QED BY <2>3 DEF LowBits
<1> HIDE DEF acc, p
<1>3. TwoTo[4] = 16 /\ TwoTo[2] = 4 /\ TwoTo[0] = 1
  BY Powers
<1>4. next.acc = acc
  BY DEF TakeChar, acc
<1>5. s.bits = 0 => next.bits = 6 /\ next.out = s.out
  BY DEF TakeChar
<1>6. s.bits = 6 => next.bits = 4 /\ next.out = Append(s.out, p * 4 + c \div 16)
  BY <1>2, <1>3 DEF TakeChar, acc
<1>7. s.bits = 4 => next.bits = 2 /\ next.out = Append(s.out, (p % 16) * 16 + c \div 4)
  BY <1>2, <1>3 DEF TakeChar, acc
<1>8. s.bits = 2 => next.bits = 0 /\ next.out = Append(s.out, (p % 4) * 64 + c)
  BY <1>2, <1>3 DEF TakeChar, acc
<1>9. QED BY <1>2, <1>4, <1>5, <1>6, <1>7, <1>8 DEF p

LEMMA TakenInv ==
    ASSUME NEW s, NEW kept, DecoderInv(s, kept), NEW c \in Alphabet
    PROVE  DecoderInv(TakeChar(s, c), Append(kept, c))
<1> DEFINE j == Len(kept)
           next == TakeChar(s, c)
           more == Append(kept, c)
           m == Len(s.out) + 1
           new == ByteOf(more, m)
<1>1. s \in Held /\ kept \in Seq(Alphabet) /\ j \in Nat
  BY ElementsOf DEF DecoderInv
<1>2. next \in Held
  <2>1. c \in Text /\ ~Skipped(c)
    BY DEF Alphabet, Text, Skipped, Pad, Blank
  <2>2. QED BY <1>1, <2>1, TakeType DEF Take
<1>3. more \in Seq(Alphabet) /\ Len(more) = j + 1 /\ more[j + 1] = c
      /\ \A i \in 1 .. j : more[i] = kept[i]
  BY <1>1
<1>4. next.acc % 64 = c
  BY <1>1, Taken
<1>5. /\ s.out \in Seq(Nat) /\ Len(s.out) = (3 * j) \div 4
      /\ \A i \in 1 .. Len(s.out) : s.out[i] = ByteOf(kept, i)
      /\ s.bits = Over(j)
      /\ j > 0 => s.acc % 64 = kept[j]
  BY DEF DecoderInv, BytesOf
<1>6. \A i \in 1 .. Len(s.out) : s.out[i] = ByteOf(more, i)
  BY <1>1, <1>5, BytesStay
<1>7. ASSUME next.out = Append(s.out, new), Len(s.out) + 1 = (3 * (j + 1)) \div 4,
             new \in Nat
      PROVE  BytesOf(next.out, more)
  <2> HIDE DEF new, more, next
  <2>1. next.out \in Seq(Nat) /\ Len(next.out) = m
    BY <1>5, <1>7
  <2>2. \A i \in 1 .. Len(s.out) : next.out[i] = s.out[i]
    BY <1>5, <1>7
  <2>3. next.out[m] = new
    BY <1>5, <1>7
  <2>4. \A i \in 1 .. m : i \in 1 .. Len(s.out) \/ i = m
    BY <1>5
  <2>5. \A i \in 1 .. m : next.out[i] = ByteOf(more, i)
    BY <1>6, <2>2, <2>3, <2>4 DEF new
  <2>6. QED BY <1>3, <1>7, <2>1, <2>5 DEF BytesOf
<1> DEFINE p == s.acc % 64
<1>8. /\ p \in 0 .. 63 /\ c \in 0 .. 63
      /\ p * 4 + c \div 16 \in Nat /\ (p % 16) * 16 + c \div 4 \in Nat /\ (p % 4) * 64 + c \in Nat
  <2>1. p \in 0 .. 63 /\ c \in 0 .. 63
    BY <1>1, HeldIs DEF Alphabet
  <2> HIDE DEF p
  <2>2. QED BY <2>1, NewBytes
<1>9. /\ j % 4 = 0 => Over(j) = 0 /\ Over(j + 1) = 6 /\ (3 * (j + 1)) \div 4 = m - 1
      /\ m - 1 = (3 * j) \div 4
      /\ j % 4 # 0 => j > 0 /\ (3 * (j + 1)) \div 4 = m /\ m + (m - 1) \div 3 = j
      /\ j % 4 = 1 => Over(j) = 6 /\ Over(j + 1) = 4 /\ (m - 1) % 3 = 0
      /\ j % 4 = 2 => Over(j) = 4 /\ Over(j + 1) = 2 /\ (m - 1) % 3 = 1
      /\ j % 4 = 3 => Over(j) = 2 /\ Over(j + 1) = 0 /\ (m - 1) % 3 = 2
  <2>1. m \in Nat /\ m = (3 * j) \div 4 + 1
    BY <1>1, <1>5
  <2> HIDE DEF m, j
  <2>2. m - 1 = (3 * j) \div 4
    BY <1>1, <2>1
  <2>3. QED BY <1>1, <2>1, <2>2, NextPlace
<1>10. CASE j % 4 = 0
  <2>1. s.bits = 0 /\ Over(j + 1) = 6 /\ (3 * (j + 1)) \div 4 = (3 * j) \div 4
    BY <1>5, <1>10, <1>9
  <2>2. next.bits = 6 /\ next.out = s.out
    BY <1>1, <2>1, Taken
  <2>3. BytesOf(next.out, more)
    <3> HIDE DEF next, more
    <3>1. QED BY <1>3, <1>5, <1>6, <2>1, <2>2 DEF BytesOf
  <2>4. QED BY <1>2, <1>3, <1>4, <2>1, <2>2, <2>3 DEF DecoderInv
<1>11. CASE j % 4 = 1
  <2>1. /\ s.bits = 6 /\ Over(j + 1) = 4 /\ m = (3 * (j + 1)) \div 4 /\ j > 0
        /\ (m - 1) % 3 = 0 /\ m + (m - 1) \div 3 = j
    BY <1>5, <1>11, <1>9
  <2>2. next.bits = 4 /\ next.out = Append(s.out, p * 4 + c \div 16)
    BY <1>1, <2>1, Taken
  <2>3. new = p * 4 + c \div 16
    <3>1. more[j] = p /\ more[j + 1] = c
      BY <1>1, <1>3, <1>5, <2>1
    <3> HIDE DEF m, j, more, p
    <3>2. QED BY <2>1, <3>1 DEF ByteOf
  <2>4. BytesOf(next.out, more)
    BY <1>7, <1>8, <2>1, <2>2, <2>3
  <2>5. QED BY <1>2, <1>3, <1>4, <2>1, <2>2, <2>4 DEF DecoderInv
<1>12. CASE j % 4 = 2
  <2>1. /\ s.bits = 4 /\ Over(j + 1) = 2 /\ m = (3 * (j + 1)) \div 4 /\ j > 0
        /\ (m - 1) % 3 = 1 /\ m + (m - 1) \div 3 = j
    BY <1>5, <1>12, <1>9
  <2>2. next.bits = 2 /\ next.out = Append(s.out, (p % 16) * 16 + c \div 4)
    BY <1>1, <2>1, Taken
  <2>3. new = (p % 16) * 16 + c \div 4
    <3>1. more[j] = p /\ more[j + 1] = c
      BY <1>1, <1>3, <1>5, <2>1
    <3> HIDE DEF m, j, more, p
    <3>2. QED BY <2>1, <3>1 DEF ByteOf
  <2>4. BytesOf(next.out, more)
    BY <1>7, <1>8, <2>1, <2>2, <2>3
  <2>5. QED BY <1>2, <1>3, <1>4, <2>1, <2>2, <2>4 DEF DecoderInv
<1>13. CASE j % 4 = 3
  <2>1. /\ s.bits = 2 /\ Over(j + 1) = 0 /\ m = (3 * (j + 1)) \div 4 /\ j > 0
        /\ (m - 1) % 3 = 2 /\ m + (m - 1) \div 3 = j
    BY <1>5, <1>13, <1>9
  <2>2. next.bits = 0 /\ next.out = Append(s.out, (p % 4) * 64 + c)
    BY <1>1, <2>1, Taken
  <2>3. new = (p % 4) * 64 + c
    <3>1. more[j] = p /\ more[j + 1] = c
      BY <1>1, <1>3, <1>5, <2>1
    <3> HIDE DEF m, j, more, p
    <3>2. QED BY <2>1, <3>1 DEF ByteOf
  <2>4. BytesOf(next.out, more)
    BY <1>7, <1>8, <2>1, <2>2, <2>3
  <2>5. QED BY <1>2, <1>3, <1>4, <2>1, <2>2, <2>4 DEF DecoderInv
<1>14. j % 4 \in {0, 1, 2, 3}
  BY <1>1
<1>15. QED BY <1>10, <1>11, <1>12, <1>13, <1>14

\* Whatever is strewn in a text, the decoder returns the bytes of the characters
\* that are left without it.
LEMMA Decoded ==
    ASSUME NEW text \in Seq(Text)
    PROVE  /\ Without({Pad, Blank}, text) \in Seq(Alphabet)
           /\ BytesOf(B64Decode(text), Without({Pad, Blank}, text))
<1> DEFINE n == Len(text)
           drop == {Pad, Blank}
<1>1. n \in Nat /\ \A k \in 1 .. n : text[k] \in Text
  BY ElementsOf
<1>2. PICK run : Decoding(run, text) /\ B64Decode(text) = run[n].out
  BY Decodes
<1>3. PICK left : Keeping(left, drop, text) /\ Without(drop, text) = left[n]
  BY Keeps
<1>4. /\ run[0] = Begin /\ \A k \in 1 .. n : run[k] = Take(run[k - 1], text[k])
      /\ left[0] = <<>> /\ \A k \in 1 .. n : left[k] = Kept(drop, left[k - 1], text[k])
  BY <1>2, <1>3 DEF Decoding, Keeping
<1> HIDE DEF n
<1> DEFINE T == {k \in Nat : DecoderInv(run[k], left[k])}
<1>5. 0 \in T
  <2>1. DecoderInv(Begin, <<>>)
    BY DEF DecoderInv, Begin, Held, BytesOf, Over
  <2>2. QED BY <1>4, <2>1
<1>6. ASSUME NEW k \in 0 .. n, k \in T, k + 1 \in 0 .. n PROVE k + 1 \in T
  <2> DEFINE c == text[k + 1]
  <2>1. k + 1 \in 1 .. n /\ (k + 1) - 1 = k /\ k + 1 \in Nat
    BY <1>1, <1>6
  <2>2. c \in Text /\ run[k + 1] = Take(run[k], c) /\ left[k + 1] = Kept(drop, left[k], c)
    BY <1>1, <1>4, <2>1
  <2>3. DecoderInv(run[k], left[k])
    BY <1>6
  <2> HIDE DEF c
  <2>4. CASE Skipped(c)
    <3>1. run[k + 1] = run[k] /\ left[k + 1] = left[k]
      BY <2>2, <2>4 DEF Take, Kept, Skipped
    <3>2. QED BY <2>1, <2>3, <3>1
  <2>5. CASE ~Skipped(c)
    <3>1. run[k + 1] = TakeChar(run[k], c) /\ left[k + 1] = Append(left[k], c)
      BY <2>2, <2>5 DEF Take, Kept, Skipped
    <3>2. c \in Alphabet
      BY <2>2, <2>5 DEF Alphabet, Text, Skipped, Pad, Blank
    <3>3. QED BY <2>1, <2>3, <3>1, <3>2, TakenInv
  <2>6. QED BY <2>4, <2>5
<1>7. DecoderInv(run[n], left[n])
  <2> HIDE DEF T
  <2>1. 0 .. n \subseteq T
    BY <1>1, <1>5, <1>6, UpTo
  <2>2. n \in T
    BY <1>1, <2>1
  <2>3. QED BY <2>2 DEF T
<1>8. QED BY <1>2, <1>3, <1>7 DEF DecoderInv, n

-----------------------------------------------------------------------------
(* The bits of the bytes are the bits of the characters.                   *)

\* A bit of one number is a bit of another.
SameBit(x, w, c, v) == (x \div w) % 2 = (c \div v) % 2

LEMMA Bits0 ==
    ASSUME NEW a \in 0 .. 63, NEW b \in 0 .. 63, NEW x, x = a * 4 + b \div 16
    PROVE  /\ SameBit(x, 128, a, 32) /\ SameBit(x, 64, a, 16)
           /\ SameBit(x, 32, a, 8) /\ SameBit(x, 16, a, 4)
           /\ SameBit(x, 8, a, 2) /\ SameBit(x, 4, a, 1)
           /\ SameBit(x, 2, b, 32) /\ SameBit(x, 1, b, 16)
<1> DEFINE d == b \div 16
<1>1. d \in 0 .. 3 /\ x = 4 * a + d /\ (b \div 32) % 2 = d \div 2 /\ (b \div 16) % 2 = d % 2
  OBVIOUS
<1> HIDE DEF d
<1>2. x \div 4 = a /\ x \div 8 = a \div 2 /\ x \div 16 = a \div 4
  BY <1>1
<1>3. x \div 32 = a \div 8 /\ x \div 64 = a \div 16 /\ x \div 128 = a \div 32
  BY <1>1
<1>4. (x \div 2) % 2 = d \div 2 /\ (x \div 1) % 2 = d % 2 /\ a \div 1 = a
  BY <1>1
<1>5. QED BY <1>1, <1>2, <1>3, <1>4 DEF SameBit

LEMMA Bits1 ==
    ASSUME NEW a \in 0 .. 63, NEW b \in 0 .. 63, NEW x, x = (a % 16) * 16 + b \div 4
    PROVE  /\ SameBit(x, 128, a, 8) /\ SameBit(x, 64, a, 4)
           /\ SameBit(x, 32, a, 2) /\ SameBit(x, 16, a, 1)
           /\ SameBit(x, 8, b, 32) /\ SameBit(x, 4, b, 16)
           /\ SameBit(x, 2, b, 8) /\ SameBit(x, 1, b, 4)
<1> DEFINE h == a \div 16
           l == a % 16
           d == b \div 4
           e == b % 4
<1>1. /\ h \in 0 .. 3 /\ l \in 0 .. 15 /\ a = 16 * h + l
      /\ d \in 0 .. 15 /\ e \in 0 .. 3 /\ b = 4 * d + e /\ x = 16 * l + d
  OBVIOUS
<1> HIDE DEF h, l, d, e
<1>2. /\ (a \div 8) % 2 = (l \div 8) % 2 /\ (a \div 4) % 2 = (l \div 4) % 2
      /\ (a \div 2) % 2 = (l \div 2) % 2 /\ (a \div 1) % 2 = l % 2
  BY <1>1
<1>3. /\ b \div 32 = d \div 8 /\ b \div 16 = d \div 4 /\ b \div 8 = d \div 2 /\ b \div 4 = d
  BY <1>1
<1>4. x \div 128 = l \div 8 /\ x \div 64 = l \div 4 /\ x \div 32 = l \div 2 /\ x \div 16 = l
  BY <1>1
<1>5. /\ (x \div 8) % 2 = (d \div 8) % 2 /\ (x \div 4) % 2 = (d \div 4) % 2
      /\ (x \div 2) % 2 = (d \div 2) % 2 /\ (x \div 1) % 2 = d % 2
  BY <1>1
<1>6. QED BY <1>2, <1>3, <1>4, <1>5 DEF SameBit

LEMMA Bits2 ==
    ASSUME NEW a \in 0 .. 63, NEW b \in 0 .. 63, NEW x, x = (a % 4) * 64 + b
    PROVE  /\ SameBit(x, 128, a, 2) /\ SameBit(x, 64, a, 1)
           /\ SameBit(x, 32, b, 32) /\ SameBit(x, 16, b, 16)
           /\ SameBit(x, 8, b, 8) /\ SameBit(x, 4, b, 4)
           /\ SameBit(x, 2, b, 2) /\ SameBit(x, 1, b, 1)
<1> DEFINE h == a \div 4
           l == a % 4
<1>1. h \in 0 .. 15 /\ l \in 0 .. 3 /\ a = 4 * h + l /\ x = 64 * l + b
  OBVIOUS
<1> HIDE DEF h, l
<1>2. (a \div 2) % 2 = (l \div 2) % 2 /\ (a \div 1) % 2 = l % 2
  BY <1>1
<1>3. x \div 128 = l \div 2 /\ x \div 64 = l
  BY <1>1
<1>4. (x \div 32) % 2 = (b \div 32) % 2 /\ (x \div 16) % 2 = (b \div 16) % 2
  BY <1>1
<1>5. (x \div 8) % 2 = (b \div 8) % 2 /\ (x \div 4) % 2 = (b \div 4) % 2
  BY <1>1
<1>6. (x \div 2) % 2 = (b \div 2) % 2 /\ (x \div 1) % 2 = (b \div 1) % 2
  BY <1>1
<1>7. QED BY <1>2, <1>3, <1>4, <1>5, <1>6 DEF SameBit

\* The byte whose bits start 8 * r behind those of four characters, of the r-th of
\* these and the next.
ByteAt(r, a, b) ==
    IF r = 0 THEN a * 4 + b \div 16
    ELSE IF r = 1 THEN (a % 16) * 16 + b \div 4
    ELSE (a % 4) * 64 + b

\* Bit k of that byte is bit t of the characters.
BitAt(r, k, a, b) ==
    LET t == 8 * r + k
    IN  SameBit(ByteAt(r, a, b), TwoTo[7 - k],
                IF t \div 6 = r THEN a ELSE b, TwoTo[5 - (t % 6)])

LEMMA BitIs ==
    ASSUME NEW r \in 0 .. 2, NEW k \in 0 .. 7, NEW a \in 0 .. 63, NEW b \in 0 .. 63
    PROVE  BitAt(r, k, a, b)
<1> DEFINE x == ByteAt(r, a, b)
<1>1. CASE r = 0
  <2>1. x = a * 4 + b \div 16
    BY <1>1 DEF ByteAt
  <2> HIDE DEF x
  <2>2. /\ SameBit(x, 128, a, 32) /\ SameBit(x, 64, a, 16)
        /\ SameBit(x, 32, a, 8) /\ SameBit(x, 16, a, 4)
        /\ SameBit(x, 8, a, 2) /\ SameBit(x, 4, a, 1)
        /\ SameBit(x, 2, b, 32) /\ SameBit(x, 1, b, 16)
    BY <2>1, Bits0
  <2>3. CASE k = 0
    <3>1. 8 * r + k = 0 /\ 0 \div 6 = 0 /\ 0 % 6 = 0 /\ 7 - k = 7 /\ 5 - 0 = 5
      BY <1>1, <2>3
    <3>2. QED BY <1>1, <2>2, <3>1, Powers DEF x, BitAt
  <2>4. CASE k = 1
    <3>1. 8 * r + k = 1 /\ 1 \div 6 = 0 /\ 1 % 6 = 1 /\ 7 - k = 6 /\ 5 - 1 = 4
      BY <1>1, <2>4
    <3>2. QED BY <1>1, <2>2, <3>1, Powers DEF x, BitAt
  <2>5. CASE k = 2
    <3>1. 8 * r + k = 2 /\ 2 \div 6 = 0 /\ 2 % 6 = 2 /\ 7 - k = 5 /\ 5 - 2 = 3
      BY <1>1, <2>5
    <3>2. QED BY <1>1, <2>2, <3>1, Powers DEF x, BitAt
  <2>6. CASE k = 3
    <3>1. 8 * r + k = 3 /\ 3 \div 6 = 0 /\ 3 % 6 = 3 /\ 7 - k = 4 /\ 5 - 3 = 2
      BY <1>1, <2>6
    <3>2. QED BY <1>1, <2>2, <3>1, Powers DEF x, BitAt
  <2>7. CASE k = 4
    <3>1. 8 * r + k = 4 /\ 4 \div 6 = 0 /\ 4 % 6 = 4 /\ 7 - k = 3 /\ 5 - 4 = 1
      BY <1>1, <2>7
    <3>2. QED BY <1>1, <2>2, <3>1, Powers DEF x, BitAt
  <2>8. CASE k = 5
    <3>1. 8 * r + k = 5 /\ 5 \div 6 = 0 /\ 5 % 6 = 5 /\ 7 - k = 2 /\ 5 - 5 = 0
      BY <1>1, <2>8
    <3>2. QED BY <1>1, <2>2, <3>1, Powers DEF x, BitAt
  <2>9. CASE k = 6
    <3>1. 8 * r + k = 6 /\ 6 \div 6 = 1 /\ 6 % 6 = 0 /\ 7 - k = 1 /\ 5 - 0 = 5
      BY <1>1, <2>9
    <3>2. QED BY <1>1, <2>2, <3>1, Powers DEF x, BitAt
  <2>10. CASE k = 7
    <3>1. 8 * r + k = 7 /\ 7 \div 6 = 1 /\ 7 % 6 = 1 /\ 7 - k = 0 /\ 5 - 1 = 4
      BY <1>1, <2>10
    <3>2. QED BY <1>1, <2>2, <3>1, Powers DEF x, BitAt
  <2>11. k \in {0, 1, 2, 3, 4, 5, 6, 7}
    OBVIOUS
  <2>12. QED BY <2>3, <2>4, <2>5, <2>6, <2>7, <2>8, <2>9, <2>10, <2>11
<1>2. CASE r = 1
  <2>1. x = (a % 16) * 16 + b \div 4
    BY <1>2 DEF ByteAt
  <2> HIDE DEF x
  <2>2. /\ SameBit(x, 128, a, 8) /\ SameBit(x, 64, a, 4)
        /\ SameBit(x, 32, a, 2) /\ SameBit(x, 16, a, 1)
        /\ SameBit(x, 8, b, 32) /\ SameBit(x, 4, b, 16)
        /\ SameBit(x, 2, b, 8) /\ SameBit(x, 1, b, 4)
    BY <2>1, Bits1
  <2>3. CASE k = 0
    <3>1. 8 * r + k = 8 /\ 8 \div 6 = 1 /\ 8 % 6 = 2 /\ 7 - k = 7 /\ 5 - 2 = 3
      BY <1>2, <2>3
    <3>2. QED BY <1>2, <2>2, <3>1, Powers DEF x, BitAt
  <2>4. CASE k = 1
    <3>1. 8 * r + k = 9 /\ 9 \div 6 = 1 /\ 9 % 6 = 3 /\ 7 - k = 6 /\ 5 - 3 = 2
      BY <1>2, <2>4
    <3>2. QED BY <1>2, <2>2, <3>1, Powers DEF x, BitAt
  <2>5. CASE k = 2
    <3>1. 8 * r + k = 10 /\ 10 \div 6 = 1 /\ 10 % 6 = 4 /\ 7 - k = 5 /\ 5 - 4 = 1
      BY <1>2, <2>5
    <3>2. QED BY <1>2, <2>2, <3>1, Powers DEF x, BitAt
  <2>6. CASE k = 3
    <3>1. 8 * r + k = 11 /\ 11 \div 6 = 1 /\ 11 % 6 = 5 /\ 7 - k = 4 /\ 5 - 5 = 0
      BY <1>2, <2>6
    <3>2. QED BY <1>2, <2>2, <3>1, Powers DEF x, BitAt
  <2>7. CASE k = 4
    <3>1. 8 * r + k = 12 /\ 12 \div 6 = 2 /\ 12 % 6 = 0 /\ 7 - k = 3 /\ 5 - 0 = 5
      BY <1>2, <2>7
    <3>2. QED BY <1>2, <2>2, <3>1, Powers DEF x, BitAt
  <2>8. CASE k = 5
    <3>1. 8 * r + k = 13 /\ 13 \div 6 = 2 /\ 13 % 6 = 1 /\ 7 - k = 2 /\ 5 - 1 = 4
      BY <1>2, <2>8
    <3>2. QED BY <1>2, <2>2, <3>1, Powers DEF x, BitAt
  <2>9. CASE k = 6
    <3>1. 8 * r + k = 14 /\ 14 \div 6 = 2 /\ 14 % 6 = 2 /\ 7 - k = 1 /\ 5 - 2 = 3
      BY <1>2, <2>9
    <3>2. QED BY <1>2, <2>2, <3>1, Powers DEF x, BitAt
  <2>10. CASE k = 7
    <3>1. 8 * r + k = 15 /\ 15 \div 6 = 2 /\ 15 % 6 = 3 /\ 7 - k = 0 /\ 5 - 3 = 2
      BY <1>2, <2>10
    <3>2. QED BY <1>2, <2>2, <3>1, Powers DEF x, BitAt
  <2>11. k \in {0, 1, 2, 3, 4, 5, 6, 7}
    OBVIOUS
  <2>12. QED BY <2>3, <2>4, <2>5, <2>6, <2>7, <2>8, <2>9, <2>10, <2>11
<1>3. CASE r = 2
  <2>1. x = (a % 4) * 64 + b
    BY <1>3 DEF ByteAt
  <2> HIDE DEF x
  <2>2. /\ SameBit(x, 128, a, 2) /\ SameBit(x, 64, a, 1)
        /\ SameBit(x, 32, b, 32) /\ SameBit(x, 16, b, 16)
        /\ SameBit(x, 8, b, 8) /\ SameBit(x, 4, b, 4)
        /\ SameBit(x, 2, b, 2) /\ SameBit(x, 1, b, 1)
    BY <2>1, Bits2
  <2>3. CASE k = 0
    <3>1. 8 * r + k = 16 /\ 16 \div 6 = 2 /\ 16 % 6 = 4 /\ 7 - k = 7 /\ 5 - 4 = 1
      BY <1>3, <2>3
    <3>2. QED BY <1>3, <2>2, <3>1, Powers DEF x, BitAt
  <2>4. CASE k = 1
    <3>1. 8 * r + k = 17 /\ 17 \div 6 = 2 /\ 17 % 6 = 5 /\ 7 - k = 6 /\ 5 - 5 = 0
      BY <1>3, <2>4
    <3>2. QED BY <1>3, <2>2, <3>1, Powers DEF x, BitAt
  <2>5. CASE k = 2
    <3>1. 8 * r + k = 18 /\ 18 \div 6 = 3 /\ 18 % 6 = 0 /\ 7 - k = 5 /\ 5 - 0 = 5
      BY <1>3, <2>5
    <3>2. QED BY <1>3, <2>2, <3>1, Powers DEF x, BitAt
  <2>6. CASE k = 3
    <3>1. 8 * r + k = 19 /\ 19 \div 6 = 3 /\ 19 % 6 = 1 /\ 7 - k = 4 /\ 5 - 1 = 4
      BY <1>3, <2>6
    <3>2. QED BY <1>3, <2>2, <3>1, Powers DEF x, BitAt
  <2>7. CASE k = 4
    <3>1. 8 * r + k = 20 /\ 20 \div 6 = 3 /\ 20 % 6 = 2 /\ 7 - k = 3 /\ 5 - 2 = 3
      BY <1>3, <2>7
    <3>2. QED BY <1>3, <2>2, <3>1, Powers DEF x, BitAt
  <2>8. CASE k = 5
    <3>1. 8 * r + k = 21 /\ 21 \div 6 = 3 /\ 21 % 6 = 3 /\ 7 - k = 2 /\ 5 - 3 = 2
      BY <1>3, <2>8
    <3>2. QED BY <1>3, <2>2, <3>1, Powers DEF x, BitAt
  <2>9. CASE k = 6
    <3>1. 8 * r + k = 22 /\ 22 \div 6 = 3 /\ 22 % 6 = 4 /\ 7 - k = 1 /\ 5 - 4 = 1
      BY <1>3, <2>9
    <3>2. QED BY <1>3, <2>2, <3>1, Powers DEF x, BitAt
  <2>10. CASE k = 7
    <3>1. 8 * r + k = 23 /\ 23 \div 6 = 3 /\ 23 % 6 = 5 /\ 7 - k = 0 /\ 5 - 5 = 0
      BY <1>3, <2>10
    <3>2. QED BY <1>3, <2>2, <3>1, Powers DEF x, BitAt
  <2>11. k \in {0, 1, 2, 3, 4, 5, 6, 7}
    OBVIOUS
  <2>12. QED BY <2>3, <2>4, <2>5, <2>6, <2>7, <2>8, <2>9, <2>10, <2>11
<1>4. r \in {0, 1, 2}
  OBVIOUS
<1>5. QED BY <1>1, <1>2, <1>3, <1>4

\* A sequence written as a function, and what is in front of it.
Listed(f, n) == f = [i \in 1 .. n |-> f[i]]
Ahead(f, g, m) == \A i \in 1 .. m : f[i] = g[i]

LEMMA FrontOf ==
    ASSUME NEW f, NEW g, NEW n \in Nat, NEW m \in Nat, m <= n,
           Listed(f, m), Listed(g, n), Ahead(f, g, m)
    PROVE  f = SubSeq(g, 1, m)
<1> DEFINE S == {g[i] : i \in 1 .. n}
           h == SubSeq(g, 1, m)
<1>0. /\ f = [i \in 1 .. m |-> f[i]] /\ g = [i \in 1 .. n |-> g[i]]
      /\ \A i \in 1 .. m : f[i] = g[i]
  BY DEF Listed, Ahead
<1>1. \A i \in 1 .. m : i \in 1 .. n
  OBVIOUS
<1>2. f \in Seq(S) /\ Len(f) = m
  <2>1. \A i \in 1 .. m : f[i] \in S
    BY <1>0, <1>1
  <2> HIDE DEF S
  <2>2. f \in [1 .. m -> S]
    BY <1>0, <2>1
  <2>3. QED BY <2>2
<1>3. g \in Seq(S) /\ Len(g) = n
  <2>1. \A i \in 1 .. n : g[i] \in S
    OBVIOUS
  <2> HIDE DEF S
  <2>2. g \in [1 .. n -> S]
    BY <1>0, <2>1
  <2>3. QED BY <2>2
<1> HIDE DEF S
<1>4. CASE m = 0
  <2>1. h = <<>>
    BY <1>4, SubSeqEmpty
  <2>2. f = <<>>
    BY <1>2, <1>4
  <2>3. QED BY <2>1, <2>2
<1>5. CASE m > 0
  <2>1. h \in Seq(S) /\ Len(h) = m /\ \A i \in 1 .. m : h[i] = g[i]
    <3>1. 1 \in Int /\ m \in Int /\ m - 1 + 1 = m /\ \A i \in 1 .. m : 1 + i - 1 = i
      OBVIOUS
    <3>2. \A i \in 1 .. m : g[i] \in S
      BY <1>1, <1>3, ElementsOf
    <3>3. QED BY <1>5, <3>1, <3>2, SubSeqProperties
  <2> HIDE DEF h
  <2>2. f = h
    BY <1>0, <1>2, <2>1, SeqEqual
  <2>3. QED BY <2>2 DEF h
<1>6. QED BY <1>4, <1>5

\* Bit i of a byte sequence, and the character whose bit that is.
BitSpot(i, j, n, g, r, k) ==
    /\ (i - 1) \div 8 + 1 = 3 * g + r + 1
    /\ (i - 1) % 8 = k
    /\ (i - 1) \div 6 + 1 = 4 * g + (8 * r + k) \div 6 + 1
    /\ (i - 1) % 6 = (8 * r + k) % 6
    /\ 3 * g + r + 1 \in 1 .. n
    /\ 4 * g + r + 1 \in 1 .. j
    /\ 4 * g + r + 2 \in 1 .. j

LEMMA BitPlace ==
    ASSUME NEW j \in Nat, NEW n \in Nat, n = (3 * j) \div 4, NEW i \in 1 .. 8 * n
    PROVE  \E g \in Nat, r \in 0 .. 2, k \in 0 .. 7 : BitSpot(i, j, n, g, r, k)
<1> DEFINE g == (i - 1) \div 24
           t == (i - 1) % 24
           r == t \div 8
           k == t % 8
           c == t \div 6
           d == t % 6
<1>1. g \in Nat /\ t \in 0 .. 23 /\ i - 1 = 24 * g + t
  OBVIOUS
<1>2. r \in 0 .. 2 /\ k \in 0 .. 7 /\ t = 8 * r + k
  BY <1>1
<1>3. c \in 0 .. 3 /\ d \in 0 .. 5 /\ t = 6 * c + d
  BY <1>1
<1>4. (8 * r + k) \div 6 = c /\ (8 * r + k) % 6 = d
  BY <1>2
<1> HIDE DEF g, t, r, k, c, d
<1>5. (i - 1) \div 8 = 3 * g + r /\ (i - 1) % 8 = k
  BY <1>1, <1>2
<1>6. (i - 1) \div 6 = 4 * g + c /\ (i - 1) % 6 = d
  BY <1>1, <1>3
<1>7. 3 * g + r + 1 \in 1 .. n
  BY <1>1, <1>2
<1>8. 4 * n <= 3 * j
  OBVIOUS
<1>9. 4 * g + r + 2 <= j
  BY <1>1, <1>2, <1>7, <1>8
<1>10. 4 * g + r + 1 \in 1 .. j /\ 4 * g + r + 2 \in 1 .. j
  BY <1>1, <1>2, <1>9
<1>11. BitSpot(i, j, n, g, r, k)
  BY <1>4, <1>5, <1>6, <1>7, <1>10 DEF BitSpot
<1>12. QED BY <1>1, <1>2, <1>11

LEMMA BitsAgree ==
    ASSUME NEW kept \in Seq(Alphabet), NEW out, BytesOf(out, kept)
    PROVE  BitsOf(out, 8) = SubSeq(BitsOf(kept, 6), 1, 8 * ((6 * Len(kept)) \div 8))
<1> DEFINE j == Len(kept)
           n == Len(out)
           f == BitsOf(out, 8)
           h == BitsOf(kept, 6)
<1>1. j \in Nat /\ n \in Nat /\ n = (3 * j) \div 4
  BY ElementsOf DEF BytesOf
<1>2. \A i \in 1 .. j : kept[i] \in 0 .. 63
  BY ElementsOf DEF Alphabet
<1>3. \A m \in 1 .. n : out[m] = ByteOf(kept, m)
  BY DEF BytesOf
<1>4. /\ f = [i \in 1 .. 8 * n |-> (out[(i - 1) \div 8 + 1] \div TwoTo[8 - 1 - ((i - 1) % 8)]) % 2]
      /\ h = [i \in 1 .. 6 * j |-> (kept[(i - 1) \div 6 + 1] \div TwoTo[6 - 1 - ((i - 1) % 6)]) % 2]
  BY DEF BitsOf
<1> HIDE DEF j, n, f, h
<1>5. 8 * n \in Nat /\ 6 * j \in Nat /\ 8 * n <= 6 * j /\ (6 * j) \div 8 = n
  BY <1>1
<1>6. ASSUME NEW i \in 1 .. 8 * n PROVE f[i] = h[i]
  <2>0. PICK g \in Nat, r \in 0 .. 2, k \in 0 .. 7 : BitSpot(i, j, n, g, r, k)
    BY <1>1, BitPlace
  <2>1. /\ (i - 1) \div 8 + 1 = 3 * g + r + 1
        /\ (i - 1) % 8 = k
        /\ (i - 1) \div 6 + 1 = 4 * g + (8 * r + k) \div 6 + 1
        /\ (i - 1) % 6 = (8 * r + k) % 6
        /\ 3 * g + r + 1 \in 1 .. n
        /\ 4 * g + r + 1 \in 1 .. j
        /\ 4 * g + r + 2 \in 1 .. j
    BY <2>0 DEF BitSpot
  <2> DEFINE m == 3 * g + r + 1
             t == 8 * r + k
             a == kept[4 * g + r + 1]
             b == kept[4 * g + r + 2]
  <2>2. a \in 0 .. 63 /\ b \in 0 .. 63
    BY <1>2, <2>1
  <2>3. out[m] = ByteAt(r, a, b)
    <3>1. (m - 1) \div 3 = g /\ (m - 1) % 3 = r /\ m + g = 4 * g + r + 1 /\ m + g + 1 = 4 * g + r + 2
      OBVIOUS
    <3>2. out[m] = ByteOf(kept, m)
      BY <1>3, <2>1
    <3> HIDE DEF m
    <3>3. QED BY <3>1, <3>2 DEF ByteOf, ByteAt
  <2>4. kept[4 * g + t \div 6 + 1] = IF t \div 6 = r THEN a ELSE b
    <3>1. t \div 6 = r \/ t \div 6 = r + 1
      OBVIOUS
    <3>2. CASE t \div 6 = r
      BY <3>2
    <3>3. CASE t \div 6 = r + 1
      <4>1. 4 * g + t \div 6 + 1 = 4 * g + r + 2 /\ t \div 6 # r
        BY <3>3
      <4> HIDE DEF t
      <4>2. QED BY <4>1
    <3>4. QED BY <3>1, <3>2, <3>3
  <2>5. BitAt(r, k, a, b)
    <3> HIDE DEF a, b
    <3>1. QED BY <2>2, BitIs
  <2>6. SameBit(out[m], TwoTo[7 - k], kept[4 * g + t \div 6 + 1], TwoTo[5 - (t % 6)])
    <3> HIDE DEF a, b, m
    <3>1. QED BY <2>3, <2>4, <2>5 DEF BitAt
  <2>7. i \in 1 .. 6 * j
    BY <1>5
  <2>8. 8 - 1 - k = 7 - k /\ 6 - 1 - (t % 6) = 5 - (t % 6)
    OBVIOUS
  <2> HIDE DEF a, b, m, t
  <2>9. f[i] = (out[m] \div TwoTo[7 - k]) % 2
    BY <1>4, <2>1, <2>8 DEF m
  <2>10. h[i] = (kept[4 * g + t \div 6 + 1] \div TwoTo[5 - (t % 6)]) % 2
    BY <1>4, <2>1, <2>7, <2>8 DEF t
  <2>11. QED BY <2>6, <2>9, <2>10 DEF SameBit
<1>7. Listed(f, 8 * n) /\ Listed(h, 6 * j) /\ Ahead(f, h, 8 * n)
  BY <1>4, <1>6 DEF Listed, Ahead
<1>8. f = SubSeq(h, 1, 8 * n)
  BY <1>5, <1>7, FrontOf
<1>9. QED BY <1>5, <1>8 DEF f, h, j

-----------------------------------------------------------------------------
(* The text of bytes.                                                      *)

\* Without what stands at its end, a text is what stands in front.
LEMMA Leading ==
    ASSUME NEW drop, NEW text \in Seq(Text), NEW l \in 0 .. Len(text),
           \A i \in 1 .. l : text[i] \notin drop,
           \A i \in l + 1 .. Len(text) : text[i] \in drop
    PROVE  /\ Without(drop, text) \in Seq(Text)
           /\ Len(Without(drop, text)) = l
           /\ \A i \in 1 .. l : Without(drop, text)[i] = text[i]
<1> DEFINE n == Len(text)
<1>1. n \in Nat /\ \A k \in 1 .. n : text[k] \in Text
  BY ElementsOf
<1>2. PICK left : Keeping(left, drop, text) /\ Without(drop, text) = left[n]
  BY Keeps
<1>3. left[0] = <<>> /\ \A k \in 1 .. n : left[k] = Kept(drop, left[k - 1], text[k])
  BY <1>2 DEF Keeping
<1> HIDE DEF n
<1> DEFINE Far(k) == IF k <= l THEN k ELSE l
           T == {k \in Nat : /\ left[k] \in Seq(Text)
                             /\ Len(left[k]) = Far(k)
                             /\ \A i \in 1 .. Far(k) : left[k][i] = text[i]}
<1>4. l \in Nat /\ l <= n
  BY <1>1 DEF n
<1>5. 0 \in T
  <2>1. Far(0) = 0 /\ 0 \in Nat
    BY <1>4
  <2>2. <<>> \in Seq(Text) /\ Len(<<>>) = 0 /\ \A i \in 1 .. 0 : FALSE
    OBVIOUS
  <2>3. QED BY <1>3, <2>1, <2>2
<1>6. ASSUME NEW k \in 0 .. n, k \in T, k + 1 \in 0 .. n PROVE k + 1 \in T
  <2> DEFINE c == text[k + 1]
             s == left[k]
  <2>1. k + 1 \in 1 .. n /\ (k + 1) - 1 = k /\ k + 1 \in Nat
    BY <1>1, <1>6
  <2>2. c \in Text /\ left[k + 1] = Kept(drop, s, c)
    BY <1>1, <1>3, <2>1
  <2>3. s \in Seq(Text) /\ Len(s) = Far(k) /\ \A i \in 1 .. Far(k) : s[i] = text[i]
    BY <1>6
  <2>4. CASE k + 1 <= l
    <3>1. c \notin drop /\ Far(k) = k /\ Far(k + 1) = k + 1
      BY <1>4, <2>1, <2>4
    <3>2. left[k + 1] = Append(s, c)
      BY <2>2, <3>1 DEF Kept
    <3> HIDE DEF c, s
    <3>3. /\ Append(s, c) \in Seq(Text) /\ Len(Append(s, c)) = k + 1
          /\ Append(s, c)[k + 1] = c /\ \A i \in 1 .. k : Append(s, c)[i] = s[i]
      BY <2>2, <2>3, <3>1
    <3>4. \A i \in 1 .. k + 1 : i \in 1 .. k \/ i = k + 1
      BY <2>1
    <3>5. \A i \in 1 .. k + 1 : left[k + 1][i] = text[i]
      BY <2>3, <3>1, <3>2, <3>3, <3>4 DEF c
    <3>6. QED BY <2>1, <3>1, <3>2, <3>3, <3>5
  <2>5. CASE ~(k + 1 <= l)
    <3>1. c \in drop /\ Far(k) = l /\ Far(k + 1) = l
      <4>1. k + 1 \in l + 1 .. Len(text)
        BY <1>4, <2>1, <2>5 DEF n
      <4>2. QED BY <1>4, <2>1, <2>5, <4>1
    <3>2. left[k + 1] = s
      BY <2>2, <3>1 DEF Kept
    <3> HIDE DEF c
    <3>3. QED BY <2>1, <2>3, <3>1, <3>2
  <2>6. QED BY <2>4, <2>5
<1>7. n \in T /\ Far(n) = l
  <2>1. Far(n) = l
    BY <1>1, <1>4
  <2> HIDE DEF T
  <2>2. 0 .. n \subseteq T
    BY <1>1, <1>5, <1>6, UpTo
  <2>3. QED BY <1>1, <2>1, <2>2
<1>8. QED BY <1>2, <1>7

\* Four characters of three bytes, and the bytes of four characters.
LEMMA QuadBits ==
    ASSUME NEW b \in Byte, NEW c \in Byte, NEW d \in Byte, NEW n, n = b * 65536 + c * 256 + d
    PROVE  /\ n \div 262144 = b \div 4
           /\ (n \div 4096) % 64 = (b % 4) * 16 + c \div 16
           /\ (n \div 64) % 64 = (c % 16) * 4 + d \div 64
           /\ n % 64 = d % 64
<1> DEFINE b1 == b \div 4
           b2 == b % 4
           c1 == c \div 16
           c2 == c % 16
           d1 == d \div 64
           d2 == d % 64
<1>1. /\ b1 \in 0 .. 63 /\ b2 \in 0 .. 3 /\ b = 4 * b1 + b2
      /\ c1 \in 0 .. 15 /\ c2 \in 0 .. 15 /\ c = 16 * c1 + c2
      /\ d1 \in 0 .. 3 /\ d2 \in 0 .. 63 /\ d = 64 * d1 + d2
  BY DEF Byte
<1> HIDE DEF b1, b2, c1, c2, d1, d2
<1>2. n = 262144 * b1 + 65536 * b2 + 4096 * c1 + 256 * c2 + 64 * d1 + d2
  BY <1>1
<1>3. n \div 262144 = b1
  BY <1>1, <1>2
<1>4. n \div 4096 = 64 * b1 + 16 * b2 + c1
  BY <1>1, <1>2
<1>5. (n \div 4096) % 64 = 16 * b2 + c1
  BY <1>1, <1>4
<1>6. n \div 64 = 4096 * b1 + 1024 * b2 + 64 * c1 + 4 * c2 + d1
  BY <1>1, <1>2
<1>7. (n \div 64) % 64 = 4 * c2 + d1
  BY <1>1, <1>6
<1>8. n % 64 = d2
  BY <1>1, <1>2
<1>9. b2 * 16 = 16 * b2 /\ c2 * 4 = 4 * c2
  BY <1>1
<1>10. QED BY <1>3, <1>5, <1>7, <1>8, <1>9 DEF b1, b2, c1, c2, d1, d2

LEMMA BitsBack ==
    ASSUME NEW b \in Byte, NEW c \in Byte, NEW d \in Byte
    PROVE  /\ b \div 4 \in Alphabet /\ (b % 4) * 16 + c \div 16 \in Alphabet
           /\ (c % 16) * 4 + d \div 64 \in Alphabet /\ d % 64 \in Alphabet
           /\ ByteAt(0, b \div 4, (b % 4) * 16 + c \div 16) = b
           /\ ByteAt(1, (b % 4) * 16 + c \div 16, (c % 16) * 4 + d \div 64) = c
           /\ ByteAt(2, (c % 16) * 4 + d \div 64, d % 64) = d
<1> DEFINE b1 == b \div 4
           b2 == b % 4
           c1 == c \div 16
           c2 == c % 16
           d1 == d \div 64
           d2 == d % 64
<1>1. /\ b1 \in 0 .. 63 /\ b2 \in 0 .. 3 /\ b = 4 * b1 + b2
      /\ c1 \in 0 .. 15 /\ c2 \in 0 .. 15 /\ c = 16 * c1 + c2
      /\ d1 \in 0 .. 3 /\ d2 \in 0 .. 63 /\ d = 64 * d1 + d2
  BY DEF Byte
<1> HIDE DEF b1, b2, c1, c2, d1, d2
<1>2. b2 * 16 + c1 \in 0 .. 63 /\ c2 * 4 + d1 \in 0 .. 63
  BY <1>1
<1>3. (b2 * 16 + c1) \div 16 = b2 /\ (b2 * 16 + c1) % 16 = c1
  BY <1>1
<1>4. (c2 * 4 + d1) \div 4 = c2 /\ (c2 * 4 + d1) % 4 = d1
  BY <1>1
<1>5. b1 * 4 + b2 = b /\ c1 * 16 + c2 = c /\ d1 * 64 + d2 = d
  BY <1>1
<1>6. /\ ByteAt(0, b1, b2 * 16 + c1) = b
      /\ ByteAt(1, b2 * 16 + c1, c2 * 4 + d1) = c
      /\ ByteAt(2, c2 * 4 + d1, d2) = d
  BY <1>3, <1>4, <1>5 DEF ByteAt
<1>7. QED BY <1>1, <1>2, <1>6 DEF b1, b2, c1, c2, d1, d2, Alphabet

\* The bytes of a text as its encoder reads them: none is there behind the last.
ByteOr(bytes, i) == IF i <= Len(bytes) THEN bytes[i] ELSE 0

\* The characters of the three bytes behind the first 3 * g.
EncodedBy(text, bytes, g) ==
    LET b == ByteOr(bytes, 3 * g + 1)
        c == ByteOr(bytes, 3 * g + 2)
        d == ByteOr(bytes, 3 * g + 3)
    IN  /\ text[4 * g + 1] = b \div 4
        /\ text[4 * g + 2] = (b % 4) * 16 + c \div 16
        /\ text[4 * g + 3] = IF 3 * g + 2 <= Len(bytes) THEN (c % 16) * 4 + d \div 64 ELSE Pad
        /\ text[4 * g + 4] = IF 3 * g + 3 <= Len(bytes) THEN d % 64 ELSE Pad

QuadOf(q, bytes, g) ==
    LET b == ByteOr(bytes, 3 * g + 1)
        c == ByteOr(bytes, 3 * g + 2)
        d == ByteOr(bytes, 3 * g + 3)
    IN  q = << b \div 4,
               (b % 4) * 16 + c \div 16,
               IF 3 * g + 2 <= Len(bytes) THEN (c % 16) * 4 + d \div 64 ELSE Pad,
               IF 3 * g + 3 <= Len(bytes) THEN d % 64 ELSE Pad >>

LEMMA BytesThere ==
    ASSUME NEW bytes \in Seq(Byte), NEW i \in Nat, i > 0
    PROVE  ByteOr(bytes, i) \in Byte
<1>1. Len(bytes) \in Nat /\ \A k \in 1 .. Len(bytes) : bytes[k] \in Byte
  BY ElementsOf
<1>2. i <= Len(bytes) => i \in 1 .. Len(bytes)
  BY <1>1
<1>3. 0 \in Byte
  BY DEF Byte
<1>4. QED BY <1>1, <1>2, <1>3 DEF ByteOr

\* A chunk is up to three of the bytes.
LEMMA ChunkIs ==
    ASSUME NEW bytes \in Seq(Byte), NEW g \in Nat, g + 1 <= (Len(bytes) + 2) \div 3
    PROVE  QuadOf(Quad(Chunks(bytes)[g + 1]), bytes, g)
<1> DEFINE n == Len(bytes)
           last == IF 3 * (g + 1) < n THEN 3 * (g + 1) ELSE n
           chunk == Chunks(bytes)[g + 1]
           At(i) == IF i <= Len(chunk) THEN chunk[i] ELSE 0
           b == ByteOr(bytes, 3 * g + 1)
           c == ByteOr(bytes, 3 * g + 2)
           d == ByteOr(bytes, 3 * g + 3)
<1>1. n \in Nat /\ \A k \in 1 .. n : bytes[k] \in Byte
  BY ElementsOf
<1>2. chunk = SubSeq(bytes, 3 * (g + 1) - 2, last)
  <2>1. g + 1 \in 1 .. (n + 2) \div 3
    BY <1>1
  <2>2. QED BY <2>1 DEF Chunks
<1> HIDE DEF n
<1>3. /\ 3 * (g + 1) - 2 = 3 * g + 1 /\ 3 * (g + 1) = 3 * g + 3
      /\ last \in Nat /\ 3 * g + 1 <= last /\ last <= n /\ last <= 3 * g + 3
      /\ 3 * g + 2 <= n <=> 3 * g + 2 <= last
      /\ 3 * g + 3 <= n <=> 3 * g + 3 <= last
  BY <1>1 DEF n
<1> HIDE DEF last, chunk
<1>4. /\ chunk \in Seq(Byte) /\ Len(chunk) = last - 3 * g
      /\ \A i \in 1 .. last - 3 * g : chunk[i] = bytes[3 * g + i]
  <2>1. \A i \in 3 * g + 1 .. last : bytes[i] \in Byte
    BY <1>1, <1>3
  <2>2. 3 * g + 1 \in Int /\ last \in Int /\ (last - (3 * g + 1)) + 1 = last - 3 * g
        /\ \A i \in 1 .. last - 3 * g : (3 * g + 1 + i) - 1 = 3 * g + i
    BY <1>3
  <2>3. QED BY <1>2, <1>3, <2>1, <2>2, SubSeqProperties
<1>5. ASSUME NEW i \in 1 .. 3 PROVE At(i) = ByteOr(bytes, 3 * g + i)
  <2>1. CASE i <= last - 3 * g
    <3>1. i \in 1 .. last - 3 * g /\ 3 * g + i <= n
      BY <1>1, <1>3, <2>1
    <3>2. QED BY <1>4, <2>1, <3>1 DEF ByteOr, n
  <2>2. CASE ~(i <= last - 3 * g)
    <3>1. ~(3 * g + i <= n) /\ i \in {1, 2, 3}
      BY <1>1, <1>3, <2>2
    <3>2. QED BY <1>4, <2>2, <3>1 DEF ByteOr, n
  <2>3. QED BY <2>1, <2>2
<1>6. At(1) = b /\ At(2) = c /\ At(3) = d
  <2> HIDE DEF At
  <2>1. 1 \in 1 .. 3 /\ 2 \in 1 .. 3 /\ 3 \in 1 .. 3
    OBVIOUS
  <2>2. QED BY <1>5, <2>1
<1>7. b \in Byte /\ c \in Byte /\ d \in Byte
  <2>1. /\ 3 * g + 1 \in Nat /\ 3 * g + 2 \in Nat /\ 3 * g + 3 \in Nat
        /\ 3 * g + 1 > 0 /\ 3 * g + 2 > 0 /\ 3 * g + 3 > 0
    OBVIOUS
  <2>2. QED BY <2>1, BytesThere
<1>8. (Len(chunk) > 1 <=> 3 * g + 2 <= n) /\ (Len(chunk) > 2 <=> 3 * g + 3 <= n)
  BY <1>1, <1>3, <1>4
<1> DEFINE w == At(1) * 65536 + At(2) * 256 + At(3)
<1>9. Quad(chunk) = << w \div 262144, (w \div 4096) % 64,
                       IF Len(chunk) > 1 THEN (w \div 64) % 64 ELSE Pad,
                       IF Len(chunk) > 2 THEN w % 64 ELSE Pad >>
  BY DEF Quad
<1>10. /\ w \div 262144 = b \div 4
       /\ (w \div 4096) % 64 = (b % 4) * 16 + c \div 16
       /\ (w \div 64) % 64 = (c % 16) * 4 + d \div 64
       /\ w % 64 = d % 64
  <2>1. w = b * 65536 + c * 256 + d
    <3> HIDE DEF At, b, c, d
    <3>1. QED BY <1>6
  <2> HIDE DEF At, w, b, c, d
  <2>2. QED BY <1>7, <2>1, QuadBits
<1> HIDE DEF At, w
<1>11. QED BY <1>8, <1>9, <1>10 DEF QuadOf, n, chunk

\* The encoding of bytes, four characters for every three of them begun.
LEMMA EncodedIs ==
    ASSUME NEW bytes \in Seq(Byte)
    PROVE  /\ Len(B64Encode(bytes)) = 4 * ((Len(bytes) + 2) \div 3)
           /\ B64Encode(bytes) \in Seq(Text)
           /\ \A g \in Nat : g + 1 <= (Len(bytes) + 2) \div 3 => EncodedBy(B64Encode(bytes), bytes, g)
<1> DEFINE n == Len(bytes)
           m == (n + 2) \div 3
           seqs == [k \in DOMAIN Chunks(bytes) |-> Quad(Chunks(bytes)[k])]
           text == B64Encode(bytes)
<1>1. n \in Nat /\ m \in Nat
  <2>1. n \in Nat
    BY ElementsOf
  <2>2. QED BY <2>1
<1>2. DOMAIN Chunks(bytes) = 1 .. m
  BY DEF Chunks
<1> HIDE DEF m
<1>3. ASSUME NEW k \in 1 .. m PROVE QuadOf(seqs[k], bytes, k - 1)
  <2>1. k - 1 \in Nat /\ (k - 1) + 1 = k /\ (k - 1) + 1 <= m
    BY <1>1
  <2>2. QuadOf(Quad(Chunks(bytes)[(k - 1) + 1]), bytes, k - 1)
    BY <2>1, ChunkIs DEF m
  <2>3. QED BY <1>2, <2>1, <2>2
<1>4. ASSUME NEW q, NEW g \in Nat, QuadOf(q, bytes, g)
      PROVE  q \in Seq(Text) /\ Len(q) = 4
  <2> DEFINE b == ByteOr(bytes, 3 * g + 1)
             c == ByteOr(bytes, 3 * g + 2)
             d == ByteOr(bytes, 3 * g + 3)
             q2 == (b % 4) * 16 + c \div 16
             q3 == IF 3 * g + 2 <= Len(bytes) THEN (c % 16) * 4 + d \div 64 ELSE Pad
             q4 == IF 3 * g + 3 <= Len(bytes) THEN d % 64 ELSE Pad
  <2>1. b \in Byte /\ c \in Byte /\ d \in Byte
    <3>1. /\ 3 * g + 1 \in Nat /\ 3 * g + 2 \in Nat /\ 3 * g + 3 \in Nat
          /\ 3 * g + 1 > 0 /\ 3 * g + 2 > 0 /\ 3 * g + 3 > 0
      OBVIOUS
    <3>2. QED BY <3>1, BytesThere
  <2>2. q = <<b \div 4, q2, q3, q4>>
    BY <1>4 DEF QuadOf
  <2> HIDE DEF b, c, d
  <2>3. b \div 4 \in Alphabet /\ q2 \in Alphabet /\ (c % 16) * 4 + d \div 64 \in Alphabet /\ d % 64 \in Alphabet
    BY <2>1, BitsBack
  <2>4. Alphabet \subseteq Text /\ Pad \in Text
    BY DEF Alphabet, Text, Pad
  <2>5. b \div 4 \in Text /\ q2 \in Text /\ q3 \in Text /\ q4 \in Text
    BY <2>3, <2>4, Zenon
  <2> DEFINE q1 == b \div 4
  <2> HIDE DEF q1, q2, q3, q4
  <2>6. QED BY <2>2, <2>5 DEF q1
<1> HIDE DEF seqs
<1>5. seqs \in Seq(Seq(Text)) /\ Len(seqs) = m /\ \A k \in 1 .. m : Len(seqs[k]) = 4
  <2>1. \A k \in 1 .. m : seqs[k] \in Seq(Text) /\ Len(seqs[k]) = 4
    <3>1. \A k \in 1 .. m : k - 1 \in Nat
      BY <1>1
    <3>2. QED BY <1>3, <1>4, <3>1
  <2>2. seqs = [k \in 1 .. m |-> seqs[k]]
    BY <1>2 DEF seqs
  <2>3. seqs \in [1 .. m -> Seq(Text)]
    BY <2>1, <2>2
  <2>4. QED BY <1>1, <2>1, <2>3
<1>6. text = FlattenSeq(seqs)
  BY DEF B64Encode, seqs
<1>7. PICK run : Fronts(run, Text, seqs) /\ FlattenSeq(seqs) = run[m]
  BY <1>5, Flattened
<1>8. run[0] = <<>> /\ \A k \in 1 .. m : BlockHeld(run, seqs, k)
  BY <1>5, <1>7, BlockAt DEF Fronts
<1> DEFINE T == {k \in Nat : Len(run[k]) = 4 * k}
<1>9. 0 \in T
  BY <1>8
<1>10. ASSUME NEW k \in 0 .. m, k \in T, k + 1 \in 0 .. m PROVE k + 1 \in T
  <2>1. k + 1 \in 1 .. m /\ (k + 1) - 1 = k /\ k + 1 \in Nat /\ 4 * k + 4 = 4 * (k + 1)
    BY <1>1, <1>10
  <2>2. Len(run[k + 1]) = Len(run[k]) + Len(seqs[k + 1])
    BY <1>8, <2>1 DEF BlockHeld
  <2>3. Len(run[k]) = 4 * k /\ Len(seqs[k + 1]) = 4
    BY <1>5, <1>10, <2>1
  <2>4. QED BY <2>1, <2>2, <2>3
<1>11. \A k \in 0 .. m : Len(run[k]) = 4 * k
  <2> HIDE DEF T
  <2>1. 0 .. m \subseteq T
    BY <1>1, <1>9, <1>10, UpTo
  <2>2. QED BY <2>1 DEF T
<1>12. Len(text) = 4 * m
  BY <1>1, <1>6, <1>7, <1>11
<1>13. text \in Seq(Text)
  <2>1. m \in 0 .. Len(seqs)
    BY <1>1, <1>5
  <2>2. QED BY <1>5, <1>6, <1>7, <2>1, FrontsStay
<1>14. ASSUME NEW g \in Nat, g + 1 <= m PROVE EncodedBy(text, bytes, g)
  <2> DEFINE k == g + 1
             q == seqs[k]
  <2>1. k \in 1 .. m /\ k - 1 = g /\ k - 1 \in 0 .. m
    BY <1>1, <1>14
  <2>2. QuadOf(q, bytes, g)
    BY <1>3, <2>1
  <2> HIDE DEF k
  <2>3. \A i \in 1 .. 4 : text[4 * g + i] = q[i]
    <3>1. Len(run[k - 1]) = 4 * g /\ Len(q) = 4 /\ BlockHeld(run, seqs, k)
      BY <1>5, <1>8, <1>11, <2>1
    <3>2. QED BY <1>5, <1>6, <1>7, <2>1, <3>1 DEF BlockHeld
  <2>4. text[4 * g + 1] = q[1] /\ text[4 * g + 2] = q[2] /\ text[4 * g + 3] = q[3] /\ text[4 * g + 4] = q[4]
    BY <2>3
  <2> HIDE DEF q, text
  <2>5. QED BY <2>2, <2>4 DEF QuadOf, EncodedBy
<1>15. QED BY <1>12, <1>13, <1>14 DEF m

\* How many characters stand for n bytes, before the padding.
CharsFor(n) == (4 * n + 2) \div 3

LEMMA CharsAre ==
    ASSUME NEW n \in Nat
    PROVE  /\ CharsFor(n) \in Nat /\ (3 * CharsFor(n)) \div 4 = n
           /\ CharsFor(n) <= 4 * ((n + 2) \div 3)
<1> DEFINE a == n \div 3
           t == n % 3
<1>1. a \in Nat /\ t \in 0 .. 2 /\ n = 3 * a + t
  OBVIOUS
<1> HIDE DEF a
<1>2. CASE t = 0
  <2>1. CharsFor(n) = 4 * a /\ (n + 2) \div 3 = a
    BY <1>1, <1>2 DEF CharsFor
  <2>2. QED BY <1>1, <1>2, <2>1
<1>3. CASE t = 1
  <2>1. CharsFor(n) = 4 * a + 2 /\ (n + 2) \div 3 = a + 1
    BY <1>1, <1>3 DEF CharsFor
  <2>2. QED BY <1>1, <1>3, <2>1
<1>4. CASE t = 2
  <2>1. CharsFor(n) = 4 * a + 3 /\ (n + 2) \div 3 = a + 1
    BY <1>1, <1>4 DEF CharsFor
  <2>2. QED BY <1>1, <1>4, <2>1
<1>5. QED BY <1>1, <1>2, <1>3, <1>4

\* The place of a character in its four, and of what it stands for among n bytes.
LEMMA CharPlace ==
    ASSUME NEW n \in Nat, NEW q \in 1 .. 4 * ((n + 2) \div 3)
    PROVE  \E g \in Nat, i \in 1 .. 4 :
              /\ q = 4 * g + i
              /\ g + 1 <= (n + 2) \div 3
              /\ i \in {1, 2} => q <= CharsFor(n)
              /\ i = 3 => (q <= CharsFor(n) <=> 3 * g + 2 <= n)
              /\ i = 4 => (q <= CharsFor(n) <=> 3 * g + 3 <= n)
<1> DEFINE g == (q - 1) \div 4
           i == ((q - 1) % 4) + 1
           m == (n + 2) \div 3
           l == CharsFor(n)
<1>1. g \in Nat /\ i \in 1 .. 4 /\ q = 4 * g + i
  OBVIOUS
<1>2. m \in Nat /\ n + 2 >= 3 * m /\ q <= 4 * m
  OBVIOUS
<1>3. l \in Nat /\ 3 * l <= 4 * n + 2 /\ 4 * n <= 3 * l
  BY DEF CharsFor
<1> HIDE DEF g, i, m, l
<1>4. g + 1 <= m /\ 3 * g + 1 <= n
  BY <1>1, <1>2
<1>5. i \in {1, 2} => q <= l
  BY <1>1, <1>3, <1>4
<1>6. i = 3 => (q <= l <=> 3 * g + 2 <= n)
  BY <1>1, <1>3, <1>4
<1>7. i = 4 => (q <= l <=> 3 * g + 3 <= n)
  BY <1>1, <1>3, <1>4
<1>8. QED BY <1>1, <1>4, <1>5, <1>6, <1>7 DEF m, l

\* The padding is at the end of a text, and nowhere else.
LEMMA PaddedAtTheEnd ==
    ASSUME NEW bytes \in Seq(Byte)
    PROVE  \A q \in 1 .. Len(B64Encode(bytes)) :
              IF q <= CharsFor(Len(bytes)) THEN B64Encode(bytes)[q] \in Alphabet
              ELSE B64Encode(bytes)[q] = Pad
<1> DEFINE n == Len(bytes)
           text == B64Encode(bytes)
<1>1. n \in Nat
  BY ElementsOf
<1>2. Len(text) = 4 * ((n + 2) \div 3)
  BY EncodedIs
<1> SUFFICES ASSUME NEW q \in 1 .. 4 * ((n + 2) \div 3)
             PROVE  IF q <= CharsFor(n) THEN text[q] \in Alphabet ELSE text[q] = Pad
  BY <1>2
<1> HIDE DEF n
<1>3. PICK g \in Nat, i \in 1 .. 4 :
         /\ q = 4 * g + i
         /\ g + 1 <= (n + 2) \div 3
         /\ i \in {1, 2} => q <= CharsFor(n)
         /\ i = 3 => (q <= CharsFor(n) <=> 3 * g + 2 <= n)
         /\ i = 4 => (q <= CharsFor(n) <=> 3 * g + 3 <= n)
  BY <1>1, CharPlace
<1>4. EncodedBy(text, bytes, g)
  BY <1>3, EncodedIs DEF n
<1> DEFINE b == ByteOr(bytes, 3 * g + 1)
           c == ByteOr(bytes, 3 * g + 2)
           d == ByteOr(bytes, 3 * g + 3)
<1>5. b \in Byte /\ c \in Byte /\ d \in Byte
  <2>1. /\ 3 * g + 1 \in Nat /\ 3 * g + 2 \in Nat /\ 3 * g + 3 \in Nat
        /\ 3 * g + 1 > 0 /\ 3 * g + 2 > 0 /\ 3 * g + 3 > 0
    OBVIOUS
  <2>2. QED BY <2>1, BytesThere
<1>6. /\ text[4 * g + 1] = b \div 4
      /\ text[4 * g + 2] = (b % 4) * 16 + c \div 16
      /\ text[4 * g + 3] = IF 3 * g + 2 <= n THEN (c % 16) * 4 + d \div 64 ELSE Pad
      /\ text[4 * g + 4] = IF 3 * g + 3 <= n THEN d % 64 ELSE Pad
  BY <1>4 DEF EncodedBy, n
<1> HIDE DEF b, c, d, text
<1>7. b \div 4 \in Alphabet /\ (b % 4) * 16 + c \div 16 \in Alphabet
      /\ (c % 16) * 4 + d \div 64 \in Alphabet /\ d % 64 \in Alphabet
  BY <1>5, BitsBack
<1>8. i \in {1, 2, 3, 4}
  OBVIOUS
<1>9. CASE i = 1
  BY <1>3, <1>6, <1>7, <1>9
<1>10. CASE i = 2
  BY <1>3, <1>6, <1>7, <1>10
<1>11. CASE i = 3
  BY <1>3, <1>6, <1>7, <1>11
<1>12. CASE i = 4
  BY <1>3, <1>6, <1>7, <1>12
<1>13. QED BY <1>8, <1>9, <1>10, <1>11, <1>12

\* The characters before the padding hold the bytes and nothing else.
LEMMA BytesComeBack ==
    ASSUME NEW bytes \in Seq(Byte), NEW kept \in Seq(Alphabet), NEW out,
           Len(kept) = CharsFor(Len(bytes)),
           \A q \in 1 .. Len(kept) : kept[q] = B64Encode(bytes)[q],
           BytesOf(out, kept)
    PROVE  out = bytes
<1> DEFINE n == Len(bytes)
           l == Len(kept)
           text == B64Encode(bytes)
<1>1. n \in Nat /\ l \in Nat /\ \A i \in 1 .. n : bytes[i] \in Byte
  BY ElementsOf
<1>2. out \in Seq(Nat) /\ Len(out) = n /\ \A m \in 1 .. n : out[m] = ByteOf(kept, m)
  BY <1>1, CharsAre DEF BytesOf
<1>3. ASSUME NEW m \in 1 .. n PROVE out[m] = bytes[m]
  <2> DEFINE g == (m - 1) \div 3
             r == (m - 1) % 3
             b == ByteOr(bytes, 3 * g + 1)
             c == ByteOr(bytes, 3 * g + 2)
             d == ByteOr(bytes, 3 * g + 3)
  <2>1. g \in Nat /\ r \in 0 .. 2 /\ m = 3 * g + r + 1
    BY <1>1
  <2>2. m + g \in 1 .. l /\ m + g + 1 \in 1 .. l
    <3>1. l = CharsFor(n) /\ m \in 1 .. (3 * l) \div 4
      BY <1>1, CharsAre
    <3>2. QED BY <1>1, <3>1, Places
  <2>3. EncodedBy(text, bytes, g)
    <3>1. g + 1 <= (n + 2) \div 3
      BY <1>1, <2>1
    <3>2. QED BY <2>1, <3>1, EncodedIs
  <2>4. b \in Byte /\ c \in Byte /\ d \in Byte
    <3>1. /\ 3 * g + 1 \in Nat /\ 3 * g + 2 \in Nat /\ 3 * g + 3 \in Nat
          /\ 3 * g + 1 > 0 /\ 3 * g + 2 > 0 /\ 3 * g + 3 > 0
      BY <2>1
    <3> HIDE DEF g
    <3>2. QED BY <3>1, BytesThere
  <2>5. /\ text[4 * g + 1] = b \div 4
        /\ text[4 * g + 2] = (b % 4) * 16 + c \div 16
        /\ 3 * g + 2 <= n => text[4 * g + 3] = (c % 16) * 4 + d \div 64
        /\ 3 * g + 3 <= n => text[4 * g + 4] = d % 64
    BY <2>3 DEF EncodedBy
  <2>6. kept[m + g] = text[m + g] /\ kept[m + g + 1] = text[m + g + 1]
    BY <2>2
  <2> DEFINE x == kept[m + g]
             y == kept[m + g + 1]
  <2>7. out[m] = ByteAt(r, x, y)
    BY <1>2 DEF ByteOf, ByteAt
  <2>8. bytes[m] = ByteOr(bytes, 3 * g + r + 1)
    BY <1>1, <2>1 DEF ByteOr
  <2> HIDE DEF g, r, b, c, d, n, text
  <2>9. /\ ByteAt(0, b \div 4, (b % 4) * 16 + c \div 16) = b
        /\ ByteAt(1, (b % 4) * 16 + c \div 16, (c % 16) * 4 + d \div 64) = c
        /\ ByteAt(2, (c % 16) * 4 + d \div 64, d % 64) = d
    BY <2>4, BitsBack
  <2>10. CASE r = 0
    <3>1. m + g = 4 * g + 1 /\ m + g + 1 = 4 * g + 2 /\ 3 * g + r + 1 = 3 * g + 1
      BY <2>1, <2>10
    <3>2. x = b \div 4 /\ y = (b % 4) * 16 + c \div 16
      BY <2>5, <2>6, <3>1
    <3> HIDE DEF x, y
    <3>3. QED BY <2>7, <2>8, <2>9, <2>10, <3>1, <3>2 DEF b
  <2>11. CASE r = 1
    <3>1. /\ m + g = 4 * g + 2 /\ m + g + 1 = 4 * g + 3 /\ 3 * g + r + 1 = 3 * g + 2
          /\ 3 * g + 2 <= n
      BY <1>1, <2>1, <2>11 DEF n
    <3>2. x = (b % 4) * 16 + c \div 16 /\ y = (c % 16) * 4 + d \div 64
      BY <2>5, <2>6, <3>1
    <3> HIDE DEF x, y
    <3>3. QED BY <2>7, <2>8, <2>9, <2>11, <3>1, <3>2 DEF c
  <2>12. CASE r = 2
    <3>1. /\ m + g = 4 * g + 3 /\ m + g + 1 = 4 * g + 4 /\ 3 * g + r + 1 = 3 * g + 3
          /\ 3 * g + 2 <= n /\ 3 * g + 3 <= n
      BY <1>1, <2>1, <2>12 DEF n
    <3>2. x = (c % 16) * 4 + d \div 64 /\ y = d % 64
      BY <2>5, <2>6, <3>1
    <3> HIDE DEF x, y
    <3>3. QED BY <2>7, <2>8, <2>9, <2>12, <3>1, <3>2 DEF d
  <2>13. r \in {0, 1, 2}
    BY <2>1
  <2>14. QED BY <2>10, <2>11, <2>12, <2>13
<1>4. bytes \in Seq(Nat)
  <2>1. Byte \subseteq Nat
    BY DEF Byte
  <2>2. QED BY <2>1, SeqMonotonic, Zenon
<1>5. QED BY <1>2, <1>3, <1>4, SeqEqual

-----------------------------------------------------------------------------
(* The payloads.                                                           *)

LEMMA BytesSurvive ==
    ASSUME NEW bytes \in Seq(Byte)
    PROVE  /\ Len(B64Encode(bytes)) = 4 * ((Len(bytes) + 2) \div 3)
           /\ ~Undecodable(B64Encode(bytes))
           /\ B64Decode(B64Encode(bytes)) = bytes
           /\ B64Decode(Without({Pad}, B64Encode(bytes))) = bytes
<1> DEFINE n == Len(bytes)
           l == CharsFor(n)
           text == B64Encode(bytes)
           bare == Without({Pad}, text)
<1>1. n \in Nat /\ l \in Nat /\ l <= 4 * ((n + 2) \div 3)
  <2>1. n \in Nat
    BY ElementsOf
  <2>2. QED BY <2>1, CharsAre
<1>2. text \in Seq(Text) /\ Len(text) = 4 * ((n + 2) \div 3)
  BY EncodedIs
<1>3. l \in 0 .. Len(text) /\ Len(text) \in Nat
  BY <1>1, <1>2, ElementsOf
<1>4. \A q \in 1 .. Len(text) : IF q <= l THEN text[q] \in Alphabet ELSE text[q] = Pad
  BY PaddedAtTheEnd
<1> HIDE DEF l, text, bare
<1>5. /\ \A q \in 1 .. l : text[q] \in Alphabet
      /\ \A q \in l + 1 .. Len(text) : text[q] = Pad
  <2>1. \A q \in 1 .. l : q \in 1 .. Len(text) /\ q <= l
    BY <1>3
  <2>2. \A q \in l + 1 .. Len(text) : q \in 1 .. Len(text) /\ ~(q <= l)
    BY <1>3
  <2>3. QED BY <1>4, <2>1, <2>2
<1>6. \A x \in Alphabet : x \notin {Pad} /\ x \notin {Pad, Blank}
  BY DEF Alphabet, Pad, Blank
<1>7. ~Undecodable(text)
  <2>1. \A x \in Text : x # Alien
    BY DEF Text, Alien
  <2>2. QED BY <1>2, <2>1, ElementsOf DEF Undecodable
<1>8. ASSUME NEW drop, drop = {Pad} \/ drop = {Pad, Blank}
      PROVE  /\ Without(drop, text) \in Seq(Text)
             /\ Len(Without(drop, text)) = l
             /\ \A i \in 1 .. l : Without(drop, text)[i] = text[i]
  <2>1. \A i \in 1 .. l : text[i] \notin drop
    BY <1>5, <1>6, <1>8
  <2>2. \A i \in l + 1 .. Len(text) : text[i] \in drop
    BY <1>5, <1>8
  <2>3. QED BY <1>2, <1>3, <2>1, <2>2, Leading
<1>9. B64Decode(text) = bytes
  <2> DEFINE kept == Without({Pad, Blank}, text)
  <2>1. kept \in Seq(Alphabet) /\ BytesOf(B64Decode(text), kept)
    BY <1>2, Decoded
  <2>2. Len(kept) = l /\ \A i \in 1 .. l : kept[i] = text[i]
    BY <1>8
  <2> HIDE DEF kept
  <2>3. QED BY <2>1, <2>2, BytesComeBack DEF l, text
<1>10. B64Decode(bare) = bytes
  <2> DEFINE kept == Without({Pad, Blank}, bare)
  <2>1. bare \in Seq(Text) /\ Len(bare) = l /\ \A i \in 1 .. l : bare[i] = text[i]
    BY <1>8 DEF bare
  <2>2. kept \in Seq(Alphabet) /\ BytesOf(B64Decode(bare), kept)
    BY <2>1, Decoded
  <2>3. Len(kept) = l /\ \A i \in 1 .. l : kept[i] = bare[i]
    <3>1. l \in 0 .. Len(bare)
      BY <1>3, <2>1
    <3>2. \A i \in 1 .. l : bare[i] \notin {Pad, Blank}
      BY <1>5, <1>6, <2>1
    <3>3. \A i \in l + 1 .. Len(bare) : bare[i] \in {Pad, Blank}
      BY <1>1, <2>1
    <3>4. QED BY <2>1, <3>1, <3>2, <3>3, Leading
  <2> HIDE DEF kept
  <2>4. QED BY <2>1, <2>2, <2>3, BytesComeBack DEF l, text
<1>11. QED BY <1>2, <1>7, <1>9, <1>10 DEF text, bare

LEMMA PayloadTexts == PayloadsSurvive
<1>1. ASSUME NEW bytes \in SeqOf(SomeBytes, MaxLen) PROVE bytes \in Seq(Byte)
  BY CodecAssumption DEF SeqOf
<1>2. ASSUME NEW text \in SeqOf(SomeChars, MaxLen), ~Undecodable(text) PROVE text \in Seq(Text)
  <2> DEFINE All == 0 .. Alien
  <2>1. text \in Seq(All)
    <3>1. SomeChars \subseteq All
      BY CodecAssumption
    <3>2. PICK m \in 0 .. MaxLen : text \in [1 .. m -> SomeChars]
      BY DEF SeqOf
    <3>3. m \in Nat
      BY CodecAssumption
    <3> HIDE DEF All
    <3>4. text \in [1 .. m -> All]
      BY <3>1, <3>2
    <3>5. QED BY <3>3, <3>4
  <2>2. DOMAIN text = 1 .. Len(text) /\ Len(text) \in Nat
        /\ \A k \in 1 .. Len(text) : text[k] \in All
    <3> HIDE DEF All
    <3>1. QED BY <2>1, ElementsOf
  <2>3. \A x \in 0 .. Alien : x # Alien => x \in Text
    BY DEF Text, Alien
  <2>4. \A k \in 1 .. Len(text) : text[k] \in Text
    BY <1>2, <2>2, <2>3 DEF Undecodable
  <2>5. text = [k \in 1 .. Len(text) |-> text[k]]
    <3> HIDE DEF All
    <3>1. QED BY <2>1
  <2>6. text \in [1 .. Len(text) -> Text]
    BY <2>4, <2>5
  <2>7. QED BY <2>2, <2>6
<1>3. ASSUME NEW text \in SeqOf(SomeChars, MaxLen), ~Undecodable(text)
      PROVE  LET chars == Without({Pad, Blank}, text)
                 whole == (6 * Len(chars)) \div 8
             IN  BitsOf(B64Decode(text), 8) = SubSeq(BitsOf(chars, 6), 1, 8 * whole)
  <2>1. text \in Seq(Text)
    BY <1>2, <1>3
  <2>2. Without({Pad, Blank}, text) \in Seq(Alphabet)
        /\ BytesOf(B64Decode(text), Without({Pad, Blank}, text))
    BY <2>1, Decoded
  <2>3. QED BY <2>2, BitsAgree
<1>4. QED BY <1>1, <1>3, BytesSurvive DEF PayloadsSurvive

\* What is published is what arrives: base64 gives every payload back, with its
\* padding and without, and the decoder takes no bit too many or too few of any
\* text it accepts, for any width of its accumulator that holds two characters.
THEOREM PayloadsArrive == Spec => []PayloadIntact
<1>1. PayloadIntact
  BY PayloadTexts DEF PayloadIntact
<1>2. QED BY <1>1, PTL

\* A payload reaches the topic it is meant for: no two content topics are written
\* as the same path segment, and none as more than one segment.
THEOREM TopicsStayApart == Spec => []TopicsApart
<1>1. TopicsApart
  BY TopicSegments DEF TopicsApart
<1>2. QED BY <1>1, PTL
=============================================================================
