------------------------------ MODULE WakuGate ------------------------------
(***************************************************************************)
(* One run of the token-gated chat demonstration over two Waku nodes:      *)
(* integrations/chat-gate/examples/waku_token_gate.rs on the transport     *)
(* crates/delivery-transport/src/waku_rest.rs.  The operator subscribes on *)
(* its node, the candidate publishes on the other, and the operator polls  *)
(* its node a bounded number of times.  The nodes and the relay network    *)
(* between them are external: other members publish on the same topic,     *)
(* messages are delayed and lost, the network's mesh comes and goes, and a *)
(* REST call may fail after the node has done its part.                    *)
(***************************************************************************)
EXTENDS TextCodecs

CONSTANTS
    Mine,        \* the candidate's envelope
    Foreign,     \* other credentials published on the topic
    Junk,        \* payloads on the topic that do not decode
    Admissible,  \* the credentials the roster admits
    Nothing,     \* no envelope
    MaxTries     \* the polls of the operator's budget: 20 in the code

Credentials == {Mine} \cup Foreign

Messages == Credentials \cup Junk

ASSUME RelayAssumption ==
    /\ Admissible \subseteq Credentials
    /\ Mine \in Admissible
    /\ Mine \notin Foreign \cup Junk
    /\ Foreign \cap Junk = {}
    /\ Nothing \notin Messages
    /\ MaxTries \in Nat \ {0}

VARIABLES
    phase,       \* the step the demonstration is at
    outcome,     \* what it reports when it ends
    tries,       \* the polls that found nothing
    received,    \* the envelope a poll has returned
    dropped,     \* what the node handed to a poll that did not return it
    subscribed,  \* whether the operator's node relays the topic
    buffer,      \* what it has for the operator, oldest first
    peered,      \* whether the candidate's node has a relay peer
    relayed,     \* the messages the relay network was ever given
    inflight,    \* those it has not delivered or lost
    lost         \* those it lost, the operator's node not listening included

driverVars == <<phase, outcome, tries, received, dropped>>
nodeVars == <<subscribed, buffer>>
netVars == <<peered, relayed, inflight, lost>>
vars == <<phase, outcome, tries, received, dropped, subscribed, buffer, peered,
          relayed, inflight, lost>>

Phases == {"connect", "subscribe", "prove", "publish", "poll", "decide", "end"}

Outcomes ==
    {"none", "not connected", "not subscribed", "not proved", "no peers",
     "publish failed", "poll failed", "undecodable", "nothing arrived",
     "refused", "admitted"}

TypeOK ==
    /\ phase \in Phases
    /\ outcome \in Outcomes
    /\ phase = "end" <=> outcome # "none"
    /\ tries \in 0 .. MaxTries
    /\ received \in Credentials \cup {Nothing}
    /\ dropped \subseteq Messages
    /\ subscribed \in BOOLEAN
    /\ buffer \in Seq(Messages)
    /\ peered \in BOOLEAN
    /\ relayed \subseteq Messages
    /\ inflight \subseteq relayed
    /\ lost \subseteq relayed

Init ==
    /\ phase = "connect"
    /\ outcome = "none"
    /\ tries = 0
    /\ received = Nothing
    /\ dropped = {}
    /\ subscribed = FALSE
    /\ buffer = <<>>
    /\ peered \in BOOLEAN
    /\ relayed = {}
    /\ inflight = {}
    /\ lost = {}

-----------------------------------------------------------------------------
GoTo(p) == phase' = p /\ UNCHANGED outcome

\* main returns an error, or its last line.
End(result) == phase' = "end" /\ outcome' = result

\* Both nodes answer, with different addresses; or main gives up.
Connect ==
    /\ phase = "connect"
    /\ GoTo("subscribe") \/ End("not connected")
    /\ UNCHANGED <<tries, received, dropped, nodeVars, netVars>>

\* Faulty variant: the result of the call is not looked at.
SubscribeUnheeded ==
    /\ phase = "subscribe"
    /\ subscribed' \in BOOLEAN
    /\ GoTo("prove")
    /\ UNCHANGED <<tries, received, dropped, buffer, netVars>>

\* A call that fails may still have subscribed the node.
Subscribe ==
    /\ phase = "subscribe"
    /\ \/ subscribed' = TRUE /\ GoTo("prove")
       \/ subscribed' \in BOOLEAN /\ End("not subscribed")
    /\ UNCHANGED <<tries, received, dropped, buffer, netVars>>

\* The candidate proves and signs; the operator sets up an empty roster.
ProveAndSign ==
    /\ phase = "prove"
    /\ GoTo("publish") \/ End("not proved")
    /\ UNCHANGED <<tries, received, dropped, nodeVars, netVars>>

\* The network takes a message; or does not.
Relay(m) ==
    /\ relayed' = relayed \cup {m}
    /\ inflight' = inflight \cup {m}
    /\ UNCHANGED <<peered, lost>>

\* Faulty variant: an error of send is not passed on.
SendUnheeded ==
    /\ phase = "publish"
    /\ (peered /\ Relay(Mine)) \/ UNCHANGED netVars
    /\ GoTo("poll")
    /\ UNCHANGED <<tries, received, dropped, nodeVars>>

\* send: published; refused by a node without peers; or failed for the caller,
\* whether or not the node has published.
Publish ==
    /\ phase = "publish"
    /\ \/ peered /\ Relay(Mine) /\ GoTo("poll")
       \/ ~peered /\ End("no peers") /\ UNCHANGED netVars
       \/ /\ End("publish failed")
          /\ (peered /\ Relay(Mine)) \/ UNCHANGED netVars
    /\ UNCHANGED <<tries, received, dropped, nodeVars>>

\* Faulty variant: the budget starts again.
BudgetRenewed ==
    /\ phase = "poll"
    /\ buffer = <<>>
    /\ tries' = (tries + 1) % MaxTries
    /\ GoTo("poll")
    /\ UNCHANGED <<received, dropped, nodeVars, netVars>>

\* A poll that finds nothing: one less to go.
PollNothing ==
    /\ phase = "poll"
    /\ buffer = <<>>
    /\ tries' = tries + 1
    /\ IF tries' = MaxTries THEN End("nothing arrived") ELSE GoTo("poll")
    /\ UNCHANGED <<received, dropped, nodeVars, netVars>>

\* Faulty variant: a payload that does not decode counts as no message.
JunkIgnored ==
    /\ phase = "poll"
    /\ buffer # <<>>
    /\ IF Head(buffer) \in Credentials
       THEN /\ received' = Head(buffer)
            /\ dropped' = dropped \cup Range(Tail(buffer))
            /\ GoTo("decide")
       ELSE /\ dropped' = dropped \cup Range(buffer)
            /\ GoTo("poll")
            /\ UNCHANGED received
    /\ buffer' = <<>>
    /\ UNCHANGED <<tries, subscribed, netVars>>

\* The node answers with all it has and forgets it.  recv decodes the oldest, and
\* leaves the rest.
PollSome ==
    /\ phase = "poll"
    /\ buffer # <<>>
    /\ IF Head(buffer) \in Credentials
       THEN /\ received' = Head(buffer)
            /\ dropped' = dropped \cup Range(Tail(buffer))
            /\ GoTo("decide")
       ELSE /\ dropped' = dropped \cup Range(buffer)
            /\ End("undecodable")
            /\ UNCHANGED received
    /\ buffer' = <<>>
    /\ UNCHANGED <<tries, subscribed, netVars>>

\* The call fails, before or after the node has emptied its buffer.
PollFails ==
    /\ phase = "poll"
    /\ End("poll failed")
    /\ \/ UNCHANGED <<dropped, buffer>>
       \/ dropped' = dropped \cup Range(buffer) /\ buffer' = <<>>
    /\ UNCHANGED <<tries, received, subscribed, netVars>>

\* GroupRoster::admit over what was received.
Decide ==
    /\ phase = "decide"
    /\ End(IF received \in Admissible THEN "admitted" ELSE "refused")
    /\ UNCHANGED <<tries, received, dropped, nodeVars, netVars>>

Driver ==
    \/ Connect \/ Subscribe \/ ProveAndSign \/ Publish
    \/ PollNothing \/ PollSome \/ PollFails \/ Decide

-----------------------------------------------------------------------------
PeersChange ==
    /\ peered' = ~peered
    /\ UNCHANGED <<driverVars, nodeVars, relayed, inflight, lost>>

\* Somebody else publishes on the topic, from a node of their own.
OthersPublish(m) ==
    /\ m \notin relayed
    /\ Relay(m)
    /\ UNCHANGED <<driverVars, nodeVars>>

\* A message reaches the operator's node, which keeps it if it relays the topic.
Deliver(m) ==
    /\ inflight' = inflight \ {m}
    /\ IF subscribed
       THEN buffer' = Append(buffer, m) /\ UNCHANGED lost
       ELSE lost' = lost \cup {m} /\ UNCHANGED buffer
    /\ UNCHANGED <<driverVars, subscribed, peered, relayed>>

Lose(m) ==
    /\ inflight' = inflight \ {m}
    /\ lost' = lost \cup {m}
    /\ UNCHANGED <<driverVars, nodeVars, peered, relayed>>

Network ==
    \/ PeersChange
    \/ \E m \in Foreign \cup Junk : OthersPublish(m)
    \/ \E m \in inflight : Deliver(m) \/ Lose(m)

Next == Driver \/ Network

\* Every REST call returns, at the agent's 30 seconds at the latest, and main goes
\* on; the network owes nothing.
Spec == Init /\ [][Next]_vars /\ WF_vars(Driver)

-----------------------------------------------------------------------------
\* No message is in two places, and none that was relayed is nowhere.
Conserved ==
    LET buffered == Range(buffer)
        taken == dropped \cup ({received} \ {Nothing})
    IN  /\ relayed = inflight \cup lost \cup buffered \cup taken
        /\ inflight \cap (lost \cup buffered \cup taken) = {}
        /\ lost \cap (buffered \cup taken) = {}
        /\ buffered \cap taken = {}
        /\ received \notin dropped
        /\ IsInjective(buffer)

\* While the operator goes on polling nothing was thrown away on its side: a poll
\* that drops messages is the last one.
RelayInv ==
    /\ TypeOK
    /\ Conserved
    /\ phase = "poll" => received = Nothing /\ dropped = {}

\* What the run reports is what happened: an isolated node has published nothing, a
\* timeout is the network's (the envelope was published, and never lay in front of
\* a poll), and whoever is admitted has published what was admitted.
ReportsTrue ==
    /\ outcome = "no peers" => Mine \notin relayed
    /\ outcome = "nothing arrived" =>
          Mine \in inflight \cup lost \cup Range(buffer)
    /\ outcome = "admitted" => received \in Admissible \cap relayed

\* An envelope published while the operator waits was not published to nobody: the
\* operator's node is subscribed before there is a candidate to hear.
HeardWhenPublished ==
    Mine \in relayed => subscribed

\* What the network was given can be read by whoever receives it: the text of any
\* payload decodes to it, whatever its length.
PayloadIntact == relayed # {} => PayloadsSurvive

\* Once the operator's node has subscribed, a poll asks for that topic and no other.
TopicsApart == subscribed => SegmentsApart

\* The run ends, whatever the network does.
Terminates == <>(phase = "end")

\* "Receive the next pending credential on a topic" (delivery-transport lib.rs:81):
\* a credential the node handed over is the answer of some recv.
NextPending == phase = "decide" => dropped \cap Credentials = {}
=============================================================================
