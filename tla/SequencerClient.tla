-------------------------- MODULE SequencerClient --------------------------
(***************************************************************************)
(* The JSON-RPC client of the LEZ sequencer.  A call is a request, a reply *)
(* and what the typed method makes of it; transactions are included at any *)
(* moment in between, so that an answer speaks of some moment of the call  *)
(* and not of its end.  is_root_current folds the membership proof it was  *)
(* sent, turn by turn (MerkleFold), and compares.  The sequencer itself is *)
(* external: it answers from its state, or in a faulty behaviour with      *)
(* whatever a proof may look like.  The id in getAccount is a text that    *)
(* its caller makes of the bytes, as in AccountIds.                        *)
(***************************************************************************)
EXTENDS MerkleFold, AccountIds

VARIABLES
    height,     \* commitments included, one for each block
    mine,       \* the caller's own transaction, seen from the sequencer
    faithful,   \* rigid: whether replies are of the sequencer's state
    call,       \* the method that runs with its arguments, or NoCall
    phase,      \* "idle", "sent", "served", "folding"
    reply,      \* the HTTP response that is to be read
    late,       \* a transaction is on its way after its caller gave up
    answer,     \* what the last call returned
    seen        \* history: what was true at some moment since the call began

chain == <<height, mine>>
vars == <<foldVars, chain, faithful, call, phase, reply, late, answer, seen>>

Commitments == 1 .. Capacity
NoCall == [method |-> "none"]

Calls ==
    [method: {"getLastBlockId", "getTransaction", "sendTransaction"}] \cup
    [method: {"getAccount"}, id: AccountIdsOf] \cup
    [method: {"isRootCurrent"}, known: Commitments, claimed: 0 .. Capacity]

\* The JSON values that the typed methods tell apart.
Null == [is |-> "null"]
Number(n) == [is |-> "number", value |-> n]
Text(t) == [is |-> "string", value |-> t]
Object == [is |-> "object"]
Junk == [is |-> "junk"]

\* A membership proof, and the number of leaves of the tree it is of, which the
\* client is not told.
Proof(index, path, n) ==
    [is |-> "proof", leaf_index |-> index, siblings |-> path, leaves |-> n]

\* A response is no HTTP success or no JSON-RPC envelope, an error, or a result.
NoEnvelope == [kind |-> "http"]
Envelope(error, result) == [kind |-> "envelope", error |-> error, result |-> result]

Ok(v) == [ok |-> TRUE, value |-> v]
Err(variant) == [ok |-> FALSE, variant |-> variant]

\* What the sequencer would truly answer with n commitments.
Truth(c, n, m) ==
    CASE c.method = "getLastBlockId" -> n
      [] c.method = "getTransaction" -> m = "included"
      [] c.method = "sendTransaction" -> m # "unknown"
      [] c.method = "getAccount" -> n > 0
      [] c.method = "isRootCurrent" -> c.known <= n /\ c.claimed = n

TruthNow == Truth(call, height, mine)

TypeOK ==
    /\ height \in 0 .. Capacity
    /\ mine \in {"unknown", "pooled", "included", "dropped"}
    /\ faithful \in BOOLEAN
    /\ call \in Calls \cup {NoCall}
    /\ phase \in {"idle", "sent", "served", "folding"}
    /\ late \in BOOLEAN
    /\ phase = "folding" => call.method = "isRootCurrent"

Init ==
    /\ FoldInit
    /\ height \in 0 .. Capacity
    /\ mine = "unknown"
    /\ faithful \in BOOLEAN
    /\ call = NoCall
    /\ phase = "idle"
    /\ reply = NoEnvelope
    /\ late = FALSE
    /\ answer = Err("none")
    /\ seen = {}

-----------------------------------------------------------------------------
(* The sequencer, external.                                                *)

ChainMoves(n, m) ==
    /\ height' = n
    /\ mine' = m
    /\ seen' = IF phase = "idle" THEN seen ELSE seen \cup {Truth(call, n, m)}
    /\ UNCHANGED <<foldVars, faithful, call, phase, reply, answer>>

\* A transaction of another user, or the caller's, is included; or the caller's
\* turns out to be invalid.  Only in a faithful behaviour does it matter.
Include ==
    /\ faithful
    /\ height < Capacity
    /\ \E m \in {mine} \cup (IF mine = "pooled" THEN {"included"} ELSE {}) :
          ChainMoves(height + 1, m)
    /\ UNCHANGED late

Drop ==
    /\ mine = "pooled"
    /\ ChainMoves(height, "dropped")
    /\ UNCHANGED late

\* A request that was given up by its caller arrives all the same, or does not.
Pooled == IF mine = "unknown" THEN "pooled" ELSE mine

ArriveLate ==
    /\ late
    /\ late' = FALSE
    /\ ChainMoves(height, Pooled) \/ ChainMoves(height, mine)

\* The result of a faithful sequencer.
Result ==
    CASE call.method = "getLastBlockId" -> Number(height)
      [] call.method = "getTransaction" ->
             IF mine = "included" THEN Text("blob") ELSE Null
      [] call.method = "sendTransaction" -> Text("hash")
      [] call.method = "getAccount" ->
             IF height > 0 THEN Object ELSE Null
      [] call.method = "isRootCurrent" ->
             IF call.known > height THEN Null
             ELSE Proof(call.known - 1, ProofAt(Tree(height), call.known - 1), height)

Serve ==
    /\ phase = "sent"
    /\ phase' = "served"
    /\ \/ /\ reply' = Envelope(FALSE, Result)
          /\ mine' = IF call.method = "sendTransaction" THEN Pooled ELSE mine
       \/ /\ reply' \in {NoEnvelope, Envelope(TRUE, Null)}
          /\ mine' \in {mine} \cup (IF call.method = "sendTransaction" /\
                                       reply' = NoEnvelope
                                    THEN {Pooled} ELSE {})
    /\ seen' = seen \cup {Truth(call, height, mine')}
    /\ UNCHANGED <<foldVars, height, faithful, call, late, answer>>

\* Results that need not fit the sequencer's state, nor the method: an envelope with
\* neither error nor result, junk, and proofs of any index and siblings.
AnyResult ==
    {Null, Junk} \cup
    (IF call.method = "isRootCurrent"
     THEN {Proof(i, path, height) :
             i \in 0 .. TwoTo[IndexBits] - 1, path \in Paths(Tree(height))}
     ELSE {})

ServeAnything ==
    /\ ~faithful
    /\ phase = "sent"
    /\ phase' = "served"
    /\ \E result \in AnyResult : reply' = Envelope(FALSE, result)
    /\ UNCHANGED <<foldVars, chain, faithful, call, late, answer, seen>>

-----------------------------------------------------------------------------
(* The client.                                                             *)

\* Where replies may be anything the questions are about the root there is.
Start(c) ==
    /\ phase = "idle"
    /\ faithful \/ (c.method = "isRootCurrent" => c.claimed = height)
    /\ call' = c
    /\ phase' = "sent"
    /\ answer' = Err("none")
    /\ seen' = {Truth(c, height, mine)}
    /\ UNCHANGED <<foldVars, chain, faithful, reply, late>>

Return(outcome) ==
    /\ answer' = outcome
    /\ phase' = "idle"
    /\ reply' = NoEnvelope

\* Faulty variant: there is no time limit.
NoTimeLimit == phase = "idle" /\ UNCHANGED vars

\* The client's 30 s are over; the reply, if there is one, is not waited for.
TimeOut ==
    /\ phase \in {"sent", "served"}
    /\ Return(Err("Http"))
    /\ late' = (late \/ (phase = "sent" /\ call.method = "sendTransaction"))
    /\ UNCHANGED <<foldVars, chain, faithful, call, seen>>

\* Faulty variant: a result is looked for before an error.
ResultFirst(r) ==
    IF r.kind = "http" THEN Err("Http") ELSE Ok(r.result)

\* call: status and envelope, the error, then the result; a result that is absent
\* is null.  ClientError::EmptyResponse is constructed nowhere.
ReadEnvelope(r) ==
    IF r.kind = "http" THEN Err("Http")
    ELSE IF r.error THEN Err("Rpc")
    ELSE Ok(r.result)

\* A tuple and an object are both accepted, byte arrays and hex alike; whatever
\* else is an error of the client's own, reported as the server's.
DecodeProofTuple(v) == IF v.is = "proof" THEN Ok(v) ELSE Err("Rpc")

\* An account is modelled by whether there is one.  What there is of it: any
\* object whose nonce and data are absent or well typed is taken for a public
\* account, so that hardly anything is kept raw.
Decode(v) ==
    CASE call.method = "getLastBlockId" ->
             IF v.is = "number" THEN Ok(v.value) ELSE Err("Decode")
      [] call.method = "getTransaction" -> Ok(v.is = "string")
      [] call.method = "sendTransaction" ->
             IF v.is = "string" THEN Ok(TRUE) ELSE Err("Decode")
      [] call.method = "getAccount" ->
             Ok(v # Null)
      [] call.method = "isRootCurrent" ->
             IF v = Null THEN Ok(Null) ELSE DecodeProofTuple(v)

\* A commitment the sequencer does not know has no proof, and its root is not the
\* one asked about.
Conclude(outcome) ==
    IF call.method = "isRootCurrent" /\ outcome = Ok(Null) THEN Ok(FALSE) ELSE outcome

Receive ==
    /\ phase = "served"
    /\ LET raw == ReadEnvelope(reply)
           outcome == IF raw.ok THEN Decode(raw.value) ELSE raw
       IN  IF call.method = "isRootCurrent" /\ outcome.ok /\ outcome # Ok(Null)
           THEN /\ FoldStart(Tree(outcome.value.leaves), call.known, outcome.value)
                /\ phase' = "folding"
                /\ reply' = NoEnvelope
                /\ UNCHANGED answer
           ELSE /\ Return(Conclude(outcome))
                /\ UNCHANGED foldVars
    /\ UNCHANGED <<chain, faithful, call, late, seen>>

FoldTurn ==
    /\ phase = "folding"
    /\ FoldNext
    /\ UNCHANGED <<chain, faithful, call, phase, reply, late, answer, seen>>

\* Faulty variant: that there is a proof is taken for an answer.
AnyProof ==
    /\ phase = "folding"
    /\ Finished
    /\ Return(Ok(TRUE))
    /\ FoldEnd
    /\ UNCHANGED <<chain, faithful, call, late, seen>>

Compare ==
    /\ phase = "folding"
    /\ Finished
    /\ Return(Ok(node = RootOf(Tree(call.claimed))))
    /\ FoldEnd
    /\ UNCHANGED <<chain, faithful, call, late, seen>>

Next ==
    \/ Include
    \/ Drop
    \/ ArriveLate
    \/ Serve
    \/ ServeAnything
    \/ \E c \in Calls : Start(c)
    \/ TimeOut
    \/ Receive
    \/ FoldTurn
    \/ Compare

\* The client's timer fires and its own code runs; the sequencer owes nothing.
Fairness == WF_vars(TimeOut) /\ WF_vars(FoldTurn) /\ WF_vars(Compare)

Spec == Init /\ [][Next]_vars /\ Fairness

-----------------------------------------------------------------------------
(* Properties.                                                             *)

\* An answer that is not an error was the truth at some moment between the call
\* and its return, however slow the reply: a root reported current was the
\* current one, a credential refused has seen the chain move on, a transaction
\* that is unknown was not included then, and an error decides nothing.
AnsweredInTime == faithful /\ answer.ok => answer.value \in seen

ClientInv == TypeOK /\ AnsweredInTime

\* Whatever the replies, a root is only reported current with a proof that the
\* known commitment is among the leaves under it.
CurrentHoldsKnown ==
    (phase = "idle" /\ call.method = "isRootCurrent" /\ answer = Ok(TRUE))
    => call.known <= call.claimed

\* The account a sequencer is asked about is the one that was meant: the text that
\* stands for an id in getAccount denotes this id and no other.
AccountMeant ==
    (phase # "idle" /\ call.method = "getAccount")
    => Denotes(Bs58Encode(call.id), call.id)

\* Every call returns, also where the sequencer is silent.
CallsReturn == (phase # "idle") ~> (phase = "idle")
=============================================================================
