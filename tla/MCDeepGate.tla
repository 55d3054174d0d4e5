----------------------------- MODULE MCDeepGate -----------------------------
(***************************************************************************)
(* A small chain for DeepGate: two token accounts and one account whose    *)
(* balance belongs to another program.  The calls are the honest ones and, *)
(* for each check of gated_check, one that breaks that check and no other, *)
(* as crates/cu-bench/tests/deep_gate_rejects.rs does.                     *)
(***************************************************************************)
EXTENDS DeepGate

CONSTANTS n1, n2, n3, token, other, k1, k2, c1, c2

Acct(n) == DeriveAccountId(n, 0)

MCGenesis ==
    [a \in Accounts |->
        ComputeCommitment(a,
            IF a = Acct(n3) THEN other ELSE token,
            IF a = Acct(n2) THEN 1 ELSE 2,
            0)]

\* A witness that states the genesis balance, under the genesis root.
HonestWitness(n) ==
    LET g == MCGenesis[Acct(n)]
    IN  [npk |-> n, identifier |-> 0, program_owner |-> g.owner,
         balance |-> g.balance, nonce |-> 0,
         merkle_path |-> {MCGenesis[a] : a \in Accounts} \ {g}]

\* A witness over a one-leaf tree of the caller's own.
InventedWitness(n, balance) ==
    [npk |-> n, identifier |-> 0, program_owner |-> token,
     balance |-> balance, nonce |-> 0, merkle_path |-> {}]

CallWith(w, key, threshold, floor, context) ==
    LET nf == ComputeNullifier(key, context, WitnessAccount(w))
    IN  [witness |-> w,
         merkle_root |-> FoldMerklePath(WitnessCommitment(w), w.merkle_path),
         threshold |-> threshold, context_id |-> context,
         presenter_pubkey |-> key, nullifier |-> nf,
         expected_context_id |-> context, minimum_threshold |-> floor,
         gate_tag |-> ComputeGateTag(nf, floor, context)]

Honest == CallWith(HonestWitness(n1), k1, 2, 2, c1)

HonestCalls ==
    {Honest, CallWith(HonestWitness(n1), k1, 2, 1, c1),
     CallWith(HonestWitness(n2), k1, 1, 1, c1)}

\* The nullifier of another account, pinned consistently through the call.
OtherNullifier ==
    LET nf == ComputeNullifier(k1, c1, Acct(n2))
    IN  [Honest EXCEPT !.nullifier = nf, !.gate_tag = ComputeGateTag(nf, 2, c1)]

BrokenCalls ==
    {[Honest EXCEPT !.expected_context_id = c2,                       \* 3004
                    !.gate_tag = ComputeGateTag(Honest.nullifier, 2, c2)],
     CallWith(HonestWitness(n1), k1, 1, 2, c1),                       \* 3001
     [Honest EXCEPT !.presenter_pubkey = Malformed],                  \* 3006
     [Honest EXCEPT !.witness = Malformed],                           \* 3007
     OtherNullifier,                                                  \* 3008
     CallWith(InventedWitness(n2, 2), k1, 2, 2, c1),                  \* 3010
     CallWith(HonestWitness(n3), k1, 1, 1, c1),                       \* 3011
     [CallWith(HonestWitness(n2), k1, 1, 1, c1) EXCEPT                \* 3012
         !.gate_tag = ComputeGateTag(ComputeNullifier(k1, c1, Acct(n2)), 2, c1)]}

MCCalls == HonestCalls \cup BrokenCalls

\* n2's account with twice what it holds.
MCInvented == {ComputeCommitment(Acct(n2), token, 2, 0)}
=============================================================================
