----------------------------- MODULE MCAppGates -----------------------------
(***************************************************************************)
(* Two keys and two accounts, one of which holds the middle tier's balance *)
(* only; requests for every application, one below the voting stake; made- *)
(* up journals that raise a threshold, or name something that is no key.   *)
(***************************************************************************)
EXTENDS AppGates, TLC

CONSTANTS n1, n2, token, k1, k2, short, noPoint, r1, p1, p2

Witness(n, b) ==
    [npk |-> n, identifier |-> 0, program_owner |-> token, balance |-> b,
     nonce |-> 0, merkle_path |-> {}]

MCWitnesses == {Witness(n1, 1000000), Witness(n2, 10000)}

Request(key, threshold, context) ==
    [key |-> key, threshold |-> threshold, context |-> context]

MCRequests ==
    {Request(k1, 10000, GOVERNANCE_CONTEXT_ID),
     Request(k1, 0, GOVERNANCE_CONTEXT_ID),
     Request(k2, 10000, GOVERNANCE_CONTEXT_ID),
     Request(k1, 10000, TierContext("pro")),
     Request(k2, 1000000, TierContext("enterprise")),
     Request(k1, 10000, RelayContext(r1))}

\* n2's receipt for the voting stake, arriving as one for the highest tier.
MCAltered ==
    LET w == Witness(n2, 10000)
        s == AttestStatement({WitnessCommitment(w)}, 10000,
                             TierContext("enterprise"), k1)
        j == JournalOf(w, s)
    IN  {[journal |-> [j EXCEPT !.threshold = 1000000], seal |-> j]}

MCClaimed ==
    LET w == Witness(n1, 1000000)
        j == JournalOf(w, AttestStatement({WitnessCommitment(w)}, 1000000,
                                          GOVERNANCE_CONTEXT_ID, k1))
    IN  {j, [j EXCEPT !.presenter_pubkey = short],
         [j EXCEPT !.presenter_pubkey = noPoint]}

Perms == Permutations({p1, p2})
=============================================================================
