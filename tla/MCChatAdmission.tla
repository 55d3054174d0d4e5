-------------------------- MODULE MCChatAdmission --------------------------
(***************************************************************************)
(* A small group: two funded accounts, two presenter keys, a second        *)
(* context, and a floor between what the accounts hold.                    *)
(***************************************************************************)
EXTENDS ChatAdmission

CONSTANTS n1, n2, token, k1, k2, c1, c2

Acct(n) == DeriveAccountId(n, 0)

MCGenesis ==
    [a \in Accounts |->
        ComputeCommitment(a, token, IF a = Acct(n1) THEN 2 ELSE 0, 0)]

Request(key, threshold, context) ==
    [key |-> key, threshold |-> threshold, context |-> context]

\* Above the group's floor, at it, below it, for the other context, and by
\* another key.
MCRequests ==
    {Request(k1, 2, c1), Request(k1, 1, c1), Request(k1, 0, c1),
     Request(k1, 1, c2), Request(k2, 1, c1)}

\* n2's account, with a balance it never had.
MCInvented == {ComputeCommitment(Acct(n2), token, 2, 0)}

\* A receipt for threshold 0 whose journal arrives with the group's floor.
MCAltered ==
    LET g == MCGenesis[Acct(n2)]
        j == [merkle_root |-> {MCGenesis[a] : a \in Accounts}, threshold |-> 0,
              context_id |-> c1, presenter_pubkey |-> k1,
              nullifier |-> ComputeNullifier(k1, c1, g.account)]
    IN  {[journal |-> [j EXCEPT !.threshold = 1], seal |-> j]}
=============================================================================
