--------------------------- MODULE AttestationCore ---------------------------
(***************************************************************************)
(* The pure kernel of crates/attestation-core: what the circuit and every  *)
(* verifier agree to hash, and the statement the circuit proves.           *)
(*                                                                         *)
(* Every hash is domain separated and fixed width, so it is modelled by    *)
(* what it commits to: a record with one field per hashed component, equal *)
(* exactly when the components are equal.  A Merkle root is modelled by    *)
(* the set of leaves under it, and the sibling path of a leaf by the rest  *)
(* of that set: folding gives the root of a tree that holds the leaf.      *)
(* MerkleFold checks that abstraction against the index-driven fold.       *)
(***************************************************************************)
EXTENDS Naturals

\* A LEZ private account id commits to the viewing key and the identifier.
DeriveAccountId(npk, identifier) == [npk |-> npk, identifier |-> identifier]

\* The commitment LEZ inserts for one state of one private account.  The data
\* hash is left out: nothing in the gate reads it.
ComputeCommitment(account_id, program_owner, balance, nonce) ==
    [account |-> account_id, owner |-> program_owner,
     balance |-> balance, nonce |-> nonce]

\* The root of the tree made of the leaf and of the leaves its path stands for.
FoldMerklePath(leaf, path) == path \cup {leaf}

ComputeNullifier(presenter_pubkey, context_id, account_id) ==
    [key |-> presenter_pubkey, context |-> context_id, account |-> account_id]

\* The seed of the marker PDA: who, at which floor, in which context.
ComputeGateTag(nullifier, minimum_threshold, expected_context_id) ==
    [nullifier |-> nullifier, floor |-> minimum_threshold,
     context |-> expected_context_id]

\* The public half of an attestation.
AttestStatement(merkle_root, threshold, context_id, presenter_pubkey) ==
    [merkle_root |-> merkle_root, threshold |-> threshold,
     context_id |-> context_id, presenter_pubkey |-> presenter_pubkey]

WitnessAccount(w) == DeriveAccountId(w.npk, w.identifier)

WitnessCommitment(w) ==
    ComputeCommitment(WitnessAccount(w), w.program_owner, w.balance, w.nonce)

\* The two assertions of the circuit.  An execution that fails one has no proof.
Attest(w, s) ==
    /\ FoldMerklePath(WitnessCommitment(w), w.merkle_path) = s.merkle_root
    /\ w.balance >= s.threshold

\* The nullifier a proved statement journals.
AttestedNullifier(w, s) ==
    ComputeNullifier(s.presenter_pubkey, s.context_id, WitnessAccount(w))

\* The bytes a presenter signs to answer a challenge: all of the journal and the
\* verifier's nonce.
PresenterChallengeDigest(nonce, merkle_root, threshold, context_id, presenter_pubkey, nullifier) ==
    [nonce |-> nonce, merkle_root |-> merkle_root, threshold |-> threshold,
     context_id |-> context_id, presenter_pubkey |-> presenter_pubkey,
     nullifier |-> nullifier]

\* ECDSA, idealised: a signature names the key that made it and what it signed.
VerifyPresenterSignature(key, digest, signature) ==
    /\ signature.key = key
    /\ signature.digest = digest
=============================================================================
