-------------------------- MODULE OffchainVerifier --------------------------
(***************************************************************************)
(* crates/verifier-offchain and the proving half of crates/sdk: what a     *)
(* receipt is and what a recipient checks of a credential without a chain. *)
(* A receipt's seal is modelled by the journal it was made for: a receipt  *)
(* whose journal bytes were changed on the way no longer matches it.       *)
(***************************************************************************)
EXTENDS AttestationCore

JournalOf(w, s) ==
    [merkle_root |-> s.merkle_root, threshold |-> s.threshold,
     context_id |-> s.context_id, presenter_pubkey |-> s.presenter_pubkey,
     nullifier |-> AttestedNullifier(w, s)]

\* The receipt of a statement the circuit accepted.
ReceiptOf(w, s) == [journal |-> JournalOf(w, s), seal |-> JournalOf(w, s)]

VerifyReceipt(receipt) == receipt.seal = receipt.journal

ChallengeDigest(nonce, j) ==
    PresenterChallengeDigest(nonce, j.merkle_root, j.threshold, j.context_id,
                             j.presenter_pubkey, j.nullifier)

\* A recipient that takes the context of the credential for its own.
AnyContext(receipt, nonce, signature, expected_context_id, minimum_threshold) ==
    /\ VerifyReceipt(receipt)
    /\ receipt.journal.threshold >= minimum_threshold
    /\ VerifyPresenterSignature(receipt.journal.presenter_pubkey,
                                ChallengeDigest(nonce, receipt.journal),
                                signature)

\* ... or that trusts the receipt without verifying it.
UnverifiedReceipt(receipt, nonce, signature, expected_context_id, minimum_threshold) ==
    /\ receipt.journal.context_id = expected_context_id
    /\ receipt.journal.threshold >= minimum_threshold
    /\ VerifyPresenterSignature(receipt.journal.presenter_pubkey,
                                ChallengeDigest(nonce, receipt.journal),
                                signature)

\* Receipt, context, floor and presenter, in the order the code checks them.
VerifyCredential(receipt, nonce, signature, expected_context_id, minimum_threshold) ==
    /\ VerifyReceipt(receipt)
    /\ receipt.journal.context_id = expected_context_id
    /\ receipt.journal.threshold >= minimum_threshold
    /\ VerifyPresenterSignature(receipt.journal.presenter_pubkey,
                                ChallengeDigest(nonce, receipt.journal),
                                signature)
=============================================================================
