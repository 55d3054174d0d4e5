--------------------------- MODULE VerifierGuests ---------------------------
(***************************************************************************)
(* What provers and presenters make, and the two on-chain verifiers that   *)
(* came before the deep gate, next to the portable kernel.  The first      *)
(* guest chains to the attestation program; the shallow one does not.  A   *)
(* caller writes the journal of a call freely, from a credential or not,   *)
(* and a presenter signs with the SDK or any digest whatsoever.  None of   *)
(* them looks at the root a journal names, so no chain is modelled: a      *)
(* prover chooses its own tree.  AppGates adds the applications.           *)
(***************************************************************************)
EXTENDS OffchainVerifier, FiniteSets

CONSTANTS
    Keys,         \* well-formed presenter public keys
    WrongLength,  \* presenter_pubkey arguments that are not 33 bytes long
    NoPoint,      \* arguments of 33 bytes that encode no point of the curve
    Witnesses,    \* the witnesses provers have or make up
    Requests,     \* the statements they ask to have proved
    Claimed,      \* journals callers make up
    Altered,      \* receipts whose journal was changed on the way
    Floors,       \* minimum_threshold arguments
    Nonces,       \* challenges
    MaxReceipts,  \* bound on the receipts proved
    MaxSigned,    \* bound on the signatures made
    MaxConfirmed  \* bound on the gated_check calls confirmed

ASSUME GuestAssumption ==
    /\ \A w \in Witnesses : w.balance \in Nat
    /\ \A q \in Requests : q.threshold \in Nat /\ q.key \in Keys
    /\ \A j \in Claimed : j.threshold \in Nat
    /\ \A r \in Altered : r.seal # r.journal
    /\ Floors \subseteq Nat
    /\ (WrongLength \cup NoPoint) \cap Keys = {}
    /\ WrongLength \cap NoPoint = {}
    /\ {MaxReceipts, MaxSigned, MaxConfirmed} \subseteq Nat

VARIABLES
    receipts,   \* the receipts proved
    signed,     \* the signatures presenters have made
    confirmed   \* the gated_check calls on chain, by guest

poolVars == <<receipts, signed, confirmed>>

PoolInit ==
    /\ receipts = {}
    /\ signed = {}
    /\ confirmed = {}

Accounts == {WitnessAccount(w) : w \in Witnesses}

Proved == {r.journal : r \in receipts}

\* The journals in circulation, and the calls of a guest they are put into.
Journals == Proved \cup Claimed

Presented == Journals \cup {r.journal : r \in Altered}

Calls ==
    [journal: Journals, minimum_threshold: Floors, presenter_nonce: Nonces,
     expected_context_id: {j.context_id : j \in Journals}]

-----------------------------------------------------------------------------
\* The first guest's challenge: the journal is hashed by itself before.
FirstDigest(nonce, j) == [nonce |-> nonce, journal_hash |-> [journal |-> j]]

\* The shallow guest's, which must be the SDK's.
ShallowDigest(nonce, j) ==
    PresenterChallengeDigest(nonce, j.merkle_root, j.threshold, j.context_id,
                             j.presenter_pubkey, j.nullifier)

\* The error codes of the host-side checks: 0 is none.
SignatureError(c, digest, signature) ==
    IF VerifyPresenterSignature(c.journal.presenter_pubkey, digest, signature)
    THEN 0 ELSE 3005

\* Faulty variant: the floor is checked before the context.
FloorFirst(c, digest, signature) ==
    IF c.journal.threshold < c.minimum_threshold THEN 3001
    ELSE IF c.journal.context_id # c.expected_context_id THEN 3004
    ELSE IF c.journal.presenter_pubkey \in WrongLength THEN 3006
    ELSE SignatureError(c, digest, signature)

\* Context, floor, key length, signature: the first that fails is reported.
HostChecks(c, digest, signature) ==
    IF c.journal.context_id # c.expected_context_id THEN 3004
    ELSE IF c.journal.threshold < c.minimum_threshold THEN 3001
    ELSE IF c.journal.presenter_pubkey \in WrongLength THEN 3006
    ELSE SignatureError(c, digest, signature)

FirstChecks(c, signature) ==
    HostChecks(c, FirstDigest(c.presenter_nonce, c.journal), signature)

ShallowChecks(c, signature) ==
    HostChecks(c, ShallowDigest(c.presenter_nonce, c.journal), signature)

\* Bytes that are no signature: no key verifies them.
NotDer == [key |-> "no key", digest |-> [bytes |-> "not DER"]]

\* The presenter check of the portable kernel, ...
VerifyPresenter(j, nonce, signature) ==
    IF j.presenter_pubkey \in NoPoint THEN "InvalidPubkey"
    ELSE IF signature = NotDer THEN "InvalidSignature"
    ELSE IF VerifyPresenterSignature(j.presenter_pubkey,
                                     ChallengeDigest(nonce, j), signature)
         THEN "Ok" ELSE "SignatureRejected"

\* ... its check_gate, and the codes the guests have for its errors.
KernelChecks(c, signature) ==
    IF c.journal.context_id # c.expected_context_id THEN "ContextMismatch"
    ELSE IF c.journal.threshold < c.minimum_threshold THEN "ThresholdTooLow"
    ELSE VerifyPresenter(c.journal, c.presenter_nonce, signature)

CodeOf == [Ok |-> 0, ThresholdTooLow |-> 3001, ContextMismatch |-> 3004,
           InvalidPubkey |-> 3005, InvalidSignature |-> 3005,
           SignatureRejected |-> 3005]

-----------------------------------------------------------------------------
\* attest prove: a receipt for a true statement, over a tree of the prover's.
Prove(w, q) ==
    LET root == FoldMerklePath(WitnessCommitment(w), w.merkle_path)
        s == AttestStatement(root, q.threshold, q.context, q.key)
    IN  /\ Cardinality(receipts) < MaxReceipts
        /\ Attest(w, s)
        /\ receipts' = receipts \cup {ReceiptOf(w, s)}
        /\ UNCHANGED <<signed, confirmed>>

SignAny(key, digest) ==
    /\ Cardinality(signed) < MaxSigned
    /\ signed' = signed \cup {[key |-> key, digest |-> digest]}
    /\ UNCHANGED <<receipts, confirmed>>

\* attest gated-check-args and sign-challenge: the journal comes from a credential
\* file, whose receipt is not verified, and the key from another file.
Sign(key, nonce, j) == SignAny(key, ChallengeDigest(nonce, j))

\* attest sign-digest signs the 32 bytes it is given, such as the first guest's.
SignDigest(key, nonce, j) == SignAny(key, FirstDigest(nonce, j))

Confirm(guest, c) ==
    /\ Cardinality(confirmed) < MaxConfirmed
    /\ confirmed' = confirmed \cup {[guest |-> guest, call |-> c]}
    /\ UNCHANGED <<receipts, signed>>

\* The first guest's gated_check: the call it chains to is discharged only by a
\* proof of the attestation for exactly this journal.
FirstGatedCheck(c, signature) ==
    /\ FirstChecks(c, signature) = 0
    /\ c.journal \in Proved
    /\ Confirm("first", c)

\* The shallow guest's, which declares no chained call.
ShallowGatedCheck(c, signature) ==
    /\ ShallowChecks(c, signature) = 0
    /\ Confirm("shallow", c)

PoolNext ==
    \/ \E w \in Witnesses, q \in Requests : Prove(w, q)
    \/ \E key \in Keys, nonce \in Nonces, j \in Presented :
          Sign(key, nonce, j) \/ SignDigest(key, nonce, j)
    \/ \E c \in Calls, signature \in signed :
          FirstGatedCheck(c, signature) \/ ShallowGatedCheck(c, signature)

-----------------------------------------------------------------------------
\* Whatever the guest, a confirmed call carries its key's signature over this very
\* journal under this nonce: a signature copied from elsewhere does not confirm a
\* journal with another threshold or context, or answer another challenge.
ConfirmedConsented ==
    \A x \in confirmed : \E s \in signed :
        LET j == x.call.journal
        IN  /\ j.context_id = x.call.expected_context_id
            /\ j.threshold >= x.call.minimum_threshold
            /\ s.key = j.presenter_pubkey
            /\ s.digest.nonce = x.call.presenter_nonce
            /\ s.digest \in {FirstDigest(s.digest.nonce, j),
                             ChallengeDigest(s.digest.nonce, j)}

\* The first guest confirms only what was proved, although its own checks see the
\* journal as arguments of the caller: the chained call is what makes them true.
FirstBacked ==
    \A x \in confirmed : x.guest = "first" => x.call.journal \in Proved

\* The kernel the applications are tested with "drops in unchanged" (verifier-program
\* lib.rs:4): on every call, with any signature anybody made, the shallow guest
\* answers the code of the kernel's answer.  A key of the wrong length cannot reach
\* the kernel, whose type excludes it.
KernelAgrees ==
    \A c \in Calls, s \in signed \cup {NotDer} :
        c.journal.presenter_pubkey \notin WrongLength =>
            ShallowChecks(c, s) = CodeOf[KernelChecks(c, s)]

\* "Both share the same host-side validation logic; only the ChainedCall declaration
\* differs" (docs/decisions/002-verifier-program-shape.md:35): on the same call with
\* the same signature, the two guests' checks agree.
SameHostChecks ==
    \A c \in Calls, s \in signed : FirstChecks(c, s) = ShallowChecks(c, s)
=============================================================================
