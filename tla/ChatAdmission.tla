---------------------------- MODULE ChatAdmission ----------------------------
(***************************************************************************)
(* Off-chain admission to a token-gated chat group: integrations/chat-gate *)
(* driven as its example waku_token_gate drives it, next to a chain that   *)
(* moves on.  A candidate proves a statement, signs a challenge over the   *)
(* journal and publishes the three; the operator runs GroupRoster::admit   *)
(* on what arrives, and afterwards asks a sequencer whether the root of an *)
(* admitted journal is the current one.  The network may deliver any       *)
(* combination of what was published, late, twice, out of order, altered   *)
(* or never: the operator's inputs range over all of them.                 *)
(***************************************************************************)
EXTENDS LezChain, OffchainVerifier

CONSTANTS
    Keys,           \* presenter public keys
    Contexts,       \* application contexts
    group,          \* the context of this roster's group
    minimum_stake,  \* the roster's floor
    Nonces,         \* challenges
    Requests,       \* the statements candidates ask the SDK to prove
    Invented,       \* account states that were never on the chain
    Altered,        \* receipts whose journal was changed on the way
    MaxReceipts,    \* bound on the receipts candidates prove
    MaxSigned       \* bound on the challenge responses candidates produce

Thresholds == 0 .. MaxBalance

Nullifiers == [key: Keys, context: Contexts, account: Accounts]

Journals ==
    [merkle_root: Roots, threshold: Thresholds, context_id: Contexts,
     presenter_pubkey: Keys, nullifier: Nullifiers]

Receipts == [journal: Journals, seal: Journals]

Digests ==
    [nonce: Nonces, merkle_root: Roots, threshold: Thresholds,
     context_id: Contexts, presenter_pubkey: Keys, nullifier: Nullifiers]

Signatures == [key: Keys, digest: Digests]

ASSUME AdmissionAssumption ==
    /\ group \in Contexts
    /\ minimum_stake \in Thresholds
    /\ Requests \subseteq [key: Keys, threshold: Thresholds, context: Contexts]
    /\ Invented \subseteq Commitments
    /\ Altered \subseteq Receipts
    /\ \A r \in Altered : r.seal # r.journal
    /\ MaxReceipts \in Nat
    /\ MaxSigned \in Nat

VARIABLES
    receipts,         \* the receipts candidates have proved
    signed,           \* the challenge responses candidates have produced
    members,          \* GroupRoster.members
    used_nullifiers,  \* GroupRoster.used_nullifiers
    admitted,         \* the journals admit has returned to the operator
    fresh             \* the admitted journals whose root was found current

rosterVars == <<members, used_nullifiers, admitted>>
vars == <<account, leaves, spent, rootHistory, receipts, signed,
          members, used_nullifiers, admitted, fresh>>

TypeOK ==
    /\ ChainTypeOK
    /\ receipts \subseteq Receipts
    /\ signed \subseteq Signatures
    /\ members \subseteq Keys
    /\ used_nullifiers \subseteq Nullifiers
    /\ admitted \subseteq Journals
    /\ fresh \subseteq admitted

Init ==
    /\ ChainInit
    /\ receipts = {}
    /\ signed = {}
    /\ members = {}
    /\ used_nullifiers = {}
    /\ admitted = {}
    /\ fresh = {}

-----------------------------------------------------------------------------
WitnessOf(c, path) ==
    [npk |-> c.account.npk, identifier |-> c.account.identifier,
     program_owner |-> c.owner, balance |-> c.balance, nonce |-> c.nonce,
     merkle_path |-> path]

\* The paths a candidate can use for an account state: the sequencer's proof, if
\* the chain has the state, whether spent since or not, or a synthetic tree.
PathsOf(c) == {{}} \cup (IF c \in leaves THEN {leaves \ {c}} ELSE {})

\* SDK prove: the circuit runs over the candidate's witness, and yields a receipt
\* only if its assertions hold.
Prove(c, path, q) ==
    LET w == WitnessOf(c, path)
        s == AttestStatement(FoldMerklePath(WitnessCommitment(w), path),
                             q.threshold, q.context, q.key)
    IN  /\ Cardinality(receipts) < MaxReceipts
        /\ Attest(w, s)
        /\ receipts' = receipts \cup {ReceiptOf(w, s)}
        /\ UNCHANGED <<chainVars, signed, rosterVars, fresh>>

\* PresenterKey::sign over the operator's nonce and a journal.
Sign(key, nonce, j) ==
    /\ Cardinality(signed) < MaxSigned
    /\ signed' = signed \cup {[key |-> key, digest |-> ChallengeDigest(nonce, j)]}
    /\ UNCHANGED <<chainVars, receipts, rosterVars, fresh>>

\* Faulty variants: the nullifier is burned before the credential is verified;
\* what inserting it returns is not looked at.
BurnFirst(receipt, nonce, signature) ==
    LET j == receipt.journal
    IN  /\ j.nullifier \notin used_nullifiers
        /\ used_nullifiers' = used_nullifiers \cup {j.nullifier}
        /\ IF VerifyCredential(receipt, nonce, signature, group, minimum_stake)
           THEN /\ members' = members \cup {j.presenter_pubkey}
                /\ admitted' = admitted \cup {j}
           ELSE UNCHANGED <<members, admitted>>
        /\ UNCHANGED <<chainVars, receipts, signed, fresh>>

NoReuseCheck(receipt, nonce, signature) ==
    LET j == receipt.journal
    IN  /\ VerifyCredential(receipt, nonce, signature, group, minimum_stake)
        /\ used_nullifiers' = used_nullifiers \cup {j.nullifier}
        /\ members' = members \cup {j.presenter_pubkey}
        /\ admitted' = admitted \cup {j}
        /\ UNCHANGED <<chainVars, receipts, signed, fresh>>

\* GroupRoster::admit.  Both errors, a credential that does not verify and a
\* nullifier that is used, return before anything is written.
Admit(receipt, nonce, signature) ==
    LET j == receipt.journal
    IN  /\ VerifyCredential(receipt, nonce, signature, group, minimum_stake)
        /\ j.nullifier \notin used_nullifiers
        /\ used_nullifiers' = used_nullifiers \cup {j.nullifier}
        /\ members' = members \cup {j.presenter_pubkey}
        /\ admitted' = admitted \cup {j}
        /\ UNCHANGED <<chainVars, receipts, signed, fresh>>

\* Faulty variant: the operator only learns that its own commitment is known.
KnownOnly(merkle_root, known_commitment) == known_commitment \in leaves

\* is_root_current folds the sequencer's proof for a commitment the operator
\* knows, which gives the root of the set as it is now.
IsRootCurrent(merkle_root, known_commitment) ==
    /\ known_commitment \in leaves
    /\ FoldMerklePath(known_commitment, leaves \ {known_commitment}) = merkle_root

\* check_root_freshness on an admitted journal.
CheckRootFreshness(j, known_commitment) ==
    /\ IsRootCurrent(j.merkle_root, known_commitment)
    /\ fresh' = fresh \cup {j}
    /\ UNCHANGED <<chainVars, receipts, signed, rosterVars>>

Next ==
    \/ ChainNext /\ UNCHANGED <<receipts, signed, rosterVars, fresh>>
    \/ \E c \in leaves \cup Invented, q \in Requests :
          \E path \in PathsOf(c) : Prove(c, path, q)
    \/ \E key \in Keys, nonce \in Nonces, r \in receipts \cup Altered :
          Sign(key, nonce, r.journal)
    \/ \E receipt \in receipts \cup Altered, nonce \in Nonces,
          signature \in signed : Admit(receipt, nonce, signature)
    \/ \E j \in admitted, known_commitment \in leaves \cup Invented :
          CheckRootFreshness(j, known_commitment)

Spec == Init /\ [][Next]_vars

-----------------------------------------------------------------------------
\* What a receipt is worth by itself: some leaf of the tree it names, not
\* necessarily of a tree the chain ever had, is a state of the nullifier's
\* account that holds the threshold.
ReceiptsGenuine ==
    \A r \in receipts :
        /\ r.seal = r.journal
        /\ r.journal.nullifier.key = r.journal.presenter_pubkey
        /\ r.journal.nullifier.context = r.journal.context_id
        /\ \E c \in r.journal.merkle_root :
              /\ c.account = r.journal.nullifier.account
              /\ c.balance >= r.journal.threshold

\* An admitted journal is a proved one, for this group, at its floor or above.
AdmittedGenuine ==
    \A j \in admitted :
        /\ j.context_id = group
        /\ j.threshold >= minimum_stake
        /\ \E r \in receipts : r.journal = j

\* The roster's two sets and what the operator was told never drift apart: no
\* refused request burns a nullifier, so a bad or garbled delivery cannot keep
\* its candidate out later.
NothingBurned ==
    /\ used_nullifiers = {j.nullifier : j \in admitted}
    /\ members = {j.presenter_pubkey : j \in admitted}

\* "A single attestation can join exactly once" (chat-gate lib.rs:8-9): proofs by
\* one key over one account, at whatever threshold and root, are one attestation,
\* however their deliveries are repeated or reordered.
JoinsOnce ==
    \A i, j \in admitted :
        /\ i.nullifier.key = j.nullifier.key
        /\ i.nullifier.account = j.nullifier.account
        => i = j

\* A member's key signed, itself, a statement for this group at the group's floor
\* or above: a journal altered on the way, or one meant for another group or
\* forwarded without its signature, admits nobody.
MembersConsented ==
    \A j \in admitted : \E s \in signed :
        /\ s.key = j.nullifier.key
        /\ s.digest.nullifier = j.nullifier
        /\ s.digest.context_id = group
        /\ s.digest.threshold >= minimum_stake

\* Once the freshness check has passed, the member's account held the group's
\* floor in a state of this chain, not only in a tree of the candidate's own.
FreshIsBacked ==
    \A j \in fresh : \E c \in leaves :
        /\ c.account = j.nullifier.account
        /\ c.balance >= minimum_stake

\* The example calls the check what separates a declared account from "the
\* prover holds a balance on this chain" (waku_token_gate.rs:250-251): the account
\* behind a root found current holds the attested threshold.
FreshHolds ==
    \A j \in fresh' \ fresh :
        account[j.nullifier.account].balance >= j.threshold

FreshMeansHeld == [][FreshHolds]_vars

IInv ==
    /\ TypeOK
    /\ ChainInv
    /\ ReceiptsGenuine
    /\ AdmittedGenuine
    /\ NothingBurned
    /\ JoinsOnce
    /\ MembersConsented
    /\ FreshIsBacked
=============================================================================
