------------------------------ MODULE DeepGate ------------------------------
(***************************************************************************)
(* The deep verifier: a presenter's wallet runs gated_check and the        *)
(* chained attestation over a pre-state it read from the chain, and the    *)
(* transaction it proves claims the gate-marker account when the sequencer *)
(* settles it.  Proving takes minutes, so the chain moves on between the   *)
(* two; a proved transaction may be submitted late, twice, or out of order *)
(* with others of the same presenter.  Transactions are therefore a set    *)
(* that only grows, from which the sequencer settles in any order.         *)
(***************************************************************************)
EXTENDS LezChain

CONSTANTS
    Keys,          \* presenter public keys that are 33 bytes long
    Malformed,     \* a presenter key of another length, or undecodable words
    Contexts,      \* application contexts
    Nonces,        \* verifier challenges
    Calls,         \* the instruction arguments callers use
    Invented,      \* pre-states that were never on the chain
    MaxSigned,     \* bound on the challenge responses presenters produce
    MaxPending     \* bound on the transactions wallets prove

Thresholds == 0 .. MaxBalance

Nullifiers == [key: Keys, context: Contexts, account: Accounts]

GateTags == [nullifier: Nullifiers, floor: Thresholds, context: Contexts]

Witnesses ==
    [npk: Npks, identifier: Identifiers, program_owner: Programs,
     balance: 0 .. MaxBalance, nonce: 0 .. MaxNonce, merkle_path: Roots]

GateCalls ==
    [witness: Witnesses \cup {Malformed}, merkle_root: Roots,
     threshold: Thresholds, context_id: Contexts,
     presenter_pubkey: Keys \cup {Malformed}, nullifier: Nullifiers,
     expected_context_id: Contexts, minimum_threshold: Thresholds,
     gate_tag: GateTags]

Digests ==
    [nonce: Nonces, merkle_root: Roots, threshold: Thresholds,
     context_id: Contexts, presenter_pubkey: Keys \cup {Malformed},
     nullifier: Nullifiers]

Signatures == [key: Keys, digest: Digests]

Transactions ==
    [old: Commitments, new: Commitments, root: Roots, marker: GateTags]

ASSUME GateAssumption ==
    /\ Malformed \notin Keys
    /\ Malformed \notin Witnesses
    /\ Calls \subseteq GateCalls
    /\ Invented \subseteq Commitments
    /\ MaxSigned \in Nat
    /\ MaxPending \in Nat

VARIABLES
    signed,    \* the challenge responses presenters have produced
    proved,    \* the privacy transactions wallets have proved
    markers    \* the marker accounts the verifier owns on chain

gateVars == <<signed, proved, markers>>
vars == <<account, leaves, spent, rootHistory, signed, proved, markers>>

TypeOK ==
    /\ ChainTypeOK
    /\ signed \subseteq Signatures
    /\ proved \subseteq Transactions
    /\ markers \subseteq GateTags

Init ==
    /\ ChainInit
    /\ signed = {}
    /\ proved = {}
    /\ markers = {}

-----------------------------------------------------------------------------
CallDigest(nonce, c) ==
    PresenterChallengeDigest(nonce, c.merkle_root, c.threshold, c.context_id,
                             c.presenter_pubkey, c.nullifier)

CallStatement(c) ==
    AttestStatement(c.merkle_root, c.threshold, c.context_id,
                    c.presenter_pubkey)

-----------------------------------------------------------------------------
\* Faulty variants.  Each differs from the definition after it by one plausible
\* mistake; a property of the run MCDeepGate must notice it.

\* gated_check with one of its checks forgotten.
GatedCheckBut(forgotten, presenter, c, nonce, signature) ==
    LET Check(code, holds) == code = forgotten \/ holds
    IN  /\ c.witness # Malformed
        /\ c.presenter_pubkey \in Keys
        /\ c.context_id = c.expected_context_id
        /\ VerifyPresenterSignature(c.presenter_pubkey, CallDigest(nonce, c),
                                    signature)
        /\ c.nullifier = AttestedNullifier(c.witness, CallStatement(c))
        /\ Check(3001, c.threshold >= c.minimum_threshold)
        /\ Check(3010, presenter.account = WitnessAccount(c.witness))
        /\ Check(3011, presenter.owner = NativeProgram)
        /\ Check(3009, presenter.balance >= c.minimum_threshold)
        /\ Check(3012, c.gate_tag = ComputeGateTag(c.nullifier,
                          c.minimum_threshold, c.expected_context_id))

UnboundTag(presenter, c, nonce, signature) ==
    GatedCheckBut(3012, presenter, c, nonce, signature)

UnboundPresenter(presenter, c, nonce, signature) ==
    GatedCheckBut(3010, presenter, c, nonce, signature)

UncheckedFloor(presenter, c, nonce, signature) ==
    GatedCheckBut(3001, presenter, c, nonce, signature)

UnpinnedOwner(presenter, c, nonce, signature) ==
    GatedCheckBut(3011, presenter, c, nonce, signature)

\* The floor is compared with the balance the caller states.
StatedBalance(presenter, c, nonce, signature) ==
    /\ GatedCheckBut(3009, presenter, c, nonce, signature)
    /\ c.witness.balance >= c.minimum_threshold

\* The body of gated_check, one conjunct per early return, in its order.
GatedCheck(presenter, c, nonce, signature) ==
    /\ c.context_id = c.expected_context_id                          \* 3004
    /\ c.threshold >= c.minimum_threshold                            \* 3001
    /\ c.presenter_pubkey \in Keys                                   \* 3006
    /\ VerifyPresenterSignature(c.presenter_pubkey, CallDigest(nonce, c),
                                signature)                           \* 3005
    /\ c.witness # Malformed                                         \* 3007
    /\ c.nullifier = AttestedNullifier(c.witness, CallStatement(c))  \* 3008
    /\ presenter.account = WitnessAccount(c.witness)                 \* 3010
    /\ presenter.owner = NativeProgram                               \* 3011
    /\ presenter.balance >= c.minimum_threshold                      \* 3009
    /\ c.gate_tag = ComputeGateTag(c.nullifier, c.minimum_threshold,
                                   c.expected_context_id)            \* 3012

\* The holder of a presenter key answers a challenge over the journal of a call.
SignChallenge(key, nonce, c) ==
    /\ Cardinality(signed) < MaxSigned
    /\ signed' = signed \cup {[key |-> key, digest |-> CallDigest(nonce, c)]}
    /\ UNCHANGED <<chainVars, proved, markers>>

\* The roots a wallet can fold its presenter's commitment to: one the chain has
\* had, if it kept the proof, or the root of a tree of its own.
MembershipPaths(presenter) ==
    {r \ {presenter} : r \in rootHistory} \cup {{}}

\* A wallet proves the transaction: gated_check and the attestation it chains to
\* run over the pre-states the wallet supplies, the marker among them, which must
\* still have the default owner.  A check that fails leaves nothing behind.
ProveGatedCheck(presenter, path, c, nonce, signature) ==
    /\ Cardinality(proved) < MaxPending
    /\ presenter.nonce < MaxNonce
    /\ GatedCheck(presenter, c, nonce, signature)
    /\ Attest(c.witness, CallStatement(c))
    /\ c.gate_tag \notin markers
    /\ proved' = proved \cup
         {[old |-> presenter, new |-> Moved(presenter, presenter.balance),
           root |-> FoldMerklePath(presenter, path), marker |-> c.gate_tag]}
    /\ UNCHANGED <<chainVars, signed, markers>>

\* Faulty variant: the sequencer forgets which states are spent.
Forgetful(t) == t.root \in rootHistory /\ t.marker \notin markers

\* What the sequencer checks before it settles a privacy transaction: the
\* nullifier is new, the membership digest is a historical root, and the marker
\* still is the default account the proof was made over.
Acceptable(t) ==
    /\ t.old \notin spent
    /\ t.root \in rootHistory
    /\ t.marker \notin markers

SettleGatedCheck(t) ==
    /\ Acceptable(t)
    /\ Settle({t.old}, {t.new})
    /\ markers' = markers \cup {t.marker}
    /\ UNCHANGED <<signed, proved>>

Next ==
    \/ \E from, to \in Accounts, amount \in 1 .. MaxBalance :
          Transfer(from, to, amount) /\ UNCHANGED gateVars
    \/ \E key \in Keys, nonce \in Nonces, c \in Calls :
          SignChallenge(key, nonce, c)
    \/ \E presenter \in leaves \cup Invented, c \in Calls, nonce \in Nonces,
          signature \in signed :
          \E path \in MembershipPaths(presenter) :
             ProveGatedCheck(presenter, path, c, nonce, signature)
    \/ \E t \in proved : SettleGatedCheck(t)

\* No step is owed: a wallet need not submit what it proved, and what a sequencer
\* includes, and when, is LEZ's.
Spec == Init /\ [][Next]_vars

-----------------------------------------------------------------------------
\* A proved transaction spends exactly the state it was checked over, and that
\* state meets the floor its marker names.
ProvedMeetsFloor ==
    \A t \in proved :
        /\ t.old.owner = NativeProgram
        /\ t.old.account = t.marker.nullifier.account
        /\ t.marker.context = t.marker.nullifier.context
        /\ t.old.balance >= t.marker.floor
        /\ t.new.account = t.old.account
        /\ t.new.nonce = t.old.nonce + 1
        /\ t.new.owner = t.old.owner
        /\ t.new.balance = t.old.balance
        /\ t.old \in t.root

\* The holder of a marker's key once signed a statement at least as strong as
\* the marker: same nullifier, same context, a threshold no lower.
ConsentedTo(m, s) ==
    /\ s.key = m.nullifier.key
    /\ s.digest.nullifier = m.nullifier
    /\ s.digest.context_id = m.context
    /\ s.digest.threshold >= m.floor

ProvedWithConsent ==
    \A t \in proved : \E s \in signed : ConsentedTo(t.marker, s)

\* A marker in the deep gate's address space means that its account, owned by
\* the token program, really held the floor the address commits to in some
\* state the chain recorded (bindings 6-9 of gated_check together with the
\* sequencer's root check).
MarkerBacked ==
    \A m \in markers : \E c \in leaves :
        /\ c.account = m.nullifier.account
        /\ c.owner = NativeProgram
        /\ c.balance >= m.floor

\* No marker exists under a key whose holder did not sign for that nullifier, in
\* that context, at that floor or above: the signature does not name the floor,
\* so this rests on checks 1, 2, 4, 5 and 9 of gated_check together.
MarkerConsented ==
    \A m \in markers : \E s \in signed : ConsentedTo(m, s)

\* At the step a marker is claimed its account holds the floor now, however
\* stale the state the wallet proved over: a transfer that settles between
\* proving and settling kills the transaction instead.
ClaimHoldsFloorNow ==
    \A m \in markers' \ markers :
        LET a == account[m.nullifier.account]
        IN  a.owner = NativeProgram /\ a.balance >= m.floor

ClaimsAreCurrent == [][ClaimHoldsFloorNow]_vars

\* Every claim uses up one state of its account: two transactions a wallet
\* proved over the same state, or one submitted twice, never both leave a marker.
ClaimsSpendStates ==
    \A a \in Accounts :
        Cardinality({m \in markers : m.nullifier.account = a})
            <= account[a].nonce

\* README.md:78-79 says that replaying a nullifier is unprovable, that is, that
\* a nullifier backs one marker.  The marker's seed holds the floor too.
NullifierGatedOnce ==
    \A m, n \in markers : m.nullifier = n.nullifier => m = n

\* The context a marker's address commits to is the one its nullifier is for.
MarkerOneContext ==
    \A m \in markers : m.context = m.nullifier.context

\* The inductive invariant.
IInv ==
    /\ TypeOK
    /\ ChainInv
    /\ ProvedMeetsFloor
    /\ ProvedWithConsent
    /\ MarkerBacked
    /\ MarkerConsented
    /\ MarkerOneContext

-----------------------------------------------------------------------------
\* The gate implements the registry.  A signature counts as an approval when
\* its key is the one its nullifier names and its contexts agree.
ApprovalOf(s) ==
    [key |-> s.key, account |-> s.digest.nullifier.account,
     context |-> s.digest.context_id, threshold |-> s.digest.threshold]

WellFormed(s) ==
    /\ s.digest.nullifier.key = s.key
    /\ s.digest.nullifier.context = s.digest.context_id

GrantOf(m) ==
    [key |-> m.nullifier.key, account |-> m.nullifier.account,
     context |-> m.context, floor |-> m.floor]

HoldingNow ==
    [a \in Accounts |->
        [owner |-> account[a].owner, balance |-> account[a].balance]]

Approved == {ApprovalOf(s) : s \in {x \in signed : WellFormed(x)}}

Granted == {GrantOf(m) : m \in markers}

Registry == INSTANCE GateRegistry WITH
    holding <- HoldingNow, approved <- Approved, granted <- Granted

\* The wallets, the signatures, the anchored pre-states and the settlement rules
\* of LEZ together give exactly the registry: no interleaving of transfers,
\* late transactions and duplicates grants what the account does not hold.
ImplementsRegistry == Registry!RegistrySpec
=============================================================================
