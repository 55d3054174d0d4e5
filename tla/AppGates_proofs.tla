-------------------------- MODULE AppGates_proofs --------------------------
(***************************************************************************)
(* Proofs about the two early on-chain verifiers, the kernel and the three *)
(* applications, for every set of witnesses, requests, made-up journals,   *)
(* keys, proposals and policies.                                           *)
(***************************************************************************)
EXTENDS AppGates, FiniteSetTheorems, TLAPS

\* What the circuit asserted of every receipt in circulation.
ReceiptsBacked ==
    \A r \in receipts : \E c \in r.journal.merkle_root :
        /\ c.account = r.journal.nullifier.account
        /\ c.balance \in Nat
        /\ c.balance >= r.journal.threshold

\* Every set a cardinality is taken of stays finite.
AllFinite ==
    /\ IsFiniteSet(receipts)
    /\ \A p \in Proposals : IsFiniteSet(proposals[p].used_nullifiers)
    /\ IsFiniteSet(DOMAIN active_sessions)

IInv == AppInv /\ ReceiptsBacked /\ AllFinite

-----------------------------------------------------------------------------
(* What the steps rely on.                                                 *)

\* What a gate found earned stays earned: receipts and signatures are only added.
LEMMA EarnedStays ==
    ASSUME NEW n, NEW context, NEW floor, Earned(n, context, floor),
           receipts \subseteq receipts', signed \subseteq signed'
    PROVE  Earned(n, context, floor)'
<1>1. Presented \subseteq Presented'
  BY DEF Presented, Journals, Proved
<1>2. QED BY <1>1 DEF Earned

\* A circulating receipt whose context and threshold pass, and whose key signed the
\* challenge, earns its nullifier.
LEMMA PresentedEarns ==
    ASSUME IInv, NEW r \in receipts, NEW context, NEW floor \in Nat,
           NEW nonce \in Nonces, NEW s \in signed,
           r.journal.context_id = context, r.journal.threshold >= floor,
           s.key = r.journal.presenter_pubkey,
           s.digest = ChallengeDigest(nonce, r.journal)
    PROVE  Earned(r.journal.nullifier, context, floor)
<1>1. /\ r.journal \in Proved /\ r.journal \in Presented
      /\ r.journal.threshold \in Nat
  BY DEF IInv, AppInv, TypeOK, Proved, Journals, Presented
<1>2. /\ r.journal.nullifier.context = context
      /\ r.journal.nullifier.key = s.key
  BY DEF IInv, AppInv, ReceiptsBound
<1>3. \E c \in r.journal.merkle_root :
         c.account = r.journal.nullifier.account /\ c.balance >= floor
  BY <1>1 DEF IInv, ReceiptsBacked
<1>4. QED BY <1>1, <1>2, <1>3 DEF Earned

\* VerifyCredential accepts receipts of the circuit only, presented by their key.
LEMMA VerifiedEarns ==
    ASSUME IInv, NEW receipt \in receipts \cup Altered, NEW nonce \in Nonces,
           NEW signature \in signed, NEW context, NEW floor \in Nat,
           VerifyCredential(receipt, nonce, signature, context, floor)
    PROVE  /\ receipt \in receipts
           /\ receipt.journal \in Proved
           /\ receipt.journal.nullifier \in Nullifiers
           /\ Earned(receipt.journal.nullifier, context, floor)
<1>1. receipt \in receipts
  BY GuestAssumption DEF VerifyCredential, VerifyReceipt
<1>2. receipt.journal \in Proved /\ receipt.journal.nullifier \in Nullifiers
  BY <1>1 DEF IInv, AppInv, TypeOK, Proved
<1>3. QED
  BY <1>1, <1>2, PresentedEarns DEF VerifyCredential, VerifyPresenterSignature

\* The kernel's check_gate, on a journal that was proved, is worth as much.
LEMMA CheckedEarns ==
    ASSUME IInv, NEW j \in Proved, NEW nonce \in Nonces,
           NEW signature \in signed, NEW floor \in Nat,
           CheckGate(j, floor, nonce, signature)
    PROVE  /\ j.nullifier \in Nullifiers
           /\ Earned(j.nullifier, GOVERNANCE_CONTEXT_ID, floor)
<1>1. PICK r \in receipts : j = r.journal
  BY DEF Proved
<1>2. j.nullifier \in Nullifiers /\ j.threshold \in Nat
  BY DEF IInv, AppInv, TypeOK
<1>3. /\ j.context_id = GOVERNANCE_CONTEXT_ID
      /\ ~(j.threshold < floor)
      /\ VerifyPresenter(j, nonce, signature) = "Ok"
  BY DEF CheckGate, KernelChecks
<1>4. j.threshold >= floor
  BY <1>2, <1>3
<1>5. /\ signature.key = j.presenter_pubkey
      /\ signature.digest = ChallengeDigest(nonce, j)
  BY <1>3 DEF VerifyPresenter, VerifyPresenterSignature
<1>6. QED BY <1>1, <1>2, <1>3, <1>4, <1>5, PresentedEarns

\* Host checks that report no error found the context, the floor and the key's
\* signature in order.
LEMMA PassedHostChecks ==
    ASSUME NEW c, NEW digest, NEW signature,
           HostChecks(c, digest, signature) = 0
    PROVE  /\ c.journal.context_id = c.expected_context_id
           /\ ~(c.journal.threshold < c.minimum_threshold)
           /\ signature.key = c.journal.presenter_pubkey
           /\ signature.digest = digest
<1>1. QED BY DEF HostChecks, SignatureError, VerifyPresenterSignature

-----------------------------------------------------------------------------
(* Every step preserves the invariant.                                     *)

LEMMA InitInv == Init => IInv
<1> SUFFICES ASSUME Init PROVE IInv
  OBVIOUS
<1>1. /\ receipts = {} /\ signed = {} /\ confirmed = {}
      /\ authenticated = {} /\ activations = 0
      /\ DOMAIN active_sessions = {}
      /\ \A p \in Proposals : proposals[p].used_nullifiers = {} /\ Votes(p) = 0
  BY DEF Init, PoolInit, Votes
<1>2. IsFiniteSet({}) /\ Cardinality({}) = 0
  BY FS_EmptySet
<1>3. proposals \in [Proposals -> ProposalState]
  BY DEF Init, ProposalState
<1>4. TypeOK
  BY <1>1, <1>3 DEF TypeOK, Proved
<1>5. ReceiptsBound /\ ConfirmedConsented /\ FirstBacked /\ ReceiptsBacked
  BY <1>1 DEF ReceiptsBound, ConfirmedConsented, FirstBacked, ReceiptsBacked
<1>6. BallotsCounted /\ SessionsEarned /\ AuthenticationEarned
  BY <1>1, <1>2 DEF BallotsCounted, SessionsEarned, AuthenticationEarned
<1>7. AllFinite /\ activations = Cardinality(DOMAIN active_sessions)
  BY <1>1, <1>2 DEF AllFinite
<1>8. QED BY <1>4, <1>5, <1>6, <1>7 DEF IInv, AppInv

\* What the applications hold survives any step that only adds receipts and
\* signatures.
LEMMA PoolKeepsApps ==
    ASSUME IInv, UNCHANGED appVars,
           receipts \subseteq receipts', signed \subseteq signed'
    PROVE  /\ BallotsCounted'
           /\ activations' = Cardinality(DOMAIN active_sessions')
           /\ SessionsEarned' /\ AuthenticationEarned'
<1> USE DEF appVars, IInv, AppInv
<1>1. \A p \in Proposals : Votes(p)' = Votes(p)
  BY DEF Votes
<1>2. BallotsCounted'
  BY <1>1, EarnedStays DEF BallotsCounted
<1>3. SessionsEarned'
  BY EarnedStays DEF SessionsEarned
<1>4. AuthenticationEarned'
  BY EarnedStays DEF AuthenticationEarned
<1>5. QED BY <1>2, <1>3, <1>4

LEMMA ProveInv ==
    ASSUME IInv, NEW w \in Witnesses, NEW q \in Requests, Prove(w, q),
           UNCHANGED appVars
    PROVE  IInv'
<1> DEFINE root == FoldMerklePath(WitnessCommitment(w), w.merkle_path)
           s == AttestStatement(root, q.threshold, q.context, q.key)
           r == ReceiptOf(w, s)
<1>1. /\ receipts' = receipts \cup {r}
      /\ UNCHANGED <<signed, confirmed, proposals, active_sessions, activations,
                     authenticated>>
      /\ w.balance >= q.threshold
  BY DEF Prove, Attest, AttestStatement, appVars
<1>2. /\ r.seal = r.journal
      /\ r.journal = [merkle_root |-> root, threshold |-> q.threshold,
                      context_id |-> q.context, presenter_pubkey |-> q.key,
                      nullifier |-> [key |-> q.key, context |-> q.context,
                                     account |-> WitnessAccount(w)]]
  BY DEF ReceiptOf, JournalOf, AttestStatement, AttestedNullifier,
         ComputeNullifier
<1>3. /\ q.threshold \in Nat /\ q.key \in Keys /\ q.context \in Contexts
      /\ w.balance \in Nat /\ WitnessAccount(w) \in Accounts
  BY GuestAssumption, AppAssumption DEF Accounts
<1>4. Proved' = Proved \cup {r.journal}
  BY <1>1 DEF Proved
<1>5. TypeOK'
  <2>1. r.journal.nullifier \in Nullifiers
    BY <1>2, <1>3 DEF Nullifiers
  <2>2. Proved' \subseteq
           [merkle_root: {x.journal.merkle_root : x \in receipts'},
            threshold: Nat, context_id: Contexts, presenter_pubkey: Keys,
            nullifier: Nullifiers]
    BY <1>1, <1>2, <1>3, <1>4, <2>1 DEF IInv, AppInv, TypeOK
  <2>3. QED BY <1>1, <1>4, <2>2 DEF IInv, AppInv, TypeOK, Calls, Journals
<1>6. ReceiptsBound'
  BY <1>1, <1>2 DEF IInv, AppInv, ReceiptsBound
<1>7. ReceiptsBacked'
  <2>1. WitnessCommitment(w) \in root
    BY DEF FoldMerklePath
  <2>2. /\ WitnessCommitment(w).account = WitnessAccount(w)
        /\ WitnessCommitment(w).balance = w.balance
    BY DEF WitnessCommitment, ComputeCommitment
  <2>3. \E c \in r.journal.merkle_root :
           /\ c.account = r.journal.nullifier.account
           /\ c.balance \in Nat /\ c.balance >= r.journal.threshold
    BY <1>1, <1>2, <1>3, <2>1, <2>2
  <2>4. QED BY <1>1, <2>3 DEF IInv, ReceiptsBacked
<1>8. ConfirmedConsented' /\ FirstBacked'
  BY <1>1, <1>4 DEF IInv, AppInv, ConfirmedConsented, FirstBacked
<1>9. AllFinite'
  BY <1>1, FS_AddElement DEF IInv, AllFinite
<1>10. QED BY <1>1, <1>5, <1>6, <1>7, <1>8, <1>9, PoolKeepsApps DEF IInv, AppInv

LEMMA SignInv ==
    ASSUME IInv, NEW key \in Keys, NEW digest, SignAny(key, digest),
           UNCHANGED appVars
    PROVE  IInv'
<1>1. /\ signed' = signed \cup {[key |-> key, digest |-> digest]}
      /\ UNCHANGED <<receipts, confirmed, proposals, active_sessions,
                     activations, authenticated>>
  BY DEF SignAny, appVars
<1>2. Proved' = Proved
  BY <1>1 DEF Proved
<1>3. TypeOK'
  BY <1>1, <1>2 DEF IInv, AppInv, TypeOK, Calls, Journals
<1>4. ReceiptsBound' /\ ReceiptsBacked' /\ AllFinite'
  BY <1>1 DEF IInv, AppInv, ReceiptsBound, ReceiptsBacked, AllFinite
<1>5. ConfirmedConsented' /\ FirstBacked'
  BY <1>1, <1>2 DEF IInv, AppInv, ConfirmedConsented, FirstBacked
<1>6. QED BY <1>1, <1>3, <1>4, <1>5, PoolKeepsApps DEF IInv, AppInv

\* Whichever guest confirms a call, it checked the signature over this journal.
LEMMA ConfirmInv ==
    ASSUME IInv, NEW guest \in {"first", "shallow"}, NEW c \in Calls,
           NEW signature \in signed, NEW digest, Confirm(guest, c),
           HostChecks(c, digest, signature) = 0,
           digest \in {FirstDigest(c.presenter_nonce, c.journal),
                       ChallengeDigest(c.presenter_nonce, c.journal)},
           guest = "first" => c.journal \in Proved,
           UNCHANGED appVars
    PROVE  IInv'
<1> DEFINE x == [guest |-> guest, call |-> c]
<1>1. /\ confirmed' = confirmed \cup {x}
      /\ UNCHANGED <<receipts, signed, proposals, active_sessions, activations,
                     authenticated>>
  BY DEF Confirm, appVars
<1>2. Proved' = Proved
  BY <1>1 DEF Proved
<1>3. TypeOK'
  BY <1>1, <1>2 DEF IInv, AppInv, TypeOK, Calls, Journals
<1>4. ReceiptsBound' /\ ReceiptsBacked' /\ AllFinite'
  BY <1>1 DEF IInv, AppInv, ReceiptsBound, ReceiptsBacked, AllFinite
<1>5. ConfirmedConsented'
  <2>1. /\ c.journal.context_id = c.expected_context_id
        /\ ~(c.journal.threshold < c.minimum_threshold)
        /\ signature.key = c.journal.presenter_pubkey
        /\ signature.digest = digest
    BY PassedHostChecks
  <2>2. c.journal.threshold \in Nat /\ c.minimum_threshold \in Nat
    BY GuestAssumption DEF Calls, Journals, IInv, AppInv, TypeOK
  <2>3. digest.nonce = c.presenter_nonce
    BY DEF FirstDigest, ChallengeDigest, PresenterChallengeDigest
  <2>4. c.journal.threshold >= c.minimum_threshold
    BY <2>1, <2>2
  <2>5. QED BY <1>1, <2>1, <2>3, <2>4 DEF IInv, AppInv, ConfirmedConsented
<1>6. FirstBacked'
  BY <1>1, <1>2 DEF IInv, AppInv, FirstBacked
<1>7. QED BY <1>1, <1>3, <1>4, <1>5, <1>6, PoolKeepsApps DEF IInv, AppInv

\* One recorded nullifier and one counted vote, whichever way it goes.
LEMMA CountRecorded ==
    ASSUME NEW state \in ProposalState, NEW n \in Nullifiers,
           NEW vote_yes \in BOOLEAN
    PROVE  LET next == Count(Recorded(state, n), vote_yes)
           IN  /\ next \in ProposalState
               /\ next.used_nullifiers = state.used_nullifiers \cup {n}
               /\ next.yes_votes + next.no_votes
                     = state.yes_votes + state.no_votes + 1
<1>1. ASSUME NEW mid \in ProposalState
      PROVE  /\ Count(mid, vote_yes) \in ProposalState
             /\ Count(mid, vote_yes).used_nullifiers = mid.used_nullifiers
             /\ Count(mid, vote_yes).yes_votes + Count(mid, vote_yes).no_votes
                   = mid.yes_votes + mid.no_votes + 1
  BY DEF Count, ProposalState
<1>2. /\ Recorded(state, n) \in ProposalState
      /\ Recorded(state, n).used_nullifiers = state.used_nullifiers \cup {n}
      /\ Recorded(state, n).yes_votes = state.yes_votes
      /\ Recorded(state, n).no_votes = state.no_votes
  BY DEF Recorded, ProposalState
<1>3. QED BY <1>1, <1>2

\* A vote is counted with the nullifier it records, which was not there.
LEMMA CastVoteCounts ==
    ASSUME IInv, NEW p \in Proposals, NEW j \in Proved, NEW nonce \in Nonces,
           NEW signature \in signed, NEW vote_yes \in BOOLEAN,
           CastVote(p, j, nonce, signature, vote_yes)
    PROVE  /\ j.nullifier \notin proposals[p].used_nullifiers
           /\ proposals' \in [Proposals -> ProposalState]
           /\ \A q \in Proposals :
                 proposals'[q].used_nullifiers =
                    IF q = p THEN proposals[p].used_nullifiers \cup {j.nullifier}
                             ELSE proposals[q].used_nullifiers
           /\ \A q \in Proposals :
                 Votes(q)' = IF q = p THEN Votes(p) + 1 ELSE Votes(q)
<1> DEFINE state == proposals[p]
           next == Count(Recorded(state, j.nullifier), vote_yes)
<1>1. /\ j.nullifier \in Nullifiers /\ minimum_stake \in Nat
      /\ j.nullifier \notin state.used_nullifiers
  BY AppAssumption, CheckedEarns DEF CastVote
<1>2. proposals' = [proposals EXCEPT ![p] = next]
  BY DEF CastVote
<1>3. proposals \in [Proposals -> ProposalState] /\ state \in ProposalState
  BY DEF IInv, AppInv, TypeOK
<1>4. /\ next \in ProposalState
      /\ next.used_nullifiers = state.used_nullifiers \cup {j.nullifier}
      /\ next.yes_votes + next.no_votes = state.yes_votes + state.no_votes + 1
  BY <1>1, <1>3, CountRecorded
<1>5. QED BY <1>1, <1>2, <1>3, <1>4 DEF Votes

LEMMA CastVoteInv ==
    ASSUME IInv, NEW p \in Proposals, NEW j \in Proved, NEW nonce \in Nonces,
           NEW signature \in signed, NEW vote_yes \in BOOLEAN,
           CastVote(p, j, nonce, signature, vote_yes)
    PROVE  IInv'
<1> DEFINE n == j.nullifier
<1>1. UNCHANGED <<receipts, signed, confirmed, active_sessions, activations,
                  authenticated>>
  BY DEF CastVote, poolVars, premium
<1>2. /\ n \notin proposals[p].used_nullifiers
      /\ proposals' \in [Proposals -> ProposalState]
      /\ \A q \in Proposals :
            proposals'[q].used_nullifiers =
               IF q = p THEN proposals[p].used_nullifiers \cup {n}
                        ELSE proposals[q].used_nullifiers
      /\ \A q \in Proposals :
            Votes(q)' = IF q = p THEN Votes(p) + 1 ELSE Votes(q)
  BY CastVoteCounts
<1>3. Earned(n, GOVERNANCE_CONTEXT_ID, minimum_stake)
  BY AppAssumption, CheckedEarns DEF CastVote
<1>4. TypeOK'
  BY <1>1, <1>2 DEF IInv, AppInv, TypeOK, Proved, Calls, Journals
<1>5. /\ ReceiptsBound' /\ ReceiptsBacked' /\ ConfirmedConsented' /\ FirstBacked'
      /\ SessionsEarned' /\ AuthenticationEarned'
  BY <1>1, EarnedStays
  DEF IInv, AppInv, ReceiptsBound, ReceiptsBacked, ConfirmedConsented,
      FirstBacked, Proved, SessionsEarned, AuthenticationEarned
<1>6. AllFinite'
  BY <1>1, <1>2, FS_AddElement DEF IInv, AllFinite
<1>7. BallotsCounted'
  <2> SUFFICES ASSUME NEW q \in Proposals
               PROVE  /\ Votes(q)' = Cardinality(proposals'[q].used_nullifiers)
                      /\ \A m \in proposals'[q].used_nullifiers :
                            Earned(m, GOVERNANCE_CONTEXT_ID, minimum_stake)'
    BY DEF BallotsCounted
  <2>1. \A m : Earned(m, GOVERNANCE_CONTEXT_ID, minimum_stake)
                  => Earned(m, GOVERNANCE_CONTEXT_ID, minimum_stake)'
    BY <1>1, EarnedStays
  <2>2. \A m \in proposals[q].used_nullifiers :
           Earned(m, GOVERNANCE_CONTEXT_ID, minimum_stake)
    BY DEF IInv, AppInv, BallotsCounted
  <2>3. Votes(q) = Cardinality(proposals[q].used_nullifiers)
    BY DEF IInv, AppInv, BallotsCounted
  <2>4. IsFiniteSet(proposals[q].used_nullifiers)
    BY DEF IInv, AllFinite
  <2>5. CASE q = p
    <3>1. proposals'[q].used_nullifiers = proposals[q].used_nullifiers \cup {n}
      BY <1>2, <2>5
    <3>2. Votes(q)' = Votes(q) + 1 /\ n \notin proposals[q].used_nullifiers
      BY <1>2, <2>5
    <3>3. Cardinality(proposals[q].used_nullifiers \cup {n})
             = Cardinality(proposals[q].used_nullifiers) + 1
      BY <2>4, <3>2, FS_AddElement
    <3>4. QED BY <1>3, <2>1, <2>2, <2>3, <3>1, <3>2, <3>3
  <2>6. CASE q # p
    BY <1>2, <2>1, <2>2, <2>3, <2>6
  <2>7. QED BY <2>5, <2>6
<1>8. QED BY <1>1, <1>4, <1>5, <1>6, <1>7 DEF IInv, AppInv

LEMMA ActivateInv ==
    ASSUME IInv, NEW t \in Tier, NEW receipt \in receipts \cup Altered,
           NEW nonce \in Nonces, NEW signature \in signed,
           Activate(t, receipt, nonce, signature)
    PROVE  IInv'
<1> DEFINE n == receipt.journal.nullifier
<1>1. UNCHANGED <<receipts, signed, confirmed, proposals, authenticated>>
  BY DEF Activate, poolVars
<1>2. /\ n \notin DOMAIN active_sessions
      /\ DOMAIN active_sessions' = DOMAIN active_sessions \cup {n}
      /\ \A m \in DOMAIN active_sessions' :
            active_sessions'[m] = IF m = n THEN t ELSE active_sessions[m]
      /\ activations' = activations + 1
  BY DEF Activate
<1>3. /\ n \in Nullifiers
      /\ Earned(n, TierContext(t), minimum_balance[t])
  <2>1. minimum_balance[t] \in Nat
    BY DEF minimum_balance, Tier
  <2>2. QED BY <2>1, VerifiedEarns DEF Activate
<1>4. TypeOK'
  BY <1>1, <1>2, <1>3 DEF IInv, AppInv, TypeOK, Proved, Calls, Journals
<1>5. \A q \in Proposals : Votes(q)' = Votes(q)
  BY <1>1 DEF Votes
<1>6. /\ ReceiptsBound' /\ ReceiptsBacked' /\ ConfirmedConsented' /\ FirstBacked'
      /\ BallotsCounted' /\ AuthenticationEarned'
  BY <1>1, <1>5, EarnedStays
  DEF IInv, AppInv, ReceiptsBound, ReceiptsBacked, ConfirmedConsented,
      FirstBacked, Proved, BallotsCounted, AuthenticationEarned
<1>7. AllFinite' /\ activations' = Cardinality(DOMAIN active_sessions')
  BY <1>1, <1>2, FS_AddElement DEF IInv, AppInv, AllFinite
<1>8. SessionsEarned'
  <2>1. \A m, context, floor : Earned(m, context, floor)
                                  => Earned(m, context, floor)'
    BY <1>1, EarnedStays
  <2>2. \A m \in DOMAIN active_sessions :
           Earned(m, TierContext(active_sessions[m]),
                  minimum_balance[active_sessions[m]])
    BY DEF IInv, AppInv, SessionsEarned
  <2>3. ASSUME NEW m \in DOMAIN active_sessions'
        PROVE  Earned(m, TierContext(active_sessions[m]),
                      minimum_balance[active_sessions[m]])'
    <3>1. CASE m = n
      BY <1>2, <1>3, <2>1, <3>1
    <3>2. CASE m # n
      BY <1>2, <2>1, <2>2, <3>2
    <3>3. QED BY <3>1, <3>2
  <2>4. QED BY <2>3 DEF SessionsEarned
<1>9. QED BY <1>1, <1>4, <1>6, <1>7, <1>8 DEF IInv, AppInv

LEMMA VerifyNip42Inv ==
    ASSUME IInv, NEW receipt \in receipts \cup Altered, NEW nonce \in Nonces,
           NEW signature \in signed, VerifyNip42(receipt, nonce, signature)
    PROVE  IInv'
<1>1. /\ UNCHANGED <<receipts, signed, confirmed, proposals, active_sessions,
                     activations>>
      /\ authenticated' = authenticated \cup {receipt.journal}
  BY DEF VerifyNip42, poolVars, premium
<1>2. /\ receipt.journal \in Proved
      /\ Earned(receipt.journal.nullifier, RelayContext(relay), relay_minimum)
  BY AppAssumption, VerifiedEarns DEF VerifyNip42
<1>3. TypeOK'
  BY <1>1, <1>2 DEF IInv, AppInv, TypeOK, Proved, Calls, Journals
<1>4. \A q \in Proposals : Votes(q)' = Votes(q)
  BY <1>1 DEF Votes
<1>5. /\ ReceiptsBound' /\ ReceiptsBacked' /\ ConfirmedConsented' /\ FirstBacked'
      /\ BallotsCounted' /\ SessionsEarned' /\ AllFinite'
  BY <1>1, <1>4, EarnedStays
  DEF IInv, AppInv, ReceiptsBound, ReceiptsBacked, ConfirmedConsented,
      FirstBacked, Proved, BallotsCounted, SessionsEarned, AllFinite
<1>6. AuthenticationEarned'
  BY <1>1, <1>2, EarnedStays DEF IInv, AppInv, AuthenticationEarned
<1>7. QED BY <1>1, <1>3, <1>5, <1>6 DEF IInv, AppInv

LEMMA PoolNextInv ==
    ASSUME IInv, PoolNext, UNCHANGED appVars
    PROVE  IInv'
<1>1. ASSUME NEW w \in Witnesses, NEW q \in Requests, Prove(w, q)
      PROVE  IInv'
  BY <1>1, ProveInv
<1>2. ASSUME NEW key \in Keys, NEW nonce \in Nonces, NEW j \in Presented,
             Sign(key, nonce, j) \/ SignDigest(key, nonce, j)
      PROVE  IInv'
  BY <1>2, SignInv DEF Sign, SignDigest
<1>3. ASSUME NEW c \in Calls, NEW signature \in signed,
             FirstGatedCheck(c, signature)
      PROVE  IInv'
  BY <1>3, ConfirmInv DEF FirstGatedCheck, FirstChecks
<1>4. ASSUME NEW c \in Calls, NEW signature \in signed,
             ShallowGatedCheck(c, signature)
      PROVE  IInv'
  BY <1>4, ConfirmInv
  DEF ShallowGatedCheck, ShallowChecks, ShallowDigest, ChallengeDigest
<1>5. QED BY <1>1, <1>2, <1>3, <1>4 DEF PoolNext

LEMMA StutterInv == ASSUME IInv, UNCHANGED vars PROVE IInv'
<1>1. UNCHANGED <<receipts, signed, confirmed, proposals, active_sessions,
                  activations, authenticated>>
  BY DEF vars
<1>2. \A q \in Proposals : Votes(q)' = Votes(q)
  BY <1>1 DEF Votes
<1>3. TypeOK'
  BY <1>1 DEF IInv, AppInv, TypeOK, Proved, Calls, Journals
<1>4. QED
  BY <1>1, <1>2, <1>3, EarnedStays
  DEF IInv, AppInv, ReceiptsBound, ReceiptsBacked, ConfirmedConsented,
      FirstBacked, Proved, BallotsCounted, SessionsEarned, AllFinite,
      AuthenticationEarned

LEMMA NextInv == IInv /\ [Next]_vars => IInv'
<1> SUFFICES ASSUME IInv, [Next]_vars PROVE IInv'
  OBVIOUS
<1>1. CASE PoolNext /\ UNCHANGED appVars
  BY <1>1, PoolNextInv
<1>2. ASSUME NEW p \in Proposals, NEW j \in Proved, NEW nonce \in Nonces,
             NEW signature \in signed, NEW vote_yes \in BOOLEAN,
             CastVote(p, j, nonce, signature, vote_yes)
      PROVE  IInv'
  BY <1>2, CastVoteInv
<1>3. ASSUME NEW t \in Tier, NEW receipt \in receipts \cup Altered,
             NEW nonce \in Nonces, NEW signature \in signed,
             Activate(t, receipt, nonce, signature)
      PROVE  IInv'
  BY <1>3, ActivateInv
<1>4. ASSUME NEW receipt \in receipts \cup Altered, NEW nonce \in Nonces,
             NEW signature \in signed, VerifyNip42(receipt, nonce, signature)
      PROVE  IInv'
  BY <1>4, VerifyNip42Inv
<1>5. CASE UNCHANGED vars
  BY <1>5, StutterInv
<1>6. QED BY <1>1, <1>2, <1>3, <1>4, <1>5 DEF Next

-----------------------------------------------------------------------------
\* The invariant of the pool of receipts and of the applications, whatever is
\* proved, signed, altered and presented to which of them.
THEOREM Invariance == Spec => []IInv
<1>1. QED BY InitInv, NextInv, PTL DEF Spec

\* cast_vote, activate, verify_nip42_with_lp0005 and both gated_checks hold only
\* what was earned for them, and count it once.
THEOREM Earning == Spec => []AppInv
<1>1. IInv => AppInv
  BY DEF IInv
<1>2. QED BY <1>1, Invariance, PTL

\* The nullifiers that earned a vote are finitely many, at most one per receipt.
LEMMA EarnersFinite ==
    ASSUME IInv, NEW context, NEW floor
    PROVE  IsFiniteSet({n \in Nullifiers : Earned(n, context, floor)})
<1> DEFINE S == {r.journal.nullifier : r \in receipts}
           f == [r \in receipts |-> r.journal.nullifier]
<1>1. f \in Surjection(receipts, S)
  BY DEF Surjection
<1>2. IsFiniteSet(S)
  BY <1>1, FS_Surjection DEF IInv, AllFinite
<1>3. {n \in Nullifiers : Earned(n, context, floor)} \in SUBSET S
  BY DEF Earned
<1>4. QED BY <1>2, <1>3, FS_Subset

\* A proposal's turnout never exceeds the attestations made for it at the stake,
\* presented by their own keys: cast_vote counts a nullifier once.
THEOREM Turnout == Spec => []TurnoutEarned
<1>1. IInv => TurnoutEarned
  <2> SUFFICES ASSUME IInv, NEW p \in Proposals
               PROVE  Votes(p) <= Cardinality({n \in Nullifiers :
                          Earned(n, GOVERNANCE_CONTEXT_ID, minimum_stake)})
    BY DEF TurnoutEarned
  <2> DEFINE S == {n \in Nullifiers :
                     Earned(n, GOVERNANCE_CONTEXT_ID, minimum_stake)}
  <2>1. proposals[p].used_nullifiers \in SUBSET S
    BY DEF IInv, AppInv, TypeOK, ProposalState, BallotsCounted
  <2>2. Cardinality(proposals[p].used_nullifiers) <= Cardinality(S)
    BY <2>1, EarnersFinite, FS_Subset
  <2>3. QED BY <2>2 DEF IInv, AppInv, BallotsCounted
<1>2. QED BY <1>1, Invariance, PTL

\* The shallow guest and the kernel agree on every call and every signature: a
\* signature is made with a well-formed key, and no challenge is the digest of
\* bytes that are not DER.
THEOREM KernelIsShallow == Spec => []KernelAgrees
<1>1. IInv => KernelAgrees
  <2> SUFFICES ASSUME IInv, NEW c \in Calls, NEW s \in signed \cup {NotDer},
                      c.journal.presenter_pubkey \notin WrongLength
               PROVE  ShallowChecks(c, s) = CodeOf[KernelChecks(c, s)]
    BY DEF KernelAgrees
  <2> DEFINE j == c.journal
             digest == ShallowDigest(c.presenter_nonce, j)
  <2>1. digest = ChallengeDigest(c.presenter_nonce, j)
    BY DEF ShallowDigest, ChallengeDigest
  <2>2. s = NotDer => s.digest # digest
    <3>1. "bytes" \in DOMAIN NotDer.digest
      BY DEF NotDer
    <3>2. "bytes" \notin DOMAIN digest
      BY DEF ShallowDigest, PresenterChallengeDigest
    <3>3. QED BY <3>1, <3>2
  <2>3. j.presenter_pubkey \in NoPoint =>
           ~VerifyPresenterSignature(j.presenter_pubkey, digest, s)
    BY <2>2, GuestAssumption
    DEF IInv, AppInv, TypeOK, VerifyPresenterSignature
  <2>4. SignatureError(c, digest, s)
           = CodeOf[VerifyPresenter(j, c.presenter_nonce, s)]
    BY <2>1, <2>2, <2>3
    DEF SignatureError, VerifyPresenter, VerifyPresenterSignature, CodeOf
  <2>5. QED BY <2>4 DEF ShallowChecks, HostChecks, KernelChecks, CodeOf
<1>2. QED BY <1>1, Invariance, PTL

-----------------------------------------------------------------------------
(* The gates implement single use.                                         *)

\* A vote spends its nullifier, and nothing else.
LEMMA CastVoteUses ==
    ASSUME IInv, NEW p \in Proposals, NEW j \in Proved, NEW nonce \in Nonces,
           NEW signature \in signed, NEW vote_yes \in BOOLEAN,
           CastVote(p, j, nonce, signature, vote_yes)
    PROVE  \E n \in Nullifiers : Ballots!Use(p, n)
<1>1. /\ j.nullifier \notin proposals[p].used_nullifiers
      /\ proposals' \in [Proposals -> ProposalState]
      /\ \A q \in Proposals :
            proposals'[q].used_nullifiers =
               IF q = p THEN proposals[p].used_nullifiers \cup {j.nullifier}
                        ELSE proposals[q].used_nullifiers
      /\ \A q \in Proposals :
            Votes(q)' = IF q = p THEN Votes(p) + 1 ELSE Votes(q)
  BY CastVoteCounts
<1>2. j.nullifier \in Nullifiers
  BY AppAssumption, CheckedEarns DEF CastVote
<1>3. Ballots!Use(p, j.nullifier)
  BY <1>1 DEF Ballots!Use
<1>4. QED BY <1>2, <1>3

\* cast_vote refines "single-use-per-proposal": in every behaviour, a vote is one
\* use of a token that was not spent, and no other step counts or forgets one.
THEOREM VotesAreUses == Spec => VotesUseOnce
<1>1. Init => Ballots!UseInit
  BY DEF Init, Votes, Ballots!UseInit
<1>2. IInv /\ [Next]_vars => [Ballots!UseNext]_Ballots!useVars
  <2> SUFFICES ASSUME IInv, [Next]_vars
               PROVE  \/ Ballots!UseNext
                      \/ UNCHANGED Ballots!useVars
    OBVIOUS
  <2>1. ASSUME NEW p \in Proposals, NEW j \in Proved, NEW nonce \in Nonces,
               NEW signature \in signed, NEW vote_yes \in BOOLEAN,
               CastVote(p, j, nonce, signature, vote_yes)
        PROVE  Ballots!UseNext
    BY <2>1, CastVoteUses DEF Ballots!UseNext
  <2>2. CASE UNCHANGED proposals
    BY <2>2 DEF Votes, Ballots!useVars
  <2>3. QED
    BY <2>1, <2>2 DEF Next, vars, appVars, Activate, VerifyNip42
<1>3. QED
  BY <1>1, <1>2, Invariance, PTL DEF Spec, VotesUseOnce, Ballots!UseSpec

\* activate refines "one active session per attestation": it succeeds once for a
\* nullifier, and the session stays.
THEOREM SessionsAreUses == Spec => SessionsUseOnce
<1>1. Init => Activations!UseInit
  BY DEF Init, Activations!UseInit
<1>2. IInv /\ [Next]_vars => [Activations!UseNext]_Activations!useVars
  <2> SUFFICES ASSUME IInv, [Next]_vars
               PROVE  \/ Activations!UseNext
                      \/ UNCHANGED Activations!useVars
    OBVIOUS
  <2>1. ASSUME NEW t \in Tier, NEW receipt \in receipts \cup Altered,
               NEW nonce \in Nonces, NEW signature \in signed,
               Activate(t, receipt, nonce, signature)
        PROVE  Activations!UseNext
    <3> DEFINE n == receipt.journal.nullifier
    <3>1. /\ n \notin DOMAIN active_sessions
          /\ DOMAIN active_sessions' = DOMAIN active_sessions \cup {n}
          /\ activations' = activations + 1
      BY <2>1 DEF Activate
    <3>2. n \in Nullifiers
      <4>1. minimum_balance[t] \in Nat
        BY DEF minimum_balance, Tier
      <4>2. QED BY <2>1, <4>1, VerifiedEarns DEF Activate
    <3>3. Activations!Use("service", n)
      BY <3>1 DEF Activations!Use
    <3>4. QED BY <3>2, <3>3 DEF Activations!UseNext
  <2>2. CASE UNCHANGED premium
    BY <2>2 DEF premium, Activations!useVars
  <2>3. QED
    BY <2>1, <2>2 DEF Next, vars, appVars, premium, CastVote, VerifyNip42
<1>3. QED
  BY <1>1, <1>2, Invariance, PTL DEF Spec, SessionsUseOnce, Activations!UseSpec
=============================================================================
