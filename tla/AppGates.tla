------------------------------ MODULE AppGates ------------------------------
(***************************************************************************)
(* Three applications that act on attestations: governance votes           *)
(* (integrations/governance-gate over the kernel crates/verifier-program), *)
(* feature tiers (integrations/premium-features) and the authentication of *)
(* a Nostr relay (integrations/nostr-auth-gate).  What is proved or signed *)
(* for one application, tier, proposal or guest is presented to all others.*)
(***************************************************************************)
EXTENDS VerifierGuests

CONSTANTS
    Proposals,       \* the governance proposals open for votes
    minimum_stake,   \* the floor of a vote
    relay,           \* the identifier of the relay
    relay_minimum    \* its policy

Tier == {"free", "pro", "enterprise"}

minimum_balance ==
    [t \in Tier |-> CASE t = "free" -> 0
                      [] t = "pro" -> 10000
                      [] t = "enterprise" -> 1000000]

\* Contexts are hashes under a prefix of the application: equal exactly for the
\* same application and the same tier or relay.
GOVERNANCE_CONTEXT_ID == <<"governance-v1">>

TierContext(t) == <<"premium-features-v1", t>>

RelayContext(r) == <<"nostr-auth-gate/v1", r>>

Contexts ==
    {GOVERNANCE_CONTEXT_ID, RelayContext(relay)} \cup
    {TierContext(t) : t \in Tier}

Nullifiers == [key: Keys, context: Contexts, account: Accounts]

ASSUME AppAssumption ==
    /\ \A q \in Requests : q.context \in Contexts
    /\ minimum_stake \in Nat /\ relay_minimum \in Nat

VARIABLES
    proposals,        \* ProposalState of each proposal
    active_sessions,  \* FeatureService.active_sessions
    activations,      \* the number of activate calls that succeeded
    authenticated     \* the journals verify_nip42_with_lp0005 returned

premium == <<active_sessions, activations>>
appVars == <<proposals, active_sessions, activations, authenticated>>
vars == <<receipts, signed, confirmed, proposals, active_sessions, activations,
          authenticated>>

ProposalState ==
    [yes_votes: Nat, no_votes: Nat, used_nullifiers: SUBSET Nullifiers]

TypeOK ==
    /\ Proved \subseteq [merkle_root: {r.journal.merkle_root : r \in receipts},
                         threshold: Nat, context_id: Contexts,
                         presenter_pubkey: Keys, nullifier: Nullifiers]
    /\ \A s \in signed : s.key \in Keys
    /\ \A x \in confirmed : x.guest \in {"first", "shallow"} /\ x.call \in Calls
    /\ proposals \in [Proposals -> ProposalState]
    /\ DOMAIN active_sessions \subseteq Nullifiers
    /\ \A n \in DOMAIN active_sessions : active_sessions[n] \in Tier
    /\ activations \in Nat
    /\ authenticated \subseteq Proved

Init ==
    /\ PoolInit
    /\ proposals = [p \in Proposals |->
           [yes_votes |-> 0, no_votes |-> 0, used_nullifiers |-> {}]]
    /\ active_sessions = [n \in {} |-> "free"]
    /\ activations = 0
    /\ authenticated = {}

-----------------------------------------------------------------------------
\* check_gate, as cast_vote calls it.  It sees a journal without a receipt: that
\* the journal was proved is up to the program it is composed with.
CheckGate(j, minimum_threshold, nonce, signature) ==
    KernelChecks([journal |-> j, expected_context_id |-> GOVERNANCE_CONTEXT_ID,
                  minimum_threshold |-> minimum_threshold,
                  presenter_nonce |-> nonce], signature) = "Ok"

Count(state, vote_yes) ==
    IF vote_yes THEN [state EXCEPT !.yes_votes = @ + 1]
                ELSE [state EXCEPT !.no_votes = @ + 1]

Recorded(state, n) == [state EXCEPT !.used_nullifiers = @ \cup {n}]

\* Faulty variants of cast_vote: what the insertion returns is not looked at;
\* the nullifier is recorded before the gate is checked.
VoteAgain(p, j, nonce, signature, vote_yes) ==
    /\ CheckGate(j, minimum_stake, nonce, signature)
    /\ proposals' = [proposals EXCEPT
           ![p] = Count(Recorded(@, j.nullifier), vote_yes)]
    /\ UNCHANGED <<poolVars, premium, authenticated>>

RecordFirst(p, j, nonce, signature, vote_yes) ==
    LET counts == CheckGate(j, minimum_stake, nonce, signature)
    IN  /\ j.nullifier \notin proposals[p].used_nullifiers
        /\ proposals' = [proposals EXCEPT
               ![p] = IF counts THEN Count(Recorded(@, j.nullifier), vote_yes)
                                ELSE Recorded(@, j.nullifier)]
        /\ UNCHANGED <<poolVars, premium, authenticated>>

\* cast_vote.  Both errors return before anything is written.
CastVote(p, j, nonce, signature, vote_yes) ==
    /\ CheckGate(j, minimum_stake, nonce, signature)
    /\ j.nullifier \notin proposals[p].used_nullifiers
    /\ proposals' = [proposals EXCEPT
           ![p] = Count(Recorded(@, j.nullifier), vote_yes)]
    /\ UNCHANGED <<poolVars, premium, authenticated>>

\* Faulty variant of activate: the last activation counts.
ActivateAgain(t, receipt, nonce, signature) ==
    LET n == receipt.journal.nullifier
    IN  /\ VerifyCredential(receipt, nonce, signature, TierContext(t),
                            minimum_balance[t])
        /\ active_sessions' = [m \in DOMAIN active_sessions \cup {n} |->
               IF m = n THEN t ELSE active_sessions[m]]
        /\ activations' = activations + 1
        /\ UNCHANGED <<poolVars, proposals, authenticated>>

\* FeatureService::activate.
Activate(t, receipt, nonce, signature) ==
    LET n == receipt.journal.nullifier
    IN  /\ VerifyCredential(receipt, nonce, signature, TierContext(t),
                            minimum_balance[t])
        /\ n \notin DOMAIN active_sessions
        /\ active_sessions' = [m \in DOMAIN active_sessions \cup {n} |->
               IF m = n THEN t ELSE active_sessions[m]]
        /\ activations' = activations + 1
        /\ UNCHANGED <<poolVars, proposals, authenticated>>

\* verify_nip42_with_lp0005: the receipt, the nonce and the signature are all the
\* tag's.
VerifyNip42(receipt, nonce, signature) ==
    /\ VerifyCredential(receipt, nonce, signature, RelayContext(relay),
                        relay_minimum)
    /\ authenticated' = authenticated \cup {receipt.journal}
    /\ UNCHANGED <<poolVars, proposals, premium>>

Next ==
    \/ PoolNext /\ UNCHANGED appVars
    \/ \E p \in Proposals, j \in Proved, nonce \in Nonces,
          signature \in signed, vote_yes \in BOOLEAN :
          CastVote(p, j, nonce, signature, vote_yes)
    \/ \E t \in Tier, receipt \in receipts \cup Altered, nonce \in Nonces,
          signature \in signed : Activate(t, receipt, nonce, signature)
    \/ \E receipt \in receipts \cup Altered, nonce \in Nonces,
          signature \in signed : VerifyNip42(receipt, nonce, signature)

Spec == Init /\ [][Next]_vars

-----------------------------------------------------------------------------
\* What a journal is worth to a gate: somebody proved, for the context and the
\* nullifier, at least the floor, and the nullifier's key signed such a journal.
Earned(n, context, floor) ==
    /\ n.context = context
    /\ \E r \in receipts :
          /\ r.journal.nullifier = n
          /\ r.journal.threshold >= floor
          /\ \E c \in r.journal.merkle_root :
                c.account = n.account /\ c.balance >= floor
    /\ \E s \in signed, nonce \in Nonces, j \in Presented :
          /\ s.key = n.key
          /\ s.digest = ChallengeDigest(nonce, j)
          /\ j.nullifier = n /\ j.context_id = context /\ j.threshold >= floor

Votes(p) == proposals[p].yes_votes + proposals[p].no_votes

\* Every proposal's turnout is covered by attestations at the stake that their
\* keys presented: a credential counts once in a proposal, whoever repeats it and
\* whichever way it votes, and none made for a tier or a relay counts.
TurnoutEarned ==
    \A p \in Proposals :
        Votes(p) <= Cardinality({n \in Nullifiers :
                        Earned(n, GOVERNANCE_CONTEXT_ID, minimum_stake)})

\* tier_for never answers a tier that the nullifier's key did not present an
\* attestation for, at that tier's balance.
SessionsEarned ==
    \A n \in DOMAIN active_sessions :
        LET t == active_sessions[n]
        IN  Earned(n, TierContext(t), minimum_balance[t])

\* The relay lets in only a credential for this relay at its policy, signed by
\* its own key.
AuthenticationEarned ==
    \A j \in authenticated :
        Earned(j.nullifier, RelayContext(relay), relay_minimum)

\* A receipt is one of the circuit: it binds its key and its context into the
\* nullifier.
ReceiptsBound ==
    \A r \in receipts :
        /\ r.seal = r.journal
        /\ r.journal.nullifier.key = r.journal.presenter_pubkey
        /\ r.journal.nullifier.context = r.journal.context_id

\* The votes of a proposal are its nullifiers, each of them earned.
BallotsCounted ==
    \A p \in Proposals :
        /\ Votes(p) = Cardinality(proposals[p].used_nullifiers)
        /\ \A n \in proposals[p].used_nullifiers :
              Earned(n, GOVERNANCE_CONTEXT_ID, minimum_stake)

\* Everything an application or a guest holds was earned and counted.
AppInv ==
    /\ TypeOK
    /\ ReceiptsBound
    /\ ConfirmedConsented
    /\ FirstBacked
    /\ BallotsCounted
    /\ activations = Cardinality(DOMAIN active_sessions)
    /\ SessionsEarned
    /\ AuthenticationEarned

-----------------------------------------------------------------------------
Ballots == INSTANCE UseOnce
    WITH Scopes <- Proposals, Tokens <- Nullifiers,
         spent <- [p \in Proposals |-> proposals[p].used_nullifiers],
         uses <- [p \in Proposals |-> Votes(p)]

\* "Single-use-per-proposal" (governance-gate lib.rs:28): a vote is counted when,
\* and only when, a nullifier is recorded for it, and neither is taken back.
VotesUseOnce == Ballots!UseSpec

Activations == INSTANCE UseOnce
    WITH Scopes <- {"service"}, Tokens <- Nullifiers,
         spent <- [s \in {"service"} |-> DOMAIN active_sessions],
         uses <- [s \in {"service"} |-> activations]

\* "One active session per attestation" (premium-features lib.rs:7-8): activate
\* succeeds once for a nullifier, and the session stays.
SessionsUseOnce == Activations!UseSpec
=============================================================================
