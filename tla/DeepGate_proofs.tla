--------------------------- MODULE DeepGate_proofs ---------------------------
(***************************************************************************)
(* Proofs about the deep gate, for every set of wallets, keys, contexts,   *)
(* calls and balances.                                                     *)
(***************************************************************************)
EXTENDS DeepGate, LezChain_proofs

-----------------------------------------------------------------------------
(* The gate.                                                               *)

\* A transaction the sequencer accepts was proved over the current state of its
\* account: the root check puts that state on the chain, the nullifier check
\* makes it the live one.
LEMMA AcceptedIsCurrent ==
    ASSUME ChainInv, ProvedMeetsFloor, NEW t \in proved, Acceptable(t)
    PROVE  t.old \in leaves /\ account[t.old.account] = t.old
<1>1. t.old \in leaves
  BY DEF ChainInv, HistoryIsPast, ProvedMeetsFloor, Acceptable
<1>2. QED BY <1>1 DEF ChainInv, LiveIsCurrent, Acceptable

\* The step that claims a marker moves only its own account.
LEMMA SettledMoves ==
    ASSUME TypeOK, ChainInv, ProvedMeetsFloor, NEW t \in proved, Acceptable(t)
    PROVE  Moves({t.old}, {t.new})
<1>1. t.old \in leaves /\ account[t.old.account] = t.old
  BY AcceptedIsCurrent
<1>2. t.new \in Commitments
  BY DEF TypeOK, Transactions
<1>3. t.new.account = t.old.account /\ t.new.nonce = t.old.nonce + 1
  BY DEF ProvedMeetsFloor
<1>4. QED BY <1>1, <1>2, <1>3 DEF Moves

\* A call that passes gated_check is well formed, and names a marker its
\* presenter, its signature and its statement all support.
LEMMA CheckedCall ==
    ASSUME TypeOK, NEW presenter, NEW c \in Calls, NEW nonce \in Nonces,
           NEW signature \in signed,
           GatedCheck(presenter, c, nonce, signature)
    PROVE  /\ c.gate_tag \in GateTags
           /\ c.gate_tag.nullifier.account = presenter.account
           /\ c.gate_tag.context = c.gate_tag.nullifier.context
           /\ presenter.owner = NativeProgram
           /\ presenter.balance >= c.gate_tag.floor
           /\ ConsentedTo(c.gate_tag, signature)
<1>1. c \in GateCalls
  BY GateAssumption
<1>2. /\ c.gate_tag \in GateTags
      /\ c.threshold \in Nat
      /\ c.minimum_threshold \in Nat
  BY <1>1, ChainAssumption DEF GateCalls, Thresholds
<1>3. /\ c.gate_tag.nullifier = c.nullifier
      /\ c.gate_tag.floor = c.minimum_threshold
      /\ c.gate_tag.context = c.expected_context_id
  BY DEF GatedCheck, ComputeGateTag
<1>4. /\ c.nullifier.account = presenter.account
      /\ c.nullifier.context = c.context_id
      /\ c.nullifier.key = c.presenter_pubkey
  BY DEF GatedCheck, AttestedNullifier, CallStatement, AttestStatement,
         ComputeNullifier
<1>5. /\ signature.key = c.presenter_pubkey
      /\ signature.digest.nullifier = c.nullifier
      /\ signature.digest.context_id = c.context_id
      /\ signature.digest.threshold = c.threshold
  BY DEF GatedCheck, VerifyPresenterSignature, CallDigest,
         PresenterChallengeDigest
<1>6. ConsentedTo(c.gate_tag, signature)
  BY <1>2, <1>3, <1>4, <1>5 DEF ConsentedTo, GatedCheck
<1>7. QED BY <1>2, <1>3, <1>4, <1>6 DEF GatedCheck

\* The first state of every behaviour satisfies the invariant.
LEMMA InitInv == Init => IInv
<1> SUFFICES ASSUME Init PROVE IInv
  OBVIOUS
<1>1. ChainInv
  BY ChainInitInv DEF Init
<1>2. ProvedMeetsFloor /\ ProvedWithConsent
  BY DEF Init, ProvedMeetsFloor, ProvedWithConsent
<1>3. MarkerBacked /\ MarkerConsented /\ MarkerOneContext
  BY DEF Init, MarkerBacked, MarkerConsented, MarkerOneContext
<1>4. QED
  BY <1>1, <1>2, <1>3 DEF Init, IInv, TypeOK, ChainInv

\* A transfer disturbs the chain only: what was proved and claimed stays backed
\* because the commitment set only grows.
LEMMA TransferInv ==
    ASSUME IInv, NEW from \in Accounts, NEW to \in Accounts,
           NEW amount \in 1 .. MaxBalance,
           Transfer(from, to, amount), UNCHANGED gateVars
    PROVE  IInv'
<1>1. ChainInv'
  BY TransferChain DEF IInv
<1>2. leaves \subseteq leaves'
  BY DEF Transfer, Settle
<1>3. /\ signed' = signed
      /\ proved' = proved
      /\ markers' = markers
  BY DEF gateVars
<1>4. TypeOK'
  BY <1>1, <1>3 DEF IInv, TypeOK, ChainInv
<1>5. ProvedMeetsFloor' /\ ProvedWithConsent'
  BY <1>3 DEF IInv, ProvedMeetsFloor, ProvedWithConsent, ConsentedTo
<1>6. MarkerBacked'
  BY <1>2, <1>3 DEF IInv, MarkerBacked
<1>7. MarkerConsented' /\ MarkerOneContext'
  BY <1>3 DEF IInv, MarkerConsented, MarkerOneContext, ConsentedTo
<1>8. QED BY <1>1, <1>4, <1>5, <1>6, <1>7 DEF IInv

\* Consent is never withdrawn: a challenge response stays with whoever got it.
LEMMA SignInv ==
    ASSUME IInv, NEW key \in Keys, NEW nonce \in Nonces, NEW c \in Calls,
           SignChallenge(key, nonce, c)
    PROVE  IInv'
<1>1. /\ signed' = signed \cup {[key |-> key, digest |-> CallDigest(nonce, c)]}
      /\ UNCHANGED <<chainVars, proved, markers>>
  BY DEF SignChallenge
<1>2. CallDigest(nonce, c) \in Digests
  BY GateAssumption
  DEF CallDigest, PresenterChallengeDigest, Digests, GateCalls
<1>3. signed' \subseteq Signatures
  BY <1>1, <1>2 DEF IInv, TypeOK, Signatures
<1>4. TypeOK'
  BY <1>1, <1>3 DEF IInv, TypeOK, ChainTypeOK, chainVars
<1>5. ChainInv'
  BY <1>1 DEF IInv, ChainInv, ChainTypeOK, LiveIsCurrent, CurrentIsLive,
              NonceFrontier, HistoryIsPast, chainVars
<1>6. ProvedMeetsFloor' /\ MarkerBacked' /\ MarkerOneContext'
  BY <1>1 DEF IInv, ProvedMeetsFloor, MarkerBacked, MarkerOneContext, chainVars
<1>7. ProvedWithConsent' /\ MarkerConsented'
  BY <1>1 DEF IInv, ProvedWithConsent, MarkerConsented, ConsentedTo
<1>8. QED BY <1>4, <1>5, <1>6, <1>7 DEF IInv

\* What a wallet proves carries the checks of gated_check to settlement.
LEMMA ProveInv ==
    ASSUME IInv, NEW presenter \in leaves \cup Invented, NEW c \in Calls,
           NEW nonce \in Nonces, NEW signature \in signed,
           NEW path \in MembershipPaths(presenter),
           ProveGatedCheck(presenter, path, c, nonce, signature)
    PROVE  IInv'
<1> DEFINE tx == [old |-> presenter,
                  new |-> Moved(presenter, presenter.balance),
                  root |-> FoldMerklePath(presenter, path),
                  marker |-> c.gate_tag]
<1>1. /\ proved' = proved \cup {tx}
      /\ UNCHANGED <<chainVars, signed, markers>>
      /\ GatedCheck(presenter, c, nonce, signature)
      /\ presenter.nonce < MaxNonce
  BY DEF ProveGatedCheck
<1>2. presenter \in Commitments
  BY GateAssumption DEF IInv, TypeOK, ChainTypeOK
<1>3. /\ c.gate_tag \in GateTags
      /\ c.gate_tag.nullifier.account = presenter.account
      /\ c.gate_tag.context = c.gate_tag.nullifier.context
      /\ presenter.owner = NativeProgram
      /\ presenter.balance >= c.gate_tag.floor
      /\ ConsentedTo(c.gate_tag, signature)
  BY <1>1, CheckedCall DEF IInv
<1>4. /\ tx.new \in Commitments
      /\ tx.new.account = presenter.account
      /\ tx.new.owner = presenter.owner
      /\ tx.new.balance = presenter.balance
      /\ tx.new.nonce = presenter.nonce + 1
  <2>1. presenter.balance \in 0 .. MaxBalance
    BY <1>2 DEF Commitments
  <2>2. QED BY <1>1, <1>2, <2>1, MovedCommitment
<1>5. tx.root \in Roots /\ presenter \in tx.root
  <2>1. path \subseteq Commitments
    BY DEF MembershipPaths, IInv, TypeOK, ChainTypeOK, Roots
  <2>2. QED BY <1>2, <2>1 DEF FoldMerklePath, Roots
<1>6. tx \in Transactions
  BY <1>2, <1>3, <1>4, <1>5 DEF Transactions
<1>7. TypeOK'
  BY <1>1, <1>6 DEF IInv, TypeOK, ChainTypeOK, chainVars
<1>8. ChainInv'
  BY <1>1 DEF IInv, ChainInv, ChainTypeOK, LiveIsCurrent, CurrentIsLive,
              NonceFrontier, HistoryIsPast, chainVars
<1>9. ProvedMeetsFloor'
  BY <1>1, <1>3, <1>4, <1>5 DEF IInv, ProvedMeetsFloor
<1>10. ProvedWithConsent'
  BY <1>1, <1>3 DEF IInv, ProvedWithConsent, ConsentedTo
<1>11. MarkerBacked' /\ MarkerConsented' /\ MarkerOneContext'
  BY <1>1 DEF IInv, MarkerBacked, MarkerConsented, MarkerOneContext,
              ConsentedTo, chainVars
<1>12. QED BY <1>7, <1>8, <1>9, <1>10, <1>11 DEF IInv

\* Settling turns a proved transaction into a backed, consented marker.
LEMMA SettleInv ==
    ASSUME IInv, NEW t \in proved, SettleGatedCheck(t)
    PROVE  IInv'
<1>1. /\ Acceptable(t)
      /\ Settle({t.old}, {t.new})
      /\ markers' = markers \cup {t.marker}
      /\ UNCHANGED <<signed, proved>>
  BY DEF SettleGatedCheck
<1>2. ChainInv'
  <2>1. Moves({t.old}, {t.new})
    BY <1>1, SettledMoves DEF IInv
  <2>2. QED BY <1>1, <2>1, SettleChain DEF IInv
<1>3. leaves \subseteq leaves'
  BY <1>1 DEF Settle
<1>4. t.old \in leaves
  BY <1>1, AcceptedIsCurrent DEF IInv
<1>5. t \in Transactions
  BY DEF IInv, TypeOK
<1>6. TypeOK'
  BY <1>1, <1>2, <1>5 DEF IInv, TypeOK, ChainInv, Transactions
<1>7. ProvedMeetsFloor' /\ ProvedWithConsent'
  BY <1>1 DEF IInv, ProvedMeetsFloor, ProvedWithConsent, ConsentedTo
<1>8. MarkerBacked'
  BY <1>1, <1>3, <1>4 DEF IInv, MarkerBacked, ProvedMeetsFloor
<1>9. MarkerConsented' /\ MarkerOneContext'
  BY <1>1 DEF IInv, MarkerConsented, MarkerOneContext, ProvedWithConsent,
              ProvedMeetsFloor, ConsentedTo
<1>10. QED BY <1>2, <1>6, <1>7, <1>8, <1>9 DEF IInv

-----------------------------------------------------------------------------
(* The theorems.                                                           *)

\* Every step keeps the invariant.
LEMMA NextInv == IInv /\ [Next]_vars => IInv'
<1> SUFFICES ASSUME IInv, [Next]_vars PROVE IInv'
  OBVIOUS
<1>1. ASSUME NEW from \in Accounts, NEW to \in Accounts,
             NEW amount \in 1 .. MaxBalance,
             Transfer(from, to, amount) /\ UNCHANGED gateVars
      PROVE  IInv'
  BY <1>1, TransferInv
<1>2. ASSUME NEW key \in Keys, NEW nonce \in Nonces, NEW c \in Calls,
             SignChallenge(key, nonce, c)
      PROVE  IInv'
  BY <1>2, SignInv
<1>3. ASSUME NEW presenter \in leaves \cup Invented, NEW c \in Calls,
             NEW nonce \in Nonces, NEW signature \in signed,
             NEW path \in MembershipPaths(presenter),
             ProveGatedCheck(presenter, path, c, nonce, signature)
      PROVE  IInv'
  BY <1>3, ProveInv
<1>4. ASSUME NEW t \in proved, SettleGatedCheck(t)
      PROVE  IInv'
  BY <1>4, SettleInv
<1>5. CASE UNCHANGED vars
  <2>1. /\ UNCHANGED <<account, leaves, spent, rootHistory>>
        /\ UNCHANGED <<signed, proved, markers>>
    BY <1>5 DEF vars
  <2>2. TypeOK' /\ ChainInv'
    BY <2>1 DEF IInv, TypeOK, ChainInv, ChainTypeOK, LiveIsCurrent,
                CurrentIsLive, NonceFrontier, HistoryIsPast
  <2>3. QED
    BY <2>1, <2>2 DEF IInv, ProvedMeetsFloor, ProvedWithConsent, MarkerBacked,
                      MarkerConsented, MarkerOneContext, ConsentedTo
<1>6. QED BY <1>1, <1>2, <1>3, <1>4, <1>5 DEF Next

\* IInv holds in every reachable state.
THEOREM Invariance == Spec => []IInv
<1>1. QED BY InitInv, NextInv, PTL DEF Spec

\* Every variable of the chain and of the gate keeps its type, and the chain
\* keeps one live commitment per account.
THEOREM TypeCorrect == Spec => [](TypeOK /\ ChainInv)
<1>1. IInv => TypeOK /\ ChainInv
  BY DEF IInv
<1>2. QED BY <1>1, Invariance, PTL

\* A marker means that its account, owned by the token program, held the floor
\* its address commits to.
THEOREM Backed == Spec => []MarkerBacked
<1>1. IInv => MarkerBacked
  BY DEF IInv
<1>2. QED BY <1>1, Invariance, PTL

\* A marker means that the holder of its key signed for its nullifier, in its
\* context, at its floor or above.
THEOREM Consented == Spec => []MarkerConsented
<1>1. IInv => MarkerConsented
  BY DEF IInv
<1>2. QED BY <1>1, Invariance, PTL

\* The balance a claim rests on is the balance of the account at the claim.
THEOREM ClaimedOnCurrentState == Spec => ClaimsAreCurrent
<1>1. IInv /\ [Next]_vars => [ClaimHoldsFloorNow]_vars
  <2> SUFFICES ASSUME IInv, [Next]_vars, NEW m \in markers' \ markers
               PROVE  /\ account[m.nullifier.account].owner = NativeProgram
                      /\ account[m.nullifier.account].balance >= m.floor
    BY DEF ClaimHoldsFloorNow
  <2>1. PICK t \in proved : SettleGatedCheck(t)
    BY DEF Next, vars, gateVars, SignChallenge, ProveGatedCheck
  <2>2. m = t.marker /\ Acceptable(t)
    BY <2>1 DEF SettleGatedCheck
  <2>3. account[t.old.account] = t.old
    BY <2>2, AcceptedIsCurrent DEF IInv
  <2>4. QED BY <2>2, <2>3 DEF IInv, ProvedMeetsFloor
<1>2. QED BY <1>1, Invariance, PTL DEF Spec, ClaimsAreCurrent

-----------------------------------------------------------------------------
(* The gate implements the registry.                                       *)

\* A transfer is a move of the registry's holdings.
LEMMA TransferIsMove ==
    ASSUME IInv, NEW from \in Accounts, NEW to \in Accounts,
           NEW amount \in 1 .. MaxBalance,
           Transfer(from, to, amount), UNCHANGED gateVars
    PROVE  Registry!Move(from, to, amount)
<1> DEFINE f == account[from]
           t == account[to]
           f2 == Moved(f, f.balance - amount)
           t2 == Moved(t, t.balance + amount)
<1>1. /\ f \in Commitments /\ f.account = from
      /\ t \in Commitments /\ t.account = to
  BY DEF IInv, ChainInv, ChainTypeOK, CurrentIsLive
<1>2. /\ from # to
      /\ f.owner = NativeProgram
      /\ t.owner = NativeProgram
      /\ amount <= f.balance
      /\ account' = [a \in Accounts |->
                       IF \E c \in {f2, t2} : c.account = a
                       THEN CHOOSE c \in {f2, t2} : c.account = a
                       ELSE account[a]]
  BY DEF Transfer, Settle
<1>3. /\ f2.account = from /\ f2.owner = f.owner
      /\ f2.balance = f.balance - amount
      /\ t2.account = to /\ t2.owner = t.owner
      /\ t2.balance = t.balance + amount
  BY <1>1 DEF Moved, ComputeCommitment
<1> HIDE DEF f2, t2
<1>4. account'[from] = f2 /\ account'[to] = t2
  BY <1>2, <1>3
<1>5. \A a \in Accounts : a # from /\ a # to => account'[a] = account[a]
  BY <1>2, <1>3
<1>6. HoldingNow' =
        [HoldingNow EXCEPT ![from] = Registry!Tokens(@.balance - amount),
                           ![to] = Registry!Tokens(@.balance + amount)]
  <2>1. HoldingNow' =
          [a \in Accounts |->
             IF a = from
             THEN [owner |-> f.owner, balance |-> f.balance - amount]
             ELSE IF a = to
             THEN [owner |-> t.owner, balance |-> t.balance + amount]
             ELSE [owner |-> account[a].owner, balance |-> account[a].balance]]
    BY <1>3, <1>4, <1>5 DEF HoldingNow
  <2>2. HoldingNow[from] = [owner |-> f.owner, balance |-> f.balance]
    BY DEF HoldingNow
  <2>3. HoldingNow[to] = [owner |-> t.owner, balance |-> t.balance]
    BY DEF HoldingNow
  <2>4. /\ Registry!Tokens(HoldingNow[from].balance - amount)
             = [owner |-> f.owner, balance |-> f.balance - amount]
        /\ Registry!Tokens(HoldingNow[to].balance + amount)
             = [owner |-> t.owner, balance |-> t.balance + amount]
    BY <2>2, <2>3, <1>2 DEF Registry!Tokens
  <2>5. \A a \in Accounts : HoldingNow[a] =
          [owner |-> account[a].owner, balance |-> account[a].balance]
    BY DEF HoldingNow
  <2>6. HoldingNow = [a \in Accounts |-> HoldingNow[a]]
    BY DEF HoldingNow
  <2> HIDE DEF f, t
  <2>7. QED BY <2>1, <2>4, <2>5, <2>6, <1>2
<1>7. Approved' = Approved /\ Granted' = Granted
  BY DEF gateVars, Approved, Granted, ApprovalOf, GrantOf, WellFormed
<1>8. /\ HoldingNow[from].owner = NativeProgram
      /\ HoldingNow[to].owner = NativeProgram
      /\ amount <= HoldingNow[from].balance
  BY <1>2 DEF HoldingNow
<1>9. QED BY <1>2, <1>6, <1>7, <1>8 DEF Registry!Move

\* A challenge response is an approval, or changes nothing the registry sees.
LEMMA SignIsApprove ==
    ASSUME IInv, NEW key \in Keys, NEW nonce \in Nonces, NEW c \in Calls,
           SignChallenge(key, nonce, c)
    PROVE  \/ \E a \in Registry!Approvals : Registry!Approve(a)
           \/ UNCHANGED <<HoldingNow, Approved, Granted>>
<1> DEFINE s == [key |-> key, digest |-> CallDigest(nonce, c)]
<1>1. /\ signed' = signed \cup {s}
      /\ account' = account
      /\ markers' = markers
  BY DEF SignChallenge, chainVars
<1>2. HoldingNow' = HoldingNow /\ Granted' = Granted
  BY <1>1 DEF HoldingNow, Granted, GrantOf
<1>3. CASE WellFormed(s)
  <2>1. s.key = key /\ s.digest = CallDigest(nonce, c)
    OBVIOUS
  <2>2. CallDigest(nonce, c) \in Digests
    BY GateAssumption
    DEF CallDigest, PresenterChallengeDigest, Digests, GateCalls
  <2> HIDE DEF s
  <2>3. ApprovalOf(s) \in Registry!Approvals
    BY <2>1, <2>2
    DEF ApprovalOf, Registry!Approvals, Digests, Nullifiers, Thresholds
  <2>4. Approved' = Approved \cup {ApprovalOf(s)}
    BY <1>1, <1>3 DEF Approved
  <2>5. QED BY <1>2, <2>3, <2>4 DEF Registry!Approve
<1>4. CASE ~WellFormed(s)
  <2> HIDE DEF s
  <2>1. Approved' = Approved
    BY <1>1, <1>4 DEF Approved
  <2>2. QED BY <1>2, <2>1
<1>5. QED BY <1>3, <1>4

\* Proving a transaction is invisible to the registry.
LEMMA ProveIsStutter ==
    ASSUME NEW presenter, NEW path, NEW c, NEW nonce, NEW signature,
           ProveGatedCheck(presenter, path, c, nonce, signature)
    PROVE  UNCHANGED <<HoldingNow, Approved, Granted>>
BY DEF ProveGatedCheck, chainVars, HoldingNow, Approved, Granted, ApprovalOf,
       GrantOf, WellFormed

\* A nullifier is what it hashes.
LEMMA NullifierEquality ==
    ASSUME NEW x \in Nullifiers, NEW y \in Nullifiers,
           x.key = y.key, x.context = y.context, x.account = y.account
    PROVE  x = y
BY DEF Nullifiers

\* Settling a gate transaction is a grant.
LEMMA SettleIsGrant ==
    ASSUME IInv, NEW t \in proved, SettleGatedCheck(t)
    PROVE  \E g \in Registry!Grants : Registry!Grant(g)
<1> DEFINE m == t.marker
           g == GrantOf(m)
<1>1. /\ Acceptable(t)
      /\ Settle({t.old}, {t.new})
      /\ markers' = markers \cup {m}
      /\ signed' = signed
  BY DEF SettleGatedCheck
<1>2. /\ t \in Transactions
      /\ m \in GateTags
      /\ m.nullifier.account \in Accounts
      /\ m.context = m.nullifier.context
  BY DEF IInv, TypeOK, Transactions, GateTags, Nullifiers, ProvedMeetsFloor
<1>3. g \in Registry!Grants
  BY <1>2
  DEF GrantOf, Registry!Grants, GateTags, Nullifiers, Thresholds
<1>4. account[t.old.account] = t.old /\ t.old.account = m.nullifier.account
  BY <1>1, AcceptedIsCurrent DEF IInv, ProvedMeetsFloor
<1>5. HoldingNow[g.account].owner = NativeProgram
      /\ HoldingNow[g.account].balance >= g.floor
  BY <1>2, <1>4 DEF HoldingNow, GrantOf, IInv, ProvedMeetsFloor
<1>6. g \notin Granted
  <2>1. SUFFICES ASSUME NEW n \in markers, GrantOf(n) = GrantOf(m)
                 PROVE  n = m
    BY <1>1 DEF Granted, Acceptable
  <2>2. /\ n \in GateTags
        /\ n.context = n.nullifier.context
        /\ n.nullifier \in Nullifiers
        /\ m.nullifier \in Nullifiers
    BY <1>2 DEF IInv, TypeOK, MarkerOneContext, GateTags
  <2>3. /\ n.nullifier.key = m.nullifier.key
        /\ n.nullifier.account = m.nullifier.account
        /\ n.context = m.context
        /\ n.floor = m.floor
    BY <2>1 DEF GrantOf
  <2>4. n.nullifier = m.nullifier
    <3>1. n.nullifier.context = m.nullifier.context
      BY <1>2, <2>2, <2>3
    <3>2. QED BY <2>2, <2>3, <3>1, NullifierEquality
  <2>5. QED BY <1>2, <2>2, <2>3, <2>4 DEF GateTags
<1>7. \E a \in Approved : Registry!Covers(a, g)
  <2>1. PICK s \in signed : ConsentedTo(m, s)
    BY DEF IInv, ProvedWithConsent
  <2>2. WellFormed(s)
    BY <2>1, <1>2 DEF ConsentedTo, WellFormed
  <2>3. Registry!Covers(ApprovalOf(s), g)
    BY <2>1, <1>2 DEF ConsentedTo, ApprovalOf, GrantOf, Registry!Covers
  <2>4. QED BY <2>2, <2>3 DEF Approved
<1>8. HoldingNow' = HoldingNow
  <2>1. /\ t.new \in Commitments
        /\ t.new.account = t.old.account
        /\ t.new.owner = t.old.owner
        /\ t.new.balance = t.old.balance
    BY <1>2 DEF IInv, ProvedMeetsFloor, Transactions
  <2>2. \A a \in Accounts :
           account'[a] = IF a = t.old.account THEN t.new ELSE account[a]
    BY <1>1, <2>1 DEF Settle
  <2>3. QED BY <1>4, <2>1, <2>2 DEF HoldingNow
<1>9. Approved' = Approved /\ Granted' = Granted \cup {g}
  BY <1>1 DEF Approved, Granted, ApprovalOf, WellFormed
<1>10. QED BY <1>3, <1>5, <1>6, <1>7, <1>8, <1>9 DEF Registry!Grant

\* Every behaviour of the gate is a behaviour of the registry.
THEOREM Refinement == Spec => ImplementsRegistry
<1>1. Init => Registry!RegistryInit
  <2> SUFFICES ASSUME Init PROVE Registry!RegistryInit
    OBVIOUS
  <2>1. account \in [Accounts -> Commitments]
    BY ChainAssumption DEF Init, ChainInit
  <2>2. HoldingNow \in [Accounts -> Registry!Holdings]
    BY <2>1 DEF HoldingNow, Registry!Holdings, Commitments
  <2>3. Approved = {} /\ Granted = {}
    BY DEF Init, Approved, Granted
  <2>4. QED BY <2>2, <2>3 DEF Registry!RegistryInit
<1>2. IInv /\ [Next]_vars => [Registry!RegistryNext]_Registry!registryVars
  <2> SUFFICES ASSUME IInv, [Next]_vars
               PROVE  \/ Registry!RegistryNext
                      \/ UNCHANGED <<HoldingNow, Approved, Granted>>
    BY DEF Registry!registryVars
  <2>1. ASSUME NEW from \in Accounts, NEW to \in Accounts,
               NEW amount \in 1 .. MaxBalance,
               Transfer(from, to, amount) /\ UNCHANGED gateVars
        PROVE  Registry!RegistryNext
    BY <2>1, TransferIsMove DEF Registry!RegistryNext
  <2>2. ASSUME NEW key \in Keys, NEW nonce \in Nonces, NEW c \in Calls,
               SignChallenge(key, nonce, c)
        PROVE  \/ Registry!RegistryNext
               \/ UNCHANGED <<HoldingNow, Approved, Granted>>
    BY <2>2, SignIsApprove DEF Registry!RegistryNext
  <2>3. ASSUME NEW presenter \in leaves \cup Invented, NEW c \in Calls,
               NEW nonce \in Nonces, NEW signature \in signed,
               NEW path \in MembershipPaths(presenter),
               ProveGatedCheck(presenter, path, c, nonce, signature)
        PROVE  UNCHANGED <<HoldingNow, Approved, Granted>>
    BY <2>3, ProveIsStutter
  <2>4. ASSUME NEW t \in proved, SettleGatedCheck(t)
        PROVE  Registry!RegistryNext
    BY <2>4, SettleIsGrant DEF Registry!RegistryNext
  <2>5. CASE UNCHANGED vars
    BY <2>5 DEF vars, HoldingNow, Approved, Granted, ApprovalOf, GrantOf,
                WellFormed
  <2>6. QED BY <2>1, <2>2, <2>3, <2>4, <2>5 DEF Next
<1>3. QED
  BY <1>1, <1>2, Invariance, PTL
  DEF Spec, ImplementsRegistry, Registry!RegistrySpec

-----------------------------------------------------------------------------
(* A claim uses up a state.                                                *)

ClaimsOf(a) == {m \in markers : m.nullifier.account = a}

CountInv ==
    /\ IsFiniteSet(markers)
    /\ \A a \in Accounts : Cardinality(ClaimsOf(a)) <= account[a].nonce

\* A transfer only moves nonces on.
LEMMA TransferNonces ==
    ASSUME IInv, NEW from \in Accounts, NEW to \in Accounts,
           NEW amount \in 1 .. MaxBalance, Transfer(from, to, amount),
           NEW a \in Accounts
    PROVE  account'[a].nonce \in Nat /\ account[a].nonce <= account'[a].nonce
<1> DEFINE f2 == Moved(account[from], account[from].balance - amount)
           t2 == Moved(account[to], account[to].balance + amount)
<1>1. /\ account'[a] = IF \E c \in {f2, t2} : c.account = a
                       THEN CHOOSE c \in {f2, t2} : c.account = a
                       ELSE account[a]
      /\ from # to
  BY DEF Transfer, Settle
<1>2. /\ account[a].nonce \in Nat
      /\ account[from].nonce \in Nat /\ account[from].account = from
      /\ account[to].nonce \in Nat /\ account[to].account = to
  BY ChainAssumption DEF IInv, ChainInv, ChainTypeOK, CurrentIsLive, Commitments
<1>3. /\ f2.account = from /\ f2.nonce = account[from].nonce + 1
      /\ t2.account = to /\ t2.nonce = account[to].nonce + 1
  BY <1>2 DEF Moved, ComputeCommitment
<1> HIDE DEF f2, t2
<1>4. CASE a = from
  BY <1>1, <1>2, <1>3, <1>4
<1>5. CASE a = to
  BY <1>1, <1>2, <1>3, <1>5
<1>6. CASE a # from /\ a # to
  BY <1>1, <1>2, <1>3, <1>6
<1>7. QED BY <1>4, <1>5, <1>6

\* Settling adds one claim and one state to the account that presents.
LEMMA SettleCount ==
    ASSUME IInv, CountInv, NEW t \in proved, SettleGatedCheck(t)
    PROVE  CountInv'
<1>1. /\ Acceptable(t)
      /\ Settle({t.old}, {t.new})
      /\ markers' = markers \cup {t.marker}
      /\ t.marker \notin markers
  BY DEF SettleGatedCheck, Acceptable
<1>2. /\ account[t.old.account] = t.old
      /\ t.old.account = t.marker.nullifier.account
      /\ t.new.account = t.old.account
      /\ t.new.nonce = t.old.nonce + 1
      /\ t.old \in Commitments
  BY <1>1, AcceptedIsCurrent DEF IInv, ProvedMeetsFloor, TypeOK, Transactions
<1>3. \A a \in Accounts :
         account'[a] = IF a = t.old.account THEN t.new ELSE account[a]
  BY <1>1, <1>2 DEF Settle
<1>4. IsFiniteSet(markers')
  BY <1>1, FS_AddElement DEF CountInv
<1>5. ASSUME NEW a \in Accounts
      PROVE  Cardinality(ClaimsOf(a)') <= account'[a].nonce
  <2>1. IsFiniteSet(ClaimsOf(a))
    BY FS_Subset DEF CountInv, ClaimsOf
  <2>2. /\ Cardinality(ClaimsOf(a)) \in Nat
        /\ Cardinality(ClaimsOf(a)) <= account[a].nonce
        /\ account[a].nonce \in Nat
    BY <2>1, FS_CardinalityType, ChainAssumption
    DEF CountInv, IInv, ChainInv, ChainTypeOK, Commitments
  <2>3. CASE a = t.old.account
    <3>1. ClaimsOf(a)' = ClaimsOf(a) \cup {t.marker}
      BY <1>1, <1>2, <2>3 DEF ClaimsOf
    <3>2. t.marker \notin ClaimsOf(a)
      BY <1>1 DEF ClaimsOf
    <3>3. Cardinality(ClaimsOf(a)') = Cardinality(ClaimsOf(a)) + 1
      BY <2>1, <3>1, <3>2, FS_AddElement
    <3>4. account'[a].nonce = account[a].nonce + 1
      BY <1>2, <1>3, <2>3
    <3>5. QED BY <2>2, <3>3, <3>4
  <2>4. CASE a # t.old.account
    <3>1. ClaimsOf(a)' = ClaimsOf(a)
      BY <1>1, <1>2, <2>4 DEF ClaimsOf
    <3>2. QED BY <1>3, <2>2, <2>4, <3>1
  <2>5. QED BY <2>3, <2>4
<1>6. QED BY <1>4, <1>5 DEF CountInv

\* An account never has more markers than it has left states behind.
THEOREM OneClaimPerState == Spec => []ClaimsSpendStates
<1>1. Init => CountInv
  <2> SUFFICES ASSUME Init PROVE CountInv
    OBVIOUS
  <2>1. markers = {} /\ \A a \in Accounts : ClaimsOf(a) = {}
    BY DEF Init, ClaimsOf
  <2>2. \A a \in Accounts : account[a].nonce \in Nat
    BY ChainAssumption DEF Init, ChainInit, Commitments
  <2>3. IsFiniteSet({}) /\ Cardinality({}) = 0
    BY FS_EmptySet
  <2>4. \A a \in Accounts : Cardinality(ClaimsOf(a)) = 0
    BY <2>1, <2>3
  <2>5. QED BY <2>1, <2>2, <2>3, <2>4 DEF CountInv
<1>2. IInv /\ CountInv /\ [Next]_vars => CountInv'
  <2> SUFFICES ASSUME IInv, CountInv, [Next]_vars PROVE CountInv'
    OBVIOUS
  <2>1. ASSUME NEW from \in Accounts, NEW to \in Accounts,
               NEW amount \in 1 .. MaxBalance,
               Transfer(from, to, amount) /\ UNCHANGED gateVars
        PROVE  CountInv'
    <3>1. markers' = markers /\ \A a \in Accounts : ClaimsOf(a)' = ClaimsOf(a)
      BY <2>1 DEF gateVars, ClaimsOf
    <3>2. ASSUME NEW a \in Accounts
          PROVE  Cardinality(ClaimsOf(a)) <= account'[a].nonce
      <4>1. IsFiniteSet(ClaimsOf(a))
        BY FS_Subset DEF CountInv, ClaimsOf
      <4>2. Cardinality(ClaimsOf(a)) \in Nat /\ account[a].nonce \in Nat
        BY <4>1, FS_CardinalityType, ChainAssumption
        DEF IInv, ChainInv, ChainTypeOK, Commitments
      <4>3. QED BY <2>1, <4>2, TransferNonces DEF CountInv
    <3>3. QED BY <3>1, <3>2 DEF CountInv
  <2>2. ASSUME NEW t \in proved, SettleGatedCheck(t)
        PROVE  CountInv'
    BY <2>2, SettleCount
  <2>3. CASE UNCHANGED <<account, markers>>
    BY <2>3 DEF CountInv, ClaimsOf
  <2>4. QED
    BY <2>1, <2>2, <2>3
    DEF Next, vars, SignChallenge, ProveGatedCheck, chainVars
<1>3. CountInv => ClaimsSpendStates
  BY DEF CountInv, ClaimsOf, ClaimsSpendStates
<1>4. QED BY <1>1, <1>2, <1>3, Invariance, PTL DEF Spec
=============================================================================
