------------------------ MODULE ChatAdmission_proofs ------------------------
(***************************************************************************)
(* Proofs about off-chain admission, for every set of candidates, requests *)
(* and altered receipts.                                                   *)
(***************************************************************************)
EXTENDS ChatAdmission, LezChain_proofs

-----------------------------------------------------------------------------
\* A journal the circuit accepted commits to a leaf of its own tree.
LEMMA ProvedJournal ==
    ASSUME ChainAssumption, NEW c \in Commitments, NEW path \in Roots,
           NEW q \in Requests,
           Attest(WitnessOf(c, path),
                  AttestStatement(
                    FoldMerklePath(WitnessCommitment(WitnessOf(c, path)), path),
                    q.threshold, q.context, q.key))
    PROVE  LET w == WitnessOf(c, path)
               s == AttestStatement(FoldMerklePath(WitnessCommitment(w), path),
                                    q.threshold, q.context, q.key)
               j == JournalOf(w, s)
           IN  /\ j \in Journals
               /\ j.nullifier.key = j.presenter_pubkey
               /\ j.nullifier.context = j.context_id
               /\ c \in j.merkle_root
               /\ c.account = j.nullifier.account
               /\ c.balance >= j.threshold
<1> DEFINE w == WitnessOf(c, path)
           s == AttestStatement(FoldMerklePath(WitnessCommitment(w), path),
                                q.threshold, q.context, q.key)
           j == JournalOf(w, s)
<1>1. /\ c.account \in Accounts
      /\ c = [account |-> c.account, owner |-> c.owner,
              balance |-> c.balance, nonce |-> c.nonce]
  BY DEF Commitments
<1>2. c.account = [npk |-> c.account.npk, identifier |-> c.account.identifier]
  BY <1>1 DEF Accounts, DeriveAccountId
<1>3. WitnessAccount(w) = c.account
  BY <1>2 DEF WitnessAccount, DeriveAccountId, WitnessOf
<1>4. WitnessCommitment(w) = c
  BY <1>1, <1>3 DEF WitnessCommitment, ComputeCommitment, WitnessOf
<1>5. s = [merkle_root |-> path \cup {c}, threshold |-> q.threshold,
           context_id |-> q.context, presenter_pubkey |-> q.key]
  BY <1>4 DEF AttestStatement, FoldMerklePath
<1>6. AttestedNullifier(w, s) =
         [key |-> q.key, context |-> q.context, account |-> c.account]
  BY <1>3, <1>5 DEF AttestedNullifier, ComputeNullifier
<1>7. j = [merkle_root |-> path \cup {c}, threshold |-> q.threshold,
           context_id |-> q.context, presenter_pubkey |-> q.key,
           nullifier |->
             [key |-> q.key, context |-> q.context, account |-> c.account]]
  <2>1. /\ s.merkle_root = path \cup {c}
        /\ s.threshold = q.threshold
        /\ s.context_id = q.context
        /\ s.presenter_pubkey = q.key
    BY <1>5
  <2> HIDE DEF s, w
  <2>2. QED BY <2>1, <1>6 DEF JournalOf
<1>8. q.key \in Keys /\ q.threshold \in Thresholds /\ q.context \in Contexts
  BY AdmissionAssumption
<1>9. path \cup {c} \in Roots
  BY DEF Roots
<1>10. j \in Journals
  BY <1>1, <1>7, <1>8, <1>9 DEF Journals, Nullifiers
<1>11. c.balance >= q.threshold
  BY <1>5 DEF Attest, WitnessOf
<1>12. QED BY <1>7, <1>10, <1>11

LEMMA InitInv == Init => IInv
<1> SUFFICES ASSUME Init PROVE IInv
  OBVIOUS
<1>1. ChainInv
  BY ChainInitInv DEF Init
<1>2. TypeOK
  BY <1>1 DEF Init, TypeOK, ChainInv
<1>3. ReceiptsGenuine /\ AdmittedGenuine /\ NothingBurned /\ JoinsOnce
  BY DEF Init, ReceiptsGenuine, AdmittedGenuine, NothingBurned, JoinsOnce
<1>4. MembersConsented /\ FreshIsBacked
  BY DEF Init, MembersConsented, FreshIsBacked
<1>5. QED BY <1>1, <1>2, <1>3, <1>4 DEF IInv

\* The chain moves on: nothing the roster rests on is taken back.
LEMMA ChainStepInv ==
    ASSUME IInv, ChainNext, UNCHANGED <<receipts, signed, rosterVars, fresh>>
    PROVE  IInv'
<1> USE DEF IInv, rosterVars
<1>1. ChainInv' /\ leaves \subseteq leaves'
  BY ChainNextInv
<1>2. TypeOK'
  BY <1>1 DEF TypeOK, ChainInv
<1>3. ReceiptsGenuine' /\ AdmittedGenuine' /\ NothingBurned' /\ JoinsOnce'
  BY DEF ReceiptsGenuine, AdmittedGenuine, NothingBurned, JoinsOnce
<1>4. MembersConsented'
  BY DEF MembersConsented
<1>5. FreshIsBacked'
  BY <1>1 DEF FreshIsBacked
<1>6. QED BY <1>1, <1>2, <1>3, <1>4, <1>5

LEMMA ProveInv ==
    ASSUME IInv, NEW c \in leaves \cup Invented, NEW q \in Requests,
           NEW path \in PathsOf(c), Prove(c, path, q)
    PROVE  IInv'
<1> USE DEF IInv, rosterVars, chainVars
<1> DEFINE w == WitnessOf(c, path)
           s == AttestStatement(FoldMerklePath(WitnessCommitment(w), path),
                                q.threshold, q.context, q.key)
           j == JournalOf(w, s)
<1>1. c \in Commitments
  BY AdmissionAssumption DEF ChainInv, ChainTypeOK
<1>2. path \in Roots
  BY DEF PathsOf, Roots, ChainInv, ChainTypeOK
<1>3. /\ j \in Journals
      /\ j.nullifier.key = j.presenter_pubkey
      /\ j.nullifier.context = j.context_id
      /\ c \in j.merkle_root
      /\ c.account = j.nullifier.account
      /\ c.balance >= j.threshold
  BY <1>1, <1>2, ProvedJournal, ChainAssumption DEF Prove
<1>4. /\ receipts' = receipts \cup {[journal |-> j, seal |-> j]}
      /\ UNCHANGED <<account, leaves, spent, rootHistory, signed, members,
                     used_nullifiers, admitted, fresh>>
  BY DEF Prove, ReceiptOf
<1> HIDE DEF j
<1>5. ChainInv'
  BY <1>4 DEF ChainInv, ChainTypeOK, LiveIsCurrent, CurrentIsLive,
              NonceFrontier, HistoryIsPast
<1>6. TypeOK'
  BY <1>3, <1>4, <1>5 DEF TypeOK, ChainInv, Receipts
<1>7. ReceiptsGenuine'
  BY <1>3, <1>4 DEF ReceiptsGenuine
<1>8. AdmittedGenuine' /\ NothingBurned' /\ JoinsOnce'
  BY <1>4 DEF AdmittedGenuine, NothingBurned, JoinsOnce
<1>9. MembersConsented' /\ FreshIsBacked'
  BY <1>4 DEF MembersConsented, FreshIsBacked
<1>10. QED BY <1>5, <1>6, <1>7, <1>8, <1>9

LEMMA SignInv ==
    ASSUME IInv, NEW key \in Keys, NEW nonce \in Nonces,
           NEW r \in receipts \cup Altered, Sign(key, nonce, r.journal)
    PROVE  IInv'
<1> USE DEF IInv, rosterVars, chainVars
<1> DEFINE s == [key |-> key, digest |-> ChallengeDigest(nonce, r.journal)]
<1>1. r.journal \in Journals
  BY AdmissionAssumption DEF TypeOK, Receipts
<1>2. s \in Signatures
  BY <1>1 DEF Signatures, Digests, Journals, ChallengeDigest,
              PresenterChallengeDigest
<1>3. /\ signed' = signed \cup {s}
      /\ UNCHANGED <<account, leaves, spent, rootHistory, receipts, members,
                     used_nullifiers, admitted, fresh>>
  BY DEF Sign
<1> HIDE DEF s
<1>4. ChainInv'
  BY <1>3 DEF ChainInv, ChainTypeOK, LiveIsCurrent, CurrentIsLive,
              NonceFrontier, HistoryIsPast
<1>5. TypeOK'
  BY <1>2, <1>3, <1>4 DEF TypeOK, ChainInv
<1>6. ReceiptsGenuine' /\ AdmittedGenuine' /\ NothingBurned' /\ JoinsOnce'
  BY <1>3 DEF ReceiptsGenuine, AdmittedGenuine, NothingBurned, JoinsOnce
<1>7. MembersConsented'
  BY <1>3 DEF MembersConsented
<1>8. FreshIsBacked'
  BY <1>3 DEF FreshIsBacked
<1>9. QED BY <1>4, <1>5, <1>6, <1>7, <1>8

LEMMA AdmitInv ==
    ASSUME IInv, NEW receipt \in receipts \cup Altered, NEW nonce \in Nonces,
           NEW signature \in signed, Admit(receipt, nonce, signature)
    PROVE  IInv'
<1> USE DEF IInv, rosterVars, chainVars
<1> DEFINE j == receipt.journal
<1>1. /\ receipt.seal = j
      /\ j.context_id = group
      /\ j.threshold >= minimum_stake
      /\ signature.key = j.presenter_pubkey
      /\ signature.digest = ChallengeDigest(nonce, j)
  BY DEF Admit, VerifyCredential, VerifyReceipt, VerifyPresenterSignature
<1>2. receipt \in receipts
  BY <1>1, AdmissionAssumption
<1>3. /\ j \in Journals
      /\ j.nullifier.key = j.presenter_pubkey
  BY <1>2 DEF TypeOK, Receipts, ReceiptsGenuine
<1>4. /\ signature.digest.nullifier = j.nullifier
      /\ signature.digest.context_id = j.context_id
      /\ signature.digest.threshold = j.threshold
  BY <1>1 DEF ChallengeDigest, PresenterChallengeDigest
<1>5. /\ j.nullifier \notin used_nullifiers
      /\ used_nullifiers' = used_nullifiers \cup {j.nullifier}
      /\ members' = members \cup {j.presenter_pubkey}
      /\ admitted' = admitted \cup {j}
      /\ UNCHANGED <<account, leaves, spent, rootHistory, receipts, signed,
                     fresh>>
  BY DEF Admit
<1> HIDE DEF j
<1>6. ChainInv'
  BY <1>5 DEF ChainInv, ChainTypeOK, LiveIsCurrent, CurrentIsLive,
              NonceFrontier, HistoryIsPast
<1>7. TypeOK'
  BY <1>3, <1>5, <1>6 DEF TypeOK, ChainInv, Journals
<1>8. ReceiptsGenuine' /\ FreshIsBacked'
  BY <1>5 DEF ReceiptsGenuine, FreshIsBacked
<1>9. AdmittedGenuine'
  BY <1>1, <1>2, <1>5 DEF AdmittedGenuine, j
<1>10. NothingBurned' /\ JoinsOnce'
  <2>1. /\ j.nullifier = [key |-> j.nullifier.key, context |-> group,
                          account |-> j.nullifier.account]
        /\ \A i \in admitted :
              i.nullifier = [key |-> i.nullifier.key, context |-> group,
                             account |-> i.nullifier.account]
    BY <1>1, <1>2, <1>3 DEF ReceiptsGenuine, AdmittedGenuine, TypeOK, Receipts,
       Journals, Nullifiers, j
  <2>2. NothingBurned'
    BY <1>5 DEF NothingBurned
  <2>3. ASSUME NEW i \in admitted, i.nullifier.key = j.nullifier.key,
               i.nullifier.account = j.nullifier.account
        PROVE  FALSE
    <3>1. i.nullifier = j.nullifier
      BY <2>1, <2>3
    <3>2. QED BY <3>1, <1>5 DEF NothingBurned
  <2>4. JoinsOnce'
    BY <2>3, <1>5 DEF JoinsOnce
  <2>5. QED BY <2>2, <2>4
<1>11. MembersConsented'
  BY <1>1, <1>3, <1>4, <1>5 DEF MembersConsented
<1>12. QED BY <1>6, <1>7, <1>8, <1>9, <1>10, <1>11

\* An admitted journal whose root is the chain's names a state of the chain.
LEMMA FreshInv ==
    ASSUME IInv, NEW j \in admitted,
           NEW known_commitment \in leaves \cup Invented,
           CheckRootFreshness(j, known_commitment)
    PROVE  IInv'
<1> USE DEF IInv, rosterVars, chainVars
<1>1. /\ fresh' = fresh \cup {j}
      /\ UNCHANGED <<account, leaves, spent, rootHistory, receipts, signed,
                     members, used_nullifiers, admitted>>
  BY DEF CheckRootFreshness
<1>2. j.merkle_root = leaves
  BY DEF CheckRootFreshness, IsRootCurrent, FoldMerklePath
<1>3. PICK c \in j.merkle_root :
         c.account = j.nullifier.account /\ c.balance >= j.threshold
  BY DEF AdmittedGenuine, ReceiptsGenuine
<1>4. c.balance >= minimum_stake
  <2>1. c \in Commitments
    BY <1>2 DEF ChainInv, ChainTypeOK
  <2>2. c.balance \in Nat /\ j.threshold \in Nat /\ minimum_stake \in Nat
    BY <2>1, ChainAssumption, AdmissionAssumption
       DEF Commitments, TypeOK, Journals, Thresholds
  <2>3. QED BY <2>2, <1>3 DEF AdmittedGenuine
<1>5. ChainInv'
  BY <1>1 DEF ChainInv, ChainTypeOK, LiveIsCurrent, CurrentIsLive,
              NonceFrontier, HistoryIsPast
<1>6. TypeOK'
  BY <1>1, <1>5 DEF TypeOK, ChainInv
<1>7. ReceiptsGenuine' /\ AdmittedGenuine' /\ NothingBurned' /\ JoinsOnce'
  BY <1>1 DEF ReceiptsGenuine, AdmittedGenuine, NothingBurned, JoinsOnce
<1>8. MembersConsented'
  BY <1>1 DEF MembersConsented
<1>9. FreshIsBacked'
  BY <1>1, <1>2, <1>3, <1>4 DEF FreshIsBacked
<1>10. QED BY <1>5, <1>6, <1>7, <1>8, <1>9

LEMMA NextInv == IInv /\ [Next]_vars => IInv'
<1> SUFFICES ASSUME IInv, [Next]_vars PROVE IInv'
  OBVIOUS
<1>1. CASE ChainNext /\ UNCHANGED <<receipts, signed, rosterVars, fresh>>
  BY <1>1, ChainStepInv
<1>2. CASE \E c \in leaves \cup Invented, q \in Requests :
              \E path \in PathsOf(c) : Prove(c, path, q)
  BY <1>2, ProveInv
<1>3. CASE \E key \in Keys, nonce \in Nonces, r \in receipts \cup Altered :
              Sign(key, nonce, r.journal)
  BY <1>3, SignInv
<1>4. CASE \E receipt \in receipts \cup Altered, nonce \in Nonces,
              signature \in signed : Admit(receipt, nonce, signature)
  BY <1>4, AdmitInv
<1>5. CASE \E j \in admitted, known_commitment \in leaves \cup Invented :
              CheckRootFreshness(j, known_commitment)
  BY <1>5, FreshInv
<1>6. CASE UNCHANGED vars
  BY <1>6 DEF vars, IInv, TypeOK, ChainInv, ChainTypeOK, LiveIsCurrent,
              CurrentIsLive, NonceFrontier, HistoryIsPast, ReceiptsGenuine,
              AdmittedGenuine, NothingBurned, JoinsOnce, MembersConsented,
              FreshIsBacked
<1>7. QED BY <1>1, <1>2, <1>3, <1>4, <1>5, <1>6 DEF Next

-----------------------------------------------------------------------------
\* The roster's invariant holds in every state the operator can reach, however
\* the network repeats, reorders or alters what candidates published.
THEOREM Invariance == Spec => []IInv
<1>1. QED BY InitInv, NextInv, PTL DEF Spec

\* GroupRoster::admit returns before it writes: a refused request burns no
\* nullifier.
THEOREM Unburned == Spec => []NothingBurned
<1>1. IInv => NothingBurned
  BY DEF IInv
<1>2. QED BY <1>1, Invariance, PTL

\* One key joins one group over one account once, at whatever threshold and root
\* it proves.
THEOREM Once == Spec => []JoinsOnce
<1>1. IInv => JoinsOnce
  BY DEF IInv
<1>2. QED BY <1>1, Invariance, PTL

\* Nobody is a member whose key's holder did not sign for this group at its
\* floor or above.
THEOREM Consented == Spec => []MembersConsented
<1>1. IInv => MembersConsented
  BY DEF IInv
<1>2. QED BY <1>1, Invariance, PTL

\* check_root_freshness turns an attestation over a tree of the candidate's
\* choice into one over a state the chain recorded.
THEOREM Backed == Spec => []FreshIsBacked
<1>1. IInv => FreshIsBacked
  BY DEF IInv
<1>2. QED BY <1>1, Invariance, PTL
=============================================================================
