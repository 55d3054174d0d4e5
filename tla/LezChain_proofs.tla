--------------------------- MODULE LezChain_proofs ---------------------------
(***************************************************************************)
(* Proofs about the chain: whatever moves accounts from their current      *)
(* states to the next ones keeps exactly one live commitment per account.  *)
(***************************************************************************)
EXTENDS LezChain, FiniteSetTheorems, TLAPS

-----------------------------------------------------------------------------
\* A settled transaction moves each of its accounts from a current state to the
\* next one, and no other account.
Moves(olds, news) ==
    /\ olds \subseteq leaves
    /\ news \subseteq Commitments
    /\ \A o \in olds : account[o.account] = o
    /\ \A c \in news : \E o \in olds :
          o.account = c.account /\ c.nonce = o.nonce + 1
    /\ \A o \in olds : \E c \in news : c.account = o.account
    /\ \A c, d \in news : c.account = d.account => c = d

\* After Settle the current state of an account is its new commitment, if it has
\* one, and what it was otherwise.
LEMMA SettleAccount ==
    ASSUME ChainInv, NEW olds, NEW news, Moves(olds, news), Settle(olds, news)
    PROVE  /\ account' \in [Accounts -> Commitments]
           /\ \A c \in news : account'[c.account] = c
           /\ \A a \in Accounts :
                 (\A c \in news : c.account # a) => account'[a] = account[a]
<1>1. \A c \in news : c \in Commitments /\ c.account \in Accounts
  BY DEF Moves, Commitments
<1>2. \A a \in Accounts : account'[a] =
          IF \E c \in news : c.account = a
          THEN CHOOSE c \in news : c.account = a
          ELSE account[a]
  BY DEF Settle
<1>3. ASSUME NEW c \in news
      PROVE  account'[c.account] = c
  BY <1>1, <1>2 DEF Moves
<1>4. ASSUME NEW a \in Accounts, \A c \in news : c.account # a
      PROVE  account'[a] = account[a]
  BY <1>2, <1>4
<1>5. ASSUME NEW a \in Accounts
      PROVE  account'[a] \in Commitments
  <2>1. CASE \E c \in news : c.account = a
    BY <2>1, <1>1, <1>3
  <2>2. CASE \A c \in news : c.account # a
    BY <2>2, <1>4 DEF ChainInv, ChainTypeOK
  <2>3. QED BY <2>1, <2>2
<1>6. account' \in [Accounts -> Commitments]
  BY <1>5 DEF Settle
<1>7. QED BY <1>3, <1>4, <1>6

\* Settling moves keeps one live commitment per account, its current state.
LEMMA SettleChain ==
    ASSUME ChainInv, NEW olds, NEW news, Moves(olds, news), Settle(olds, news)
    PROVE  ChainInv'
<1> USE DEF ChainInv
<1>1. /\ account' \in [Accounts -> Commitments]
      /\ \A c \in news : account'[c.account] = c
      /\ \A a \in Accounts :
            (\A c \in news : c.account # a) => account'[a] = account[a]
  BY SettleAccount
<1>2. /\ spent' = spent \cup olds
      /\ leaves' = leaves \cup news
      /\ rootHistory' = rootHistory \cup {leaves'}
  BY DEF Settle
<1>3. ChainTypeOK'
  BY <1>1, <1>2 DEF ChainTypeOK, Moves, Roots
<1>4. \A c \in leaves' : c.account \in Accounts /\ c.nonce \in Nat
  BY <1>2 DEF ChainTypeOK, Moves, Commitments
<1>5. \A c \in news : \E o \in olds :
         /\ o.account = c.account
         /\ c.nonce = o.nonce + 1
         /\ account[c.account] = o
  BY DEF Moves
<1>6. \A c \in news : c \notin leaves
  <2>1. ASSUME NEW c \in news, c \in leaves
        PROVE  FALSE
    <3>1. c.nonce = account[c.account].nonce + 1
      BY <2>1, <1>5
    <3>2. c.nonce <= account[c.account].nonce
      BY <2>1 DEF NonceFrontier
    <3>3. account[c.account].nonce \in Nat /\ c.nonce \in Nat
      BY <2>1, <1>4 DEF ChainTypeOK, Commitments
    <3>4. QED BY <3>1, <3>2, <3>3
  <2>2. QED BY <2>1
<1>7. LiveIsCurrent'
  <2>1. ASSUME NEW c \in leaves'
        PROVE  c \notin spent' <=> account'[c.account] = c
    <3>1. CASE c \in news
      <4>1. c \notin spent /\ c \notin olds
        BY <3>1, <1>6 DEF Moves, HistoryIsPast
      <4>2. QED BY <3>1, <4>1, <1>1, <1>2
    <3>2. CASE c \notin news /\ \E d \in news : d.account = c.account
      <4>1. PICK d \in news : d.account = c.account
        BY <3>2
      <4>2. account'[c.account] = d /\ d # c
        BY <4>1, <3>2, <1>1
      <4>3. PICK o \in olds : o.account = d.account /\ account[d.account] = o
        BY <1>5
      <4>4. c \in leaves
        BY <1>2, <3>2
      <4>5. c \in spent'
        BY <4>1, <4>3, <4>4, <1>2 DEF LiveIsCurrent
      <4>6. QED BY <4>2, <4>5
    <3>3. CASE \A d \in news : d.account # c.account
      <4>1. c \in leaves /\ c \notin olds
        BY <3>3, <1>2 DEF Moves
      <4>2. account'[c.account] = account[c.account]
        BY <3>3, <1>1, <1>4
      <4>3. QED BY <4>1, <4>2, <1>2 DEF LiveIsCurrent
    <3>4. QED BY <3>1, <3>2, <3>3
  <2>2. QED BY <2>1 DEF LiveIsCurrent
<1>8. CurrentIsLive'
  <2>1. ASSUME NEW a \in Accounts
        PROVE  account'[a].account = a /\ account'[a] \in leaves'
    <3>1. CASE \E c \in news : c.account = a
      BY <3>1, <1>1, <1>2
    <3>2. CASE \A c \in news : c.account # a
      BY <3>2, <1>1, <1>2 DEF CurrentIsLive
    <3>3. QED BY <3>1, <3>2
  <2>2. QED BY <2>1 DEF CurrentIsLive
<1>9. NonceFrontier'
  <2>1. ASSUME NEW c \in leaves'
        PROVE  c.nonce <= account'[c.account].nonce
    <3>1. CASE c \in news
      BY <3>1, <1>1, <1>4
    <3>2. CASE c \notin news /\ \E d \in news : d.account = c.account
      <4>1. PICK d \in news : d.account = c.account
        BY <3>2
      <4>2. account'[c.account] = d
        BY <4>1, <1>1
      <4>3. d.nonce = account[c.account].nonce + 1
        BY <4>1, <1>5
      <4>4. c.nonce <= account[c.account].nonce
        BY <3>2, <1>2 DEF NonceFrontier
      <4>5. c.nonce \in Nat /\ account[c.account].nonce \in Nat
        BY <1>4 DEF ChainTypeOK, Commitments
      <4>6. QED BY <4>2, <4>3, <4>4, <4>5
    <3>3. CASE \A d \in news : d.account # c.account
      BY <3>3, <1>1, <1>2, <1>4 DEF NonceFrontier
    <3>4. QED BY <3>1, <3>2, <3>3
  <2>2. QED BY <2>1 DEF NonceFrontier
<1>10. HistoryIsPast'
  BY <1>2 DEF HistoryIsPast, Moves
<1>11. QED BY <1>3, <1>7, <1>8, <1>9, <1>10

\* Moving a commitment on keeps its account and its owner.
LEMMA MovedCommitment ==
    ASSUME NEW c \in Commitments, NEW b \in 0 .. MaxBalance,
           c.nonce < MaxNonce
    PROVE  /\ Moved(c, b) \in Commitments
           /\ Moved(c, b).account = c.account
           /\ Moved(c, b).owner = c.owner
           /\ Moved(c, b).balance = b
           /\ Moved(c, b).nonce = c.nonce + 1
<1>1. Moved(c, b) = [account |-> c.account, owner |-> c.owner,
                     balance |-> b, nonce |-> c.nonce + 1]
  BY DEF Moved, ComputeCommitment
<1>2. c.nonce + 1 \in 0 .. MaxNonce
  BY ChainAssumption DEF Commitments
<1>3. QED BY <1>1, <1>2 DEF Commitments

\* A private transfer moves its two accounts.
LEMMA TransferChain ==
    ASSUME ChainInv, NEW from \in Accounts, NEW to \in Accounts,
           NEW amount \in 1 .. MaxBalance, Transfer(from, to, amount)
    PROVE  ChainInv'
<1> DEFINE f == account[from]
           t == account[to]
<1>1. PICK olds, news :
         /\ olds = {f, t}
         /\ news = {Moved(f, f.balance - amount), Moved(t, t.balance + amount)}
         /\ Settle(olds, news)
  BY DEF Transfer
<1>2. /\ f \in Commitments /\ f.account = from /\ f \in leaves
      /\ t \in Commitments /\ t.account = to /\ t \in leaves
  BY DEF ChainInv, ChainTypeOK, CurrentIsLive
<1>3. /\ from # to
      /\ amount <= f.balance
      /\ t.balance + amount <= MaxBalance
      /\ f.nonce < MaxNonce
      /\ t.nonce < MaxNonce
  BY DEF Transfer
<1>4. /\ Moved(f, f.balance - amount) \in Commitments
      /\ Moved(f, f.balance - amount).account = from
      /\ Moved(f, f.balance - amount).nonce = f.nonce + 1
  <2>1. f.balance - amount \in 0 .. MaxBalance
    BY <1>2, <1>3, ChainAssumption DEF Commitments
  <2>2. QED BY <1>2, <1>3, <2>1, MovedCommitment
<1>5. /\ Moved(t, t.balance + amount) \in Commitments
      /\ Moved(t, t.balance + amount).account = to
      /\ Moved(t, t.balance + amount).nonce = t.nonce + 1
  <2>1. t.balance + amount \in 0 .. MaxBalance
    BY <1>2, <1>3, ChainAssumption DEF Commitments
  <2>2. QED BY <1>2, <1>3, <2>1, MovedCommitment
<1>6. Moves(olds, news)
  <2>1. olds \subseteq leaves /\ news \subseteq Commitments
    BY <1>1, <1>2, <1>4, <1>5
  <2>2. \A o \in olds : account[o.account] = o
    BY <1>1, <1>2
  <2>3. \A c \in news : \E o \in olds :
           o.account = c.account /\ c.nonce = o.nonce + 1
    BY <1>1, <1>2, <1>4, <1>5
  <2>4. \A o \in olds : \E c \in news : c.account = o.account
    BY <1>1, <1>2, <1>4, <1>5
  <2>5. \A c, d \in news : c.account = d.account => c = d
    BY <1>1, <1>3, <1>4, <1>5
  <2>6. QED BY <2>1, <2>2, <2>3, <2>4, <2>5 DEF Moves
<1>7. QED BY <1>1, <1>6, SettleChain

\* Genesis satisfies the chain's invariant.
LEMMA ChainInitInv == ChainInit => ChainInv
<1> SUFFICES ASSUME ChainInit PROVE ChainInv
  OBVIOUS
<1> USE DEF ChainInit
<1>1. \A a \in Accounts : Genesis[a] \in Commitments /\ Genesis[a].account = a
  BY ChainAssumption
<1>2. ChainTypeOK
  BY <1>1, ChainAssumption DEF ChainTypeOK, Roots
<1>3. LiveIsCurrent /\ CurrentIsLive
  BY <1>1 DEF LiveIsCurrent, CurrentIsLive
<1>4. NonceFrontier
  BY <1>1, ChainAssumption DEF NonceFrontier, Commitments
<1>5. HistoryIsPast
  BY DEF HistoryIsPast
<1>6. QED BY <1>2, <1>3, <1>4, <1>5 DEF ChainInv

\* What the chain does by itself keeps its invariant and forgets no commitment.
LEMMA ChainNextInv ==
    ASSUME ChainInv, ChainNext
    PROVE  ChainInv' /\ leaves \subseteq leaves'
<1>1. PICK from \in Accounts, to \in Accounts, amount \in 1 .. MaxBalance :
         Transfer(from, to, amount)
  BY DEF ChainNext
<1>2. ChainInv'
  BY <1>1, TransferChain
<1>3. leaves \subseteq leaves'
  BY <1>1 DEF Transfer, Settle
<1>4. QED BY <1>2, <1>3
=============================================================================
