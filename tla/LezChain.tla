------------------------------ MODULE LezChain ------------------------------
(***************************************************************************)
(* The Logos Execution Zone as the gate relies on it.  LEZ is not part of  *)
(* the repository: this module states what crates/sequencer-client,        *)
(* docs/recon.md and the deep gate's own comments assume of it.  A private *)
(* account lives in the append-only commitment set as one commitment per   *)
(* state it ever had; a transaction that touches it nullifies the old      *)
(* commitment and inserts the new one, and is valid against any root the   *)
(* set has ever had.                                                       *)
(***************************************************************************)
EXTENDS AttestationCore, FiniteSets

CONSTANTS
    Npks,            \* viewing keys, one per wallet
    Identifiers,     \* account identifiers under a viewing key
    Programs,        \* programs an account can be owned by
    NativeProgram,   \* authenticated_transfer, the pinned token program
    MaxBalance,      \* balances are 0..MaxBalance
    MaxNonce,        \* bound on the states one account goes through
    Genesis          \* the initial state of every private account

Accounts == {DeriveAccountId(n, i) : n \in Npks, i \in Identifiers}

Commitments ==
    [account: Accounts, owner: Programs, balance: 0 .. MaxBalance,
     nonce: 0 .. MaxNonce]

Roots == SUBSET Commitments

ASSUME ChainAssumption ==
    /\ MaxBalance \in Nat
    /\ MaxNonce \in Nat
    /\ NativeProgram \in Programs
    /\ Genesis \in [Accounts -> Commitments]
    /\ \A a \in Accounts : Genesis[a].account = a

VARIABLES
    account,       \* the current state of every private account
    leaves,        \* every commitment ever inserted
    spent,         \* every commitment ever nullified
    rootHistory    \* every root the commitment set has had

chainVars == <<account, leaves, spent, rootHistory>>

ChainTypeOK ==
    /\ account \in [Accounts -> Commitments]
    /\ leaves \subseteq Commitments
    /\ spent \subseteq Commitments
    /\ rootHistory \subseteq Roots

ChainInit ==
    /\ account = Genesis
    /\ leaves = {Genesis[a] : a \in Accounts}
    /\ spent = {}
    /\ rootHistory = {leaves}

\* What a settled transaction does to the private state: the commitments in
\* olds are nullified, those in news are inserted and become current.
Settle(olds, news) ==
    /\ spent' = spent \cup olds
    /\ leaves' = leaves \cup news
    /\ rootHistory' = rootHistory \cup {leaves'}
    /\ account' = [a \in Accounts |->
                     IF \E c \in news : c.account = a
                     THEN CHOOSE c \in news : c.account = a
                     ELSE account[a]]

\* The state a private account is left in by a transaction that changes only
\* its balance: LEZ always moves the nonce on.
Moved(c, balance) ==
    ComputeCommitment(c.account, c.owner, balance, c.nonce + 1)

\* A private transfer between two accounts of the token program.
Transfer(from, to, amount) ==
    /\ from # to
    /\ account[from].owner = NativeProgram
    /\ account[to].owner = NativeProgram
    /\ amount <= account[from].balance
    /\ account[to].balance + amount <= MaxBalance
    /\ account[from].nonce < MaxNonce
    /\ account[to].nonce < MaxNonce
    /\ Settle({account[from], account[to]},
              {Moved(account[from], account[from].balance - amount),
               Moved(account[to], account[to].balance + amount)})

ChainNext ==
    \E from, to \in Accounts, amount \in 1 .. MaxBalance :
        Transfer(from, to, amount)

-----------------------------------------------------------------------------
\* An account has exactly one commitment that is inserted and not nullified,
\* and it is the account's current state.  Everything the gate infers from an
\* unspent, anchored pre-state rests on this.
LiveIsCurrent ==
    \A c \in leaves : c \notin spent <=> account[c.account] = c

CurrentIsLive ==
    \A a \in Accounts :
        /\ account[a].account = a
        /\ account[a] \in leaves

\* Nonces only grow, so a state an account has left is never entered again.
NonceFrontier ==
    \A c \in leaves : c.nonce <= account[c.account].nonce

\* Nothing is nullified or anchored that was never inserted.
HistoryIsPast ==
    /\ spent \subseteq leaves
    /\ \A r \in rootHistory : r \subseteq leaves

ChainInv ==
    /\ ChainTypeOK
    /\ LiveIsCurrent
    /\ CurrentIsLive
    /\ NonceFrontier
    /\ HistoryIsPast
=============================================================================
