---------------------------- MODULE GateRegistry ----------------------------
(***************************************************************************)
(* What the deep gate promises, without proofs, transactions, roots or     *)
(* nullifiers: a registry of grants.  A grant says that the holder of a    *)
(* key, acting for an account in a context, met a floor.  It is recorded   *)
(* once, and only at a moment when the account, under the token program,   *)
(* holds the floor and the key's holder has approved a threshold no lower. *)
(***************************************************************************)
EXTENDS Naturals

CONSTANTS Accounts, Keys, Contexts, Programs, NativeProgram, MaxBalance

VARIABLES
    holding,     \* the owner and balance of every account, now
    approved,    \* what key holders have approved
    granted      \* the registry

registryVars == <<holding, approved, granted>>

Holdings == [owner: Programs, balance: 0 .. MaxBalance]

Approvals ==
    [key: Keys, account: Accounts, context: Contexts,
     threshold: 0 .. MaxBalance]

Grants ==
    [key: Keys, account: Accounts, context: Contexts, floor: 0 .. MaxBalance]

RegistryInit ==
    /\ holding \in [Accounts -> Holdings]
    /\ approved = {}
    /\ granted = {}

Tokens(balance) == [owner |-> NativeProgram, balance |-> balance]

\* Tokens move only between accounts of the token program.
Move(from, to, amount) ==
    /\ from # to
    /\ holding[from].owner = NativeProgram
    /\ holding[to].owner = NativeProgram
    /\ amount <= holding[from].balance
    /\ holding' = [holding EXCEPT ![from] = Tokens(@.balance - amount),
                                  ![to] = Tokens(@.balance + amount)]
    /\ UNCHANGED <<approved, granted>>

Approve(a) ==
    /\ approved' = approved \cup {a}
    /\ UNCHANGED <<holding, granted>>

Covers(a, g) ==
    /\ a.key = g.key
    /\ a.account = g.account
    /\ a.context = g.context
    /\ a.threshold >= g.floor

Grant(g) ==
    /\ g \notin granted
    /\ holding[g.account].owner = NativeProgram
    /\ holding[g.account].balance >= g.floor
    /\ \E a \in approved : Covers(a, g)
    /\ granted' = granted \cup {g}
    /\ UNCHANGED <<holding, approved>>

RegistryNext ==
    \/ \E from, to \in Accounts, amount \in 1 .. MaxBalance :
          Move(from, to, amount)
    \/ \E a \in Approvals : Approve(a)
    \/ \E g \in Grants : Grant(g)

RegistrySpec == RegistryInit /\ [][RegistryNext]_registryVars
=============================================================================
