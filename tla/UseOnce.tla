------------------------------- MODULE UseOnce -------------------------------
(***************************************************************************)
(* What a gate that counts on nullifiers promises its application: within  *)
(* a scope (a proposal, a service) a token is good for one use, a use is   *)
(* counted exactly when a token is spent on it, and both are for good.     *)
(***************************************************************************)
EXTENDS Naturals

CONSTANTS Scopes, Tokens

VARIABLES
    spent,   \* the tokens used in each scope
    uses     \* the uses counted in each scope

useVars == <<spent, uses>>

UseInit ==
    /\ spent = [s \in Scopes |-> {}]
    /\ uses = [s \in Scopes |-> 0]

Use(s, t) ==
    /\ t \notin spent[s]
    /\ spent' = [spent EXCEPT ![s] = @ \cup {t}]
    /\ uses' = [uses EXCEPT ![s] = @ + 1]

UseNext == \E s \in Scopes, t \in Tokens : Use(s, t)

UseSpec == UseInit /\ [][UseNext]_useVars
=============================================================================
