---------------------------- MODULE MC_TxLifecycle ----------------------------
(* TxLifecycle instantiated for TLC: two requests, each free to call       *)
(* sendTransaction or createContract, either sign method and any set of    *)
(* callbacks; one deployment names an alias (which may already be taken), *)
(* the other leaves it to the contract address.                            *)
EXTENDS TxLifecycle, TLC

CONSTANTS q1, q2, al1, d1, d2

MCReq == {q1, q2}
MCKinds == {"send", "create"}
MCCbChoices == SUBSET Callbacks
\* Distinct names: no two deployments compete for one alias.
MCCreateAlias == (q1 :> al1) @@ (q2 :> NoAlias)
\* Both deployments ask for the same alias.
MCSameAlias == (q1 :> al1) @@ (q2 :> al1)
MCDeployAddr == (q1 :> d1) @@ (q2 :> d2)
===============================================================================
