---------------------------- MODULE MC_TxEngine ----------------------------
(* TxEngine instantiated for TLC: three requests from one sender address,  *)
(* enough for one holder, one waiter and a third request that can take a   *)
(* lease freed under the second.                                           *)
EXTENDS TxEngine, TLC

CONSTANTS r1, r2, r3, a1, A1

MCReq == {r1, r2, r3}
MCAddr == {a1}
MCReqFrom == [r \in MCReq |-> a1]
MCAccountOf == [a \in MCAddr |-> a]

\* No caller passes options.nonce.
MCNoExplicit == {}

\* An explicit options.nonce of 0, which sendTransaction treats as absent.
MCZeroNonce == {0}

\* Explicit nonces ahead of the network: a caller leaving a gap and then
\* filling it.
MCNoncesAhead == {1, 2}

\* Two spellings of one account (a1 and its checksummed form A1), as the
\* sender of different requests.
MCSpellAddr == {a1, A1}
MCSpellAccountOf == [a \in MCSpellAddr |-> a1]
MCSpellReqFrom == r1 :> a1 @@ r2 :> A1 @@ r3 :> a1
=============================================================================
