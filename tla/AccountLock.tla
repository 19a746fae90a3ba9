---------------------------- MODULE AccountLock ----------------------------
(***************************************************************************)
(* What the account lock of ethereum.js (globalLock / globalUnlock) is     *)
(* meant to provide, stated abstractly: per sender address, a requester    *)
(* waits, then either enters its critical section holding the address or   *)
(* gives up; the holder alone gives the address back when it leaves.       *)
(***************************************************************************)
CONSTANTS Req,      \* requests (callers of sendTransaction & co.)
          Addr,     \* sender addresses
          ReqFrom,  \* ReqFrom[r]: the sender address of request r
          NoLease   \* sentinel: nobody holds the address

VARIABLES holder,   \* holder[a]: the request holding address a, or NoLease
          phase     \* phase[r] \in {"out", "waiting", "cs", "finished"}

TypeOK ==
  /\ holder \in [Addr -> Req \cup {NoLease}]
  /\ phase \in [Req -> {"out", "waiting", "cs", "finished"}]

Init ==
  /\ holder = [a \in Addr |-> NoLease]
  /\ phase = [r \in Req |-> "out"]

Request(r) ==
  /\ phase[r] = "out"
  /\ phase' = [phase EXCEPT ![r] = "waiting"]
  /\ UNCHANGED holder

Acquire(r) ==
  /\ phase[r] = "waiting"
  /\ holder[ReqFrom[r]] = NoLease
  /\ holder' = [holder EXCEPT ![ReqFrom[r]] = r]
  /\ phase' = [phase EXCEPT ![r] = "cs"]

GiveUp(r) ==
  /\ phase[r] = "waiting"
  /\ phase' = [phase EXCEPT ![r] = "finished"]
  /\ UNCHANGED holder

Release(r) ==
  /\ phase[r] = "cs"
  /\ holder[ReqFrom[r]] = r
  /\ holder' = [holder EXCEPT ![ReqFrom[r]] = NoLease]
  /\ phase' = [phase EXCEPT ![r] = "finished"]

Next == \E r \in Req : Request(r) \/ Acquire(r) \/ GiveUp(r) \/ Release(r)

Spec == Init /\ [][Next]_<<holder, phase>>

=============================================================================
