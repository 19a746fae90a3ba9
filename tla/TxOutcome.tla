----------------------------- MODULE TxOutcome -----------------------------
(***************************************************************************)
(* The caller-visible part of the transaction state machine of spec       *)
(* section 4.5: a request is dispatched, then submitted, and ends          *)
(* confirmed, declined or errored; each transition runs the caller's      *)
(* callback that belongs to it, if the caller passed one, and nothing     *)
(* follows a terminal state. A synchronous exception from the entry point  *)
(* (section 7) ends a request with no callback. A submitted request may   *)
(* stay submitted: no confirmation was asked for.                          *)
(***************************************************************************)
EXTENDS Sequences

CONSTANTS Req,        \* requests
          CbChoices   \* the sets of callbacks a caller may pass

Callbacks == {"submitted", "confirmed", "error"}

States == {"idle", "dispatched", "submitted", "confirmed", "declined", "errored"}

VARIABLES status,     \* status[r]: r's state in the machine
          cbs,        \* cbs[r]: the callbacks r's caller passed
          fired       \* fired[r]: the callbacks run for r, in order

vars == <<status, cbs, fired>>

TypeOK ==
  /\ status \in [Req -> States]
  /\ cbs \in [Req -> SUBSET Callbacks]
  /\ fired \in [Req -> Seq(Callbacks)]

\* Run callback cb of r if its caller passed it.
Run(r, cb) ==
  fired' = [fired EXCEPT ![r] = IF cb \in cbs[r] THEN Append(@, cb) ELSE @]

\* r moves from one of the states in from to state to, running cb.
Move(r, from, to, cb) ==
  /\ status[r] \in from
  /\ status' = [status EXCEPT ![r] = to]
  /\ Run(r, cb)
  /\ UNCHANGED cbs

Init ==
  /\ status = [r \in Req |-> "idle"]
  /\ cbs = [r \in Req |-> {}]
  /\ fired = [r \in Req |-> <<>>]

\* The caller calls an entry point with callbacks c.
Call(r) ==
  /\ status[r] = "idle"
  /\ \E c \in CbChoices : cbs' = [cbs EXCEPT ![r] = c]
  /\ status' = [status EXCEPT ![r] = "dispatched"]
  /\ UNCHANGED fired

\* The entry point throws to its caller before anything was submitted.
Throw(r) ==
  /\ status[r] \in {"idle", "dispatched"}
  /\ status' = [status EXCEPT ![r] = "errored"]
  /\ IF status[r] = "idle" THEN \E c \in CbChoices : cbs' = [cbs EXCEPT ![r] = c]
                           ELSE UNCHANGED cbs
  /\ UNCHANGED fired

Submit(r)  == Move(r, {"dispatched"}, "submitted", "submitted")
Confirm(r) == Move(r, {"submitted"}, "confirmed", "confirmed")
Decline(r) == Move(r, {"dispatched"}, "declined", "error")
Fail(r)    == Move(r, {"dispatched", "submitted"}, "errored", "error")

Next ==
  \E r \in Req :
    Call(r) \/ Throw(r) \/ Submit(r) \/ Confirm(r) \/ Decline(r) \/ Fail(r)

Spec == Init /\ [][Next]_vars

=============================================================================
