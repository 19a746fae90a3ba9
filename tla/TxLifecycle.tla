----------------------------- MODULE TxLifecycle -----------------------------
(***************************************************************************)
(* The life of a submitted transaction after internalSendTransaction is    *)
(* called, in src/scripts/functions.js: the outcome of the signing path,   *)
(* processSubmitted/Declined/ErrorTransaction and the caller's callbacks   *)
(* they evaluate, the confirmation watch processSubmittedTransaction sets  *)
(* up with _confirmTransaction and its transactionConfirmed and            *)
(* transactionRejected handlers, createContract's wrapping of the          *)
(* confirmed callback (which registers the deployed contract), and what    *)
(* the caller's sendTransaction / sendEther / createContract call returns  *)
(* or throws.                                                              *)
(*                                                                         *)
(* The shared lock and nonce cache are TxEngine's; here each request only  *)
(* records its own effect on them (held, cached). The watcher itself is    *)
(* _confirmTransaction, outside this repository: it is modelled from spec  *)
(* section 4.6 as a notifier that answers a watch once, confirmed or       *)
(* rejected (a rejection includes the confirmationTimeout). The UI's      *)
(* 'approved' with an empty response, which ends a request with no         *)
(* callback at all, is TxEngine's UIApprovedEmpty; here 'approved' always  *)
(* carries the response.                                                   *)
(***************************************************************************)
EXTENDS Sequences, FiniteSets, Functions

CONSTANTS Req,                \* requests: one sendTransaction/sendEther/createContract call each
          Kinds,              \* "send" (sendTransaction, sendEther), "create" (createContract)
          CbChoices,          \* the sets of callbacks a caller may pass in options
          CreateAlias,        \* CreateAlias[r]: alias argument of createContract for r
          NoAlias,            \* alias omitted
          DeployAddr,         \* DeployAddr[r]: receipt.contractAddress of r's deployment
          CallbacksMayThrow,  \* the caller's callback code may throw
          LostReplies,        \* a broadcast may be accepted yet reported failed
          MalformedLogs       \* _decodeLogsInReceipt may throw on a receipt

Callbacks == {"submitted", "confirmed", "error"}

ASSUME /\ Kinds \subseteq {"send", "create"}
       /\ CbChoices \subseteq SUBSET Callbacks
       /\ NoAlias \notin Range(DeployAddr)
       /\ {CallbacksMayThrow, LostReplies, MalformedLogs} \subseteq BOOLEAN

Names == (Range(CreateAlias) \ {NoAlias}) \cup Range(DeployAddr)

VARIABLES pc,         \* pc[r]: where request r's transaction is
          kind,       \* kind[r]: entry point r called
          method,     \* method[r]: signMethod
          cbs,        \* cbs[r]: the callbacks in r's options
          call,       \* call[r]: the entry point call: "running", "returned", "threw"
          held,       \* held[r]: r has not yet called globalUnlock
          cached,     \* cached[r]: the nonce cache holds r's nonce
          accepted,   \* accepted[r]: the network accepted r's transaction
          fired,      \* fired[r]: the caller's callbacks evaluated for r, in order
          contracts,  \* aliases registered with _registerContract
          outcome     \* outcome[r]: the spec section 4.5 state r's steps reached

vars == <<pc, kind, method, cbs, call, held, cached, accepted, fired, contracts, outcome>>

PCs == {"idle", "dispatch", "awaitUI", "watching", "done"}

TypeOK ==
  /\ pc \in [Req -> PCs]
  /\ kind \in [Req -> Kinds \cup {"none"}]
  /\ method \in [Req -> {"metamask", "managed", "none"}]
  /\ cbs \in [Req -> SUBSET Callbacks]
  /\ call \in [Req -> {"idle", "running", "returned", "threw"}]
  /\ held \in [Req -> BOOLEAN]
  /\ cached \in [Req -> BOOLEAN]
  /\ accepted \in [Req -> BOOLEAN]
  /\ fired \in [Req -> Seq(Callbacks)]
  /\ contracts \subseteq Names
  /\ outcome \in [Req -> {"idle", "dispatched", "submitted", "confirmed",
                          "declined", "errored"}]

-----------------------------------------------------------------------------
(* Helpers *)

\* r's step reaches state st of spec section 4.5 (history for TxOutcome).
Reach(r, st) == outcome' = [outcome EXCEPT ![r] = st]

\* `if (msg.options.confirmed)`: createContract always sets options.confirmed.
Watched(r) == "confirmed" \in cbs[r] \/ kind[r] = "create"

\* sys.utils.script.eval('var callback = ' + msg.options.<cb> + ...): the
\* caller's callback runs if given; where the code evaluates it without an
\* `if (msg.options.<cb>)` guard, an absent one is a TypeError and no
\* callback of the caller runs.
Eval(r, cb) ==
  IF cb \in cbs[r] THEN fired' = [fired EXCEPT ![r] = Append(@, cb)]
                   ELSE UNCHANGED fired

\* Whether evaluating callback cb of r can throw.
MayThrow(r, cb) == IF CallbacksMayThrow /\ cb \in cbs[r] THEN BOOLEAN ELSE {FALSE}

\* Whether transactionConfirmed's
\* app.endpoints[msg.endpointName]._decodeLogsInReceipt(receipt), called
\* before the confirmed callback is evaluated, throws.
DecodeThrows == IF MalformedLogs THEN BOOLEAN ELSE {FALSE}

\* The entry point's call, when the managed path runs inside it: it returns,
\* or the exception reaches its catch (globalUnlock; throw e).
EndCall(r, throws) ==
  call' = [call EXCEPT ![r] = IF method[r] = "managed"
                                 THEN IF throws THEN "threw" ELSE "returned"
                                 ELSE @]

\* (mutant) processSubmittedTransaction without the eval of the submitted
\* callback.
ProcessSubmittedNoEval(r) ==
  /\ cached' = [cached EXCEPT ![r] = TRUE]
  /\ held' = [held EXCEPT ![r] = FALSE]
  /\ UNCHANGED fired
  /\ Reach(r, "submitted")
  /\ \E throws \in MayThrow(r, "submitted") :
       /\ pc' = [pc EXCEPT ![r] = IF ~throws /\ Watched(r) THEN "watching" ELSE "done"]
       /\ EndCall(r, throws)

\* processSubmittedTransaction: cache the nonce, globalUnlock, evaluate the
\* submitted callback, then, if options.confirmed, _confirmTransaction.
ProcessSubmitted(r) ==
  /\ cached' = [cached EXCEPT ![r] = TRUE]
  /\ held' = [held EXCEPT ![r] = FALSE]
  /\ Eval(r, "submitted")
  /\ Reach(r, "submitted")
  /\ \E throws \in MayThrow(r, "submitted") :
       /\ pc' = [pc EXCEPT ![r] = IF ~throws /\ Watched(r) THEN "watching" ELSE "done"]
       /\ EndCall(r, throws)

\* processErrorTransaction: globalUnlock, then the error callback if given.
ProcessError(r) ==
  /\ held' = [held EXCEPT ![r] = FALSE]
  /\ Eval(r, "error")
  /\ Reach(r, "errored")
  /\ pc' = [pc EXCEPT ![r] = "done"]
  /\ \E throws \in MayThrow(r, "error") : EndCall(r, throws)
  /\ UNCHANGED cached

\* (mutant) the wrapper registering contractInfo.alias even when omitted.
RegisteredNameNoFallback(r) == CreateAlias[r]

\* The name createContract's confirmed wrapper registers:
\* contractInfo.alias ? contractInfo.alias : receipt.contractAddress
RegisteredName(r) == IF CreateAlias[r] # NoAlias THEN CreateAlias[r] ELSE DeployAddr[r]

-----------------------------------------------------------------------------
(* Actions *)

Init ==
  /\ pc = [r \in Req |-> "idle"]
  /\ kind = [r \in Req |-> "none"]
  /\ method = [r \in Req |-> "none"]
  /\ cbs = [r \in Req |-> {}]
  /\ call = [r \in Req |-> "idle"]
  /\ held = [r \in Req |-> FALSE]
  /\ cached = [r \in Req |-> FALSE]
  /\ accepted = [r \in Req |-> FALSE]
  /\ fired = [r \in Req |-> <<>>]
  /\ contracts \in SUBSET (Range(CreateAlias) \ {NoAlias})
  /\ outcome = [r \in Req |-> "idle"]

\* sendTransaction / sendEther (with globalLock taken and the nonce set, as
\* in TxEngine): options are assembled and internalSendTransaction called.
SendTransaction(r) ==
  /\ pc[r] = "idle"
  /\ "send" \in Kinds
  /\ \E m \in {"metamask", "managed"}, c \in CbChoices :
       /\ method' = [method EXCEPT ![r] = m]
       /\ cbs' = [cbs EXCEPT ![r] = c]
  /\ kind' = [kind EXCEPT ![r] = "send"]
  /\ held' = [held EXCEPT ![r] = TRUE]
  /\ call' = [call EXCEPT ![r] = "running"]
  /\ pc' = [pc EXCEPT ![r] = "dispatch"]
  /\ Reach(r, "dispatched")
  /\ UNCHANGED <<cached, accepted, fired, contracts>>

\* createContract: 'There is another contract with alias' if getContract
\* finds the alias (the catch unlocks and rethrows); otherwise
\* options.confirmed becomes the registering wrapper and the deployment is
\* handed to internalSendTransaction.
CreateContract(r) ==
  /\ pc[r] = "idle"
  /\ "create" \in Kinds
  /\ \E m \in {"metamask", "managed"}, c \in CbChoices :
       /\ method' = [method EXCEPT ![r] = m]
       /\ cbs' = [cbs EXCEPT ![r] = c]
  /\ kind' = [kind EXCEPT ![r] = "create"]
  /\ IF CreateAlias[r] # NoAlias /\ CreateAlias[r] \in contracts
       THEN /\ call' = [call EXCEPT ![r] = "threw"]
            /\ pc' = [pc EXCEPT ![r] = "done"]
            /\ Reach(r, "errored")
            /\ UNCHANGED held
       ELSE /\ call' = [call EXCEPT ![r] = "running"]
            /\ pc' = [pc EXCEPT ![r] = "dispatch"]
            /\ Reach(r, "dispatched")
            /\ held' = [held EXCEPT ![r] = TRUE]
  /\ UNCHANGED <<cached, accepted, fired, contracts>>

\* internalSendTransaction, case 'metamask': no plugin throws (the entry
\* point's catch unlocks and rethrows); otherwise the raw transaction is
\* sent to the UI and the entry point returns with the lock held.
DispatchMetamask(r) ==
  /\ pc[r] = "dispatch"
  /\ method[r] = "metamask"
  /\ \/ /\ held' = [held EXCEPT ![r] = FALSE]
        /\ call' = [call EXCEPT ![r] = "threw"]
        /\ pc' = [pc EXCEPT ![r] = "done"]
        /\ Reach(r, "errored")
     \/ /\ call' = [call EXCEPT ![r] = "returned"]
        /\ pc' = [pc EXCEPT ![r] = "awaitUI"]
        /\ UNCHANGED <<held, outcome>>
  /\ UNCHANGED <<kind, method, cbs, cached, accepted, fired, contracts>>

\* (mutant) a catch of the managed path without its `return`: after
\* processErrorTransaction it falls through to processSubmittedTransaction.
ManagedFailNoReturn(r) ==
  /\ pc[r] = "dispatch"
  /\ method[r] = "managed"
  /\ held' = [held EXCEPT ![r] = FALSE]
  /\ cached' = [cached EXCEPT ![r] = TRUE]
  /\ fired' = [fired EXCEPT ![r] =
                 @ \o SelectSeq(<<"error", "submitted">>, LAMBDA cb : cb \in cbs[r])]
  /\ pc' = [pc EXCEPT ![r] = IF Watched(r) THEN "watching" ELSE "done"]
  /\ call' = [call EXCEPT ![r] = "returned"]
  /\ Reach(r, "submitted")
  /\ UNCHANGED <<kind, method, cbs, accepted, contracts>>

\* case 'managed': estimateGas, gasPrice, _signTransaction or
\* sendRawTransaction throws; each catch calls processErrorTransaction and
\* returns.
ManagedFail(r) ==
  /\ pc[r] = "dispatch"
  /\ method[r] = "managed"
  /\ ProcessError(r)
  /\ UNCHANGED <<kind, method, cbs, accepted, contracts>>

\* sendRawTransaction returns: processSubmittedTransaction.
ManagedAccepted(r) ==
  /\ pc[r] = "dispatch"
  /\ method[r] = "managed"
  /\ accepted' = [accepted EXCEPT ![r] = TRUE]
  /\ ProcessSubmitted(r)
  /\ UNCHANGED <<kind, method, cbs, contracts>>

\* sendRawTransaction throws although the node took the transaction.
ManagedReplyLost(r) ==
  /\ LostReplies
  /\ pc[r] = "dispatch"
  /\ method[r] = "managed"
  /\ accepted' = [accepted EXCEPT ![r] = TRUE]
  /\ ProcessError(r)
  /\ UNCHANGED <<kind, method, cbs, contracts>>

\* The UI's 'approved' callback with a response (MetaMask broadcast it).
UIApproved(r) ==
  /\ pc[r] = "awaitUI"
  /\ accepted' = [accepted EXCEPT ![r] = TRUE]
  /\ ProcessSubmitted(r)
  /\ UNCHANGED <<kind, method, cbs, contracts>>

\* 'declined': processDeclinedTransaction removes the nonce cache entry,
\* unlocks and evaluates the error callback (code txDeclined) if given.
UIDeclined(r) ==
  /\ pc[r] = "awaitUI"
  /\ cached' = [cached EXCEPT ![r] = FALSE]
  /\ held' = [held EXCEPT ![r] = FALSE]
  /\ Eval(r, "error")
  /\ Reach(r, "declined")
  /\ pc' = [pc EXCEPT ![r] = "done"]
  /\ UNCHANGED <<kind, method, cbs, call, accepted, contracts>>

\* 'error': processErrorTransaction; with lost replies MetaMask may have
\* broadcast the transaction before failing.
UIError(r) ==
  /\ pc[r] = "awaitUI"
  /\ \/ UNCHANGED accepted
     \/ /\ LostReplies
        /\ accepted' = [accepted EXCEPT ![r] = TRUE]
  /\ ProcessError(r)
  /\ UNCHANGED <<kind, method, cbs, contracts>>

\* (mutant) createContract's wrapper registering without calling the
\* caller's original confirmed callback.
TransactionConfirmedNoForward(r) ==
  /\ pc[r] = "watching"
  /\ IF kind[r] = "send"
       THEN /\ Eval(r, "confirmed")
            /\ UNCHANGED contracts
       ELSE IF RegisteredName(r) \in contracts
              THEN UNCHANGED contracts
              ELSE contracts' = contracts \cup {RegisteredName(r)}
  /\ kind[r] = "create" => UNCHANGED fired
  /\ Reach(r, "confirmed")
  /\ pc' = [pc EXCEPT ![r] = "done"]
  /\ UNCHANGED <<kind, method, cbs, call, held, cached, accepted>>

\* Evaluating options.confirmed for a mined transaction. For
\* createContract that is the wrapper: _registerContract (which throws
\* DuplicateAlias if the name is taken, ending the handler), then
\* originalConfirmedCallback.
ConfirmedCallback(r) ==
  IF kind[r] = "send"
    THEN /\ Eval(r, "confirmed")
         /\ Reach(r, "confirmed")
         /\ UNCHANGED contracts
    ELSE IF RegisteredName(r) \in contracts
           THEN UNCHANGED <<contracts, fired, outcome>>
           ELSE /\ contracts' = contracts \cup {RegisteredName(r)}
                /\ Eval(r, "confirmed")
                /\ Reach(r, "confirmed")

\* The watcher reports the transaction mined: transactionConfirmed decodes
\* the receipt's logs, which may throw and end the handler, and evaluates
\* options.confirmed.
TransactionConfirmed(r) ==
  /\ pc[r] = "watching"
  /\ \E thrown \in DecodeThrows :
       IF thrown THEN UNCHANGED <<contracts, fired, outcome>>
                 ELSE ConfirmedCallback(r)
  /\ pc' = [pc EXCEPT ![r] = "done"]
  /\ UNCHANGED <<kind, method, cbs, call, held, cached, accepted>>

\* The watcher reports the transaction rejected or not confirmed in time:
\* transactionRejected evaluates options.error (no guard).
TransactionRejected(r) ==
  /\ pc[r] = "watching"
  /\ Eval(r, "error")
  /\ Reach(r, "errored")
  /\ pc' = [pc EXCEPT ![r] = "done"]
  /\ UNCHANGED <<kind, method, cbs, call, held, cached, accepted, contracts>>

\* Every request has reached the end of its life.
Finished ==
  /\ \A r \in Req : pc[r] = "done"
  /\ UNCHANGED vars

Step(r) ==
  \/ SendTransaction(r) \/ CreateContract(r) \/ DispatchMetamask(r)
  \/ ManagedFail(r) \/ ManagedAccepted(r) \/ ManagedReplyLost(r)
  \/ UIApproved(r) \/ UIDeclined(r) \/ UIError(r)
  \/ TransactionConfirmed(r) \/ TransactionRejected(r)

Next == (\E r \in Req : Step(r)) \/ Finished

Spec == Init /\ [][Next]_vars

\* Each request keeps being processed: the UI answers a transaction it was
\* handed, and the watcher answers a watch (at the latest when its
\* confirmationTimeout runs out).
FairSpec == Spec /\ \A r \in Req : WF_vars(Step(r))

-----------------------------------------------------------------------------
(* Properties *)

Terminal == {"confirmed", "error"}

\* r's caller has been told the outcome by a terminal callback.
Told(r) == \E i \in DOMAIN fired[r] : fired[r][i] \in Terminal

\* r's caller passed both terminal callbacks.
Asked(r) == Terminal \subseteq cbs[r]

\* Spec section 4.5: confirmed, declined and errored are terminal. Across
\* internalSendTransaction's catch blocks, processSubmittedTransaction and
\* the watcher's handlers, no callback of a request runs twice and none
\* runs after a confirmed or error callback.
CallbacksInOrder ==
  \A r \in Req :
    /\ IsInjective(fired[r])
    /\ \A i \in DOMAIN fired[r] : fired[r][i] \in Terminal => i = Len(fired[r])

\* r's life is over and, if its caller passed confirmed and error
\* callbacks, one of them ran, unless the call threw before anything was
\* broadcast (spec section 7: no failure is silently swallowed).
Answered(r) ==
  /\ pc[r] = "done"
  /\ Asked(r) => Told(r) \/ (call[r] = "threw" /\ ~accepted[r])

\* Every transaction eventually reaches its caller's confirmed or error
\* callback, or fails synchronously without having been sent: the
\* submitted callback, the watch set up after it, createContract's
\* registering wrapper and the watcher's handlers never leave a sent
\* transaction without a terminal callback.
EveryCallAnswered == \A r \in Req : <>[]Answered(r)

\* The lifecycle as the abstract TxOutcome: the spec section 4.5 state each
\* step reaches, the callbacks the caller passed and those that ran.
Outcome == INSTANCE TxOutcome WITH status <- outcome

\* The code implements spec section 4.5 as the caller sees it: a request
\* is submitted only from dispatch, declined only before submission, and
\* confirmed only after it; every such step runs exactly the callback of
\* that transition if the caller passed it (submitted on submission,
\* confirmed on confirmation, error on decline or failure), and no
\* callback runs on any other step.
OutcomeRefinement == Outcome!Spec

====
