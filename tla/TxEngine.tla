------------------------------ MODULE TxEngine ------------------------------
(***************************************************************************)
(* The transaction-submission engine of src/scripts/functions.js (the     *)
(* endpoint variant; ethereum.js holds the same engine for the service,   *)
(* whose helper wiring fails before dispatch, see RpcGateway):             *)
(* sendTransaction / sendEther / createContract, the account lock          *)
(* (globalLock / globalUnlock over sys.storage), the nonce cache           *)
(* (getNonce, processSubmittedTransaction, processDeclinedTransaction),    *)
(* the two signing paths of internalSendTransaction (the 'metamask' UI     *)
(* message and the 'managed' estimate/sign/broadcast sequence) and the     *)
(* callbacks fired by processSubmitted/Declined/ErrorTransaction.          *)
(*                                                                         *)
(* Each request is one call of sendTransaction on some engine instance;    *)
(* instances share sys.storage (lease and nonce cache) and the network.    *)
(* The network is abstracted to the set of nonces it accepted per sender   *)
(* account. sys.storage is keyed by the fromAddress string as the caller   *)
(* spelled it; the network by the account the spelling denotes.           *)
(***************************************************************************)
EXTENDS Integers, FiniteSets, Functions

CONSTANTS Req,                \* requests, one sendTransaction call each
          Addr,               \* sender addresses
          ReqFrom,            \* ReqFrom[r]: fromAddress of request r
          AccountOf,          \* AccountOf[a]: the account spelling a denotes
          CallerNonces,       \* the options.nonce values a caller may pass
          NoLease,            \* sentinel: no lease stored for an address
          LockTimeout,        \* globalLock's timeout in ms (default 5000 * 60)
          CallbacksMayThrow,  \* the caller's submitted/error callback may throw
          LostReplies,        \* a broadcast may be accepted yet reported failed
          EmptyApprove,       \* the UI may call 'approved' with an empty response
          LeaseExpiry         \* the lock key's ten-minute ttl may run out

ASSUME /\ ReqFrom \in [Req -> Addr]
       /\ AccountOf \in [Addr -> Addr]
       /\ CallerNonces \subseteq Nat
       /\ NoLease \notin Req
       /\ LockTimeout \in Nat
       /\ {CallbacksMayThrow, LostReplies, EmptyApprove, LeaseExpiry}
            \subseteq BOOLEAN

\* sys.utils.script.wait(100) / timeSpent += 100 in globalLock
PollInterval == 100

NoNonce == -1

\* The accounts the network knows, each named by one of its spellings.
Accounts == Range(AccountOf)

\* The account of request r's sender.
Acct(r) == AccountOf[ReqFrom[r]]

VARIABLES pc,          \* pc[r]: where request r is in the engine
          spent,       \* spent[r]: globalLock's timeSpent for r
          method,      \* method[r]: the signMethod r was called with
          given,       \* given[r]: options.nonce as the caller passed it
          nonce,       \* nonce[r]: options.nonce assigned to r
          lease,       \* lease[a]: lock key a in sys.storage (ghost: who put it)
          nonceCache,  \* nonceCache[a]: "ethereum-endpoint-<a>-nonce" in sys.storage
          sent         \* sent[a]: nonces of a the network has accepted

vars == <<pc, spent, method, given, nonce, lease, nonceCache, sent>>

PCs == {"idle", "locking", "locked", "dispatch", "awaitUI",
        "submittedCb", "errorCb", "catchUnlock", "done"}

SignMethods == {"metamask", "managed"}

TypeOK ==
  /\ pc \in [Req -> PCs]
  /\ spent \in [Req -> 0..(LockTimeout + PollInterval)]
  /\ method \in [Req -> SignMethods \cup {"none"}]
  /\ given \in [Req -> CallerNonces \cup {NoNonce}]
  /\ nonce \in [Req -> Nat \cup {NoNonce}]
  /\ lease \in [Addr -> Req \cup {NoLease}]
  /\ nonceCache \in [Addr -> Nat \cup {NoNonce}]
  /\ sent \in [Accounts -> SUBSET Nat]

-----------------------------------------------------------------------------
(* Helpers *)

\* Between globalLock returning and the first globalUnlock of the request.
InCS(r) == pc[r] \in {"locked", "dispatch", "awaitUI"}

\* eth_getTransactionCount(address, 'pending'): the first nonce the
\* network has not accepted yet from the account address a spells.
PendingCount(a) ==
  LET used == sent[AccountOf[a]]
  IN  CHOOSE n \in 0..Cardinality(used) :
        n \notin used /\ \A m \in 0..(n - 1) : m \in used

\* (mutant) getNonce returning the cached nonce itself.
GetNonceNoIncrement(a) ==
  IF nonceCache[a] # NoNonce THEN nonceCache[a] ELSE PendingCount(a)

\* getNonce: the cached last nonce plus one, else the pending count.
GetNonce(a) ==
  IF nonceCache[a] # NoNonce THEN nonceCache[a] + 1 ELSE PendingCount(a)

\* globalUnlock: sys.storage.remove(key), whoever put the key.
Unlock(a) == lease' = [lease EXCEPT ![a] = NoLease]

\* (mutant) the nonce cache written one ahead of the nonce just used.
ProcessSubmittedCachesNext(r) ==
  /\ nonceCache' = [nonceCache EXCEPT ![ReqFrom[r]] = nonce[r] + 1]
  /\ Unlock(ReqFrom[r])
  /\ pc' = [pc EXCEPT ![r] = "submittedCb"]

\* processSubmittedTransaction up to the callbacks: cache the nonce for
\* two minutes, then release the lock.
ProcessSubmitted(r) ==
  /\ nonceCache' = [nonceCache EXCEPT ![ReqFrom[r]] = nonce[r]]
  /\ Unlock(ReqFrom[r])
  /\ pc' = [pc EXCEPT ![r] = "submittedCb"]

\* processErrorTransaction up to the callback: release the lock only.
ProcessError(r) ==
  /\ Unlock(ReqFrom[r])
  /\ pc' = [pc EXCEPT ![r] = "errorCb"]
  /\ UNCHANGED nonceCache

\* The network accepts nonce n from the account address a spells.
Accept(a, n) == sent' = [sent EXCEPT ![AccountOf[a]] = @ \cup {n}]

\* `if (!options.nonce) options.nonce = getNonce(fromAddress)`: a nonce the
\* caller passed is used as it is, except 0, which is falsy.
OptionsNonce(r) ==
  IF given[r] \in {NoNonce, 0} THEN GetNonce(ReqFrom[r]) ELSE given[r]

-----------------------------------------------------------------------------
(* Actions *)

Init ==
  /\ pc = [r \in Req |-> "idle"]
  /\ spent = [r \in Req |-> 0]
  /\ method = [r \in Req |-> "none"]
  /\ given = [r \in Req |-> NoNonce]
  /\ nonce = [r \in Req |-> NoNonce]
  /\ lease = [a \in Addr |-> NoLease]
  /\ nonceCache = [a \in Addr |-> NoNonce]
  /\ sent = [a \in Accounts |-> {}]

\* A caller invokes sendTransaction(..., fromAddress, signMethod, options),
\* with or without options.nonce; globalLock(fromAddress) starts with
\* timeSpent = 0.
Start(r) ==
  /\ pc[r] = "idle"
  /\ \E m \in SignMethods : method' = [method EXCEPT ![r] = m]
  /\ \E g \in CallerNonces \cup {NoNonce} : given' = [given EXCEPT ![r] = g]
  /\ pc' = [pc EXCEPT ![r] = "locking"]
  /\ UNCHANGED <<spent, nonce, lease, nonceCache, sent>>

\* globalLock: sys.storage.putIfAbsent(key, key) succeeds.
LockAcquire(r) ==
  /\ pc[r] = "locking"
  /\ lease[ReqFrom[r]] = NoLease
  /\ lease' = [lease EXCEPT ![ReqFrom[r]] = r]
  /\ pc' = [pc EXCEPT ![r] = "locked"]
  /\ UNCHANGED <<spent, method, given, nonce, nonceCache, sent>>

\* (mutant) the poll loop without timeSpent += 100.
LockWaitNoProgress(r) ==
  /\ pc[r] = "locking"
  /\ lease[ReqFrom[r]] # NoLease
  /\ spent[r] < LockTimeout
  /\ UNCHANGED vars

\* (mutant) the poll loop without its timeSpent < timeout bound.
LockWaitUnbounded(r) ==
  /\ pc[r] = "locking"
  /\ lease[ReqFrom[r]] # NoLease
  /\ spent' = [spent EXCEPT ![r] = @ + PollInterval]
  /\ UNCHANGED <<pc, method, given, nonce, lease, nonceCache, sent>>

\* globalLock: putIfAbsent fails while timeSpent < timeout: wait(100).
LockWait(r) ==
  /\ pc[r] = "locking"
  /\ lease[ReqFrom[r]] # NoLease
  /\ spent[r] < LockTimeout
  /\ spent' = [spent EXCEPT ![r] = @ + PollInterval]
  /\ UNCHANGED <<pc, method, given, nonce, lease, nonceCache, sent>>

\* (mutant) globalLock returning normally after the timeout.
LockExitNoThrow(r) ==
  /\ pc[r] = "locking"
  /\ lease[ReqFrom[r]] # NoLease
  /\ spent[r] >= LockTimeout
  /\ pc' = [pc EXCEPT ![r] = "locked"]
  /\ UNCHANGED <<spent, method, given, nonce, lease, nonceCache, sent>>

\* globalLock: putIfAbsent fails and timeSpent >= timeout ends the loop;
\* it throws only if timeSpent > timeout, otherwise it returns normally.
\* The throw is outside sendTransaction's try: no unlock.
LockExit(r) ==
  /\ pc[r] = "locking"
  /\ lease[ReqFrom[r]] # NoLease
  /\ spent[r] >= LockTimeout
  /\ pc' = [pc EXCEPT ![r] = IF spent[r] > LockTimeout THEN "done" ELSE "locked"]
  /\ UNCHANGED <<spent, method, given, nonce, lease, nonceCache, sent>>

\* (mutant) a catch block that rethrows without globalUnlock.
PrepareFailKeepsLock(r) ==
  /\ pc[r] = "locked"
  /\ pc' = [pc EXCEPT ![r] = "done"]
  /\ UNCHANGED <<spent, method, given, nonce, lease, nonceCache, sent>>

\* sendTransaction's body up to internalSendTransaction: a validation,
\* getNonce or net.version failure is caught, unlocks and rethrows;
\* otherwise options.nonce is set (OptionsNonce).
PrepareFail(r) ==
  /\ pc[r] = "locked"
  /\ Unlock(ReqFrom[r])
  /\ pc' = [pc EXCEPT ![r] = "done"]
  /\ UNCHANGED <<spent, method, given, nonce, nonceCache, sent>>

Prepare(r) ==
  /\ pc[r] = "locked"
  /\ nonce' = [nonce EXCEPT ![r] = OptionsNonce(r)]
  /\ pc' = [pc EXCEPT ![r] = "dispatch"]
  /\ UNCHANGED <<spent, method, given, lease, nonceCache, sent>>

\* internalSendTransaction, case 'metamask': hand rawTx to the UI and
\* return with the lock held; if the package is missing it throws and
\* sendTransaction's catch unlocks.
DispatchMetamask(r) ==
  /\ pc[r] = "dispatch"
  /\ method[r] = "metamask"
  /\ \/ /\ Unlock(ReqFrom[r])
        /\ pc' = [pc EXCEPT ![r] = "done"]
     \/ /\ pc' = [pc EXCEPT ![r] = "awaitUI"]
        /\ UNCHANGED lease
  /\ UNCHANGED <<spent, method, given, nonce, nonceCache, sent>>

\* internalSendTransaction, case 'managed': estimateGas, gasPrice or
\* signTransaction fails before anything is broadcast.
ManagedPreBroadcastFail(r) ==
  /\ pc[r] = "dispatch"
  /\ method[r] = "managed"
  /\ ProcessError(r)
  /\ UNCHANGED <<spent, method, given, nonce, sent>>

\* sendRawTransaction: the network refuses a nonce it already has.
ManagedBroadcastRejected(r) ==
  /\ pc[r] = "dispatch"
  /\ method[r] = "managed"
  /\ nonce[r] \in sent[Acct(r)]
  /\ ProcessError(r)
  /\ UNCHANGED <<spent, method, given, nonce, sent>>

\* sendRawTransaction succeeds: processSubmittedTransaction.
ManagedBroadcastAccepted(r) ==
  /\ pc[r] = "dispatch"
  /\ method[r] = "managed"
  /\ nonce[r] \notin sent[Acct(r)]
  /\ Accept(ReqFrom[r], nonce[r])
  /\ ProcessSubmitted(r)
  /\ UNCHANGED <<spent, method, given, nonce>>

\* sendRawTransaction throws although the node took the transaction
\* (a timed-out or dropped reply): processErrorTransaction.
ManagedBroadcastReplyLost(r) ==
  /\ LostReplies
  /\ pc[r] = "dispatch"
  /\ method[r] = "managed"
  /\ nonce[r] \notin sent[Acct(r)]
  /\ Accept(ReqFrom[r], nonce[r])
  /\ ProcessError(r)
  /\ UNCHANGED <<spent, method, given, nonce>>

\* The UI's 'approved' callback with a response: MetaMask broadcast the
\* transaction; processSubmittedTransaction.
UIApproved(r) ==
  /\ pc[r] = "awaitUI"
  /\ nonce[r] \notin sent[Acct(r)]
  /\ Accept(ReqFrom[r], nonce[r])
  /\ ProcessSubmitted(r)
  /\ UNCHANGED <<spent, method, given, nonce>>

\* 'approved' with an empty response: warn and return, nothing else.
UIApprovedEmpty(r) ==
  /\ EmptyApprove
  /\ pc[r] = "awaitUI"
  /\ nonce[r] \notin sent[Acct(r)]
  /\ Accept(ReqFrom[r], nonce[r])
  /\ pc' = [pc EXCEPT ![r] = "done"]
  /\ UNCHANGED <<spent, method, given, nonce, lease, nonceCache>>

\* (mutant) processDeclinedTransaction without globalUnlock.
UIDeclinedKeepsLock(r) ==
  /\ pc[r] = "awaitUI"
  /\ nonceCache' = [nonceCache EXCEPT ![ReqFrom[r]] = NoNonce]
  /\ pc' = [pc EXCEPT ![r] = "errorCb"]
  /\ UNCHANGED <<spent, method, given, nonce, lease, sent>>

\* 'declined': processDeclinedTransaction removes the nonce cache entry
\* "ethereum-endpoint-<from>-nonce", unlocks and fires the error callback.
UIDeclined(r) ==
  /\ pc[r] = "awaitUI"
  /\ nonceCache' = [nonceCache EXCEPT ![ReqFrom[r]] = NoNonce]
  /\ Unlock(ReqFrom[r])
  /\ pc' = [pc EXCEPT ![r] = "errorCb"]
  /\ UNCHANGED <<spent, method, given, nonce, sent>>

\* 'error': processErrorTransaction; with lost replies MetaMask may have
\* broadcast the transaction before failing.
UIError(r) ==
  /\ pc[r] = "awaitUI"
  /\ \/ UNCHANGED sent
     \/ /\ LostReplies
        /\ nonce[r] \notin sent[Acct(r)]
        /\ Accept(ReqFrom[r], nonce[r])
  /\ ProcessError(r)
  /\ UNCHANGED <<spent, method, given, nonce>>

\* The caller's callback evaluated by sys.utils.script.eval. In the managed
\* path it runs inside sendTransaction's try: a throw reaches the catch.
CallbackThrows(r) ==
  /\ CallbacksMayThrow
  /\ method[r] = "managed"

SubmittedCallback(r) ==
  /\ pc[r] = "submittedCb"
  /\ \/ pc' = [pc EXCEPT ![r] = "done"]
     \/ /\ CallbackThrows(r)
        /\ pc' = [pc EXCEPT ![r] = "catchUnlock"]
  /\ UNCHANGED <<spent, method, given, nonce, lease, nonceCache, sent>>

ErrorCallback(r) ==
  /\ pc[r] = "errorCb"
  /\ \/ pc' = [pc EXCEPT ![r] = "done"]
     \/ /\ CallbackThrows(r)
        /\ pc' = [pc EXCEPT ![r] = "catchUnlock"]
  /\ UNCHANGED <<spent, method, given, nonce, lease, nonceCache, sent>>

\* sendTransaction's catch: globalUnlock(fromAddress); throw e.
CatchUnlock(r) ==
  /\ pc[r] = "catchUnlock"
  /\ Unlock(ReqFrom[r])
  /\ pc' = [pc EXCEPT ![r] = "done"]
  /\ UNCHANGED <<spent, method, given, nonce, nonceCache, sent>>

\* The nonce cache entry's two-minute ttl runs out.
NonceCacheExpires(a) ==
  /\ nonceCache[a] # NoNonce
  /\ nonceCache' = [nonceCache EXCEPT ![a] = NoNonce]
  /\ UNCHANGED <<pc, spent, method, given, nonce, lease, sent>>

\* globalLock's putIfAbsent(key, key, {ttl: 10 * 60 * 1000}): the key
\* vanishes after ten minutes, whether or not its holder is done. Only
\* the MetaMask round trip has no bound; the managed path's RPC calls end
\* long before the ttl, so a holder in "locked" or "dispatch" keeps it.
LeaseExpires(a) ==
  /\ LeaseExpiry
  /\ lease[a] # NoLease
  /\ pc[lease[a]] \notin {"locked", "dispatch"}
  /\ Unlock(a)
  /\ UNCHANGED <<pc, spent, method, given, nonce, nonceCache, sent>>

\* Every request has finished.
Finished ==
  /\ \A r \in Req : pc[r] = "done"
  /\ UNCHANGED vars

Step(r) ==
  \/ Start(r) \/ LockAcquire(r) \/ LockWait(r) \/ LockExit(r)
  \/ PrepareFail(r) \/ Prepare(r) \/ DispatchMetamask(r)
  \/ ManagedPreBroadcastFail(r) \/ ManagedBroadcastRejected(r)
  \/ ManagedBroadcastAccepted(r) \/ ManagedBroadcastReplyLost(r)
  \/ UIApproved(r) \/ UIApprovedEmpty(r) \/ UIDeclined(r) \/ UIError(r)
  \/ SubmittedCallback(r) \/ ErrorCallback(r) \/ CatchUnlock(r)

Next ==
  \/ \E r \in Req : Step(r)
  \/ \E a \in Addr : NonceCacheExpires(a) \/ LeaseExpires(a)
  \/ Finished

Spec == Init /\ [][Next]_vars

\* Every engine instance keeps running its request, and the UI eventually
\* answers a transaction it was handed.
FairSpec == Spec /\ \A r \in Req : WF_vars(Step(r))

-----------------------------------------------------------------------------
(* Properties *)

\* Mutual exclusion of globalLock (spec section 5: submissions for one
\* sender are serialized): two requests from the same account are never
\* both between globalLock returning and their first globalUnlock, so
\* never both reading getNonce and broadcasting at once, however the
\* callers spelled the address.
MutualExclusion ==
  \A r1, r2 \in Req :
    (r1 # r2 /\ Acct(r1) = Acct(r2)) => ~(InCS(r1) /\ InCS(r2))

\* A lock key stored in sys.storage always belongs to a request still in
\* its critical section: every exit path of sendTransaction and of the UI
\* callbacks removes it (nothing waits for the ten-minute ttl).
NoOrphanLease ==
  \A a \in Addr : lease[a] # NoLease => InCS(lease[a])

\* A request whose nonce came from getNonce and that is about to broadcast
\* (managed) or waiting for the UI to broadcast (metamask) holds a nonce
\* the network has not accepted yet: the nonce cache written by
\* processSubmittedTransaction (also with a nonce a caller passed), its
\* expiry and the pending count never hand out a used nonce.
NonceFresh ==
  \A r \in Req :
    (pc[r] \in {"dispatch", "awaitUI"} /\ given[r] \in {NoNonce, 0})
      => nonce[r] \notin sent[Acct(r)]

\* The nonces the network accepted for an address never have a gap, so no
\* transaction sits in the pool forever behind a missing nonce.
NoncesGapless ==
  \A a \in Accounts : \A n \in sent[a] : \A m \in 0..n : m \in sent[a]

\* No request waits forever: each call of sendTransaction returns or fails.
Termination == <>(\A r \in Req : pc[r] = "done")

\* The lock as the abstract AccountLock: the lease is the holder, and a
\* request is waiting in globalLock, inside its critical section, or past it.
LockPhase ==
  [r \in Req |->
     CASE pc[r] = "idle"    -> "out"
       [] pc[r] = "locking" -> "waiting"
       [] InCS(r)           -> "cs"
       [] OTHER             -> "finished"]

Lock == INSTANCE AccountLock WITH holder <- lease, phase <- LockPhase

\* The engine's lock implements AccountLock: only a free address is taken,
\* and only its holder, on leaving, gives it back.
LockRefinement == Lock!Spec

=============================================================================
