# TLA+ models of ethereum-service

These modules model the transaction-submission engine of this repository, its
contract registry, its JSON-RPC gateway and its address utilities. TLC checks
the properties.

The repository holds the engine twice:
* `src/scripts/ethereum.js` is the "service" variant. It goes with the
  generated `ethereumHelpers.js`.
* `src/scripts/functions.js` is the "endpoint" variant. It goes with the
  generated `ethereum-fn-helpers.js`.

Both helper files are produced by `src/gen/gen-ethereum-helpers.js`. The two
engines are line-for-line the same code apart from how they reach the
helpers. That difference decides which one can run at all (see RpcGateway
below).

## 1. Inventory

### Components, their state and their operations

| Component | Source | State it keeps | Operations |
|---|---|---|---|
| Account lock | `globalLock` / `globalUnlock` (functions.js 749-762) | a `sys.storage` key equal to the sender address, ttl 10 min, shared by every engine instance | a `putIfAbsent` poll loop with a 100 ms step and a default timeout of 5000*60 ms; unlock is `remove(key)`, which never checks who owns the key |
| Nonce sequencer | `getNonce` (764-772), `processSubmittedTransaction` (65), `processDeclinedTransaction` (121) | `ethereum-endpoint-<from>-nonce` in `sys.storage`, ttl 2 min | read the cache and add 1, or fall back to `eth_getTransactionCount(from,'pending')`; write on submit; remove on decline |
| Signing dispatcher | `internalSendTransaction` (144-286) | none of its own | `metamask`: send rawTx to the UI and return while still holding the lock; the UI later calls `approved`, `declined` or `error`. `managed`: estimateGas, gasPrice, sign, sendRawTransaction; each failure goes to `processErrorTransaction` |
| Engine entry points | `sendTransaction`, `sendEther`, `createContract` (431-563) | the options of the call | lock, validate, getNonce, resolve `to`, `net.version`, dispatch; a `catch` that unlocks and rethrows |
| Outcome callbacks | `processSubmitted/Declined/ErrorTransaction` (64-142) | none | update the nonce cache, unlock, `eval` the caller's callback, attach the confirmation watch |
| Confirmation watcher | the watch set up by `processSubmittedTransaction` (73-116) with its `transactionConfirmed` / `transactionRejected` handlers (83-102); `_confirmTransaction` itself is external | lives in the external service | answers once: `transactionConfirmed` evaluates `options.confirmed` (for `createContract`, a wrapper that registers the contract first); `transactionRejected` evaluates `options.error` |
| Contract registry | `registerContract`, `getContract`, `removeContract`, alias helpers (ethereum.js 19-62, 571-628) | alias → {address, abi}, kept in the external service | register (the address is checked, the alias defaults to the address); look up by alias or address; remove. `createContract` registers when its deployment is confirmed |
| JSON-RPC gateway | generated stubs, `getJsonRPC`, `getResultSync/Async`, `post` / `_post`, the generator's table | a static allow-list | build the params and the body, refuse methods that are not on the allow-list, decode the node's answer |
| Stateless utilities | encodeFunction, callFunction (352-387), estimateTransaction (398-416), compileSolidity, isAddress (19-28), toChecksumAddress (676-690), createAccount / importAccount / exportAccount (636-668) | none of their own; the accounts live in the platform | request/response calls and string transforms; callFunction and estimateTransaction read the registry twice (ABI and `to`); the account helpers pass the platform's `res.address` through `toChecksumAddress` |

### How the components interact

Every mutating entry point runs on some engine instance. All instances share
`sys.storage`, which holds the lock keys and the nonce cache. They also share
the Ethereum node.

A request proceeds in this order:
1. It looks the contract's ABI up in the registry.
2. It takes the sender's lock.
3. It reads a nonce.
4. It resolves `to` through the registry a second time.
5. It hands the transaction to a signer.

Every call to the node goes through a generated stub and `post`.

The two signers answer differently:
* The managed signer runs synchronously inside `sendTransaction`'s `try`.
* The MetaMask signer answers later, through a UI callback.

In both paths the callbacks release the lock and then evaluate the caller's
code. If the caller passed a `confirmed` callback, `processSubmittedTransaction`
then asks the external watcher to follow the transaction. `createContract`
always passes one: a wrapper that registers the deployed contract and then
calls the caller's own `confirmed`.

### What is hard here

* **Distributed interleaving.** Many instances poll one lock key, and the
  unlock removes the key whoever holds it. Registry lookups and changes from
  unrelated callers interleave with a request that reads the registry twice.
* **Failure paths.** Every failure must reach exactly one unlock. In the
  managed path, `sendTransaction`'s catch can run a second unlock after the
  callback path already ran one.
* **Timeouts.** There is the lock's own timeout and the ttls of the lease and
  the nonce cache. An RPC reply can also be lost after the node took the
  transaction.
* **Ordering.** The nonce is cached before the lock is released. The lock
  stays held across the asynchronous MetaMask round trip.
  `createContract` checks its alias long before it registers it. The
  confirmation watch is set up only after the caller's `submitted`
  callback has run.
* **Conversions.** Stubs build positional params from their arguments, and
  they decode falsy results.

### What makes each component correct

* **Lock.** Mutual exclusion per address. No lease outlives its holder. The
  lock behaves as the abstract lock `AccountLock`. A waiter always returns.
* **Nonces.** No request is handed a nonce the network already has. The
  accepted nonces never have a gap.
* **Registry.**
  * Lookups by alias and by address agree (spec §8).
  * A call (sendTransaction, callFunction, estimateTransaction) goes to the
    contract whose ABI encoded it.
  * `createContract`'s alias check still holds when the contract is
    registered.
* **Lifecycle.** No callback runs twice, and none runs after `confirmed`
  or `error` (spec §4.5). A caller that passed `confirmed` and `error`
  always hears one of them, unless its call threw before anything was sent
  (spec §7).
* **Addresses.** `toChecksumAddress` passes spec §8's round trip. The
  account helpers hand out one address per account, whatever spelling the
  platform uses.
* **Gateway.**
  * A forbidden method never reaches the node.
  * A generated stub is never refused.
  * Every helper the engine calls exists.
  * Params keep their positions.

## 2. Plan

1. **TxEngine** (done): the lock, the nonce sequencer, both signing paths,
   the outcome callbacks, the catch blocks and lease expiry.
   **AccountLock** (done) is the abstract lock. At the timeout every call
   site passes, TxEngine does not refine it (the `lock_refinement`
   reproducer).
2. **ContractRegistry** (done): register, get and remove; the two registry
   reads of `sendTransaction`, `callFunction` and `estimateTransaction`;
   `sendEther`'s resolution; `createContract`'s check and its registration
   on confirmation.
3. **RpcGateway** (done): the stubs, `post` / `_post` of both variants, and
   the result decoding.
4. **TxLifecycle** (done): from `internalSendTransaction` to the last
   callback. It covers the caller's callbacks, the confirmation watch and
   its handlers, and `createContract`'s registering wrapper, run against the
   registry. It also records what the entry point returns or throws.
5. Done in the second sitting:
   * a caller-supplied `options.nonce` in TxEngine (`CallerNonces`, with 0
     treated as absent) and senders spelled in several ways (`AccountOf`);
   * **TxOutcome**, the abstract lifecycle of spec §4.5, with TxLifecycle
     checked to refine it;
   * a malformed receipt that makes the log decoding throw
     (`MalformedLogs`);
   * the generated stubs of every namespace in RpcGateway;
   * **Utilities**: `isAddress`, `toChecksumAddress` and the account
     helpers.
6. Done in the third sitting:
   * `checkHttpOptions` in RpcGateway: `post` is called with every form
     of its two arguments, and the body `_post` sees is the one
     `checkHttpOptions` builds;
   * `encodeFunction` in ContractRegistry and `compileSolidity` in
     Utilities, so no operation of the stateless helpers is left out.
7. Still to do: an abstract **NonceSequence** spec that TxEngine's network
   state is mapped onto, and a network that accepts a replacement for a
   pending nonce.

## 3. Modules

### AccountLock

The contract of the lock. `holder[a]` is the request holding address `a`.
`phase[r]` is one of out / waiting / cs / finished. The actions are:
* `Request`;
* `Acquire`, only of a free address;
* `GiveUp`;
* `Release`, only by the holder.

### TxEngine (functions.js)

Each request `r` is one call of `sendTransaction`. Its sender is the
constant `ReqFrom[r]`. `pc[r]` follows the code:

| pc | code |
|---|---|
| idle → locking | the call is entered and `globalLock` starts |
| locking | the `putIfAbsent` loop: `LockAcquire`; `LockWait` (timeSpent += 100); `LockExit` (the loop ends, and it throws only if timeSpent > timeout) |
| locked | `Prepare` (getNonce), or `PrepareFail` (a validation, nonce or net.version throw → catch → unlock) |
| dispatch | metamask: `DispatchMetamask` (UI message, or throw → unlock). managed: `ManagedPreBroadcastFail`, `ManagedBroadcastRejected`, `ManagedBroadcastAccepted`, `ManagedBroadcastReplyLost` |
| awaitUI | `UIApproved`, `UIApprovedEmpty`, `UIDeclined` (purges the cache), `UIError` |
| submittedCb / errorCb | the caller's callback; in the managed path a throw goes to `catchUnlock` |
| catchUnlock | `sendTransaction`'s catch: `globalUnlock` again |

Shared state:
* `lease[a]` is the lock key. Its value records who put it, as a ghost; the
  code stores the key itself and removes it without looking.
  `LeaseExpires` is the key's ten-minute ttl. Only a holder waiting on the UI
  or on its callbacks can outlive it; the managed RPC calls end long before
  it.
* `nonceCache[a]` is the nonce cache. `NonceCacheExpires` is its two-minute
  ttl.
* `sent[a]` holds the nonces the node accepted. `PendingCount` is the first
  missing one.

The model follows `functions.js`, because `ethereum.js` never gets past
`net.version` (section 6). The only other difference is the decline: in
`functions.js` it removes the right cache key, while `ethereum.js` removes
`ethereum-service>-<from>-nonce`, which is not the cache key.

Gas, gas price, signatures, hashes and callback bodies are abstracted. Only
whether each step succeeds matters to the properties.

Four constants switch on environment behaviours that the code handles.
Turning them on one at a time separates the failures they cause:
* `CallbacksMayThrow`;
* `LostReplies`;
* `EmptyApprove`;
* `LeaseExpiry`.

TxLifecycle has `CallbacksMayThrow` and `LostReplies` in the same sense.

Two more constants describe the caller:
* `CallerNonces` are the `options.nonce` values a caller may pass
  (`given[r]`). `OptionsNonce` is line 455: a missing nonce, and also an
  explicit 0 since `!options.nonce` is true for it, is replaced by
  `getNonce`. The safe run lets callers pass 0. `NonceFresh` is stated for
  requests whose nonce came from `getNonce`; a nonce the caller chose is
  the caller's responsibility.
* `AccountOf` maps each spelling of a sender to its account. The lock key
  and the nonce cache key are the spelling (`ReqFrom[r]`). The node's
  `sent` nonces and `MutualExclusion` are per account (`Acct(r)`). The
  runs use one spelling per account; the `spelled_sender` reproducer uses
  two.

### ContractRegistry

The callers are processes that each run one operation: `call`
(sendTransaction), `ether`, `register`, `remove` or `create`. `contracts`
is the registry.

The registry lives in the external service, so `SvcGet`, `SvcRegister` and
`SvcRemove` are modelled from spec §4.1: an alias is unique, and a lookup is
by address when the caller says the argument is one.

`GetContract` follows the code's `isAddress` dispatch, and `ResolveTo` is
the `to` expression of the entry points. `sendTransaction` is two steps:
* `CallLookupAbi` is `getFunctionDefFromABI` at line 436;
* `CallResolve` resolves `options.to` at line 458, after getNonce.

`createContract` is three steps:
* `CreateCheck` is the alias check;
* `CreateConfirmed` is the confirmed callback's registration, under the
  receipt's fresh address;
* `CreateFails` is a deployment that is never confirmed.

`callFunction` is `ViewLookupAbi` (line 354) and then `ViewResolve` (line
370). `estimateTransaction` reads the registry in the other order:
`EstimateResolve` (line 400) and then `EstimateLookupAbi` (line 403).
`encodeFunction` is one step, `EncodeFunction` (line 331): it reads the ABI
and throws when the function is missing.

Strings are model values. `AddrNames` are the names that pass `isAddress`.

### TxLifecycle (functions.js)

Each request `r` is one call of `sendTransaction` / `sendEther`
(`SendTransaction`) or `createContract` (`CreateContract`). The call picks
a sign method and the set `cbs[r]` of callbacks the caller passes.
`CreateContract` throws if `getContract` finds the alias. The request then
moves through these stages:

| pc | code |
|---|---|
| dispatch | metamask: `DispatchMetamask` (UI message and return, or throw). managed: `ManagedFail`, `ManagedAccepted`, `ManagedReplyLost` |
| awaitUI | `UIApproved`, `UIDeclined`, `UIError` |
| watching | `TransactionConfirmed`, `TransactionRejected` (the watcher's one answer) |

`ProcessSubmitted` and `ProcessError` are the two handlers as a whole.
`ProcessSubmitted` caches the nonce, unlocks and evaluates `submitted`.
Then, if the `submitted` callback did not throw and `options.confirmed` is
set, it moves the request to `watching`. `fired[r]` is the sequence of the
caller's callbacks that ran. `call[r]` is what the entry point did:
`returned` or `threw`. In the managed path a callback's exception reaches
the entry point's catch. In the MetaMask path the call has already
returned. `contracts` is the set of registered names. Deployments under
distinct names cannot collide, and an alias may already be registered
before the run (`Init`).

The lock and the nonce cache are TxEngine's. Here `held[r]` and `cached[r]`
record only this request's effect on them. The watcher is external. It is
modelled from spec §4.6 as one answer per watch, and a
`confirmationTimeout` is one of its rejections. The empty `approved`
branch is TxEngine's `UIApprovedEmpty`. `MalformedLogs` lets
`_decodeLogsInReceipt` (line 87) throw in `TransactionConfirmed`, before
the `confirmed` callback is evaluated. `outcome[r]` is a history variable:
the state of spec §4.5 that the request has reached, written by the
action that reaches it. Callbacks survive the JSON round
trip of `msg` in the managed path (line 208): `sys.utils.text.stringify`
is assumed to keep a function as its source text, which the code's
`'var callback = ' + fn` eval needs anyway.

### TxOutcome (spec §4.5)

The abstract lifecycle. `status[r]` goes from idle through dispatched and
submitted to confirmed, declined or errored. Each transition runs the
callback that belongs to it if the caller passed it (`cbs[r]`), and records
it in `fired[r]`. `Throw` is an entry point throwing before anything was
submitted: it runs no callback. Nothing leaves a terminal state.
TxLifecycle is checked to implement it: `OutcomeRefinement` instantiates
TxOutcome with `status <- outcome`, over TxLifecycle's own `cbs` and
`fired`.

### Utilities (functions.js)

A string is a sequence of one-character strings. `IsAddress` is the two
regular expressions of `utils.isAddress`. `ToChecksumAddress` lowercases,
replaces the first `0x` (`ReplaceFirstSubSeq`) and upper-cases each
character whose keccak nibble is 8 or more. Keccak is the constant
operator `HashHigh(s, i)`. The MC instance uses a stand-in that depends on
the case of its input, as keccak does.

The state is the platform's account store (`accounts`). It also holds
`handed[b]`, the addresses the helpers returned for account `b`, and `ret`,
the last call's result or exception. The actions are:
* `CreateAccount`, `ImportAccount` and `ExportAccount`, each with its empty
  argument throw. The platform refuses a key it holds and an address it
  does not hold.
* `CheckSumAddress` and `CheckIsAddress`, on any string of `Inputs`.
* `CompileSolidity`, on an empty or non-empty code, a contract name of
  `ContractNames` (`<<>>` is no name) and a compiler output of `Outputs`.
  An output is the sequence of its `file:Name` keys, in the order
  `for (key in res.contracts)` visits them. `EndsWith` is the code's
  `indexOf(suffix, length - suffix.length) !== -1`, with `IndexOfFrom` as
  JavaScript's `indexOf` and its negative start clamped to 0. The result
  is the set of keys returned: all of them without a name, else the first
  match.

The platform (`_createAccount`, `_importAccount`, `_exportAccount`) is
outside the scripts. It may spell `res.address` in any case, with or
without `0x`.

### RpcGateway

One call is followed from its caller to its outcome:
* `CallStub` is an application calling a generated stub.
* `EngineCall` is the engine calling the helpers it uses.
* `CallPost` is `post` with any method of the generator's table and any
  of the argument forms `PostArgs`: an empty url, a path, or an object as
  url; no options, a JSON-RPC object, or options with params or a body.
  `CheckHttpOptions` is `checkHttpOptions` (line 717), and the body it
  builds is what `_post` checks. `asked` records the method the caller
  meant and whether it passed a body.

After the call:
* `PostCheck` is `_post`'s allow-list test.
* `NodeAnswers` decodes a null, error, truthy or falsy reply with
  `getResultSync` or `getResultAsync`.

The details are modelled by what they do:
* The params are `SelectSeq(args, truthy)`, because the stub does
  `if (p) params.push(p)`.
* `IndexOf` is JavaScript's `indexOf`.
* `Defined(ns, name)` says whether the helpers object has that member.

`Stubs`, `ForbiddenRpcs` and `ShouldAllow` are the generated file and the
generator's table. `Stubs` is the union of the web3, net, eth state and
eth chain namespaces of the helper file. The constant `Variant` picks each variant's `_post` and
call sites. `Val` and `Zero` stand for a truthy and a falsy argument.

## 4. Runs

| run | cfg | expect | shows |
|---|---|---|---|
| engine_safe | MC_TxEngine_safe.cfg | pass | At the timeout every call site passes, with non-throwing callbacks, reliable replies, non-empty approvals and no ttl expiry, every lock key in the store belongs to a request still in its critical section (`NoOrphanLease`). Mutual exclusion, fresh nonces and the refinement of `AccountLock` are not checked here: they do not hold at this timeout (`lock_fallthrough`, and the `lock_refinement` reproducer). |
| engine_live | MC_TxEngine_live.cfg | pass | With every failure on and the default-like timeout, every request terminates (`Termination`) and the nonces stay gapless. |
| lock_fallthrough | MC_TxEngine_lock_fallthrough.cfg | violation | `MutualExclusion` fails. A waiter reaches timeSpent == timeout, `globalLock` returns without the lock, and two requests send at once. |
| double_unlock | MC_TxEngine_double_unlock.cfg | violation | `MutualExclusion` fails. r3's callback throws after r3 unlocked; r1 takes the lock; r3's catch removes r1's key; r2 enters beside r1. |
| lost_reply | MC_TxEngine_lost_reply.cfg | violation | `NonceFresh` fails. A broadcast the node took but reported as failed leaves the cache one behind, and the next request is handed the consumed nonce. |
| lease_expiry | MC_TxEngine_lease_expiry.cfg | violation | `MutualExclusion` fails. r1 waits on the UI, the key's ttl runs out, and r2 locks the same address. |
| registry_stable | MC_ContractRegistry_stable.cfg | pass | With every operation, `callFunction` and `estimateTransaction` included, over plain aliases, every registered address is an address, and lookups by alias and by address agree. |
| registry_remove_race | MC_ContractRegistry_remove_race.cfg | violation | `CallReachesItsContract` fails. A remove between the ABI lookup and the `to` resolution sends the encoded call to `null`. |
| rpc_endpoint | MC_RpcGateway_endpoint.cfg | pass | In functions.js every stub and engine call reaches the node, and no forbidden method does. A `post` of an allowed method whose caller passed a body reaches the node, whichever argument form carried it (`PostBodyReachesNode`). |
| lifecycle_live | MC_TxLifecycle_live.cfg | pass | With non-throwing callbacks and lost replies, under `FairSpec`, a request's callbacks run without repeats and none after a terminal one (`CallbacksInOrder`). Every call ends with the caller told of its outcome, or with a throw for a transaction never accepted (`EveryCallAnswered`). TxLifecycle refines the abstract lifecycle TxOutcome (`OutcomeRefinement`). |
| utilities | MC_Utilities.cfg | pass | Over every string of one to three characters, with or without `0x` / `0X`: what `toChecksumAddress` returns survives spec §8's round trip (`RoundTrip`). Whatever spelling the platform returns, create, import and export hand out one address per account, and it is a valid address of that account (`OneAddressPerAccount`). `compileSolidity` with a name returns the first output key that ends with `:name`, and throws when none does (`CompileFindsNamed`). |
| lifecycle_callback_throws | MC_TxLifecycle_callback_throws.cfg | violation | `EveryCallAnswered` fails. A managed `createContract` whose `submitted` callback throws makes the call throw after the node accepted the transaction. The confirmation is then never watched, and the contract is never registered. |

These bounds are enough:
* **TxEngine.** Three requests from one address is the least that shows a
  lease removed from under a second holder and taken by a third.
  `LockTimeout` is 200 ms, so two polls. All three call sites call
  `globalLock(fromAddress)`, so the timeout is always the default
  5000 * 60 ms. That is a multiple of the 100 ms poll, and 200 behaves the
  same way: the loop ends with `timeSpent == timeout`, and the throw at
  line 756 (`>`) never fires. No run uses a timeout that no call site
  can produce.
* **ContractRegistry.** Three callers over one plain alias and three
  addresses. Two can race while a third changes the registry, and there is
  always a fresh address for a deployment.
* **TxLifecycle.** Two requests over both kinds, both sign methods and
  every subset of the three callbacks. Two deployments can share an alias
  (the `alias_race` reproducer), and one alias can be registered before the
  run. Each request is independent apart from the registry, so two are
  enough to show the only interaction.
* **Utilities.** Two-digit addresses over the hex digits 0 and a, and
  the non-hex letter g. There are four accounts, with two to eight
  spellings each.
  The inputs cover too short, too long, non-hex, mixed case and both
  prefixes, so each branch of both regular expressions is taken. What the
  properties say does not depend on the length of an address.
  For `compileSolidity` the names are `a` and `aa`, one a suffix of the
  other, and the files `a` and `f`. Outputs hold up to two distinct keys
  in either order, so a key such as `a:aa` matches both names, and order
  decides which key is first.
* **TxEngine's caller.** The safe run lets a caller pass nonce 0. The live
  run passes no explicit nonce: with 0 as well, the liveness check takes
  longer than five minutes.
* **RpcGateway.** Every argument form of `post`, with every method of
  the table, is enumerated. Every stub, every forbidden method and every argument
  vector over {truthy, falsy} of the stub's arity are enumerated, so that
  run is exhaustive.

Each property of a passing run has a mutant in PROJECT.json, and TLC finds
the property violated under that mutant. Each mutant is a plausible bug in
the mapped code:
* a missing unlock on decline;
* the cache written one ahead;
* the poll without its bound or without its increment;
* `registerContract` without its address check;
* `getContract` ignoring `isAddress`;
* `getResultAsync` without its last `else`;
* `!indexOf` or `<= 0` in `_post`;
* the endpoint calling `eth.net.version`;
* the registering wrapper's `alias || address` without its fallback;
* the managed catch not returning after `processError`;
* the confirmed wrapper registering without calling on;
* `processSubmittedTransaction` not evaluating the `submitted` callback,
  which breaks the refinement of TxOutcome;
* `toChecksumAddress` without its `toLowerCase`, or without its
  `replace('0x', '')`;
* `checkHttpOptions` without its `!!options.body` test;
* `compileSolidity`'s `endsWith` starting its search one character early.

Utilities' `TypeOK` is not part of its run: no plausible bug in these
string functions produces a value of another type that TLC could still
compare.

## 5. Fairness

`FairSpec` gives each request weak fairness on all of its steps. An engine
instance keeps running the JavaScript of its call. The MetaMask UI
eventually calls back: `UIDeclined` and `UIError` are always enabled in
`awaitUI`, so weak fairness on the request's step means the UI answers. This
is an assumption about the user and the UI, not something the code
guarantees.

`LeaseExpires` and `NonceCacheExpires` get no fairness, because nothing
forces a ttl to run out during a run.

TxLifecycle's `FairSpec` is weak fairness on each request's steps. Besides
the UI assumption above, it assumes that the watcher answers a watch. The
code justifies this: `confirmationTimeout` turns an unanswered watch into
`transactionRejected`. Safety runs, and the registry and
gateway runs, use `Spec` with no fairness.

## 6. Findings

Each finding below comes from a run listed above:

* **Lock timeout falls through** (functions.js:756). `globalLock`'s
  `timeSpent > timeout` never throws for the default timeout, so mutual
  exclusion is lost after a 5-minute wait.
* **Double unlock** (functions.js:465). The managed path unlocks twice
  when a caller's callback throws.
* **Lost reply reuses a nonce** (functions.js:135). A lost broadcast reply
  makes the next request reuse a consumed nonce.
* **Lease ttl shorter than the UI wait** (functions.js:752). The ten-minute
  ttl does not cover the unbounded MetaMask wait, and nothing notices when
  it runs out.
* **Registry read twice** (functions.js:458). `sendTransaction` resolves
  its target twice, and a registry change between the two reads misdirects
  the call.
* **A throwing `submitted` callback abandons the transaction**
  (functions.js:70). The callback is evaluated before the watch is set up.
  Its exception skips `_confirmTransaction` and reaches the managed catch,
  so the caller is told of an error for a transaction that was broadcast.

These findings are outside the twelve runs; their cfgs are kept to
reproduce them. Most are a step or two that a test of the affected path
would hit:

* **No recipient for an unknown alias** (functions.js:495).
  `MC_ContractRegistry_ether_null.cfg` shows `EtherHasRecipient` violated:
  `sendEther` to an unregistered alias dispatches with `to = null`.
* **Address-shaped alias** (ethereum.js:581).
  `MC_ContractRegistry_address_alias.cfg` shows `ResolveAgrees` violated:
  `registerContract` accepts an alias that looks like an address, and
  `getContract` then looks it up as an address.
* **Service allow-list path** (ethereum.js:709).
  `MC_RpcGateway_service_forbidden.cfg` shows `StubsReachNode` violated:
  `_post` reads `app.ethereumHelpers.eth.shouldAllow`, but the helpers
  export `shouldAllow` at top level. Every JSON-RPC call of the service is
  therefore refused.
* **Service `net.version` call** (ethereum.js:459).
  `MC_RpcGateway_service_net.cfg` shows `EngineCallsResolve` violated: the
  engine calls `app.ethereumHelpers.eth.net.version`, which does not exist.

* **Empty approval keeps the lock** (functions.js:187).
  `MC_TxEngine_empty_approve.cfg` shows `NoOrphanLease` violated: an
  `approved` message with an empty response returns without unlocking.
* **Falsy arguments shift** (gen/gen-ethereum-helpers.js:118).
  `MC_RpcGateway_falsy_params.cfg` shows `ParamsKeepPositions` violated: a
  falsy argument is dropped and the later ones move up.
* **Alias check too early** (functions.js:550).
  `MC_ContractRegistry_create_race.cfg` shows `CreateRegisters` violated:
  a register between `createContract`'s check and its confirmation makes
  the registration fail, and the contract is left unregistered.
* **An explicit nonce moves the cache back** (functions.js:455, 65).
  `MC_TxEngine_caller_nonce.cfg` shows `NonceFresh` violated. A caller
  passes nonce 2, then another passes 1. `processSubmittedTransaction`
  caches each one, so the next automatic request is handed 2 again.
  A caller that reuses its `options` object does the same: the entry
  points write the nonce into it.
* **Spellings of one sender** (functions.js:432, 765).
  `MC_TxEngine_spelled_sender.cfg` shows `MutualExclusion` violated: the
  lock and the nonce cache are keyed by the string the caller passed, so
  `0xab..` and `0xAB..` lock the same account twice.
* **The engine is not the abstract lock** (functions.js:756).
  `MC_TxEngine_lock_refinement.cfg` shows `LockRefinement` violated. At the
  timeout of every call site, a waiter polls twice and leaves `globalLock`
  without the key while another request holds it. That step enters the
  critical section, and AccountLock has no such step: `Acquire` needs a
  free address.
* **Malformed logs** (functions.js:87). `MC_TxLifecycle_malformed_logs.cfg`
  shows `EveryCallAnswered` violated: `_decodeLogsInReceipt` throws before
  the `confirmed` callback is evaluated, and the caller never hears of its
  confirmed transaction.
* **`post` refuses a JSON-RPC object in options** (functions.js:727).
  `MC_RpcGateway_post_forms.cfg` shows `PostReachesNode` violated:
  `post("", {method, params})` is returned unchanged by
  `checkHttpOptions`, so `_post` finds no body and throws
  `'Forbidden undefined'` for an allowed method. The rpc object has to be
  passed as `{body: rpc}`; the passing run checks every form that does.
* **isAddress accepts any mixed case** (functions.js:23).
  `MC_Utilities_checksum.cfg` shows `IsAddressAsDocumented` violated,
  for example by `0xAa`. Its comment says only all-lowercase or
  all-uppercase passes, and spec §4.1 asks for checksum format. A
  checksummed address with a mistyped digit is taken as an address.
* **Two deployments under one alias** (functions.js:550).
  `MC_TxLifecycle_alias_race.cfg` shows `EveryCallAnswered` violated: the
  second confirmation's `_registerContract` throws inside the watcher
  handler, and that caller's `confirmed` callback never runs.

Together the ethereum.js findings mean the service variant cannot send a transaction,
which is why TxEngine follows `functions.js`.

## 7. Not modelled

* **The encoder and the compiler.** `encodeFunction` and
  `compileSolidity` are modelled up to the platform call. What the encoder
  and the compiler produce is any value (ContractRegistry) or any list of
  keys (Utilities).
* **Keccak.** It is an oracle constant (Utilities), not the hash.
* **The JSON round trip of `msg`** (functions.js:208). It is assumed that
  `sys.utils.text.stringify` keeps functions as source text, as the code's
  eval of callbacks requires (see TxLifecycle).
* **What the log decoding produces** (functions.js:87). Only whether it
  throws is modelled (`MalformedLogs`).
* **The generator's own output loop.** The checked-in helper files are
  modelled as they are. They lack the `personal_*` stubs that the
  generator's table and `shouldAllow` list.
* **Replacement of a pending transaction.** The model's network refuses
  a used nonce. A real node takes a second transaction with the nonce of a
  pending one, and a higher gas price, as its replacement. An explicit or
  reused nonce could therefore silently replace an earlier transaction.
