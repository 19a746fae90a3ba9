----------------------------- MODULE RpcGateway -----------------------------
(***************************************************************************)
(* The JSON-RPC path of both engine variants: a generated helper stub      *)
(* (ethereumHelpers.js for the service, ethereum-fn-helpers.js for the     *)
(* endpoint, both produced by src/gen/gen-ethereum-helpers.js) builds the  *)
(* params and the JSON-RPC body, calls post, whose _post refuses a method  *)
(* not on the allow-list, and decodes the node's response with             *)
(* getResultSync or getResultAsync. The engine itself calls some stubs     *)
(* (estimateGas, gasPrice, sendRawTransaction, call, transactionCount and  *)
(* net.version); an application may also call post with any body.         *)
(*                                                                         *)
(* One call is followed from the caller to its outcome. Argument values    *)
(* are abstracted to Val (truthy) and Zero (0, false, '' or null).        *)
(***************************************************************************)
EXTENDS Integers, Sequences, SequencesExt

CONSTANTS Variant,  \* "service" (ethereum.js) or "endpoint" (functions.js)
          Val,      \* a truthy argument
          Zero      \* a falsy argument

ASSUME Variant \in {"service", "endpoint"}

ArgVals == {Val, Zero}

\* A helper of the generated file: endpoint.<ns>.<name> = function(<arity
\* params>) posting method rpc, decoded by getResultAsync when async.
Stub(rpc, ns, name, arity, async) ==
  [rpc |-> rpc, ns |-> ns, name |-> name, arity |-> arity, async |-> async]

\* The web3 namespace of the generated helper file.
Web3Stubs == {
  Stub("web3_clientVersion", "web3", "clientVersion", 0, FALSE),
  Stub("web3_sha3", "web3", "sha3", 1, FALSE)}

\* The net namespace.
NetStubs == {
  Stub("net_version", "net", "version", 0, FALSE),
  Stub("net_peerCount", "net", "peerCount", 0, FALSE),
  Stub("net_listening", "net", "listening", 0, FALSE)}

\* The eth stubs about the node and an account's state, up to
\* sendRawTransaction.
EthStateStubs == {
  Stub("eth_protocolVersion", "eth", "protocolVersion", 0, FALSE),
  Stub("eth_syncing", "eth", "syncing", 0, FALSE),
  Stub("eth_gasPrice", "eth", "gasPrice", 0, FALSE),
  Stub("eth_blockNumber", "eth", "blockNumber", 0, FALSE),
  Stub("eth_getBalance", "eth", "getBalance", 2, TRUE),
  Stub("eth_getStorageAt", "eth", "getStorageAt", 3, TRUE),
  Stub("eth_getTransactionCount", "eth", "transactionCount", 2, FALSE),
  Stub("eth_getBlockTransactionCountByHash", "eth", "getBlockTransactionCountByHash", 1, TRUE),
  Stub("eth_getBlockTransactionCountByNumber", "eth", "getBlockTransactionCountByNumber", 1, TRUE),
  Stub("eth_getUncleCountByBlockHash", "eth", "getUncleCountByBlockHash", 1, TRUE),
  Stub("eth_getUncleCountByBlockNumber", "eth", "getUncleCountByBlockNumber", 1, TRUE),
  Stub("eth_getCode", "eth", "getCode", 2, TRUE),
  Stub("eth_sendRawTransaction", "eth", "sendRawTransaction", 1, TRUE)}

\* The eth stubs from call on: calls, estimates, blocks, transactions,
\* receipts, uncles and getWork.
EthChainStubs == {
  Stub("eth_call", "eth", "call", 2, TRUE),
  Stub("eth_estimateGas", "eth", "estimateGas", 1, FALSE),
  Stub("eth_getBlockByHash", "eth", "blockByHash", 2, FALSE),
  Stub("eth_getBlockByNumber", "eth", "blockByNumber", 2, FALSE),
  Stub("eth_getTransactionByHash", "eth", "transactionByHash", 1, FALSE),
  Stub("eth_getTransactionByBlockHashAndIndex", "eth", "transactionByBlockHashAndIndex", 2, FALSE),
  Stub("eth_getTransactionByBlockNumberAndIndex", "eth", "transactionByBlockNumberAndIndex", 2, FALSE),
  Stub("eth_getTransactionReceipt", "eth", "transactionReceipt", 1, FALSE),
  Stub("eth_getUncleByBlockHashAndIndex", "eth", "uncleByBlockHashAndIndex", 2, FALSE),
  Stub("eth_getUncleByBlockNumberAndIndex", "eth", "uncleByBlockNumberAndIndex", 2, FALSE),
  Stub("eth_getWork", "eth", "getWork", 0, TRUE)}

\* The members of the helpers' namespace objects (the db, shh and personal
\* objects stay empty: the personal_* rows of the generator's table have
\* no stub there).
Stubs == Web3Stubs \cup NetStubs \cup EthStateStubs \cup EthChainStubs

\* The rows of the generator's jsonRPC table marked forbidden: no stub and
\* not in shouldAllow.
ForbiddenRpcs == {
  "eth_coinbase", "eth_mining", "eth_hashrate", "eth_accounts", "eth_sign",
  "eth_sendTransaction", "eth_getCompilers", "eth_compileSolidity",
  "eth_compileLLL", "eth_compileSerpent", "eth_newFilter", "eth_newBlockFilter",
  "eth_newPendingTransactionFilter", "eth_uninstallFilter",
  "eth_getFilterChanges", "eth_getFilterLogs", "eth_getLogs", "eth_submitWork",
  "eth_submitHashrate", "db_putString", "db_getString", "db_putHex",
  "db_getHex", "shh_post", "shh_version", "shh_newIdentity", "shh_hasIdentity",
  "shh_newGroup", "shh_addToGroup", "shh_newFilter", "shh_uninstallFilter",
  "shh_getFilterChanges", "shh_getMessages"}

\* shouldAllow, as written at the top of the generated helper file.
ShouldAllow == <<
  "web3_clientVersion", "web3_sha3", "net_version", "net_peerCount",
  "net_listening", "eth_protocolVersion", "eth_syncing", "eth_gasPrice",
  "eth_blockNumber", "eth_getBalance", "eth_getStorageAt",
  "eth_getTransactionCount", "eth_getBlockTransactionCountByHash",
  "eth_getBlockTransactionCountByNumber", "eth_getUncleCountByBlockHash",
  "eth_getUncleCountByBlockNumber", "eth_getCode", "eth_sendRawTransaction",
  "eth_call", "eth_estimateGas", "eth_getBlockByHash", "eth_getBlockByNumber",
  "eth_getTransactionByHash", "eth_getTransactionByBlockHashAndIndex",
  "eth_getTransactionByBlockNumberAndIndex", "eth_getTransactionReceipt",
  "eth_getUncleByBlockHashAndIndex", "eth_getUncleByBlockNumberAndIndex",
  "eth_getWork", "personal_listAccounts", "personal_newAccount",
  "personal_sendTransaction", "personal_unlockAccount">>

\* Array.prototype.indexOf: 0-based position, -1 when absent.
IndexOf(seq, m) == SelectInSeq(seq, LAMBDA x : x = m) - 1

\* Whether the helpers object has member `name` in namespace object `ns`.
Defined(ns, name) == \E s \in Stubs : s.ns = ns /\ s.name = name

NoStub == [rpc |-> "none", ns |-> "none", name |-> "none", arity |-> 0, async |-> FALSE]

Responses == {"none", "error", "result", "falsyResult"}
Outcomes == {"none", "result", "null", "thrown", "forbidden", "typeError", "returned"}

VARIABLES pc,       \* "idle", "post" (in _post), "node" (at svc post), "done"
          via,      \* who called: "user" or "engine" (a stub) or "post"
          stub,     \* the stub called, or NoStub
          args,     \* the arguments it was called with
          body,     \* the JSON-RPC body handed to post
          outcome,  \* what the call returned or threw
          asked     \* a post call: the method asked for, and whether its
                    \* body came in a body field

vars == <<pc, via, stub, args, body, outcome, asked>>

TypeOK ==
  /\ pc \in {"idle", "post", "node", "done"}
  /\ via \in {"none", "user", "engine", "post"}
  /\ stub \in Stubs \cup {NoStub}
  /\ args \in Seq(ArgVals)
  /\ body \in [method : {s.rpc : s \in Stubs} \cup ForbiddenRpcs \cup {"none", "nobody"},
               params : Seq(ArgVals)]
  /\ outcome \in Outcomes
  /\ asked \in [method : {s.rpc : s \in Stubs} \cup ForbiddenRpcs \cup {"none"},
                bodyGiven : BOOLEAN]

-----------------------------------------------------------------------------
(* Helpers *)

\* The generated stub body: `if (p) params.push(p)` for each parameter.
StubParams(a) == SelectSeq(a, LAMBDA v : v # Zero)

\* getJsonRPC(name, params); id and jsonrpc are constants to the model.
GetJsonRPC(name, params) == [method |-> name, params |-> params]

\* An argument of post, by the fields checkHttpOptions and _post look at:
\* kind "undefined", "empty" (the url ""), "path" (a url string) or
\* "object"; for an object, whether it has path and params, its body (a
\* JSON-RPC body, or NoBody) and its own method field.
NoBody == [method |-> "nobody", params |-> <<>>]

Arg(kind) ==
  [kind |-> kind, path |-> FALSE, params |-> FALSE, body |-> NoBody, method |-> "none"]

Obj(hasParams, rpc, method) ==
  [Arg("object") EXCEPT !.params = hasParams, !.body = rpc, !.method = method]

\* The argument pairs an application may give post for method m: url ""
\* or a path, or an object in its place; options absent, {body: rpc}, or
\* the JSON-RPC object itself, with or without its params field.
PostArgs(m) ==
  LET objs == {Obj(FALSE, GetJsonRPC(m, <<>>), "none"),
               Obj(TRUE, NoBody, m), Obj(FALSE, NoBody, m)}
  IN  ({Arg("empty"), Arg("path")} \cup objs) \X ({Arg("undefined")} \cup objs)

\* Whether the caller put the JSON-RPC body in a body field of the object
\* post takes its options from.
BodyGiven(a) ==
  IF a[1].kind = "object" THEN a[1].body # NoBody ELSE a[2].body # NoBody

\* (mutant) checkHttpOptions without the `!!options.body` test.
CheckHttpOptionsNoBodyTest(url, options) ==
  LET o == IF options.kind = "undefined" THEN Arg("object") ELSE options IN
  CASE url.kind = "empty"              -> o
    [] url.kind = "object"             -> url
    [] o.path \/ o.params              -> [o EXCEPT !.path = TRUE]
    [] OTHER -> [Arg("object") EXCEPT !.path = TRUE,
                   !.body = [method |-> o.method, params |-> <<>>]]

\* checkHttpOptions(url, options): options || {}; an object url is the
\* options; a string url is set as the path of options that look like
\* http options, or else wraps options as the body.
CheckHttpOptions(url, options) ==
  LET o == IF options.kind = "undefined" THEN Arg("object") ELSE options IN
  CASE url.kind = "empty"              -> o
    [] url.kind = "object"             -> url
    [] o.path \/ o.params \/ o.body # NoBody -> [o EXCEPT !.path = TRUE]
    [] OTHER -> [Arg("object") EXCEPT !.path = TRUE,
                   !.body = [method |-> o.method, params |-> <<>>]]

\* getResultSync(name, resp)
GetResultSync(resp) ==
  CASE resp = "none"        -> "thrown"
    [] resp = "error"       -> "thrown"
    [] resp = "result"      -> "result"
    [] resp = "falsyResult" -> "null"

\* (mutant) getResultAsync without its last else: falls off the end.
GetResultAsyncNoElse(resp) ==
  CASE resp = "none"        -> "thrown"
    [] resp = "result"      -> "result"
    [] resp = "error"       -> "thrown"
    [] resp = "falsyResult" -> "undefined"

\* getResultAsync(name, resp): a falsy result with no error throws
\* 'Callback is not defined'.
GetResultAsync(resp) ==
  CASE resp = "none"        -> "thrown"
    [] resp = "result"      -> "result"
    [] resp = "error"       -> "thrown"
    [] resp = "falsyResult" -> "thrown"

\* ethereum.js _post: tests app.ethereumHelpers.eth.shouldAllow, a member
\* of the eth namespace object.
ServicePostAllows(m) ==
  /\ Defined("eth", "shouldAllow")
  /\ IndexOf(ShouldAllow, m) >= 0

\* (mutant) `!shouldAllow.indexOf(m)` for `indexOf(m) < 0`.
EndpointPostAllowsNotIndexOf(m) == IndexOf(ShouldAllow, m) # 0

\* (mutant) `indexOf(m) <= 0` for `indexOf(m) < 0`.
EndpointPostAllowsSkipFirst(m) == IndexOf(ShouldAllow, m) > 0

\* functions.js's _post override: tests endpoint.shouldAllow.
EndpointPostAllows(m) == IndexOf(ShouldAllow, m) >= 0

PostAllows(m) ==
  IF Variant = "service" THEN ServicePostAllows(m) ELSE EndpointPostAllows(m)

\* The stubs ethereum.js calls, as <<namespace object, member>> of
\* app.ethereumHelpers: eth.estimateGas, eth.gasPrice, eth.sendRawTransaction,
\* eth.call, eth.transactionCount and eth.net.version.
EngineCallsService ==
  {<<"eth", "estimateGas">>, <<"eth", "gasPrice">>, <<"eth", "sendRawTransaction">>,
   <<"eth", "call">>, <<"eth", "transactionCount">>, <<"eth.net", "version">>}

\* (mutant) functions.js calling endpoint.eth.net.version as ethereum.js does.
EngineCallsViaEth == EngineCallsService

\* The stubs functions.js calls on endpoint: the same, and net.version.
EngineCallsEndpoint ==
  {<<"eth", "estimateGas">>, <<"eth", "gasPrice">>, <<"eth", "sendRawTransaction">>,
   <<"eth", "call">>, <<"eth", "transactionCount">>, <<"net", "version">>}

EngineCalls ==
  IF Variant = "service" THEN EngineCallsService ELSE EngineCallsEndpoint

-----------------------------------------------------------------------------
(* Actions *)

Init ==
  /\ pc = "idle"
  /\ via = "none"
  /\ stub = NoStub
  /\ args = <<>>
  /\ body = GetJsonRPC("none", <<>>)
  /\ outcome = "none"
  /\ asked = [method |-> "none", bodyGiven |-> FALSE]

\* Stub s called with arguments a: params and body built, post called
\* (post's checkHttpOptions leaves {body: jsonRPC} as it is for url "").
Invoke(s, a, who) ==
  /\ stub' = s
  /\ args' = a
  /\ body' = GetJsonRPC(s.rpc, StubParams(a))
  /\ via' = who
  /\ pc' = "post"
  /\ UNCHANGED <<outcome, asked>>

\* An application calls a helper stub with any arguments.
CallStub ==
  /\ pc = "idle"
  /\ \E s \in Stubs, a \in SeqOf(ArgVals, 3) :
       /\ Len(a) = s.arity
       /\ Invoke(s, a, "user")

\* The engine calls a helper (with truthy arguments); a member missing on
\* the helpers object is a TypeError.
EngineCall ==
  /\ pc = "idle"
  /\ \E c \in EngineCalls :
       IF Defined(c[1], c[2])
         THEN \E s \in Stubs :
                /\ s.ns = c[1] /\ s.name = c[2]
                /\ Invoke(s, [i \in 1..s.arity |-> Val], "engine")
         ELSE /\ outcome' = "typeError"
              /\ via' = "engine"
              /\ pc' = "done"
              /\ UNCHANGED <<stub, args, body, asked>>

\* An application calls post(url, options) for any method, in any of the
\* argument shapes; _post reads the body of what checkHttpOptions returns.
CallPost ==
  /\ pc = "idle"
  /\ \E m \in {s.rpc : s \in Stubs} \cup ForbiddenRpcs : \E a \in PostArgs(m) :
       /\ body' = CheckHttpOptions(a[1], a[2]).body
       /\ asked' = [method |-> m, bodyGiven |-> BodyGiven(a)]
       /\ via' = "post"
       /\ pc' = "post"
       /\ UNCHANGED <<stub, args, outcome>>

\* _post: throw 'Forbidden <method>' unless there is a body and its
\* method is allowed (NoBody's method is never allowed).
PostCheck ==
  /\ pc = "post"
  /\ IF PostAllows(body.method)
       THEN /\ pc' = "node"
            /\ UNCHANGED outcome
       ELSE /\ pc' = "done"
            /\ outcome' = "forbidden"
  /\ UNCHANGED <<via, stub, args, body, asked>>

\* svc.ethereum.post answers; a stub decodes the answer, post returns it.
NodeAnswers ==
  /\ pc = "node"
  /\ \E resp \in Responses :
       outcome' = CASE via = "post"  -> "returned"
                    [] stub.async    -> GetResultAsync(resp)
                    [] OTHER         -> GetResultSync(resp)
  /\ pc' = "done"
  /\ UNCHANGED <<via, stub, args, body, asked>>

Finished ==
  /\ pc = "done"
  /\ UNCHANGED vars

Next == CallStub \/ EngineCall \/ CallPost \/ PostCheck \/ NodeAnswers \/ Finished

Spec == Init /\ [][Next]_vars

-----------------------------------------------------------------------------
(* Properties *)

\* _post lets no method the generator's table marks forbidden reach the
\* node, whoever calls post.
OnlyAllowedReachNode == pc = "node" => body.method \notin ForbiddenRpcs

\* _post never refuses a call made through a generated stub: the allow-list
\* the stub file carries is the one _post reads.
StubsReachNode == via \in {"user", "engine"} => outcome # "forbidden"

\* post(url, options) with an allowed method reaches the node and returns
\* its answer whenever the caller put the JSON-RPC body in a body field,
\* whatever url it passed: checkHttpOptions keeps that body.
PostBodyReachesNode ==
  /\ via = "post" /\ pc = "done" /\ asked.bodyGiven
  /\ PostAllows(asked.method)
  => outcome = "returned"

\* post(url, options) with an allowed method reaches the node, however the
\* caller passed the JSON-RPC object.
PostReachesNode ==
  /\ via = "post" /\ pc = "done"
  /\ PostAllows(asked.method)
  => outcome = "returned"

\* Every helper the engine calls exists on the helpers object.
EngineCallsResolve == outcome # "typeError"

\* A stub sends its arguments in their positions: the JSON-RPC params are
\* the arguments it was called with.
ParamsKeepPositions == stub # NoStub => body.params = args

=============================================================================
