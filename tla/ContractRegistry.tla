-------------------------- MODULE ContractRegistry --------------------------
(***************************************************************************)
(* The contract registry of src/scripts/ethereum.js and the callers that   *)
(* resolve an alias or address through it: registerContract, getContract,  *)
(* removeContract, the alias helpers, the `to` resolution of               *)
(* sendTransaction and sendEther, and createContract's alias check and its *)
(* registration when the deployment is confirmed.                          *)
(*                                                                         *)
(* The store itself is svc.ethereum (outside this repository); it is       *)
(* modelled from spec section 4.1: an alias is unique, lookup is by        *)
(* address when the caller says the argument is an address.                *)
(* Strings are abstracted: Names are the arguments callers pass, AddrNames *)
(* those that match isAddress's regular expression.                        *)
(***************************************************************************)
EXTENDS FiniteSets

CONSTANTS Caller,     \* concurrent callers, one operation each
          Names,      \* alias-or-address strings callers pass
          AddrNames,  \* the Names isAddress accepts (40 hex digits)
          Aliases,    \* aliases a caller may register (any Names)
          Kinds,      \* the operations callers may run
          NoAlias,    \* alias argument omitted
          Null        \* JavaScript null

ASSUME /\ AddrNames \subseteq Names
       /\ Aliases \subseteq Names
       /\ Kinds \subseteq {"call", "view", "estimate", "encode", "ether", "register", "remove", "create"}
       /\ {NoAlias, Null} \cap Names = {}

Entry == [alias : Names, address : AddrNames]

VARIABLES contracts,  \* svc.ethereum's registry: a set of Entry
          pc,         \* pc[c]: where caller c is
          op,         \* op[c]: the operation c runs and its arguments
          abiOf,      \* abiOf[c]: address of the contract whose ABI encoded c's call
          to,         \* to[c]: the `to` of the transaction c dispatched
          deployed    \* deployed[c]: address createContract's deployment got

vars == <<contracts, pc, op, abiOf, to, deployed>>

Ops ==
  [kind : {"call", "view", "estimate", "encode", "ether", "remove"}, name : Names]
    \cup [kind : {"register"}, alias : Aliases \cup {NoAlias}, address : Names]
    \cup [kind : {"create"}, alias : Aliases \cup {NoAlias}]

TypeOK ==
  /\ contracts \subseteq Entry
  /\ pc \in [Caller -> {"idle", "start", "resolve", "lookup", "deploying", "done"}]
  /\ op \in [Caller -> Ops \cup {Null}]
  /\ abiOf \in [Caller -> AddrNames \cup {Null}]
  /\ to \in [Caller -> Names \cup {Null}]
  /\ deployed \in [Caller -> AddrNames \cup {Null}]

-----------------------------------------------------------------------------
(* svc.ethereum's registry (spec section 4.1) *)

\* svc.ethereum.getContract({aliasOrAddress, isAddress})
SvcGet(n, isAddr) ==
  LET found == {e \in contracts : IF isAddr THEN e.address = n ELSE e.alias = n}
  IN IF found = {} THEN Null ELSE CHOOSE e \in found : TRUE

\* svc.ethereum.registerContract: fails with DuplicateAlias.
SvcRegister(alias, address) ==
  IF \E e \in contracts : e.alias = alias
    THEN contracts
    ELSE contracts \cup {[alias |-> alias, address |-> address]}

\* svc.ethereum.removeContract({alias, isAddress})
SvcRemove(n, isAddr) ==
  {e \in contracts : ~(IF isAddr THEN e.address = n ELSE e.alias = n)}

-----------------------------------------------------------------------------
(* Helpers of ethereum.js *)

\* utils.isAddress: /^(0x)?[0-9a-f]{40}$/i
IsAddress(n) == n \in AddrNames

\* (mutant) getContract always looking the argument up as an alias.
GetContractByAliasOnly(n) == SvcGet(n, FALSE)

\* getContract(aliasOrAddress): look up by address if it looks like one.
GetContract(n) == SvcGet(n, IsAddress(n))

\* utils.getContractAddressByAlias: the entry's address, or null.
GetContractAddressByAlias(n) ==
  IF GetContract(n) # Null THEN GetContract(n).address ELSE Null

\* `to` of sendTransaction, sendEther, callFunction, estimateTransaction:
\* isAddress(aliasOrAddress) ? aliasOrAddress : getContractAddressByAlias(...)
ResolveTo(n) == IF IsAddress(n) THEN n ELSE GetContractAddressByAlias(n)

\* utils.getFunctionDefFromABI via getContractABIByAlias: the ABI is that
\* of getContract(aliasOrAddress); the function is assumed present in it.
FunctionDefFrom(n) == GetContract(n)

-----------------------------------------------------------------------------
(* Actions *)

Init ==
  /\ contracts = {}
  /\ pc = [c \in Caller |-> "idle"]
  /\ op = [c \in Caller |-> Null]
  /\ abiOf = [c \in Caller |-> Null]
  /\ to = [c \in Caller |-> Null]
  /\ deployed = [c \in Caller |-> Null]

\* A caller invokes one of the operations with some arguments.
Begin(c) ==
  /\ pc[c] = "idle"
  /\ \E o \in {x \in Ops : x.kind \in Kinds} : op' = [op EXCEPT ![c] = o]
  /\ pc' = [pc EXCEPT ![c] = "start"]
  /\ UNCHANGED <<contracts, abiOf, to, deployed>>

\* getFunctionDefFromABI(fnName, aliasOrAddress), then `next`: no ABI
\* throws 'Cannot find function' and the call ends.
LookupAbi(c, next) ==
  LET def == FunctionDefFrom(op[c].name) IN
    IF def = Null
      THEN /\ pc' = [pc EXCEPT ![c] = "done"]
           /\ UNCHANGED abiOf
      ELSE /\ abiOf' = [abiOf EXCEPT ![c] = def.address]
           /\ pc' = [pc EXCEPT ![c] = next]

\* sendTransaction: the ABI lookup comes first.
CallLookupAbi(c) ==
  /\ pc[c] = "start"
  /\ op[c].kind = "call"
  /\ LookupAbi(c, "resolve")
  /\ UNCHANGED <<contracts, op, to, deployed>>

\* encodeFunction: the ABI lookup ('Cannot find function' when there is
\* none), then _encodedFunction, whose result is returned.
EncodeFunction(c) ==
  /\ pc[c] = "start"
  /\ op[c].kind = "encode"
  /\ LookupAbi(c, "done")
  /\ UNCHANGED <<contracts, op, to, deployed>>

\* callFunction: the ABI lookup, then _encodedFunction.
ViewLookupAbi(c) ==
  /\ pc[c] = "start"
  /\ op[c].kind = "view"
  /\ LookupAbi(c, "resolve")
  /\ UNCHANGED <<contracts, op, to, deployed>>

\* callFunction: callObject.to is resolved and eth.call made with the
\* data encoded from the earlier ABI (decoded with it as well).
ViewResolve(c) ==
  /\ pc[c] = "resolve"
  /\ op[c].kind = "view"
  /\ to' = [to EXCEPT ![c] = ResolveTo(op[c].name)]
  /\ pc' = [pc EXCEPT ![c] = "done"]
  /\ UNCHANGED <<contracts, op, abiOf, deployed>>

\* estimateTransaction resolves rawTx.to first ...
EstimateResolve(c) ==
  /\ pc[c] = "start"
  /\ op[c].kind = "estimate"
  /\ to' = [to EXCEPT ![c] = ResolveTo(op[c].name)]
  /\ pc' = [pc EXCEPT ![c] = "lookup"]
  /\ UNCHANGED <<contracts, op, abiOf, deployed>>

\* ... then looks up the ABI, encodes and calls eth.estimateGas(rawTx).
EstimateLookupAbi(c) ==
  /\ pc[c] = "lookup"
  /\ LookupAbi(c, "done")
  /\ UNCHANGED <<contracts, op, to, deployed>>

\* sendTransaction, after encoding and getNonce: options.to is resolved
\* anew and the transaction dispatched.
CallResolve(c) ==
  /\ pc[c] = "resolve"
  /\ op[c].kind = "call"
  /\ to' = [to EXCEPT ![c] = ResolveTo(op[c].name)]
  /\ pc' = [pc EXCEPT ![c] = "done"]
  /\ UNCHANGED <<contracts, op, abiOf, deployed>>

\* sendEther: options.to resolved and the value transfer dispatched.
SendEther(c) ==
  /\ pc[c] = "start"
  /\ op[c].kind = "ether"
  /\ to' = [to EXCEPT ![c] = ResolveTo(op[c].name)]
  /\ pc' = [pc EXCEPT ![c] = "done"]
  /\ UNCHANGED <<contracts, op, abiOf, deployed>>

\* (mutant) registerContract without its 'Invalid address' check.
RegisterContractNoAddressCheck(c) ==
  /\ pc[c] = "start"
  /\ op[c].kind = "register"
  /\ LET alias == IF op[c].alias = NoAlias THEN op[c].address ELSE op[c].alias
     IN contracts' = SvcRegister(alias, op[c].address)
  /\ pc' = [pc EXCEPT ![c] = "done"]
  /\ UNCHANGED <<op, abiOf, to, deployed>>

\* registerContract(alias, contractAddress, abi): the address must pass
\* isAddress; an omitted alias becomes the address.
RegisterContract(c) ==
  /\ pc[c] = "start"
  /\ op[c].kind = "register"
  /\ LET alias == IF op[c].alias = NoAlias THEN op[c].address ELSE op[c].alias
     IN contracts' = IF IsAddress(op[c].address)
                       THEN SvcRegister(alias, op[c].address)
                       ELSE contracts
  /\ pc' = [pc EXCEPT ![c] = "done"]
  /\ UNCHANGED <<op, abiOf, to, deployed>>

\* removeContract(aliasOrAddress)
RemoveContract(c) ==
  /\ pc[c] = "start"
  /\ op[c].kind = "remove"
  /\ contracts' = SvcRemove(op[c].name, IsAddress(op[c].name))
  /\ pc' = [pc EXCEPT ![c] = "done"]
  /\ UNCHANGED <<op, abiOf, to, deployed>>

\* createContract: 'There is another contract with alias' if getContract
\* finds the alias; otherwise the deployment is sent.
CreateCheck(c) ==
  /\ pc[c] = "start"
  /\ op[c].kind = "create"
  /\ pc' = [pc EXCEPT ![c] =
              IF op[c].alias # NoAlias /\ GetContract(op[c].alias) # Null
                THEN "done" ELSE "deploying"]
  /\ UNCHANGED <<contracts, op, abiOf, to, deployed>>

\* The wrapped confirmed callback: registerContract with the alias, or the
\* receipt's contractAddress when there is none. The receipt's address is
\* one no contract had before.
CreateConfirmed(c) ==
  /\ pc[c] = "deploying"
  /\ \E a \in AddrNames \ ({e.address : e \in contracts}
                              \cup {deployed[d] : d \in Caller}) :
       /\ deployed' = [deployed EXCEPT ![c] = a]
       /\ contracts' = SvcRegister(IF op[c].alias = NoAlias THEN a ELSE op[c].alias, a)
  /\ pc' = [pc EXCEPT ![c] = "done"]
  /\ UNCHANGED <<op, abiOf, to>>

\* The deployment fails or is never confirmed.
CreateFails(c) ==
  /\ pc[c] = "deploying"
  /\ pc' = [pc EXCEPT ![c] = "done"]
  /\ UNCHANGED <<contracts, op, abiOf, to, deployed>>

Finished ==
  /\ \A c \in Caller : pc[c] = "done"
  /\ UNCHANGED vars

Next ==
  \/ \E c \in Caller :
       \/ Begin(c) \/ CallLookupAbi(c) \/ CallResolve(c) \/ SendEther(c)
       \/ EncodeFunction(c) \/ ViewLookupAbi(c) \/ ViewResolve(c)
       \/ EstimateResolve(c) \/ EstimateLookupAbi(c)
       \/ RegisterContract(c) \/ RemoveContract(c)
       \/ CreateCheck(c) \/ CreateConfirmed(c) \/ CreateFails(c)
  \/ Finished

Spec == Init /\ [][Next]_vars

-----------------------------------------------------------------------------
(* Properties *)

\* Spec section 8: resolving a registered contract by its alias or by its
\* address gives the same contract (getContract's isAddress dispatch).
ResolveAgrees ==
  \A e \in contracts :
    /\ GetContract(e.alias) # Null
    /\ GetContract(e.alias).address = e.address
    /\ GetContract(e.address) # Null
    /\ GetContract(e.address).address = e.address

\* sendTransaction, callFunction and estimateTransaction send call data to
\* the contract whose ABI encoded it, though the registry may change
\* between getFunctionDefFromABI and the resolution of `to` (in either
\* order).
CallReachesItsContract ==
  \A c \in Caller :
    (/\ op[c] # Null /\ op[c].kind \in {"call", "view", "estimate"}
     /\ pc[c] = "done" /\ abiOf[c] # Null)
      => to[c] = abiOf[c]

\* sendEther never dispatches a transfer with to = null (which the network
\* takes as a contract creation).
EtherHasRecipient ==
  \A c \in Caller :
    (op[c] # Null /\ op[c].kind = "ether" /\ pc[c] = "done") => to[c] # Null

\* A createContract whose alias passed the check and whose deployment was
\* confirmed leaves its contract registered.
CreateRegisters ==
  \A c \in Caller :
    deployed[c] # Null => \E e \in contracts : e.address = deployed[c]

=============================================================================
