---------------------------- MODULE Utilities ----------------------------
(***************************************************************************)
(* The utilities of functions.js: isAddress (two regular                  *)
(* expressions), toChecksumAddress (lowercase, drop the first '0x', upper  *)
(* case every character whose keccak nibble is >= 8) and the account      *)
(* helpers createAccount, importAccount and exportAccount, which hand the  *)
(* platform's res.address to the caller through toChecksumAddress; the     *)
(* entry points checksum-address and isAddress are callable on any string. *)
(*                                                                         *)
(* A string is a sequence of one-character strings. Keccak is the oracle  *)
(* HashHigh(s, i): nibble i of keccak(s) in hex is >= 8. The platform      *)
(* (_createAccount, _importAccount, _exportAccount) is outside the         *)
(* scripts: it holds accounts as lowercase bodies, may spell res.address   *)
(* in any case with or without '0x', and refuses a key it already holds    *)
(* or an address it does not hold.                                         *)
(*                                                                         *)
(* compileSolidity hands the code to the platform's compiler and, given a *)
(* contractName, returns the first contract of the output whose key       *)
(* '<file>:<name>' ends with ':' + contractName, by an indexOf-based      *)
(* endsWith; the compiler's output is any sequence of such keys.          *)
(***************************************************************************)
EXTENDS Integers, Sequences, SequencesExt, FiniteSets

CONSTANTS AddrLen,          \* hex digits of an address (40 in the code)
          Letters,          \* [lowercase letter -> its uppercase], incl. "x"
          Digits,           \* characters without case
          Hex,              \* the lowercase hex characters [0-9a-f]
          Inputs,           \* the strings callers pass to the utilities
          HashHigh(_, _),   \* HashHigh(s, i): keccak(s) hex digit i >= 8
          ContractNames,    \* the contractName strings a caller may pass
          Outputs           \* the key sequences the compiler may return

ToUpper(c) == IF c \in DOMAIN Letters THEN Letters[c] ELSE c
ToLower(c) == IF c \in Range(Letters)
                THEN CHOOSE l \in DOMAIN Letters : Letters[l] = c ELSE c

\* String.prototype.toLowerCase
LowerCase(s) == [i \in DOMAIN s |-> ToLower(s[i])]

Ox == <<"0", "x">>

Chars == Digits \cup DOMAIN Letters \cup Range(Letters)

HexAnyCase == Hex \cup {ToUpper(c) : c \in Hex}

\* s is one of prefixes followed by exactly AddrLen characters of chars.
Matches(s, prefixes, chars) ==
  \E p \in prefixes :
     /\ IsPrefix(p, s)
     /\ Len(s) - Len(p) = AddrLen
     /\ \A i \in Len(p) + 1 .. Len(s) : s[i] \in chars

\* isAddress: /^(0x)?[0-9a-f]{40}$/i, then /^(0x)?[0-9a-fA-F]{40}$/.
IsAddress(s) ==
  /\ Matches(s, {<<>>, Ox, <<"0", "X">>}, HexAnyCase)
  /\ Matches(s, {<<>>, Ox}, HexAnyCase)

\* Mutants of toChecksumAddress: without the toLowerCase, and without the
\* replace of '0x'.
ToChecksumAddressKeepsCase(s) ==
  LET a == ReplaceFirstSubSeq(<<>>, Ox, s)
  IN  Ox \o [i \in 1..Len(a) |-> IF HashHigh(a, i) THEN ToUpper(a[i]) ELSE a[i]]

ToChecksumAddressKeepsPrefix(s) ==
  LET a == LowerCase(s)
  IN  Ox \o [i \in 1..Len(a) |-> IF HashHigh(a, i) THEN ToUpper(a[i]) ELSE a[i]]

\* toChecksumAddress: lowercase, replace the first '0x', then case each
\* character by its keccak nibble.
ToChecksumAddress(s) ==
  LET a == ReplaceFirstSubSeq(<<>>, Ox, LowerCase(s))
  IN  Ox \o [i \in 1..Len(a) |-> IF HashHigh(a, i) THEN ToUpper(a[i]) ELSE a[i]]

\* String.prototype.indexOf(sub, from): the first index >= from (0 for a
\* negative from) where sub occurs in str, or -1.
IndexOfFrom(str, sub, from) ==
  LET at == {i \in (IF from < 0 THEN 0 ELSE from) .. Len(str) - Len(sub) :
               SubSeq(str, i + 1, i + Len(sub)) = sub}
  IN  IF at = {} THEN -1 ELSE Min(at)

\* (mutant) endsWith searching from one position too early.
EndsWithOffByOne(str, suffix) ==
  IndexOfFrom(str, suffix, Len(str) - Len(suffix) - 1) # -1

\* compileSolidity's local endsWith(str, suffix).
EndsWith(str, suffix) ==
  IndexOfFrom(str, suffix, Len(str) - Len(suffix)) # -1

\* The for-in loop over res.contracts: the first key ending with
\* ':' + contractName, or <<>> when there is none.
FindContract(out, name) ==
  LET hits == SelectSeq(out, LAMBDA key : EndsWith(key, <<":">> \o name))
  IN  IF hits = <<>> THEN <<>> ELSE Head(hits)

Accounts == [1..AddrLen -> Hex]

\* The strings the platform or a caller may use for account b.
Spellings(b) ==
  {p \o c : p \in {<<>>, Ox},
            c \in {w \in [1..AddrLen -> HexAnyCase] : LowerCase(w) = b}}

NoKey == <<>>                       \* the empty private key or address

Errors == {"none", "emptyKey", "keyExists", "emptyAddress", "unknownAccount",
           "emptyCode", "contractNotFound"}

Calls == {"none", "createAccount", "importAccount", "exportAccount",
          "toChecksumAddress", "isAddress", "compileSolidity"}

\* A call's result: the address or boolean it returned, or what it threw;
\* for compileSolidity also the contractName asked, the compiler's output
\* keys and the keys of the contracts returned.
NoResult ==
  [call |-> "none", address |-> <<>>, isAddress |-> FALSE, error |-> "none",
   name |-> <<>>, out |-> <<>>, compiled |-> {}]

Result(call) == [NoResult EXCEPT !.call = call]

VARIABLES accounts,  \* the accounts the platform holds
          handed,    \* handed[b]: the addresses the helpers returned for b
          ret        \* what the last call returned or threw

vars == <<accounts, handed, ret>>

TypeOK ==
  /\ accounts \subseteq Accounts
  /\ DOMAIN handed = Accounts
  /\ \A b \in Accounts : handed[b] \subseteq Seq(Chars)
  /\ ret \in [call : Calls, address : Seq(Chars), isAddress : BOOLEAN, error : Errors,
              name : Seq(Chars), out : Seq(Seq(Chars)), compiled : SUBSET Seq(Chars)]

Init ==
  /\ accounts = {}
  /\ handed = [b \in Accounts |-> {}]
  /\ ret = NoResult

\* A helper returns toChecksumAddress(res.address) for account b.
Hand(b, address, call) ==
  /\ handed' = [handed EXCEPT ![b] = @ \cup {ToChecksumAddress(address)}]
  /\ ret' = [Result(call) EXCEPT !.address = ToChecksumAddress(address)]

Throw(call, e) ==
  ret' = [Result(call) EXCEPT !.error = e] /\ UNCHANGED <<accounts, handed>>

CreateAccount ==
  \E b \in Accounts \ accounts :
     /\ accounts' = accounts \cup {b}
     /\ \E res \in Spellings(b) : Hand(b, res, "createAccount")

\* A private key is abstracted to the account it derives.
ImportAccount ==
  \E key \in Accounts \cup {NoKey} :
     \/ key = NoKey /\ Throw("importAccount", "emptyKey")
     \/ key \in accounts /\ Throw("importAccount", "keyExists")
     \/ /\ key \in Accounts \ accounts
        /\ accounts' = accounts \cup {key}
        /\ \E res \in Spellings(key) : Hand(key, res, "importAccount")

ExportAccount ==
  \E address \in {NoKey} \cup UNION {Spellings(b) : b \in Accounts} :
     \/ address = NoKey /\ Throw("exportAccount", "emptyAddress")
     \/ /\ address # NoKey
        /\ \A b \in accounts : address \notin Spellings(b)
        /\ Throw("exportAccount", "unknownAccount")
     \/ \E b \in accounts :
          /\ address \in Spellings(b)
          /\ \E res \in Spellings(b) : Hand(b, res, "exportAccount")
          /\ UNCHANGED accounts

CheckSumAddress ==
  \E s \in Inputs :
     /\ ret' = [Result("toChecksumAddress") EXCEPT !.address = ToChecksumAddress(s)]
     /\ UNCHANGED <<accounts, handed>>

CheckIsAddress ==
  \E s \in Inputs :
     /\ ret' = [Result("isAddress") EXCEPT !.isAddress = IsAddress(s)]
     /\ UNCHANGED <<accounts, handed>>

\* compileSolidity(code, contractName): an empty code throws; otherwise
\* the compiler's output, all of it without a contractName, else the
\* first matching contract or 'Contract with name [..] not found'.
CompileSolidity ==
  \E code \in {"empty", "source"}, name \in ContractNames, out \in Outputs :
     LET r == [Result("compileSolidity") EXCEPT !.name = name, !.out = out]
         key == FindContract(out, name)
     IN  /\ ret' = CASE code = "empty" -> [r EXCEPT !.error = "emptyCode"]
                    [] name = <<>>     -> [r EXCEPT !.compiled = Range(out)]
                    [] key = <<>>      -> [r EXCEPT !.error = "contractNotFound"]
                    [] OTHER           -> [r EXCEPT !.compiled = {key}]
         /\ UNCHANGED <<accounts, handed>>

Next ==
  \/ CreateAccount \/ ImportAccount \/ ExportAccount
  \/ CheckSumAddress \/ CheckIsAddress \/ CompileSolidity

Spec == Init /\ [][Next]_vars

-----------------------------------------------------------------------------
(* Properties.                                                             *)

\* Spec section 8: toChecksumAddress(toChecksumAddress(addr).toLowerCase())
\* equals toChecksumAddress(addr): the address the checksum entry point
\* returned for any string a caller passed is unchanged by lowercasing and
\* checksumming it again.
RoundTrip ==
  ret.call = "toChecksumAddress" =>
     ToChecksumAddress(LowerCase(ret.address)) = ret.address

\* createAccount, importAccount and exportAccount hand out, for each
\* account, one single address whatever the platform's spelling of
\* res.address: a valid address that spells that account, so that callers
\* may compare what different helpers returned.
OneAddressPerAccount ==
  \A b \in Accounts : \A v \in handed[b] :
     /\ handed[b] = {v}
     /\ IsAddress(v)
     /\ LowerCase(v) = Ox \o b

\* compileSolidity(code, contractName) returns the first contract of the
\* compiler's output whose key is '<file>:' followed by contractName, and
\* throws 'not found' only when there is none: the indexOf-based endsWith
\* agrees with the suffix relation over every key and name.
CompileFindsNamed ==
  (ret.call = "compileSolidity" /\ ret.error # "emptyCode" /\ ret.name # <<>>) =>
     LET hits == SelectSeq(ret.out, LAMBDA k : IsSuffix(<<":">> \o ret.name, k))
     IN  IF hits = <<>> THEN ret.error = "contractNotFound"
                        ELSE ret.compiled = {Head(hits)}

\* isAddress as its comment and spec section 4.1 describe it: 40 hex
\* digits after an optional '0x', all one case or in checksum format.
IsAddressAsDocumented ==
  \A s \in Inputs :
     IsAddress(s) <=>
        /\ Matches(s, {<<>>, Ox}, HexAnyCase)
        /\ LET body == ReplaceFirstSubSeq(<<>>, Ox, s) IN
             \/ \A i \in DOMAIN body : body[i] = ToLower(body[i])
             \/ \A i \in DOMAIN body : body[i] = ToUpper(body[i])
             \/ ToChecksumAddress(s) = Ox \o body

=============================================================================
