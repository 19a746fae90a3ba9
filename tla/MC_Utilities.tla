--------------------------- MODULE MC_Utilities ---------------------------
EXTENDS Utilities

\* Two-digit addresses over the hex digits 0 and a; "g" is a non-hex
\* letter, "x" makes the '0x' and '0X' prefixes.
MCLetters == [c \in {"a", "g", "x"} |->
                CASE c = "a" -> "A" [] c = "g" -> "G" [] c = "x" -> "X"]
MCDigits == {"0"}
MCHex == {"0", "a"}

\* Every string of one to three characters of 0, a, A, g after no prefix,
\* '0x' or '0X'.
MCInputs ==
  {p \o w : p \in {<<>>, <<"0", "x">>, <<"0", "X">>},
            w \in UNION {[1..n -> {"0", "a", "A", "g"}] : n \in 1..3}}

\* A stand-in for keccak: the nibble depends on the position and on the
\* lowercase letters of the hashed string, so that differently cased
\* strings hash differently.
MCHashHigh(s, i) == (i + Cardinality({j \in DOMAIN s : s[j] = "a"})) % 2 = 0
\* Contract names "a" and "aa" (one a suffix of the other); files "a" and
\* "f", so that a key's file part can end with the letters of a name.
MCNameStrings == {<<"a">>, <<"a", "a">>}
MCKeys == {f \o <<":">> \o n : f \in {<<"a">>, <<"f">>}, n \in MCNameStrings}
MCContractNames == MCNameStrings \cup {<<>>}
\* Compiler outputs of up to two distinct keys.
MCOutputs == {o \in SeqOf(MCKeys, 2) : IsInjective(o)}
=============================================================================
