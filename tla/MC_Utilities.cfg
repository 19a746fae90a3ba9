\* Two-digit addresses, every short string a caller may pass, a platform
\* that spells res.address in any case with or without '0x'.
CONSTANTS
  AddrLen = 2
  Letters <- MCLetters
  Digits <- MCDigits
  Hex <- MCHex
  Inputs <- MCInputs
  HashHigh <- MCHashHigh
  ContractNames <- MCContractNames
  Outputs <- MCOutputs

SPECIFICATION Spec

INVARIANT RoundTrip
INVARIANT OneAddressPerAccount
INVARIANT CompileFindsNamed
