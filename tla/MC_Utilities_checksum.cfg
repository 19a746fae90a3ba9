\* As MC_Utilities.cfg, checking isAddress against its comment and spec
\* section 4.1.
CONSTANTS
  AddrLen = 2
  Letters <- MCLetters
  Digits <- MCDigits
  Hex <- MCHex
  Inputs <- MCInputs
  HashHigh <- MCHashHigh
  ContractNames <- MCContractNames
  Outputs <- MCOutputs

SPECIFICATION Spec

INVARIANT IsAddressAsDocumented
