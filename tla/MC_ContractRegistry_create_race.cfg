CONSTANTS
  c1 = c1  c2 = c2  c3 = c3  x = x  A1 = A1  A2 = A2  A3 = A3
  NoAlias = NoAlias  Null = Null
  Caller <- MCCaller
  Names <- MCNames
  AddrNames <- MCAddrNames
  Aliases <- MCPlainAliases
  Kinds <- MCCreateKinds
SPECIFICATION Spec
INVARIANT CreateRegisters
