CONSTANTS
  Variant = "service"
  Val = Val
  Zero = Zero
SPECIFICATION Spec
INVARIANT StubsReachNode
