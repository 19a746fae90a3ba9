CONSTANTS
  Variant = "endpoint"
  Val = Val
  Zero = Zero
SPECIFICATION Spec
INVARIANT TypeOK
INVARIANT OnlyAllowedReachNode
INVARIANT StubsReachNode
INVARIANT EngineCallsResolve
INVARIANT PostBodyReachesNode
