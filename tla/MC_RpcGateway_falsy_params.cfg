CONSTANTS
  Variant = "endpoint"
  Val = Val
  Zero = Zero
SPECIFICATION Spec
INVARIANT ParamsKeepPositions
