\* The endpoint variant, checking that post reaches the node for an
\* allowed method in every argument shape checkHttpOptions accepts.
CONSTANTS
  Variant = "endpoint"
  Val = Val
  Zero = Zero
SPECIFICATION Spec
INVARIANT PostReachesNode
