\* Does the engine implement the abstract lock AccountLock? Reproduces the
\* refinement failing at the lock timeout of every call site (globalLock(fromAddress)
\* takes the default 5000 * 60 ms, a multiple of the 100 ms poll, scaled down
\* to 200 ms), callbacks that return normally, reliable broadcast replies and a UI that
\* always answers 'approved' with a response.
CONSTANTS
  r1 = r1
  r2 = r2
  r3 = r3
  a1 = a1
  A1 = A1
  NoLease = NoLease
  Req <- MCReq
  Addr <- MCAddr
  ReqFrom <- MCReqFrom
  AccountOf <- MCAccountOf
  CallerNonces <- MCZeroNonce
  LockTimeout = 200
  CallbacksMayThrow = FALSE
  LostReplies = FALSE
  EmptyApprove = FALSE
  LeaseExpiry = FALSE

SPECIFICATION Spec

PROPERTY LockRefinement
