\* As the safe run, but the caller's submitted/error callback may throw
\* inside the managed path.
CONSTANTS
  r1 = r1
  r2 = r2
  r3 = r3
  a1 = a1
  A1 = A1
  NoLease = NoLease
  Req <- MCReq
  Addr <- MCAddr
  ReqFrom <- MCReqFrom
  AccountOf <- MCAccountOf
  CallerNonces <- MCNoExplicit
  LockTimeout = 250
  CallbacksMayThrow = TRUE
  LostReplies = FALSE
  EmptyApprove = FALSE
  LeaseExpiry = FALSE

SPECIFICATION Spec

INVARIANT MutualExclusion
