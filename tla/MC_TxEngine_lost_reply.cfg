\* As the safe run, but a broadcast may be taken by the network while the
\* call that made it reports a failure.
CONSTANTS
  r1 = r1
  r2 = r2
  r3 = r3
  a1 = a1
  A1 = A1
  NoLease = NoLease
  Req <- MCReq
  Addr <- MCAddr
  ReqFrom <- MCReqFrom
  AccountOf <- MCAccountOf
  CallerNonces <- MCNoExplicit
  LockTimeout = 250
  CallbacksMayThrow = FALSE
  LostReplies = TRUE
  EmptyApprove = FALSE
  LeaseExpiry = FALSE

SPECIFICATION Spec

INVARIANT NonceFresh
