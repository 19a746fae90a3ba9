\* As the safe run, but the UI may call 'approved' with an empty response.
CONSTANTS
  r1 = r1
  r2 = r2
  r3 = r3
  a1 = a1
  A1 = A1
  NoLease = NoLease
  Req <- MCReq
  Addr <- MCAddr
  ReqFrom <- MCReqFrom
  AccountOf <- MCAccountOf
  CallerNonces <- MCNoExplicit
  LockTimeout = 250
  CallbacksMayThrow = FALSE
  LostReplies = FALSE
  EmptyApprove = TRUE
  LeaseExpiry = FALSE

SPECIFICATION Spec

INVARIANT NoOrphanLease
