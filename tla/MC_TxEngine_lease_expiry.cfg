\* As the safe run, but the lock key's ttl may run out under its holder.
CONSTANTS
  r1 = r1
  r2 = r2
  r3 = r3
  a1 = a1
  A1 = A1
  NoLease = NoLease
  Req <- MCReq
  Addr <- MCAddr
  ReqFrom <- MCReqFrom
  AccountOf <- MCAccountOf
  CallerNonces <- MCNoExplicit
  LockTimeout = 250
  CallbacksMayThrow = FALSE
  LostReplies = FALSE
  EmptyApprove = FALSE
  LeaseExpiry = TRUE

SPECIFICATION Spec

INVARIANT MutualExclusion
