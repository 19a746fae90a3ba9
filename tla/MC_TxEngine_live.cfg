\* Every environment behaviour the code handles enabled, with the default
\* (multiple of 100) lock timeout, under weak fairness of each request.
CONSTANTS
  r1 = r1
  r2 = r2
  r3 = r3
  a1 = a1
  A1 = A1
  NoLease = NoLease
  Req <- MCReq
  Addr <- MCAddr
  ReqFrom <- MCReqFrom
  AccountOf <- MCAccountOf
  CallerNonces <- MCNoExplicit
  LockTimeout = 200
  CallbacksMayThrow = TRUE
  LostReplies = TRUE
  EmptyApprove = TRUE
  LeaseExpiry = TRUE

SPECIFICATION FairSpec

INVARIANT NoncesGapless
PROPERTY Termination
