\* The default timeout (5000 * 60 ms) is a multiple of the 100 ms poll;
\* scaled down to 200 ms with everything else as in the safe run.
CONSTANTS
  r1 = r1
  r2 = r2
  r3 = r3
  a1 = a1
  A1 = A1
  NoLease = NoLease
  Req <- MCReq
  Addr <- MCAddr
  ReqFrom <- MCReqFrom
  AccountOf <- MCAccountOf
  CallerNonces <- MCNoExplicit
  LockTimeout = 200
  CallbacksMayThrow = FALSE
  LostReplies = FALSE
  EmptyApprove = FALSE
  LeaseExpiry = FALSE

SPECIFICATION Spec

INVARIANT MutualExclusion
