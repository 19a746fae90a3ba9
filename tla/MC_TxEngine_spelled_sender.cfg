\* As the safe run, but r2 passes the sender's address in another spelling
\* (checksummed instead of lower case) than r1 and r3.
CONSTANTS
  r1 = r1
  r2 = r2
  r3 = r3
  a1 = a1
  A1 = A1
  NoLease = NoLease
  Req <- MCReq
  Addr <- MCSpellAddr
  ReqFrom <- MCSpellReqFrom
  AccountOf <- MCSpellAccountOf
  CallerNonces <- MCNoExplicit
  LockTimeout = 250
  CallbacksMayThrow = FALSE
  LostReplies = FALSE
  EmptyApprove = FALSE
  LeaseExpiry = FALSE

SPECIFICATION Spec

INVARIANT MutualExclusion
