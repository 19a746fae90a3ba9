\* As the safe run, but callers may pass options.nonce 1 or 2: one caller
\* leaves a gap, another fills it, and a third request's getNonce follows
\* the cache the explicit nonce moved back.
CONSTANTS
  r1 = r1
  r2 = r2
  r3 = r3
  a1 = a1
  A1 = A1
  NoLease = NoLease
  Req <- MCReq
  Addr <- MCAddr
  ReqFrom <- MCReqFrom
  AccountOf <- MCAccountOf
  CallerNonces <- MCNoncesAhead
  LockTimeout = 250
  CallbacksMayThrow = FALSE
  LostReplies = FALSE
  EmptyApprove = FALSE
  LeaseExpiry = FALSE

SPECIFICATION Spec

INVARIANT NonceFresh
