\* The caller's callbacks may throw; otherwise as the live run.
CONSTANTS
  q1 = q1
  q2 = q2
  al1 = al1
  d1 = d1
  d2 = d2
  NoAlias = NoAlias
  Req <- MCReq
  Kinds <- MCKinds
  CbChoices <- MCCbChoices
  CreateAlias <- MCCreateAlias
  DeployAddr <- MCDeployAddr
  CallbacksMayThrow = TRUE
  LostReplies = TRUE
  MalformedLogs = FALSE

SPECIFICATION FairSpec

PROPERTY EveryCallAnswered
