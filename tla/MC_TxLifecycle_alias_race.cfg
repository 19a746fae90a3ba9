\* Two deployments asking for the same alias, callbacks that return
\* normally; weak fairness of each request.
CONSTANTS
  q1 = q1
  q2 = q2
  al1 = al1
  d1 = d1
  d2 = d2
  NoAlias = NoAlias
  Req <- MCReq
  Kinds <- MCKinds
  CbChoices <- MCCbChoices
  CreateAlias <- MCSameAlias
  DeployAddr <- MCDeployAddr
  CallbacksMayThrow = FALSE
  LostReplies = TRUE
  MalformedLogs = FALSE

SPECIFICATION FairSpec

PROPERTY EveryCallAnswered
