CONSTANTS
  Sessions = {s1, s2, s3}
  NoSession = NoSession
  NumWorkers = 2
  EagerWorkers = {2}
  MaxLoopTryCnt = 2
SPECIFICATION FairSpec
INVARIANTS TypeOK AssertionsHold PlatformStableWhileUsed NoSessionLeak StrictWorkersBound
PROPERTIES ShutdownExits ReconnectionSettles TeleoperationRecovers
