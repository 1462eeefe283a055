CONSTANTS
  Sessions = {s1, s2, s3}
  NoSession = NoSession
  NumWorkers = 2
  EagerWorkers = {2}
  MaxLoopTryCnt = 2
SPECIFICATION Spec
INVARIANT AllWorkersBound
