SPECIFICATION FairSpec
CONSTANTS
  Task = {a, b, c}
  a = a
  b = b
  c = c
  dummy_task = dummy_task
  null = null
  MaxCalls = 2
INVARIANT MutexExact
INVARIANT NoLostAnswer
INVARIANT CallIsLive
INVARIANT WakesLiveTask
PROPERTIES OwnAnswer CallReturns
