SPECIFICATION FairSpec
CONSTANTS
  main = main
  binder = binder
  none = none
  Faults = {{"kill", "init"}, {"kill", "revoke"}}
  MaxStarts = 3
INVARIANTS TunIsOpen ConfigIsOwn WriteSucceeds StoppedIsClean
PROPERTY UpStopReturns
