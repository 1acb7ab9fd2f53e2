SPECIFICATION FairSpec
CONSTANTS
  main = main
  binder = binder
  none = none
  Faults = {{"init"}}
  MaxStarts = 2
PROPERTY StopReturns
