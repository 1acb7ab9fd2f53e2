SPECIFICATION FairSpec
CONSTANTS
  Task = {main, a, b}
  Main = main
  priority <- MCPriority
  MaxRuntime = 2
  MaxDelay = 1
INVARIANT QueuesExact
PROPERTIES NoStarvation TimersFire EventsServed
