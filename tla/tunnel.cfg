SPECIFICATION LimitsSpec
CONSTANTS
  TcpSession = {t1}
  UdpSession = {u1}
  t1 = t1
  u1 = u1
  MaxSession = 2
  ServerIsName = TRUE
  UdpIsName = FALSE
INVARIANTS SessionSetExact NoAbort TerminatedIsAwake TimerNotParked AtMostTwoIdleLimits
