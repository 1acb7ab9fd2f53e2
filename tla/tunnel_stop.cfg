SPECIFICATION StopSpec
CONSTANTS
  TcpSession = {t1}
  UdpSession = {u1}
  t1 = t1
  u1 = u1
  MaxSession = 0
  ServerIsName = TRUE
  UdpIsName = TRUE
PROPERTY StopReturns
