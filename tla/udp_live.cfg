SPECIFICATION FairSpec
CONSTANTS
  Types = {"tcp", "udp"}
  num = 2
  UDP_POOL_SIZE = 1
  Host = {h}
  Named = {h}
  NoHost = NoHost
  Runt = Runt
  Bad = Bad
  UpLen = 2
  HeadLen = 2
  BodyLen = 1
  SockBuf = 1
  Up = 2
  Down = 1
PROPERTIES Forwarded Answered EndsWithConnection
