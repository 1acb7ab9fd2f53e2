SPECIFICATION Spec
CONSTANTS
  Types = {"tcp", "udp"}
  num = 2
  UDP_POOL_SIZE = 1
  Host = {h}
  Named = {h}
  NoHost = NoHost
  Runt = Runt
  Bad = Bad
  UpLen = 2
  HeadLen = 2
  BodyLen = 2
  SockBuf = 3
  Up = 3
  Down = 2
INVARIANT CountExact
PROPERTIES UpChannel DownChannel
