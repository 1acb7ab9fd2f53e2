SPECIFICATION FairSpec
CONSTANTS
  max = 2
  Wnd = 1
  SockBuf = 1
  MemErr = {FALSE}
  Down = 3
  Up = 1
PROPERTIES Delivered BothEnd
