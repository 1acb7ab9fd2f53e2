SPECIFICATION Spec
CONSTANTS
  max = 3
  Wnd = 2
  SockBuf = 1
  MemErr = {FALSE, TRUE}
  Down = 5
  Up = 2
INVARIANTS StreamIntact BuffersExact CleanEnd CleanShut
