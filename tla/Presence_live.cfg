SPECIFICATION FairSpec
CONSTANTS
  Conn = {w1, w2}
  Uid = {alice}
  Addr = {home, work}
  Ticker = ticker
  Nobody = nobody
  Cap = 4
  MaxFires = 1
  HijackMayFail = FALSE
PROPERTY DoomedLeave
