SPECIFICATION FairSpec
CONSTANTS
  Conn = {w1, w2, w3}
  Uid = {alice}
  Addr = {home}
  Ticker = ticker
  Nobody = nobody
  Cap = 2
  MaxFires = 0
  HijackMayFail = FALSE
PROPERTY TakeoverCompletes
CHECK_DEADLOCK FALSE
