SPECIFICATION Spec
CONSTANTS
  Conn = {w1, w2, w3}
  Uid = {alice}
  Addr = {home, work}
  Ticker = ticker
  Nobody = nobody
  Cap = 2
  MaxFires = 1
  HijackMayFail = TRUE
SYMMETRY Symmetry
INVARIANTS MapMatchesThreads OneAddressPerNick SupersededAreTold OnePictureQueued NoSilentExit WaitsOnlyInCrowds
PROPERTY LeaseSpec
CHECK_DEADLOCK FALSE
