SPECIFICATION PostSpec
CONSTANTS
  Req = {q1, q2, boss}
  Ip = {home, work}
  Token = {t1, t2}
  Forged = forged
  Cap = 1
  Admin = {boss}
  Bytes <- MCBytes
  Kept = {"letter", "dash", "wide", "bad"}
  Return = "return"
  Newline = "newline"
  Bad = "bad"
  MaxName = 3
  MaxText = 5
  MaxLines = 2
  Base = 2
  RandomTails <- MCRandomTails
  Inputs <- MCInputs
  Nicks <- MCNicks
  Sender = {q1, q2, boss}
  Notice = notice
  Limit = 2
  Ctrs = 3
  MaxNow = 2
  MaxLoads = 1
SYMMETRY Symmetry
INVARIANTS TokenOnce OnePerCooldown OneTimerPerAddress LengthLimited TextsStay
           InOrder NewestKept ShownIsStored SortedOnce
CHECK_DEADLOCK FALSE
