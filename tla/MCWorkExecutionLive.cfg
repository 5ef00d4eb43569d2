CONSTANTS
  i1 = i1
  i2 = i2
  w1 = w1
  w2 = w2
  Items = {i1}
  Procs = {w1, w2}
  Compatible <- AllKinds
  LeaseTime = 2
  MaxDelay = 1
  MaxAttempts = 2
  MaxFence = 1
  MaxEpoch = 1
  MaxEffects = 1
  Nobody = Nobody
  NoClaim = NoClaim
SPECIFICATION FairExec
PROPERTIES CancelSettlesOpen
