CONSTANTS
  i1 = i1
  i2 = i2
  w1 = w1
  w2 = w2
  Items = {i1}
  Procs = {w1, w2}
  Compatible <- AllKinds
  LeaseTime = 1
  MaxDelay = 1
  MaxAttempts = 2
  MaxFence = 3
  MaxEpoch = 1
  MaxEffects = 2
  Nobody = Nobody
  NoClaim = NoClaim
SPECIFICATION ExecSpec
INVARIANTS CancelNotStranded AttemptsAccounted OpenTransactionHoldsRow EffectsInOrder
PROPERTIES LostForever TransactionsAtomic KeepsPromiseOpen
