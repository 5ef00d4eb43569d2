CONSTANTS
  o1 = o1
  o2 = o2
  Owners = {o1, o2}
  MaxLimit = 2
  Ttl = 1
  MaxHold = 2
  MaxFence = 2
  MaxRenew = 1
  Nobody = Nobody
SPECIFICATION Spec
PROPERTIES KeepsSemaphore LostForever
