CONSTANTS
  o1 = o1
  r1 = r1
  c1 = c1
  c2 = c2
  Objects = {o1}
  Readers = {}
  Collectors = {c1, c2}
  Kinds = {"binding", "checkpoint"}
  Plain = {}
  Ttl = 1
  Margin = 0
  Nobody = Nobody
SPECIFICATION FairSpec
PROPERTY GarbageGoes
