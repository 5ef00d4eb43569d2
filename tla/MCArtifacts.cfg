CONSTANTS
  o1 = o1
  r1 = r1
  c1 = c1
  c2 = c2
  Objects = {o1}
  Readers = {r1}
  Collectors = {c1, c2}
  Kinds = {"binding", "checkpoint"}
  Plain = {o1}
  Ttl = 3
  Margin = 2
  Nobody = Nobody
SPECIFICATION Spec
INVARIANTS BoundBytesKept ReadersProtected UploadsProtected
