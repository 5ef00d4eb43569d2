CONSTANTS
  e1 = e1
  e2 = e2
  e3 = e3
  p1 = p1
  p2 = p2
  Rows = {e1, e2, e3}
  Procs = {p1, p2}
  Invalid = {e3}
  Unwritable = {e2}
  Page = 1
  Nobody = Nobody
  Ghost = Ghost
SPECIFICATION FairSpec
INVARIANTS DuplicatesExplained
PROPERTIES SettlesOnce Delivered
