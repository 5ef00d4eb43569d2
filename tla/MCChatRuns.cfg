CONSTANTS
  r1 = r1
  r2 = r2
  s1 = s1
  s2 = s2
  p1 = p1
  Runs = {r1, r2}
  Sessions = {s1, s2}
  Previews = {p1}
  Limit = 1
  Ttl = 2
  RenewBelow = 1
  Page = 2
  Nobody = Nobody
SPECIFICATION FairSpec
INVARIANTS StoriesAgree OneRunPerSession LiveRunsHoldSlots
PROPERTIES HistoryIsFinal SlotsNotStolen OrphansSettle
