CONSTANTS
  Jobs = {"regen", "again"}
  Items = {"r1", "s1"}
  Docs = {"d1"}
  JobOf <- MCJobOf
  DocOf <- MCDocOf
  Kind <- MCKind
  NeedsApproval = {"regen"}
  MaxPending = 2
  MaxDocuments = 1
  Others = {"d1"}
SPECIFICATION FairSpec
PROPERTY JobsEnd
