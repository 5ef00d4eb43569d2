CONSTANTS
  Jobs = {"regen", "wipe"}
  Items = {"r1", "r2", "x1"}
  Docs = {"d1", "d2"}
  JobOf <- MCJobOf
  DocOf <- MCDocOf
  Kind <- MCKind
  NeedsApproval = {"wipe"}
  MaxPending = 2
  MaxDocuments = 1
  Others = {"d1"}
SPECIFICATION Spec
INVARIANTS JobsAgree DocumentsQuiet
PROPERTY EndedJobsStay
