CONSTANTS
  w1 = w1
  w2 = w2
  Works <- TwoWorks
  Upload = w1
  MaxFence <- UploadRetried
  Batches = 2
  NoGen = NoGen
SPECIFICATION FairSpec
INVARIANTS
  PublishedIsWhole
  OneMutator
  OwnerNotRefused
  SuccessIsPublication
  SnapshotCurrent
  LateWritesExcluded
  CheckpointKept
PROPERTIES
  KeepsDocumentPromise
  BusySettles
CHECK_DEADLOCK FALSE
