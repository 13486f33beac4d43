SPECIFICATION FairSpec
CONSTANTS
  Committers = {p1, p2}
  Snapshots = {s1, s2}
  STEP_ORDER <- OneOfEachKind
  MaxFaults = 2
  NoFile = NoFile
  Nobody = Nobody
  Left = Left
INVARIANTS
  CreatedOnce
  OneSnapshotPublished
  ReceiptIsEarned
PROPERTIES
  JournalNeverRegresses
  CommitGetsThrough
