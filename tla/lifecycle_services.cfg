SPECIFICATION Spec
CONSTANTS
  w1 = w1
  w2 = w2
  s1 = s1
  s2 = s2
  Workers = {w1, w2}
  NoHash = NoHash
  NoKey = NoKey
  NoHead = NoHead
  NoWorker = NoWorker
  NoLease = NoLease
  NoJob = NoJob
  Services = {s1, s2}
  ServiceOf <- TwoServices
  LeaseUsers = {}
  Runs = {r1}
  CommandTypes <- RaceCommands
  COMPLETE = 2
  Names = {n1}
  Hashes = {h1, h2}
  DeclaredKeys = {k1}
  TTL = 1
  MaxRevision = 2
  MaxTime = 1
  MaxToken = 0
  MaxDuplicates = 0
SYMMETRY DataSymmetry
INVARIANTS
  KeyCommittedOnce
  ReplayMatchesAggregate
PROPERTIES
  TerminalIsFinal
