SPECIFICATION Spec
CONSTANTS
  w1 = w1
  w2 = w2
  s1 = s1
  s2 = s2
  Workers = {w1, w2}
  NoHash = NoHash
  NoKey = NoKey
  NoHead = NoHead
  NoWorker = NoWorker
  NoLease = NoLease
  NoJob = NoJob
  Services = {s1}
  ServiceOf <- OneService
  LeaseUsers = {w1, w2}
  Runs = {r1}
  CommandTypes <- ProgressCommands
  COMPLETE = 2
  Names = {}
  Hashes = {}
  DeclaredKeys = {}
  TTL = 1
  MaxRevision = 2
  MaxTime = 2
  MaxToken = 2
  MaxDuplicates = 1
SYMMETRY WorkerSymmetry
INVARIANTS
  TokensUnique
  FencedLog
  NoHandlerAfterCommit
PROPERTIES
  NoMutationAfterTakeover
