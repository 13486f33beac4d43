SPECIFICATION CampaignSpec
CONSTANTS
  Count = 3
  ResourceClass <- OneOfEach
  Workers = 2
  Lanes = 1
  GpuSlots = 1
  MaxSessions = 2
  MaxHead = 1
  None = None
INVARIANTS
  RootsUnderLeases
  SummaryIsTrue
  ReportsThisSource
PROPERTIES
  PoolEnds
CHECK_DEADLOCK FALSE
