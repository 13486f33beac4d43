SPECIFICATION Spec
CONSTANTS
  a = a
  b = b
  c = c
  Supervisors = {a, b, c}
  Requested <- OneOfEach
  RequireLlm = {b}
  StableSamples = 2
  Crashing = {a}
  NoOne = NoOne
  MaxInFlight = 1
  MaxReloads = 1
INVARIANTS
  OneForecast
  GateShutDuringForecast
PROPERTIES
  GateReopenedHealthy
  ReloadStopsForecast
  SupervisorReturns
CHECK_DEADLOCK FALSE
