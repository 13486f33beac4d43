SPECIFICATION Spec
CONSTANTS
  a = a
  b = b
  c = c
  Supervisors = {a, b, c}
  Requested <- OneOfEach
  RequireLlm = {b}
  StableSamples = 2
  Crashing = {}
  NoOne = NoOne
  MaxInFlight = 1
  MaxReloads = 0
INVARIANT NothingRestoredOverForecast
CHECK_DEADLOCK FALSE
