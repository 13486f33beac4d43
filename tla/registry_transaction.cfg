SPECIFICATION Spec
CONSTANTS
  a1 = a1
  a2 = a2
  modelA = modelA
  modelB = modelB
  Operators = {p1, p2}
  Bootstrappers = {b1}
  Auths = {a1, a2}
  Nonces = {n1, n2}
  Subject <- TwoModels
  MaxTries = 2
  NoOne = NoOne
INVARIANTS
  EvidenceIsTrue
  StaleStaysOut
PROPERTIES
  ImplementsRegister
  InvocationsReturn
CHECK_DEADLOCK FALSE
