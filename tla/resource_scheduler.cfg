SPECIFICATION Spec
CONSTANTS
  c1 = c1
  g1 = g1
  g2 = g2
  g3 = g3
  x1 = x1
  x2 = x2
  Tasks = {c1, g1, g2, g3, x1, x2}
  Class <- MCClass
  CpuLanes = 1
  DeviceCount = 3
  DeviceSlots <- MCDeviceSlots
  NoTask = NoTask
INVARIANTS
  SlotsConserved
  StatusWithinSlots
PROPERTIES
  ImplementsAdmission
  EveryTaskEnds
