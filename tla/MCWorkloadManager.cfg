SPECIFICATION Spec
CONSTANTS
  r1 = r1
  r2 = r2
  r3 = r3
  g1 = g1
  g2 = g2
  Requests = {r1, r2, r3}
  Gpus = {g1, g2}
  NoGpu = NoGpu
  GpuOf <- MCGpuOf
  HasImage <- MCHasImage
  NoRequest = NoRequest
  Absent = Absent
CHECK_DEADLOCK FALSE
INVARIANTS
  TypeOK
  AnswerAccountsForObjects
  MachineHasService
  AloneGetsItsOwn
