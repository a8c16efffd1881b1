CONSTANTS
  VMs = {v1, v2}
  Images = {i1}
  Ifaces = {n1}
  Devs = {d1}
  NoDev = NoDev
  NoSpec = NoSpec
  NoProc = NoProc
  NoVM = NoVM
  RootDir = RootDir
  MaximumRetry = 0
  AutoStart = TRUE
  PatientClient = TRUE
  Budget <- OneDelete
SPECIFICATION Spec
PROPERTIES
  Settles
  DeleteHonoured
