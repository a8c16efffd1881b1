CONSTANTS
  VMs = {v1}
  Images = {i1}
  Ifaces = {n1}
  Devs = {d1}
  NoDev = NoDev
  NoSpec = NoSpec
  NoProc = NoProc
  NoVM = NoVM
  RootDir = RootDir
  MaximumRetry = 1
  AutoStart = TRUE
  PatientClient = FALSE
  Budget <- AnyFailure
SPECIFICATION SafeSpec
CONSTRAINT SaveOrCrash
INVARIANTS
  TypeOK
  GoneStaysDeleted
  
  AnnouncedIsGone
  Deletion
PROPERTIES
  RetriesSpaced
  FailedIsFinal
