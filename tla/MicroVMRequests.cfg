SPECIFICATION Spec
CONSTANTS
  Requests <- TwoChanges
  Providers = {"firecracker", "cloudhypervisor"}
  DefaultProvider = "firecracker"
  MaximumRetry = 1
  MaxFaults = 1
INVARIANTS
  TypeOK
  DisksAreTheVolumes
  FirecrackerMounts
  GuestFindsItsNetwork
  MetadataReachesGuest
  
  
PROPERTIES
  WorkerFinishes
