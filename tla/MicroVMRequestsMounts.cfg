SPECIFICATION SafeSpec
CONSTANTS
  Requests <- TwoChanges
  Providers = {"firecracker", "cloudhypervisor"}
  DefaultProvider = "firecracker"
  MaximumRetry = 1
  MaxFaults = 1
INVARIANT MountsNameTheirDisk
