------------------------ MODULE MCMicroVMProcesses ------------------------
(***************************************************************************)
(* The providers for the TLC run of MicroVMProcesses.                      *)
(***************************************************************************)
EXTENDS MicroVMProcesses

Both == {"firecracker", "cloudhypervisor"}

=============================================================================
