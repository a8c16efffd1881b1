---------------------------- MODULE MicroVMHost ----------------------------
(***************************************************************************)
(* What flintlock builds on the host for a microvm, and the operations of  *)
(* the services that build it: the image service (containerd snapshots),   *)
(* the network service (tap and macvtap links), the microvm providers      *)
(* (a VMM process found again through its pid file) and the state          *)
(* directories.                                                            *)
(*                                                                         *)
(* An operation is an action on these variables only.  It is given with    *)
(* its successful outcome and with the states it can leave behind when it  *)
(* fails half way; the caller decides which of them happens.               *)
(***************************************************************************)
EXTENDS MicroVMRepo

CONSTANTS NoProc,    \* no VMM process
          NoVM,      \* no owner
          RootDir    \* the root state directory

ASSUME HostFresh == NoProc \notin IfaceStatus /\ NoVM \notin VMs /\ RootDir \notin VMs

VARIABLES dirs,      \* state directories that exist
          snaps,     \* images with a snapshot prepared, per microvm
          link,      \* the microvm each host link was created for, or NoVM
          attached,  \* links that are up and, if asked for, on their bridge
          vmm,       \* the live process the pid file names: its devices, or NoProc
          killed,    \* microvms whose process in vmm has a fatal signal pending
          starting,  \* the process Create has started and not yet recorded
          orphans    \* live processes no pid file will ever name: their devices

hostVars == <<dirs, snaps, link, attached, vmm, killed, starting, orphans>>

HostTypeOK ==
  /\ dirs \subseteq VMs \cup {RootDir}
  /\ snaps \in [VMs -> SUBSET Images]
  /\ link \in [Devs -> VMs \cup {NoVM}]
  /\ attached \subseteq Devs
  /\ vmm \in [VMs -> IfaceStatus \cup {NoProc}]
  /\ killed \subseteq VMs
  /\ starting \in [VMs -> IfaceStatus \cup {NoProc}]
  /\ orphans \in [VMs -> SUBSET IfaceStatus]

HostInit ==
  /\ dirs = {} /\ attached = {} /\ killed = {}
  /\ snaps = [v \in VMs |-> {}]
  /\ link = [d \in Devs |-> NoVM]
  /\ vmm = [v \in VMs |-> NoProc]
  /\ starting = [v \in VMs |-> NoProc]
  /\ orphans = [v \in VMs |-> {}]

-----------------------------------------------------------------------------
\* Directories: createDirectory and deleteDirectory.  The pid file lives in
\* the directory of the microvm, so deleting the directory forgets the pid.
MakeDir(d) ==
  /\ dirs' = dirs \cup {d}
  /\ UNCHANGED <<snaps, link, attached, vmm, killed, starting, orphans>>

RemoveDir(v) ==
  /\ dirs' = dirs \ {v}
  /\ vmm' = [vmm EXCEPT ![v] = NoProc]
  /\ killed' = killed \ {v}
  /\ orphans' = IF vmm[v] = NoProc \/ v \in killed THEN orphans
                ELSE [orphans EXCEPT ![v] = @ \cup {vmm[v]}]
  /\ UNCHANGED <<snaps, link, attached, starting>>

\* PullAndMount: an existing snapshot is used again, so that repeating a
\* mount that failed after Prepare succeeds.
PullAndMount(v, i) ==
  /\ snaps' = [snaps EXCEPT ![v] = @ \cup {i}]
  /\ UNCHANGED <<dirs, link, attached, vmm, killed, starting, orphans>>

\* ReleaseLease: the synchronous delete of the lease lets containerd collect
\* everything it protects, snapshots included (and the spec, see the plan).
CollectSnapshots(v) ==
  /\ snaps' = [snaps EXCEPT ![v] = {}]
  /\ UNCHANGED <<dirs, link, attached, vmm, killed, starting, orphans>>

-----------------------------------------------------------------------------
\* Links.  IfaceExists reports every lookup error as "does not exist":
\* getIface compares the error with an empty LinkNotFoundError, which no
\* returned error equals (blind).
IfaceExists(d, blind) == ~blind /\ d # NoDev /\ link[d] # NoVM

\* NewIfaceName: a generated name that no link has.
FreshName(d) == link[d] = NoVM

\* IfaceCreate up to LinkAdd, and through LinkSetUp and LinkSetMaster.
LinkAdd(v, d) ==
  /\ link' = [link EXCEPT ![d] = v]
  /\ UNCHANGED <<dirs, snaps, attached, vmm, killed, starting, orphans>>

IfaceCreate(v, d) ==
  /\ link' = [link EXCEPT ![d] = v]
  /\ attached' = attached \cup {d}
  /\ UNCHANGED <<dirs, snaps, vmm, killed, starting, orphans>>

IfaceDelete(d) ==
  /\ link' = [link EXCEPT ![d] = NoVM]
  /\ attached' = attached \ {d}
  /\ UNCHANGED <<dirs, snaps, vmm, killed, starting, orphans>>

-----------------------------------------------------------------------------
\* The providers.  State is "pending" without a live process behind the pid
\* file, and "running" with one, dying or not.
Running(v) == vmm[v] # NoProc

\* Create up to the start of the VMM, which gets the devices of the status.
\* Nothing on disk tells of the process yet.
StartVMM(v, devices) ==
  /\ dirs' = dirs \cup {v}
  /\ starting' = [starting EXCEPT ![v] = devices]
  /\ UNCHANGED <<snaps, link, attached, vmm, killed, orphans>>

\* SetPid: the pid file names the process just started.
SetPid(v) ==
  /\ vmm' = [vmm EXCEPT ![v] = starting[v]]
  /\ killed' = killed \ {v}
  /\ starting' = [starting EXCEPT ![v] = NoProc]
  /\ UNCHANGED <<dirs, snaps, link, attached, orphans>>

\* SetPid fails, or flintlockd dies before it: the started processes live on
\* and nothing records them.
LosePids ==
  /\ orphans' = [v \in VMs |-> orphans[v] \cup ({starting[v]} \ {NoProc})]
  /\ starting' = [v \in VMs |-> NoProc]
  /\ UNCHANGED <<dirs, snaps, link, attached, vmm, killed>>

\* Delete signals the process and waits.  The wait ends with the process gone
\* when it is a child of this flintlockd; for a process started before a
\* restart the wait is cut short with the signal still pending.
Terminated(v) ==
  /\ vmm' = [vmm EXCEPT ![v] = NoProc]
  /\ killed' = killed \ {v}
  /\ UNCHANGED <<dirs, snaps, link, attached, starting, orphans>>

Signalled(v) ==
  /\ Running(v)
  /\ killed' = killed \cup {v}
  /\ UNCHANGED <<dirs, snaps, link, attached, vmm, starting, orphans>>

\* Something of the microvm is left on the host, a dying process apart.
Leftovers(v) ==
  \/ v \in dirs
  \/ snaps[v] # {}
  \/ Running(v) /\ v \notin killed
  \/ \E d \in Devs : link[d] = v

=============================================================================
