---------------------------- MODULE MicroVMRepo ----------------------------
(***************************************************************************)
(* infrastructure/containerd/repo.go: microvm specs as versioned blobs in  *)
(* the containerd content store.                                           *)
(*                                                                         *)
(* Save adds a blob labelled with the next version of the copy the CALLER  *)
(* holds; Get returns the blob with the highest version.  The blobs of a   *)
(* microvm disappear together, with its snapshots, when its lease is       *)
(* released.  The model keeps, for each microvm, only the blob that Get    *)
(* returns: a blob that loses against it is never read again.              *)
(*                                                                         *)
(* The gRPC server and the controller each build a repository of their own *)
(* (run.go, InitializePorts), so the per-microvm mutex of one does not     *)
(* exclude the other.  Two callers can Save copies of the same version.    *)
(***************************************************************************)
EXTENDS Naturals

CONSTANTS VMs,           \* microvm UIDs, each generated once
          Images,        \* images (volumes, kernel, initrd) of every microvm
          Ifaces,        \* network interfaces of every microvm
          Devs,          \* names NewIfaceName can generate
          NoDev,         \* empty HostDeviceName
          NoSpec,        \* nil *models.MicroVM
          MaximumRetry   \* config.MaximumRetry

ASSUME MaximumRetryNat == MaximumRetry \in Nat
ASSUME NoDevFresh == NoDev \notin Devs

VARIABLE store           \* the blob Get returns for each microvm, or NoSpec

\* models.MicroVMState, as stored.
States == {"pending", "created", "failed", "deleting"}

IfaceStatus == [Ifaces -> Devs \cup {NoDev}]

\* models.MicroVM reduced to what the control flow reads: Version, DeletedAt
\* (set or not), Status.State, Status.Retry, Status.NotBefore (set or not),
\* the volumes, kernel and initrd with a mount in the status, and the
\* HostDeviceName of each interface status.
Specs ==
  [version   : Nat,
   deleted   : BOOLEAN,
   state     : States,
   retry     : Nat,
   notBefore : BOOLEAN,
   mounts    : SUBSET Images,
   ifaces    : IfaceStatus]

ASSUME NoSpecFresh == NoSpec \notin Specs

StoreTypeOK == store \in [VMs -> Specs \cup {NoSpec}]

\* The spec CreateMicroVM saves.
NewSpec ==
  [version |-> 0, deleted |-> FALSE, state |-> "pending", retry |-> 0,
   notBefore |-> FALSE, mounts |-> {}, ifaces |-> [n \in Ifaces |-> NoDev]]

-----------------------------------------------------------------------------
\* cmp.Diff of Spec and of Status are both empty; Version is in neither.
SameContent(s, t) == [s EXCEPT !.version = 0] = [t EXCEPT !.version = 0]

\* findDigestForSpec after blob new joins blob cur: the higher version, and
\* between equal versions whichever the content store walks first.
Visible(cur, new) ==
  IF cur = NoSpec THEN {new}
  ELSE {s \in {cur, new} : s.version >= cur.version /\ s.version >= new.version}

\* microvm.Version++ on the caller's copy.
Written(mvm) == [mvm EXCEPT !.version = @ + 1]

\* The blobs that Get may return once Save(mvm) has succeeded on cur.
Save(cur, mvm) ==
  IF cur # NoSpec /\ SameContent(cur, mvm)
    THEN {cur}
    ELSE Visible(cur, Written(mvm))

\* Save of a copy with a new timestamp in it (DeletedAt, NotBefore): it
\* differs from the stored blob unless both were taken in the same second.
SaveStamped(cur, mvm) == Save(cur, mvm) \cup Visible(cur, Written(mvm))

=============================================================================
