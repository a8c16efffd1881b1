--------------------------- MODULE MicroVMRequests ---------------------------
(***************************************************************************)
(* A microvm from the client's request to its running VMM, with the data   *)
(* that MicroVMPlans and Reconciler abstract from: the request is cleaned, *)
(* converted, validated, completed and saved (grpc/server.go,              *)
(* application/commands.go); the worker loads it, and the steps of the     *)
(* create plan fill in its status and rewrite its metadata, each looking   *)
(* at what the ones before it left, until the provider turns all of it     *)
(* into the VMM's configuration.  Attempts fail, flintlockd crashes and    *)
(* VMMs die in between.                                                    *)
(***************************************************************************)
EXTENDS VMMConfig

CONSTANTS Requests,         \* the MicroVMSpecs a client sends
          Providers,        \* providers enabled on this host
          DefaultProvider,  \* used when the request names none
          MaximumRetry,     \* failed attempts before a microvm is failed
          MaxFaults         \* crashes, failures and VMM deaths in one behaviour

ASSUME BoundsAssumption == MaximumRetry \in Nat /\ MaxFaults \in Nat
ASSUME ProvidersAssumption ==
  Providers \subseteq {"firecracker", "cloudhypervisor"} /\ DefaultProvider \in Providers

VARIABLES
  req,     \* the request, as the client sent it
  pc,      \* where the request or the worker is
  repo,    \* the saved model, <<>> before
  vm,      \* the worker's copy in memory, <<>> outside of an attempt
  plan,    \* steps of the plan under way still to run
  ran,     \* the attempt has run a step
  host,    \* [images, snapshots, links, drawn]: what the steps made on the host
  vmm,     \* the running VMM's configuration, <<>> when there is none
  faults   \* crashes, failures and deaths so far

vars == <<req, pc, repo, vm, plan, ran, host, vmm, faults>>

Steps == {"virtiofs", "volume", "kernel", "initrd", "disk_mount", "iface", "create"}

TypeOK ==
  /\ pc \in {"request", "rejected", "saved", "unreadable", "plan", "run", "panic", "done", "failed"}
  /\ Len(repo) <= 1 /\ Len(vm) <= 1 /\ Len(vmm) <= 1
  /\ pc \in {"plan", "run"} <=> vm # <<>>
  /\ \A i \in DOMAIN repo : repo[i].status.state \in {"pending", "created", "failed"}
                           /\ repo[i].status.retry \in 0 .. MaximumRetry + 1
                           /\ repo[i].provider \in Providers
  /\ \A i \in DOMAIN plan : plan[i][1] \in Steps /\ plan[i][2] \in Nat
  /\ ran \in BOOLEAN
  /\ DOMAIN host.links \subseteq 1 .. host.drawn
  /\ faults \in 0 .. MaxFaults

Init ==
  /\ req \in Requests
  /\ pc = "request" /\ repo = <<>> /\ vm = <<>> /\ plan = <<>> /\ ran = FALSE
  /\ host = [images |-> {}, snapshots |-> <<>>, links |-> <<>>, drawn |-> 0]
  /\ vmm = <<>> /\ faults = 0

-----------------------------------------------------------------------------
\* The request

\* server.CreateMicroVM with app.CreateMicroVM: <<>> for any of their error
\* returns, else the model that is saved.
Accept(spec) ==
  LET model == ToModel(Sanitize(spec))
      chosen == [m \in DOMAIN model |-> [model[m] EXCEPT
                   !.provider = IF @ = "" THEN DefaultProvider ELSE @, !.id.uid = <<"uid">>]]
      added == IF chosen = <<>> \/ ~ValidateStruct(model[1]) \/ chosen[1].provider \notin Providers
                  \/ ~Supported(chosen[1])
               THEN <<>> ELSE AddInstanceData(chosen[1])
  IN  [m \in DOMAIN added |->
         [AddMetadataInterface(added[m]) EXCEPT !.status.state = "pending", !.status.retry = 0]]

\* Repo.Save: the model as JSON, in which the id is its text.
Saved(model) == [model EXCEPT !.id = MarshalVMID(@)]

Create ==
  /\ pc = "request"
  /\ LET accepted == Accept(req)
     IN  /\ pc' = IF accepted = <<>> THEN "rejected" ELSE "saved"
         /\ repo' = [m \in DOMAIN accepted |-> Saved(accepted[m])]
  /\ UNCHANGED <<req, vm, plan, ran, host, vmm, faults>>

\* Repo.Get: <<>> when the id cannot be read back from its text.
Loaded ==
  LET id == UnmarshalVMID(repo[1].id)
  IN  [i \in DOMAIN id |-> [repo[1] EXCEPT !.id = id[i]]]

\* server.GetMicroVM and ListMicroVMs: what a client is told of the microvm now.
GetMicroVM == [i \in DOMAIN Loaded |-> [spec |-> ToAPI(Loaded[i]), status |-> StatusToAPI(Loaded[i])]]

-----------------------------------------------------------------------------
\* Attempts and plans

\* Mutant: the retries are not counted out.
LoadForEver ==
  /\ pc = "saved"
  /\ LET loaded == Loaded
     IN  pc' = (IF loaded = <<>> THEN "unreadable" ELSE "plan") /\ vm' = loaded
  /\ plan' = <<>> /\ ran' = FALSE
  /\ UNCHANGED <<req, repo, host, vmm, faults>>

\* ReconcileMicroVM reads the spec; one that cannot be read is never worked on, and
\* one that has used up its retries becomes failed.
Load ==
  /\ pc = "saved"
  /\ LET loaded == Loaded
         final == loaded # <<>> /\ loaded[1].status.retry > MaximumRetry
     IN  /\ pc' = IF loaded = <<>> THEN "unreadable" ELSE IF final THEN "failed" ELSE "plan"
         /\ vm' = IF final THEN <<>> ELSE loaded
         /\ repo' = IF final THEN <<[repo[1] EXCEPT !.status.state = "failed"]>> ELSE repo
  /\ plan' = <<>> /\ ran' = FALSE
  /\ UNCHANGED <<req, host, vmm, faults>>

\* The saved status has no entry for a volume or an interface: it gets an empty one.
Entries(map, keys, empty) == [k \in DOMAIN map \cup keys |-> IF k \in DOMAIN map THEN map[k] ELSE empty]

NoIface == [host |-> 0, mac |-> ""]

\* ensureStatus and the entries the add...Steps functions make.
EnsureStatus(v) ==
  LET named == {i \in DOMAIN v.volumes : v.volumes[i].container # <<>>
                  \/ (v.volumes[i].virtiofs # <<>> /\ "virtiofs" \in Capabilities(v.provider))}
  IN  [v EXCEPT !.status.state = "pending",
         !.status.volumes = Entries(@, {v.root.id} \cup {v.volumes[i].id : i \in named}, <<>>),
         !.status.ifaces  = Entries(@, {v.ifaces[i].guestDeviceName : i \in DOMAIN v.ifaces}, NoIface)]

\* The steps of the plan in their order, before they are asked.  Volume 0 is the root.
AllSteps(v) ==
  LET One(kind, present) == IF present THEN << <<kind, 0>> >> ELSE <<>>
      Each(kind, which) == LET order == SetToSortSeq(which, <)
                           IN  [i \in DOMAIN order |-> <<kind, order[i]>>]
      fromImage == {i \in DOMAIN v.volumes : v.volumes[i].container # <<>>}
      shared == {i \in DOMAIN v.volumes :
                   v.volumes[i].virtiofs # <<>> /\ "virtiofs" \in Capabilities(v.provider)}
  IN  Each("virtiofs", shared) \o One("volume", v.root.container # <<>>)
      \o Each("volume", fromImage)
      \o One("kernel", v.kernel.image # <<>>) \o One("initrd", v.initrd # <<>>)
      \o One("disk_mount", v.volumes # <<>>) \o Each("iface", DOMAIN v.ifaces)
      \o One("create", TRUE)

Volume(v, s) == IF s[2] = 0 THEN v.root ELSE v.volumes[s[2]]

\* Mutant: the snapshot's name leaves out which volume it is for.
MountSpecOfVM(v, s) ==
  CASE s[1] = "kernel" -> [image |-> v.kernel.image, use |-> "kernel", id |-> "kernel"]
    [] s[1] = "initrd" -> [image |-> v.initrd[1].image, use |-> "kernel", id |-> "initrd"]
    [] OTHER -> [image |-> Volume(v, s).container[1], use |-> "volume", id |-> "volume"]

\* getMountSpec of the three mount steps: image, and the snapshot's name with its
\* snapshotter.
MountSpec(v, s) ==
  CASE s[1] = "kernel" -> [image |-> v.kernel.image, use |-> "kernel", id |-> "kernel"]
    [] s[1] = "initrd" -> [image |-> v.initrd[1].image, use |-> "kernel", id |-> "initrd"]
    [] OTHER -> [image |-> Volume(v, s).container[1], use |-> "volume", id |-> Volume(v, s).id]

\* The mount a status has for a step.
MountOf(v, s) ==
  CASE s[1] = "kernel" -> v.status.kernelMount
    [] s[1] = "initrd" -> v.status.initrdMount
    [] OTHER -> v.status.volumes[Volume(v, s).id]

IsMounted(m) == m.image \in host.images /\ <<m.use, m.id>> \in DOMAIN host.snapshots

\* ShouldDo of every step.
ShouldDo(v, s) ==
  CASE s[1] = "virtiofs" -> v.status.volumes[Volume(v, s).id] = <<>>
    [] s[1] \in {"volume", "kernel", "initrd"} ->
         MountOf(v, s) = <<>> \/ ~IsMounted(MountSpec(v, s))
    [] s[1] = "disk_mount" -> ShouldMountDisks(v) = "yes"
    [] s[1] = "iface" -> v.status.ifaces[v.ifaces[s[2]].guestDeviceName].host \notin DOMAIN host.links
    [] s[1] = "create" -> vmm = <<>>

Errs(v, s) == s[1] = "disk_mount" /\ ShouldMountDisks(v) = "error"

\* reschedule: the attempt ends with an error, the model is saved as it is, and
\* tried again later.
Fail(v) ==
  /\ repo' = <<Saved([v EXCEPT !.status.retry = @ + 1])>>
  /\ pc' = "saved" /\ vm' = <<>> /\ plan' = <<>>

\* plan.Create.  When nothing is left to do the attempt is over, and what it did,
\* if anything, is saved.
MakePlan ==
  /\ pc = "plan"
  /\ LET v == EnsureStatus(vm[1])
         steps == SelectSeq(AllSteps(v), LAMBDA s : ShouldDo(v, s))
     IN  IF \E i \in DOMAIN AllSteps(v) : Errs(v, AllSteps(v)[i])
           THEN Fail([v EXCEPT !.status.ifaces = vm[1].status.ifaces]) /\ UNCHANGED ran
         ELSE IF steps # <<>>
         THEN pc' = "run" /\ plan' = steps /\ vm' = <<v>> /\ UNCHANGED <<repo, ran>>
         ELSE /\ pc' = "done" /\ vm' = <<>> /\ plan' = <<>> /\ UNCHANGED ran
              /\ repo' = IF ran THEN <<Saved([v EXCEPT !.status.state = "created",
                                                       !.status.retry = 0])>> ELSE repo
  /\ UNCHANGED <<req, host, vmm, faults>>

-----------------------------------------------------------------------------
\* The steps' Do

\* The plan goes on with v as the model.
Proceed(v) == vm' = <<v>> /\ plan' = Tail(plan) /\ ran' = TRUE /\ UNCHANGED <<pc, repo>>

AtStep(kinds) ==
  /\ pc = "run" /\ plan # <<>> /\ plan[1][1] \in kinds
  /\ ShouldDo(vm[1], plan[1])

\* react: a step is asked again and may have nothing to do any more; at the end
\* of the plan executePlan asks for another one.
Skip ==
  /\ pc = "run"
  /\ IF plan = <<>> THEN pc' = "plan" /\ UNCHANGED plan
     ELSE ~ShouldDo(vm[1], plan[1]) /\ ~Errs(vm[1], plan[1]) /\ plan' = Tail(plan) /\ UNCHANGED pc
  /\ UNCHANGED <<req, repo, vm, ran, host, vmm, faults>>

\* containerd pulls what is a clean reference.
Pulls(image) == image # <<>> /\ \A i \in DOMAIN image : image[i] = "c"

\* volumeMount.Do, kernelMount.Do, initrdMount.Do with PullAndMount: a snapshot that
\* has the name is taken, whatever image it was made of.
Mount ==
  /\ AtStep({"volume", "kernel", "initrd"})
  /\ LET s == plan[1]
         m == MountSpec(vm[1], s)
         key == <<m.use, m.id>>
         snapshots == Entries(host.snapshots, {key}, m.image)
         mount == <<snapshots[key]>>
     IN  IF ~Pulls(m.image) THEN Fail(vm[1]) /\ UNCHANGED <<host, ran>>
         ELSE /\ host' = [host EXCEPT !.images = @ \cup {m.image}, !.snapshots = snapshots]
              /\ Proceed(CASE s[1] = "kernel" -> [vm[1] EXCEPT !.status.kernelMount = mount]
                           [] s[1] = "initrd" -> [vm[1] EXCEPT !.status.initrdMount = mount]
                           [] OTHER -> [vm[1] EXCEPT !.status.volumes[Volume(vm[1], s).id] = mount])
  /\ UNCHANGED <<req, vmm, faults>>

\* volumeVirtioFSMount.Do: the mount's source is virtiofsd's socket.
ShareDir ==
  /\ AtStep({"virtiofs"})
  /\ Proceed([vm[1] EXCEPT !.status.volumes[Volume(vm[1], plan[1]).id] = << <<"socket">> >>])
  /\ UNCHANGED <<req, host, vmm, faults>>

\* diskMountStep.Do.
DiskMount ==
  /\ pc = "run" /\ plan # <<>> /\ plan[1][1] = "disk_mount"
  /\ ShouldDo(vm[1], plan[1]) \/ Errs(vm[1], plan[1])
  /\ LET mounted == IF Errs(vm[1], plan[1]) THEN <<>> ELSE MountDisks(vm[1])
     IN  IF mounted = <<>> THEN Fail(vm[1]) /\ UNCHANGED ran ELSE Proceed(mounted[1])
  /\ UNCHANGED <<req, host, vmm, faults>>

\* strings.ToUpper on a MAC.
Upper(mac) == IF mac = "aa:bb" THEN "AA:BB" ELSE mac

\* createInterface.Do with IfaceCreate: the name is drawn once, a macvtap link has
\* the guest's MAC if one is given, and what is reported of any link is upper case.
IfaceNamed(v) ==
  LET name == v.ifaces[plan[1][2]].guestDeviceName
  IN  IF v.status.ifaces[name].host # 0 THEN v
      ELSE [v EXCEPT !.status.ifaces[name].host = host.drawn + 1]

NewIface ==
  /\ AtStep({"iface"})
  /\ LET n == vm[1].ifaces[plan[1][2]]
         v == IfaceNamed(vm[1])
         link == v.status.ifaces[n.guestDeviceName].host
         mac == IF n.type = "macvtap" /\ n.guestMAC # "" THEN Upper(n.guestMAC) ELSE "GENERATED"
     IN  /\ host' = [host EXCEPT !.links = Entries(@, {link}, mac),
                                 !.drawn = IF link > @ THEN link ELSE @]
         /\ Proceed([v EXCEPT !.status.ifaces[n.guestDeviceName].mac = mac])
  /\ UNCHANGED <<req, vmm, faults>>

\* createStep.Do.  A panic of the worker ends flintlockd; after its restart the
\* microvm is loaded again and it panics again.
CreateVMM ==
  /\ AtStep({"create"})
  /\ IF Panics(vm[1])
       THEN pc' = "panic" /\ vm' = <<>> /\ plan' = <<>> /\ UNCHANGED <<repo, ran, vmm>>
       ELSE LET made == ProviderCreate(vm[1])
            IN  /\ vmm' = made.config
                /\ IF made.config = <<>> THEN Fail(made.vm) /\ UNCHANGED ran ELSE Proceed(made.vm)
  /\ UNCHANGED <<req, host, faults>>

-----------------------------------------------------------------------------
\* What goes wrong

Fault == faults < MaxFaults /\ faults' = faults + 1

\* A step's call fails: containerd, netlink, the file system.  An interface keeps
\* the name it was given.
StepError ==
  /\ AtStep({"virtiofs", "volume", "kernel", "initrd", "iface", "create"}) /\ Fault
  /\ IF plan[1][1] = "iface"
       THEN /\ Fail(IfaceNamed(vm[1]))
            /\ host' = [host EXCEPT !.drawn = IF IfaceNamed(vm[1]) = vm[1] THEN @ ELSE @ + 1]
       ELSE Fail(vm[1]) /\ UNCHANGED host
  /\ UNCHANGED <<req, ran, vmm>>

\* flintlockd dies and starts again.
Crash ==
  /\ pc \in {"plan", "run"} /\ Fault
  /\ pc' = "saved" /\ vm' = <<>> /\ plan' = <<>>
  /\ UNCHANGED <<req, repo, ran, host, vmm>>

\* The VMM dies and a resync brings the microvm back to the worker.
VMMExit ==
  /\ pc = "done" /\ vmm # <<>> /\ Fault
  /\ pc' = "saved" /\ vmm' = <<>>
  /\ UNCHANGED <<req, repo, vm, plan, ran, host>>

Worker == Load \/ MakePlan \/ Skip \/ Mount \/ ShareDir \/ DiskMount \/ NewIface \/ CreateVMM

\* Nothing more happens to the request.
Finished == pc \in {"rejected", "unreadable", "panic", "done", "failed"} /\ UNCHANGED vars

Next == Create \/ Worker \/ StepError \/ Crash \/ VMMExit \/ Finished

SafeSpec == Init /\ [][Next]_vars

\* The handler returns, and the worker comes back to the microvm.  The two are never
\* enabled together.
Spec == SafeSpec /\ WF_vars(Create \/ Worker)

-----------------------------------------------------------------------------
\* The volumes of the request that get a disk, root first, and their images: what
\* is left of a reference without white space around it and control characters.
ImageOf(vol) == [i \in DOMAIN vol.container |-> CleanImage(vol.container[i])]
OnDisk == [i \in DOMAIN req.root |-> req.root[i]] \o SelectSeq(req.volumes, LAMBDA v : v.container # <<>>)

\* Two volumes of one name share a snapshot and a status.
DistinctIds ==
  LET all == req.root \o req.volumes
  IN  \A i, j \in DOMAIN all : i # j => all[i].id # all[j].id

\* The disks of the VMM that hold volumes.
VolumeDisks == SelectSeq(vmm[1].disks, LAMBDA d : d.source # CloudInitImage)

\* The guest has one disk for the root volume and each container volume, in the
\* order of the request, each made of its own image, and on firecracker with its
\* read-only flag, however often the steps were repeated on the way.  Volumes with
\* one name, and container volumes that come after a virtiofs volume, are excepted.
DisksAreTheVolumes ==
  vmm # <<>> /\ DistinctIds /\ vmm[1].strays = 0 /\ req.root # <<>> =>
    /\ Len(VolumeDisks) = Len(OnDisk)
    /\ \A i \in DOMAIN OnDisk :
         /\ VolumeDisks[i].source = ImageOf(OnDisk[i])
         /\ repo[1].provider = "firecracker" => VolumeDisks[i].readOnly = OnDisk[i].readOnly

\* The client's vendor-data, if it can be read.
ClientVendorData ==
  IF VendorDataKey \in DOMAIN req.metadata THEN req.metadata[VendorDataKey] ELSE NoContent

\* The client mounts something itself where flintlockd has a disk to mount.
VendorConflict ==
  \E i \in DOMAIN req.volumes :
    /\ Get(req.volumes[i].mountPoint, "") # ""
    /\ HasMountByName(ClientVendorData, i + 1)
    /\ ~HasMountByMountPoint(ClientVendorData, req.volumes[i].mountPoint)

\* "Device number is always +1 as we have the root volume first": the device that
\* the guest is told to mount at a volume's mount point is that volume's disk.
MountsNameTheirDisk ==
  vmm # <<>> /\ DistinctIds /\ ClientVendorData.mounts = <<>> =>
    \A i \in DOMAIN req.volumes :
      Get(req.volumes[i].mountPoint, "") # "" =>
        \E m \in ToSet(vmm[1].metadata[VendorDataKey].mounts) :
          /\ m.at = req.volumes[i].mountPoint
          /\ m.device \in DOMAIN vmm[1].disks
          /\ vmm[1].disks[m.device].source = ImageOf(req.volumes[i])

\* On firecracker, which has no disks besides the volumes, that is so.
FirecrackerMounts == repo # <<>> /\ repo[1].provider = "firecracker" => MountsNameTheirDisk

\* The network configuration the guest is given, by kernel argument or cloud-init.
NetworkConfig ==
  IF vmm[1].cmdline # <<>> THEN vmm[1].cmdline[1] ELSE vmm[1].metadata[NetworkConfigDataKey].eth

DistinctIfaces ==
  \A i, j \in DOMAIN req.ifaces : i # j => req.ifaces[i].deviceId # req.ifaces[j].deviceId

\* A generated network configuration describes the interfaces the guest has: each
\* of them is matched by the MAC its VMM gave it or, without one, by name, has the
\* addresses and gateway of the request and asks DHCP only without them.  Excepted
\* are a cloud-hypervisor macvtap interface without a MAC in the request, and
\* interfaces of one name.
GuestFindsItsNetwork ==
  vmm # <<>> /\ DistinctIfaces /\ req.kernel[1].addNetworkConfig =>
    /\ Cardinality(NetworkConfig) = Len(vmm[1].nics)
    /\ \A i \in DOMAIN req.ifaces :
         LET asked == req.ifaces[i]
             nic == vmm[1].nics[Len(vmm[1].nics) - Len(req.ifaces) + i]
             eth == CHOOSE e \in NetworkConfig : e.name = asked.deviceId
         IN  /\ \/ Upper(eth.mac) = Upper(nic.mac)
                \/ asked.type = "MACVTAP" /\ Get(asked.guestMac, "") = ""
             /\ eth.mac = "" <=> eth.matchName = nic.id
             /\ eth.dhcp <=> asked.address = <<>>
             /\ \A a \in ToSet(asked.address) :
                  /\ eth.addresses = <<a.address>>
                  /\ \A g \in ToSet(a.gateway) : <<g.ip>> = IF g.ip \in IPv4 THEN eth.gateway4 ELSE eth.gateway6

\* What flintlockd replaces of the client's metadata.
Replaced(key) ==
  \/ key = NetworkConfigDataKey /\ req.kernel[1].addNetworkConfig
  \/ key \notin CloudInitKeys

\* The guest can read the cloud-init data the client sent: every item is there,
\* decoded, with the client's instance id (or the UID where there is none), its
\* mounts and its keys; only vendor-data that flintlockd adds mounts to loses the
\* keys that UserData does not know.  firecracker's metadata service has an
\* interface, unless the client has taken its name.
MetadataReachesGuest ==
  vmm # <<>> =>
    /\ vmm[1].metadata[InstanceDataKey].instanceId # ""
    /\ \A k \in DOMAIN req.metadata :
         LET sent == req.metadata[k]
             got == vmm[1].metadata[k]
         IN  Replaced(k) \/ /\ k \in DOMAIN vmm[1].metadata /\ ~got.base64
                            /\ sent.instanceId \in {"", got.instanceId}
                            /\ ToSet(sent.mounts) \subseteq ToSet(got.mounts)
                            /\ sent.keys \subseteq got.keys \cup
                                 (IF k = VendorDataKey /\ HasMountableVolumes(repo[1].volumes)
                                    THEN {"unknown"} ELSE {})
    /\ repo[1].provider = "firecracker" =>
         vmm[1].mmds # {} \/ \E i \in DOMAIN req.ifaces : req.ifaces[i].deviceId = MetadataInterfaceName

NoSlash == \A i \in DOMAIN req.id \cup DOMAIN req.namespace :
             /\ i \in DOMAIN req.id => req.id[i] # "/"
             /\ i \in DOMAIN req.namespace => req.namespace[i] # "/"

\* What a client is told of its microvm is what it asked for, at any time: the
\* worker's saves and the conversions there and back keep the name, the machine,
\* the images, every volume and interface in order, and the metadata flintlockd
\* has no part in.  A name or namespace with a "/" cannot be read back at all.
AnswerKeepsSpec ==
  repo # <<>> /\ NoSlash =>
    /\ GetMicroVM # <<>>
    /\ LET told == GetMicroVM[1].spec
           lead == Len(told.ifaces) - Len(req.ifaces)
       IN  /\ told.id = req.id /\ told.namespace = IF req.namespace = <<>> THEN <<"default">> ELSE req.namespace
           /\ told.vcpu = OrDefault(req.vcpu, 2) /\ told.memory = OrDefault(req.memory, 1024)
           /\ told.agent = req.agent
           /\ \A k \in DOMAIN req.kernel :
                told.kernel[1].image = CleanImage(req.kernel[k].image)
                /\ told.kernel[1].filename = Get(req.kernel[k].filename, "")
           /\ Len(told.volumes) = Len(req.volumes)
           /\ \A i \in DOMAIN req.volumes :
                /\ told.volumes[i].id = req.volumes[i].id
                /\ told.volumes[i].readOnly = req.volumes[i].readOnly
                /\ told.volumes[i].container = ImageOf(req.volumes[i])
                /\ told.volumes[i].virtiofs = req.volumes[i].virtiofs
           /\ lead \in {0, 1}
           /\ \A i \in DOMAIN req.ifaces :
                LET n == told.ifaces[lead + i]
                IN  /\ n.deviceId = req.ifaces[i].deviceId /\ n.type = req.ifaces[i].type
                    /\ n.guestMac = Get(req.ifaces[i].guestMac, "") /\ n.address = req.ifaces[i].address
           /\ \A k \in DOMAIN req.metadata :
                k \in {InstanceDataKey, VendorDataKey, NetworkConfigDataKey}
                  \/ told.metadata[k] = req.metadata[k]

\* What the validation lets through and no attempt can build: no kernel, a volume
\* with no source or an image that cannot be pulled, and on cloud-hypervisor (or
\* for vendor-data that gets mounts) metadata that is not base64.
Buildable ==
  LET mounts == \E i \in DOMAIN req.volumes : Get(req.volumes[i].mountPoint, "") # ""
      images == [i \in DOMAIN req.kernel |-> CleanImage(req.kernel[i].image)]
                \o [i \in DOMAIN req.initrd |-> CleanImage(req.initrd[i].image)]
  IN  /\ req.kernel # <<>> /\ \A i \in DOMAIN images : Pulls(images[i])
      /\ \A v \in ToSet(req.root \o req.volumes) : \A i \in DOMAIN v.container : Pulls(ImageOf(v)[i])
      /\ \A v \in ToSet(req.volumes) : v.container # <<>> \/ v.virtiofs # <<>>
      /\ \A k \in DOMAIN req.metadata :
           \/ req.metadata[k].base64 \/ k \notin CloudInitKeys
           \/ repo[1].provider = "firecracker" /\ ~(k = VendorDataKey /\ mounts)

\* A spec that was accepted is built: as long as no more calls fail than there are
\* retries, no microvm becomes failed and none takes flintlockd down, whatever the
\* spec asks for, except for the shortcomings above.
AcceptedIsBuilt ==
  pc \in {"failed", "panic"} /\ faults <= MaximumRetry => ~Buildable

\* The worker finishes with every spec: it does not go round in a plan that never
\* gets empty, unless the client's vendor-data mounts a disk flintlockd has to mount.
WorkerFinishes ==
  (pc = "saved") ~> (pc \in {"unreadable", "done", "failed", "panic"} \/ VendorConflict)

=============================================================================
