------------------------------ MODULE VMMConfig ------------------------------
(***************************************************************************)
(* What a VMM is started with: the cloud-init data flintlockd writes or    *)
(* rewrites (core/application/commands.go, core/steps/cloudinit,           *)
(* infrastructure/microvm/shared/network.go), firecracker's configuration  *)
(* and metadata files, and cloud-hypervisor's arguments and cloud-init     *)
(* image.  Everything here is a pure operator on a model of MicroVMSpecs.  *)
(*                                                                         *)
(* An item of metadata is a record of what the code reads and writes in    *)
(* it: whether it is base64, the instance id, the mounts (disk number,     *)
(* where 1 is vda, and mount point), the other keys (those that            *)
(* userdata.UserData has a field for and those it has not), and the        *)
(* interfaces of a network-config.  Both providers' configurations are     *)
(* records of the same shape, the hardware as the guest finds it.          *)
(***************************************************************************)
EXTENDS MicroVMSpecs

InstanceDataKey == "meta-data"
VendorDataKey == "vendor-data"
UserdataKey == "user-data"
NetworkConfigDataKey == "network-config"

CloudInitKeys == {InstanceDataKey, VendorDataKey, UserdataKey, NetworkConfigDataKey}

NoContent == [base64 |-> TRUE, instanceId |-> "", mounts |-> <<>>, keys |-> {}, eth |-> {}]

With(metadata, key, content) ==
  [k \in DOMAIN metadata \cup {key} |-> IF k = key THEN content ELSE metadata[k]]

\* The two providers' Capabilities.
Capabilities(provider) ==
  IF provider = "firecracker" THEN {"metadata-service", "vsock"}
                              ELSE {"auto-start", "macvtap", "virtiofs", "vsock"}

-----------------------------------------------------------------------------
\* What CreateMicroVM adds to the spec

\* Mutant: virtiofs is not looked at.
SupportedNet(vm) ==
  LET caps == Capabilities(vm.provider)
  IN  /\ "macvtap" \in caps \/ \A i \in DOMAIN vm.ifaces : vm.ifaces[i].type # "macvtap"
      /\ vm.agent => "vsock" \in caps

\* checkProviderCapabilities.
Supported(vm) ==
  LET caps == Capabilities(vm.provider)
  IN  /\ "macvtap" \in caps \/ \A i \in DOMAIN vm.ifaces : vm.ifaces[i].type # "macvtap"
      /\ "virtiofs" \in caps \/ \A i \in DOMAIN vm.volumes : vm.volumes[i].virtiofs = <<>>
      /\ vm.agent => "vsock" \in caps

\* Mutant: the client's meta-data without an instance id is replaced.
NewInstanceData(vm) ==
  LET given == IF InstanceDataKey \in DOMAIN vm.metadata
                 THEN vm.metadata[InstanceDataKey] ELSE NoContent
  IN  IF ~given.base64 THEN <<>>
      ELSE <<[vm EXCEPT !.metadata = With(@, InstanceDataKey,
                IF given.instanceId # "" THEN given ELSE [NoContent EXCEPT !.instanceId = "uid"])]>>

\* addInstanceData: the client's instance id stays, another one is the UID.
\* <<>> when the client's meta-data is not base64.
AddInstanceData(vm) ==
  LET given == IF InstanceDataKey \in DOMAIN vm.metadata
                 THEN vm.metadata[InstanceDataKey] ELSE NoContent
  IN  CASE ~given.base64 -> <<>>
        [] given.base64 /\ given.instanceId # "" -> <<vm>>
        [] OTHER -> <<[vm EXCEPT !.metadata =
                         With(@, InstanceDataKey, [given EXCEPT !.instanceId = "uid"])]>>

MetadataInterfaceName == "eth0"
MetadataMAC == "AA:FF:00:00:00:01"

\* addMetadataInterface, for a provider with a metadata service.
AddMetadataInterface(vm) ==
  IF "metadata-service" \notin Capabilities(vm.provider)
     \/ \E i \in DOMAIN vm.ifaces : vm.ifaces[i].guestDeviceName = MetadataInterfaceName
  THEN vm
  ELSE [vm EXCEPT !.ifaces =
         <<[guestDeviceName |-> MetadataInterfaceName, allowMetadata |-> TRUE,
            guestMAC |-> MetadataMAC, type |-> "tap", bridge |-> "",
            address |-> <<[address |-> [ip |-> "169.254.0.1", bits |-> 16], gateway |-> <<>>]>>]>>
         \o @]

-----------------------------------------------------------------------------
\* core/steps/cloudinit/disk_mount.go

HasMountableVolumes(volumes) == \E i \in DOMAIN volumes : volumes[i].mountPoint # ""
HasMountByName(content, device) == \E i \in DOMAIN content.mounts : content.mounts[i].device = device
HasMountByMountPoint(content, at) == \E i \in DOMAIN content.mounts : content.mounts[i].at = at

\* Mutant: the vendor-data is not looked at.
ShouldAlwaysMount(vm) == IF HasMountableVolumes(vm.volumes) THEN "yes" ELSE "no"

\* ShouldDo is true, false, or an error: vendor-data that is not base64.
ShouldMountDisks(vm) ==
  LET mounted == {i \in DOMAIN vm.volumes : vm.volumes[i].mountPoint # ""}
      Source(id) == IF id \in DOMAIN vm.status.volumes THEN vm.status.volumes[id] ELSE <<>>
  IN  CASE mounted = {} -> "no"
        [] mounted # {} /\ \E i \in mounted : Source(vm.volumes[i].id) = <<>> -> "yes"
        [] mounted # {} /\ VendorDataKey \notin DOMAIN vm.metadata
                        /\ \A i \in mounted : Source(vm.volumes[i].id) # <<>> -> "yes"
        [] OTHER ->
             LET vendorData == vm.metadata[VendorDataKey]
             IN  CASE ~vendorData.base64 -> "error"
                   [] vendorData.base64 /\ \E i \in mounted :
                        ~HasMountByMountPoint(vendorData, vm.volumes[i].mountPoint) -> "yes"
                   [] OTHER -> "no"

\* Mutant: the root volume is not counted.
MountDisksFromZero(vm) ==
  LET given == IF VendorDataKey \in DOMAIN vm.metadata THEN vm.metadata[VendorDataKey] ELSE NoContent
      Add(content, i) ==
        IF vm.volumes[i].mountPoint = "" \/ HasMountByName(content, i) THEN content
        ELSE [content EXCEPT !.mounts = Append(@, [device |-> i, at |-> vm.volumes[i].mountPoint])]
      known == [NoContent EXCEPT !.mounts = given.mounts, !.keys = given.keys \cap {"known"}]
  IN  IF ~given.base64 THEN <<>>
      ELSE <<[vm EXCEPT !.metadata = With(@, VendorDataKey,
                FoldLeft(Add, known, [i \in DOMAIN vm.volumes |-> i]))]>>

\* Do: the k-th additional volume is taken to be disk k + 1.  The client's
\* vendor-data is read into a UserData, which keeps the keys it knows.  <<>> for
\* an error.
MountDisks(vm) ==
  LET given == IF VendorDataKey \in DOMAIN vm.metadata THEN vm.metadata[VendorDataKey] ELSE NoContent
      Add(content, i) ==
        IF vm.volumes[i].mountPoint = "" \/ HasMountByName(content, i + 1) THEN content
        ELSE [content EXCEPT !.mounts = Append(@, [device |-> i + 1, at |-> vm.volumes[i].mountPoint])]
      known == [NoContent EXCEPT !.mounts = given.mounts, !.keys = given.keys \cap {"known"}]
  IN  IF ~given.base64 THEN <<>>
      ELSE <<[vm EXCEPT !.metadata = With(@, VendorDataKey,
                FoldLeft(Add, known, [i \in DOMAIN vm.volumes |-> i]))]>>

-----------------------------------------------------------------------------
\* infrastructure/microvm/shared/network.go

IPv4 == {"10.0.0.1", "10.0.0.2", "169.254.0.1"}

\* configureStaticEthernet, with IsIPv4 and IP of models.IPAddressCIDR.
StaticEthernet(eth, address) ==
  LET gw == IF address.gateway = <<>> THEN <<>> ELSE <<address.gateway[1].ip>>
  IN  [eth EXCEPT !.addresses = <<address.address>>, !.dhcp = FALSE,
                  !.gateway4 = SelectSeq(gw, LAMBDA ip : ip \in IPv4),
                  !.gateway6 = SelectSeq(gw, LAMBDA ip : ip \notin IPv4)]

\* Mutant: the host's MAC is taken for a tap too.
EthernetOfHost(vm, n) ==
  LET mac == vm.status.ifaces[n.guestDeviceName].mac
      dhcp == [name |-> n.guestDeviceName, mac |-> mac,
               matchName |-> IF mac = "" THEN n.guestDeviceName ELSE "",
               addresses |-> <<>>, gateway4 |-> <<>>, gateway6 |-> <<>>, dhcp |-> TRUE]
  IN  IF n.address = <<>> THEN dhcp ELSE StaticEthernet(dhcp, n.address[1])

\* getMacAddress and one turn of GenerateNetworkConfig's loop.
Ethernet(vm, n) ==
  LET mac == IF n.type = "macvtap" THEN vm.status.ifaces[n.guestDeviceName].mac ELSE n.guestMAC
      dhcp == [name |-> n.guestDeviceName, mac |-> mac,
               matchName |-> IF mac = "" THEN n.guestDeviceName ELSE "",
               addresses |-> <<>>, gateway4 |-> <<>>, gateway6 |-> <<>>, dhcp |-> TRUE]
  IN  IF n.address = <<>> THEN dhcp ELSE StaticEthernet(dhcp, n.address[1])

\* The status map has an entry for every interface.
IfacesKnown(vm) ==
  \A i \in DOMAIN vm.ifaces : vm.ifaces[i].guestDeviceName \in DOMAIN vm.status.ifaces

\* GenerateNetworkConfig: a map by name, in which a later interface replaces an
\* earlier one.
GenerateNetworkConfig(vm) ==
  {Ethernet(vm, vm.ifaces[i]) : i \in {j \in DOMAIN vm.ifaces :
      \A k \in DOMAIN vm.ifaces : k > j => vm.ifaces[k].guestDeviceName # vm.ifaces[j].guestDeviceName}}

-----------------------------------------------------------------------------
\* The guest's hardware

\* The status has every volume's mount, the first look-up of both providers.
VolumesKnown(vm) ==
  /\ vm.root.id \in DOMAIN vm.status.volumes
  /\ \A i \in DOMAIN vm.volumes : vm.volumes[i].id \in DOMAIN vm.status.volumes

\* base64.DecodeString on what is base64, the text itself otherwise.
Decoded(content) == [content EXCEPT !.base64 = FALSE]

\* createNetworkIface: IfaceID, HostDevName, GuestMAC.
CreateNetworkIface(vm, n) ==
  LET status == vm.status.ifaces[n.guestDeviceName]
  IN  [id |-> n.guestDeviceName, host |-> status.host,
       mac |-> IF n.type = "macvtap" /\ n.guestMAC = "" THEN status.mac ELSE n.guestMAC]

\* CreateConfig(WithMicroVM, WithState, WithVsock) and SetMetadata: the values
\* that are base64 are decoded, the others are used as they are.
FirecrackerConfig(vm) ==
  LET Drive(vol) == [source |-> vm.status.volumes[vol.id], readOnly |-> vol.readOnly]
  IN  IF ~IfacesKnown(vm) \/ ~VolumesKnown(vm) THEN <<>>
      ELSE <<[vcpu |-> vm.vcpu, memory |-> vm.memory, shared |-> FALSE,
              kernel |-> vm.status.kernelMount, filename |-> vm.kernel.filename,
              initrd |-> IF vm.initrd = <<>> THEN <<>> ELSE vm.status.initrdMount,
              disks |-> <<Drive(vm.root)>> \o [i \in DOMAIN vm.volumes |-> Drive(vm.volumes[i])],
              fs |-> 0, strays |-> 0,
              nics |-> [i \in DOMAIN vm.ifaces |-> CreateNetworkIface(vm, vm.ifaces[i])],
              mmds |-> {vm.ifaces[i].guestDeviceName :
                          i \in {j \in DOMAIN vm.ifaces : vm.ifaces[j].allowMetadata}},
              cmdline |-> IF vm.kernel.addNetworkConfig THEN <<GenerateNetworkConfig(vm)>> ELSE <<>>,
              metadata |-> [k \in DOMAIN vm.metadata |-> Decoded(vm.metadata[k])],
              vsock |-> vm.agent]>>

\* diskService.Create: fails on a file whose content is not base64.
DiskCreate(files) ==
  IF \E k \in DOMAIN files : ~files[k].base64 THEN <<>>
  ELSE <<[k \in DOMAIN files |-> Decoded(files[k])]>>

\* createCloudInitImage writes the generated network-config into the spec ...
CloudInitVM(vm) ==
  IF ~vm.kernel.addNetworkConfig THEN vm
  ELSE [vm EXCEPT !.metadata =
          With(@, NetworkConfigDataKey, [NoContent EXCEPT !.eth = GenerateNetworkConfig(vm)])]

\* ... and then the cloud-init keys into the image.
CloudInitFiles(vm) == DiskCreate([k \in DOMAIN vm.metadata \cap CloudInitKeys |-> vm.metadata[k]])

\* The image with the cloud-init files, as the source of a disk.
CloudInitImage == << <<"cloud-init">> >>

\* createMacvtapArg and the tap case: host device and MAC.
NetArg(vm, n) ==
  [id |-> n.guestDeviceName, host |-> vm.status.ifaces[n.guestDeviceName].host, mac |-> n.guestMAC]

\* buildArgs.  --disk takes the paths that follow it, up to the next flag: the
\* root volume, the cloud-init image and the container volumes up to a virtiofs
\* volume, whose --fs takes the rest.
CloudHypervisorArgs(vm, files) ==
  LET isFs(i) == vm.volumes[i].virtiofs # <<>>
      fs == {i \in DOMAIN vm.volumes : isFs(i)}
      Path(vol) == [source |-> vm.status.volumes[vol.id], readOnly |-> FALSE]
      before == SelectSeq([i \in DOMAIN vm.volumes |-> i], LAMBDA i : \A j \in fs : i < j)
  IN  IF ~IfacesKnown(vm) \/ ~VolumesKnown(vm) THEN <<>>
      ELSE <<[vcpu |-> vm.vcpu, memory |-> vm.memory, shared |-> fs # {},
              kernel |-> vm.status.kernelMount, filename |-> vm.kernel.filename, initrd |-> <<>>,
              disks |-> <<Path(vm.root), [source |-> CloudInitImage, readOnly |-> TRUE]>>
                        \o [i \in DOMAIN before |-> Path(vm.volumes[before[i]])],
              fs |-> Cardinality(fs),
              strays |-> Len(vm.volumes) - Len(before) - Cardinality(fs),
              nics |-> [i \in DOMAIN vm.ifaces |-> NetArg(vm, vm.ifaces[i])],
              mmds |-> {}, cmdline |-> <<>>, metadata |-> files, vsock |-> vm.agent]>>

\* Create dereferences the kernel mount without looking: firecracker's when its
\* look-ups are done, cloud-hypervisor's once the cloud-init image is written.
Panics(vm) ==
  IF vm.provider = "firecracker"
    THEN /\ IfacesKnown(vm) /\ VolumesKnown(vm)
         /\ vm.status.kernelMount = <<>> \/ (vm.initrd # <<>> /\ vm.status.initrdMount = <<>>)
    ELSE /\ vm.kernel.addNetworkConfig => IfacesKnown(vm)
         /\ CloudInitFiles(CloudInitVM(vm)) # <<>>
         /\ vm.status.kernelMount = <<>>

\* Both providers' Create up to the start of the process, if it does not panic:
\* the model it leaves and the configuration, <<>> for an error.
ProviderCreate(vm) ==
  LET ready == CloudInitVM(vm)
      files == CloudInitFiles(ready)
      WithVSock(v) == [v EXCEPT !.status.vsock = v.agent]
      Result(v, config) == [vm |-> v, config |-> config]
  IN  CASE vm.provider = "firecracker" /\ FirecrackerConfig(vm) = <<>> -> Result(vm, <<>>)
        [] vm.provider = "firecracker" /\ FirecrackerConfig(vm) # <<>> ->
             Result(WithVSock(vm), FirecrackerConfig(vm))
        [] vm.provider # "firecracker" /\ vm.kernel.addNetworkConfig /\ ~IfacesKnown(vm) ->
             Result(vm, <<>>)
        [] OTHER -> IF files = <<>> THEN Result(ready, <<>>)
                    ELSE Result(WithVSock(ready), CloudHypervisorArgs(ready, files[1]))

=============================================================================
