---------------------------- MODULE MicroVMSpecs ----------------------------
(***************************************************************************)
(* What a client asks for and what flintlockd makes of it: the API's       *)
(* MicroVMSpec (api/types), the model (core/models), the conversions       *)
(* between them (infrastructure/grpc/convert.go, sanitize.go), the         *)
(* identifier and its text form (vmid.go), and the validation              *)
(* (pkg/validation).  Everything here is a pure operator.                  *)
(*                                                                         *)
(* An optional message or pointer is a sequence of at most one element,    *)
(* an optional string that becomes "" is Nil or a string.  A text that the *)
(* code looks into (an image reference, an identifier) is a sequence of    *)
(* marks, one for each kind of character that is treated differently; the  *)
(* other texts are names from small sets, and "bad" is one that its        *)
(* validator refuses.  Labels, sizes, partitions, nameservers and the      *)
(* kernel's cmdline, which are copied and never read, are left out.        *)
(***************************************************************************)
EXTENDS Integers, Sequences, FiniteSets, SequencesExt

Nil == "nil"

Get(opt, default) == IF opt = Nil THEN default ELSE opt

-----------------------------------------------------------------------------
\* sanitize.go

\* Marks of an image reference: an ordinary character, a space, white space that
\* is also a control character (newline, tab), another control character.
Marks == {"c", "sp", "nl", "ctl"}

TrimSpace(raw) ==
  LET solid == {i \in DOMAIN raw : raw[i] \notin {"sp", "nl"}}
  IN  IF solid = {} THEN <<>> ELSE SubSeq(raw, Min(solid), Max(solid))

\* cleanContainerImageReference: trims first and drops control characters then.
CleanImage(raw) == SelectSeq(TrimSpace(raw), LAMBDA m : m \notin {"nl", "ctl"})

\* sanitizeVolumeImage.
SanitizeVolume(v) == [v EXCEPT !.container = [i \in DOMAIN @ |-> CleanImage(@[i])]]

\* sanitizeMicroVMImageReferences.
Sanitize(spec) ==
  [spec EXCEPT
     !.kernel  = [i \in DOMAIN @ |-> [@[i] EXCEPT !.image = CleanImage(@)]],
     !.initrd  = [i \in DOMAIN @ |-> [@[i] EXCEPT !.image = CleanImage(@)]],
     !.root    = [i \in DOMAIN @ |-> SanitizeVolume(@[i])],
     !.volumes = [i \in DOMAIN @ |-> SanitizeVolume(@[i])]]

-----------------------------------------------------------------------------
\* vmid.go.  The parts of an identifier are sequences too: a part may contain
\* the separator.

\* NewVMID: <<>> when the name is missing.
NewVMID(name, namespace, uid) ==
  IF name = <<>> THEN <<>>
  ELSE <<[name |-> name, namespace |-> IF namespace = <<>> THEN <<"default">> ELSE namespace,
          uid |-> uid]>>

\* Mutant: the name comes before the namespace.
NameFirst(id) == id.name \o <<"/">> \o id.namespace \o <<"/">> \o id.uid

\* String and MarshalText.
MarshalVMID(id) == id.namespace \o <<"/">> \o id.name \o <<"/">> \o id.uid

\* strings.Split(id, "/").
Split(text) ==
  LET slashes == {i \in DOMAIN text : text[i] = "/"}
      Part(from) == LET next == {i \in slashes : i > from} \cup {Len(text) + 1}
                    IN  SubSeq(text, from + 1, Min(next) - 1)
  IN  [n \in 1 .. Cardinality(slashes) + 1 |->
         Part(CHOOSE i \in slashes \cup {0} : Cardinality({j \in slashes : j <= i}) = n - 1)]

\* UnmarshalText and NewVMIDFromString: <<>> for an error.
UnmarshalVMID(text) ==
  LET parts == Split(text)
  IN  IF Len(parts) # 3 \/ \E i \in DOMAIN parts : parts[i] = <<>>
        THEN <<>>
        ELSE <<[namespace |-> parts[1], name |-> parts[2], uid |-> parts[3]]>>

-----------------------------------------------------------------------------
\* convert.go, from the API to the model

NoKernel == [image |-> <<>>, filename |-> "", addNetworkConfig |-> FALSE]
NoVolume == [id |-> "", readOnly |-> FALSE, container |-> <<>>, virtiofs |-> <<>>, mountPoint |-> ""]

\* convertVolumeToModel.
VolumeToModel(v) ==
  [id |-> v.id, readOnly |-> v.readOnly, container |-> v.container,
   virtiofs |-> v.virtiofs, mountPoint |-> Get(v.mountPoint, "")]

\* convertNetworkInterfaceToModel.  The bridge is read through the overrides,
\* which are taken to name one.
IfaceToModel(n) ==
  [guestDeviceName |-> n.deviceId, allowMetadata |-> FALSE, guestMAC |-> Get(n.guestMac, ""),
   type |-> IF n.type = "MACVTAP" THEN "macvtap" ELSE "tap",
   address |-> n.address, bridge |-> IF n.overrides = <<>> THEN "" ELSE n.overrides[1]]

OrDefault(n, default) == IF n = 0 THEN default ELSE n

NewStatus == [state |-> "", retry |-> 0, volumes |-> <<>>, kernelMount |-> <<>>,
              initrdMount |-> <<>>, ifaces |-> <<>>, vsock |-> FALSE]

\* convertMicroVMToModel: <<>> for an error.
ToModel(spec) ==
  LET k == IF spec.kernel = <<>> THEN [image |-> <<>>, filename |-> Nil, addNetworkConfig |-> FALSE]
           ELSE spec.kernel[1]
      id == NewVMID(spec.id, spec.namespace, Get(spec.uid, <<>>))
  IN  [i \in DOMAIN id |->
        [id |-> id[i],
         kernel |-> [k EXCEPT !.filename = Get(@, "")],
         initrd |-> [j \in DOMAIN spec.initrd |->
                       [spec.initrd[j] EXCEPT !.filename = Get(@, "")]],
         vcpu |-> OrDefault(spec.vcpu, 2), memory |-> OrDefault(spec.memory, 1024),
         root |-> IF spec.root = <<>> THEN NoVolume ELSE VolumeToModel(spec.root[1]),
         volumes |-> [j \in DOMAIN spec.volumes |-> VolumeToModel(spec.volumes[j])],
         ifaces |-> [j \in DOMAIN spec.ifaces |-> IfaceToModel(spec.ifaces[j])],
         metadata |-> spec.metadata,
         provider |-> Get(spec.provider, ""), agent |-> spec.agent,
         status |-> NewStatus]]

-----------------------------------------------------------------------------
\* convert.go, from the model to the API

\* convertModelToVolumne; it leaves the mount point out.
VolumeToAPI(v) ==
  [id |-> v.id, readOnly |-> v.readOnly, container |-> v.container,
   virtiofs |-> v.virtiofs, mountPoint |-> Nil]

\* convertModelToNetworkInterface; it leaves the bridge out.
IfaceToAPI(n) ==
  [deviceId |-> n.guestDeviceName, type |-> IF n.type = "macvtap" THEN "MACVTAP" ELSE "TAP",
   guestMac |-> n.guestMAC, address |-> n.address, overrides |-> <<>>]

\* convertModelToMicroVMSpec; it leaves the provider out.
ToAPI(vm) ==
  [id |-> vm.id.name, namespace |-> vm.id.namespace, uid |-> vm.id.uid,
   kernel |-> <<vm.kernel>>, initrd |-> vm.initrd,
   vcpu |-> vm.vcpu, memory |-> vm.memory,
   root |-> IF vm.root = NoVolume THEN <<>> ELSE <<VolumeToAPI(vm.root)>>,
   volumes |-> [i \in DOMAIN vm.volumes |-> VolumeToAPI(vm.volumes[i])],
   ifaces |-> [i \in DOMAIN vm.ifaces |-> IfaceToAPI(vm.ifaces[i])],
   metadata |-> vm.metadata, provider |-> Nil, agent |-> vm.agent]

\* convertModelToMicroVMStatus with its helpers: an unknown state becomes PENDING,
\* the zero value.
StatusToAPI(vm) ==
  [state |-> CASE vm.status.state = "created" -> "CREATED" [] vm.status.state = "failed" -> "FAILED"
               [] vm.status.state = "deleting" -> "DELETING" [] OTHER -> "PENDING",
   volumes |-> vm.status.volumes, kernelMount |-> vm.status.kernelMount,
   initrdMount |-> vm.status.initrdMount, ifaces |-> vm.status.ifaces, retry |-> vm.status.retry,
   vsock |-> vm.status.vsock]

-----------------------------------------------------------------------------
\* pkg/validation and the validate tags of the model

\* containerd's reference.Parse, the imageURI validator.  The first mark stands
\* for the registry, which must not have a blank; the path may.
ParsesAsImage(image) == image # <<>> /\ image[1] = "c"

\* The kernel is tagged omitempty: an all-empty one is not looked at.
ValidKernel(k) == k = NoKernel \/ (ParsesAsImage(k.image) /\ k.filename # "")

\* The tags of NetworkInterface and StaticAddress.
ValidIface(n) ==
  /\ n.guestDeviceName \notin {"", "bad"}
  /\ n.guestMAC # "bad"
  /\ \A i \in DOMAIN n.address :
       /\ n.address[i].address.ip # "bad"
       /\ \A j \in DOMAIN n.address[i].gateway : n.address[i].gateway[j].ip # "bad"

\* customNoVirtioFSValidator, customOnlyOneVirtioFSValidator, customMultipleVolSources.
ValidVolumes(vm) ==
  /\ vm.root.virtiofs = <<>>
  /\ Cardinality({i \in DOMAIN vm.volumes : vm.volumes[i].virtiofs # <<>>}) <= 1
  /\ \A i \in DOMAIN vm.volumes : vm.volumes[i].container = <<>> \/ vm.volumes[i].virtiofs = <<>>

\* ValidateStruct: the tags of MicroVMSpec and
\* customMicroVMSpecStructLevelValidation.  A missing list of interfaces is nil.
ValidateStruct(vm) ==
  /\ vm.vcpu \in 1 .. 64 /\ vm.memory \in 1024 .. 32768
  /\ ValidKernel(vm.kernel)
  /\ \A i \in DOMAIN vm.initrd : ParsesAsImage(vm.initrd[i].image)
  /\ vm.ifaces # <<>> /\ \A i \in DOMAIN vm.ifaces : ValidIface(vm.ifaces[i])
  /\ ValidVolumes(vm)
  /\ vm.initrd # <<>> \/ vm.root # NoVolume

=============================================================================
