-------------------------- MODULE MCMicroVMRequests --------------------------
(***************************************************************************)
(* The requests TLC sends through MicroVMRequests: a plain microvm of each *)
(* provider, changed in any two of its parts, each part to one of a few    *)
(* values chosen for the branches of the code they take.                   *)
(***************************************************************************)
EXTENDS MicroVMRequests

Image == <<"c">>
Other == <<"c", "c">>

Vol(id, image, at) == [id |-> id, readOnly |-> FALSE, container |-> <<image>>, virtiofs |-> <<>>, mountPoint |-> at]
Shared(id, at) == [id |-> id, readOnly |-> FALSE, container |-> <<>>, virtiofs |-> << <<"dir">> >>, mountPoint |-> at]

Tap(name) == [deviceId |-> name, type |-> "TAP", guestMac |-> Nil, address |-> <<>>, overrides |-> <<>>]
Cidr(ip) == [ip |-> ip, bits |-> 24]
Static(ip, gw) == <<[address |-> Cidr(ip), gateway |-> gw]>>

Plain == [id |-> <<"a">>, namespace |-> <<"n">>, uid |-> Nil,
          kernel |-> <<[image |-> Image, filename |-> "vmlinux", addNetworkConfig |-> FALSE]>>,
          initrd |-> <<>>, vcpu |-> 2, memory |-> 2048,
          root |-> <<Vol("root", Image, Nil)>>, volumes |-> <<>>,
          ifaces |-> <<[Tap("eth1") EXCEPT !.guestMac = "aa:bb"]>>,
          metadata |-> <<>>, provider |-> Nil, agent |-> FALSE]

Meta(key, content) == [k \in {key} |-> content]
Own == [NoContent EXCEPT !.keys = {"known", "unknown"}]
Text == [NoContent EXCEPT !.base64 = FALSE]
MountedAt(device, at) == [Own EXCEPT !.mounts = <<[device |-> device, at |-> at]>>]

Ids == {<<>>, <<"a", "/", "b">>}
Kernels == {<<>>} \cup {<<k>> : k \in
  {[Plain.kernel[1] EXCEPT !.addNetworkConfig = TRUE], [Plain.kernel[1] EXCEPT !.filename = Nil],
   [Plain.kernel[1] EXCEPT !.image = <<"sp", "c", "ctl", "nl">>],
   [Plain.kernel[1] EXCEPT !.image = <<"ctl", "sp", "c">>]}}
Initrds == {<<[image |-> Image, filename |-> "initrd"]>>, <<[image |-> <<"sp">>, filename |-> Nil]>>}
Roots == {<<>>, <<Shared("root", Nil)>>, <<Vol("root", <<"c", "nl">>, Nil)>>,
          <<Vol("root", <<"ctl", "sp", "c">>, Nil)>>,
          <<[Vol("root", Image, Nil) EXCEPT !.container = <<>>]>>}
VolumeLists ==
  {<<Vol("v1", Other, "/data")>>,
   <<[Vol("v1", Image, Nil) EXCEPT !.readOnly = TRUE], Vol("v2", Other, "/data")>>,
   <<Shared("v1", "/share"), Vol("v2", Other, "/data")>>,
   <<Vol("v1", Other, Nil), Shared("v2", Nil)>>,
   <<Shared("v1", Nil), Shared("v2", Nil)>>,
   <<[Shared("v1", Nil) EXCEPT !.container = <<Image>>]>>,
   <<[Shared("v1", "/data") EXCEPT !.virtiofs = <<>>]>>,
   <<Vol("root", Other, "/data")>>}
IfaceLists ==
  {<<>>, <<Tap("bad")>>, <<Tap("eth0")>>, <<Tap("eth1"), Tap("eth1")>>,
   <<[Tap("eth1") EXCEPT !.address = Static("10.0.0.2", <<Cidr("10.0.0.1")>>)], Tap("eth2")>>,
   <<[Tap("eth1") EXCEPT !.address = Static("fd00::2", <<Cidr("fd00::1")>>), !.guestMac = "aa:bb"]>>,
   <<[Tap("eth1") EXCEPT !.address = Static("10.0.0.2", <<Cidr("bad")>>)]>>,
   <<[Tap("eth1") EXCEPT !.type = "MACVTAP", !.guestMac = "aa:bb", !.overrides = <<"br">>]>>,
   <<[Tap("eth1") EXCEPT !.type = "MACVTAP"]>>}
Metadata ==
  {Meta(InstanceDataKey, [Own EXCEPT !.instanceId = "theirs"]), Meta(InstanceDataKey, Own),
   Meta(InstanceDataKey, Text), Meta(UserdataKey, Own), Meta(UserdataKey, Text),
   Meta(VendorDataKey, Own), Meta(VendorDataKey, Text),
   Meta(VendorDataKey, MountedAt(2, "/mine")), Meta(VendorDataKey, MountedAt(3, "/data")),
   Meta(NetworkConfigDataKey, Own), Meta("other", Text)}

\* The plain request with one part set to one of its values.
Set(base, part) ==
  CASE part = "id" -> {[base EXCEPT !.id = x] : x \in Ids} \cup {[base EXCEPT !.namespace = x] : x \in Ids}
    [] part = "kernel" -> {[base EXCEPT !.kernel = x] : x \in Kernels}
    [] part = "initrd" -> {[base EXCEPT !.initrd = x] : x \in Initrds}
    [] part = "root" -> {[base EXCEPT !.root = x] : x \in Roots}
    [] part = "volumes" -> {[base EXCEPT !.volumes = x] : x \in VolumeLists}
    [] part = "ifaces" -> {[base EXCEPT !.ifaces = x] : x \in IfaceLists}
    [] part = "metadata" -> {[base EXCEPT !.metadata = x] : x \in Metadata}
    [] part = "machine" -> {[base EXCEPT !.vcpu = 0, !.memory = 0, !.agent = TRUE],
                            [base EXCEPT !.memory = 512], [base EXCEPT !.vcpu = 65]}

Parts == {"id", "kernel", "initrd", "root", "volumes", "ifaces", "metadata", "machine"}

\* Pairs of parts the code brings together: what is mounted, the network, metadata.
Together == {{"volumes", "metadata"}, {"volumes", "root"}, {"kernel", "ifaces"}, {"kernel", "metadata"},
             {"initrd", "root"}}

TwoChanges ==
  {[Plain EXCEPT !.provider = "qemu"]} \cup
  UNION {LET base == [Plain EXCEPT !.provider = p]
         IN  UNION {Set(base, part) : part \in Parts} \cup
             UNION {UNION {Set(once, b) : once \in Set(base, a)} :
                      <<a, b>> \in {x \in Parts \X Parts : {x[1], x[2]} \in Together /\ x[1] # x[2]}}
         : p \in {Nil, "cloudhypervisor"}}

=============================================================================
