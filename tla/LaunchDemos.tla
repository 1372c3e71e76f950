----------------------------- MODULE LaunchDemos -----------------------------
(***************************************************************************)
(* The eight boot images of lantern-boot as launch descriptions (see       *)
(* Launch).  The LETs name root objects by the order in which each run     *)
(* creates them, as its *_root_cptr variables do.                          *)
(***************************************************************************)
EXTENDS Platform, Sequences

(* 2^56 - 1, the value of both GRANTER_BADGE and CONTROL_BADGE; badges are *)
(* only compared, so a number no other badge uses stands for it.           *)
TOP_BADGE == 56
GRANTER_BADGE == TOP_BADGE
CONTROL_BADGE == TOP_BADGE

Endpoint     == [op |-> "Endpoint", src |-> 0, rights |-> "ALL", badge |-> 0]
Notification == [Endpoint EXCEPT !.op = "Notification"]
Mint(src, rights, badge) ==
  [op |-> "Mint", src |-> src, rights |-> rights, badge |-> badge]

(* The megapages the shipped ELF files touch (their linker scripts): all   *)
(* have code and constants at BASE_ADDRESS, most .data a megapage above.   *)
BASE_ADDRESS == 540672                      \* 0x8400_0000
Code == <<[vaddr |-> BASE_ADDRESS, perms |-> {"R", "X"}]>>
CodeAndData == Code \o <<[vaddr |-> BASE_ADDRESS + Mega, perms |-> {"R", "W"}]>>

To(from, slot) == [from |-> from, to |-> slot]

Program(name, arg0, image, grants) ==
  [name |-> name, image |-> image, arg0 |-> arg0, grants |-> grants,
   selfCNode |-> {}, heap |-> 0, arena |-> {}]
WithSelf(program) == [program EXCEPT !.selfCNode = {0}]
WithHeap(program) == [program EXCEPT !.heap = 1]
WithArena(program, megapages) ==
  [program EXCEPT !.arena =
     {[megapages |-> megapages, selfVSpace |-> 6, frameBase |-> 7]}]

(* arg0: the hello roles; a service's profile, with the flag that tells it *)
(* to wait for the binder; the length of the package; what grant-control   *)
(* expects to find (an interface, and the operations above it).            *)
PROFILE_AEAD == 0
PROFILE_SIGNING == 1
BINDER_LAUNCHED == 256
(* Mutant: the flag is forgotten.                                          *)
Untold(profile) == profile
Launched(profile) == profile + BINDER_LAUNCHED
PROBE_LPKG == 221122
FS_PROBE_LPKG == 288509
SignOnly == 1 + 4 * 256
ReadWrite == 2 + 3 * 256

MappedAt(p, vaddr) == [prog |-> p, vaddr |-> vaddr]
FRAME_VADDR == 589824                       \* 0x9000_0000
CLIENT_FRAME_VADDR_ON_STORE == 589840       \* 0x9001_0000
POLICY_FLASH_PADDR == 139264                \* 0x2200_0000
POLICY_FLASH_VADDR == 606208                \* 0x9400_0000

Shared(a, va, b, vb) ==
  [op |-> "Shared", paddr |-> 0, to |-> <<MappedAt(a, va), MappedAt(b, vb)>>]
Package(a, b) ==
  [op |-> "Package", paddr |-> 0,
   to |-> <<MappedAt(a, PACKAGE_VADDR), MappedAt(b, PACKAGE_VADDR)>>]
PolicyFlash(p) ==
  [op |-> "Device", paddr |-> POLICY_FLASH_PADDR,
   to |-> <<MappedAt(p, POLICY_FLASH_VADDR)>>]

-----------------------------------------------------------------------------
(* Client and server of the round-trip benchmark, one ELF in two roles.    *)
HelloDemo ==
  LET endpoint == 1  badged == 2
  IN [name |-> "hello",
      root |-> <<Endpoint, Mint(endpoint, "ALL", 42)>>,
      programs |-> <<Program("server", 0, Code, <<To(badged, 1)>>),
                     Program("client", 1, Code, <<To(badged, 1)>>)>>,
      wires |-> <<>>, ready |-> <<1>>, first |-> 2]

(* The broker holds a resource and a capability to its own CNode.          *)
BrokerDemo ==
  LET endpoint == 1  resource == 2
  IN [name |-> "broker",
      root |-> <<Endpoint, Notification>>,
      programs |-> <<WithSelf(Program("broker-service", 0, Code,
                                      <<To(endpoint, 1), To(resource, 2)>>)),
                     Program("broker-client", 1, Code, <<To(endpoint, 1)>>)>>,
      wires |-> <<>>, ready |-> <<1>>, first |-> 2]

FrameDemo ==
  LET endpoint == 1  success == 2  failure == 3
  IN [name |-> "frame",
      root |-> <<Endpoint, Notification, Notification>>,
      programs |-> <<Program("frame-service", 0, CodeAndData, <<To(endpoint, 1)>>),
                     Program("frame-client", 1, CodeAndData,
                             <<To(endpoint, 1), To(success, 2), To(failure, 3)>>)>>,
      wires |-> <<Shared(1, FRAME_VADDR, 2, FRAME_VADDR)>>,
      ready |-> <<1>>, first |-> 2]

KeystoreDemo ==
  LET endpoint == 1  success == 2  failure == 3
  IN [name |-> "keystore",
      root |-> <<Endpoint, Notification, Notification>>,
      programs |-> <<WithSelf(Program("keystore-service", PROFILE_AEAD, CodeAndData,
                                      <<To(endpoint, 1)>>)),
                     Program("keystore-client", 1, CodeAndData,
                             <<To(endpoint, 1), To(success, 3), To(failure, 4)>>)>>,
      wires |-> <<Shared(1, FRAME_VADDR, 2, FRAME_VADDR)>>,
      ready |-> <<1>>, first |-> 2]

StoreDemo ==
  LET ksEndpoint == 1  ssEndpoint == 2  success == 3  failure == 4
  IN [name |-> "store",
      root |-> <<Endpoint, Endpoint, Notification, Notification>>,
      programs |-> <<WithSelf(Program("keystore-service", PROFILE_AEAD, CodeAndData,
                                      <<To(ksEndpoint, 1)>>)),
                     WithSelf(Program("store-service", 1, CodeAndData,
                                      <<To(ksEndpoint, 1), To(ssEndpoint, 3)>>)),
                     Program("store-client", 2, CodeAndData,
                             <<To(ssEndpoint, 1), To(success, 3), To(failure, 4)>>)>>,
      wires |-> <<Shared(1, FRAME_VADDR, 2, FRAME_VADDR),
                  Shared(2, CLIENT_FRAME_VADDR_ON_STORE, 3, FRAME_VADDR)>>,
      ready |-> <<1, 2>>, first |-> 3]

WasmProbeDemo ==
  LET success == 1  failure == 2
  IN [name |-> "wasm-probe",
      root |-> <<Notification, Notification>>,
      programs |-> <<WithArena(WithHeap(Program("wasm-probe", 0, CodeAndData,
                                   <<To(success, 4), To(failure, 5)>>)), 2)>>,
      wires |-> <<>>, ready |-> <<>>, first |-> 1]

(* What the two runtime images have in common: the binder asks the service *)
(* for grants under GRANTER_BADGE, grant-control lists and revokes under   *)
(* CONTROL_BADGE, and the runtime can only ask the binder.                 *)
(* Mutant: the binder holds its own CNode, as the services do.             *)
BinderWithSelf(package, endpoint, policyClient, granter, granterSlot) ==
  WithSelf(WithHeap(Program("launch-binder", package, CodeAndData,
           <<To(endpoint, 1), To(policyClient, 8), To(granter, granterSlot)>>)))
Binder(package, endpoint, policyClient, granter, granterSlot) ==
  WithHeap(Program("launch-binder", package, CodeAndData,
           <<To(endpoint, 1), To(policyClient, 8), To(granter, granterSlot)>>))
Runtime(package, binderClient, success, failure, request, done) ==
  WithArena(WithHeap(Program("confined-runtime", package, CodeAndData,
           <<To(binderClient, 1), To(success, 3), To(failure, 4),
             To(request, 10), To(done, 11)>>)), 3)
(* Mutant: grant-control's slots counted from 2, like the runtime's.       *)
GrantControlFromTwo(expected, control, stranger, failure, request, done) ==
  Program("grant-control", expected, CodeAndData,
          <<To(control, 1), To(stranger, 2), To(failure, 4), To(request, 3),
            To(done, 6)>>)
GrantControl(expected, control, stranger, failure, request, done) ==
  Program("grant-control", expected, CodeAndData,
          <<To(control, 1), To(stranger, 2), To(failure, 4), To(request, 5),
            To(done, 6)>>)
PolicyStore(endpoint, failure) ==
  Program("policy-store", 0, CodeAndData, <<To(endpoint, 1), To(failure, 4)>>)

RuntimeDemo ==
  LET endpoint == 1  granter == 2  binder == 3  binderClient == 4
      binderControl == 5  stranger == 6  success == 7  failure == 8
      policy == 9  policyClient == 10  request == 11  done == 12
  IN [name |-> "runtime",
      root |-> <<Endpoint, Mint(endpoint, "WRITE", GRANTER_BADGE), Endpoint,
                 Mint(binder, "WRITE", 0), Mint(binder, "WRITE", CONTROL_BADGE),
                 Mint(endpoint, "WRITE", 0), Notification, Notification,
                 Endpoint, Mint(policy, "WRITE", 0), Notification, Notification>>,
      programs |-> <<WithSelf(Program("keystore-service", Launched(PROFILE_SIGNING),
                                      CodeAndData, <<To(endpoint, 1)>>)),
                     Binder(PROBE_LPKG, binder, policyClient, granter, 2),
                     Runtime(PROBE_LPKG, binderClient, success, failure, request, done),
                     GrantControl(SignOnly, binderControl, stranger, failure, request,
                                  done),
                     PolicyStore(policy, failure)>>,
      wires |-> <<PolicyFlash(5), Package(2, 3),
                  Shared(1, FRAME_VADDR, 3, FRAME_VADDR)>>,
      ready |-> <<1, 2, 4, 5>>, first |-> 3]

RuntimeFsDemo ==
  LET ksEndpoint == 1  ssEndpoint == 2  granter == 3  binder == 4
      binderClient == 5  binderControl == 6  stranger == 7  success == 8
      failure == 9  policy == 10  policyClient == 11  request == 12  done == 13
  IN [name |-> "runtime-fs",
      root |-> <<Endpoint, Endpoint, Mint(ssEndpoint, "WRITE", GRANTER_BADGE),
                 Endpoint, Mint(binder, "WRITE", 0),
                 Mint(binder, "WRITE", CONTROL_BADGE), Mint(ssEndpoint, "WRITE", 0),
                 Notification, Notification, Endpoint, Mint(policy, "WRITE", 0),
                 Notification, Notification>>,
      programs |-> <<WithSelf(Program("keystore-service", PROFILE_AEAD, CodeAndData,
                                      <<To(ksEndpoint, 1)>>)),
                     WithSelf(Program("store-service", Launched(1), CodeAndData,
                                      <<To(ksEndpoint, 1), To(ssEndpoint, 3)>>)),
                     Binder(FS_PROBE_LPKG, binder, policyClient, granter, 3),
                     Runtime(FS_PROBE_LPKG, binderClient, success, failure, request,
                             done),
                     GrantControl(ReadWrite, binderControl, stranger, failure, request,
                                  done),
                     PolicyStore(policy, failure)>>,
      wires |-> <<PolicyFlash(6), Package(3, 4),
                  Shared(1, FRAME_VADDR, 2, FRAME_VADDR),
                  Shared(2, CLIENT_FRAME_VADDR_ON_STORE, 4, FRAME_VADDR)>>,
      ready |-> <<1, 2, 3, 5, 6>>, first |-> 4]

ShippedDemos == {HelloDemo, BrokerDemo, FrameDemo, KeystoreDemo, StoreDemo,
                 WasmProbeDemo, RuntimeDemo, RuntimeFsDemo}

=============================================================================
