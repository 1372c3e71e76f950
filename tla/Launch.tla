------------------------------- MODULE Launch -------------------------------
(***************************************************************************)
(* The launcher (src/launch.rs and the run function of each loader): from  *)
(* the root task's first two capabilities to enter_first_thread.  A launch *)
(* description is data, as ProgramSpec is; every kernel object is created  *)
(* by a retype into a slot of root's CSpace, and a program's authority is  *)
(* what was copied into its own CSpace and mapped into its own VSpace.     *)
(*                                                                         *)
(* The launcher runs alone (one hart, no interrupts, no program entered    *)
(* yet), so a step is one kernel call or one call sequence nothing can     *)
(* come between.  A frame takes three: retype, clear, hand over.  An       *)
(* .expect() that fails panics and the machine stops for good.             *)
(*                                                                         *)
(* A launch description is a record                                        *)
(*   root      the root objects, in order: [op, src, rights, badge] with   *)
(*             op Endpoint or Notification (retyped) or Mint (of the       *)
(*             object at position src); objects are named by position      *)
(*   programs  the ProgramSpecs, in order: [name, image, arg0, grants,     *)
(*             selfCNode, heap, arena]; image lists the megapages pass 1   *)
(*             of load finds, selfCNode and arena have at most one element *)
(*   wires     what is mapped after load_all, in order: [op, paddr, to],   *)
(*             op Device, Package or Shared, to a list of [prog, vaddr]    *)
(*   ready     the programs handed to make_ready, in order                 *)
(*   first     the program handed to enter_first_thread                    *)
(***************************************************************************)
EXTENDS Platform, Sequences, FiniteSets, Functions

CONSTANTS
  Demos,             \* the launch descriptions
  RamEnds,           \* ends of RAM boot_main may pass to run
  MaxFrames,         \* lantern-kernel's limits: Frame objects,
  MaxCNodes,         \*   CNode objects, root's own included,
  MaxVSpaces,        \*   VSpace objects,
  MaxFrameMappings,  \*   mappings of one Frame,
  CNodeSlots,        \*   slots of a CNode;
  UntypedBudget      \* retypes the root Untyped allows

Slots == 0..(CNodeSlots - 1)
Perms == {"R", "W", "X"}

(* What a loader's specs can be: the type of a launch description ...      *)
RootObjects ==
  [op : {"Endpoint", "Notification", "Mint"}, src : Nat, rights : {"ALL", "WRITE"},
   badge : Nat]
ProgramSpecs ==
  [name : STRING, image : Seq([vaddr : Nat, perms : SUBSET Perms]), arg0 : Nat,
   grants : Seq([from : Nat, to : Nat]), selfCNode : SUBSET Nat, heap : Nat,
   arena : SUBSET [megapages : Nat, selfVSpace : Nat, frameBase : Nat]]
Wirings ==
  [op : {"Device", "Package", "Shared"}, paddr : Nat,
   to : Seq([prog : Nat, vaddr : Nat])]
Descriptions ==
  [name : STRING, root : Seq(RootObjects), programs : Seq(ProgramSpecs),
   wires : Seq(Wirings), ready : Seq(Nat), first : Nat]

(* ... and what Rust's variables make sure of: a name is bound before it   *)
(* is used.  Only what was retyped is minted from, and that has all rights *)
(* and no badge.  Whatever is wired is wired to somebody; device memory    *)
(* lies below RAM, no two device frames overlap, each is for one program.  *)
IsDescription(d) ==
  /\ d \in Descriptions /\ d.programs # <<>>
  /\ \A k \in DOMAIN d.root : d.root[k].op = "Mint" => d.root[k].src \in 1..(k - 1)
  /\ \A k \in DOMAIN d.root :
       IF d.root[k].op = "Mint" THEN d.root[d.root[k].src].op # "Mint"
       ELSE d.root[k].rights = "ALL" /\ d.root[k].badge = 0
  /\ \A p \in DOMAIN d.programs :
       /\ \A k \in DOMAIN d.programs[p].grants :
            d.programs[p].grants[k].from \in DOMAIN d.root
       /\ \A a, b \in d.programs[p].arena : a = b
       /\ \A a, b \in d.programs[p].selfCNode : a = b
  /\ \A w \in DOMAIN d.wires :
       /\ \A k \in DOMAIN d.wires[w].to : d.wires[w].to[k].prog \in DOMAIN d.programs
       /\ d.wires[w].to # <<>>
       /\ d.wires[w].op = "Device" =>
            /\ Len(d.wires[w].to) = 1
            /\ d.wires[w].paddr + Mega <= GENERAL_MEMORY_BASE
            /\ \A v \in DOMAIN d.wires \ {w} :
                 d.wires[v].op = "Device" =>
                   Apart(d.wires[w].paddr, Mega, d.wires[v].paddr, Mega)
  /\ Range(d.ready) \cup {d.first} \subseteq DOMAIN d.programs

ASSUME DemosAssumption == \A d \in Demos : IsDescription(d)
ASSUME LimitsAssumption ==
  /\ RamEnds \subseteq Nat
  /\ MaxFrames \in Nat /\ MaxCNodes \in Nat /\ MaxVSpaces \in Nat
  /\ MaxFrameMappings \in Nat /\ UntypedBudget \in Nat
  /\ CNodeSlots \in Nat /\ CNodeSlots > 1

VARIABLES
  demo, memEnd,                       \* what is launched, on how much memory
  pc, prog, i, stage,                 \* phase, program, iteration, frame step
  nextSlot, handles, loc,             \* run's and load's local variables
  root, budget, watermark,            \* root's CSpace and its Untyped
  frames, vspaces, spaces, tcbs,      \* kernel objects, named by number
  ready, running                      \* scheduler: ready queue, current TCB

given   == <<demo, memEnd>>
locals  == <<nextSlot, handles, loc>>
objects == <<frames, vspaces, spaces, tcbs>>
sched   == <<ready, running>>
vars == <<given, pc, prog, i, stage, locals, root, budget, watermark, objects,
          sched>>

(* A capability; rights and badge matter to endpoints and notifications.   *)
Cap(kind, obj) == [kind |-> kind, obj |-> obj, rights |-> "ALL", badge |-> 0]
Empty == [kind |-> "Empty", obj |-> 0, rights |-> "NONE", badge |-> 0]

SELF_CNODE_CPTR == 0
UNTYPED_CPTR == 1

Init ==
  /\ demo \in Demos
  /\ memEnd \in {MemEnd(r) : r \in RamEnds}
  /\ pc = "root" /\ prog = 1 /\ i = 1 /\ stage = "retype"
  /\ nextSlot = 2 /\ handles = <<>>
  /\ loc = [vspace |-> 0, cnode |-> 0, scratch |-> 0, frame |-> 0]
  /\ root = [s \in Slots |-> CASE s = SELF_CNODE_CPTR -> Cap("CNode", 0)
                               [] s = UNTYPED_CPTR -> Cap("Untyped", 0)
                               [] OTHER -> Empty]
  /\ budget = UntypedBudget /\ watermark = GENERAL_MEMORY_BASE
  /\ frames = <<>> /\ vspaces = 0 /\ spaces = <<>> /\ tcbs = <<>>
  /\ ready = <<>> /\ running = 0

-----------------------------------------------------------------------------
(* Control: each phase is a loop; a phase without a loop has one round.    *)

This == demo.programs[prog]
Arena == CHOOSE a \in This.arena : TRUE
Wire == demo.wires[i]

Rounds ==
  CASE pc = "root"    -> Len(demo.root)
    [] pc = "image"   -> Len(This.image)
    [] pc = "heap"    -> This.heap
    [] pc = "grants"  -> Len(This.grants)
    [] pc = "self"    -> Cardinality(This.selfCNode)
    [] pc = "scratch" -> Cardinality(This.arena)
    [] pc = "arena"   -> IF This.arena = {} THEN 0 ELSE Arena.megapages
    [] pc = "wire"    -> Len(demo.wires)
    [] pc = "ready"   -> Len(demo.ready)
    [] OTHER          -> 1

At(phase) == pc = phase /\ i <= Rounds

(* load's phases in order; load_all takes the next program after the last. *)
Then == [root |-> "vspace", vspace |-> "image", image |-> "fill",
         fill |-> "stack", stack |-> "heap", heap |-> "cnode",
         cnode |-> "grants", grants |-> "self", self |-> "scratch",
         scratch |-> "arena", arena |-> "tcb", tcb |-> "wire",
         wire |-> "ready", ready |-> "enter"]

NextPhase ==
  /\ pc \in DOMAIN Then /\ i > Rounds
  /\ i' = 1
  /\ IF pc = "tcb" /\ prog < Len(demo.programs)
     THEN pc' = "vspace" /\ prog' = prog + 1
     ELSE pc' = Then[pc] /\ prog' = prog
  /\ UNCHANGED <<given, stage, locals, root, budget, watermark, objects, sched>>

NextRound == i' = i + 1 /\ UNCHANGED <<pc, prog>>

-----------------------------------------------------------------------------
(* lantern-kernel, as the launcher uses it.                                *)

SlotFree(s) == s \in Slots /\ root[s] = Empty

(* admin::untyped_retype of an object without memory of its own.           *)
CanRetype(dest) == SlotFree(dest) /\ budget > 0

(* Untyped::bump: the next free range, aligned to its own size.            *)
(* Mutant: aligned downwards.                                              *)
BumpDown(pages) == RoundDown(watermark, pages)
Bump(pages) == RoundUp(watermark, pages)
CanRetypeFrame(dest, pages) ==
  /\ CanRetype(dest)
  /\ Len(frames) < MaxFrames
  /\ Bump(pages) + pages <= memEnd

(* cnode::invoke's CopyCross into slot dest of CSpace c.                   *)
CanCopy(c, dest) == dest \in Slots /\ spaces[c][dest] = Empty

(* Range [vaddr, vaddr + pages) of a VSpace holds no mapping yet.          *)
Unmapped(vspace, vaddr, pages) ==
  /\ \A k \in KernelShared : Apart(k, Mega, vaddr, pages)
  /\ \A f \in DOMAIN frames : \A m \in frames[f].maps :
       m.vspace = vspace => Apart(m.vaddr, frames[f].pages, vaddr, pages)

(* FrameInvoke::Map of frame f at every place in the list `places`.        *)
CanMap(f, places) ==
  /\ Cardinality(frames[f].maps) + Len(places) <= MaxFrameMappings
  /\ \A k \in DOMAIN places :
       /\ Unmapped(places[k].vspace, places[k].vaddr, frames[f].pages)
       /\ \A j \in DOMAIN places :
            j # k /\ places[j].vspace = places[k].vspace =>
              Apart(places[j].vaddr, frames[f].pages, places[k].vaddr, frames[f].pages)

Mapped(f, places) == [frames EXCEPT ![f].maps = @ \cup Range(places)]

(* delete of the frame's capability; the frame and its mappings stay.      *)
(* Mutant: the delete forgotten.                                           *)
FrameKept == root
FrameDropped == [root EXCEPT ![loc.frame] = Empty]

Place(vspace, vaddr, perms) == [vspace |-> vspace, vaddr |-> vaddr, perms |-> perms]

ThisVSpace == root[loc.vspace].obj
ThisSpace == root[loc.cnode].obj
ThisFrame == root[loc.frame].obj

-----------------------------------------------------------------------------
(* The loader's run: root objects, one slot each.                          *)

RootOp == demo.root[i]

RetypeRootObject ==
  /\ At("root") /\ RootOp.op # "Mint" /\ CanRetype(nextSlot)
  /\ root' = [root EXCEPT ![nextSlot] = Cap(RootOp.op, i)]
  /\ budget' = budget - 1
  /\ handles' = Append(handles, nextSlot) /\ nextSlot' = nextSlot + 1
  /\ NextRound
  /\ UNCHANGED <<given, stage, loc, watermark, objects, sched>>

(* mint: root's capability at the source's slot, with rights and a badge.  *)
(* Mutant: the badge lost.                                                 *)
MintedUnbadged == [root[handles[RootOp.src]] EXCEPT !.rights = RootOp.rights]
Minted == [root[handles[RootOp.src]] EXCEPT !.rights = RootOp.rights,
                                            !.badge = RootOp.badge]
MintRootObject ==
  /\ At("root") /\ RootOp.op = "Mint" /\ SlotFree(nextSlot)
  /\ root' = [root EXCEPT ![nextSlot] = Minted]
  /\ handles' = Append(handles, nextSlot) /\ nextSlot' = nextSlot + 1
  /\ NextRound
  /\ UNCHANGED <<given, stage, loc, budget, watermark, objects, sched>>

-----------------------------------------------------------------------------
(* load: a VSpace with the kernel's megapages, then frames, a CSpace, the  *)
(* grants, and a TCB that ties them together.                              *)

CreateVSpace ==
  /\ At("vspace") /\ CanRetype(nextSlot) /\ vspaces < MaxVSpaces
  /\ vspaces' = vspaces + 1
  /\ root' = [root EXCEPT ![nextSlot] = Cap("VSpace", vspaces + 1)]
  /\ budget' = budget - 1
  /\ loc' = [loc EXCEPT !.vspace = nextSlot] /\ nextSlot' = nextSlot + 1
  /\ NextRound
  /\ UNCHANGED <<given, stage, handles, watermark, frames, spaces, tcbs, sched>>

(* Frames of ordinary memory, in every place the launcher needs one.  The  *)
(* arena's go through one scratch slot, and the package's through a slot   *)
(* that is not taken: root drops both capabilities again.                  *)
NeedsFrame ==
  \/ At("image") \/ At("stack") \/ At("heap") \/ At("arena")
  \/ At("wire") /\ Wire.op \in {"Package", "Shared"}

FramePages == IF pc = "wire" /\ Wire.op = "Shared" THEN Small ELSE Mega
FrameSlot == IF pc = "arena" THEN loc.scratch ELSE nextSlot
(* Mutant: the package's slot is taken too.                                *)
EveryFrameTakesASlot == pc # "arena"
TakesSlot == pc \in {"image", "stack", "heap"} \/ (pc = "wire" /\ Wire.op = "Shared")

RetypeFrame ==
  /\ NeedsFrame /\ stage = "retype" /\ CanRetypeFrame(FrameSlot, FramePages)
  /\ frames' = Append(frames, [base |-> Bump(FramePages), pages |-> FramePages,
                               content |-> <<>>, maps |-> {}])
  /\ watermark' = Bump(FramePages) + FramePages
  /\ root' = [root EXCEPT ![FrameSlot] = Cap("Frame", Len(frames) + 1)]
  /\ budget' = budget - 1
  /\ loc' = [loc EXCEPT !.frame = FrameSlot]
  /\ nextSlot' = IF TakesSlot THEN nextSlot + 1 ELSE nextSlot
  /\ stage' = "clear"
  /\ UNCHANGED <<given, pc, prog, i, handles, vspaces, spaces, tcbs, sched>>

(* retype_frame's write_bytes.  A frame's content lists what was written   *)
(* to it, in order; <<>> is whatever the memory held at power-on.          *)
(* Mutant: an arena frame is handed over as it came.                       *)
ClearedUnlessArena == IF pc = "arena" THEN frames
                      ELSE [frames EXCEPT ![ThisFrame].content = <<"zero">>]
Cleared == [frames EXCEPT ![ThisFrame].content = <<"zero">>]
ClearFrame ==
  /\ NeedsFrame /\ stage = "clear"
  /\ frames' = Cleared
  /\ stage' = "give"
  /\ UNCHANGED <<given, pc, prog, i, locals, root, budget, watermark, vspaces,
                 spaces, tcbs, sched>>

(* The frame is cleared: map it in the new program's VSpace, where root    *)
(* keeps the capability.                                                   *)
PrivatePlace ==
  CASE pc = "image" -> Place(ThisVSpace, This.image[i].vaddr, This.image[i].perms)
    [] pc = "stack" -> Place(ThisVSpace, STACK_VADDR, {"R", "W"})
    [] pc = "heap"  -> Place(ThisVSpace, HEAP_VADDR + (i - 1) * Mega, {"R", "W"})

MapPrivateFrame ==
  /\ (At("image") \/ At("stack") \/ At("heap")) /\ stage = "give"
  /\ CanMap(ThisFrame, <<PrivatePlace>>)
  /\ frames' = Mapped(ThisFrame, <<PrivatePlace>>)
  /\ stage' = "retype"
  /\ NextRound
  /\ UNCHANGED <<given, locals, root, budget, watermark, vspaces, spaces, tcbs,
                 sched>>

(* Pass 3: the segments' file bytes go into the megapages pass 2 mapped.   *)
InThisVSpace(f) == \E m \in frames[f].maps : m.vspace = ThisVSpace

FillImage ==
  /\ At("fill")
  /\ frames' = [f \in DOMAIN frames |->
                  IF InThisVSpace(f)
                  THEN [frames[f] EXCEPT !.content = Append(@, "image")]
                  ELSE frames[f]]
  /\ NextRound
  /\ UNCHANGED <<given, stage, locals, root, budget, watermark, vspaces, spaces,
                 tcbs, sched>>

CreateCNode ==
  /\ At("cnode") /\ CanRetype(nextSlot) /\ Len(spaces) + 1 < MaxCNodes
  /\ spaces' = Append(spaces, [s \in Slots |-> Empty])
  /\ root' = [root EXCEPT ![nextSlot] = Cap("CNode", Len(spaces) + 1)]
  /\ budget' = budget - 1
  /\ loc' = [loc EXCEPT !.cnode = nextSlot] /\ nextSlot' = nextSlot + 1
  /\ NextRound
  /\ UNCHANGED <<given, stage, handles, watermark, frames, vspaces, tcbs, sched>>

(* copy_cross of root's slot src into slot dest of the new CSpace.         *)
CopyCross(src, dest) ==
  /\ CanCopy(ThisSpace, dest)
  /\ spaces' = [spaces EXCEPT ![ThisSpace][dest] = root[src]]

GrantObject ==
  /\ At("grants")
  /\ CopyCross(handles[This.grants[i].from], This.grants[i].to)
  /\ NextRound
  /\ UNCHANGED <<given, stage, locals, root, budget, watermark, frames, vspaces,
                 tcbs, sched>>

GrantSelfCNode ==
  /\ At("self")
  /\ \E dest \in This.selfCNode : CopyCross(loc.cnode, dest)
  /\ NextRound
  /\ UNCHANGED <<given, stage, locals, root, budget, watermark, frames, vspaces,
                 tcbs, sched>>

(* An ArenaGrant: a scratch slot, the program's own VSpace, then frames    *)
(* handed over unmapped, through the scratch slot.                         *)
OpenArena ==
  /\ At("scratch")
  /\ loc' = [loc EXCEPT !.scratch = nextSlot] /\ nextSlot' = nextSlot + 1
  /\ CopyCross(loc.vspace, Arena.selfVSpace)
  /\ NextRound
  /\ UNCHANGED <<given, stage, handles, root, budget, watermark, frames, vspaces,
                 tcbs, sched>>

GrantArenaFrame ==
  /\ At("arena") /\ stage = "give"
  /\ CopyCross(loc.frame, Arena.frameBase + i - 1)
  /\ root' = FrameDropped
  /\ stage' = "retype"
  /\ NextRound
  /\ UNCHANGED <<given, locals, budget, watermark, frames, vspaces, tcbs, sched>>

(* SchedContext, TCB and admin::configure, which also enqueues the TCB.    *)
(* Mutant: the queue gets the TCB's slot in root.                          *)
TcbSlot == nextSlot + 1
NewThread == Len(tcbs) + 1
CreateThread ==
  /\ At("tcb") /\ SlotFree(nextSlot) /\ SlotFree(nextSlot + 1) /\ budget > 1
  /\ root' = [root EXCEPT ![nextSlot] = Cap("SchedContext", Len(tcbs) + 1),
                          ![nextSlot + 1] = Cap("Tcb", Len(tcbs) + 1)]
  /\ tcbs' = Append(tcbs, [cspace |-> ThisSpace, vspace |-> ThisVSpace,
                           vspaceCptr |-> loc.vspace, arg0 |-> This.arg0])
  /\ ready' = Append(ready, NewThread)
  /\ budget' = budget - 2 /\ nextSlot' = nextSlot + 2
  /\ NextRound
  /\ UNCHANGED <<given, stage, handles, loc, watermark, frames, vspaces, spaces,
                 running>>

-----------------------------------------------------------------------------
(* After load_all: frames several programs see, and device memory.         *)

SharedPerms == {"R", "W"}
(* Mutant: the package as writable as any other frame.                     *)
PackageWritable == {"R", "W"}
PackagePerms == {"R"}
DevicePerms == {"R", "W"}

(* Mutant: a frame goes to the programs in load order.                     *)
PlacesInLoadOrder(perms) ==
  [k \in DOMAIN Wire.to |->
     Place(root[tcbs[k].vspaceCptr].obj, Wire.to[k].vaddr, perms)]
Places(perms) ==
  [k \in DOMAIN Wire.to |->
     Place(root[tcbs[Wire.to[k].prog].vspaceCptr].obj, Wire.to[k].vaddr, perms)]

(* map_shared_frame: root keeps the one capability, each program a mapping.*)
MapSharedFrame ==
  /\ At("wire") /\ Wire.op = "Shared" /\ stage = "give"
  /\ CanMap(ThisFrame, Places(SharedPerms))
  /\ frames' = Mapped(ThisFrame, Places(SharedPerms))
  /\ stage' = "retype"
  /\ NextRound
  /\ UNCHANGED <<given, locals, root, budget, watermark, vspaces, spaces, tcbs,
                 sched>>

(* map_package: written once, then mapped read-only; root's capability goes.*)
MapPackage ==
  /\ At("wire") /\ Wire.op = "Package" /\ stage = "give"
  /\ CanMap(ThisFrame, Places(PackagePerms))
  /\ frames' = [Mapped(ThisFrame, Places(PackagePerms))
                  EXCEPT ![ThisFrame].content = Append(@, "package")]
  /\ root' = FrameDropped
  /\ stage' = "retype"
  /\ NextRound
  /\ UNCHANGED <<given, locals, budget, watermark, vspaces, spaces, tcbs, sched>>

(* map_device_frame: an Untyped of its own at the first free slot, a frame *)
(* at the next that nothing clears or writes, and both capabilities gone.  *)
DeviceFrame == [base |-> Wire.paddr, pages |-> Mega, content |-> <<>>,
                maps |-> {Places(DevicePerms)[k] : k \in DOMAIN Wire.to}]

CanMapDevice ==
  /\ nextSlot \in Slots /\ SlotFree(nextSlot + 1) /\ Len(frames) < MaxFrames
  /\ \A k \in DOMAIN Wire.to :
       Unmapped(Places(DevicePerms)[k].vspace, Wire.to[k].vaddr, Mega)

MapDeviceFrame ==
  /\ At("wire") /\ Wire.op = "Device" /\ CanMapDevice
  /\ frames' = Append(frames, DeviceFrame)
  /\ root' = [root EXCEPT ![nextSlot] = Empty, ![nextSlot + 1] = Empty]
  /\ nextSlot' = nextSlot + 2
  /\ NextRound
  /\ UNCHANGED <<given, stage, handles, loc, budget, watermark, vspaces, spaces,
                 tcbs, sched>>

(* make_ready queues a TCB once, however often it is called.               *)
(* Mutant: queued again.                                                   *)
QueuedAgain(t) == Append(ready, t)
Queued(t) == IF t \in Range(ready) THEN ready ELSE Append(ready, t)
MakeReady ==
  /\ At("ready")
  /\ ready' = Queued(demo.ready[i])
  /\ NextRound
  /\ UNCHANGED <<given, stage, locals, root, budget, watermark, objects, running>>

(* enter_first_thread takes its thread off the queue and runs it.          *)
Without(t) ==
  LET k == CHOOSE j \in DOMAIN ready : ready[j] = t
  IN  IF t \in Range(ready)
      THEN SubSeq(ready, 1, k - 1) \o SubSeq(ready, k + 1, Len(ready))
      ELSE ready

EnterFirstThread ==
  /\ At("enter")
  /\ running' = demo.first
  /\ ready' = Without(demo.first)
  /\ pc' = "running"
  /\ UNCHANGED <<given, prog, i, stage, locals, root, budget, watermark, objects>>

-----------------------------------------------------------------------------
(* A refused kernel call fails an .expect(), the panic handler prints and  *)
(* spins, and nothing was entered.  What the failing call sequence had     *)
(* done up to then is not recorded: nothing can look at it any more.       *)

WireRefused ==
  \/ At("wire") /\ Wire.op # "Device" /\ stage = "give" /\ ~CanMap(ThisFrame, Places({}))
  \/ At("wire") /\ Wire.op = "Device" /\ ~CanMapDevice
Refused ==
  \/ At("root") /\ ~SlotFree(nextSlot)
  \/ At("root") /\ RootOp.op # "Mint" /\ budget = 0
  \/ At("vspace") /\ ~(CanRetype(nextSlot) /\ vspaces < MaxVSpaces)
  \/ NeedsFrame /\ stage = "retype" /\ ~CanRetypeFrame(FrameSlot, FramePages)
  \/ /\ At("image") \/ At("stack") \/ At("heap")
     /\ stage = "give" /\ ~CanMap(ThisFrame, <<PrivatePlace>>)
  \/ At("cnode") /\ ~(CanRetype(nextSlot) /\ Len(spaces) + 1 < MaxCNodes)
  \/ At("grants") /\ ~CanCopy(ThisSpace, This.grants[i].to)
  \/ At("self") /\ \E dest \in This.selfCNode : ~CanCopy(ThisSpace, dest)
  \/ At("scratch") /\ ~CanCopy(ThisSpace, Arena.selfVSpace)
  \/ At("arena") /\ stage = "give" /\ ~CanCopy(ThisSpace, Arena.frameBase + i - 1)
  \/ At("tcb") /\ ~(SlotFree(nextSlot) /\ SlotFree(nextSlot + 1) /\ budget > 1)
  \/ WireRefused

Panic ==
  /\ Refused
  /\ pc' = "panicked"
  /\ UNCHANGED <<given, prog, i, stage, locals, root, budget, watermark, objects,
                 sched>>

Next ==
  \/ NextPhase
  \/ RetypeRootObject \/ MintRootObject
  \/ CreateVSpace \/ RetypeFrame \/ ClearFrame \/ MapPrivateFrame \/ FillImage
  \/ CreateCNode \/ GrantObject \/ GrantSelfCNode
  \/ OpenArena \/ GrantArenaFrame \/ CreateThread
  \/ MapSharedFrame \/ MapPackage \/ MapDeviceFrame
  \/ MakeReady \/ EnterFirstThread
  \/ Panic

(* The launcher is straight-line code on a hart nothing else runs on.      *)
Spec == Init /\ [][Next]_vars /\ WF_vars(Next)

-----------------------------------------------------------------------------
(* Invariants.                                                             *)

Kinds == {"Empty", "CNode", "Untyped", "VSpace", "Frame", "Endpoint",
          "Notification", "SchedContext", "Tcb"}
Caps == [kind : Kinds, obj : Nat, rights : {"ALL", "WRITE", "NONE"}, badge : Nat]
Mappings == [vspace : Nat, vaddr : Nat, perms : SUBSET Perms]
Frames == [base : Nat, pages : {Small, Mega}, content : Seq({"zero", "image", "package"}),
           maps : SUBSET Mappings]
Phases == DOMAIN Then \cup {"enter", "running", "panicked"}

(* Every variable keeps its shape; in particular every local slot number   *)
(* of run and load, the slots handed to programs included, is a number a   *)
(* retype wrote, and the queue names only threads that exist.              *)
TypeOK ==
  /\ demo \in Demos /\ memEnd \in Nat
  /\ pc \in Phases /\ prog \in DOMAIN demo.programs /\ i \in Nat \ {0}
  /\ stage \in {"retype", "clear", "give"}
  /\ nextSlot \in Nat /\ handles \in Seq(Slots)
  /\ loc \in [vspace : Slots, cnode : Slots, scratch : Nat, frame : Slots]
  /\ root \in [Slots -> Caps] /\ budget \in Nat /\ watermark \in Nat
  /\ frames \in Seq(Frames) /\ vspaces \in Nat
  /\ spaces \in Seq([Slots -> Caps])
  /\ tcbs \in Seq([cspace : Nat, vspace : Nat, vspaceCptr : Slots, arg0 : Nat])
  /\ ready \in Seq(DOMAIN demo.programs)
  /\ running \in {0} \cup DOMAIN demo.programs

IsRam(f) == GENERAL_MEMORY_BASE <= frames[f].base /\ frames[f].base < memEnd

(* No two frames share memory, whatever order kinds and sizes of frame are *)
(* retyped in, and all but device frames lie in the root Untyped.          *)
MemoryDisjoint ==
  \A f \in DOMAIN frames :
    /\ IsRam(f) => frames[f].base + frames[f].pages <= memEnd
    /\ \A g \in DOMAIN frames \ {f} :
         Apart(frames[f].base, frames[f].pages, frames[g].base, frames[g].pages)

(* A frame a program can see or hold was cleared first (and then at most   *)
(* written once, by the launcher); a device frame was never written to.    *)
HeldBy(p, f) == {s \in Slots : spaces[p][s].kind = "Frame" /\ spaces[p][s].obj = f}
Visible(f) == frames[f].maps # {} \/ \E p \in DOMAIN spaces : HeldBy(p, f) # {}
VisibleMemoryIsCleared ==
  \A f \in DOMAIN frames :
    IF IsRam(f)
    THEN Visible(f) => frames[f].content \in {<<"zero">>, <<"zero", "image">>,
                                              <<"zero", "package">>}
    ELSE frames[f].content = <<>>

(* Two programs see one frame only where the launch description wires them *)
(* together, each exactly at the declared place.                           *)
SharingIsDeclared ==
  \A f \in DOMAIN frames : \A m, n \in frames[f].maps :
    m.vspace # n.vspace =>
      \E w \in DOMAIN demo.wires :
        \A x \in {m, n} : \E k \in DOMAIN demo.wires[w].to :
          /\ tcbs[demo.wires[w].to[k].prog].vspace = x.vspace
          /\ demo.wires[w].to[k].vaddr = x.vaddr

(* Who can still name a frame once it is handed over: an arena frame (no   *)
(* mapping) only one program, at one slot; a package or device frame       *)
(* nobody, and the package is writable nowhere; any other only root.       *)
RootHolds(f) == \E s \in Slots : root[s] = Cap("Frame", f)
FrameCustody ==
  stage = "retype" =>
    \A f \in DOMAIN frames :
      LET holders == {p \in DOMAIN spaces : HeldBy(p, f) # {}}
          sealed == ~IsRam(f) \/ frames[f].content = <<"zero", "package">>
      IN IF frames[f].maps = {}
         THEN ~RootHolds(f) /\ \E p \in DOMAIN spaces :
                holders = {p} /\ Cardinality(HeldBy(p, f)) = 1
         ELSE /\ holders = {} /\ (sealed <=> ~RootHolds(f))
              /\ IsRam(f) /\ sealed => \A m \in frames[f].maps : "W" \notin m.perms

(* Whatever the scheduler can pick exists once: no thread is queued twice, *)
(* the running one is not queued, and none the launcher made is forgotten. *)
RunQueueSound ==
  /\ \A j, k \in DOMAIN ready : j # k => ready[j] # ready[k]
  /\ running \notin Range(ready)
  /\ DOMAIN tcbs = Range(ready) \cup ({running} \ {0})

=============================================================================
