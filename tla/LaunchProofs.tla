---------------------------- MODULE LaunchProofs ----------------------------
(***************************************************************************)
(* Theorems about the launcher, for every launch description and every     *)
(* limit of the machine that the assumptions of Launch admit.              *)
(***************************************************************************)
EXTENDS Launch, SequenceTheorems, FiniteSetTheorems, TLAPS

-----------------------------------------------------------------------------
(* The inductive invariant.                                                *)

LoadPhases == {"vspace", "image", "fill", "stack", "heap", "cnode", "grants",
               "self", "scratch", "arena", "tcb"}
LatePhases == {"wire", "ready", "enter"}

(* How far the loops have got: one handle per root object behind, one      *)
(* thread per program behind; nothing runs before the end.                 *)
Counting ==
  /\ pc = "root" => Len(handles) = i - 1 /\ i <= Len(demo.root) + 1
  /\ pc \in LoadPhases \cup LatePhases => Len(handles) = Len(demo.root)
  /\ pc = "root" => Len(tcbs) = prog - 1
  /\ pc \in LoadPhases => Len(tcbs) = IF pc = "tcb" /\ i > 1 THEN prog ELSE prog - 1
  /\ pc \in LatePhases \cup {"running"} => Len(tcbs) = Len(demo.programs)
  /\ Len(tcbs) <= Len(demo.programs)
  /\ pc # "running" => running = 0

(* Between the retype of a frame and its handing over, no loop moves on,   *)
(* and root's capability names the newest frame.                           *)
Handing ==
  stage # "retype" =>
    /\ NeedsFrame \/ pc = "panicked"
    /\ frames # <<>>
    /\ root[loc.frame] = Cap("Frame", Len(frames))

(* RAM frames lie between the bottom of the Untyped and its watermark; any *)
(* other is the device memory of a wire that is in place.                  *)
DevicesSoFar == CASE pc = "wire" -> 1..(i - 1)
                  [] pc \in {"ready", "enter", "running", "panicked"} -> DOMAIN demo.wires
                  [] OTHER -> {}
InRam(f) == /\ GENERAL_MEMORY_BASE <= frames[f].base
            /\ frames[f].base + frames[f].pages <= watermark
IsDevice(f) == \E w \in DOMAIN demo.wires \cap DevicesSoFar :
                 /\ demo.wires[w].op = "Device"
                 /\ frames[f].base = demo.wires[w].paddr /\ frames[f].pages = Mega
Memory ==
  /\ GENERAL_MEMORY_BASE <= watermark /\ watermark <= memEnd
  /\ \A f \in DOMAIN frames : InRam(f) \/ IsDevice(f)
  /\ \A f, g \in DOMAIN frames :
       f # g => Apart(frames[f].base, frames[f].pages, frames[g].base, frames[g].pages)
  /\ stage # "retype" => InRam(Len(frames))

IInv == TypeOK /\ Counting /\ Handing /\ Memory

-----------------------------------------------------------------------------
(* Facts about the launch description at hand.                             *)

(* What DemosAssumption says of the description being launched.            *)
LEMMA DemoFacts ==
  ASSUME TypeOK
  PROVE  /\ IsDescription(demo)
         /\ demo.root \in Seq(RootObjects)
         /\ demo.programs \in Seq(ProgramSpecs)
         /\ demo.wires \in Seq(Wirings)
         /\ demo.ready \in Seq(Nat)
         /\ Len(demo.programs) \in Nat \ {0}
         /\ DOMAIN demo.root = 1..Len(demo.root)
         /\ DOMAIN demo.programs = 1..Len(demo.programs)
         /\ DOMAIN demo.wires = 1..Len(demo.wires)
         /\ \A k \in DOMAIN demo.ready : demo.ready[k] \in DOMAIN demo.programs
         /\ demo.first \in DOMAIN demo.programs
         /\ prog \in DOMAIN demo.programs
         /\ This \in ProgramSpecs
<1>1. IsDescription(demo)
  BY DemosAssumption DEF TypeOK
<1>2. demo \in Descriptions /\ demo.programs # <<>>
  BY <1>1 DEF IsDescription
<1>3. /\ demo.root \in Seq(RootObjects)
      /\ demo.programs \in Seq(ProgramSpecs)
      /\ demo.wires \in Seq(Wirings)
      /\ demo.ready \in Seq(Nat)
  BY <1>2 DEF Descriptions
<1>4. Len(demo.programs) \in Nat \ {0}
  BY <1>2, <1>3
<1>5. \A k \in DOMAIN demo.ready : demo.ready[k] \in Range(demo.ready)
  BY DEF Range
<1>6. /\ \A k \in DOMAIN demo.ready : demo.ready[k] \in DOMAIN demo.programs
      /\ demo.first \in DOMAIN demo.programs
  BY <1>1, <1>5 DEF IsDescription
<1>7. prog \in DOMAIN demo.programs
  BY DEF TypeOK
<1>8. This \in ProgramSpecs
  BY <1>3, <1>7 DEF This
<1> QED
  BY <1>1, <1>3, <1>4, <1>6, <1>7, <1>8

(* Every loop bound is a natural number.                                   *)
LEMMA RoundsType ==
  ASSUME TypeOK
  PROVE  Rounds \in Nat
<1>1. /\ This \in ProgramSpecs /\ Len(demo.root) \in Nat
      /\ Len(demo.wires) \in Nat /\ Len(demo.ready) \in Nat
  BY DemoFacts
<1>2. /\ \A a, b \in This.arena : a = b
      /\ \A a, b \in This.selfCNode : a = b
  BY DemoFacts DEF IsDescription, This
<1>3. ASSUME NEW S, \A a, b \in S : a = b
      PROVE  Cardinality(S) \in Nat
  <2>1. CASE S = {}
    BY <2>1, FS_EmptySet
  <2>2. CASE S # {}
    <3>1. PICK a \in S : S = {a}
      BY <1>3, <2>2
    <3>2. Cardinality({a}) = 1
      BY FS_Singleton
    <3>3. Cardinality(S) = 1
      BY <3>1, <3>2, Zenon
    <3> QED
      BY <3>3
  <2> QED
    BY <2>1, <2>2
<1>4. Cardinality(This.arena) \in Nat /\ Cardinality(This.selfCNode) \in Nat
  BY <1>2, <1>3
<1>5. This.arena # {} => Arena.megapages \in Nat
  BY <1>1 DEF Arena, ProgramSpecs
<1>6. Len(This.image) \in Nat /\ Len(This.grants) \in Nat /\ This.heap \in Nat
  BY <1>1 DEF ProgramSpecs
<1> QED
  BY <1>1, <1>4, <1>5, <1>6 DEF Rounds

(* A capability made by Cap, and the empty one, are capabilities.          *)
LEMMA CapType ==
  ASSUME NEW kind \in Kinds, NEW obj \in Nat
  PROVE  Cap(kind, obj) \in Caps /\ Empty \in Caps
<1>1. "Empty" \in Kinds
  BY DEF Kinds
<1> QED
  BY <1>1 DEF Cap, Caps, Empty

(* So is one for the next object of a pool.                                *)
LEMMA NextCapType ==
  ASSUME NEW T, NEW pool \in Seq(T), NEW kind \in {"CNode", "Frame", "SchedContext", "Tcb"}
  PROVE  Cap(kind, Len(pool) + 1) \in Caps
<1>1. Len(pool) + 1 \in Nat
  BY LenProperties
<1>2. kind \in Kinds
  BY DEF Kinds
<1> QED
  BY <1>1, <1>2, CapType

(* Untyped::bump aligns upwards, by less than the alignment.               *)
LEMMA BumpFacts ==
  ASSUME NEW pages \in {Small, Mega}, watermark \in Nat
  PROVE  /\ Bump(pages) \in Nat
         /\ Bump(pages) >= watermark
  BY DEF Bump, RoundUp, RoundDown, Small, Mega

-----------------------------------------------------------------------------
(* TypeOK and Counting.                                                    *)

(* Moving to the next phase or program keeps the types and the counts.     *)
LEMMA NextPhaseShape ==
  ASSUME TypeOK, Counting, NextPhase
  PROVE  TypeOK' /\ Counting'
<1>1. pc \in DOMAIN Then /\ i > Rounds /\ i' = 1
  BY DEF NextPhase
<1>2. UNCHANGED <<given, stage, locals, root, budget, watermark, objects, sched>>
  BY DEF NextPhase
<1>3. demo.programs \in Seq(ProgramSpecs) /\ DOMAIN demo.programs = 1..Len(demo.programs)
      /\ prog \in DOMAIN demo.programs /\ Len(demo.programs) \in Nat \ {0}
  BY DemoFacts
<1>4. pc' \in Phases /\ prog' \in DOMAIN demo.programs
  <2>1. CASE pc = "tcb" /\ prog < Len(demo.programs)
    BY <1>3, <2>1 DEF NextPhase, Phases, Then
  <2>2. CASE ~(pc = "tcb" /\ prog < Len(demo.programs))
    BY <1>1, <1>3, <2>2 DEF NextPhase, Phases, Then
  <2> QED
    BY <2>1, <2>2
<1>5. TypeOK'
  BY <1>1, <1>2, <1>4 DEF TypeOK, given, locals, objects, sched
<1>6. Counting'
  <2>1. Len(handles') = Len(handles) /\ Len(tcbs') = Len(tcbs) /\ demo' = demo
        /\ running' = running
    BY <1>2 DEF given, locals, objects, sched
  <2>2. CASE pc = "root"
    <3>1. Rounds = Len(demo.root)
      BY <2>2 DEF Rounds
    <3>2. Len(demo.root) \in Nat /\ i \in Nat
      BY DemoFacts DEF TypeOK
    <3>3. pc' = "vspace" /\ prog' = prog
      BY <2>2 DEF NextPhase, Then
    <3> QED
      BY <1>1, <2>1, <2>2, <3>1, <3>2, <3>3 DEF Counting, LoadPhases, LatePhases
  <2>3. CASE pc = "tcb" /\ prog < Len(demo.programs)
    <3>1. i > 1 /\ pc' = "vspace" /\ prog' = prog + 1
      BY <1>1, <2>3 DEF NextPhase, Rounds
    <3> QED
      BY <1>1, <1>3, <2>1, <2>3, <3>1 DEF Counting, LoadPhases, LatePhases
  <2>4. CASE pc = "tcb" /\ ~(prog < Len(demo.programs))
    <3>1. i > 1 /\ pc' = "wire" /\ prog' = prog
      BY <1>1, <2>4 DEF NextPhase, Rounds, Then
    <3> QED
      BY <1>1, <1>3, <2>1, <2>4, <3>1 DEF Counting, LoadPhases, LatePhases
  <2>5. CASE pc \in (LoadPhases \cup {"wire", "ready"}) \ {"tcb"}
    <3>1. pc' = Then[pc] /\ prog' = prog
      BY <2>5 DEF NextPhase, LoadPhases
    <3> QED
      BY <1>1, <2>1, <2>5, <3>1 DEF Counting, LoadPhases, LatePhases, Then
  <2> QED
    BY <1>1, <2>2, <2>3, <2>4, <2>5 DEF Then, LoadPhases
<1> QED
  BY <1>5, <1>6

(* So does making or minting a root object.                                *)
LEMMA RootShape ==
  ASSUME TypeOK, Counting, RetypeRootObject \/ MintRootObject
  PROVE  TypeOK' /\ Counting'
<1>1. /\ pc = "root" /\ i <= Len(demo.root) /\ i' = i + 1 /\ pc' = pc /\ prog' = prog
      /\ nextSlot \in Slots /\ nextSlot' = nextSlot + 1
      /\ handles' = Append(handles, nextSlot)
      /\ UNCHANGED <<given, stage, loc, watermark, objects, sched>>
  BY DEF RetypeRootObject, MintRootObject, At, Rounds, CanRetype, SlotFree, NextRound
<1>2. /\ i \in DOMAIN demo.root /\ RootOp \in RootObjects
      /\ RootOp.op = "Mint" => RootOp.src \in 1..(i - 1)
  <2>1. i \in DOMAIN demo.root
    BY <1>1, DemoFacts DEF TypeOK
  <2>2. demo.root \in Seq(RootObjects) /\ IsDescription(demo)
    BY DemoFacts
  <2> QED
    BY <2>1, <2>2 DEF RootOp, IsDescription
<1>3. handles' \in Seq(Slots) /\ Len(handles') = Len(handles) + 1
  BY <1>1, AppendProperties DEF TypeOK
<1>4. root' \in [Slots -> Caps] /\ budget' \in Nat
  <2>1. CASE RetypeRootObject
    <3>1. Cap(RootOp.op, i) \in Caps
      <4>1. RootOp.op \in {"Endpoint", "Notification"}
        BY <1>2, <2>1 DEF RetypeRootObject, RootObjects
      <4>2. RootOp.op \in Kinds /\ i \in Nat
        BY <4>1 DEF Kinds, TypeOK
      <4> QED
        BY <4>2, CapType
    <3>2. root' = [root EXCEPT ![nextSlot] = Cap(RootOp.op, i)] /\ budget' = budget - 1
          /\ budget > 0
      BY <2>1 DEF RetypeRootObject, CanRetype
    <3> QED
      BY <1>1, <3>1, <3>2 DEF TypeOK
  <2>2. CASE MintRootObject
    <3>1. handles[RootOp.src] \in Slots
      BY <1>1, <1>2, <2>2 DEF MintRootObject, Counting, TypeOK
    <3>2. Minted \in Caps
      BY <1>2, <3>1 DEF Minted, Caps, RootObjects, TypeOK
    <3>3. root' = [root EXCEPT ![nextSlot] = Minted] /\ budget' = budget
      BY <2>2 DEF MintRootObject
    <3> QED
      BY <1>1, <3>2, <3>3 DEF TypeOK
  <2> QED
    BY <2>1, <2>2
<1>5. TypeOK'
  BY <1>1, <1>3, <1>4 DEF TypeOK, Slots, given, objects, sched
<1>6. Counting'
  BY <1>1, <1>3, LimitsAssumption DEF TypeOK, Counting, LoadPhases, LatePhases, given, objects, sched
<1> QED
  BY <1>5, <1>6

(* Objects of a program without memory.                                    *)

(* So does creating a VSpace or a CNode: objects without memory.           *)
LEMMA CreateShape ==
  ASSUME TypeOK, Counting, CreateVSpace \/ CreateCNode
  PROVE  TypeOK' /\ Counting'
<1>1. /\ pc \in {"vspace", "cnode"} /\ i' = i + 1 /\ pc' = pc /\ prog' = prog
      /\ nextSlot \in Slots /\ nextSlot' = nextSlot + 1
      /\ budget > 0 /\ budget' = budget - 1
      /\ UNCHANGED <<given, stage, handles, watermark, frames, tcbs, sched>>
  BY DEF CreateVSpace, CreateCNode, At, CanRetype, SlotFree, NextRound
<1>2. /\ loc' \in [vspace : Slots, cnode : Slots, scratch : Nat, frame : Slots]
      /\ root' \in [Slots -> Caps] /\ vspaces' \in Nat
      /\ spaces' \in Seq([Slots -> Caps])
  <2>1. CASE CreateVSpace
    <3>1. Cap("VSpace", vspaces + 1) \in Caps
      <4>1. vspaces + 1 \in Nat
        BY DEF TypeOK
      <4>2. "VSpace" \in Kinds
        BY DEF Kinds
      <4> QED
        BY <4>1, <4>2, CapType
    <3>2. /\ loc' = [loc EXCEPT !.vspace = nextSlot] /\ vspaces' = vspaces + 1
          /\ root' = [root EXCEPT ![nextSlot] = Cap("VSpace", vspaces + 1)]
          /\ spaces' = spaces
      BY <2>1 DEF CreateVSpace
    <3>3. /\ root \in [Slots -> Caps] /\ vspaces \in Nat
          /\ spaces \in Seq([Slots -> Caps])
          /\ loc \in [vspace : Slots, cnode : Slots, scratch : Nat, frame : Slots]
      BY DEF TypeOK
    <3>4. root' \in [Slots -> Caps]
      BY <1>1, <3>1, <3>2, <3>3
    <3>5. loc' \in [vspace : Slots, cnode : Slots, scratch : Nat, frame : Slots]
      BY <1>1, <3>2, <3>3
    <3> QED
      BY <3>2, <3>3, <3>4, <3>5
  <2>2. CASE CreateCNode
    <3>1. Cap("CNode", Len(spaces) + 1) \in Caps
      <4>1. spaces \in Seq([Slots -> Caps])
        BY DEF TypeOK
      <4> QED
        BY <4>1, NextCapType
    <3>2. [s \in Slots |-> Empty] \in [Slots -> Caps]
      BY CapType DEF Kinds
    <3>3. spaces' \in Seq([Slots -> Caps])
      BY <2>2, <3>2, AppendProperties DEF CreateCNode, TypeOK
    <3> QED
      BY <1>1, <2>2, <3>1, <3>3 DEF CreateCNode, TypeOK
  <2> QED
    BY <2>1, <2>2
<1>3. TypeOK'
  BY <1>1, <1>2 DEF TypeOK, Slots, given, sched
<1>4. Counting'
  BY <1>1 DEF Counting, LoadPhases, LatePhases, given, sched
<1> QED
  BY <1>3, <1>4

(* The steps that make, clear, map and fill frames.                        *)

(* Replacing one frame record by another leaves a sequence of frames.      *)
LEMMA FrameType ==
  ASSUME frames \in Seq(Frames), NEW f \in 1..Len(frames), NEW r \in Frames
  PROVE  [frames EXCEPT ![f] = r] \in Seq(Frames)
BY ExceptSeq

(* Mapping a frame leaves a sequence of frames, as long as before.         *)
LEMMA MappedType ==
  ASSUME frames \in Seq(Frames), NEW f \in 1..Len(frames), NEW places,
         Range(places) \subseteq Mappings
  PROVE  Mapped(f, places) \in Seq(Frames)
<1>1. frames[f] \in Frames
  BY ElementOfSeq
<1>2. [frames[f] EXCEPT !.maps = @ \cup Range(places)] \in Frames
  BY <1>1 DEF Frames
<1>3. Mapped(f, places) = [frames EXCEPT ![f] = [frames[f] EXCEPT !.maps = @ \cup Range(places)]]
  BY DEF Mapped
<1> QED
  BY <1>2, <1>3, FrameType

(* Retyping a frame keeps the types and the counts.                        *)
LEMMA RetypeFrameShape ==
  ASSUME TypeOK, Counting, RetypeFrame
  PROVE  TypeOK' /\ Counting'
<1>1. FrameSlot \in Slots /\ FramePages \in {Small, Mega}
  BY DEF RetypeFrame, CanRetypeFrame, CanRetype, SlotFree, FramePages
<1>2. /\ budget > 0 /\ budget' = budget - 1 /\ stage' = "clear"
      /\ nextSlot' \in {nextSlot, nextSlot + 1}
      /\ loc' = [loc EXCEPT !.frame = FrameSlot]
      /\ UNCHANGED <<given, pc, prog, i, handles, vspaces, spaces, tcbs, sched>>
  BY DEF RetypeFrame, CanRetypeFrame, CanRetype
<1>3. root' = [root EXCEPT ![FrameSlot] = Cap("Frame", Len(frames) + 1)]
  BY DEF RetypeFrame
<1>4. /\ watermark' = Bump(FramePages) + FramePages
      /\ frames' = Append(frames, [base |-> Bump(FramePages), pages |-> FramePages,
                                   content |-> <<>>, maps |-> {}])
  BY DEF RetypeFrame
<1>5. Bump(FramePages) \in Nat /\ watermark' \in Nat
  <2>1. watermark \in Nat
    BY DEF TypeOK
  <2>2. Bump(FramePages) \in Nat /\ FramePages \in Nat
    BY <1>1, <2>1, BumpFacts DEF Small, Mega
  <2> QED
    BY <1>4, <2>2
<1>6. frames' \in Seq(Frames)
  <2>1. [base |-> Bump(FramePages), pages |-> FramePages, content |-> <<>>,
         maps |-> {}] \in Frames
    BY <1>1, <1>5 DEF Frames
  <2>2. frames \in Seq(Frames)
    BY DEF TypeOK
  <2> QED
    BY <1>4, <2>1, <2>2, AppendProperties
<1>7. root' \in [Slots -> Caps]
  <2>1. Cap("Frame", Len(frames) + 1) \in Caps
    <3>1. frames \in Seq(Frames)
      BY DEF TypeOK
    <3> QED
      BY <3>1, NextCapType
  <2>2. root \in [Slots -> Caps]
    BY DEF TypeOK
  <2> QED
    BY <1>1, <1>3, <2>1, <2>2
<1>8. TypeOK'
  <2>1. loc' \in [vspace : Slots, cnode : Slots, scratch : Nat, frame : Slots]
    BY <1>1, <1>2 DEF TypeOK
  <2>2. budget' \in Nat /\ nextSlot' \in Nat /\ stage' \in {"retype", "clear", "give"}
    BY <1>2 DEF TypeOK
  <2> QED
    BY <1>2, <1>5, <1>6, <1>7, <2>1, <2>2 DEF TypeOK, given, sched
<1>9. Counting'
  BY <1>2 DEF Counting, given, sched
<1> QED
  BY <1>8, <1>9

(* While a frame is being handed over, root's capability names the newest. *)
LEMMA HandedFrame ==
  ASSUME TypeOK, Handing, stage # "retype"
  PROVE  /\ ThisFrame = Len(frames) /\ ThisFrame \in 1..Len(frames)
         /\ ThisFrame \in DOMAIN frames /\ frames[ThisFrame] \in Frames
<1>1. ThisFrame = Len(frames) /\ frames # <<>> /\ frames \in Seq(Frames)
  BY DEF Handing, ThisFrame, Cap, TypeOK
<1>2. ThisFrame \in 1..Len(frames)
  BY <1>1
<1> QED
  BY <1>1, <1>2, ElementOfSeq

(* Clearing the frame keeps the types and the counts.                      *)
LEMMA ClearFrameShape ==
  ASSUME TypeOK, Counting, Handing, ClearFrame
  PROVE  TypeOK' /\ Counting'
<1>1. /\ stage = "clear" /\ frames' = Cleared /\ stage' = "give"
      /\ UNCHANGED <<given, pc, prog, i, locals, root, budget, watermark, vspaces,
                     spaces, tcbs, sched>>
  BY DEF ClearFrame
<1>2. frames' \in Seq(Frames)
  <2>1. ThisFrame \in 1..Len(frames) /\ frames[ThisFrame] \in Frames
    BY <1>1, HandedFrame
  <2>2. [frames[ThisFrame] EXCEPT !.content = <<"zero">>] \in Frames
    <3>1. <<"zero">> \in Seq({"zero", "image", "package"})
      OBVIOUS
    <3> QED
      BY <2>1, <3>1 DEF Frames
  <2>3. frames' = [frames EXCEPT ![ThisFrame] =
                     [frames[ThisFrame] EXCEPT !.content = <<"zero">>]]
    BY <1>1 DEF Cleared
  <2>4. frames \in Seq(Frames)
    BY DEF TypeOK
  <2> QED
    BY <2>1, <2>2, <2>3, <2>4, FrameType
<1> QED
  BY <1>1, <1>2 DEF TypeOK, Counting, given, locals, sched

(* So does mapping it in the new program's VSpace.                         *)
LEMMA MapPrivateFrameShape ==
  ASSUME TypeOK, Counting, Handing, MapPrivateFrame
  PROVE  TypeOK' /\ Counting'
<1>1. /\ pc \in {"image", "stack", "heap"} /\ i <= Rounds
      /\ stage = "give" /\ stage' = "retype"
      /\ frames' = Mapped(ThisFrame, <<PrivatePlace>>)
      /\ i' = i + 1 /\ pc' = pc /\ prog' = prog
      /\ UNCHANGED <<given, locals, root, budget, watermark, vspaces, spaces, tcbs,
                     sched>>
  BY DEF MapPrivateFrame, At, NextRound
<1>2. PrivatePlace \in Mappings
  <2>1. ThisVSpace \in Nat
    BY DEF ThisVSpace, TypeOK, Caps
  <2>2. This \in ProgramSpecs /\ i \in Nat \ {0}
    BY DemoFacts DEF TypeOK
  <2>3. CASE pc = "image"
    <3>1. This.image \in Seq([vaddr : Nat, perms : SUBSET Perms]) /\ i \in 1..Len(This.image)
      BY <1>1, <2>2, <2>3 DEF ProgramSpecs, Rounds
    <3>2. This.image[i] \in [vaddr : Nat, perms : SUBSET Perms]
      BY <3>1, ElementOfSeq
    <3> QED
      BY <2>1, <2>3, <3>2 DEF PrivatePlace, Place, Mappings
  <2>4. CASE pc = "stack"
    BY <2>1, <2>4 DEF PrivatePlace, Place, Mappings, STACK_VADDR, Perms
  <2>5. CASE pc = "heap"
    BY <2>1, <2>2, <2>5
    DEF PrivatePlace, Place, Mappings, HEAP_VADDR, STACK_VADDR, Mega, Perms
  <2> QED
    BY <1>1, <2>3, <2>4, <2>5
<1>3. Range(<<PrivatePlace>>) \subseteq Mappings
  BY <1>2 DEF Range
<1>4. frames' \in Seq(Frames)
  BY <1>1, <1>3, HandedFrame, MappedType DEF TypeOK
<1>5. TypeOK'
  BY <1>1, <1>4 DEF TypeOK, given, locals, sched
<1>6. Counting'
  BY <1>1 DEF Counting, LoadPhases, LatePhases, given, locals, sched
<1> QED
  BY <1>5, <1>6

(* Pass 3 writes into frames and leaves their number alone.                *)
LEMMA FillImageType ==
  ASSUME frames \in Seq(Frames), FillImage
  PROVE  frames' \in Seq(Frames) /\ Len(frames') = Len(frames)
<1> DEFINE Filled(f) == IF InThisVSpace(f)
                        THEN [frames[f] EXCEPT !.content = Append(@, "image")]
                        ELSE frames[f]
<1>1. ASSUME NEW f \in 1..Len(frames)
      PROVE  Filled(f) \in Frames
  <2>1. frames[f] \in Frames
    BY ElementOfSeq
  <2>2. Append(frames[f].content, "image") \in Seq({"zero", "image", "package"})
    BY <2>1, AppendProperties DEF Frames
  <2> QED
    BY <2>1, <2>2 DEF Frames
<1>2. frames' = [f \in 1..Len(frames) |-> Filled(f)]
  BY DEF FillImage
<1> HIDE DEF Filled
<1>3. frames' \in [1..Len(frames) -> Frames] /\ Len(frames) \in Nat
  BY <1>1, <1>2
<1> QED
  BY <1>3, SeqDef

(* So it keeps the types and the counts.                                   *)
LEMMA FillImageShape ==
  ASSUME TypeOK, Counting, FillImage
  PROVE  TypeOK' /\ Counting'
<1>1. /\ pc = "fill" /\ i' = i + 1 /\ pc' = pc /\ prog' = prog
      /\ UNCHANGED <<given, stage, locals, root, budget, watermark, vspaces, spaces,
                     tcbs, sched>>
  BY DEF FillImage, At, NextRound
<1>2. frames' \in Seq(Frames)
  BY FillImageType DEF TypeOK
<1> QED
  BY <1>1, <1>2 DEF TypeOK, Counting, LoadPhases, LatePhases, given, locals, sched

(* The steps that copy a capability into the new program's CSpace.         *)

(* copy_cross writes a capability into a CSpace that exists.               *)
LEMMA CopyCrossType ==
  ASSUME TypeOK, NEW src \in Slots, NEW dest, CopyCross(src, dest)
  PROVE  spaces' \in Seq([Slots -> Caps]) /\ Len(spaces') = Len(spaces)
<1>1. /\ dest \in Slots /\ spaces' = [spaces EXCEPT ![ThisSpace][dest] = root[src]]
      /\ spaces \in Seq([Slots -> Caps]) /\ root[src] \in Caps
  BY DEF CopyCross, CanCopy, TypeOK
<1>2. CASE ThisSpace \in 1..Len(spaces)
  <2>1. spaces[ThisSpace] \in [Slots -> Caps]
    BY <1>1, <1>2, ElementOfSeq
  <2>2. [spaces[ThisSpace] EXCEPT ![dest] = root[src]] \in [Slots -> Caps]
    BY <1>1, <2>1
  <2>3. spaces' = [spaces EXCEPT ![ThisSpace] =
                     [spaces[ThisSpace] EXCEPT ![dest] = root[src]]]
    BY <1>1
  <2> QED
    BY <1>1, <1>2, <2>2, <2>3, ExceptSeq
<1>3. CASE ThisSpace \notin 1..Len(spaces)
  <2>1. spaces' = spaces
    BY <1>1, <1>3
  <2> QED
    BY <1>1, <2>1
<1> QED
  BY <1>2, <1>3

(* The four steps built on it keep the types and the counts.               *)
LEMMA CopyShape ==
  ASSUME TypeOK, Counting,
         GrantObject \/ GrantSelfCNode \/ OpenArena \/ GrantArenaFrame
  PROVE  TypeOK' /\ Counting'
<1>1. /\ pc \in {"grants", "self", "scratch", "arena"} /\ i' = i + 1 /\ pc' = pc
      /\ prog' = prog
      /\ UNCHANGED <<given, handles, budget, watermark, frames, vspaces, tcbs, sched>>
  BY DEF GrantObject, GrantSelfCNode, OpenArena, GrantArenaFrame, At, NextRound, locals
<1>2. \E src \in Slots : \E dest : CopyCross(src, dest)
  <2>1. CASE GrantObject
    <3>1. /\ i \in DOMAIN This.grants
          /\ CopyCross(handles[This.grants[i].from], This.grants[i].to)
      <4>1. i <= Len(This.grants) /\ pc = "grants"
        BY <2>1 DEF GrantObject, At, Rounds
      <4>2. This.grants \in Seq([from : Nat, to : Nat]) /\ i \in Nat \ {0}
        BY DemoFacts DEF ProgramSpecs, TypeOK
      <4> QED
        BY <2>1, <4>1, <4>2 DEF GrantObject
    <3>2. This.grants[i].from \in DOMAIN demo.root
      BY <3>1, DemoFacts DEF IsDescription, This
    <3>3. handles \in Seq(Slots) /\ This.grants[i].from \in 1..Len(handles)
      BY <2>1, <3>2, DemoFacts
      DEF GrantObject, At, Counting, LoadPhases, TypeOK
    <3> QED
      BY <3>1, <3>3, ElementOfSeq
  <2>2. CASE GrantSelfCNode
    BY <2>2 DEF GrantSelfCNode, TypeOK
  <2>3. CASE OpenArena
    BY <2>3 DEF OpenArena, TypeOK
  <2>4. CASE GrantArenaFrame
    BY <2>4 DEF GrantArenaFrame, TypeOK
  <2> QED
    BY <2>1, <2>2, <2>3, <2>4
<1>3. spaces' \in Seq([Slots -> Caps])
  BY <1>2, CopyCrossType
<1>4. /\ nextSlot' \in Nat /\ stage' \in {"retype", "clear", "give"}
      /\ root' \in [Slots -> Caps]
      /\ loc' \in [vspace : Slots, cnode : Slots, scratch : Nat, frame : Slots]
  <2>1. /\ nextSlot \in Nat /\ stage \in {"retype", "clear", "give"}
        /\ root \in [Slots -> Caps] /\ Empty \in Caps
        /\ loc \in [vspace : Slots, cnode : Slots, scratch : Nat, frame : Slots]
    BY CapType DEF TypeOK, Kinds
  <2>2. CASE GrantObject \/ GrantSelfCNode
    BY <2>1, <2>2 DEF GrantObject, GrantSelfCNode, locals
  <2>3. CASE OpenArena
    <3>1. loc' = [loc EXCEPT !.scratch = nextSlot] /\ nextSlot' = nextSlot + 1
          /\ stage' = stage /\ root' = root
      BY <2>3 DEF OpenArena
    <3> QED
      BY <2>1, <3>1
  <2>4. CASE GrantArenaFrame
    <3>1. root' = [root EXCEPT ![loc.frame] = Empty] /\ stage' = "retype"
          /\ loc' = loc /\ nextSlot' = nextSlot
      BY <2>4 DEF GrantArenaFrame, FrameDropped, locals
    <3> QED
      BY <2>1, <3>1
  <2> QED
    BY <2>2, <2>3, <2>4
<1>5. TypeOK'
  BY <1>1, <1>3, <1>4 DEF TypeOK, given, sched
<1>6. Counting'
  BY <1>1 DEF Counting, LoadPhases, LatePhases, given, sched
<1> QED
  BY <1>5, <1>6

(* The thread of program prog is thread number prog, and is queued.        *)
LEMMA CreateThreadShape ==
  ASSUME TypeOK, Counting, CreateThread
  PROVE  TypeOK' /\ Counting'
<1>1. pc = "tcb" /\ i = 1 /\ i' = 2 /\ pc' = pc /\ prog' = prog
  <2>1. pc = "tcb" /\ i <= Rounds /\ NextRound
    BY DEF CreateThread, At
  <2>2. Rounds = 1 /\ i \in Nat \ {0}
    BY <2>1 DEF Rounds, TypeOK
  <2> QED
    BY <2>1, <2>2 DEF NextRound
<1>2. /\ nextSlot \in Slots /\ nextSlot + 1 \in Slots /\ nextSlot' = nextSlot + 2
      /\ budget > 1 /\ budget' = budget - 2
      /\ UNCHANGED <<given, stage, handles, loc, watermark, frames, vspaces, spaces,
                     running>>
  BY DEF CreateThread, SlotFree
<1>3. root' = [root EXCEPT ![nextSlot] = Cap("SchedContext", Len(tcbs) + 1),
                           ![nextSlot + 1] = Cap("Tcb", Len(tcbs) + 1)]
  BY DEF CreateThread
<1>4. /\ tcbs' = Append(tcbs, [cspace |-> ThisSpace, vspace |-> ThisVSpace,
                               vspaceCptr |-> loc.vspace, arg0 |-> This.arg0])
      /\ ready' = Append(ready, Len(tcbs) + 1)
  BY DEF CreateThread, NewThread
<1>5. root' \in [Slots -> Caps]
  <2>1. /\ root \in [Slots -> Caps] /\ Cap("SchedContext", Len(tcbs) + 1) \in Caps
        /\ Cap("Tcb", Len(tcbs) + 1) \in Caps
    <3>1. /\ root \in [Slots -> Caps]
          /\ tcbs \in Seq([cspace : Nat, vspace : Nat, vspaceCptr : Slots, arg0 : Nat])
      BY DEF TypeOK
    <3> QED
      BY <3>1, NextCapType
  <2> QED
    BY <1>2, <1>3, <2>1
<1>6. /\ tcbs' \in Seq([cspace : Nat, vspace : Nat, vspaceCptr : Slots, arg0 : Nat])
      /\ Len(tcbs') = Len(tcbs) + 1
  <2>1. [cspace |-> ThisSpace, vspace |-> ThisVSpace, vspaceCptr |-> loc.vspace,
         arg0 |-> This.arg0]
          \in [cspace : Nat, vspace : Nat, vspaceCptr : Slots, arg0 : Nat]
    <3>1. This.arg0 \in Nat
      BY DemoFacts DEF ProgramSpecs
    <3> QED
      BY <3>1 DEF ThisSpace, ThisVSpace, TypeOK, Caps
  <2>2. tcbs \in Seq([cspace : Nat, vspace : Nat, vspaceCptr : Slots, arg0 : Nat])
    BY DEF TypeOK
  <2> QED
    BY <1>4, <2>1, <2>2, AppendProperties
<1>7. Len(tcbs) = prog - 1
  BY <1>1 DEF Counting, LoadPhases
<1>8. ready' \in Seq(DOMAIN demo.programs)
  <2>1. Len(tcbs) + 1 \in DOMAIN demo.programs /\ ready \in Seq(DOMAIN demo.programs)
    BY <1>7, DemoFacts DEF TypeOK
  <2> QED
    BY <1>4, <2>1, AppendProperties
<1>9. budget' \in Nat /\ nextSlot' \in Nat
  BY <1>2 DEF TypeOK
<1>10. TypeOK'
  BY <1>1, <1>2, <1>5, <1>6, <1>8, <1>9 DEF TypeOK, given
<1>11. Counting'
  <2>1. prog \in 1..Len(demo.programs)
    BY DemoFacts
  <2>2. Len(tcbs) \in Nat
    BY LenProperties DEF TypeOK
  <2> QED
    BY <1>1, <1>2, <1>6, <1>7, <2>1, <2>2 DEF Counting, LoadPhases, LatePhases, given
<1> QED
  BY <1>10, <1>11

(* The steps after load_all.                                               *)

(* In the wire phase every program named by a wire has its thread.         *)
LEMMA WireFacts ==
  ASSUME TypeOK, Counting, pc = "wire", i <= Rounds
  PROVE  /\ i \in DOMAIN demo.wires /\ Wire \in Wirings
         /\ \A k \in DOMAIN Wire.to :
              /\ Wire.to[k].prog \in DOMAIN tcbs
              /\ Wire.to[k].vaddr \in Nat
<1>1. i \in DOMAIN demo.wires
  BY DemoFacts DEF Rounds, TypeOK
<1>2. Wire \in Wirings
  BY <1>1, DemoFacts DEF Wire
<1>3. Wire.to \in Seq([prog : Nat, vaddr : Nat])
  BY <1>2 DEF Wirings
<1>4. ASSUME NEW k \in DOMAIN Wire.to
      PROVE  Wire.to[k].prog \in DOMAIN tcbs /\ Wire.to[k].vaddr \in Nat
  <2>1. Wire.to[k] \in [prog : Nat, vaddr : Nat]
    BY <1>3, LenProperties, ElementOfSeq
  <2>2. Wire.to[k].prog \in DOMAIN demo.programs
    BY <1>1, DemoFacts DEF IsDescription, Wire
  <2>3. DOMAIN tcbs = DOMAIN demo.programs
    BY DemoFacts DEF Counting, LatePhases, TypeOK
  <2> QED
    BY <2>1, <2>2, <2>3
<1> QED
  BY <1>1, <1>2, <1>4

(* The places of a wire are mappings.                                      *)
LEMMA PlacesType ==
  ASSUME TypeOK, Counting, pc = "wire", i <= Rounds, NEW perms \in SUBSET Perms
  PROVE  \A k \in DOMAIN Places(perms) : Places(perms)[k] \in Mappings
<1>1. ASSUME NEW k \in DOMAIN Wire.to
      PROVE  Places(perms)[k] \in Mappings
  <2>1. Wire.to[k].prog \in DOMAIN tcbs /\ Wire.to[k].vaddr \in Nat
    BY WireFacts
  <2>2. tcbs[Wire.to[k].prog] \in [cspace : Nat, vspace : Nat, vspaceCptr : Slots, arg0 : Nat]
    <3>1. tcbs \in Seq([cspace : Nat, vspace : Nat, vspaceCptr : Slots, arg0 : Nat])
      BY DEF TypeOK
    <3>2. Wire.to[k].prog \in 1..Len(tcbs)
      BY <2>1, <3>1, LenProperties
    <3> QED
      BY <3>1, <3>2, ElementOfSeq
  <2>3. root[tcbs[Wire.to[k].prog].vspaceCptr].obj \in Nat
    BY <2>2 DEF TypeOK, Caps
  <2> QED
    BY <2>1, <2>3 DEF Places, Place, Mappings
<1> QED
  BY <1>1 DEF Places

(* Mapping a frame at a wire's places leaves a sequence of frames.         *)
LEMMA PlacedFrame ==
  ASSUME TypeOK, Counting, Handing, stage = "give", pc = "wire", i <= Rounds,
         NEW perms \in SUBSET Perms
  PROVE  Mapped(ThisFrame, Places(perms)) \in Seq(Frames)
<1>1. Range(Places(perms)) \subseteq Mappings
  BY PlacesType DEF Range
<1> QED
  BY <1>1, HandedFrame, MappedType DEF TypeOK

(* Mapping a shared frame or the package keeps the types and the counts.   *)
LEMMA MapWireShape ==
  ASSUME TypeOK, Counting, Handing, MapSharedFrame \/ MapPackage
  PROVE  TypeOK' /\ Counting'
<1>1. /\ pc = "wire" /\ i <= Rounds /\ i' = i + 1 /\ pc' = pc /\ prog' = prog
      /\ stage = "give" /\ stage' = "retype"
      /\ UNCHANGED <<given, locals, budget, watermark, vspaces, spaces, tcbs, sched>>
  BY DEF MapSharedFrame, MapPackage, At, NextRound
<1>2. \A perms \in SUBSET Perms : Mapped(ThisFrame, Places(perms)) \in Seq(Frames)
  BY <1>1, PlacedFrame
<1>3. frames' \in Seq(Frames) /\ root' \in [Slots -> Caps]
  <2>1. CASE MapSharedFrame
    <3>1. SharedPerms \in SUBSET Perms
      BY DEF SharedPerms, Perms
    <3>2. frames' = Mapped(ThisFrame, Places(SharedPerms)) /\ root' = root
      BY <2>1 DEF MapSharedFrame
    <3> QED
      BY <1>2, <3>1, <3>2 DEF TypeOK
  <2>2. CASE MapPackage
    <3> DEFINE mapped == Mapped(ThisFrame, Places(PackagePerms))
    <3>1. PackagePerms \in SUBSET Perms
      BY DEF PackagePerms, Perms
    <3>2. mapped \in Seq(Frames)
      BY <1>2, <3>1
    <3>3. /\ frames' = [mapped EXCEPT ![ThisFrame].content = Append(@, "package")]
          /\ root' = [root EXCEPT ![loc.frame] = Empty]
      BY <2>2 DEF MapPackage, FrameDropped
    <3>4. ThisFrame \in 1..Len(mapped)
      BY <1>1, HandedFrame DEF Mapped, TypeOK
    <3> HIDE DEF mapped
    <3>5. mapped[ThisFrame] \in Frames
      BY <3>2, <3>4, ElementOfSeq
    <3>6. Append(mapped[ThisFrame].content, "package") \in Seq({"zero", "image", "package"})
      BY <3>5, AppendProperties DEF Frames
    <3>7. [mapped[ThisFrame] EXCEPT !.content = Append(@, "package")] \in Frames
      BY <3>5, <3>6 DEF Frames
    <3>8. frames' = [mapped EXCEPT ![ThisFrame] =
                       [mapped[ThisFrame] EXCEPT !.content = Append(@, "package")]]
      BY <3>3
    <3>9. frames' \in Seq(Frames)
      BY <3>2, <3>4, <3>7, <3>8, ExceptSeq
    <3>10. root' \in [Slots -> Caps]
      BY <3>3, CapType DEF TypeOK, Kinds
    <3> QED
      BY <3>9, <3>10
  <2> QED
    BY <2>1, <2>2
<1>4. TypeOK'
  BY <1>1, <1>3 DEF TypeOK, given, locals, sched
<1>5. Counting'
  BY <1>1 DEF Counting, LoadPhases, LatePhases, given, locals, sched
<1> QED
  BY <1>4, <1>5

(* A device frame is a frame.                                              *)
LEMMA DeviceFrameType ==
  ASSUME TypeOK, Counting, pc = "wire", i <= Rounds
  PROVE  DeviceFrame \in Frames
<1>1. Wire.paddr \in Nat
  BY WireFacts DEF Wirings
<1>2. DevicePerms \in SUBSET Perms /\ Mega \in {Small, Mega}
  BY DEF DevicePerms, Perms
<1>3. {Places(DevicePerms)[k] : k \in DOMAIN Wire.to} \subseteq Mappings
  BY <1>2, PlacesType DEF Places
<1> QED
  BY <1>1, <1>2, <1>3 DEF DeviceFrame, Frames

(* Mapping it keeps the types and the counts.                              *)
LEMMA MapDeviceShape ==
  ASSUME TypeOK, Counting, MapDeviceFrame
  PROVE  TypeOK' /\ Counting'
<1>1. /\ pc = "wire" /\ i <= Rounds /\ i' = i + 1 /\ pc' = pc /\ prog' = prog
      /\ nextSlot' = nextSlot + 2
      /\ root' = [root EXCEPT ![nextSlot] = Empty, ![nextSlot + 1] = Empty]
      /\ UNCHANGED <<given, stage, handles, loc, budget, watermark, vspaces, spaces,
                     tcbs, sched>>
  BY DEF MapDeviceFrame, At, NextRound
<1>2. frames' = Append(frames, DeviceFrame)
  BY DEF MapDeviceFrame
<1>3. frames' \in Seq(Frames)
  BY <1>1, <1>2, DeviceFrameType, AppendProperties DEF TypeOK
<1>4. root' \in [Slots -> Caps]
  <2>1. root \in [Slots -> Caps] /\ Empty \in Caps
    BY CapType DEF TypeOK, Kinds
  <2> QED
    BY <1>1, <2>1
<1>5. nextSlot' \in Nat /\ i' \in Nat \ {0}
  BY <1>1 DEF TypeOK
<1>6. TypeOK'
  BY <1>1, <1>3, <1>4, <1>5 DEF TypeOK, given, sched
<1>7. Counting'
  BY <1>1 DEF Counting, LoadPhases, LatePhases, given, sched
<1> QED
  BY <1>6, <1>7

(* So does make_ready.                                                     *)
LEMMA MakeReadyShape ==
  ASSUME TypeOK, Counting, MakeReady
  PROVE  TypeOK' /\ Counting'
<1>1. /\ pc = "ready" /\ i <= Rounds /\ i' = i + 1 /\ pc' = pc /\ prog' = prog
      /\ UNCHANGED <<given, stage, locals, root, budget, watermark, objects, running>>
  BY DEF MakeReady, At, NextRound
<1>2. ready' \in Seq(DOMAIN demo.programs)
  <2>1. i \in DOMAIN demo.ready
    BY <1>1, DemoFacts DEF Rounds, TypeOK
  <2>2. demo.ready[i] \in DOMAIN demo.programs
    BY <2>1, DemoFacts
  <2>3. ready \in Seq(DOMAIN demo.programs)
    BY DEF TypeOK
  <2>4. ready' = Queued(demo.ready[i])
    BY DEF MakeReady
  <2> QED
    BY <2>2, <2>3, <2>4, AppendProperties DEF Queued
<1>3. TypeOK'
  BY <1>1, <1>2 DEF TypeOK, given, locals, objects
<1>4. Counting'
  BY <1>1 DEF Counting, LoadPhases, LatePhases, given, locals, objects
<1> QED
  BY <1>3, <1>4

(* What leaving the queue does to it.                                      *)

(* Taking a thread off the queue leaves a queue of threads.                *)
LEMMA WithoutType ==
  ASSUME NEW S, ready \in Seq(S), NEW t
  PROVE  /\ Without(t) \in Seq(S)
         /\ t \in Range(ready) =>
              \E k \in 1..Len(ready) :
                /\ ready[k] = t /\ Len(Without(t)) = Len(ready) - 1
                /\ \A j \in 1..(Len(ready) - 1) :
                     Without(t)[j] = IF j < k THEN ready[j] ELSE ready[j + 1]
         /\ t \notin Range(ready) => Without(t) = ready
<1>1. CASE t \in Range(ready)
  <2> DEFINE k == CHOOSE j \in DOMAIN ready : ready[j] = t
  <2>1. k \in 1..Len(ready) /\ ready[k] = t /\ Len(ready) \in Nat
    BY <1>1 DEF Range
  <2>2. Without(t) = SubSeq(ready, 1, k - 1) \o SubSeq(ready, k + 1, Len(ready))
    BY <1>1 DEF Without
  <2> HIDE DEF k
  <2> DEFINE a == SubSeq(ready, 1, k - 1)
             b == SubSeq(ready, k + 1, Len(ready))
  <2>3. /\ a \in Seq(S) /\ Len(a) = k - 1
        /\ \A j \in 1..(k - 1) : a[j] = ready[j]
    <3>1. \A j \in 1..(k - 1) : ready[j] \in S
      BY <2>1, ElementOfSeq
    <3> QED
      BY <2>1, <3>1, SubSeqProperties
  <2>4. /\ b \in Seq(S) /\ Len(b) = Len(ready) - k
        /\ \A j \in 1..(Len(ready) - k) : b[j] = ready[k + j]
    <3>1. \A j \in (k + 1)..Len(ready) : ready[j] \in S
      BY <2>1, ElementOfSeq
    <3>2. /\ b \in Seq(S)
          /\ Len(b) = IF k + 1 <= Len(ready) THEN Len(ready) - (k + 1) + 1 ELSE 0
          /\ \A j \in 1..(Len(ready) - (k + 1) + 1) : b[j] = ready[(k + 1) + j - 1]
      BY <2>1, <3>1, SubSeqProperties
    <3> HIDE DEF b
    <3> QED
      BY <2>1, <3>2
  <2> HIDE DEF a, b
  <2>5. /\ a \o b \in Seq(S) /\ Len(a \o b) = Len(a) + Len(b)
        /\ \A j \in 1..(Len(a) + Len(b)) :
             (a \o b)[j] = IF j <= Len(a) THEN a[j] ELSE b[j - Len(a)]
    BY <2>3, <2>4, ConcatProperties
  <2>6. Without(t) = a \o b
    BY <2>2 DEF a, b
  <2>7. ASSUME NEW j \in 1..(Len(ready) - 1)
        PROVE  Without(t)[j] = IF j < k THEN ready[j] ELSE ready[j + 1]
    <3>1. CASE j < k
      BY <2>1, <2>3, <2>4, <2>5, <2>6, <3>1
    <3>2. CASE ~(j < k)
      <4>1. j - (k - 1) \in 1..(Len(ready) - k) /\ k + (j - (k - 1)) = j + 1
        BY <2>1, <3>2
      <4>2. b[j - (k - 1)] = ready[j + 1]
        BY <2>4, <4>1
      <4>3. j \in 1..(Len(a) + Len(b)) /\ ~(j <= Len(a))
        BY <2>1, <2>3, <2>4, <3>2
      <4>4. Without(t)[j] = b[j - (k - 1)]
        BY <2>3, <2>5, <2>6, <4>3
      <4> QED
        BY <3>2, <4>2, <4>4
    <3> QED
      BY <3>1, <3>2
  <2>8. Without(t) \in Seq(S) /\ Len(Without(t)) = Len(ready) - 1
    BY <2>1, <2>3, <2>4, <2>5, <2>6
  <2> QED
    BY <1>1, <2>1, <2>7, <2>8
<1>2. CASE t \notin Range(ready)
  BY <1>2 DEF Without
<1> QED
  BY <1>1, <1>2

(* Entering the first thread keeps the types and the counts.               *)
LEMMA EnterShape ==
  ASSUME TypeOK, Counting, EnterFirstThread
  PROVE  TypeOK' /\ Counting'
<1>1. /\ pc = "enter" /\ pc' = "running" /\ running' = demo.first
      /\ ready' = Without(demo.first)
      /\ UNCHANGED <<given, prog, i, stage, locals, root, budget, watermark, objects>>
  BY DEF EnterFirstThread, At
<1>2. ready' \in Seq(DOMAIN demo.programs)
  BY <1>1, WithoutType DEF TypeOK
<1>3. TypeOK'
  BY <1>1, <1>2, DemoFacts DEF TypeOK, Phases, given, locals, objects
<1>4. Counting'
  BY <1>1 DEF Counting, LoadPhases, LatePhases, given, locals, objects
<1> QED
  BY <1>3, <1>4

(* So does a panic.                                                        *)
LEMMA PanicShape ==
  ASSUME TypeOK, Counting, Panic
  PROVE  TypeOK' /\ Counting'
<1>1. /\ pc' = "panicked" /\ pc # "running"
      /\ UNCHANGED <<given, prog, i, stage, locals, root, budget, watermark, objects,
                     sched>>
  BY DEF Panic, Refused, WireRefused, NeedsFrame, At
<1> QED
  BY <1>1 DEF TypeOK, Counting, Phases, LoadPhases, LatePhases, given, locals,
              objects, sched

(* Every step keeps the types and the counts.                              *)
LEMMA ShapeStep ==
  ASSUME TypeOK, Counting, Handing, [Next]_vars
  PROVE  TypeOK' /\ Counting'
<1>1. CASE UNCHANGED vars
  BY <1>1 DEF TypeOK, Counting, vars, given, locals, objects, sched
<1> QED
  BY <1>1, NextPhaseShape, RootShape, CreateShape, RetypeFrameShape, ClearFrameShape,
     MapPrivateFrameShape, FillImageShape, CopyShape, CreateThreadShape, MapWireShape,
     MapDeviceShape, MakeReadyShape, EnterShape, PanicShape
  DEF Next

-----------------------------------------------------------------------------
(* Handing.                                                                *)

(* Whether a loop is at a frame depends on where the loops are only.       *)
LEMMA NeedsFrameStable ==
  ASSUME NeedsFrame, UNCHANGED <<demo, pc, prog, i>>
  PROVE  NeedsFrame'
BY DEF NeedsFrame, At, Rounds, This, Arena, Wire

(* Every step keeps Handing.                                               *)
LEMMA HandingStep ==
  ASSUME TypeOK, Handing, [Next]_vars
  PROVE  Handing'
<1>1. CASE RetypeFrame
  <2>1. FrameSlot \in Slots /\ NeedsFrame /\ UNCHANGED <<demo, pc, prog, i>>
    BY <1>1 DEF RetypeFrame, CanRetypeFrame, CanRetype, SlotFree, given
  <2>2. NeedsFrame'
    BY <2>1, NeedsFrameStable
  <2>3. /\ loc' = [loc EXCEPT !.frame = FrameSlot]
        /\ root' = [root EXCEPT ![FrameSlot] = Cap("Frame", Len(frames) + 1)]
    BY <1>1 DEF RetypeFrame
  <2>4. frames' # <<>> /\ Len(frames') = Len(frames) + 1
    <3>1. frames \in Seq(Frames)
      BY DEF TypeOK
    <3>2. PICK r : frames' = Append(frames, r)
      BY <1>1 DEF RetypeFrame
    <3> QED
      BY <3>1, <3>2
  <2>5. root'[loc'.frame] = Cap("Frame", Len(frames) + 1)
    BY <2>1, <2>3 DEF TypeOK
  <2> QED
    BY <2>2, <2>4, <2>5 DEF Handing, Cap
<1>2. CASE ClearFrame
  <2>1. /\ NeedsFrame /\ stage = "clear" /\ UNCHANGED <<demo, pc, prog, i, root, loc>>
        /\ frames' = [frames EXCEPT ![ThisFrame].content = <<"zero">>]
    BY <1>2 DEF ClearFrame, Cleared, given, locals
  <2>2. NeedsFrame'
    BY <2>1, NeedsFrameStable
  <2>3. frames \in Seq(Frames) /\ frames # <<>> /\ root[loc.frame] = Cap("Frame", Len(frames))
    BY <2>1 DEF Handing, TypeOK
  <2>4. Len(frames') = Len(frames)
    BY <2>1, <2>3
  <2>5. frames' # <<>>
    BY <2>3, <2>4
  <2> QED
    BY <2>1, <2>2, <2>3, <2>4, <2>5 DEF Handing, Cap
<1>3. CASE Panic \/ UNCHANGED vars
  <2>1. CASE Panic
    BY <2>1 DEF Panic, Handing, locals, objects, Cap
  <2>2. CASE UNCHANGED vars
    <3>1. UNCHANGED <<demo, pc, prog, i, stage, loc, root, frames>>
      BY <2>2 DEF vars, given, locals, objects
    <3>2. NeedsFrame => NeedsFrame'
      BY <3>1, NeedsFrameStable
    <3> QED
      BY <3>1, <3>2 DEF Handing, Cap
  <2> QED
    BY <1>3, <2>1, <2>2
<1>4. CASE \/ MapPrivateFrame \/ GrantArenaFrame \/ MapSharedFrame \/ MapPackage
  <2>1. stage' = "retype"
    BY <1>4 DEF MapPrivateFrame, GrantArenaFrame, MapSharedFrame, MapPackage
  <2> QED
    BY <2>1 DEF Handing
<1>5. CASE \/ NextPhase \/ RetypeRootObject \/ MintRootObject \/ CreateVSpace
           \/ FillImage \/ CreateCNode \/ GrantObject \/ GrantSelfCNode \/ OpenArena
           \/ CreateThread \/ MapDeviceFrame \/ MakeReady \/ EnterFirstThread
  <2>1. ~NeedsFrame /\ pc # "panicked"
    <3>1. CASE NextPhase
      <4>1. Rounds \in Nat /\ i \in Nat
        BY RoundsType DEF TypeOK
      <4> QED
        BY <3>1, <4>1 DEF NextPhase, Then, NeedsFrame, At
    <3>2. CASE ~NextPhase
      BY <1>5, <3>2
      DEF RetypeRootObject, MintRootObject, CreateVSpace, FillImage, CreateCNode,
          GrantObject, GrantSelfCNode, OpenArena, CreateThread, MapDeviceFrame,
          MakeReady, EnterFirstThread, NeedsFrame, At
    <3> QED
      BY <3>1, <3>2
  <2>2. stage = "retype"
    BY <2>1 DEF Handing
  <2>3. stage' = stage
    BY <1>5
    DEF NextPhase, RetypeRootObject, MintRootObject, CreateVSpace, FillImage,
        CreateCNode, GrantObject, GrantSelfCNode, OpenArena, CreateThread,
        MapDeviceFrame, MakeReady, EnterFirstThread
  <2> QED
    BY <2>2, <2>3 DEF Handing
<1> QED
  BY <1>1, <1>2, <1>3, <1>4, <1>5 DEF Next

-----------------------------------------------------------------------------
(* Memory.                                                                 *)

(* Device frames are megapages below RAM, apart from one another.          *)
LEMMA DeviceFacts ==
  ASSUME TypeOK, NEW w \in DOMAIN demo.wires, demo.wires[w].op = "Device"
  PROVE  /\ demo.wires[w].paddr \in Nat
         /\ demo.wires[w].paddr + Mega <= GENERAL_MEMORY_BASE
         /\ \A v \in DOMAIN demo.wires \ {w} :
              demo.wires[v].op = "Device" =>
                Apart(demo.wires[w].paddr, Mega, demo.wires[v].paddr, Mega)
<1>1. IsDescription(demo) /\ demo.wires[w] \in Wirings
  BY DemoFacts, LenProperties, ElementOfSeq
<1> QED
  BY <1>1 DEF IsDescription, Wirings

(* A step that only changes what frames contain or where they are mapped.  *)
SameLayout ==
  /\ UNCHANGED <<demo, memEnd, watermark>>
  /\ Len(frames') = Len(frames) /\ DOMAIN frames' = DOMAIN frames
  /\ \A f \in DOMAIN frames :
       frames'[f].base = frames[f].base /\ frames'[f].pages = frames[f].pages

(* A step that moves neither frames, watermark nor wires keeps Memory.     *)
LEMMA SameLayoutMemory ==
  ASSUME TypeOK, Handing, Memory, SameLayout,
         (DOMAIN demo.wires \cap DevicesSoFar) \subseteq DevicesSoFar',
         stage' # "retype" => stage # "retype"
  PROVE  Memory'
<1>1. ASSUME NEW f \in DOMAIN frames
      PROVE  (InRam(f) => InRam(f)') /\ (IsDevice(f) => IsDevice(f)')
  BY DEF InRam, IsDevice, SameLayout
<1>2. ASSUME stage # "retype"
      PROVE  InRam(Len(frames))'
  <2>1. Len(frames) \in DOMAIN frames /\ InRam(Len(frames))
    BY <1>2, HandedFrame DEF Memory
  <2> QED
    BY <2>1 DEF InRam, SameLayout
<1>3. ASSUME NEW f \in DOMAIN frames, NEW g \in DOMAIN frames, f # g
      PROVE  Apart(frames[f].base, frames[f].pages, frames[g].base, frames[g].pages)'
  <2>1. Apart(frames[f].base, frames[f].pages, frames[g].base, frames[g].pages)
    BY <1>3 DEF Memory
  <2> QED
    BY <2>1 DEF Apart, SameLayout
<1>4. stage' # "retype" => InRam(Len(frames))'
  BY <1>2 DEF SameLayout
<1>5. GENERAL_MEMORY_BASE <= watermark' /\ watermark' <= memEnd'
  BY DEF Memory, SameLayout
<1>6. \A f \in DOMAIN frames' : InRam(f)' \/ IsDevice(f)'
  BY <1>1 DEF Memory, SameLayout
<1>7. \A f, g \in DOMAIN frames' :
        f # g => Apart(frames[f].base, frames[f].pages, frames[g].base, frames[g].pages)'
  BY <1>3 DEF SameLayout
<1> QED
  BY <1>4, <1>5, <1>6, <1>7 DEF Memory

(* A retyped frame lies above the old watermark and below the new one.     *)
LEMMA RetypeFrameMemory ==
  ASSUME TypeOK, Memory, RetypeFrame
  PROVE  Memory'
<1>0. PICK n \in Nat : n = Len(frames) + 1
  BY DEF TypeOK
<1> DEFINE base == Bump(FramePages)
           new  == [base |-> base, pages |-> FramePages, content |-> <<>>, maps |-> {}]
<1>1. /\ FramePages \in {Small, Mega} /\ base + FramePages <= memEnd
      /\ watermark' = base + FramePages /\ frames' = Append(frames, new)
      /\ UNCHANGED <<demo, memEnd, pc, i>>
  BY DEF RetypeFrame, CanRetypeFrame, FramePages, given
<1>2. frames \in Seq(Frames) /\ watermark \in Nat
  BY DEF TypeOK
<1>3. base \in Nat /\ base >= watermark /\ FramePages \in Nat
  BY <1>1, <1>2, BumpFacts DEF Small, Mega
<1> HIDE DEF base
<1>4. new \in Frames
  BY <1>1, <1>3 DEF Frames
<1>5. /\ Len(frames') = n /\ n \in Nat /\ DOMAIN frames = 1..(n - 1)
      /\ DOMAIN frames' = 1..n /\ frames'[n] = new
      /\ \A f \in DOMAIN frames : frames'[f] = frames[f] /\ frames[f] \in Frames
  BY <1>0, <1>1, <1>2, <1>4, AppendProperties, LenProperties, ElementOfSeq
<1>6. frames'[n].base = base /\ frames'[n].pages = FramePages
  BY <1>5
<1> HIDE DEF new
<1>7. GENERAL_MEMORY_BASE <= watermark /\ GENERAL_MEMORY_BASE \in Nat
  BY DEF Memory, GENERAL_MEMORY_BASE
<1>8. InRam(n)'
  BY <1>1, <1>2, <1>3, <1>6, <1>7 DEF InRam
<1>9. DevicesSoFar' = DevicesSoFar
  BY <1>1 DEF DevicesSoFar
<1>10. ASSUME NEW f \in DOMAIN frames
       PROVE  /\ (InRam(f) \/ IsDevice(f))'
              /\ Apart(frames'[f].base, frames'[f].pages, base, FramePages)
              /\ Apart(base, FramePages, frames'[f].base, frames'[f].pages)
  <2>1. /\ frames'[f].base = frames[f].base /\ frames'[f].pages = frames[f].pages
        /\ frames[f].base \in Nat /\ frames[f].pages \in Nat
    BY <1>5 DEF Frames, Small, Mega
  <2>2. CASE InRam(f)
    BY <1>1, <1>2, <1>3, <2>1, <2>2 DEF InRam, Apart
  <2>3. CASE IsDevice(f)
    <3>1. PICK w \in DOMAIN demo.wires \cap DevicesSoFar :
            /\ demo.wires[w].op = "Device"
            /\ frames[f].base = demo.wires[w].paddr /\ frames[f].pages = Mega
      BY <2>3 DEF IsDevice
    <3>2. frames[f].base + Mega <= GENERAL_MEMORY_BASE /\ Mega \in Nat
      BY <3>1, DeviceFacts DEF Mega
    <3>3. IsDevice(f)'
      BY <1>1, <1>9, <2>1, <3>1 DEF IsDevice
    <3> QED
      BY <1>2, <1>3, <1>7, <2>1, <3>1, <3>2, <3>3 DEF Apart
  <2> QED
    BY <2>2, <2>3 DEF Memory
<1>11. \A f \in DOMAIN frames' : InRam(f)' \/ IsDevice(f)'
  BY <1>5, <1>8, <1>10
<1>12. ASSUME NEW f \in DOMAIN frames', NEW g \in DOMAIN frames', f # g
       PROVE  Apart(frames'[f].base, frames'[f].pages, frames'[g].base, frames'[g].pages)
  <2>1. CASE f \in DOMAIN frames /\ g \in DOMAIN frames
    BY <1>5, <1>12, <2>1 DEF Memory
  <2>2. CASE f = n \/ g = n
    BY <1>5, <1>6, <1>10, <1>12, <2>2
  <2> QED
    BY <1>5, <2>1, <2>2
<1>13. GENERAL_MEMORY_BASE <= watermark' /\ watermark' <= memEnd'
  BY <1>1, <1>2, <1>3, <1>7
<1> QED
  BY <1>5, <1>8, <1>11, <1>12, <1>13 DEF Memory

(* A device frame is apart from RAM and from every other device frame.     *)
LEMMA MapDeviceMemory ==
  ASSUME TypeOK, Counting, Handing, Memory, MapDeviceFrame
  PROVE  Memory'
<1>0. PICK n \in Nat : n = Len(frames) + 1
  BY DEF TypeOK
<1>1. /\ pc = "wire" /\ i <= Rounds /\ Wire.op = "Device" /\ i' = i + 1
      /\ frames' = Append(frames, DeviceFrame)
      /\ UNCHANGED <<demo, memEnd, pc, stage, watermark>>
  BY DEF MapDeviceFrame, At, NextRound, given
<1>2. /\ frames \in Seq(Frames) /\ DeviceFrame \in Frames
      /\ i \in DOMAIN demo.wires /\ i \in Nat \ {0} /\ demo.wires[i] = Wire
  BY <1>1, WireFacts, DeviceFrameType DEF TypeOK, Wire
<1>3. /\ Len(frames') = n /\ n \in Nat /\ DOMAIN frames = 1..(n - 1)
      /\ DOMAIN frames' = 1..n /\ frames'[n] = DeviceFrame
      /\ \A f \in DOMAIN frames : frames'[f] = frames[f] /\ frames[f] \in Frames
  BY <1>0, <1>1, <1>2, AppendProperties, LenProperties, ElementOfSeq
<1>4. frames'[n].base = Wire.paddr /\ frames'[n].pages = Mega
  BY <1>3 DEF DeviceFrame
<1>5. /\ Wire.paddr \in Nat /\ Wire.paddr + Mega <= GENERAL_MEMORY_BASE
      /\ \A v \in DOMAIN demo.wires \ {i} :
           demo.wires[v].op = "Device" =>
             Apart(Wire.paddr, Mega, demo.wires[v].paddr, Mega)
  BY <1>1, <1>2, DeviceFacts
<1>6. DevicesSoFar = 1..(i - 1) /\ DevicesSoFar' = 1..i
  BY <1>1, <1>2 DEF DevicesSoFar
<1>7. IsDevice(n)'
  BY <1>1, <1>2, <1>4, <1>6 DEF IsDevice
<1>8. ASSUME NEW f \in DOMAIN frames
      PROVE  /\ (InRam(f) \/ IsDevice(f))'
             /\ Apart(frames'[f].base, frames'[f].pages, Wire.paddr, Mega)
             /\ Apart(Wire.paddr, Mega, frames'[f].base, frames'[f].pages)
  <2>1. /\ frames'[f].base = frames[f].base /\ frames'[f].pages = frames[f].pages
        /\ frames[f].base \in Nat /\ frames[f].pages \in Nat /\ Mega \in Nat
        /\ GENERAL_MEMORY_BASE \in Nat
    BY <1>3 DEF Frames, Small, Mega, GENERAL_MEMORY_BASE
  <2>2. CASE InRam(f)
    BY <1>1, <1>5, <2>1, <2>2 DEF InRam, Apart
  <2>3. CASE IsDevice(f)
    <3>1. PICK w \in DOMAIN demo.wires \cap DevicesSoFar :
            /\ demo.wires[w].op = "Device"
            /\ frames[f].base = demo.wires[w].paddr /\ frames[f].pages = Mega
      BY <2>3 DEF IsDevice
    <3>2. w \in DOMAIN demo.wires \ {i} /\ w \in DevicesSoFar'
      BY <1>2, <1>6, <3>1
    <3>3. Apart(Wire.paddr, Mega, demo.wires[w].paddr, Mega)
      BY <1>5, <3>1, <3>2
    <3>4. IsDevice(f)'
      BY <1>1, <2>1, <3>1, <3>2 DEF IsDevice
    <3> QED
      BY <2>1, <3>1, <3>3, <3>4 DEF Apart
  <2> QED
    BY <2>2, <2>3 DEF Memory
<1>9. \A f \in DOMAIN frames' : InRam(f)' \/ IsDevice(f)'
  BY <1>3, <1>7, <1>8
<1>10. ASSUME NEW f \in DOMAIN frames', NEW g \in DOMAIN frames', f # g
       PROVE  Apart(frames'[f].base, frames'[f].pages, frames'[g].base, frames'[g].pages)
  <2>1. CASE f \in DOMAIN frames /\ g \in DOMAIN frames
    BY <1>3, <1>10, <2>1 DEF Memory
  <2>2. CASE f = n \/ g = n
    BY <1>3, <1>4, <1>8, <1>10, <2>2
  <2> QED
    BY <1>3, <2>1, <2>2
<1>11. stage' = "retype"
  <2>1. ~NeedsFrame /\ pc # "panicked"
    BY <1>1 DEF NeedsFrame, At
  <2> QED
    BY <1>1, <2>1 DEF Handing
<1> QED
  BY <1>1, <1>9, <1>10, <1>11 DEF Memory

(* Mapping a frame moves no frame.                                         *)
LEMMA MappedLayout ==
  ASSUME frames \in Seq(Frames), NEW f \in 1..Len(frames), NEW places
  PROVE  /\ Len(Mapped(f, places)) = Len(frames)
         /\ DOMAIN Mapped(f, places) = DOMAIN frames
         /\ \A g \in DOMAIN frames :
              /\ Mapped(f, places)[g].base = frames[g].base
              /\ Mapped(f, places)[g].pages = frames[g].pages
              /\ Mapped(f, places)[g].content = frames[g].content
              /\ g # f => Mapped(f, places)[g] = frames[g]
         /\ Mapped(f, places)[f].maps = frames[f].maps \cup Range(places)
<1>1. \A g \in 1..Len(frames) : frames[g] \in Frames
  BY ElementOfSeq
<1> QED
  BY <1>1 DEF Mapped, Frames

(* No step but the two that make a frame moves one or the watermark.       *)
LEMMA LayoutKept ==
  ASSUME TypeOK, Counting, Handing, [Next]_vars, ~RetypeFrame, ~MapDeviceFrame
  PROVE  SameLayout
<1>1. CASE \/ NextPhase \/ RetypeRootObject \/ MintRootObject \/ CreateVSpace
           \/ CreateCNode \/ GrantObject \/ GrantSelfCNode \/ OpenArena
           \/ GrantArenaFrame \/ CreateThread \/ MakeReady \/ EnterFirstThread
           \/ Panic \/ UNCHANGED vars
  <2>1. UNCHANGED <<demo, memEnd, watermark, frames>>
    BY <1>1
    DEF NextPhase, RetypeRootObject, MintRootObject, CreateVSpace, CreateCNode,
        GrantObject, GrantSelfCNode, OpenArena, GrantArenaFrame, CreateThread,
        MakeReady, EnterFirstThread, Panic, vars, given, objects
  <2> QED
    BY <2>1 DEF SameLayout
<1>2. CASE ClearFrame
  <2>1. /\ frames' = [frames EXCEPT ![ThisFrame].content = <<"zero">>]
        /\ UNCHANGED <<demo, memEnd, watermark>> /\ stage = "clear"
    BY <1>2 DEF ClearFrame, Cleared, given
  <2>2. ThisFrame \in 1..Len(frames) /\ frames[ThisFrame] \in Frames /\ frames \in Seq(Frames)
    BY <2>1, HandedFrame DEF TypeOK
  <2> QED
    BY <2>1, <2>2 DEF SameLayout, Frames
<1>3. CASE MapPrivateFrame \/ MapSharedFrame
  <2>1. /\ UNCHANGED <<demo, memEnd, watermark>> /\ stage = "give"
        /\ \E places : frames' = Mapped(ThisFrame, places)
    BY <1>3 DEF MapPrivateFrame, MapSharedFrame, given
  <2>2. ThisFrame \in 1..Len(frames) /\ frames \in Seq(Frames)
    BY <2>1, HandedFrame DEF TypeOK
  <2> QED
    BY <2>1, <2>2, MappedLayout DEF SameLayout
<1>4. CASE MapPackage
  <2> DEFINE mapped == Mapped(ThisFrame, Places(PackagePerms))
  <2>1. /\ UNCHANGED <<demo, memEnd, watermark>> /\ stage = "give"
        /\ frames' = [mapped EXCEPT ![ThisFrame].content = Append(@, "package")]
    BY <1>4 DEF MapPackage, given
  <2>2. ThisFrame \in 1..Len(frames) /\ frames \in Seq(Frames)
    BY <2>1, HandedFrame DEF TypeOK
  <2>3. /\ Len(mapped) = Len(frames)
        /\ DOMAIN mapped = DOMAIN frames
        /\ \A g \in DOMAIN frames :
             mapped[g].base = frames[g].base /\ mapped[g].pages = frames[g].pages
    BY <2>2, MappedLayout
  <2>4. mapped \in Seq(Frames)
    <3>1. PackagePerms \in SUBSET Perms /\ pc = "wire" /\ i <= Rounds
      BY <1>4 DEF PackagePerms, Perms, MapPackage, At
    <3> QED
      BY <2>1, <3>1, PlacedFrame
  <2>5. \A g \in DOMAIN frames : mapped[g] \in Frames
    BY <2>3, <2>4, LenProperties, ElementOfSeq
  <2> HIDE DEF mapped
  <2> QED
    BY <2>1, <2>2, <2>3, <2>4, <2>5 DEF SameLayout, Frames
<1>5. CASE FillImage
  <2>1. /\ UNCHANGED <<demo, memEnd, watermark>>
        /\ frames' = [f \in DOMAIN frames |->
                        IF InThisVSpace(f)
                        THEN [frames[f] EXCEPT !.content = Append(@, "image")]
                        ELSE frames[f]]
    BY <1>5 DEF FillImage, given
  <2>2. Len(frames') = Len(frames) /\ frames \in Seq(Frames)
    BY <1>5, FillImageType DEF TypeOK
  <2>3. \A f \in DOMAIN frames : frames[f] \in Frames
    BY <2>2, LenProperties, ElementOfSeq
  <2> QED
    BY <2>1, <2>2, <2>3 DEF SameLayout, Frames
<1> QED
  BY <1>1, <1>2, <1>3, <1>4, <1>5 DEF Next

(* A wire in place stays in place.                                         *)
LEMMA DevicesKept ==
  ASSUME TypeOK, Counting, [Next]_vars
  PROVE  (DOMAIN demo.wires \cap DevicesSoFar) \subseteq DevicesSoFar'
<1>1. DOMAIN demo.wires = 1..Len(demo.wires) /\ Len(demo.wires) \in Nat /\ i \in Nat \ {0}
  BY DemoFacts DEF TypeOK
<1>2. demo' = demo
  BY DEF Next, vars, given, NextPhase, RetypeRootObject, MintRootObject, CreateVSpace,
         RetypeFrame, ClearFrame, MapPrivateFrame, FillImage, CreateCNode, GrantObject,
         GrantSelfCNode, OpenArena, GrantArenaFrame, CreateThread, MapSharedFrame,
         MapPackage, MapDeviceFrame, MakeReady, EnterFirstThread, Panic
<1>3. CASE NextPhase
  <2>1. CASE pc \in {"wire", "ready"}
    BY <1>2, <1>3, <2>1 DEF NextPhase, Then, DevicesSoFar
  <2>2. CASE pc \notin {"wire", "ready"}
    BY <1>3, <2>2 DEF NextPhase, Then, DevicesSoFar
  <2> QED
    BY <2>1, <2>2
<1>4. CASE EnterFirstThread \/ Panic
  BY <1>2, <1>4 DEF EnterFirstThread, Panic, DevicesSoFar
<1>5. CASE ~(NextPhase \/ EnterFirstThread \/ Panic)
  <2>1. pc' = pc /\ i' \in {i, i + 1}
    BY <1>5
    DEF Next, vars, NextRound, RetypeRootObject, MintRootObject, CreateVSpace,
        RetypeFrame, ClearFrame, MapPrivateFrame, FillImage, CreateCNode, GrantObject,
        GrantSelfCNode, OpenArena, GrantArenaFrame, CreateThread, MapSharedFrame,
        MapPackage, MapDeviceFrame, MakeReady
  <2> QED
    BY <1>1, <1>2, <2>1 DEF DevicesSoFar
<1> QED
  BY <1>3, <1>4, <1>5

(* Every step keeps Memory.                                                *)
LEMMA MemoryStep ==
  ASSUME TypeOK, Counting, Handing, Memory, [Next]_vars
  PROVE  Memory'
<1>1. CASE RetypeFrame
  BY <1>1, RetypeFrameMemory
<1>2. CASE MapDeviceFrame
  BY <1>2, MapDeviceMemory
<1>3. CASE ~RetypeFrame /\ ~MapDeviceFrame
  <2>1. SameLayout
    BY <1>3, LayoutKept
  <2>2. (DOMAIN demo.wires \cap DevicesSoFar) \subseteq DevicesSoFar'
    BY DevicesKept
  <2>3. stage' # "retype" => stage # "retype"
    <3>1. CASE ClearFrame
      BY <3>1 DEF ClearFrame
    <3>2. CASE MapPrivateFrame \/ GrantArenaFrame \/ MapSharedFrame \/ MapPackage
      BY <3>2 DEF MapPrivateFrame, GrantArenaFrame, MapSharedFrame, MapPackage
    <3>3. CASE \/ NextPhase \/ RetypeRootObject \/ MintRootObject \/ CreateVSpace
               \/ FillImage \/ CreateCNode \/ GrantObject \/ GrantSelfCNode
               \/ OpenArena \/ CreateThread \/ MakeReady \/ EnterFirstThread \/ Panic
               \/ UNCHANGED vars
      <4>1. stage' = stage
        BY <3>3
        DEF NextPhase, RetypeRootObject, MintRootObject, CreateVSpace, FillImage,
            CreateCNode, GrantObject, GrantSelfCNode, OpenArena, CreateThread,
            MakeReady, EnterFirstThread, Panic, vars
      <4> QED
        BY <4>1
    <3> QED
      BY <1>3, <3>1, <3>2, <3>3 DEF Next
  <2> QED
    BY <2>1, <2>2, <2>3, SameLayoutMemory
<1> QED
  BY <1>1, <1>2, <1>3

-----------------------------------------------------------------------------
(* The theorems.                                                           *)

(* The clamped end of RAM lies above the bottom of the Untyped.            *)
LEMMA MemEndFacts ==
  ASSUME NEW r \in Nat
  PROVE  MemEnd(r) \in Nat /\ GENERAL_MEMORY_BASE + Mega <= MemEnd(r)
BY DEF MemEnd, RoundDown, GENERAL_MEMORY_BASE, Mega

(* The invariant holds at the start ...                                    *)
LEMMA InitIInv ==
  ASSUME Init
  PROVE  IInv
<1>1. IsDescription(demo) /\ demo.programs # <<>> /\ demo.programs \in Seq(ProgramSpecs)
      /\ demo.root \in Seq(RootObjects)
  BY DemosAssumption DEF Init, IsDescription, Descriptions
<1>2. PICK r \in Nat : memEnd = MemEnd(r)
  BY LimitsAssumption DEF Init
<1>3. memEnd \in Nat /\ GENERAL_MEMORY_BASE <= memEnd
  BY <1>2, MemEndFacts DEF GENERAL_MEMORY_BASE, Mega
<1>4. 0 \in Slots /\ prog = 1 /\ prog \in DOMAIN demo.programs
  BY <1>1, LimitsAssumption DEF Init, Slots
<1>5. root \in [Slots -> Caps]
  BY CapType DEF Init, Kinds
<1>6. TypeOK
  BY <1>3, <1>4, <1>5, LimitsAssumption
  DEF Init, TypeOK, Phases, Then, GENERAL_MEMORY_BASE, Caps, Frames
<1>7. Counting
  BY <1>1 DEF Init, Counting, LoadPhases, LatePhases
<1>8. Handing
  BY DEF Init, Handing
<1>9. Memory
  BY <1>3 DEF Init, Memory, GENERAL_MEMORY_BASE
<1> QED
  BY <1>6, <1>7, <1>8, <1>9 DEF IInv

(* ... and every step keeps it.                                            *)
LEMMA StepIInv ==
  ASSUME IInv, [Next]_vars
  PROVE  IInv'
BY ShapeStep, HandingStep, MemoryStep DEF IInv

(* The invariant holds in every state of every launch: its types, counts   *)
(* and layout of memory are never left (launch.rs, load and retype_frame). *)
THEOREM Invariance == Spec => []IInv
BY InitIInv, StepIInv, PTL DEF Spec

(* Type correctness, for every launch description and machine.             *)
THEOREM TypeCorrect == Spec => []TypeOK
<1>1. IInv => TypeOK
  BY DEF IInv
<1> QED
  BY <1>1, Invariance, PTL

(* No two frames ever share memory and none reaches past the end of the    *)
(* root Untyped.                                                           *)
THEOREM FramesAreDisjoint == Spec => []MemoryDisjoint
<1>1. ASSUME IInv
      PROVE  MemoryDisjoint
  <2>1. TypeOK /\ Memory
    BY <1>1 DEF IInv
  <2>2. ASSUME NEW f \in DOMAIN frames, IsRam(f)
        PROVE  frames[f].base + frames[f].pages <= memEnd
    <3>1. frames[f].base \in Nat /\ frames[f].pages \in Nat /\ memEnd \in Nat
          /\ watermark \in Nat
      <4>1. frames \in Seq(Frames) /\ memEnd \in Nat /\ watermark \in Nat
        BY <2>1 DEF TypeOK
      <4>2. frames[f] \in Frames
        BY <2>2, <4>1, LenProperties, ElementOfSeq
      <4> QED
        BY <4>1, <4>2 DEF Frames, Small, Mega
    <3>2. CASE InRam(f)
      BY <2>1, <3>1, <3>2 DEF InRam, Memory
    <3>3. CASE IsDevice(f)
      <4>1. PICK w \in DOMAIN demo.wires :
              demo.wires[w].op = "Device" /\ frames[f].base = demo.wires[w].paddr
        BY <3>3 DEF IsDevice
      <4>2. frames[f].base + Mega <= GENERAL_MEMORY_BASE
        BY <2>1, <4>1, DeviceFacts
      <4> QED
        BY <2>2, <3>1, <4>2 DEF IsRam, GENERAL_MEMORY_BASE, Mega
    <3> QED
      BY <2>1, <3>2, <3>3 DEF Memory
  <2> QED
    BY <2>1, <2>2 DEF MemoryDisjoint, Memory
<1> QED
  BY <1>1, Invariance, PTL

-----------------------------------------------------------------------------
(* The run queue.  Its invariant is inductive relative to IInv.            *)

(* Every step keeps the queue sound.                                       *)
LEMMA QueueStep ==
  ASSUME IInv, RunQueueSound, [Next]_vars
  PROVE  RunQueueSound'
<1>1. TypeOK /\ Counting /\ ready \in Seq(DOMAIN demo.programs)
      /\ DOMAIN ready = 1..Len(ready) /\ Len(ready) \in Nat
  BY LenProperties DEF IInv, TypeOK
<1>2. CASE CreateThread
  <2>1. /\ pc = "tcb" /\ running = 0 /\ running' = running
        /\ ready' = Append(ready, Len(tcbs) + 1)
    BY <1>1, <1>2 DEF CreateThread, At, NewThread, Counting
  <2>2. tcbs \in Seq([cspace : Nat, vspace : Nat, vspaceCptr : Slots, arg0 : Nat])
    BY <1>1 DEF TypeOK
  <2>3. DOMAIN tcbs = 1..Len(tcbs) /\ DOMAIN tcbs' = 1..(Len(tcbs) + 1)
    <3>1. tcbs' \in Seq([cspace : Nat, vspace : Nat, vspaceCptr : Slots, arg0 : Nat])
      BY <1>1, <1>2, CreateThreadShape DEF TypeOK
    <3>2. PICK t : tcbs' = Append(tcbs, t)
      BY <1>2 DEF CreateThread
    <3>3. Len(tcbs') = Len(tcbs) + 1
      BY <2>2, <3>2
    <3> QED
      BY <2>2, <3>1, <3>3, LenProperties
  <2>4. Range(ready) = 1..Len(tcbs) /\ Len(tcbs) \in Nat
    <3>1. DOMAIN tcbs = Range(ready) \cup ({running} \ {0})
      BY DEF RunQueueSound
    <3> QED
      BY <2>1, <2>2, <2>3, <3>1, LenProperties
  <2>5. /\ DOMAIN ready' = 1..(Len(ready) + 1) /\ ready'[Len(ready) + 1] = Len(tcbs) + 1
        /\ \A k \in 1..Len(ready) : ready'[k] = ready[k]
    BY <1>1, <2>1
  <2>6. \A k \in 1..Len(ready) : ready[k] \in 1..Len(tcbs)
    BY <1>1, <2>4 DEF Range
  <2>7. \A j, k \in DOMAIN ready' : j # k => ready'[j] # ready'[k]
    BY <1>1, <2>4, <2>5, <2>6 DEF RunQueueSound
  <2>8. Range(ready') = 1..(Len(tcbs) + 1)
    <3>1. \A x \in Range(ready') : x \in 1..(Len(tcbs) + 1)
      BY <1>1, <2>4, <2>5, <2>6 DEF Range
    <3>2. ASSUME NEW x \in 1..(Len(tcbs) + 1)
          PROVE  \E k \in DOMAIN ready' : ready'[k] = x
      <4>1. CASE x = Len(tcbs) + 1
        BY <1>1, <2>5, <4>1
      <4>2. CASE x \in 1..Len(tcbs)
        <5>1. PICK k \in 1..Len(ready) : ready[k] = x
          BY <1>1, <2>4, <4>2 DEF Range
        <5> QED
          BY <1>1, <2>5, <5>1
      <4> QED
        BY <2>4, <4>1, <4>2
    <3> QED
      BY <3>1, <3>2 DEF Range
  <2> QED
    BY <2>1, <2>3, <2>4, <2>7, <2>8 DEF RunQueueSound
<1>3. CASE MakeReady
  <2>1. pc = "ready" /\ i <= Rounds /\ running = 0 /\ ready' = Queued(demo.ready[i])
        /\ UNCHANGED <<running, tcbs>>
    BY <1>1, <1>3 DEF MakeReady, At, Counting, objects
  <2>2. demo.ready[i] \in DOMAIN demo.programs
    <3>1. i \in DOMAIN demo.ready
      BY <1>1, <2>1, DemoFacts DEF Rounds, TypeOK
    <3> QED
      BY <1>1, <3>1, DemoFacts
  <2>3. DOMAIN tcbs = DOMAIN demo.programs
    BY <1>1, <2>1, DemoFacts DEF Counting, LatePhases, TypeOK
  <2>4. demo.ready[i] \in Range(ready)
    BY <2>1, <2>2, <2>3 DEF RunQueueSound
  <2> QED
    BY <2>1, <2>4 DEF Queued, RunQueueSound
<1>4. CASE EnterFirstThread
  <2>1. /\ pc = "enter" /\ running = 0 /\ running' = demo.first
        /\ ready' = Without(demo.first) /\ tcbs' = tcbs
    BY <1>1, <1>4 DEF EnterFirstThread, At, Counting, objects
  <2>2. demo.first \in DOMAIN tcbs /\ demo.first # 0
    BY <1>1, <2>1, DemoFacts DEF Counting, LatePhases, TypeOK
  <2>3. demo.first \in Range(ready) /\ DOMAIN tcbs = Range(ready)
    BY <2>1, <2>2 DEF RunQueueSound
  <2>4. PICK k \in 1..Len(ready) :
          /\ ready[k] = demo.first /\ Len(ready') = Len(ready) - 1
          /\ \A j \in 1..(Len(ready) - 1) :
               ready'[j] = IF j < k THEN ready[j] ELSE ready[j + 1]
    BY <1>1, <2>1, <2>3, WithoutType
  <2>5. DOMAIN ready' = 1..(Len(ready) - 1)
    <3>1. ready' \in Seq(DOMAIN demo.programs)
      BY <1>1, <2>1, WithoutType
    <3> QED
      BY <2>4, <3>1, LenProperties
  <2>6. \A j, l \in 1..Len(ready) : j # l => ready[j] # ready[l]
    BY <1>1 DEF RunQueueSound
  <2>7. \A j, l \in DOMAIN ready' : j # l => ready'[j] # ready'[l]
    BY <1>1, <2>4, <2>5, <2>6
  <2>8. \A j \in DOMAIN ready' : ready'[j] \in Range(ready) /\ ready'[j] # demo.first
    <3> SUFFICES ASSUME NEW j \in 1..(Len(ready) - 1)
                 PROVE  ready'[j] \in Range(ready) /\ ready'[j] # demo.first
      BY <2>5
    <3>1. CASE j < k
      BY <1>1, <2>4, <2>6, <3>1 DEF Range
    <3>2. CASE ~(j < k)
      <4>1. j + 1 \in 1..Len(ready) /\ j + 1 # k /\ ready'[j] = ready[j + 1]
        BY <1>1, <2>4, <3>2
      <4> QED
        BY <1>1, <2>4, <2>6, <4>1 DEF Range
    <3> QED
      BY <3>1, <3>2
  <2>9. ASSUME NEW x \in Range(ready), x # demo.first
        PROVE  \E j \in DOMAIN ready' : ready'[j] = x
    <3>1. PICK l \in 1..Len(ready) : ready[l] = x
      BY <1>1 DEF Range
    <3>2. CASE l < k
      <4>1. l \in 1..(Len(ready) - 1) /\ ready'[l] = ready[l]
        BY <1>1, <2>4, <3>2
      <4> QED
        BY <2>5, <3>1, <4>1
    <3>3. CASE l > k
      <4>1. l - 1 \in 1..(Len(ready) - 1) /\ ~(l - 1 < k) /\ (l - 1) + 1 = l
        BY <1>1, <3>3
      <4>2. ready'[l - 1] = ready[l]
        BY <2>4, <4>1
      <4> QED
        BY <2>5, <3>1, <4>1, <4>2
    <3> QED
      BY <2>4, <2>9, <3>1, <3>2, <3>3
  <2>10. Range(ready') = Range(ready) \ {demo.first}
    BY <2>8, <2>9 DEF Range
  <2> QED
    BY <2>1, <2>2, <2>3, <2>7, <2>10 DEF RunQueueSound
<1>5. CASE ~CreateThread /\ ~MakeReady /\ ~EnterFirstThread
  <2>1. UNCHANGED <<ready, running, tcbs>>
    BY <1>5
    DEF Next, vars, objects, sched, NextPhase, RetypeRootObject, MintRootObject,
        CreateVSpace, RetypeFrame, ClearFrame, MapPrivateFrame, FillImage, CreateCNode,
        GrantObject, GrantSelfCNode, OpenArena, GrantArenaFrame, MapSharedFrame,
        MapPackage, MapDeviceFrame, Panic
  <2> QED
    BY <2>1 DEF RunQueueSound
<1> QED
  BY <1>2, <1>3, <1>4, <1>5

(* Whatever the scheduler can pick exists exactly once, in every launch.   *)
THEOREM QueueIsSound == Spec => []RunQueueSound
<1>1. Init => RunQueueSound
  BY DEF Init, RunQueueSound, Range
<1> QED
  BY <1>1, QueueStep, Invariance, PTL DEF Spec

-----------------------------------------------------------------------------
(* The frames of a launch: what a program can see was cleared, who can     *)
(* still name a frame, and who shares one.  All three rest on one more     *)
(* invariant, about root's slots and about every frame.                    *)

(* load has made the program's VSpace, its CSpace.                         *)
HasVSpace == pc \in LoadPhases /\ (pc = "vspace" => i > 1)
HasCNode == pc \in {"grants", "self", "scratch", "arena", "tcb"} \/ (pc = "cnode" /\ i > 1)

(* A frame already handed over; every one but the newest, while that one   *)
(* is between its retype and its handing over.                             *)
Settled(f) == stage = "retype" \/ f # Len(frames)

(* What the slot numbers in the launcher's variables name.                 *)
Naming ==
  /\ \A k \in DOMAIN handles : root[handles[k]].kind \in {"Endpoint", "Notification"}
  /\ HasVSpace => root[loc.vspace] = Cap("VSpace", vspaces) /\ vspaces > 0
  /\ HasCNode => root[loc.cnode] = Cap("CNode", Len(spaces)) /\ Len(spaces) > 0
  /\ \A k \in DOMAIN tcbs : /\ root[tcbs[k].vspaceCptr] = Cap("VSpace", tcbs[k].vspace)
                            /\ tcbs[k].vspace \in 1..vspaces

(* The slots not taken yet are empty, but for a frame being handed over.   *)
Fresh ==
  /\ \A s \in Slots : s >= nextSlot /\ ~(stage # "retype" /\ s = loc.frame) => root[s] = Empty
  /\ stage # "retype" /\ NeedsFrame /\ TakesSlot => loc.frame < nextSlot

(* A frame capability is a whole one, of a frame that exists; of one being *)
(* handed over there is the one in root and no other.                      *)
FrameCaps ==
  /\ \A s \in Slots : root[s].kind = "Frame" =>
       root[s] = Cap("Frame", root[s].obj) /\ root[s].obj \in DOMAIN frames
  /\ \A s \in Slots : stage # "retype" /\ root[s] = Cap("Frame", Len(frames)) => s = loc.frame
  /\ \A p \in DOMAIN spaces : \A s \in Slots : spaces[p][s].kind = "Frame" =>
       spaces[p][s].obj \in DOMAIN frames /\ Settled(spaces[p][s].obj)

Slotting == Naming /\ Fresh /\ FrameCaps

(* What has been written to a frame, and that a VSpace about to be filled  *)
(* with an image maps nothing but zeroes.                                  *)
Unfilled == HasVSpace /\ (pc \in {"vspace", "image"} \/ (pc = "fill" /\ i = 1))
ContentOf(f) ==
  /\ frames[f].content \in
       IF ~IsRam(f) THEN {<<>>}
       ELSE IF ~Settled(f) THEN {IF stage = "clear" THEN <<>> ELSE <<"zero">>}
       ELSE {<<"zero">>, <<"zero", "image">>, <<"zero", "package">>}
  /\ ~Settled(f) => frames[f].maps = {}
  /\ \A m \in frames[f].maps :
       /\ m.vspace \in 1..vspaces
       /\ Unfilled /\ m.vspace = vspaces => frames[f].content = <<"zero">>
Contents == \A f \in DOMAIN frames : ContentOf(f)

(* Who can name a settled frame.                                           *)
Holds(p, s, f) == spaces[p][s].kind = "Frame" /\ spaces[p][s].obj = f
Unheld(f) == \A p \in DOMAIN spaces : \A s \in Slots : ~Holds(p, s, f)
HeldOnce(f) ==
  \E p \in DOMAIN spaces : \E s \in Slots :
    \A q \in DOMAIN spaces : \A t \in Slots : Holds(q, t, f) <=> q = p /\ t = s
Sealed(f) == ~IsRam(f) \/ frames[f].content = <<"zero", "package">>
CustodyOf(f) ==
  /\ frames[f].maps = {} => ~RootHolds(f) /\ HeldOnce(f)
  /\ frames[f].maps # {} => Unheld(f) /\ (Sealed(f) <=> ~RootHolds(f))
  /\ IsRam(f) /\ Sealed(f) => \A m \in frames[f].maps : "W" \notin m.perms
Custody == \A f \in DOMAIN frames : Settled(f) => CustodyOf(f)

(* A frame in several VSpaces is a wire's, and each place a declared one.  *)
DeclaredAt(w, m) ==
  \E k \in DOMAIN demo.wires[w].to :
    /\ demo.wires[w].to[k].prog \in DOMAIN tcbs
    /\ tcbs[demo.wires[w].to[k].prog].vspace = m.vspace
    /\ demo.wires[w].to[k].vaddr = m.vaddr
DeclaredOf(f) ==
  \/ \A m, n \in frames[f].maps : m.vspace = n.vspace
  \/ \E w \in DOMAIN demo.wires : \A m \in frames[f].maps : DeclaredAt(w, m)
Declared == \A f \in DOMAIN frames : DeclaredOf(f)

FInv == Slotting /\ Contents /\ Custody /\ Declared

-----------------------------------------------------------------------------
(* The steps, sorted by what they do to capabilities.                      *)

(* A step of the launcher between two frames, and one that only says which *)
(* phase it is in.                                                         *)
BetweenFrames ==
  \/ NextPhase \/ RetypeRootObject \/ MintRootObject \/ CreateVSpace \/ FillImage
  \/ CreateCNode \/ GrantObject \/ GrantSelfCNode \/ OpenArena \/ CreateThread
  \/ MapDeviceFrame \/ MakeReady \/ EnterFirstThread

(* No frame is being handed over when such a step is taken, nor after it.  *)
LEMMA BetweenFramesStage ==
  ASSUME TypeOK, Handing, BetweenFrames
  PROVE  stage = "retype" /\ stage' = "retype"
<1>1. ~NeedsFrame /\ pc # "panicked"
  <2>1. CASE NextPhase
    <3>1. Rounds \in Nat /\ i \in Nat
      BY RoundsType DEF TypeOK
    <3> QED
      BY <2>1, <3>1 DEF NextPhase, Then, NeedsFrame, At
  <2>2. CASE ~NextPhase
    BY <2>2
    DEF BetweenFrames, RetypeRootObject, MintRootObject, CreateVSpace, FillImage,
        CreateCNode, GrantObject, GrantSelfCNode, OpenArena, CreateThread, MapDeviceFrame,
        MakeReady, EnterFirstThread, NeedsFrame, At
  <2> QED
    BY <2>1, <2>2
<1>2. stage' = stage
  BY DEF BetweenFrames, NextPhase, RetypeRootObject, MintRootObject, CreateVSpace,
         FillImage, CreateCNode, GrantObject, GrantSelfCNode, OpenArena, CreateThread,
         MapDeviceFrame, MakeReady, EnterFirstThread
<1> QED
  BY <1>1, <1>2 DEF Handing

(* The kinds of the capabilities the launcher makes tell them apart.       *)
LEMMA CapFacts ==
  ASSUME NEW kind, NEW obj
  PROVE  /\ Cap(kind, obj).kind = kind /\ Cap(kind, obj).obj = obj
         /\ Empty.kind = "Empty"
BY DEF Cap, Empty

(* What root held stays, and a slot that was empty gets no frame.          *)
RootGrows ==
  \A s \in Slots : \/ root'[s] = root[s]
                   \/ root[s] = Empty /\ root'[s].kind # "Frame"

(* What the last slots of root are when a device frame is mapped: empty.   *)
LEMMA DeviceLeavesRoot ==
  ASSUME TypeOK, Handing, Slotting, MapDeviceFrame
  PROVE  root' = root
<1>1. stage = "retype"
  BY BetweenFramesStage DEF BetweenFrames
<1>2. /\ nextSlot \in Slots /\ nextSlot + 1 \in Slots /\ root[nextSlot + 1] = Empty
      /\ root' = [root EXCEPT ![nextSlot] = Empty, ![nextSlot + 1] = Empty]
  BY DEF MapDeviceFrame, CanMapDevice, SlotFree
<1>3. root[nextSlot] = Empty
  <2>1. nextSlot >= nextSlot
    BY <1>2 DEF Slots
  <2> QED
    BY <1>1, <1>2, <2>1 DEF Slotting, Fresh
<1>4. root \in [Slots -> Caps]
  BY DEF TypeOK
<1> QED
  BY <1>2, <1>3, <1>4

(* Root's CSpace grows by objects that are no frames in every step between *)
(* two frames.                                                             *)
LEMMA RootGrowsStep ==
  ASSUME TypeOK, Counting, Handing, Slotting, BetweenFrames
  PROVE  RootGrows
<1>1. root \in [Slots -> Caps]
  BY DEF TypeOK
<1>2. CASE RetypeRootObject
  <2>1. /\ nextSlot \in Slots /\ root[nextSlot] = Empty
        /\ root' = [root EXCEPT ![nextSlot] = Cap(RootOp.op, i)]
    BY <1>2 DEF RetypeRootObject, CanRetype, SlotFree
  <2>2. RootOp.op # "Frame"
    <3>1. i \in DOMAIN demo.root
      BY <1>2, DemoFacts DEF RetypeRootObject, At, Rounds, TypeOK
    <3>2. RootOp \in RootObjects
      BY <3>1, DemoFacts DEF RootOp
    <3> QED
      BY <3>2 DEF RootObjects
  <2> QED
    BY <1>1, <2>1, <2>2, CapFacts DEF RootGrows
<1>3. CASE MintRootObject
  <2>1. /\ nextSlot \in Slots /\ root[nextSlot] = Empty
        /\ root' = [root EXCEPT ![nextSlot] = Minted]
    BY <1>3 DEF MintRootObject, SlotFree
  <2>2. RootOp.src \in DOMAIN handles /\ handles[RootOp.src] \in Slots
    <3>1. i \in DOMAIN demo.root /\ RootOp.op = "Mint" /\ i <= Len(demo.root) /\ pc = "root"
      BY <1>3, DemoFacts DEF MintRootObject, At, Rounds, TypeOK
    <3>2. RootOp.src \in 1..(i - 1) /\ Len(handles) = i - 1
      BY <3>1, DemoFacts DEF IsDescription, RootOp, Counting
    <3> QED
      BY <3>2 DEF TypeOK
  <2>3. root[handles[RootOp.src]].kind # "Frame" /\ root[handles[RootOp.src]] \in Caps
    BY <1>1, <2>2 DEF Slotting, Naming
  <2>4. Minted.kind # "Frame"
    BY <2>3 DEF Minted, Caps
  <2> QED
    BY <1>1, <2>1, <2>4 DEF RootGrows
<1>4. CASE CreateVSpace
  <2>1. /\ nextSlot \in Slots /\ root[nextSlot] = Empty
        /\ root' = [root EXCEPT ![nextSlot] = Cap("VSpace", vspaces + 1)]
    BY <1>4 DEF CreateVSpace, CanRetype, SlotFree
  <2> QED
    BY <1>1, <2>1, CapFacts DEF RootGrows
<1>5. CASE CreateCNode
  <2>1. /\ nextSlot \in Slots /\ root[nextSlot] = Empty
        /\ root' = [root EXCEPT ![nextSlot] = Cap("CNode", Len(spaces) + 1)]
    BY <1>5 DEF CreateCNode, CanRetype, SlotFree
  <2> QED
    BY <1>1, <2>1, CapFacts DEF RootGrows
<1>6. CASE CreateThread
  <2>1. /\ nextSlot \in Slots /\ root[nextSlot] = Empty
        /\ nextSlot + 1 \in Slots /\ root[nextSlot + 1] = Empty
        /\ root' = [root EXCEPT ![nextSlot] = Cap("SchedContext", Len(tcbs) + 1),
                                ![nextSlot + 1] = Cap("Tcb", Len(tcbs) + 1)]
    BY <1>6 DEF CreateThread, SlotFree
  <2> QED
    BY <1>1, <2>1, CapFacts DEF RootGrows
<1>7. CASE MapDeviceFrame
  BY <1>7, DeviceLeavesRoot DEF RootGrows
<1>8. CASE \/ NextPhase \/ FillImage \/ GrantObject \/ GrantSelfCNode \/ OpenArena
           \/ MakeReady \/ EnterFirstThread
  BY <1>8 DEF NextPhase, FillImage, GrantObject, GrantSelfCNode, OpenArena, MakeReady,
              EnterFirstThread, RootGrows
<1> QED
  BY <1>2, <1>3, <1>4, <1>5, <1>6, <1>7, <1>8 DEF BetweenFrames

(* copy_cross writes one slot of the new program's CSpace, an empty one.   *)
LEMMA CopyAt ==
  ASSUME TypeOK, Naming, HasCNode, NEW src \in Slots, NEW dest, CopyCross(src, dest)
  PROVE  /\ dest \in Slots /\ ThisSpace = Len(spaces)
         /\ Len(spaces) \in DOMAIN spaces /\ spaces[Len(spaces)][dest] = Empty
         /\ Len(spaces') = Len(spaces) /\ DOMAIN spaces' = DOMAIN spaces
         /\ \A q \in DOMAIN spaces : \A t \in Slots :
              spaces'[q][t] = IF q = Len(spaces) /\ t = dest THEN root[src] ELSE spaces[q][t]
<1>1. ThisSpace = Len(spaces) /\ Len(spaces) > 0 /\ spaces \in Seq([Slots -> Caps])
  BY CapFacts DEF Naming, ThisSpace, TypeOK
<1>2. /\ dest \in Slots /\ spaces[ThisSpace][dest] = Empty
      /\ spaces' = [spaces EXCEPT ![ThisSpace][dest] = root[src]]
  BY DEF CopyCross, CanCopy
<1>3. DOMAIN spaces = 1..Len(spaces) /\ Len(spaces) \in DOMAIN spaces
  BY <1>1, LenProperties
<1>4. \A q \in DOMAIN spaces : spaces[q] \in [Slots -> Caps]
  BY <1>1, <1>3, ElementOfSeq
<1>5. spaces' \in Seq([Slots -> Caps]) /\ Len(spaces') = Len(spaces)
  BY CopyCrossType
<1>6. DOMAIN spaces' = DOMAIN spaces
  BY <1>3, <1>5, LenProperties
<1> QED
  BY <1>1, <1>2, <1>3, <1>4, <1>5, <1>6

(* The frame capabilities in the programs' CSpaces stay as they are.       *)
SameHeld ==
  /\ Len(spaces) <= Len(spaces') /\ DOMAIN spaces \subseteq DOMAIN spaces'
  /\ \A p \in DOMAIN spaces' : \A s \in Slots : spaces'[p][s].kind = "Frame" =>
       p \in DOMAIN spaces /\ spaces[p][s] = spaces'[p][s]
  /\ \A p \in DOMAIN spaces : \A s \in Slots : spaces[p][s].kind = "Frame" =>
       spaces'[p][s] = spaces[p][s]

(* The root objects a program was granted are no frames: root has named    *)
(* them by then, one handle each.                                          *)
LEMMA GrantedHandle ==
  ASSUME TypeOK, Counting, At("grants")
  PROVE  This.grants[i].from \in DOMAIN handles /\ handles[This.grants[i].from] \in Slots
<1>1. /\ i <= Len(This.grants) /\ pc = "grants"
      /\ This.grants \in Seq([from : Nat, to : Nat]) /\ i \in Nat \ {0}
  BY DemoFacts DEF At, Rounds, ProgramSpecs, TypeOK
<1>2. i \in DOMAIN This.grants
  BY <1>1
<1>3. This.grants[i].from \in DOMAIN demo.root
  BY <1>2, DemoFacts DEF IsDescription, This
<1>4. handles \in Seq(Slots) /\ This.grants[i].from \in 1..Len(handles)
  BY <1>1, <1>3, DemoFacts DEF Counting, LoadPhases, TypeOK
<1> QED
  BY <1>4, ElementOfSeq

(* A copy of a capability that is no frame changes nothing about frames.   *)
LEMMA CopyKeepsHeld ==
  ASSUME TypeOK, Naming, HasCNode, NEW src \in Slots, NEW dest, CopyCross(src, dest),
         root[src].kind # "Frame"
  PROVE  SameHeld
<1>1. Len(spaces) \in Nat
  BY LenProperties DEF TypeOK
<1> QED
  BY <1>1, CopyAt, CapFacts DEF SameHeld

(* Only an arena frame is handed over as a capability.                     *)
LEMMA SameHeldStep ==
  ASSUME TypeOK, Counting, Handing, Slotting, [Next]_vars, ~GrantArenaFrame
  PROVE  SameHeld
<1>1. Naming /\ spaces \in Seq([Slots -> Caps]) /\ Len(spaces) \in Nat
      /\ DOMAIN spaces = 1..Len(spaces)
  BY LenProperties DEF Slotting, TypeOK
<1>2. CASE GrantObject
  <2>1. At("grants") /\ HasCNode
        /\ CopyCross(handles[This.grants[i].from], This.grants[i].to)
    BY <1>2 DEF GrantObject, HasCNode, At
  <2>2. root[handles[This.grants[i].from]].kind # "Frame"
    BY <1>1, <2>1, GrantedHandle DEF Naming
  <2> QED
    BY <1>1, <2>1, <2>2, GrantedHandle, CopyKeepsHeld
<1>3. CASE GrantSelfCNode
  <2>1. HasCNode /\ loc.cnode \in Slots
    BY <1>3 DEF GrantSelfCNode, HasCNode, At, TypeOK
  <2>2. PICK dest \in This.selfCNode : CopyCross(loc.cnode, dest)
    BY <1>3 DEF GrantSelfCNode
  <2>3. root[loc.cnode].kind # "Frame"
    BY <1>1, <2>1, CapFacts DEF Naming
  <2> QED
    BY <1>1, <2>1, <2>2, <2>3, CopyKeepsHeld
<1>4. CASE OpenArena
  <2>1. HasCNode /\ HasVSpace /\ loc.vspace \in Slots /\ CopyCross(loc.vspace, Arena.selfVSpace)
    BY <1>4 DEF OpenArena, HasCNode, HasVSpace, At, LoadPhases, TypeOK
  <2>2. root[loc.vspace].kind # "Frame"
    BY <1>1, <2>1, CapFacts DEF Naming
  <2> QED
    BY <1>1, <2>1, <2>2, CopyKeepsHeld
<1>5. CASE CreateCNode
  <2>1. spaces' = Append(spaces, [s \in Slots |-> Empty])
    BY <1>5 DEF CreateCNode
  <2>2. spaces' \in Seq([Slots -> Caps])
    BY <1>5, CreateShape DEF TypeOK
  <2>3. /\ DOMAIN spaces' = 1..(Len(spaces) + 1) /\ Len(spaces') = Len(spaces) + 1
        /\ \A p \in DOMAIN spaces : spaces'[p] = spaces[p]
        /\ spaces'[Len(spaces) + 1] = [s \in Slots |-> Empty]
    BY <1>1, <2>1, <2>2, LenProperties
  <2>4. ASSUME NEW p \in DOMAIN spaces', NEW s \in Slots, spaces'[p][s].kind = "Frame"
        PROVE  p \in DOMAIN spaces /\ spaces[p][s] = spaces'[p][s]
    <3>1. p # Len(spaces) + 1
      BY <2>3, <2>4 DEF Empty
    <3> QED
      BY <1>1, <2>3, <3>1
  <2> QED
    BY <1>1, <2>3, <2>4 DEF SameHeld
<1>6. CASE ~GrantObject /\ ~GrantSelfCNode /\ ~OpenArena /\ ~CreateCNode
  <2>1. spaces' = spaces
    BY <1>6
    DEF Next, vars, objects, NextPhase, RetypeRootObject, MintRootObject,
        CreateVSpace, RetypeFrame, ClearFrame, MapPrivateFrame, FillImage,
        CreateThread, MapSharedFrame, MapPackage, MapDeviceFrame, MakeReady,
        EnterFirstThread, Panic
  <2> QED
    BY <1>1, <2>1 DEF SameHeld
<1> QED
  BY <1>2, <1>3, <1>4, <1>5, <1>6

-----------------------------------------------------------------------------
(* Slotting.                                                               *)

(* What root holds but for frames stays, whatever the step.                *)
OthersStay ==
  \A s \in Slots : root[s].kind \notin {"Empty", "Frame"} => root'[s] = root[s]

(* Retyping a frame puts its capability into an empty slot.                *)
LEMMA RetypedSlot ==
  ASSUME TypeOK, RetypeFrame
  PROVE  /\ FrameSlot \in Slots /\ root[FrameSlot] = Empty
         /\ loc' = [loc EXCEPT !.frame = FrameSlot] /\ loc'.frame = FrameSlot
         /\ \A s \in Slots :
              root'[s] = IF s = FrameSlot THEN Cap("Frame", Len(frames) + 1) ELSE root[s]
<1>1. /\ root' = [root EXCEPT ![FrameSlot] = Cap("Frame", Len(frames) + 1)]
      /\ loc' = [loc EXCEPT !.frame = FrameSlot]
      /\ FrameSlot \in Slots /\ root[FrameSlot] = Empty
  BY DEF RetypeFrame, CanRetypeFrame, CanRetype, SlotFree
<1>2. root \in [Slots -> Caps]
      /\ loc \in [vspace : Slots, cnode : Slots, scratch : Nat, frame : Slots]
  BY DEF TypeOK
<1> QED
  BY <1>1, <1>2

(* Dropping a frame empties its slot, which held its capability.           *)
LEMMA DroppedSlot ==
  ASSUME TypeOK, Handing, GrantArenaFrame \/ MapPackage
  PROVE  /\ stage = "give" /\ stage' = "retype"
         /\ loc.frame \in Slots /\ root[loc.frame] = Cap("Frame", Len(frames))
         /\ \A s \in Slots : root'[s] = IF s = loc.frame THEN Empty ELSE root[s]
<1>1. root' = [root EXCEPT ![loc.frame] = Empty] /\ stage = "give" /\ stage' = "retype"
  BY DEF GrantArenaFrame, MapPackage, FrameDropped
<1>2. root \in [Slots -> Caps]
      /\ loc \in [vspace : Slots, cnode : Slots, scratch : Nat, frame : Slots]
  BY DEF TypeOK
<1> QED
  BY <1>1, <1>2 DEF Handing

LEMMA OthersStayStep ==
  ASSUME TypeOK, Counting, Handing, Slotting, [Next]_vars
  PROVE  OthersStay
<1>1. CASE BetweenFrames
  <2>1. RootGrows
    BY <1>1, RootGrowsStep
  <2> QED
    BY <2>1 DEF RootGrows, OthersStay, Empty
<1>2. CASE RetypeFrame
  BY <1>2, RetypedSlot DEF OthersStay, Empty
<1>3. CASE GrantArenaFrame \/ MapPackage
  BY <1>3, DroppedSlot DEF OthersStay, Cap
<1>4. CASE \/ ClearFrame \/ MapPrivateFrame \/ MapSharedFrame \/ Panic \/ UNCHANGED vars
  BY <1>4 DEF ClearFrame, MapPrivateFrame, MapSharedFrame, Panic, vars, OthersStay
<1> QED
  BY <1>1, <1>2, <1>3, <1>4 DEF Next, BetweenFrames

(* Only load's own steps make a VSpace or a CSpace; none is forgotten      *)
(* before the program is done.                                             *)
LEMMA NoneNew ==
  ASSUME TypeOK, Counting, [Next]_vars, ~CreateVSpace, ~CreateCNode
  PROVE  /\ HasVSpace' => HasVSpace
         /\ HasCNode' => HasCNode
<1>1. CASE NextPhase
  <2>1. i > Rounds /\ i' = 1 /\ pc' \in {"vspace", Then[pc]} /\ pc \in DOMAIN Then
    BY <1>1 DEF NextPhase
  <2> QED
    BY <2>1 DEF HasVSpace, HasCNode, Rounds, Then, LoadPhases
<1>2. CASE EnterFirstThread \/ Panic
  BY <1>2 DEF EnterFirstThread, Panic, HasVSpace, HasCNode, LoadPhases
<1>3. CASE RetypeFrame \/ ClearFrame \/ UNCHANGED vars
  BY <1>3 DEF RetypeFrame, ClearFrame, vars, HasVSpace, HasCNode
<1>4. CASE \/ RetypeRootObject \/ MintRootObject \/ MapPrivateFrame \/ FillImage
           \/ GrantObject \/ GrantSelfCNode \/ OpenArena \/ GrantArenaFrame
           \/ CreateThread \/ MapSharedFrame \/ MapPackage \/ MapDeviceFrame \/ MakeReady
  <2>1. pc' = pc /\ pc \notin {"vspace", "cnode"}
    BY <1>4
    DEF RetypeRootObject, MintRootObject, MapPrivateFrame, FillImage, GrantObject,
        GrantSelfCNode, OpenArena, GrantArenaFrame, CreateThread, MapSharedFrame,
        MapPackage, MapDeviceFrame, MakeReady, NextRound, At
  <2> QED
    BY <2>1 DEF HasVSpace, HasCNode
<1> QED
  BY <1>1, <1>2, <1>3, <1>4 DEF Next

(* Copying into a program's CSpace makes no new one.                       *)
LEMMA CopyShapeLen ==
  ASSUME TypeOK, Counting,
         GrantObject \/ GrantSelfCNode \/ OpenArena \/ GrantArenaFrame
  PROVE  Len(spaces') = Len(spaces)
<1>1. loc \in [vspace : Slots, cnode : Slots, scratch : Nat, frame : Slots]
  BY DEF TypeOK
<1>2. \E src \in Slots : \E dest : CopyCross(src, dest)
  <2>1. CASE GrantObject
    BY <2>1, GrantedHandle DEF GrantObject
  <2>2. CASE GrantSelfCNode \/ OpenArena \/ GrantArenaFrame
    BY <1>1, <2>2 DEF GrantSelfCNode, OpenArena, GrantArenaFrame
  <2> QED
    BY <2>1, <2>2
<1> QED
  BY <1>2, CopyCrossType

(* So a slot of root that named an object names it still.                  *)
LEMMA NamedStays ==
  ASSUME OthersStay, NEW s \in Slots, NEW kind, NEW obj,
         kind \notin {"Empty", "Frame"}, root[s] = Cap(kind, obj)
  PROVE  root'[s] = Cap(kind, obj)
<1>1. root[s].kind = kind
  BY CapFacts
<1> QED
  BY <1>1 DEF OthersStay

(* Every step keeps Naming.                                                *)
LEMMA NamingStep ==
  ASSUME TypeOK, Counting, Handing, Slotting, [Next]_vars
  PROVE  Naming'
<1>1. /\ Naming /\ OthersStay
      /\ root \in [Slots -> Caps] /\ vspaces \in Nat /\ handles \in Seq(Slots)
      /\ tcbs \in Seq([cspace : Nat, vspace : Nat, vspaceCptr : Slots, arg0 : Nat])
      /\ loc \in [vspace : Slots, cnode : Slots, scratch : Nat, frame : Slots]
      /\ spaces \in Seq([Slots -> Caps])
  BY OthersStayStep DEF Slotting, TypeOK
<1>2. \A k \in DOMAIN handles : handles[k] \in Slots
  BY <1>1, LenProperties, ElementOfSeq
<1>3. \A k \in DOMAIN tcbs : tcbs[k].vspaceCptr \in Slots
  <2>1. \A k \in DOMAIN tcbs :
          tcbs[k] \in [cspace : Nat, vspace : Nat, vspaceCptr : Slots, arg0 : Nat]
    BY <1>1, LenProperties, ElementOfSeq
  <2> QED
    BY <2>1
<1>4. \A k \in DOMAIN handles : root'[handles[k]].kind \in {"Endpoint", "Notification"}
  BY <1>1, <1>2 DEF Naming, OthersStay
<1>5. \A k \in DOMAIN tcbs : /\ root'[tcbs[k].vspaceCptr] = Cap("VSpace", tcbs[k].vspace)
                             /\ tcbs[k].vspace \in 1..vspaces
  <2> SUFFICES ASSUME NEW k \in DOMAIN tcbs
               PROVE  /\ root'[tcbs[k].vspaceCptr] = Cap("VSpace", tcbs[k].vspace)
                      /\ tcbs[k].vspace \in 1..vspaces
    OBVIOUS
  <2>1. /\ root[tcbs[k].vspaceCptr] = Cap("VSpace", tcbs[k].vspace)
        /\ tcbs[k].vspace \in 1..vspaces
    BY <1>1 DEF Naming
  <2> QED
    BY <1>1, <1>3, <2>1, NamedStays
<1>6. HasVSpace => root'[loc.vspace] = Cap("VSpace", vspaces) /\ vspaces > 0
  <2>1. HasVSpace => root[loc.vspace] = Cap("VSpace", vspaces) /\ vspaces > 0
    BY <1>1 DEF Naming
  <2>2. loc.vspace \in Slots
    BY <1>1
  <2> QED
    BY <1>1, <2>1, <2>2, NamedStays
<1>7. HasCNode => root'[loc.cnode] = Cap("CNode", Len(spaces)) /\ Len(spaces) > 0
  <2>1. HasCNode => root[loc.cnode] = Cap("CNode", Len(spaces)) /\ Len(spaces) > 0
    BY <1>1 DEF Naming
  <2>2. loc.cnode \in Slots
    BY <1>1
  <2> QED
    BY <1>1, <2>1, <2>2, NamedStays
<1>8. CASE RetypeRootObject \/ MintRootObject
  <2>1. /\ pc = "root" /\ pc' = pc /\ nextSlot \in Slots
        /\ handles' = Append(handles, nextSlot)
        /\ UNCHANGED <<tcbs, vspaces>>
    BY <1>8 DEF RetypeRootObject, MintRootObject, At, CanRetype, SlotFree, NextRound, objects
  <2>2. root'[nextSlot].kind \in {"Endpoint", "Notification"}
    <3>1. i \in DOMAIN demo.root /\ RootOp \in RootObjects
      <4>1. i \in DOMAIN demo.root
        <5>1. i <= Rounds /\ pc = "root" /\ i \in Nat \ {0}
          BY <1>8 DEF RetypeRootObject, MintRootObject, At, TypeOK
        <5> QED
          BY <5>1, DemoFacts DEF Rounds
      <4> QED
        BY <4>1, DemoFacts DEF RootOp
    <3>2. CASE RetypeRootObject
      <4>1. root' = [root EXCEPT ![nextSlot] = Cap(RootOp.op, i)] /\ RootOp.op # "Mint"
        BY <3>2 DEF RetypeRootObject
      <4>2. root'[nextSlot] = Cap(RootOp.op, i)
        BY <1>1, <2>1, <4>1
      <4> QED
        BY <3>1, <4>1, <4>2, CapFacts DEF RootObjects
    <3>3. CASE MintRootObject
      <4>1. root' = [root EXCEPT ![nextSlot] = Minted] /\ RootOp.op = "Mint"
            /\ i <= Len(demo.root)
        BY <3>3 DEF MintRootObject, At, Rounds
      <4>2. RootOp.src \in 1..(i - 1) /\ Len(handles) = i - 1
        BY <2>1, <3>1, <4>1, DemoFacts DEF IsDescription, RootOp, Counting
      <4>3. RootOp.src \in DOMAIN handles /\ handles[RootOp.src] \in Slots
        BY <1>1, <1>2, <4>2
      <4>4. /\ root[handles[RootOp.src]].kind \in {"Endpoint", "Notification"}
            /\ root[handles[RootOp.src]] \in Caps
        BY <1>1, <4>3 DEF Naming
      <4>5. Minted.kind = root[handles[RootOp.src]].kind
        BY <4>4 DEF Minted, Caps
      <4> QED
        BY <1>1, <2>1, <4>1, <4>4, <4>5
    <3> QED
      BY <1>8, <3>2, <3>3
  <2>3. \A k \in DOMAIN handles' : root'[handles'[k]].kind \in {"Endpoint", "Notification"}
    BY <1>1, <1>4, <2>1, <2>2
  <2>4. ~HasVSpace' /\ ~HasCNode'
    BY <2>1 DEF HasVSpace, HasCNode, LoadPhases
  <2> QED
    BY <1>5, <2>1, <2>3, <2>4, CapFacts DEF Naming
<1>9. CASE CreateVSpace
  <2>1. /\ pc' = "vspace" /\ nextSlot \in Slots /\ vspaces' = vspaces + 1
        /\ loc' = [loc EXCEPT !.vspace = nextSlot]
        /\ root' = [root EXCEPT ![nextSlot] = Cap("VSpace", vspaces + 1)]
        /\ UNCHANGED <<handles, tcbs>>
    BY <1>9 DEF CreateVSpace, At, CanRetype, SlotFree, NextRound
  <2>2. root'[loc'.vspace] = Cap("VSpace", vspaces') /\ vspaces' > 0
    BY <1>1, <2>1
  <2>3. ~HasCNode'
    BY <2>1 DEF HasCNode
  <2>4. \A k \in DOMAIN tcbs : tcbs[k].vspace \in 1..vspaces'
    BY <1>1, <1>5, <2>1
  <2> QED
    BY <1>4, <1>5, <2>1, <2>2, <2>3, <2>4 DEF Naming, Cap
<1>10. CASE CreateCNode
  <2>1. /\ pc = "cnode" /\ nextSlot \in Slots
        /\ loc' = [loc EXCEPT !.cnode = nextSlot]
        /\ root' = [root EXCEPT ![nextSlot] = Cap("CNode", Len(spaces) + 1)]
        /\ UNCHANGED <<handles, tcbs, vspaces>>
        /\ spaces' = Append(spaces, [s \in Slots |-> Empty])
    BY <1>10 DEF CreateCNode, At, CanRetype, SlotFree
  <2>2. Len(spaces') = Len(spaces) + 1 /\ Len(spaces) \in Nat
    BY <1>1, <2>1, LenProperties, AppendProperties
  <2>3. root'[loc'.cnode] = Cap("CNode", Len(spaces')) /\ Len(spaces') > 0
    BY <1>1, <2>1, <2>2
  <2>4. root'[loc'.vspace] = Cap("VSpace", vspaces') /\ vspaces' > 0
    <3>1. HasVSpace /\ loc'.vspace = loc.vspace
      BY <1>1, <2>1 DEF HasVSpace, LoadPhases
    <3> QED
      BY <1>6, <2>1, <3>1
  <2> QED
    BY <1>4, <1>5, <2>1, <2>3, <2>4 DEF Naming, Cap
<1>11. CASE CreateThread
  <2>1. /\ pc = "tcb" /\ pc' = pc /\ UNCHANGED <<handles, loc, vspaces, spaces>>
        /\ tcbs' = Append(tcbs, [cspace |-> ThisSpace, vspace |-> ThisVSpace,
                                 vspaceCptr |-> loc.vspace, arg0 |-> This.arg0])
    BY <1>11 DEF CreateThread, At, NextRound
  <2>2. HasVSpace /\ HasCNode /\ ThisVSpace = vspaces
    <3>1. HasVSpace /\ HasCNode
      BY <2>1 DEF HasVSpace, HasCNode, LoadPhases
    <3> QED
      BY <1>1, <3>1, CapFacts DEF Naming, ThisVSpace
  <2>3. /\ DOMAIN tcbs' = 1..(Len(tcbs) + 1) /\ DOMAIN tcbs = 1..Len(tcbs)
        /\ Len(tcbs) \in Nat
        /\ \A k \in DOMAIN tcbs : tcbs'[k] = tcbs[k]
        /\ tcbs'[Len(tcbs) + 1] = [cspace |-> ThisSpace, vspace |-> ThisVSpace,
                                   vspaceCptr |-> loc.vspace, arg0 |-> This.arg0]
    BY <1>1, <2>1
  <2>4. ASSUME NEW k \in DOMAIN tcbs'
        PROVE  /\ root'[tcbs'[k].vspaceCptr] = Cap("VSpace", tcbs'[k].vspace)
               /\ tcbs'[k].vspace \in 1..vspaces
    <3>1. CASE k = Len(tcbs) + 1
      BY <1>1, <1>6, <2>2, <2>3, <3>1
    <3>2. CASE k \in DOMAIN tcbs
      BY <1>5, <2>3, <3>2
    <3> QED
      BY <2>3, <3>1, <3>2
  <2> QED
    BY <1>4, <1>6, <1>7, <2>1, <2>2, <2>4, CapFacts DEF Naming, Cap
<1>12. CASE ~ (\/ RetypeRootObject \/ MintRootObject \/ CreateVSpace \/ CreateCNode
               \/ CreateThread)
  <2>1. /\ UNCHANGED <<handles, vspaces, tcbs>>
        /\ loc'.vspace = loc.vspace /\ loc'.cnode = loc.cnode
    <3>1. CASE RetypeFrame \/ OpenArena
      BY <1>1, <3>1 DEF RetypeFrame, OpenArena
    <3>2. CASE ~RetypeFrame /\ ~OpenArena
      BY <1>12, <3>2
      DEF Next, vars, locals, objects, NextPhase, ClearFrame, MapPrivateFrame, FillImage,
          GrantObject, GrantSelfCNode, GrantArenaFrame, MapSharedFrame, MapPackage,
          MapDeviceFrame, MakeReady, EnterFirstThread, Panic
    <3> QED
      BY <3>1, <3>2
  <2>2. Len(spaces') = Len(spaces)
    <3>1. CASE GrantObject \/ GrantSelfCNode \/ OpenArena \/ GrantArenaFrame
      BY <3>1, CopyShapeLen
    <3>2. CASE ~(GrantObject \/ GrantSelfCNode \/ OpenArena \/ GrantArenaFrame)
      BY <1>12, <3>2
      DEF Next, vars, objects, NextPhase, RetypeFrame, ClearFrame, MapPrivateFrame,
          FillImage, MapSharedFrame, MapPackage, MapDeviceFrame, MakeReady,
          EnterFirstThread, Panic
    <3> QED
      BY <3>1, <3>2
  <2>3. (HasVSpace' => HasVSpace) /\ (HasCNode' => HasCNode)
    BY <1>12, NoneNew
  <2> QED
    BY <1>4, <1>5, <1>6, <1>7, <2>1, <2>2, <2>3 DEF Naming, Cap
<1> QED
  BY <1>8, <1>9, <1>10, <1>11, <1>12

(* Between two frames a step takes the slots it fills.                     *)
LEMMA BetweenFramesFresh ==
  ASSUME TypeOK, Handing, Slotting, BetweenFrames
  PROVE  /\ nextSlot' \in Nat /\ nextSlot <= nextSlot'
         /\ \A s \in Slots : s >= nextSlot' => root'[s] = root[s]
<1>1. nextSlot \in Nat /\ root \in [Slots -> Caps]
  BY DEF TypeOK
<1>2. CASE RetypeRootObject \/ MintRootObject \/ CreateVSpace \/ CreateCNode
  <2>1. /\ nextSlot' = nextSlot + 1
        /\ \E c : root' = [root EXCEPT ![nextSlot] = c]
    BY <1>2 DEF RetypeRootObject, MintRootObject, CreateVSpace, CreateCNode
  <2> QED
    BY <1>1, <2>1 DEF Slots
<1>3. CASE CreateThread
  <2>1. /\ nextSlot' = nextSlot + 2
        /\ \E c, d : root' = [root EXCEPT ![nextSlot] = c, ![nextSlot + 1] = d]
    BY <1>3 DEF CreateThread
  <2> QED
    BY <1>1, <2>1 DEF Slots
<1>4. CASE MapDeviceFrame
  <2>1. nextSlot' = nextSlot + 2 /\ root' = root
    BY <1>4, DeviceLeavesRoot DEF MapDeviceFrame
  <2> QED
    BY <1>1, <2>1
<1>5. CASE OpenArena
  <2>1. nextSlot' = nextSlot + 1 /\ root' = root
    BY <1>5 DEF OpenArena
  <2> QED
    BY <1>1, <2>1
<1>6. CASE \/ NextPhase \/ FillImage \/ GrantObject \/ GrantSelfCNode \/ MakeReady
           \/ EnterFirstThread
  <2>1. nextSlot' = nextSlot /\ root' = root
    BY <1>6 DEF NextPhase, FillImage, GrantObject, GrantSelfCNode, MakeReady,
                EnterFirstThread, locals
  <2> QED
    BY <1>1, <2>1
<1> QED
  BY <1>2, <1>3, <1>4, <1>5, <1>6 DEF BetweenFrames

(* Every step keeps Fresh.                                                 *)
LEMMA FreshStep ==
  ASSUME TypeOK, Counting, Handing, Slotting, [Next]_vars
  PROVE  Fresh'
<1>1. /\ Fresh /\ nextSlot \in Nat /\ root \in [Slots -> Caps]
      /\ loc \in [vspace : Slots, cnode : Slots, scratch : Nat, frame : Slots]
  BY DEF Slotting, TypeOK
<1>2. CASE BetweenFrames
  <2>1. stage = "retype" /\ stage' = "retype"
    BY <1>2, BetweenFramesStage
  <2>2. ASSUME NEW s \in Slots, s >= nextSlot'
        PROVE  root'[s] = Empty
    <3>1. nextSlot' \in Nat /\ nextSlot <= nextSlot' /\ root'[s] = root[s] /\ s \in Nat
      BY <1>2, <2>2, BetweenFramesFresh DEF Slots
    <3>2. s >= nextSlot
      BY <1>1, <2>2, <3>1
    <3> QED
      BY <1>1, <2>1, <3>1, <3>2 DEF Fresh
  <2> QED
    BY <2>1, <2>2 DEF Fresh
<1>3. CASE RetypeFrame
  <2>1. /\ stage = "retype" /\ stage' = "clear" /\ nextSlot' = IF TakesSlot THEN nextSlot + 1 ELSE nextSlot
        /\ UNCHANGED <<demo, pc, prog, i>>
    BY <1>3 DEF RetypeFrame, given
  <2>2. TakesSlot => FrameSlot = nextSlot /\ nextSlot' = nextSlot + 1
    BY <2>1 DEF TakesSlot, FrameSlot
  <2>3. TakesSlot' <=> TakesSlot
    BY <2>1 DEF TakesSlot, Wire
  <2>4. ASSUME NEW s \in Slots, s >= nextSlot', s # loc'.frame
        PROVE  root'[s] = Empty
    <3>1. s # FrameSlot /\ root'[s] = root[s]
      BY <1>3, <2>4, RetypedSlot
    <3>2. s >= nextSlot /\ s \in Nat
      BY <1>1, <2>1, <2>4 DEF Slots
    <3> QED
      BY <1>1, <2>1, <3>1, <3>2 DEF Fresh
  <2>5. TakesSlot' => loc'.frame < nextSlot'
    BY <1>1, <1>3, <2>2, <2>3, RetypedSlot
  <2> QED
    BY <2>1, <2>4, <2>5 DEF Fresh
<1>4. CASE GrantArenaFrame \/ MapPackage
  <2>1. nextSlot' = nextSlot
    BY <1>4 DEF GrantArenaFrame, MapPackage, locals
  <2> QED
    BY <1>1, <1>4, <2>1, DroppedSlot DEF Fresh
<1>5. CASE MapPrivateFrame \/ MapSharedFrame
  <2>1. /\ stage # "retype" /\ stage' = "retype" /\ NeedsFrame /\ TakesSlot
        /\ UNCHANGED <<nextSlot, root>>
    BY <1>5 DEF MapPrivateFrame, MapSharedFrame, NeedsFrame, TakesSlot, At, locals
  <2>2. loc.frame < nextSlot /\ loc.frame \in Nat
    BY <1>1, <2>1 DEF Fresh, Slots
  <2>3. ASSUME NEW s \in Slots, s >= nextSlot
        PROVE  root[s] = Empty
    <3>1. s # loc.frame
      BY <1>1, <2>2, <2>3
    <3> QED
      BY <1>1, <2>3, <3>1 DEF Fresh
  <2> QED
    BY <2>1, <2>3 DEF Fresh
<1>6. CASE ClearFrame \/ Panic \/ UNCHANGED vars
  <2>1. /\ UNCHANGED <<nextSlot, root, loc, demo, prog, i>>
        /\ (stage' # "retype") <=> (stage # "retype")
        /\ pc' = "panicked" \/ pc' = pc
    BY <1>6 DEF ClearFrame, Panic, vars, locals, given
  <2>2. NeedsFrame' /\ TakesSlot' => NeedsFrame /\ TakesSlot
    BY <2>1 DEF NeedsFrame, TakesSlot, At, Wire, Rounds, This, Arena
  <2> QED
    BY <1>1, <2>1, <2>2 DEF Fresh
<1> QED
  BY <1>2, <1>3, <1>4, <1>5, <1>6 DEF Next, BetweenFrames

(* How many frames there are.                                              *)
LEMMA FramesLength ==
  ASSUME TypeOK, Counting, Handing, [Next]_vars
  PROVE  /\ Len(frames) \in Nat /\ DOMAIN frames = 1..Len(frames)
         /\ Len(frames') \in Nat /\ DOMAIN frames' = 1..Len(frames')
         /\ Len(frames') = IF RetypeFrame \/ MapDeviceFrame
                           THEN Len(frames) + 1 ELSE Len(frames)
<1>1. frames \in Seq(Frames) /\ frames' \in Seq(Frames)
  BY ShapeStep DEF TypeOK
<1>2. CASE RetypeFrame \/ MapDeviceFrame
  <2>1. \E f : frames' = Append(frames, f)
    BY <1>2 DEF RetypeFrame, MapDeviceFrame
  <2> QED
    BY <1>1, <1>2, <2>1, LenProperties
<1>3. CASE ~RetypeFrame /\ ~MapDeviceFrame
  BY <1>1, <1>3, LayoutKept, LenProperties DEF SameLayout
<1> QED
  BY <1>2, <1>3

(* A settled frame stays settled, and handing a frame over settles it.     *)
LEMMA SettledStep ==
  ASSUME TypeOK, Counting, Handing, [Next]_vars
  PROVE  /\ \A f \in DOMAIN frames : Settled(f) => f \in DOMAIN frames' /\ Settled(f)'
         /\ stage # "retype" /\ stage' # "retype" => Len(frames') = Len(frames)
         /\ stage = "retype" /\ stage' # "retype" => RetypeFrame
<1>1. /\ Len(frames) \in Nat /\ DOMAIN frames = 1..Len(frames)
      /\ Len(frames') \in Nat /\ DOMAIN frames' = 1..Len(frames')
      /\ Len(frames') = IF RetypeFrame \/ MapDeviceFrame
                        THEN Len(frames) + 1 ELSE Len(frames)
  BY FramesLength
<1>2. CASE BetweenFrames
  BY <1>1, <1>2, BetweenFramesStage DEF Settled, RetypeFrame
<1>3. CASE RetypeFrame
  <2>1. stage = "retype" /\ Len(frames') = Len(frames) + 1
    BY <1>1, <1>3 DEF RetypeFrame
  <2> QED
    BY <1>1, <1>3, <2>1 DEF Settled
<1>4. CASE MapPrivateFrame \/ MapSharedFrame \/ MapPackage \/ GrantArenaFrame
  <2>1. stage = "give" /\ stage' = "retype"
    BY <1>4 DEF MapPrivateFrame, MapSharedFrame, MapPackage, GrantArenaFrame
  <2> QED
    BY <1>1, <2>1 DEF Settled
<1>5. CASE ClearFrame \/ Panic \/ UNCHANGED vars
  <2>1. (stage' # "retype") <=> (stage # "retype")
    BY <1>5 DEF ClearFrame, Panic, vars
  <2>2. Len(frames') = Len(frames)
    <3>1. CASE ClearFrame
      <4>1. stage # "retype" /\ pc' = pc /\ stage = "clear"
        BY <3>1 DEF ClearFrame
      <4>2. ~MapDeviceFrame
        BY <4>1, BetweenFramesStage DEF BetweenFrames
      <4> QED
        BY <1>1, <4>1, <4>2 DEF RetypeFrame
    <3>2. CASE Panic \/ UNCHANGED vars
      <4>1. frames' = frames
        BY <3>2 DEF Panic, vars, objects
      <4> QED
        BY <4>1
    <3> QED
      BY <1>5, <3>1, <3>2
  <2> QED
    BY <1>1, <2>1, <2>2 DEF Settled
<1> QED
  BY <1>2, <1>3, <1>4, <1>5 DEF Next, BetweenFrames

(* What a step that hands over no frame as a capability does to the frame  *)
(* capabilities in root: none appears.                                     *)
RootFramesKept ==
  \A s \in Slots : root'[s].kind = "Frame" => root'[s] = root[s]

LEMMA RootFramesKeptStep ==
  ASSUME TypeOK, Counting, Handing, Slotting, [Next]_vars, ~RetypeFrame
  PROVE  RootFramesKept
<1>1. CASE BetweenFrames
  BY <1>1, RootGrowsStep DEF RootGrows, RootFramesKept
<1>2. CASE GrantArenaFrame \/ MapPackage
  BY <1>2, DroppedSlot DEF RootFramesKept, Empty
<1>3. CASE ClearFrame \/ MapPrivateFrame \/ MapSharedFrame \/ Panic \/ UNCHANGED vars
  BY <1>3 DEF ClearFrame, MapPrivateFrame, MapSharedFrame, Panic, vars, RootFramesKept
<1> QED
  BY <1>1, <1>2, <1>3 DEF Next, BetweenFrames

(* Every step keeps FrameCaps.                                             *)
LEMMA FrameCapsStep ==
  ASSUME TypeOK, Counting, Handing, Slotting, [Next]_vars
  PROVE  FrameCaps'
<1>1. FrameCaps /\ Naming
  BY DEF Slotting
<1>2. /\ Len(frames) \in Nat /\ DOMAIN frames = 1..Len(frames)
      /\ Len(frames') \in Nat /\ DOMAIN frames' = 1..Len(frames')
      /\ Len(frames') = IF RetypeFrame \/ MapDeviceFrame
                        THEN Len(frames) + 1 ELSE Len(frames)
  BY FramesLength
<1>3. DOMAIN frames \subseteq DOMAIN frames'
  BY <1>2
<1>4. \A f \in DOMAIN frames : Settled(f) => f \in DOMAIN frames' /\ Settled(f)'
  BY SettledStep
<1>5. \A s \in Slots : root'[s].kind = "Frame" =>
        root'[s] = Cap("Frame", root'[s].obj) /\ root'[s].obj \in DOMAIN frames'
  <2>1. CASE RetypeFrame
    <3> SUFFICES ASSUME NEW s \in Slots, root'[s].kind = "Frame"
                 PROVE  root'[s] = Cap("Frame", root'[s].obj) /\ root'[s].obj \in DOMAIN frames'
      OBVIOUS
    <3>1. CASE s = FrameSlot
      <4>1. root'[s] = Cap("Frame", Len(frames) + 1)
        BY <2>1, <3>1, RetypedSlot
      <4>2. root'[s].obj = Len(frames) + 1
        BY <4>1, CapFacts
      <4> QED
        BY <1>2, <2>1, <4>1, <4>2
    <3>2. CASE s # FrameSlot
      <4>1. root'[s] = root[s]
        BY <2>1, <3>2, RetypedSlot
      <4> QED
        BY <1>1, <1>3, <4>1 DEF FrameCaps
    <3> QED
      BY <3>1, <3>2
  <2>2. CASE ~RetypeFrame
    <3>1. RootFramesKept
      BY <2>2, RootFramesKeptStep
    <3> QED
      BY <1>1, <1>3, <3>1 DEF FrameCaps, RootFramesKept
  <2> QED
    BY <2>1, <2>2
<1>6. \A s \in Slots :
        stage' # "retype" /\ root'[s] = Cap("Frame", Len(frames')) => s = loc'.frame
  <2> SUFFICES ASSUME NEW s \in Slots, stage' # "retype",
                      root'[s] = Cap("Frame", Len(frames'))
               PROVE  s = loc'.frame
    OBVIOUS
  <2>1. CASE RetypeFrame
    <3>1. CASE s = FrameSlot
      BY <2>1, <3>1, RetypedSlot
    <3>2. CASE s # FrameSlot
      <4>1. root[s] = Cap("Frame", Len(frames) + 1)
        BY <1>2, <2>1, <3>2, RetypedSlot
      <4>2. Len(frames) + 1 \in DOMAIN frames
        BY <1>1, <4>1, CapFacts DEF FrameCaps
      <4> QED
        BY <1>2, <4>2
    <3> QED
      BY <3>1, <3>2
  <2>2. CASE ~RetypeFrame
    <3>1. stage # "retype" /\ Len(frames') = Len(frames)
      BY <2>2, SettledStep
    <3>2. root'[s].kind = "Frame"
      BY CapFacts
    <3>3. root[s] = Cap("Frame", Len(frames))
      BY <2>2, <3>1, <3>2, RootFramesKeptStep DEF RootFramesKept
    <3>4. loc' = loc
      <4>1. ~BetweenFrames
        BY <3>1, BetweenFramesStage
      <4> QED
        BY <2>2, <4>1
        DEF Next, BetweenFrames, ClearFrame, MapPrivateFrame, GrantArenaFrame,
            MapSharedFrame, MapPackage, Panic, vars, locals
    <3> QED
      BY <1>1, <3>1, <3>3, <3>4 DEF FrameCaps
  <2> QED
    BY <2>1, <2>2
<1>7. \A p \in DOMAIN spaces' : \A s \in Slots : spaces'[p][s].kind = "Frame" =>
        /\ spaces'[p][s].obj \in DOMAIN frames'
        /\ stage' = "retype" \/ spaces'[p][s].obj # Len(frames')
  <2>1. CASE GrantArenaFrame
    <3>1. /\ stage = "give" /\ stage' = "retype" /\ HasCNode /\ loc.frame \in Slots
          /\ root[loc.frame] = Cap("Frame", Len(frames))
          /\ CopyCross(loc.frame, Arena.frameBase + i - 1)
      BY <2>1, DroppedSlot DEF GrantArenaFrame, HasCNode, At
    <3>2. Len(frames) \in DOMAIN frames
      BY <3>1, HandedFrame
    <3>3. \A p \in DOMAIN spaces' : \A s \in Slots :
            p \in DOMAIN spaces /\ spaces'[p][s] \in {spaces[p][s], Cap("Frame", Len(frames))}
      BY <1>1, <3>1, CopyAt
    <3> QED
      BY <1>1, <1>3, <3>1, <3>2, <3>3, CapFacts DEF FrameCaps
  <2>2. CASE ~GrantArenaFrame
    <3>1. SameHeld
      BY <2>2, SameHeldStep
    <3>2. \A f \in DOMAIN frames : Settled(f) =>
            f \in DOMAIN frames' /\ (stage' = "retype" \/ f # Len(frames'))
      BY <1>4 DEF Settled
    <3> QED
      BY <1>1, <3>1, <3>2 DEF FrameCaps, SameHeld
  <2> QED
    BY <2>1, <2>2
<1> QED
  BY <1>5, <1>6, <1>7 DEF FrameCaps, Settled

(* Every step keeps Slotting.                                              *)
LEMMA SlottingStep ==
  ASSUME TypeOK, Counting, Handing, Slotting, [Next]_vars
  PROVE  Slotting'
BY NamingStep, FreshStep, FrameCapsStep DEF Slotting

-----------------------------------------------------------------------------
(* Contents.                                                               *)

(* A frame of the root Untyped lies in RAM, a device frame does not.       *)
LEMMA InRamIsRam ==
  ASSUME TypeOK, Memory, NEW f \in DOMAIN frames, InRam(f)
  PROVE  IsRam(f)
<1>1. frames \in Seq(Frames) /\ memEnd \in Nat /\ watermark \in Nat
  BY DEF TypeOK
<1>2. frames[f] \in Frames
  BY <1>1, LenProperties, ElementOfSeq
<1>3. /\ frames[f].base \in Nat /\ frames[f].pages \in Nat /\ frames[f].pages > 0
      /\ GENERAL_MEMORY_BASE \in Nat
  BY <1>2 DEF Frames, Small, Mega, GENERAL_MEMORY_BASE
<1> QED
  BY <1>1, <1>3 DEF InRam, IsRam, Memory

(* The frame a retype makes, and where it is.                              *)
LEMMA RetypedFrame ==
  ASSUME TypeOK, Counting, Handing, Memory, RetypeFrame
  PROVE  /\ Len(frames') \in DOMAIN frames' /\ Len(frames') = Len(frames) + 1
         /\ \A f \in DOMAIN frames : frames'[f] = frames[f]
         /\ frames'[Len(frames')].content = <<>> /\ frames'[Len(frames')].maps = {}
         /\ IsRam(Len(frames))'
         /\ stage = "retype" /\ stage' = "clear" /\ memEnd' = memEnd
         /\ DOMAIN frames' = DOMAIN frames \cup {Len(frames')}
<1>1. /\ frames \in Seq(Frames) /\ memEnd \in Nat /\ watermark \in Nat
      /\ FramePages \in {Small, Mega} /\ GENERAL_MEMORY_BASE <= watermark
  BY DEF TypeOK, Memory, FramePages
<1>2. /\ frames' = Append(frames, [base |-> Bump(FramePages), pages |-> FramePages,
                                   content |-> <<>>, maps |-> {}])
      /\ Bump(FramePages) + FramePages <= memEnd /\ memEnd' = memEnd
      /\ stage = "retype" /\ stage' = "clear"
  BY DEF RetypeFrame, CanRetypeFrame, given
<1>3. /\ Len(frames) \in Nat /\ DOMAIN frames = 1..Len(frames)
      /\ DOMAIN frames' = 1..Len(frames') /\ Len(frames') = Len(frames) + 1
  <2>1. [Next]_vars
    BY DEF Next
  <2> QED
    BY <2>1, FramesLength
<1>4. Bump(FramePages) \in Nat /\ Bump(FramePages) >= watermark
  BY <1>1, BumpFacts
<1>5. FramePages \in Nat /\ FramePages > 0 /\ GENERAL_MEMORY_BASE \in Nat
  BY <1>1 DEF Small, Mega, GENERAL_MEMORY_BASE
<1>6. GENERAL_MEMORY_BASE <= Bump(FramePages) /\ Bump(FramePages) < memEnd
  BY <1>1, <1>2, <1>4, <1>5
<1>7. /\ frames'[Len(frames) + 1] = [base |-> Bump(FramePages), pages |-> FramePages,
                                     content |-> <<>>, maps |-> {}]
      /\ \A f \in DOMAIN frames : frames'[f] = frames[f]
  BY <1>1, <1>2, <1>3
<1>8. IsRam(Len(frames))'
  BY <1>2, <1>3, <1>6, <1>7 DEF IsRam
<1> QED
  BY <1>2, <1>3, <1>7, <1>8

(* The frame being handed over is cleared and seen by nobody.              *)
LEMMA Given ==
  ASSUME TypeOK, Handing, Memory, Contents, stage = "give"
  PROVE  /\ Len(frames) \in DOMAIN frames /\ ThisFrame = Len(frames)
         /\ Len(frames) \in 1..Len(frames)
         /\ IsRam(Len(frames)) /\ frames[Len(frames)].content = <<"zero">>
         /\ frames[Len(frames)].maps = {}
<1>1. ThisFrame = Len(frames) /\ ThisFrame \in DOMAIN frames /\ ThisFrame \in 1..Len(frames)
  BY HandedFrame
<1>2. IsRam(Len(frames))
  BY <1>1, InRamIsRam DEF Memory
<1>3. ContentOf(Len(frames)) /\ ~Settled(Len(frames))
  BY <1>1 DEF Contents, Settled
<1> QED
  BY <1>1, <1>2, <1>3 DEF ContentOf

(* Mapping it gives it those mappings.                                     *)
LEMMA GivenMapped ==
  ASSUME TypeOK, Handing, Memory, Contents, stage = "give", NEW places, NEW mapped,
         mapped = Mapped(ThisFrame, places)
  PROVE  /\ DOMAIN mapped = DOMAIN frames
         /\ \A f \in DOMAIN frames : f # Len(frames) => mapped[f] = frames[f]
         /\ mapped[Len(frames)].base = frames[Len(frames)].base
         /\ mapped[Len(frames)].content = <<"zero">>
         /\ mapped[Len(frames)].maps = Range(places)
<1>1. /\ Len(frames) \in DOMAIN frames /\ ThisFrame = Len(frames)
      /\ ThisFrame \in 1..Len(frames) /\ frames \in Seq(Frames)
      /\ frames[Len(frames)].content = <<"zero">> /\ frames[Len(frames)].maps = {}
  BY Given DEF TypeOK
<1>2. /\ DOMAIN mapped = DOMAIN frames
      /\ \A g \in DOMAIN frames :
           /\ mapped[g].base = frames[g].base
           /\ mapped[g].content = frames[g].content
           /\ g # ThisFrame => mapped[g] = frames[g]
      /\ mapped[ThisFrame].maps = frames[ThisFrame].maps \cup Range(places)
  <2> DEFINE f == ThisFrame
  <2>1. f \in 1..Len(frames) /\ frames \in Seq(Frames) /\ mapped = Mapped(f, places)
    BY <1>1
  <2> HIDE DEF f
  <2>2. /\ DOMAIN mapped = DOMAIN frames
        /\ \A g \in DOMAIN frames :
             /\ mapped[g].base = frames[g].base
             /\ mapped[g].content = frames[g].content
             /\ g # f => mapped[g] = frames[g]
        /\ mapped[f].maps = frames[f].maps \cup Range(places)
    BY <2>1, MappedLayout
  <2> QED
    BY <2>2 DEF f
<1> QED
  BY <1>1, <1>2

(* A VSpace is filled once, after its image is mapped.                     *)
LEMMA UnfilledStep ==
  ASSUME TypeOK, [Next]_vars
  PROVE  /\ vspaces \in Nat /\ vspaces' \in {vspaces, vspaces + 1}
         /\ Unfilled' => \/ vspaces' = vspaces + 1
                         \/ vspaces' = vspaces /\ Unfilled
<1>1. vspaces \in Nat /\ i \in Nat \ {0}
  BY DEF TypeOK
<1>2. CASE NextPhase
  <2>1. /\ i > Rounds /\ i' = 1 /\ pc' \in {"vspace", Then[pc]} /\ pc \in DOMAIN Then
        /\ vspaces' = vspaces
    BY <1>2 DEF NextPhase, objects
  <2> QED
    BY <1>1, <2>1 DEF Unfilled, HasVSpace, Rounds, Then, LoadPhases
<1>3. CASE CreateVSpace
  BY <1>1, <1>3 DEF CreateVSpace
<1>4. CASE EnterFirstThread \/ Panic
  BY <1>1, <1>4 DEF EnterFirstThread, Panic, Unfilled, HasVSpace, LoadPhases, objects
<1>5. CASE RetypeFrame \/ ClearFrame \/ UNCHANGED vars
  BY <1>1, <1>5 DEF RetypeFrame, ClearFrame, vars, Unfilled, HasVSpace, objects
<1>6. CASE FillImage
  <2>1. pc = "fill" /\ pc' = pc /\ i' = i + 1 /\ vspaces' = vspaces
    BY <1>6 DEF FillImage, At, NextRound
  <2> QED
    BY <1>1, <2>1 DEF Unfilled
<1>7. CASE MapPrivateFrame
  <2>1. pc \in {"image", "stack", "heap"} /\ pc' = pc /\ vspaces' = vspaces
    BY <1>7 DEF MapPrivateFrame, At, NextRound
  <2> QED
    BY <1>1, <2>1 DEF Unfilled, HasVSpace
<1>8. CASE \/ RetypeRootObject \/ MintRootObject \/ CreateCNode \/ GrantObject
           \/ GrantSelfCNode \/ OpenArena \/ GrantArenaFrame \/ CreateThread
           \/ MapSharedFrame \/ MapPackage \/ MapDeviceFrame \/ MakeReady
  <2>1. pc' = pc /\ pc \notin {"vspace", "image", "fill"} /\ vspaces' = vspaces
    BY <1>8
    DEF RetypeRootObject, MintRootObject, CreateCNode, GrantObject, GrantSelfCNode,
        OpenArena, GrantArenaFrame, CreateThread, MapSharedFrame, MapPackage,
        MapDeviceFrame, MakeReady, NextRound, At, objects
  <2> QED
    BY <1>1, <2>1 DEF Unfilled
<1> QED
  BY <1>2, <1>3, <1>4, <1>5, <1>6, <1>7, <1>8 DEF Next

(* A settled frame nothing is done to keeps its content.                   *)
LEMMA ContentKept ==
  ASSUME TypeOK, Counting, Handing, [Next]_vars, NEW f \in DOMAIN frames, ContentOf(f),
         Settled(f), frames'[f] = frames[f], memEnd' = memEnd
  PROVE  ContentOf(f)'
<1>1. f \in DOMAIN frames' /\ Settled(f)'
  BY SettledStep
<1>2. IsRam(f)' <=> IsRam(f)
  BY DEF IsRam
<1>3. /\ vspaces \in Nat /\ vspaces' \in {vspaces, vspaces + 1}
      /\ Unfilled' => \/ vspaces' = vspaces + 1
                      \/ vspaces' = vspaces /\ Unfilled
  BY UnfilledStep
<1>4. frames'[f].content \in IF ~IsRam(f)' THEN {<<>>}
                             ELSE {<<"zero">>, <<"zero", "image">>, <<"zero", "package">>}
  BY <1>2 DEF ContentOf
<1>5. ASSUME NEW m \in frames'[f].maps
      PROVE  /\ m.vspace \in 1..vspaces'
             /\ Unfilled' /\ m.vspace = vspaces' => frames'[f].content = <<"zero">>
  <2>1. /\ m.vspace \in 1..vspaces
        /\ Unfilled /\ m.vspace = vspaces => frames[f].content = <<"zero">>
    BY <1>5 DEF ContentOf
  <2> QED
    BY <1>3, <2>1
<1> QED
  BY <1>1, <1>4, <1>5 DEF ContentOf

(* Steps that leave every frame alone: one being handed over as a          *)
(* capability was cleared.                                                 *)
LEMMA SameFramesContents ==
  ASSUME TypeOK, Counting, Handing, Memory, Contents, [Next]_vars, frames' = frames,
         memEnd' = memEnd
  PROVE  Contents'
<1> SUFFICES ASSUME NEW f \in DOMAIN frames
             PROVE  ContentOf(f)'
  BY DEF Contents
<1>1. ContentOf(f)
  BY DEF Contents
<1>2. CASE Settled(f)
  BY <1>1, <1>2, ContentKept
<1>3. CASE ~Settled(f)
  <2>1. stage # "retype" /\ f = Len(frames) /\ frames[f].maps = {}
    BY <1>1, <1>3 DEF Settled, ContentOf
  <2>2. IsRam(f)' <=> IsRam(f)
    BY DEF IsRam
  <2>3. CASE stage' = stage
    BY <1>1, <1>3, <2>1, <2>2, <2>3 DEF ContentOf, Settled
  <2>4. CASE stage' # stage
    <3>1. stage = "give" /\ stage' = "retype"
      <4>1. ~BetweenFrames /\ ~RetypeFrame
        BY <2>1, BetweenFramesStage DEF RetypeFrame
      <4>2. CASE ClearFrame
        <5>1. /\ stage = "clear" /\ frames' = [frames EXCEPT ![ThisFrame].content = <<"zero">>]
              /\ ThisFrame = Len(frames) /\ ThisFrame \in 1..Len(frames)
              /\ frames[ThisFrame] \in Frames /\ frames \in Seq(Frames)
          BY <2>1, <4>2, HandedFrame DEF ClearFrame, Cleared, TypeOK
        <5>2. frames'[f].content = <<"zero">>
          BY <2>1, <5>1 DEF Frames
        <5>3. IsRam(f) /\ frames[f].content = <<>>
          BY <1>1, <1>3, <2>1, <5>1, InRamIsRam DEF ContentOf, Memory
        <5> QED
          BY <5>2, <5>3
      <4>3. CASE MapPrivateFrame \/ MapSharedFrame \/ MapPackage \/ GrantArenaFrame
        BY <4>3 DEF MapPrivateFrame, MapSharedFrame, MapPackage, GrantArenaFrame
      <4>4. CASE Panic \/ UNCHANGED vars
        BY <2>4, <4>4 DEF Panic, vars
      <4> QED
        BY <4>1, <4>2, <4>3, <4>4 DEF Next, BetweenFrames
    <3> QED
      BY <1>1, <1>3, <2>1, <2>2, <3>1 DEF ContentOf, Settled
  <2> QED
    BY <2>3, <2>4
<1> QED
  BY <1>2, <1>3

(* The places a wire's frame is mapped at lie in VSpaces that exist.       *)
LEMMA PlaceFacts ==
  ASSUME TypeOK, Counting, Naming, pc = "wire", i <= Rounds, NEW perms
  PROVE  \A m \in Range(Places(perms)) :
           /\ m.vspace \in 1..vspaces /\ m.perms = perms
           /\ \E k \in DOMAIN Wire.to :
                /\ Wire.to[k].prog \in DOMAIN tcbs
                /\ tcbs[Wire.to[k].prog].vspace = m.vspace
                /\ Wire.to[k].vaddr = m.vaddr
<1> SUFFICES ASSUME NEW k \in DOMAIN Wire.to
             PROVE  /\ Places(perms)[k].vspace \in 1..vspaces
                    /\ Places(perms)[k].perms = perms
                    /\ Wire.to[k].prog \in DOMAIN tcbs
                    /\ tcbs[Wire.to[k].prog].vspace = Places(perms)[k].vspace
                    /\ Wire.to[k].vaddr = Places(perms)[k].vaddr
  <2>1. DOMAIN Places(perms) = DOMAIN Wire.to
    BY DEF Places
  <2>2. \A m \in Range(Places(perms)) : \E k \in DOMAIN Wire.to : m = Places(perms)[k]
    BY <2>1 DEF Range
  <2> QED
    BY <2>2
<1>1. Wire.to[k].prog \in DOMAIN tcbs
  BY WireFacts
<1>2. /\ root[tcbs[Wire.to[k].prog].vspaceCptr].obj = tcbs[Wire.to[k].prog].vspace
      /\ tcbs[Wire.to[k].prog].vspace \in 1..vspaces
  BY <1>1, CapFacts DEF Naming
<1>3. Places(perms)[k] =
        Place(root[tcbs[Wire.to[k].prog].vspaceCptr].obj, Wire.to[k].vaddr, perms)
  BY DEF Places
<1> QED
  BY <1>1, <1>2, <1>3 DEF Place

(* The device frame a wire maps.                                           *)
LEMMA MappedDevice ==
  ASSUME TypeOK, Counting, Handing, Memory, MapDeviceFrame
  PROVE  /\ Len(frames') \in DOMAIN frames' /\ Len(frames') = Len(frames) + 1
         /\ DOMAIN frames' = DOMAIN frames \cup {Len(frames')}
         /\ \A f \in DOMAIN frames : frames'[f] = frames[f]
         /\ frames'[Len(frames')].content = <<>> /\ ~IsRam(Len(frames))'
         /\ frames'[Len(frames')].maps = Range(Places(DevicePerms))
         /\ memEnd' = memEnd /\ stage = "retype" /\ stage' = "retype"
         /\ pc = "wire" /\ pc' = pc /\ i <= Rounds
<1>1. /\ pc = "wire" /\ pc' = pc /\ i <= Rounds /\ Wire.op = "Device"
      /\ frames' = Append(frames, DeviceFrame) /\ memEnd' = memEnd
  BY DEF MapDeviceFrame, At, NextRound, given
<1>2. /\ Len(frames) \in Nat /\ DOMAIN frames = 1..Len(frames)
      /\ DOMAIN frames' = 1..Len(frames') /\ Len(frames') = Len(frames) + 1
  <2>1. [Next]_vars
    BY DEF Next
  <2> QED
    BY <2>1, FramesLength
<1>3. frames \in Seq(Frames)
  BY DEF TypeOK
<1>4. /\ frames'[Len(frames) + 1] = DeviceFrame
      /\ \A f \in DOMAIN frames : frames'[f] = frames[f]
  BY <1>1, <1>2, <1>3
<1>5. Wire.paddr \in Nat /\ Wire.paddr + Mega <= GENERAL_MEMORY_BASE
  <2>1. i \in DOMAIN demo.wires /\ demo.wires[i].op = "Device"
    BY <1>1, WireFacts DEF Wire
  <2> QED
    BY <2>1, DeviceFacts DEF Wire
<1>6. /\ DeviceFrame.base = Wire.paddr /\ DeviceFrame.content = <<>>
      /\ DeviceFrame.maps = Range(Places(DevicePerms))
  BY DEF DeviceFrame, Range, Places
<1>7. ~IsRam(Len(frames))'
  BY <1>2, <1>4, <1>5, <1>6 DEF IsRam, GENERAL_MEMORY_BASE, Mega
<1>8. stage = "retype" /\ stage' = "retype"
  BY BetweenFramesStage DEF BetweenFrames
<1> QED
  BY <1>1, <1>2, <1>4, <1>6, <1>7, <1>8

(* What is appended to one write is the second.                            *)
LEMMA AppendToOne ==
  ASSUME NEW a, NEW b
  PROVE  Append(<<a>>, b) = <<a, b>>
<1> DEFINE T == {a, b}
           s == Append(<<a>>, b)
           t == <<a, b>>
<1>1. <<a>> \in Seq(T) /\ b \in T /\ Len(<<a>>) = 1
  OBVIOUS
<1>2. s \in Seq(T) /\ Len(s) = 2 /\ s[1] = a /\ s[2] = b
  BY <1>1, AppendProperties
<1>3. t \in Seq(T) /\ Len(t) = 2 /\ t[1] = a /\ t[2] = b
  OBVIOUS
<1> HIDE DEF T, s, t
<1>4. \A k \in 1..Len(s) : s[k] = t[k]
  <2>1. 1..Len(s) = {1, 2}
    BY <1>2
  <2> QED
    BY <1>2, <1>3, <2>1
<1>5. s = t
  BY <1>2, <1>3, <1>4, SeqEqual
<1> QED
  BY <1>5 DEF s, t

(* What a step that maps the frame being handed over leaves of it: the     *)
(* places it is mapped at and what was written to it.                      *)
LEMMA HandedOver ==
  ASSUME TypeOK, Counting, Handing, Slotting, Memory, Contents,
         MapPrivateFrame \/ MapSharedFrame \/ MapPackage
  PROVE  /\ Len(frames) \in DOMAIN frames /\ DOMAIN frames' = DOMAIN frames
         /\ Len(frames') = Len(frames) /\ memEnd' = memEnd /\ demo' = demo
         /\ \A f \in DOMAIN frames : f # Len(frames) => frames'[f] = frames[f]
         /\ IsRam(Len(frames))' /\ stage = "give" /\ stage' = "retype"
         /\ frames'[Len(frames)].content =
              IF MapPackage THEN <<"zero", "package">> ELSE <<"zero">>
         /\ frames'[Len(frames)].maps =
              IF MapPrivateFrame THEN {PrivatePlace}
              ELSE Range(Places(IF MapSharedFrame THEN SharedPerms ELSE PackagePerms))
<1>1. /\ Len(frames) \in DOMAIN frames /\ ThisFrame = Len(frames)
      /\ IsRam(Len(frames)) /\ stage = "give" /\ stage' = "retype"
      /\ memEnd' = memEnd /\ demo' = demo
  <2>1. stage = "give" /\ stage' = "retype" /\ memEnd' = memEnd /\ demo' = demo
    BY DEF MapPrivateFrame, MapSharedFrame, MapPackage, given
  <2> QED
    BY <2>1, Given
<1>2. Len(frames') = Len(frames) /\ DOMAIN frames' = DOMAIN frames
  <2>1. [Next]_vars /\ ~RetypeFrame /\ ~MapDeviceFrame
    BY <1>1 DEF Next, RetypeFrame, MapPrivateFrame, MapSharedFrame, MapPackage,
                MapDeviceFrame, At
  <2> QED
    BY <2>1, FramesLength
<1>3. CASE MapPrivateFrame
  <2>1. /\ frames' = Mapped(ThisFrame, <<PrivatePlace>>) /\ ~MapPackage
        /\ Range(<<PrivatePlace>>) = {PrivatePlace}
    BY <1>3 DEF MapPrivateFrame, MapPackage, At, Range
  <2>2. /\ \A f \in DOMAIN frames : f # Len(frames) => frames'[f] = frames[f]
        /\ frames'[Len(frames)].base = frames[Len(frames)].base
        /\ frames'[Len(frames)].content = <<"zero">>
        /\ frames'[Len(frames)].maps = {PrivatePlace}
    BY <1>1, <2>1, GivenMapped
  <2> QED
    BY <1>1, <1>2, <1>3, <2>1, <2>2 DEF IsRam
<1>4. CASE MapSharedFrame
  <2>1. /\ frames' = Mapped(ThisFrame, Places(SharedPerms)) /\ ~MapPackage
        /\ ~MapPrivateFrame
    BY <1>4 DEF MapPrivateFrame, MapSharedFrame, MapPackage, At
  <2>2. /\ \A f \in DOMAIN frames : f # Len(frames) => frames'[f] = frames[f]
        /\ frames'[Len(frames)].base = frames[Len(frames)].base
        /\ frames'[Len(frames)].content = <<"zero">>
        /\ frames'[Len(frames)].maps = Range(Places(SharedPerms))
    BY <1>1, <2>1, GivenMapped
  <2> QED
    BY <1>1, <1>2, <1>4, <2>1, <2>2 DEF IsRam
<1>5. CASE MapPackage
  <2> DEFINE mapped == Mapped(ThisFrame, Places(PackagePerms))
  <2>1. /\ frames' = [mapped EXCEPT ![ThisFrame].content = Append(@, "package")]
        /\ ~MapSharedFrame /\ ~MapPrivateFrame /\ pc = "wire" /\ i <= Rounds
    BY <1>5 DEF MapPrivateFrame, MapSharedFrame, MapPackage, At
  <2>2. /\ DOMAIN mapped = DOMAIN frames
        /\ \A f \in DOMAIN frames : f # Len(frames) => mapped[f] = frames[f]
        /\ mapped[Len(frames)].base = frames[Len(frames)].base
        /\ mapped[Len(frames)].content = <<"zero">>
        /\ mapped[Len(frames)].maps = Range(Places(PackagePerms))
    BY <1>1, GivenMapped
  <2>3. mapped[Len(frames)] \in Frames
    <3>1. PackagePerms \in SUBSET Perms
      BY DEF PackagePerms, Perms
    <3>2. mapped \in Seq(Frames)
      BY <1>1, <2>1, <3>1, PlacedFrame
    <3> QED
      BY <1>1, <2>2, <3>2, LenProperties, ElementOfSeq
  <2> HIDE DEF mapped
  <2>4. /\ frames'[Len(frames)] =
             [mapped[Len(frames)] EXCEPT !.content = Append(@, "package")]
        /\ \A f \in DOMAIN frames : f # Len(frames) => frames'[f] = mapped[f]
    BY <1>1, <2>1, <2>2
  <2>5. Append(<<"zero">>, "package") = <<"zero", "package">>
    BY AppendToOne
  <2>6. /\ frames'[Len(frames)].content = <<"zero", "package">>
        /\ frames'[Len(frames)].base = mapped[Len(frames)].base
        /\ frames'[Len(frames)].maps = mapped[Len(frames)].maps
    BY <2>2, <2>3, <2>4, <2>5 DEF Frames
  <2> QED
    BY <1>1, <1>2, <1>5, <2>1, <2>2, <2>4, <2>6 DEF IsRam
<1> QED
  BY <1>3, <1>4, <1>5

(* The images are filled once, into frames that were cleared.              *)
LEMMA Filled ==
  ASSUME TypeOK, Handing, Naming, Contents, FillImage, NEW f \in DOMAIN frames
  PROVE  /\ DOMAIN frames' = DOMAIN frames /\ ~Unfilled'
         /\ frames'[f].maps = frames[f].maps /\ frames'[f].base = frames[f].base
         /\ \/ frames'[f].content = frames[f].content
            \/ frames[f].content = <<"zero">> /\ frames'[f].content = <<"zero", "image">>
<1>1. /\ pc = "fill" /\ i = 1 /\ pc' = pc /\ i' = 2
      /\ frames' = [g \in DOMAIN frames |->
                      IF InThisVSpace(g)
                      THEN [frames[g] EXCEPT !.content = Append(@, "image")]
                      ELSE frames[g]]
  <2>1. pc = "fill" /\ i <= 1 /\ i \in Nat \ {0} /\ pc' = pc /\ i' = i + 1
    BY DEF FillImage, At, Rounds, NextRound, TypeOK
  <2> QED
    BY <2>1 DEF FillImage
<1>2. frames[f] \in Frames
  BY LenProperties, ElementOfSeq DEF TypeOK
<1>3. Unfilled /\ ThisVSpace = vspaces
  <2>1. HasVSpace
    BY <1>1 DEF HasVSpace, LoadPhases
  <2> QED
    BY <1>1, <2>1, CapFacts DEF Unfilled, Naming, ThisVSpace
<1>4. ~Unfilled'
  BY <1>1 DEF Unfilled
<1>5. CASE InThisVSpace(f)
  <2>1. frames[f].content = <<"zero">>
    BY <1>3, <1>5 DEF InThisVSpace, Contents, ContentOf
  <2>2. frames'[f] = [frames[f] EXCEPT !.content = Append(@, "image")]
    BY <1>1, <1>5
  <2>3. Append(<<"zero">>, "image") = <<"zero", "image">>
    BY AppendToOne
  <2> QED
    BY <1>1, <1>2, <1>4, <2>1, <2>2, <2>3 DEF Frames
<1>6. CASE ~InThisVSpace(f)
  <2>1. frames'[f] = frames[f]
    BY <1>1, <1>6
  <2> QED
    BY <1>1, <1>4, <2>1
<1> QED
  BY <1>5, <1>6

(* Every step keeps Contents.                                              *)
LEMMA ContentsStep ==
  ASSUME TypeOK, Counting, Handing, Memory, Slotting, Contents, [Next]_vars
  PROVE  Contents'
<1>1. /\ Len(frames) \in Nat /\ DOMAIN frames = 1..Len(frames) /\ Naming
      /\ \A f \in DOMAIN frames : ContentOf(f)
  BY LenProperties DEF TypeOK, Contents, Slotting
<1>2. /\ vspaces \in Nat /\ vspaces' \in {vspaces, vspaces + 1}
      /\ Unfilled' => \/ vspaces' = vspaces + 1
                      \/ vspaces' = vspaces /\ Unfilled
  BY UnfilledStep
<1>3. CASE RetypeFrame
  <2> SUFFICES ASSUME NEW f \in DOMAIN frames'
               PROVE  ContentOf(f)'
    BY DEF Contents
  <2>1. /\ Len(frames') = Len(frames) + 1 /\ DOMAIN frames' = DOMAIN frames \cup {Len(frames')}
        /\ \A g \in DOMAIN frames : frames'[g] = frames[g]
        /\ frames'[Len(frames')].content = <<>> /\ frames'[Len(frames')].maps = {}
        /\ stage = "retype" /\ stage' = "clear" /\ memEnd' = memEnd
        /\ IsRam(Len(frames))'
    BY <1>3, RetypedFrame
  <2>2. CASE f \in DOMAIN frames
    BY <1>1, <2>1, <2>2, ContentKept DEF Settled
  <2>3. CASE f = Len(frames')
    BY <2>1, <2>3 DEF ContentOf, Settled, IsRam
  <2> QED
    BY <2>1, <2>2, <2>3
<1>4. CASE ClearFrame
  <2> SUFFICES ASSUME NEW f \in DOMAIN frames'
               PROVE  ContentOf(f)'
    BY DEF Contents
  <2>1. /\ stage = "clear" /\ stage' = "give" /\ memEnd' = memEnd
        /\ frames' = [frames EXCEPT ![ThisFrame].content = <<"zero">>]
        /\ ThisFrame = Len(frames) /\ Len(frames) \in DOMAIN frames
        /\ frames[Len(frames)] \in Frames /\ frames \in Seq(Frames)
    BY <1>4, HandedFrame DEF ClearFrame, Cleared, TypeOK, given
  <2>2. /\ frames'[Len(frames)] = [frames[Len(frames)] EXCEPT !.content = <<"zero">>]
        /\ DOMAIN frames' = DOMAIN frames
        /\ \A g \in DOMAIN frames : g # Len(frames) => frames'[g] = frames[g]
    BY <2>1
  <2>3. /\ frames'[Len(frames)].content = <<"zero">>
        /\ frames'[Len(frames)].maps = frames[Len(frames)].maps
        /\ frames'[Len(frames)].base = frames[Len(frames)].base
    BY <2>1, <2>2 DEF Frames
  <2>4. Len(frames') = Len(frames)
    BY <2>1, FramesLength, SettledStep
  <2>5. CASE f # Len(frames)
    BY <1>1, <2>1, <2>2, <2>5, ContentKept DEF Settled
  <2>6. CASE f = Len(frames)
    <3>1. IsRam(Len(frames)) /\ ~Settled(Len(frames)) /\ ContentOf(Len(frames))
      BY <1>1, <2>1, InRamIsRam DEF Memory, Settled
    <3>2. frames[Len(frames)].maps = {}
      BY <3>1 DEF ContentOf
    <3>3. IsRam(f)'
      BY <2>1, <2>3, <2>6, <3>1 DEF IsRam
    <3>4. /\ frames'[f].content = <<"zero">> /\ frames'[f].maps = {}
          /\ stage' = "give" /\ f = Len(frames')
      BY <2>1, <2>3, <2>4, <2>6, <3>2
    <3> QED
      BY <3>3, <3>4 DEF ContentOf, Settled
  <2> QED
    BY <2>5, <2>6
<1>5. CASE MapPrivateFrame \/ MapSharedFrame \/ MapPackage
  <2> SUFFICES ASSUME NEW f \in DOMAIN frames'
               PROVE  ContentOf(f)'
    BY DEF Contents
  <2> DEFINE new == frames'[Len(frames)]
  <2>1. /\ Len(frames) \in DOMAIN frames /\ DOMAIN frames' = DOMAIN frames
        /\ Len(frames') = Len(frames) /\ memEnd' = memEnd
        /\ \A g \in DOMAIN frames : g # Len(frames) => frames'[g] = frames[g]
        /\ IsRam(Len(frames))' /\ stage = "give" /\ stage' = "retype"
        /\ new.content = IF MapPackage THEN <<"zero", "package">> ELSE <<"zero">>
        /\ new.maps = IF MapPrivateFrame THEN {PrivatePlace}
                      ELSE Range(Places(IF MapSharedFrame THEN SharedPerms ELSE PackagePerms))
    BY <1>5, HandedOver
  <2>2. CASE f # Len(frames)
    BY <1>1, <2>1, <2>2, ContentKept DEF Settled
  <2>3. \A m \in new.maps : m.vspace \in 1..vspaces'
    <3>1. CASE MapPrivateFrame
      <4>1. HasVSpace /\ PrivatePlace.vspace = ThisVSpace
        BY <3>1 DEF MapPrivateFrame, At, HasVSpace, LoadPhases, PrivatePlace, Place
      <4>2. PrivatePlace.vspace \in 1..vspaces
        BY <1>1, <1>2, <4>1, CapFacts DEF Naming, ThisVSpace
      <4> QED
        BY <1>2, <2>1, <3>1, <4>2
    <3>2. CASE ~MapPrivateFrame
      <4>1. pc = "wire" /\ i <= Rounds
        BY <1>5, <3>2 DEF MapSharedFrame, MapPackage, At
      <4>2. \A m \in new.maps : m.vspace \in 1..vspaces
        BY <1>1, <2>1, <3>2, <4>1, PlaceFacts
      <4> QED
        BY <1>2, <4>2
    <3> QED
      BY <3>1, <3>2
  <2>4. Unfilled' => new.content = <<"zero">>
    <3>1. MapPackage => ~Unfilled'
      BY DEF MapPackage, At, NextRound, Unfilled
    <3> QED
      BY <2>1, <3>1
  <2>5. CASE f = Len(frames)
    <3> HIDE DEF new
    <3>1. frames'[f] = new /\ IsRam(f)'
      BY <2>1, <2>5 DEF new, IsRam
    <3>2. new.content \in {<<"zero">>, <<"zero", "package">>}
      BY <2>1
    <3> QED
      BY <2>1, <2>3, <2>4, <3>1, <3>2 DEF ContentOf, Settled
  <2> QED
    BY <2>2, <2>5
<1>6. CASE MapDeviceFrame
  <2> SUFFICES ASSUME NEW f \in DOMAIN frames'
               PROVE  ContentOf(f)'
    BY DEF Contents
  <2>1. /\ DOMAIN frames' = DOMAIN frames \cup {Len(frames')}
        /\ \A g \in DOMAIN frames : frames'[g] = frames[g]
        /\ frames'[Len(frames')].content = <<>> /\ ~IsRam(Len(frames))'
        /\ frames'[Len(frames')].maps = Range(Places(DevicePerms))
        /\ memEnd' = memEnd /\ stage = "retype" /\ stage' = "retype"
        /\ pc = "wire" /\ pc' = pc /\ i <= Rounds
    BY <1>6, MappedDevice
  <2>2. CASE f \in DOMAIN frames
    BY <1>1, <2>1, <2>2, ContentKept DEF Settled
  <2>3. CASE f = Len(frames')
    <3>1. \A m \in frames'[f].maps : m.vspace \in 1..vspaces'
      <4>1. \A m \in Range(Places(DevicePerms)) : m.vspace \in 1..vspaces
        BY <1>1, <2>1, PlaceFacts
      <4> QED
        BY <1>2, <2>1, <2>3, <4>1
    <3>2. ~Unfilled'
      BY <2>1 DEF Unfilled
    <3> QED
      BY <2>1, <2>3, <3>1, <3>2 DEF ContentOf, Settled, IsRam
  <2> QED
    BY <2>1, <2>2, <2>3
<1>7. CASE FillImage
  <2> SUFFICES ASSUME NEW f \in DOMAIN frames
               PROVE  ContentOf(f)'
    BY <1>7 DEF Contents, FillImage
  <2>1. /\ ~Unfilled' /\ frames'[f].maps = frames[f].maps
        /\ frames'[f].base = frames[f].base
        /\ \/ frames'[f].content = frames[f].content
           \/ frames[f].content = <<"zero">> /\ frames'[f].content = <<"zero", "image">>
    BY <1>1, <1>7, Filled
  <2>2. stage = "retype" /\ stage' = "retype" /\ memEnd' = memEnd /\ vspaces' = vspaces
    BY <1>7, BetweenFramesStage DEF BetweenFrames, FillImage, given
  <2>3. ContentOf(f) /\ (IsRam(f)' <=> IsRam(f))
    BY <1>1, <2>1, <2>2 DEF IsRam
  <2>4. Settled(f) /\ Settled(f)' /\ <<"zero">> # <<>>
    BY <2>2 DEF Settled
  <2>5. frames'[f].content \in IF ~IsRam(f)' THEN {<<>>}
                               ELSE {<<"zero">>, <<"zero", "image">>, <<"zero", "package">>}
    BY <2>1, <2>3, <2>4 DEF ContentOf
  <2>6. \A m \in frames'[f].maps : m.vspace \in 1..vspaces'
    BY <2>1, <2>2, <2>3 DEF ContentOf
  <2> QED
    BY <2>1, <2>4, <2>5, <2>6 DEF ContentOf
<1>8. CASE ~ (\/ RetypeFrame \/ ClearFrame \/ MapPrivateFrame \/ MapSharedFrame
              \/ MapPackage \/ MapDeviceFrame \/ FillImage)
  <2>1. frames' = frames /\ memEnd' = memEnd
    BY <1>8
    DEF Next, vars, objects, given, NextPhase, RetypeRootObject, MintRootObject,
        CreateVSpace, CreateCNode, GrantObject, GrantSelfCNode, OpenArena,
        GrantArenaFrame, CreateThread, MakeReady, EnterFirstThread, Panic
  <2> QED
    BY <2>1, SameFramesContents
<1> QED
  BY <1>3, <1>4, <1>5, <1>6, <1>7, <1>8

-----------------------------------------------------------------------------
(* Custody.                                                                *)

(* The package is told apart from what is written to any other frame.      *)
LEMMA PackageIsOther ==
  /\ <<"zero">> # <<"zero", "package">>
  /\ <<"zero", "image">> # <<"zero", "package">>
<1>1. Len(<<"zero">>) = 1 /\ Len(<<"zero", "package">>) = 2
  OBVIOUS
<1>2. <<"zero", "image">>[2] = "image" /\ <<"zero", "package">>[2] = "package"
  OBVIOUS
<1>3. ASSUME <<"zero", "image">> = <<"zero", "package">>
      PROVE  FALSE
  <2>1. <<"zero", "image">>[2] = <<"zero", "package">>[2]
    BY <1>3, Zenon
  <2> QED
    BY <1>2, <2>1
<1> QED
  BY <1>1, <1>3

(* Once settled, a frame keeps its mappings and stays sealed or open.      *)
LEMMA SettledKept ==
  ASSUME TypeOK, Counting, Handing, Memory, Slotting, Contents, [Next]_vars,
         NEW f \in DOMAIN frames, Settled(f)
  PROVE  /\ frames'[f].maps = frames[f].maps
         /\ IsRam(f)' <=> IsRam(f)
         /\ Sealed(f)' <=> Sealed(f)
<1>1. memEnd' = memEnd
  BY DEF Next, vars, given, NextPhase, RetypeRootObject, MintRootObject, CreateVSpace,
         RetypeFrame, ClearFrame, MapPrivateFrame, FillImage, CreateCNode, GrantObject,
         GrantSelfCNode, OpenArena, GrantArenaFrame, CreateThread, MapSharedFrame,
         MapPackage, MapDeviceFrame, MakeReady, EnterFirstThread, Panic
<1>2. CASE FillImage
  <2>1. /\ frames'[f].maps = frames[f].maps /\ frames'[f].base = frames[f].base
        /\ \/ frames'[f].content = frames[f].content
           \/ frames[f].content = <<"zero">> /\ frames'[f].content = <<"zero", "image">>
    BY <1>2, Filled DEF Slotting
  <2>2. IsRam(f)' <=> IsRam(f)
    BY <1>1, <2>1 DEF IsRam
  <2> QED
    BY <2>1, <2>2, PackageIsOther DEF Sealed
<1>3. CASE ~FillImage
  <2>1. frames'[f] = frames[f]
    <3>1. CASE RetypeFrame
      BY <3>1, RetypedFrame
    <3>2. CASE ClearFrame
      <4>1. /\ stage = "clear" /\ ThisFrame = Len(frames)
            /\ frames' = [frames EXCEPT ![ThisFrame].content = <<"zero">>]
        BY <3>2, HandedFrame DEF ClearFrame, Cleared
      <4> QED
        BY <4>1 DEF Settled, TypeOK
    <3>3. CASE MapPrivateFrame \/ MapSharedFrame \/ MapPackage
      BY <3>3, HandedOver DEF Settled
    <3>4. CASE MapDeviceFrame
      BY <3>4, MappedDevice
    <3>5. CASE \/ NextPhase \/ RetypeRootObject \/ MintRootObject \/ CreateVSpace
               \/ CreateCNode \/ GrantObject \/ GrantSelfCNode \/ OpenArena
               \/ GrantArenaFrame \/ CreateThread \/ MakeReady \/ EnterFirstThread
               \/ Panic \/ UNCHANGED vars
      <4>1. frames' = frames
        BY <3>5
        DEF vars, objects, NextPhase, RetypeRootObject, MintRootObject, CreateVSpace,
            CreateCNode, GrantObject, GrantSelfCNode, OpenArena, GrantArenaFrame,
            CreateThread, MakeReady, EnterFirstThread, Panic
      <4> QED
        BY <4>1
    <3> QED
      BY <1>3, <3>1, <3>2, <3>3, <3>4, <3>5 DEF Next
  <2> QED
    BY <1>1, <2>1 DEF IsRam, Sealed
<1> QED
  BY <1>2, <1>3

(* Root's capability to a settled frame is neither made nor dropped.       *)
LEMMA RootHoldsKept ==
  ASSUME TypeOK, Counting, Handing, Slotting, [Next]_vars,
         NEW f \in DOMAIN frames, Settled(f)
  PROVE  RootHolds(f)' <=> RootHolds(f)
<1>1. ASSUME NEW s \in Slots
      PROVE  root'[s] = Cap("Frame", f) <=> root[s] = Cap("Frame", f)
  <2>1. Cap("Frame", f).kind = "Frame" /\ Cap("Frame", f).obj = f
    BY CapFacts
  <2>2. CASE BetweenFrames
    <3>1. root'[s] = root[s] \/ (root[s] = Empty /\ root'[s].kind # "Frame")
      BY <2>2, RootGrowsStep DEF RootGrows
    <3> QED
      BY <2>1, <3>1 DEF Empty
  <2>3. CASE RetypeFrame
    <3>1. CASE s = FrameSlot
      <4>1. root[s] = Empty /\ root'[s] = Cap("Frame", Len(frames) + 1)
        BY <2>3, <3>1, RetypedSlot
      <4>2. root'[s].obj = Len(frames) + 1
        BY <4>1, CapFacts
      <4>3. f # Len(frames) + 1
        BY LenProperties DEF TypeOK
      <4> QED
        BY <2>1, <4>1, <4>2, <4>3 DEF Empty
    <3>2. CASE s # FrameSlot
      BY <2>3, <3>2, RetypedSlot
    <3> QED
      BY <3>1, <3>2
  <2>4. CASE GrantArenaFrame \/ MapPackage
    <3>1. /\ stage = "give" /\ root[loc.frame] = Cap("Frame", Len(frames))
          /\ root'[s] = IF s = loc.frame THEN Empty ELSE root[s]
      BY <2>4, DroppedSlot
    <3>2. CASE s = loc.frame
      <4>1. root'[s] = Empty /\ root[s].obj = Len(frames) /\ f # Len(frames)
        BY <3>1, <3>2, CapFacts DEF Settled
      <4> QED
        BY <2>1, <4>1 DEF Empty
    <3>3. CASE s # loc.frame
      BY <3>1, <3>3
    <3> QED
      BY <3>2, <3>3
  <2>5. CASE ClearFrame \/ MapPrivateFrame \/ MapSharedFrame \/ Panic \/ UNCHANGED vars
    <3>1. root' = root
      BY <2>5 DEF ClearFrame, MapPrivateFrame, MapSharedFrame, Panic, vars
    <3> QED
      BY <3>1
  <2> QED
    BY <2>2, <2>3, <2>4, <2>5 DEF Next, BetweenFrames
<1> QED
  BY <1>1 DEF RootHolds

(* Where an arena frame is put: one empty slot of the new program's CSpace.*)
LEMMA ArenaFrameAt ==
  ASSUME TypeOK, Handing, Slotting, GrantArenaFrame
  PROVE  /\ DOMAIN spaces' = DOMAIN spaces /\ Len(spaces) \in DOMAIN spaces
         /\ \E dest \in Slots :
              /\ spaces[Len(spaces)][dest] = Empty
              /\ \A q \in DOMAIN spaces : \A t \in Slots :
                   spaces'[q][t] = IF q = Len(spaces) /\ t = dest
                                   THEN Cap("Frame", Len(frames)) ELSE spaces[q][t]
<1>1. /\ HasCNode /\ Naming /\ loc.frame \in Slots
      /\ root[loc.frame] = Cap("Frame", Len(frames))
      /\ CopyCross(loc.frame, Arena.frameBase + i - 1)
  BY DroppedSlot DEF GrantArenaFrame, HasCNode, At, Slotting
<1> QED
  BY <1>1, CopyAt

(* Nor is a program's.                                                     *)
LEMMA HoldsKept ==
  ASSUME TypeOK, Counting, Handing, Slotting, [Next]_vars,
         NEW f \in DOMAIN frames, Settled(f)
  PROVE  /\ Unheld(f) => Unheld(f)'
         /\ HeldOnce(f) => HeldOnce(f)'
<1>1. /\ DOMAIN spaces \subseteq DOMAIN spaces'
      /\ \A q \in DOMAIN spaces' : \A t \in Slots :
           Holds(q, t, f)' => q \in DOMAIN spaces /\ Holds(q, t, f)
      /\ \A q \in DOMAIN spaces : \A t \in Slots : Holds(q, t, f) => Holds(q, t, f)'
  <2>1. CASE GrantArenaFrame
    <3>1. DOMAIN spaces' = DOMAIN spaces /\ stage = "give"
      BY <2>1, ArenaFrameAt DEF GrantArenaFrame
    <3>2. PICK dest \in Slots :
            /\ spaces[Len(spaces)][dest] = Empty
            /\ \A q \in DOMAIN spaces : \A t \in Slots :
                 spaces'[q][t] = IF q = Len(spaces) /\ t = dest
                                 THEN Cap("Frame", Len(frames)) ELSE spaces[q][t]
      BY <2>1, ArenaFrameAt
    <3>3. f # Len(frames)
      BY <3>1 DEF Settled
    <3>4. ASSUME NEW q \in DOMAIN spaces, NEW t \in Slots
          PROVE  Holds(q, t, f)' <=> Holds(q, t, f)
      <4>1. CASE q = Len(spaces) /\ t = dest
        <5>1. spaces'[q][t] = Cap("Frame", Len(frames)) /\ spaces[q][t] = Empty
          BY <3>2, <4>1
        <5> QED
          BY <3>3, <5>1, CapFacts DEF Holds, Empty
      <4>2. CASE ~(q = Len(spaces) /\ t = dest)
        BY <3>2, <4>2 DEF Holds
      <4> QED
        BY <4>1, <4>2
    <3> QED
      BY <3>1, <3>4
  <2>2. CASE ~GrantArenaFrame
    <3>1. SameHeld
      BY <2>2, SameHeldStep
    <3> QED
      BY <3>1 DEF SameHeld, Holds
  <2> QED
    BY <2>1, <2>2
<1>2. Unheld(f) => Unheld(f)'
  BY <1>1 DEF Unheld
<1>3. ASSUME HeldOnce(f)
      PROVE  HeldOnce(f)'
  <2>1. PICK p \in DOMAIN spaces, s \in Slots :
          \A q \in DOMAIN spaces : \A t \in Slots : Holds(q, t, f) <=> q = p /\ t = s
    BY <1>3 DEF HeldOnce
  <2>2. p \in DOMAIN spaces'
    BY <1>1
  <2>3. \A q \in DOMAIN spaces' : \A t \in Slots : Holds(q, t, f)' <=> q = p /\ t = s
    BY <1>1, <2>1
  <2> QED
    BY <2>2, <2>3 DEF HeldOnce
<1> QED
  BY <1>2, <1>3

(* A wire is wired to somebody.                                            *)
LEMMA WireReaches ==
  ASSUME TypeOK, Counting, pc = "wire", i <= Rounds, NEW perms
  PROVE  Range(Places(perms)) # {}
<1>1. i \in DOMAIN demo.wires /\ Wire.to \in Seq([prog : Nat, vaddr : Nat])
  BY WireFacts DEF Wirings
<1>2. Wire.to # <<>>
  BY <1>1, DemoFacts DEF IsDescription, Wire
<1>3. 1 \in DOMAIN Wire.to
  BY <1>1, <1>2
<1>4. 1 \in DOMAIN Places(perms)
  BY <1>3 DEF Places
<1> QED
  BY <1>4 DEF Range

(* Nobody but root names the frame being handed over.                      *)
LEMMA GivenUnheld ==
  ASSUME TypeOK, Slotting, stage # "retype"
  PROVE  Unheld(Len(frames))
BY DEF Slotting, FrameCaps, Unheld, Holds, Settled

(* When root drops its capability, it is the only one root had.            *)
LEMMA GivenDropped ==
  ASSUME TypeOK, Handing, Slotting, GrantArenaFrame \/ MapPackage
  PROVE  \A s \in Slots : root'[s] # Cap("Frame", Len(frames))
<1> SUFFICES ASSUME NEW s \in Slots, root'[s] = Cap("Frame", Len(frames))
             PROVE  FALSE
  OBVIOUS
<1>1. /\ stage # "retype"
      /\ root'[s] = IF s = loc.frame THEN Empty ELSE root[s]
  BY DroppedSlot
<1>2. s # loc.frame /\ root[s] = Cap("Frame", Len(frames))
  BY <1>1 DEF Cap, Empty
<1> QED
  BY <1>1, <1>2 DEF Slotting, FrameCaps

(* A frame just mapped: root alone keeps a capability to it, except to the *)
(* package.                                                                *)
LEMMA MappedCustody ==
  ASSUME TypeOK, Counting, Handing, Memory, Slotting, Contents,
         MapPrivateFrame \/ MapSharedFrame \/ MapPackage
  PROVE  CustodyOf(Len(frames))'
<1>1. /\ Len(frames) \in DOMAIN frames /\ Len(frames') = Len(frames)
      /\ IsRam(Len(frames))' /\ stage = "give"
      /\ frames'[Len(frames)].content =
           IF MapPackage THEN <<"zero", "package">> ELSE <<"zero">>
      /\ frames'[Len(frames)].maps =
           IF MapPrivateFrame THEN {PrivatePlace}
           ELSE Range(Places(IF MapSharedFrame THEN SharedPerms ELSE PackagePerms))
  BY HandedOver
<1>2. frames'[Len(frames')].maps # {}
  <2>1. CASE MapPrivateFrame
    BY <1>1, <2>1
  <2>2. CASE ~MapPrivateFrame
    <3>1. pc = "wire" /\ i <= Rounds
      BY <2>2 DEF MapSharedFrame, MapPackage, At
    <3> QED
      BY <1>1, <2>2, <3>1, WireReaches
  <2> QED
    BY <2>1, <2>2
<1>3. Unheld(Len(frames))'
  <2>1. spaces' = spaces
    BY DEF MapPrivateFrame, MapSharedFrame, MapPackage
  <2> QED
    BY <1>1, <2>1, GivenUnheld DEF Unheld, Holds
<1>4. CASE MapPackage
  <2>1. Sealed(Len(frames))'
    BY <1>1, <1>4 DEF Sealed
  <2>2. ~RootHolds(Len(frames))'
    BY <1>1, <1>4, GivenDropped DEF RootHolds
  <2>3. \A m \in frames'[Len(frames')].maps : "W" \notin m.perms
    <3>1. pc = "wire" /\ i <= Rounds /\ ~MapPrivateFrame /\ ~MapSharedFrame /\ Naming
      BY <1>4 DEF MapPackage, MapPrivateFrame, MapSharedFrame, At, Slotting
    <3>2. \A m \in Range(Places(PackagePerms)) : m.perms = PackagePerms
      BY <3>1, PlaceFacts
    <3> QED
      BY <1>1, <3>1, <3>2 DEF PackagePerms
  <2> QED
    BY <1>2, <1>3, <2>1, <2>2, <2>3 DEF CustodyOf
<1>5. CASE ~MapPackage
  <2>1. ~Sealed(Len(frames))'
    BY <1>1, <1>5, PackageIsOther DEF Sealed, IsRam
  <2>2. RootHolds(Len(frames))'
    <3>1. root' = root /\ root[loc.frame] = Cap("Frame", Len(frames)) /\ loc.frame \in Slots
      BY <1>1, <1>5 DEF MapPrivateFrame, MapSharedFrame, Handing, TypeOK
    <3> QED
      BY <1>1, <3>1 DEF RootHolds
  <2> QED
    BY <1>2, <1>3, <2>1, <2>2 DEF CustodyOf
<1> QED
  BY <1>4, <1>5

(* An arena frame just granted: its program holds it, at one slot.         *)
LEMMA ArenaCustody ==
  ASSUME TypeOK, Handing, Memory, Slotting, Contents, GrantArenaFrame
  PROVE  CustodyOf(Len(frames))'
<1>1. stage = "give" /\ frames' = frames
  BY DEF GrantArenaFrame
<1>2. frames'[Len(frames')].maps = {}
  BY <1>1, Given
<1>3. ~RootHolds(Len(frames))'
  BY <1>1, GivenDropped DEF RootHolds
<1>4. HeldOnce(Len(frames))'
  <2>1. DOMAIN spaces' = DOMAIN spaces /\ Len(spaces) \in DOMAIN spaces
    BY ArenaFrameAt
  <2>2. PICK dest \in Slots :
          /\ spaces[Len(spaces)][dest] = Empty
          /\ \A q \in DOMAIN spaces : \A t \in Slots :
               spaces'[q][t] = IF q = Len(spaces) /\ t = dest
                               THEN Cap("Frame", Len(frames)) ELSE spaces[q][t]
    BY ArenaFrameAt
  <2>3. ASSUME NEW q \in DOMAIN spaces', NEW t \in Slots
        PROVE  Holds(q, t, Len(frames))' <=> q = Len(spaces) /\ t = dest
    <3>1. ~Holds(q, t, Len(frames))
      BY <1>1, <2>1, GivenUnheld DEF Unheld
    <3>2. CASE q = Len(spaces) /\ t = dest
      <4>1. spaces'[q][t] = Cap("Frame", Len(frames))
        BY <2>1, <2>2, <3>2
      <4> QED
        BY <1>1, <3>2, <4>1, CapFacts DEF Holds
    <3>3. CASE ~(q = Len(spaces) /\ t = dest)
      <4>1. spaces'[q][t] = spaces[q][t]
        BY <2>1, <2>2, <3>3
      <4> QED
        BY <1>1, <3>1, <3>3, <4>1 DEF Holds
    <3> QED
      BY <3>2, <3>3
  <2>4. Len(spaces) \in DOMAIN spaces'
    BY <2>1
  <2>5. \E p \in DOMAIN spaces' : \E s \in Slots : \A q \in DOMAIN spaces' : \A t \in Slots :
          Holds(q, t, Len(frames))' <=> q = p /\ t = s
    BY <2>3, <2>4, Zenon
  <2> QED
    BY <2>5, Zenon DEF HeldOnce
<1> QED
  BY <1>2, <1>3, <1>4 DEF CustodyOf

(* A device frame just mapped: nobody names it any more.                   *)
LEMMA DeviceCustody ==
  ASSUME TypeOK, Counting, Handing, Memory, Slotting, MapDeviceFrame
  PROVE  CustodyOf(Len(frames))'
<1>1. /\ Len(frames') = Len(frames) + 1 /\ ~IsRam(Len(frames))'
      /\ frames'[Len(frames')].maps = Range(Places(DevicePerms))
      /\ pc = "wire" /\ i <= Rounds
  BY MappedDevice
<1>2. Len(frames') \notin DOMAIN frames
  BY <1>1, LenProperties DEF TypeOK
<1>3. frames'[Len(frames')].maps # {}
  BY <1>1, WireReaches
<1>4. root' = root /\ spaces' = spaces
  BY DeviceLeavesRoot DEF MapDeviceFrame
<1>5. ~RootHolds(Len(frames))'
  <2>1. \A s \in Slots : root[s] # Cap("Frame", Len(frames'))
    BY <1>2, CapFacts DEF Slotting, FrameCaps
  <2> QED
    BY <1>4, <2>1 DEF RootHolds
<1>6. Unheld(Len(frames))'
  BY <1>2, <1>4 DEF Slotting, FrameCaps, Unheld, Holds
<1>7. Sealed(Len(frames))'
  BY <1>1 DEF Sealed
<1> QED
  BY <1>1, <1>3, <1>5, <1>6, <1>7 DEF CustodyOf

(* Every step keeps Custody.                                               *)
LEMMA CustodyStep ==
  ASSUME TypeOK, Counting, Handing, Memory, Slotting, Contents, Custody, [Next]_vars
  PROVE  Custody'
<1> SUFFICES ASSUME NEW f \in DOMAIN frames', Settled(f)'
             PROVE  CustodyOf(f)'
  BY DEF Custody
<1>1. /\ Len(frames) \in Nat /\ DOMAIN frames = 1..Len(frames)
      /\ Len(frames') \in Nat /\ DOMAIN frames' = 1..Len(frames')
      /\ Len(frames') = IF RetypeFrame \/ MapDeviceFrame
                        THEN Len(frames) + 1 ELSE Len(frames)
  BY FramesLength
<1>2. CASE f \in DOMAIN frames /\ Settled(f)
  <2>1. CustodyOf(f)
    BY <1>2 DEF Custody
  <2>2. /\ frames'[f].maps = frames[f].maps
        /\ IsRam(f)' <=> IsRam(f)
        /\ Sealed(f)' <=> Sealed(f)
    BY <1>2, SettledKept
  <2>3. RootHolds(f)' <=> RootHolds(f)
    BY <1>2, RootHoldsKept
  <2>4. (Unheld(f) => Unheld(f)') /\ (HeldOnce(f) => HeldOnce(f)')
    BY <1>2, HoldsKept
  <2> QED
    BY <2>1, <2>2, <2>3, <2>4 DEF CustodyOf
<1>3. CASE f \in DOMAIN frames /\ ~Settled(f)
  <2>1. stage # "retype" /\ f = Len(frames)
    BY <1>3 DEF Settled
  <2>2. stage' = "retype" /\ Len(frames') = Len(frames)
    <3>1. ~RetypeFrame /\ ~MapDeviceFrame
      BY <2>1, BetweenFramesStage DEF RetypeFrame, BetweenFrames
    <3> QED
      BY <1>1, <2>1, <3>1 DEF Settled
  <2>3. ~BetweenFrames /\ ~RetypeFrame /\ ~ClearFrame /\ ~Panic /\ ~UNCHANGED vars
    BY <2>1, <2>2, BetweenFramesStage DEF RetypeFrame, ClearFrame, Panic, vars
  <2>4. CASE MapPrivateFrame \/ MapSharedFrame \/ MapPackage
    <3>1. CustodyOf(Len(frames))'
      BY <2>4, MappedCustody
    <3> QED
      BY <2>1, <2>2, <3>1
      DEF CustodyOf, RootHolds, Unheld, HeldOnce, Holds, Sealed, IsRam
  <2>5. CASE GrantArenaFrame
    <3>1. CustodyOf(Len(frames))'
      BY <2>5, ArenaCustody
    <3> QED
      BY <2>1, <2>2, <3>1
      DEF CustodyOf, RootHolds, Unheld, HeldOnce, Holds, Sealed, IsRam
  <2> QED
    BY <2>3, <2>4, <2>5 DEF Next, BetweenFrames
<1>4. CASE f \notin DOMAIN frames
  <2>1. f = Len(frames') /\ (RetypeFrame \/ MapDeviceFrame)
    BY <1>1, <1>4
  <2>2. ~RetypeFrame
    BY <2>1 DEF Settled, RetypeFrame
  <2>3. CustodyOf(Len(frames))'
    BY <2>1, <2>2, DeviceCustody
  <2> QED
    BY <2>1, <2>3
      DEF CustodyOf, RootHolds, Unheld, HeldOnce, Holds, Sealed, IsRam
<1> QED
  BY <1>2, <1>3, <1>4

-----------------------------------------------------------------------------
(* Declared.                                                               *)

(* A thread, once made, keeps its VSpace, and the wires are what they were.*)
LEMMA ThreadsKept ==
  ASSUME TypeOK, [Next]_vars
  PROVE  /\ demo' = demo /\ DOMAIN tcbs \subseteq DOMAIN tcbs'
         /\ \A k \in DOMAIN tcbs : tcbs'[k] = tcbs[k]
<1>1. demo' = demo
  BY DEF Next, vars, given, NextPhase, RetypeRootObject, MintRootObject, CreateVSpace,
         RetypeFrame, ClearFrame, MapPrivateFrame, FillImage, CreateCNode, GrantObject,
         GrantSelfCNode, OpenArena, GrantArenaFrame, CreateThread, MapSharedFrame,
         MapPackage, MapDeviceFrame, MakeReady, EnterFirstThread, Panic
<1>2. CASE CreateThread
  <2>1. \E t : tcbs' = Append(tcbs, t)
    BY <1>2 DEF CreateThread
  <2>2. tcbs \in Seq([cspace : Nat, vspace : Nat, vspaceCptr : Slots, arg0 : Nat])
    BY DEF TypeOK
  <2> QED
    BY <1>1, <2>1, <2>2
<1>3. CASE ~CreateThread
  <2>1. tcbs' = tcbs
    BY <1>3
    DEF Next, vars, objects, NextPhase, RetypeRootObject, MintRootObject, CreateVSpace,
        RetypeFrame, ClearFrame, MapPrivateFrame, FillImage, CreateCNode, GrantObject,
        GrantSelfCNode, OpenArena, GrantArenaFrame, MapSharedFrame, MapPackage,
        MapDeviceFrame, MakeReady, EnterFirstThread, Panic
  <2> QED
    BY <1>1, <2>1
<1> QED
  BY <1>2, <1>3

(* A frame keeps its mappings but for the step that hands it over.         *)
LEMMA MapsKept ==
  ASSUME TypeOK, Counting, Handing, Memory, Slotting, Contents, [Next]_vars,
         ~MapPrivateFrame, ~MapSharedFrame, ~MapPackage, NEW f \in DOMAIN frames
  PROVE  frames'[f].maps = frames[f].maps
<1>1. CASE Settled(f)
  BY <1>1, SettledKept
<1>2. CASE ~Settled(f)
  <2>1. stage # "retype" /\ f = Len(frames)
    BY <1>2 DEF Settled
  <2>2. ~BetweenFrames /\ ~RetypeFrame
    BY <2>1, BetweenFramesStage DEF RetypeFrame
  <2>3. CASE ClearFrame
    <3>1. /\ frames' = [frames EXCEPT ![ThisFrame].content = <<"zero">>]
          /\ ThisFrame = Len(frames) /\ ThisFrame \in 1..Len(frames)
          /\ frames[ThisFrame] \in Frames /\ frames \in Seq(Frames)
      BY <2>1, <2>3, HandedFrame DEF ClearFrame, Cleared, TypeOK
    <3> QED
      BY <2>1, <3>1 DEF Frames
  <2>4. CASE GrantArenaFrame \/ Panic \/ UNCHANGED vars
    <3>1. frames' = frames
      BY <2>4 DEF GrantArenaFrame, Panic, vars, objects
    <3> QED
      BY <3>1
  <2> QED
    BY <2>2, <2>3, <2>4 DEF Next, BetweenFrames
<1> QED
  BY <1>1, <1>2

(* What was declared stays declared.                                       *)
LEMMA DeclaredKept ==
  ASSUME TypeOK, [Next]_vars, NEW f, DeclaredOf(f), frames'[f].maps = frames[f].maps
  PROVE  DeclaredOf(f)'
<1>1. /\ demo' = demo /\ DOMAIN tcbs \subseteq DOMAIN tcbs'
      /\ \A k \in DOMAIN tcbs : tcbs'[k] = tcbs[k]
  BY ThreadsKept
<1>2. CASE \A m, n \in frames[f].maps : m.vspace = n.vspace
  BY <1>2 DEF DeclaredOf
<1>3. CASE \E w \in DOMAIN demo.wires : \A m \in frames[f].maps : DeclaredAt(w, m)
  <2>1. PICK w \in DOMAIN demo.wires : \A m \in frames[f].maps : DeclaredAt(w, m)
    BY <1>3
  <2>2. \A m \in frames[f].maps : DeclaredAt(w, m)'
    BY <1>1, <2>1 DEF DeclaredAt
  <2> QED
    BY <1>1, <2>1, <2>2 DEF DeclaredOf
<1> QED
  BY <1>2, <1>3 DEF DeclaredOf

(* A wire's frame is mapped where the wire says.                           *)
LEMMA WireDeclares ==
  ASSUME TypeOK, Counting, Naming, MapSharedFrame \/ MapPackage \/ MapDeviceFrame,
         NEW f, NEW perms, frames'[f].maps = Range(Places(perms))
  PROVE  DeclaredOf(f)'
<1>1. pc = "wire" /\ i <= Rounds /\ demo' = demo /\ tcbs' = tcbs
  BY DEF MapSharedFrame, MapPackage, MapDeviceFrame, At, given
<1>2. i \in DOMAIN demo.wires
  BY <1>1, WireFacts
<1>3. \A m \in Range(Places(perms)) : DeclaredAt(i, m)
  BY <1>1, PlaceFacts DEF DeclaredAt, Wire
<1>4. \A m \in frames'[f].maps : DeclaredAt(i, m)
  BY <1>3
<1>5. \E w \in DOMAIN demo'.wires : \A m \in frames'[f].maps : DeclaredAt(w, m)'
  <2>1. \A m : DeclaredAt(i, m) => \E k \in DOMAIN demo.wires[i].to :
           /\ demo.wires[i].to[k].prog \in DOMAIN tcbs
           /\ tcbs[demo.wires[i].to[k].prog].vspace = m.vspace
           /\ demo.wires[i].to[k].vaddr = m.vaddr
    BY DEF DeclaredAt
  <2> QED
    BY <1>1, <1>2, <1>4, <2>1 DEF DeclaredAt
<1> QED
  BY <1>5 DEF DeclaredOf

(* Every step keeps Declared.                                              *)
LEMMA DeclaredStep ==
  ASSUME TypeOK, Counting, Handing, Memory, Slotting, Contents, Declared, [Next]_vars
  PROVE  Declared'
<1> SUFFICES ASSUME NEW f \in DOMAIN frames'
             PROVE  DeclaredOf(f)'
  BY DEF Declared
<1>1. /\ Len(frames) \in Nat /\ DOMAIN frames = 1..Len(frames)
      /\ Len(frames') \in Nat /\ DOMAIN frames' = 1..Len(frames')
      /\ Len(frames') = IF RetypeFrame \/ MapDeviceFrame
                        THEN Len(frames) + 1 ELSE Len(frames)
  BY FramesLength
<1>2. Naming /\ \A g \in DOMAIN frames : DeclaredOf(g)
  BY DEF Slotting, Declared
<1>3. CASE MapPrivateFrame \/ MapSharedFrame \/ MapPackage
  <2>1. /\ DOMAIN frames' = DOMAIN frames
        /\ \A g \in DOMAIN frames : g # Len(frames) => frames'[g] = frames[g]
        /\ frames'[Len(frames)].maps =
             IF MapPrivateFrame THEN {PrivatePlace}
             ELSE Range(Places(IF MapSharedFrame THEN SharedPerms ELSE PackagePerms))
    BY <1>3, HandedOver
  <2>2. CASE f # Len(frames)
    BY <1>2, <2>1, <2>2, DeclaredKept
  <2>3. CASE f = Len(frames) /\ MapPrivateFrame
    BY <2>1, <2>3 DEF DeclaredOf
  <2>4. CASE f = Len(frames) /\ ~MapPrivateFrame
    <3>1. CASE MapSharedFrame
      BY <1>2, <2>1, <2>4, <3>1, WireDeclares
    <3>2. CASE ~MapSharedFrame
      BY <1>2, <1>3, <2>1, <2>4, <3>2, WireDeclares
    <3> QED
      BY <3>1, <3>2
  <2> QED
    BY <2>2, <2>3, <2>4
<1>4. CASE ~MapPrivateFrame /\ ~MapSharedFrame /\ ~MapPackage
  <2>1. CASE f \in DOMAIN frames
    BY <1>2, <1>4, <2>1, MapsKept, DeclaredKept
  <2>2. CASE f \notin DOMAIN frames
    <3>1. f = Len(frames') /\ (RetypeFrame \/ MapDeviceFrame)
      BY <1>1, <2>2
    <3>2. CASE RetypeFrame
      <4>1. frames'[f].maps = {}
        BY <3>1, <3>2, RetypedFrame
      <4> QED
        BY <4>1 DEF DeclaredOf
    <3>3. CASE MapDeviceFrame
      <4>1. frames'[f].maps = Range(Places(DevicePerms))
        BY <3>1, <3>3, MappedDevice
      <4> QED
        BY <1>2, <3>3, <4>1, WireDeclares
    <3> QED
      BY <3>1, <3>2, <3>3
  <2> QED
    BY <2>1, <2>2
<1> QED
  BY <1>3, <1>4

-----------------------------------------------------------------------------
(* The theorems.                                                           *)

LEMMA InitFInv ==
  ASSUME Init
  PROVE  FInv
<1>1. /\ frames = <<>> /\ spaces = <<>> /\ tcbs = <<>> /\ handles = <<>>
      /\ stage = "retype" /\ pc = "root" /\ nextSlot = 2
      /\ root = [s \in Slots |-> CASE s = SELF_CNODE_CPTR -> Cap("CNode", 0)
                                   [] s = UNTYPED_CPTR -> Cap("Untyped", 0)
                                   [] OTHER -> Empty]
  BY DEF Init
<1>2. Naming
  BY <1>1 DEF Naming, HasVSpace, HasCNode, LoadPhases
<1>3. \A s \in Slots : root[s].kind # "Frame" /\ (s >= 2 => root[s] = Empty)
  BY <1>1, CapFacts DEF Slots, SELF_CNODE_CPTR, UNTYPED_CPTR, Empty
<1>4. Fresh /\ FrameCaps
  BY <1>1, <1>3 DEF Fresh, FrameCaps
<1>5. Contents /\ Custody /\ Declared
  BY <1>1 DEF Contents, Custody, Declared
<1> QED
  BY <1>2, <1>4, <1>5 DEF FInv, Slotting

LEMMA StepFInv ==
  ASSUME IInv, FInv, [Next]_vars
  PROVE  FInv'
BY SlottingStep, ContentsStep, CustodyStep, DeclaredStep DEF IInv, FInv

(* Root's slots and every frame stay as FInv says, in every launch.        *)
THEOREM FrameInvariance == Spec => [](IInv /\ FInv)
BY InitIInv, StepIInv, InitFInv, StepFInv, PTL DEF Spec

(* No program ever sees or holds memory that was not cleared first, in any *)
(* launch on any machine (launch.rs, retype_frame's write_bytes).          *)
THEOREM VisibleIsCleared == Spec => []VisibleMemoryIsCleared
<1>1. ASSUME IInv, FInv
      PROVE  VisibleMemoryIsCleared
  <2> SUFFICES ASSUME NEW f \in DOMAIN frames
               PROVE  IF IsRam(f)
                      THEN Visible(f) => frames[f].content \in
                             {<<"zero">>, <<"zero", "image">>, <<"zero", "package">>}
                      ELSE frames[f].content = <<>>
    BY DEF VisibleMemoryIsCleared
  <2>1. ContentOf(f) /\ FrameCaps
    BY <1>1 DEF FInv, Contents, Slotting
  <2>2. Visible(f) => Settled(f)
    <3>1. frames[f].maps # {} => Settled(f)
      BY <2>1 DEF ContentOf
    <3>2. ASSUME NEW p \in DOMAIN spaces, HeldBy(p, f) # {}
          PROVE  Settled(f)
      BY <2>1, <3>2 DEF HeldBy, FrameCaps
    <3> QED
      BY <3>1, <3>2 DEF Visible
  <2> QED
    BY <2>1, <2>2 DEF ContentOf
<1> QED
  BY <1>1, FrameInvariance, PTL

(* Once handed over, a frame is named by exactly those the launcher meant: *)
(* an arena frame by one slot of one program, a package or device frame by *)
(* nobody, any other by root alone; and the package is writable nowhere.   *)
THEOREM CustodyHolds == Spec => []FrameCustody
<1>1. ASSUME IInv, FInv
      PROVE  FrameCustody
  <2> SUFFICES ASSUME stage = "retype", NEW f \in DOMAIN frames,
                      NEW holders, holders = {p \in DOMAIN spaces : HeldBy(p, f) # {}}
               PROVE  IF frames[f].maps = {}
                      THEN ~RootHolds(f) /\ \E p \in DOMAIN spaces :
                             holders = {p} /\ Cardinality(HeldBy(p, f)) = 1
                      ELSE /\ holders = {} /\ (Sealed(f) <=> ~RootHolds(f))
                           /\ IsRam(f) /\ Sealed(f) =>
                                \A m \in frames[f].maps : "W" \notin m.perms
    BY DEF FrameCustody, Sealed
  <2>1. CustodyOf(f)
    BY <1>1 DEF FInv, Custody, Settled
  <2>2. CASE frames[f].maps = {}
    <3>1. PICK p \in DOMAIN spaces, s \in Slots :
            \A q \in DOMAIN spaces : \A t \in Slots : Holds(q, t, f) <=> q = p /\ t = s
      BY <2>1, <2>2 DEF CustodyOf, HeldOnce
    <3>2. \A q \in DOMAIN spaces : HeldBy(q, f) = {t \in Slots : Holds(q, t, f)}
      BY DEF HeldBy, Holds
    <3>3. HeldBy(p, f) = {s} /\ \A q \in DOMAIN spaces : q # p => HeldBy(q, f) = {}
      BY <3>1, <3>2
    <3>4. holders = {p}
      BY <3>3
    <3>5. Cardinality(HeldBy(p, f)) = 1
      BY <3>3, FS_Singleton
    <3> QED
      BY <2>1, <2>2, <3>4, <3>5 DEF CustodyOf
  <2>3. CASE frames[f].maps # {}
    <3>1. holders = {}
      BY <2>1, <2>3 DEF CustodyOf, Unheld, HeldBy, Holds
    <3> QED
      BY <2>1, <2>3, <3>1 DEF CustodyOf
  <2> QED
    BY <2>2, <2>3
<1> QED
  BY <1>1, FrameInvariance, PTL

(* Two programs never see one frame but where the launch description wires *)
(* them together, each at the declared place.                              *)
THEOREM SharingHolds == Spec => []SharingIsDeclared
<1>1. ASSUME IInv, FInv
      PROVE  SharingIsDeclared
  <2> SUFFICES ASSUME NEW f \in DOMAIN frames, NEW m \in frames[f].maps,
                      NEW n \in frames[f].maps, m.vspace # n.vspace
               PROVE  \E w \in DOMAIN demo.wires :
                        \A x \in {m, n} : \E k \in DOMAIN demo.wires[w].to :
                          /\ tcbs[demo.wires[w].to[k].prog].vspace = x.vspace
                          /\ demo.wires[w].to[k].vaddr = x.vaddr
    BY DEF SharingIsDeclared
  <2>1. DeclaredOf(f)
    BY <1>1 DEF FInv, Declared
  <2>2. PICK w \in DOMAIN demo.wires : \A x \in frames[f].maps : DeclaredAt(w, x)
    BY <2>1 DEF DeclaredOf
  <2>3. DeclaredAt(w, m) /\ DeclaredAt(w, n)
    BY <2>2
  <2> QED
    BY <2>3 DEF DeclaredAt
<1> QED
  BY <1>1, FrameInvariance, PTL
=============================================================================
