---------------------------- MODULE LaunchDemand ----------------------------
(***************************************************************************)
(* What a launch description asks of the machine, in closed form, as a     *)
(* reference for the launcher's own step by step behaviour.                *)
(***************************************************************************)
EXTENDS LaunchRefinement

Total(f) == FoldFunction(+, 0, f)
ArenaFrames(spec) == Total([a \in spec.arena |-> a.megapages])

FramesOf(spec) == Len(spec.image) + 1 + spec.heap + ArenaFrames(spec)
FrameDemand ==
  Total([p \in DOMAIN demo.programs |-> FramesOf(demo.programs[p])]) + Len(demo.wires)

(* VSpace, CNode, SchedContext and Tcb; a frame's slot unless it is an     *)
(* arena's, which share one.                                               *)
SlotsOf(spec) == 4 + Len(spec.image) + 1 + spec.heap + Cardinality(spec.arena)
WireSlots(w) == CASE w.op = "Shared" -> 1 [] w.op = "Package" -> 0 [] OTHER -> 2
WireNeeds(w) == IF w.op = "Package" THEN 1 ELSE WireSlots(w)
SlotsBeforeWire(k) ==
  2 + Len(demo.root)
    + Total([p \in DOMAIN demo.programs |-> SlotsOf(demo.programs[p])])
    + Total([j \in 1..(k - 1) |-> WireSlots(demo.wires[j])])
SlotsFit ==
  /\ SlotsBeforeWire(1) <= CNodeSlots
  /\ \A k \in DOMAIN demo.wires :
       SlotsBeforeWire(k) + WireNeeds(demo.wires[k]) <= CNodeSlots

(* A retype each for what is not minted, and for the four objects of a     *)
(* program; a device frame has an Untyped of its own.                      *)
RetypeDemand ==
  Cardinality({k \in DOMAIN demo.root : demo.root[k].op # "Mint"})
    + 4 * Len(demo.programs) + FrameDemand
    - Cardinality({k \in DOMAIN demo.wires : demo.wires[k].op = "Device"})

(* Programs take megapages only; the wires' frames follow in order, each   *)
(* aligned to its size.                                                    *)
WirePages(w) == IF w.op = "Shared" THEN Small ELSE Mega
MemoryAfter[k \in Nat] ==
  IF k = 0
  THEN GENERAL_MEMORY_BASE
       + Mega * Total([p \in DOMAIN demo.programs |-> FramesOf(demo.programs[p])])
  ELSE IF demo.wires[k].op = "Device" THEN MemoryAfter[k - 1]
  ELSE RoundUp(MemoryAfter[k - 1], WirePages(demo.wires[k])) + WirePages(demo.wires[k])

(* No two destination slots of a program coincide, and all exist.          *)
Destinations(spec) ==
  [k \in DOMAIN spec.grants |-> spec.grants[k].to]
DestinationsFit(spec) ==
  LET granted == Range(Destinations(spec))
      arena == UNION {{a.selfVSpace} \cup {a.frameBase + k : k \in 0..(a.megapages - 1)} :
                      a \in spec.arena}
  IN  /\ granted \cup spec.selfCNode \cup arena \subseteq Slots
      /\ IsInjective(Destinations(spec))
      /\ granted \cap spec.selfCNode = {} /\ arena \cap (granted \cup spec.selfCNode) = {}
      /\ Cardinality(arena) = ArenaFrames(spec) + Cardinality(spec.arena)

(* Every range of program p's address space the description maps, as       *)
(* [what, vaddr, pages]; no two overlap, nor any the kernel's megapages.   *)
Ranges(p) ==
  LET spec == demo.programs[p]
      Range3(what, vaddr, pages) == [what |-> what, vaddr |-> vaddr, pages |-> pages]
  IN {Range3(<<"image", k>>, spec.image[k].vaddr, Mega) : k \in DOMAIN spec.image}
     \cup {Range3(<<"stack", 0>>, STACK_VADDR, Mega)}
     \cup {Range3(<<"heap", k>>, HEAP_VADDR + k * Mega, Mega) : k \in 0..(spec.heap - 1)}
     \cup {Range3(<<"wire", 10 * w + k>>, demo.wires[w].to[k].vaddr,
                  WirePages(demo.wires[w])) :
           <<w, k>> \in {<<x, y>> \in (DOMAIN demo.wires) \X (1..MaxFrameMappings) :
                          y \in DOMAIN demo.wires[x].to /\ demo.wires[x].to[y].prog = p}}
RangesFit(p) ==
  \A x \in Ranges(p) :
    /\ \A k \in KernelShared : Apart(k, Mega, x.vaddr, x.pages)
    /\ \A y \in Ranges(p) \ {x} : Apart(x.vaddr, x.pages, y.vaddr, y.pages)

Fits ==
  /\ FrameDemand <= MaxFrames
  /\ Len(demo.programs) <= MaxVSpaces /\ Len(demo.programs) < MaxCNodes
  /\ SlotsFit
  /\ RetypeDemand <= UntypedBudget
  /\ MemoryAfter[Len(demo.wires)] <= memEnd
  /\ \A w \in DOMAIN demo.wires : Len(demo.wires[w].to) <= MaxFrameMappings
  /\ \A p \in DOMAIN demo.programs :
       DestinationsFit(demo.programs[p]) /\ RangesFit(p)

(* A launch panics exactly when its description asks for more than the     *)
(* machine has: no slot, frame, retype or page is lost on the way, and no  *)
(* collision of slots or addresses goes unnoticed.                         *)
PanicsOnlyWhenItMust ==
  /\ pc = "panicked" => ~Fits
  /\ pc = "running" => Fits

=============================================================================
