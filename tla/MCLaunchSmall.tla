---------------------------- MODULE MCLaunchSmall ----------------------------
(* Every combination of a few program shapes and wirings, two programs on  *)
(* a machine so small that some of them exhaust each of its limits.        *)
EXTENDS LaunchDemand, LaunchDemos

Objects == <<Endpoint, Notification, Mint(1, "WRITE", 7)>>
AtStack == <<[vaddr |-> STACK_VADDR, perms |-> {"R", "X"}]>>
ArenaFrom(slot, n) == {[megapages |-> n, selfVSpace |-> 2, frameBase |-> slot]}

Plain == Program("plain", 0, Code, <<To(1, 1)>>)
Shapes ==
  {Plain,
   WithSelf(Program("self", 1, Code, <<To(1, 1), To(3, 2)>>)),
   WithHeap(Program("heap", 2, CodeAndData, <<To(2, 0)>>)),
   [Program("arena", 3, Code, <<To(3, 1)>>) EXCEPT !.arena = ArenaFrom(3, 1)],
   [WithHeap(Program("arenas", 4, Code, <<>>)) EXCEPT !.arena = ArenaFrom(0, 2)],
   [Program("clash", 5, Code, <<To(1, 4)>>) EXCEPT !.arena = ArenaFrom(3, 2)],
   Program("twice", 6, Code, <<To(1, 1), To(2, 1)>>),
   WithSelf(Program("self twice", 7, Code, <<To(1, 0)>>)),
   Program("stack", 8, AtStack, <<>>)}

SmallWirings ==
  {<<>>,
   <<Shared(1, FRAME_VADDR, 2, FRAME_VADDR)>>,
   <<Shared(2, FRAME_VADDR, 1, CLIENT_FRAME_VADDR_ON_STORE), Package(1, 2)>>,
   <<PolicyFlash(2), Package(2, 1), Shared(1, FRAME_VADDR, 2, FRAME_VADDR)>>,
   <<Package(1, 2), PolicyFlash(1)>>,
   <<Shared(1, FRAME_VADDR, 2, FRAME_VADDR), Shared(1, FRAME_VADDR + 1, 2, FRAME_VADDR)>>,
   <<Shared(1, FRAME_VADDR, 1, CLIENT_FRAME_VADDR_ON_STORE)>>}

Description(objs, specs, ws, rs) ==
  [name |-> "small", root |-> objs, programs |-> specs, wires |-> ws,
   ready |-> rs, first |-> Len(specs)]

(* The last three ask for too many objects, too many slots, and more       *)
(* CNodes than MaxCNodes leaves beside root's own.                         *)
MCDemos ==
  {Description(Objects, <<p, q>>, w, r) :
     p \in Shapes, q \in Shapes, w \in SmallWirings, r \in {<<1>>, <<1, 2>>}}
  \cup {Description([k \in 1..19 |-> Notification], <<Plain>>, <<>>, <<>>),
        Description([k \in 1..21 |-> IF k < 15 THEN Endpoint ELSE Mint(k - 14, "WRITE", k)],
                <<Plain>>, <<>>, <<>>),
        Description(<<Endpoint>>, <<Plain, Plain, Plain>>, <<>>, <<>>)}
MCRamEnds == {GENERAL_MEMORY_BASE + 6 * Mega + 17, GENERAL_MEMORY_BASE + 11 * Mega}
=============================================================================
