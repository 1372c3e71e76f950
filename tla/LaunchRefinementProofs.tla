----------------------- MODULE LaunchRefinementProofs -----------------------
(***************************************************************************)
(* Launch implements AbstractLaunch, for every launch description: what    *)
(* the program being loaded holds and sees is, at every step of load, what *)
(* its ProgramSpec declares up to there; no step touches a program already *)
(* loaded, but for the wires, which reach all their places at once.        *)
(***************************************************************************)
EXTENDS LaunchProofs, LaunchRefinement

-----------------------------------------------------------------------------
(* What a CSpace holds and what a VSpace maps, as AbstractLaunch sees it.  *)

Seen(slot, cap) ==
  [slot |-> slot, kind |-> cap.kind, obj |-> IF cap.kind = "Frame" THEN 0 ELSE cap.obj,
   rights |-> cap.rights, badge |-> cap.badge]
CapsAt(csps, c) == {Seen(s, csps[c][s]) : s \in {x \in Slots : csps[c][x] # Empty}}

Region(vaddr, pages, perms, content) ==
  [vaddr |-> vaddr, pages |-> pages, perms |-> perms, content |-> content]
RegionsOf(frame, v) ==
  {Region(m.vaddr, frame.pages, m.perms, frame.content) :
     m \in {x \in frame.maps : x.vspace = v}}
MemoryAt(frms, v) == UNION {RegionsOf(frms[f], v) : f \in DOMAIN frms}

(* The capability run keeps of root object k.                              *)
Source(d, k) == IF d.root[k].op = "Mint" THEN d.root[k].src ELSE k
RootCap(d, k) ==
  [kind |-> d.root[Source(d, k)].op, obj |-> Source(d, k),
   rights |-> d.root[k].rights, badge |-> d.root[k].badge]

(* What ProgramSpec p declares, up to so many rounds of each loop of load: *)
(* the grants, its own CSpace and VSpace, the arena's frames ...           *)
GrantsUpTo(d, p, n) ==
  {Seen(d.programs[p].grants[k].to, RootCap(d, d.programs[p].grants[k].from)) : k \in 1..n}
SelfUpTo(d, p, n) ==
  {Seen(s, Cap("CNode", p)) : s \in IF n > 0 THEN d.programs[p].selfCNode ELSE {}}
ArenaUpTo(d, p, n) ==
  {Seen(a.selfVSpace, Cap("VSpace", p)) : a \in IF n > 0 THEN d.programs[p].arena ELSE {}}
ArenaFramesUpTo(d, p, n) ==
  UNION {{Seen(s, Cap("Frame", 0)) : s \in a.frameBase..(a.frameBase + n - 1)} :
           a \in d.programs[p].arena}
AuthorityUpTo(d, p, grants, self, arena, megapages) ==
  GrantsUpTo(d, p, grants) \cup SelfUpTo(d, p, self) \cup ArenaUpTo(d, p, arena)
    \cup ArenaFramesUpTo(d, p, megapages)

(* ... and the image, with this content, the stack and the heap.           *)
ImageUpTo(d, p, n, content) ==
  {Region(d.programs[p].image[k].vaddr, Mega, d.programs[p].image[k].perms, content) :
     k \in 1..n}
StackUpTo(n) ==
  {Region(v, Mega, {"R", "W"}, <<"zero">>) : v \in IF n > 0 THEN {STACK_VADDR} ELSE {}}
HeapUpTo(n) ==
  {Region(HEAP_VADDR + k * Mega, Mega, {"R", "W"}, <<"zero">>) : k \in 0..(n - 1)}
MemoryUpTo(d, p, image, content, stack, heap) ==
  ImageUpTo(d, p, image, content) \cup StackUpTo(stack) \cup HeapUpTo(heap)

-----------------------------------------------------------------------------
(* The inductive invariant.                                                *)

(* How many rounds of load's loops are behind the program at hand.         *)
ArenaSize == IF This.arena = {} THEN 0 ELSE Arena.megapages
GrantsBehind ==
  CASE pc = "cnode" -> 0 [] pc = "grants" -> i - 1 [] OTHER -> Len(This.grants)
SelfBehind ==
  CASE pc \in {"cnode", "grants"} -> 0
    [] pc = "self" -> i - 1
    [] OTHER -> Cardinality(This.selfCNode)
ArenaBehind ==
  CASE pc \in {"cnode", "grants", "self"} -> 0
    [] pc = "scratch" -> i - 1
    [] OTHER -> Cardinality(This.arena)
FramesBehind == CASE pc = "arena" -> i - 1 [] pc = "tcb" -> ArenaSize [] OTHER -> 0
ImageBehind ==
  CASE pc = "vspace" -> 0 [] pc = "image" -> i - 1 [] OTHER -> Len(This.image)
ImageContent == IF Unfilled THEN <<"zero">> ELSE <<"zero", "image">>
StackBehind ==
  CASE pc \in {"vspace", "image", "fill"} -> 0 [] pc = "stack" -> i - 1 [] OTHER -> 1
HeapBehind ==
  CASE pc \in {"vspace", "image", "fill", "stack"} -> 0
    [] pc = "heap" -> i - 1
    [] OTHER -> This.heap

(* No loop overshoots; program p has VSpace p and CSpace p.                *)
Bounded == pc \in DOMAIN Then => i <= Rounds + 1
Numbered ==
  /\ pc \in LoadPhases \cup {"root"} =>
       /\ vspaces = IF HasVSpace THEN prog ELSE prog - 1
       /\ Len(spaces) = IF HasCNode THEN prog ELSE prog - 1
  /\ \A k \in DOMAIN tcbs : tcbs[k].cspace = k /\ tcbs[k].vspace = k

(* run's variables name the root objects; a frame has the size asked for.  *)
Handled == \A k \in DOMAIN handles : root[handles[k]] = RootCap(demo, k)
Sized == stage # "retype" /\ NeedsFrame => frames[Len(frames)].pages = FramePages

(* The program at hand has been given what it was to be given so far.      *)
Endowed ==
  HasCNode => CapsAt(spaces, prog) =
                AuthorityUpTo(demo, prog, GrantsBehind, SelfBehind, ArenaBehind, FramesBehind)
Furnished ==
  HasVSpace => MemoryAt(frames, prog) =
                 MemoryUpTo(demo, prog, ImageBehind, ImageContent, StackBehind, HeapBehind)

RInv == Bounded /\ Numbered /\ Handled /\ Sized /\ Endowed /\ Furnished

-----------------------------------------------------------------------------
(* The sets above, one element at a time.                                  *)

(* A capability copied into an empty slot is the one more that is held.    *)
LEMMA CapsGain ==
  ASSUME NEW S, NEW T, NEW c, NEW dest \in Slots, NEW cap,
         S[c][dest] = Empty, cap # Empty,
         \A s \in Slots : T[c][s] = IF s = dest THEN cap ELSE S[c][s]
  PROVE  CapsAt(T, c) = CapsAt(S, c) \cup {Seen(dest, cap)}
<1> DEFINE Full(csps) == {x \in Slots : csps[c][x] # Empty}
<1>1. Full(T) = Full(S) \cup {dest}
  OBVIOUS
<1>2. \A s \in Full(S) : T[c][s] = S[c][s]
  OBVIOUS
<1>3. T[c][dest] = cap
  OBVIOUS
<1>4. CapsAt(T, c) = {Seen(s, T[c][s]) : s \in Full(T)}
      /\ CapsAt(S, c) = {Seen(s, S[c][s]) : s \in Full(S)}
  BY DEF CapsAt
<1> HIDE DEF Full
<1> QED
  BY <1>1, <1>2, <1>3, <1>4

(* A CSpace that stays as it is holds what it held.                        *)
LEMMA CapsKept ==
  ASSUME NEW S, NEW T, NEW c, \A s \in Slots : T[c][s] = S[c][s]
  PROVE  CapsAt(T, c) = CapsAt(S, c)
BY DEF CapsAt

(* When one frame is new, or was mapped nowhere, its regions are all that  *)
(* can be reached in addition.                                             *)
OneMore(F, G, f) ==
  /\ f \in DOMAIN G /\ DOMAIN G = DOMAIN F \cup {f}
  /\ \A g \in DOMAIN F : g # f => G[g] = F[g]
  /\ f \in DOMAIN F => F[f].maps = {}

LEMMA MemoryGain ==
  ASSUME NEW F, NEW G, NEW f, NEW v, OneMore(F, G, f)
  PROVE  MemoryAt(G, v) = MemoryAt(F, v) \cup RegionsOf(G[f], v)
<1>0. /\ f \in DOMAIN G /\ DOMAIN G = DOMAIN F \cup {f}
      /\ \A g \in DOMAIN F : g # f => G[g] = F[g]
      /\ f \in DOMAIN F => F[f].maps = {}
  BY DEF OneMore
<1>1. f \in DOMAIN F => RegionsOf(F[f], v) = {}
  BY <1>0 DEF RegionsOf
<1>2. \A g \in DOMAIN F : g # f => RegionsOf(G[g], v) = RegionsOf(F[g], v)
  BY <1>0
<1>3. ASSUME NEW r \in MemoryAt(G, v)
      PROVE  r \in MemoryAt(F, v) \cup RegionsOf(G[f], v)
  <2>1. PICK g \in DOMAIN G : r \in RegionsOf(G[g], v)
    BY <1>3 DEF MemoryAt
  <2> QED
    BY <1>0, <1>2, <2>1 DEF MemoryAt
<1>4. ASSUME NEW r \in MemoryAt(F, v)
      PROVE  r \in MemoryAt(G, v)
  <2>1. PICK g \in DOMAIN F : r \in RegionsOf(F[g], v)
    BY <1>4 DEF MemoryAt
  <2>2. g \in DOMAIN G /\ r \in RegionsOf(G[g], v)
    BY <1>0, <1>1, <1>2, <2>1
  <2> QED
    BY <2>2 DEF MemoryAt
<1>5. RegionsOf(G[f], v) \subseteq MemoryAt(G, v)
  BY <1>0 DEF MemoryAt
<1> QED
  BY <1>3, <1>4, <1>5

(* When no frame's regions change, neither does what can be reached.       *)
LEMMA MemoryKept ==
  ASSUME NEW F, NEW G, NEW v, DOMAIN G = DOMAIN F,
         \A f \in DOMAIN F : RegionsOf(G[f], v) = RegionsOf(F[f], v)
  PROVE  MemoryAt(G, v) = MemoryAt(F, v)
BY DEF MemoryAt

(* The regions of a frame mapped at one place, or nowhere.                 *)
LEMMA RegionsAtOne ==
  ASSUME NEW frame, NEW m, NEW v
  PROVE  /\ frame.maps = {m} =>
              RegionsOf(frame, v) =
                IF m.vspace = v THEN {Region(m.vaddr, frame.pages, m.perms, frame.content)}
                ELSE {}
         /\ frame.maps = {} => RegionsOf(frame, v) = {}
<1>1. CASE m.vspace = v
  <2>1. frame.maps = {m} => {x \in frame.maps : x.vspace = v} = {m}
    BY <1>1
  <2> QED
    BY <1>1, <2>1 DEF RegionsOf
<1>2. CASE m.vspace # v
  <2>1. frame.maps = {m} => {x \in frame.maps : x.vspace = v} = {}
    BY <1>2
  <2> QED
    BY <1>2, <2>1 DEF RegionsOf
<1> QED
  BY <1>1, <1>2

(* The optional parts of a ProgramSpec are there or not.                   *)
LEMMA OptionFacts ==
  ASSUME TypeOK
  PROVE  /\ \/ This.selfCNode = {} /\ Cardinality(This.selfCNode) = 0
            \/ /\ Cardinality(This.selfCNode) = 1
               /\ \A s \in This.selfCNode : This.selfCNode = {s}
         /\ \/ This.arena = {} /\ Cardinality(This.arena) = 0
            \/ /\ This.arena = {Arena} /\ Cardinality(This.arena) = 1
               /\ Arena.megapages \in Nat /\ Arena.frameBase \in Nat
         /\ This.image \in Seq([vaddr : Nat, perms : SUBSET Perms])
         /\ This.grants \in Seq([from : Nat, to : Nat])
         /\ This.heap \in Nat /\ ArenaSize \in Nat
<1>1. /\ This \in ProgramSpecs
      /\ \A a, b \in This.arena : a = b
      /\ \A a, b \in This.selfCNode : a = b
  BY DemoFacts DEF IsDescription, This
<1>2. ASSUME NEW S, \A a, b \in S : a = b
      PROVE  \/ S = {} /\ Cardinality(S) = 0
             \/ /\ Cardinality(S) = 1 /\ S # {}
                /\ \A s \in S : S = {s}
  <2>1. CASE S = {}
    BY <2>1, FS_EmptySet
  <2>2. CASE S # {}
    <3>1. PICK a \in S : S = {a}
      BY <1>2, <2>2
    <3>2. Cardinality({a}) = 1
      BY FS_Singleton
    <3>3. Cardinality(S) = 1
      BY <3>1, <3>2, Zenon
    <3> QED
      BY <2>2, <3>1, <3>3
  <2> QED
    BY <2>1, <2>2
<1>3. This.arena # {} =>
        Arena \in This.arena /\ Arena.megapages \in Nat /\ Arena.frameBase \in Nat
  BY <1>1 DEF Arena, ProgramSpecs
<1>4. /\ This.image \in Seq([vaddr : Nat, perms : SUBSET Perms])
      /\ This.grants \in Seq([from : Nat, to : Nat])
      /\ This.heap \in Nat
  BY <1>1 DEF ProgramSpecs
<1>5. \/ This.selfCNode = {} /\ Cardinality(This.selfCNode) = 0
      \/ /\ Cardinality(This.selfCNode) = 1
         /\ \A s \in This.selfCNode : This.selfCNode = {s}
  BY <1>1, <1>2
<1>6. \/ This.arena = {} /\ Cardinality(This.arena) = 0
      \/ This.arena = {Arena} /\ Cardinality(This.arena) = 1 /\ This.arena # {}
  BY <1>1, <1>2, <1>3
<1> QED
  BY <1>3, <1>4, <1>5, <1>6 DEF ArenaSize

-----------------------------------------------------------------------------
(* Where the loops are.                                                    *)

(* Every step is one to the next phase, one within a round, the end of a   *)
(* round, or the end of the launch.                                        *)
InRound == RetypeFrame \/ ClearFrame \/ UNCHANGED vars
EndsRound ==
  \/ RetypeRootObject \/ MintRootObject \/ CreateVSpace \/ MapPrivateFrame \/ FillImage
  \/ CreateCNode \/ GrantObject \/ GrantSelfCNode \/ OpenArena \/ GrantArenaFrame
  \/ CreateThread \/ MapSharedFrame \/ MapPackage \/ MapDeviceFrame \/ MakeReady

LEMMA StepKinds ==
  ASSUME [Next]_vars
  PROVE  /\ demo' = demo
         /\ NextPhase \/ InRound \/ EndsRound \/ EnterFirstThread \/ Panic
         /\ InRound => pc' = pc /\ i' = i /\ prog' = prog
         /\ EndsRound => pc' = pc /\ i' = i + 1 /\ prog' = prog /\ i <= Rounds
<1>1. NextPhase \/ InRound \/ EndsRound \/ EnterFirstThread \/ Panic
  BY DEF Next, InRound, EndsRound
<1>2. InRound => pc' = pc /\ i' = i /\ prog' = prog /\ demo' = demo
  BY DEF InRound, RetypeFrame, ClearFrame, vars, given
<1>3. EndsRound => pc' = pc /\ i' = i + 1 /\ prog' = prog /\ i <= Rounds /\ demo' = demo
  BY DEF EndsRound, RetypeRootObject, MintRootObject, CreateVSpace, MapPrivateFrame,
         FillImage, CreateCNode, GrantObject, GrantSelfCNode, OpenArena, GrantArenaFrame,
         CreateThread, MapSharedFrame, MapPackage, MapDeviceFrame, MakeReady, At,
         NextRound, given
<1>4. NextPhase \/ EnterFirstThread \/ Panic => demo' = demo
  BY DEF NextPhase, EnterFirstThread, Panic, given
<1> QED
  BY <1>1, <1>2, <1>3, <1>4

(* The bounds of the next loop are natural numbers too.                    *)
LEMMA NextRoundsType ==
  (TypeOK => Rounds \in Nat)'
<1>1. TypeOK => Rounds \in Nat
  BY RoundsType
<1> QED
  BY <1>1, PTL

(* No loop takes more rounds than it has.                                  *)
LEMMA BoundedStep ==
  ASSUME TypeOK, TypeOK', Bounded, [Next]_vars
  PROVE  Bounded'
<1>1. Rounds \in Nat /\ i \in Nat
  BY RoundsType DEF TypeOK
<1>2. ASSUME pc' = pc, prog' = prog, demo' = demo
      PROVE  Rounds' = Rounds \/ pc \notin DOMAIN Then
  <2>1. This' = This /\ Arena' = Arena
    BY <1>2 DEF This, Arena
  <2> QED
    BY <1>2, <2>1 DEF Rounds
<1>3. CASE NextPhase
  <2>1. i' = 1
    BY <1>3 DEF NextPhase
  <2>2. Rounds' \in Nat
    BY NextRoundsType
  <2>3. \A n \in Nat : 1 <= n + 1
    OBVIOUS
  <2>4. 1 <= Rounds' + 1
    BY <2>2, <2>3
  <2>5. i' <= Rounds' + 1
    BY <2>1, <2>4
  <2> QED
    BY <2>5 DEF Bounded
<1>4. CASE InRound
  BY <1>1, <1>2, <1>4, StepKinds DEF Bounded
<1>5. CASE EndsRound
  BY <1>1, <1>2, <1>5, StepKinds DEF Bounded
<1>6. CASE EnterFirstThread \/ Panic
  BY <1>6 DEF EnterFirstThread, Panic, Bounded, Then
<1> QED
  BY <1>3, <1>4, <1>5, <1>6, StepKinds

(* What the steps do to the numbers of VSpaces and CSpaces.                *)
LEMMA CountsStep ==
  ASSUME TypeOK, Counting, [Next]_vars
  PROVE  /\ vspaces' = IF CreateVSpace THEN vspaces + 1 ELSE vspaces
         /\ Len(spaces') = IF CreateCNode THEN Len(spaces) + 1 ELSE Len(spaces)
         /\ ~CreateCNode /\ ~GrantObject /\ ~GrantSelfCNode /\ ~OpenArena /\ ~GrantArenaFrame
              => spaces' = spaces
         /\ ~CreateThread => tcbs' = tcbs
<1>1. CASE CreateVSpace
  <2>1. vspaces' = vspaces + 1 /\ spaces' = spaces /\ tcbs' = tcbs /\ pc = "vspace"
    BY <1>1 DEF CreateVSpace, At
  <2> QED
    BY <1>1, <2>1 DEF CreateCNode, At
<1>2. CASE CreateCNode
  <2>1. /\ spaces' = Append(spaces, [s \in Slots |-> Empty]) /\ vspaces' = vspaces
        /\ tcbs' = tcbs /\ pc = "cnode"
    BY <1>2 DEF CreateCNode, At
  <2>2. spaces \in Seq([Slots -> Caps]) /\ [s \in Slots |-> Empty] \in [Slots -> Caps]
    BY CapType DEF TypeOK, Kinds
  <2>3. Len(spaces') = Len(spaces) + 1
    BY <2>1, <2>2, AppendProperties
  <2> QED
    BY <1>2, <2>1, <2>3 DEF CreateVSpace, At
<1>3. CASE GrantObject \/ GrantSelfCNode \/ OpenArena \/ GrantArenaFrame
  <2>1. vspaces' = vspaces /\ tcbs' = tcbs /\ pc \notin {"vspace", "cnode"}
    BY <1>3 DEF GrantObject, GrantSelfCNode, OpenArena, GrantArenaFrame, At
  <2>2. Len(spaces') = Len(spaces)
    BY <1>3, CopyShapeLen
  <2> QED
    BY <1>3, <2>1, <2>2 DEF CreateVSpace, CreateCNode, At
<1>4. CASE CreateThread
  <2>1. vspaces' = vspaces /\ spaces' = spaces /\ pc = "tcb"
    BY <1>4 DEF CreateThread, At
  <2> QED
    BY <1>4, <2>1 DEF CreateVSpace, CreateCNode, At
<1>5. CASE /\ ~CreateVSpace /\ ~CreateCNode /\ ~GrantObject /\ ~GrantSelfCNode /\ ~OpenArena
           /\ ~GrantArenaFrame /\ ~CreateThread
  <2>1. vspaces' = vspaces /\ spaces' = spaces /\ tcbs' = tcbs
    BY <1>5
    DEF Next, vars, objects, NextPhase, RetypeRootObject, MintRootObject, RetypeFrame,
        ClearFrame, MapPrivateFrame, FillImage, MapSharedFrame, MapPackage,
        MapDeviceFrame, MakeReady, EnterFirstThread, Panic
  <2> QED
    BY <1>5, <2>1
<1> QED
  BY <1>1, <1>2, <1>3, <1>4, <1>5

(* The thread of program p is tied to VSpace p and to CSpace p.            *)
LEMMA ThreadNumbered ==
  ASSUME TypeOK, Counting, Slotting, Numbered, CreateThread
  PROVE  /\ Len(tcbs) = prog - 1 /\ DOMAIN tcbs = 1..(prog - 1)
         /\ DOMAIN tcbs' = 1..prog /\ \A k \in DOMAIN tcbs : tcbs'[k] = tcbs[k]
         /\ tcbs'[prog].cspace = prog /\ tcbs'[prog].vspace = prog
         /\ tcbs'[prog].arg0 = This.arg0
<1>0. prog \in Nat \ {0}
  BY DemoFacts
<1>1. pc = "tcb" /\ i = 1 /\ prog \in Nat \ {0}
  <2>1. pc = "tcb" /\ i <= Rounds
    BY DEF CreateThread, At
  <2>2. Rounds = 1 /\ i \in Nat \ {0}
    BY <2>1 DEF Rounds, TypeOK
  <2> QED
    BY <1>0, <2>1, <2>2
<1>2. Len(tcbs) = prog - 1 /\ vspaces = prog /\ Len(spaces) = prog
  BY <1>1 DEF Counting, Numbered, HasVSpace, HasCNode, LoadPhases
<1>3. ThisSpace = prog /\ ThisVSpace = prog
  <2>1. root[loc.vspace] = Cap("VSpace", vspaces) /\ root[loc.cnode] = Cap("CNode", Len(spaces))
    BY <1>1 DEF Slotting, Naming, HasVSpace, HasCNode, LoadPhases
  <2> QED
    BY <1>2, <2>1, CapFacts DEF ThisSpace, ThisVSpace
<1> DEFINE T == [cspace : Nat, vspace : Nat, vspaceCptr : Slots, arg0 : Nat]
           t == [cspace |-> ThisSpace, vspace |-> ThisVSpace,
                 vspaceCptr |-> loc.vspace, arg0 |-> This.arg0]
<1>4. tcbs \in Seq(T) /\ DOMAIN tcbs = 1..(prog - 1)
  BY <1>2, LenProperties DEF TypeOK
<1>5. t \in T
  <2>1. loc.vspace \in Slots /\ This.arg0 \in Nat
    BY DemoFacts DEF TypeOK, ProgramSpecs
  <2> QED
    BY <1>1, <1>3, <2>1
<1>6. tcbs' = Append(tcbs, t)
  BY DEF CreateThread
<1>7. t.cspace = prog /\ t.vspace = prog /\ t.arg0 = This.arg0
  BY <1>3
<1> HIDE DEF t, T
<1>8. /\ DOMAIN tcbs' = 1..prog /\ tcbs'[prog] = t
      /\ \A k \in DOMAIN tcbs : tcbs'[k] = tcbs[k]
  BY <1>1, <1>2, <1>4, <1>5, <1>6, AppendProperties
<1> QED
  BY <1>2, <1>4, <1>7, <1>8

(* Every step keeps the numbering.                                         *)
LEMMA NumberedStep ==
  ASSUME TypeOK, Counting, Slotting, Numbered, [Next]_vars
  PROVE  Numbered'
<1>0. prog \in Nat \ {0}
  BY DemoFacts
<1>1. /\ i \in Nat \ {0} /\ prog \in Nat \ {0} /\ vspaces \in Nat /\ Len(spaces) \in Nat
  BY <1>0, LenProperties DEF TypeOK
<1>2. \A k \in DOMAIN tcbs' : tcbs'[k].cspace = k /\ tcbs'[k].vspace = k
  <2>1. CASE CreateThread
    <3>1. \A k \in 1..prog : k \in 1..(prog - 1) \/ k = prog
      BY <1>1
    <3> QED
      BY <2>1, <3>1, ThreadNumbered DEF Numbered
  <2>2. CASE ~CreateThread
    BY <2>2, CountsStep DEF Numbered
  <2> QED
    BY <2>1, <2>2
<1> DEFINE Counts == /\ vspaces = IF HasVSpace THEN prog ELSE prog - 1
                     /\ Len(spaces) = IF HasCNode THEN prog ELSE prog - 1
<1> SUFFICES ASSUME pc' \in LoadPhases \cup {"root"}
             PROVE  Counts'
  BY <1>2 DEF Numbered
<1>3. CASE NextPhase
  <2>1. /\ i > Rounds /\ i' = 1 /\ pc \in DOMAIN Then
        /\ IF pc = "tcb" /\ prog < Len(demo.programs)
           THEN pc' = "vspace" /\ prog' = prog + 1
           ELSE pc' = Then[pc] /\ prog' = prog
        /\ vspaces' = vspaces /\ Len(spaces') = Len(spaces)
    BY <1>3 DEF NextPhase, objects
  <2>2. pc \in LoadPhases \cup {"root"} /\ Counts
    BY <2>1 DEF Then, LoadPhases, Numbered
  <2>3. CASE pc = "tcb" /\ prog < Len(demo.programs)
    BY <1>1, <2>1, <2>2, <2>3 DEF HasVSpace, HasCNode, LoadPhases
  <2>4. CASE pc = "vspace"
    BY <1>1, <2>1, <2>2, <2>4 DEF HasVSpace, HasCNode, LoadPhases, Rounds, Then
  <2>5. CASE pc = "cnode"
    BY <1>1, <2>1, <2>2, <2>5 DEF HasVSpace, HasCNode, LoadPhases, Rounds, Then
  <2>6. CASE pc = "root"
    BY <1>1, <2>1, <2>2, <2>6 DEF HasVSpace, HasCNode, LoadPhases, Rounds, Then
  <2>7. CASE pc \in LoadPhases \ {"vspace", "cnode", "tcb"}
    <3>1. /\ pc' = Then[pc] /\ prog' = prog /\ HasVSpace
          /\ pc' \in LoadPhases \ {"vspace"}
      BY <2>1, <2>7 DEF HasVSpace, LoadPhases, Then
    <3>2. HasVSpace' /\ HasCNode' = HasCNode
      BY <2>1, <2>7, <3>1 DEF HasVSpace, HasCNode, LoadPhases, Then
    <3> QED
      BY <2>1, <2>2, <3>1, <3>2
  <2>8. CASE pc = "tcb" /\ ~(prog < Len(demo.programs))
    BY <2>1, <2>8 DEF Then, LoadPhases
  <2> QED
    BY <2>2, <2>3, <2>4, <2>5, <2>6, <2>7, <2>8 DEF LoadPhases
<1>4. CASE InRound
  <2>1. pc' = pc /\ i' = i /\ prog' = prog
    BY <1>4, StepKinds
  <2>2. vspaces' = vspaces /\ spaces' = spaces
    BY <1>4 DEF InRound, RetypeFrame, ClearFrame, vars, objects
  <2> QED
    BY <2>1, <2>2 DEF Numbered, HasVSpace, HasCNode
<1>5. CASE EndsRound
  <2>1. pc' = pc /\ i' = i + 1 /\ prog' = prog /\ i <= Rounds /\ Counts
    BY <1>5, StepKinds DEF Numbered
  <2>2. CASE CreateVSpace
    <3>1. pc = "vspace" /\ i = 1
      BY <1>1, <2>1, <2>2 DEF CreateVSpace, At, Rounds
    <3> QED
      BY <1>1, <2>1, <2>2, <3>1, CountsStep DEF HasVSpace, HasCNode, LoadPhases, CreateCNode, At
  <2>3. CASE CreateCNode
    <3>1. pc = "cnode" /\ i = 1
      BY <1>1, <2>1, <2>3 DEF CreateCNode, At, Rounds
    <3> QED
      BY <1>1, <2>1, <2>3, <3>1, CountsStep DEF HasVSpace, HasCNode, LoadPhases, CreateVSpace, At
  <2>4. CASE ~CreateVSpace /\ ~CreateCNode
    <3>1. pc \notin {"vspace", "cnode"}
      BY <1>5, <2>4
      DEF EndsRound, RetypeRootObject, MintRootObject, MapPrivateFrame, FillImage,
          GrantObject, GrantSelfCNode, OpenArena, GrantArenaFrame, CreateThread,
          MapSharedFrame, MapPackage, MapDeviceFrame, MakeReady, At
    <3> QED
      BY <2>1, <2>4, <3>1, CountsStep DEF HasVSpace, HasCNode
  <2> QED
    BY <2>2, <2>3, <2>4
<1>6. CASE EnterFirstThread \/ Panic
  BY <1>6 DEF EnterFirstThread, Panic, LoadPhases
<1> QED
  BY <1>3, <1>4, <1>5, <1>6, StepKinds

(* Root's capability of a root object is as the description has it.        *)
LEMMA HandledStep ==
  ASSUME TypeOK, Counting, Handing, Slotting, Handled, [Next]_vars
  PROVE  Handled'
<1>1. /\ handles \in Seq(Slots) /\ DOMAIN handles = 1..Len(handles) /\ Len(handles) \in Nat
      /\ root \in [Slots -> Caps] /\ demo' = demo /\ OthersStay
  BY LenProperties, StepKinds, OthersStayStep DEF TypeOK
<1>2. \A k \in DOMAIN handles : root'[handles[k]] = RootCap(demo, k)
  BY <1>1 DEF Handled, Slotting, Naming, OthersStay
<1>3. CASE RetypeRootObject \/ MintRootObject
  <2>1. /\ pc = "root" /\ i <= Len(demo.root) /\ nextSlot \in Slots
        /\ handles' = Append(handles, nextSlot) /\ i \in DOMAIN demo.root
    <3>1. /\ pc = "root" /\ i <= Len(demo.root) /\ nextSlot \in Slots
          /\ handles' = Append(handles, nextSlot)
      BY <1>3 DEF RetypeRootObject, MintRootObject, At, Rounds, CanRetype, SlotFree
    <3>2. i \in Nat \ {0} /\ DOMAIN demo.root = 1..Len(demo.root) /\ Len(demo.root) \in Nat
      BY DemoFacts, LenProperties DEF TypeOK
    <3> QED
      BY <3>1, <3>2
  <2>2. Len(handles) = i - 1 /\ i \in Nat
    BY <2>1 DEF Counting, TypeOK
  <2>3. /\ DOMAIN handles' = 1..i /\ handles'[i] = nextSlot
        /\ \A k \in 1..(i - 1) : handles'[k] = handles[k]
    BY <1>1, <2>1, <2>2, AppendProperties
  <2>4. root'[nextSlot] = RootCap(demo, i)
    <3>1. /\ demo.root \in Seq(RootObjects) /\ RootOp \in RootObjects
          /\ RootOp.op = "Mint" => /\ RootOp.src \in 1..(i - 1)
                                   /\ demo.root[RootOp.src].op # "Mint"
          /\ RootOp.op # "Mint" => RootOp.rights = "ALL" /\ RootOp.badge = 0
      BY <2>1, DemoFacts DEF IsDescription, RootOp
    <3>2. CASE RetypeRootObject
      <4>1. RootOp.op # "Mint" /\ root'[nextSlot] = Cap(RootOp.op, i)
        BY <1>1, <2>1, <3>2 DEF RetypeRootObject
      <4> QED
        BY <3>1, <4>1 DEF Cap, RootCap, Source, RootOp
    <3>3. CASE MintRootObject
      <4>1. RootOp.op = "Mint" /\ root'[nextSlot] = Minted
        BY <1>1, <2>1, <3>3 DEF MintRootObject
      <4>2. root[handles[RootOp.src]] = RootCap(demo, RootOp.src)
        BY <1>1, <2>2, <3>1, <4>1 DEF Handled
      <4>3. Source(demo, RootOp.src) = RootOp.src /\ Source(demo, i) = RootOp.src
        BY <3>1, <4>1 DEF Source, RootOp
      <4>4. Minted = [RootCap(demo, RootOp.src) EXCEPT !.rights = RootOp.rights,
                                                       !.badge = RootOp.badge]
        BY <4>2 DEF Minted
      <4>5. /\ RootCap(demo, RootOp.src).kind = demo.root[RootOp.src].op
            /\ RootCap(demo, RootOp.src).obj = RootOp.src
            /\ RootCap(demo, i) = [kind |-> demo.root[RootOp.src].op, obj |-> RootOp.src,
                                   rights |-> RootOp.rights, badge |-> RootOp.badge]
        BY <4>3 DEF RootCap, RootOp
      <4>6. Minted = RootCap(demo, i)
        BY <4>4, <4>5 DEF RootCap
      <4> QED
        BY <4>1, <4>6
    <3> QED
      BY <1>3, <3>2, <3>3
  <2>5. ASSUME NEW k \in DOMAIN handles'
        PROVE  root'[handles'[k]] = RootCap(demo, k)
    <3>1. k = i \/ k \in 1..(i - 1)
      BY <2>2, <2>3
    <3> QED
      BY <1>1, <1>2, <2>2, <2>3, <2>4, <3>1
  <2> QED
    BY <1>1, <2>5 DEF Handled
<1>4. CASE ~RetypeRootObject /\ ~MintRootObject
  <2>1. handles' = handles
    BY <1>4
    DEF Next, vars, locals, NextPhase, CreateVSpace, RetypeFrame, ClearFrame,
        MapPrivateFrame, FillImage, CreateCNode, GrantObject, GrantSelfCNode, OpenArena,
        GrantArenaFrame, CreateThread, MapSharedFrame, MapPackage, MapDeviceFrame,
        MakeReady, EnterFirstThread, Panic
  <2> QED
    BY <1>1, <1>2, <2>1 DEF Handled
<1> QED
  BY <1>3, <1>4

(* A frame being handed over has the size its place asks for.              *)
LEMMA SizedStep ==
  ASSUME TypeOK, Counting, Handing, Sized, [Next]_vars
  PROVE  Sized'
<1>1. /\ Len(frames) \in Nat /\ DOMAIN frames = 1..Len(frames) /\ frames \in Seq(Frames)
  BY LenProperties DEF TypeOK
<1>2. CASE RetypeFrame
  <2>1. /\ frames' = Append(frames, [base |-> Bump(FramePages), pages |-> FramePages,
                                     content |-> <<>>, maps |-> {}])
        /\ pc' = pc /\ i' = i /\ demo' = demo
    BY <1>2 DEF RetypeFrame, given
  <2>2. FramePages' = FramePages
    BY <2>1 DEF FramePages, Wire
  <2>3. Len(frames') = Len(frames) + 1 /\ frames'[Len(frames) + 1].pages = FramePages
    BY <1>1, <2>1
  <2> QED
    BY <2>2, <2>3 DEF Sized
<1>3. CASE ClearFrame
  <2>1. /\ frames' = [frames EXCEPT ![ThisFrame].content = <<"zero">>] /\ stage = "clear"
        /\ pc' = pc /\ i' = i /\ demo' = demo /\ prog' = prog /\ NeedsFrame
    BY <1>3 DEF ClearFrame, Cleared, given
  <2>2. FramePages' = FramePages
    BY <2>1 DEF FramePages, Wire
  <2>3. Len(frames') = Len(frames)
    BY <1>3, FramesLength DEF Next, RetypeFrame, ClearFrame, MapDeviceFrame, At, NeedsFrame
  <2>4. frames # <<>> /\ Len(frames) \in DOMAIN frames
    BY <1>1, <2>1 DEF Handing
  <2>5. frames[Len(frames)] \in Frames
    BY <1>1, <2>4, ElementOfSeq
  <2>6. frames'[Len(frames)].pages = frames[Len(frames)].pages
    BY <2>1, <2>4, <2>5 DEF Frames
  <2> QED
    BY <2>1, <2>2, <2>3, <2>6 DEF Sized
<1>4. CASE BetweenFrames
  BY <1>4, BetweenFramesStage DEF Sized
<1>5. CASE MapPrivateFrame \/ MapSharedFrame \/ MapPackage \/ GrantArenaFrame
  BY <1>5 DEF MapPrivateFrame, MapSharedFrame, MapPackage, GrantArenaFrame, Sized
<1>6. CASE Panic
  BY <1>6 DEF Panic, Sized, NeedsFrame, At
<1>7. CASE UNCHANGED vars
  <2>1. /\ pc' = pc /\ i' = i /\ demo' = demo /\ prog' = prog /\ frames' = frames
        /\ stage' = stage
    BY <1>7 DEF vars, given, objects
  <2>2. FramePages' = FramePages
    BY <2>1 DEF FramePages, Wire
  <2>3. NeedsFrame' = NeedsFrame
    BY <2>1 DEF NeedsFrame, At, Wire, Rounds, This, Arena
  <2> QED
    BY <2>1, <2>2, <2>3 DEF Sized
<1> QED
  BY <1>2, <1>3, <1>4, <1>5, <1>6, <1>7 DEF Next, BetweenFrames

-----------------------------------------------------------------------------
(* Endowed.                                                                *)

(* The program at hand gets these capabilities, and no other gets any.     *)
Endows(new) ==
  /\ CapsAt(spaces', prog) = CapsAt(spaces, prog) \cup new
  /\ \A q \in DOMAIN spaces : q # prog => CapsAt(spaces', q) = CapsAt(spaces, q)

LEMMA CopyEndows ==
  ASSUME TypeOK, Slotting, Numbered, HasCNode, NEW src \in Slots, NEW dest,
         CopyCross(src, dest), root[src].kind # "Empty"
  PROVE  /\ Endows({Seen(dest, root[src])}) /\ dest \in Slots
         /\ prog \in DOMAIN spaces
<1>1. /\ dest \in Slots /\ Len(spaces) \in DOMAIN spaces /\ spaces[Len(spaces)][dest] = Empty
      /\ \A q \in DOMAIN spaces : \A t \in Slots :
           spaces'[q][t] = IF q = Len(spaces) /\ t = dest THEN root[src] ELSE spaces[q][t]
  BY CopyAt DEF Slotting
<1>2. Len(spaces) = prog
  BY DEF Numbered, HasCNode, LoadPhases
<1>3. root[src] # Empty
  BY DEF Empty
<1>4. CapsAt(spaces', prog) = CapsAt(spaces, prog) \cup {Seen(dest, root[src])}
  <2>1. /\ spaces[prog][dest] = Empty
        /\ \A t \in Slots :
             spaces'[prog][t] = IF t = dest THEN root[src] ELSE spaces[prog][t]
    BY <1>1, <1>2
  <2>2. ASSUME NEW S, NEW T, NEW c, NEW cap, cap # Empty, S[c][dest] = Empty,
               \A t \in Slots : T[c][t] = IF t = dest THEN cap ELSE S[c][t]
        PROVE  CapsAt(T, c) = CapsAt(S, c) \cup {Seen(dest, cap)}
    BY <1>1, <2>2, CapsGain
  <2> QED
    BY <1>3, <2>1, <2>2
<1>5. ASSUME NEW q \in DOMAIN spaces, q # prog
      PROVE  CapsAt(spaces', q) = CapsAt(spaces, q)
  BY <1>1, <1>2, <1>5, CapsKept
<1> QED
  BY <1>1, <1>2, <1>4, <1>5 DEF Endows

(* A root object is granted as the description has it.                     *)
LEMMA GrantEndows ==
  ASSUME TypeOK, Counting, Slotting, Numbered, Handled, GrantObject
  PROVE  /\ Endows({Seen(This.grants[i].to, RootCap(demo, This.grants[i].from))})
         /\ pc = "grants" /\ i <= Len(This.grants)
<1>1. /\ pc = "grants" /\ i <= Len(This.grants) /\ At("grants") /\ HasCNode
      /\ CopyCross(handles[This.grants[i].from], This.grants[i].to)
  BY DEF GrantObject, At, Rounds, HasCNode
<1>2. This.grants[i].from \in DOMAIN handles /\ handles[This.grants[i].from] \in Slots
  BY <1>1, GrantedHandle
<1>3. /\ root[handles[This.grants[i].from]] = RootCap(demo, This.grants[i].from)
      /\ root[handles[This.grants[i].from]].kind # "Empty"
  BY <1>2 DEF Handled, Slotting, Naming
<1>4. Endows({Seen(This.grants[i].to, root[handles[This.grants[i].from]])})
  BY <1>1, <1>2, <1>3, CopyEndows
<1> QED
  BY <1>1, <1>3, <1>4

(* Its own CSpace goes where the description says.                         *)
LEMMA SelfEndows ==
  ASSUME TypeOK, Slotting, Numbered, GrantSelfCNode
  PROVE  /\ Endows({Seen(s, Cap("CNode", prog)) : s \in This.selfCNode})
         /\ pc = "self" /\ i = 1 /\ Cardinality(This.selfCNode) = 1
<1>1. pc = "self" /\ i <= Cardinality(This.selfCNode) /\ HasCNode /\ i \in Nat \ {0}
  BY DEF GrantSelfCNode, At, Rounds, HasCNode, TypeOK
<1>2. PICK dest \in This.selfCNode : CopyCross(loc.cnode, dest)
  BY DEF GrantSelfCNode
<1>3. This.selfCNode = {dest} /\ Cardinality(This.selfCNode) = 1
  BY <1>2, OptionFacts
<1>4. root[loc.cnode] = Cap("CNode", prog) /\ loc.cnode \in Slots
  BY <1>1 DEF Slotting, Naming, Numbered, LoadPhases, TypeOK
<1>5. Endows({Seen(dest, Cap("CNode", prog))})
  BY <1>1, <1>2, <1>4, CapFacts, CopyEndows
<1>6. {Seen(s, Cap("CNode", prog)) : s \in This.selfCNode} = {Seen(dest, Cap("CNode", prog))}
  BY <1>3
<1> QED
  BY <1>1, <1>3, <1>5, <1>6

(* So does its own VSpace, when it has an arena.                           *)
LEMMA ArenaEndows ==
  ASSUME TypeOK, Slotting, Numbered, OpenArena
  PROVE  /\ Endows({Seen(a.selfVSpace, Cap("VSpace", prog)) : a \in This.arena})
         /\ pc = "scratch" /\ i = 1 /\ Cardinality(This.arena) = 1
<1>1. /\ pc = "scratch" /\ i <= Cardinality(This.arena) /\ HasCNode /\ HasVSpace
      /\ i \in Nat \ {0}
  BY DEF OpenArena, At, Rounds, HasCNode, HasVSpace, LoadPhases, TypeOK
<1>2. CopyCross(loc.vspace, Arena.selfVSpace)
  BY DEF OpenArena
<1>3. This.arena = {Arena} /\ Cardinality(This.arena) = 1
  BY <1>1, OptionFacts
<1>4. root[loc.vspace] = Cap("VSpace", prog) /\ loc.vspace \in Slots
  BY <1>1 DEF Slotting, Naming, Numbered, LoadPhases, TypeOK
<1>5. Endows({Seen(Arena.selfVSpace, Cap("VSpace", prog))})
  BY <1>1, <1>2, <1>4, CapFacts, CopyEndows
<1>6. {Seen(a.selfVSpace, Cap("VSpace", prog)) : a \in This.arena} =
        {Seen(Arena.selfVSpace, Cap("VSpace", prog))}
  BY <1>3
<1> QED
  BY <1>1, <1>3, <1>5, <1>6

(* And so do the arena's frames, one after the other.                      *)
LEMMA FrameEndows ==
  ASSUME TypeOK, Handing, Slotting, Numbered, GrantArenaFrame
  PROVE  /\ Endows({Seen(Arena.frameBase + i - 1, Cap("Frame", 0))})
         /\ pc = "arena" /\ This.arena = {Arena}
<1>1. /\ pc = "arena" /\ i <= (IF This.arena = {} THEN 0 ELSE Arena.megapages)
      /\ HasCNode /\ i \in Nat \ {0}
  BY DEF GrantArenaFrame, At, Rounds, HasCNode, TypeOK
<1>2. CopyCross(loc.frame, Arena.frameBase + i - 1)
  BY DEF GrantArenaFrame
<1>3. This.arena = {Arena}
  BY <1>1, OptionFacts
<1>4. root[loc.frame] = Cap("Frame", Len(frames)) /\ loc.frame \in Slots
  BY DroppedSlot
<1>5. Endows({Seen(Arena.frameBase + i - 1, Cap("Frame", Len(frames)))})
  BY <1>1, <1>2, <1>4, CapFacts, CopyEndows
<1>6. Seen(Arena.frameBase + i - 1, Cap("Frame", Len(frames))) =
        Seen(Arena.frameBase + i - 1, Cap("Frame", 0))
  BY DEF Seen, Cap
<1> QED
  BY <1>1, <1>3, <1>5, <1>6

(* What a ProgramSpec declares, one round later.                           *)
LEMMA AuthorityFacts ==
  ASSUME NEW d, NEW p, \A a \in d.programs[p].arena : a.frameBase \in Nat
  PROVE  /\ AuthorityUpTo(d, p, 0, 0, 0, 0) = {}
         /\ \A n \in Nat : GrantsUpTo(d, p, n + 1) =
              GrantsUpTo(d, p, n) \cup {Seen(d.programs[p].grants[n + 1].to,
                                             RootCap(d, d.programs[p].grants[n + 1].from))}
         /\ SelfUpTo(d, p, 0) = {} /\ ArenaUpTo(d, p, 0) = {}
         /\ SelfUpTo(d, p, 1) = {Seen(s, Cap("CNode", p)) : s \in d.programs[p].selfCNode}
         /\ ArenaUpTo(d, p, 1) = {Seen(a.selfVSpace, Cap("VSpace", p)) : a \in d.programs[p].arena}
<1>1. GrantsUpTo(d, p, 0) = {}
  BY DEF GrantsUpTo
<1>2. /\ SelfUpTo(d, p, 0) = {} /\ ArenaUpTo(d, p, 0) = {}
      /\ SelfUpTo(d, p, 1) = {Seen(s, Cap("CNode", p)) : s \in d.programs[p].selfCNode}
      /\ ArenaUpTo(d, p, 1) = {Seen(a.selfVSpace, Cap("VSpace", p)) : a \in d.programs[p].arena}
  BY DEF SelfUpTo, ArenaUpTo
<1>3. ArenaFramesUpTo(d, p, 0) = {}
  <2>1. \A n \in Nat : n..(n + 0 - 1) = {}
    OBVIOUS
  <2> QED
    BY <2>1 DEF ArenaFramesUpTo
<1>4. ASSUME NEW n \in Nat
      PROVE  GrantsUpTo(d, p, n + 1) =
               GrantsUpTo(d, p, n) \cup {Seen(d.programs[p].grants[n + 1].to,
                                              RootCap(d, d.programs[p].grants[n + 1].from))}
  <2>1. 1..(n + 1) = 1..n \cup {n + 1}
    OBVIOUS
  <2> QED
    BY <2>1 DEF GrantsUpTo
<1> QED
  BY <1>1, <1>2, <1>3, <1>4 DEF AuthorityUpTo

LEMMA ArenaFacts ==
  ASSUME NEW d, NEW p, NEW n \in Nat, NEW a, a.frameBase \in Nat, d.programs[p].arena = {a}
  PROVE  ArenaFramesUpTo(d, p, n + 1) =
           ArenaFramesUpTo(d, p, n) \cup {Seen(a.frameBase + n, Cap("Frame", 0))}
<1>1. a.frameBase..(a.frameBase + (n + 1) - 1) =
        a.frameBase..(a.frameBase + n - 1) \cup {a.frameBase + n}
  OBVIOUS
<1>2. \A m : ArenaFramesUpTo(d, p, m) =
               {Seen(s, Cap("Frame", 0)) : s \in a.frameBase..(a.frameBase + m - 1)}
  BY DEF ArenaFramesUpTo
<1> QED
  BY <1>1, <1>2

(* The description and the program at hand stay, but where load_all takes  *)
(* the next program.                                                       *)
LEMMA SameThis ==
  ASSUME demo' = demo, prog' = prog
  PROVE  /\ This' = This /\ ArenaSize' = ArenaSize
         /\ Cardinality(This.selfCNode)' = Cardinality(This.selfCNode)
         /\ Cardinality(This.arena)' = Cardinality(This.arena)
BY DEF This, ArenaSize, Arena

(* From one loop to the next nothing more is declared.                     *)
LEMMA BehindKept ==
  ASSUME TypeOK, Bounded, NextPhase, HasCNode'
  PROVE  /\ HasCNode /\ prog' = prog /\ demo' = demo
         /\ GrantsBehind' = GrantsBehind /\ SelfBehind' = SelfBehind
         /\ ArenaBehind' = ArenaBehind /\ FramesBehind' = FramesBehind
<1>1. /\ i > Rounds /\ i' = 1 /\ pc \in DOMAIN Then /\ demo' = demo
      /\ pc' = (IF pc = "tcb" /\ prog < Len(demo.programs) THEN "vspace" ELSE Then[pc])
      /\ prog' = IF pc = "tcb" /\ prog < Len(demo.programs) THEN prog + 1 ELSE prog
  BY DEF NextPhase, given
<1>2. /\ i \in Nat /\ Rounds \in Nat /\ i <= Rounds + 1
  BY <1>1, RoundsType DEF TypeOK, Bounded
<1>3. i - 1 = Rounds
  BY <1>1, <1>2
<1>4. pc \in {"cnode", "grants", "self", "scratch", "arena"}
  BY <1>1 DEF HasCNode, Then
<1>5. pc' = Then[pc] /\ prog' = prog
  BY <1>1, <1>4
<1>6. /\ This' = This /\ ArenaSize' = ArenaSize
      /\ Cardinality(This.selfCNode)' = Cardinality(This.selfCNode)
      /\ Cardinality(This.arena)' = Cardinality(This.arena)
  BY <1>1, <1>5, SameThis
<1>7. CASE pc = "cnode"
  <2>1. pc' = "grants" /\ HasCNode
    BY <1>1, <1>3, <1>5, <1>7 DEF Then, HasCNode, Rounds
  <2> QED
    BY <1>1, <1>5, <1>7, <2>1 DEF GrantsBehind, SelfBehind, ArenaBehind, FramesBehind
<1>8. CASE pc = "grants"
  <2>1. pc' = "self" /\ HasCNode /\ i - 1 = Len(This.grants)
    BY <1>3, <1>5, <1>8 DEF Then, HasCNode, Rounds
  <2> QED
    BY <1>1, <1>5, <1>6, <1>8, <2>1 DEF GrantsBehind, SelfBehind, ArenaBehind, FramesBehind
<1>9. CASE pc = "self"
  <2>1. pc' = "scratch" /\ HasCNode /\ i - 1 = Cardinality(This.selfCNode)
    BY <1>3, <1>5, <1>9 DEF Then, HasCNode, Rounds
  <2> QED
    BY <1>1, <1>5, <1>6, <1>9, <2>1 DEF GrantsBehind, SelfBehind, ArenaBehind, FramesBehind
<1>10. CASE pc = "scratch"
  <2>1. pc' = "arena" /\ HasCNode /\ i - 1 = Cardinality(This.arena)
    BY <1>3, <1>5, <1>10 DEF Then, HasCNode, Rounds
  <2> QED
    BY <1>1, <1>5, <1>6, <1>10, <2>1 DEF GrantsBehind, SelfBehind, ArenaBehind, FramesBehind
<1>11. CASE pc = "arena"
  <2>1. pc' = "tcb" /\ HasCNode /\ i - 1 = ArenaSize
    BY <1>3, <1>5, <1>11 DEF Then, HasCNode, Rounds, ArenaSize
  <2> QED
    BY <1>1, <1>5, <1>6, <1>11, <2>1 DEF GrantsBehind, SelfBehind, ArenaBehind, FramesBehind
<1> QED
  BY <1>4, <1>7, <1>8, <1>9, <1>10, <1>11

(* Every step keeps Endowed.                                               *)
LEMMA EndowedStep ==
  ASSUME TypeOK, Counting, Handing, Slotting, RInv, [Next]_vars
  PROVE  Endowed'
<1>1. Numbered /\ Handled /\ Endowed /\ Bounded
  BY DEF RInv
<1>2. \A a \in This.arena : a.frameBase \in Nat
  BY OptionFacts
<1>3. \A a \in demo.programs[prog].arena : a.frameBase \in Nat
  BY <1>2 DEF This
<1>4. i \in Nat \ {0} /\ prog \in Nat \ {0}
  <2>1. prog \in Nat \ {0}
    BY DemoFacts
  <2> QED
    BY <2>1 DEF TypeOK
<1> DEFINE Authority == AuthorityUpTo(demo, prog, GrantsBehind, SelfBehind, ArenaBehind, FramesBehind)
<1>5. SUFFICES ASSUME HasCNode'
               PROVE  CapsAt(spaces', prog') = Authority'
  BY DEF Endowed
<1>6. ASSUME HasCNode, demo' = demo, prog' = prog, spaces' = spaces,
             GrantsBehind' = GrantsBehind, SelfBehind' = SelfBehind,
             ArenaBehind' = ArenaBehind, FramesBehind' = FramesBehind
      PROVE  CapsAt(spaces', prog') = Authority'
  <2>1. CapsAt(spaces, prog) = Authority
    BY <1>1, <1>6 DEF Endowed
  <2> QED
    BY <1>6, <2>1
<1>7. CASE NextPhase
  BY <1>1, <1>6, <1>7, <1>5, BehindKept, CountsStep
  DEF NextPhase, CreateCNode, GrantObject, GrantSelfCNode, OpenArena, GrantArenaFrame, objects
<1>8. CASE InRound
  <2>1. pc' = pc /\ i' = i /\ prog' = prog /\ demo' = demo /\ spaces' = spaces
    BY <1>8, StepKinds DEF InRound, RetypeFrame, ClearFrame, vars, objects
  <2>2. HasCNode
    BY <1>5, <2>1 DEF HasCNode
  <2>3. /\ GrantsBehind' = GrantsBehind /\ SelfBehind' = SelfBehind
        /\ ArenaBehind' = ArenaBehind /\ FramesBehind' = FramesBehind
    BY <2>1, SameThis DEF GrantsBehind, SelfBehind, ArenaBehind, FramesBehind
  <2> QED
    BY <1>6, <2>1, <2>2, <2>3
<1>9. CASE EndsRound
  <2>1. pc' = pc /\ i' = i + 1 /\ prog' = prog /\ demo' = demo /\ i <= Rounds
    BY <1>9, StepKinds
  <2>2. /\ This' = This /\ ArenaSize' = ArenaSize
        /\ Cardinality(This.selfCNode)' = Cardinality(This.selfCNode)
        /\ Cardinality(This.arena)' = Cardinality(This.arena)
    BY <2>1, SameThis
  <2>3. CASE CreateThread
    <3>1. pc = "tcb" /\ spaces' = spaces
      BY <2>3 DEF CreateThread, At
    <3>2. /\ GrantsBehind' = GrantsBehind /\ SelfBehind' = SelfBehind
          /\ ArenaBehind' = ArenaBehind /\ FramesBehind' = FramesBehind /\ HasCNode
      BY <2>1, <2>2, <3>1 DEF GrantsBehind, SelfBehind, ArenaBehind, FramesBehind, HasCNode
    <3> QED
      BY <1>6, <2>1, <3>1, <3>2
  <2>4. CASE CreateCNode
    <3>1. pc = "cnode" /\ i = 1 /\ spaces' = Append(spaces, [s \in Slots |-> Empty])
      BY <1>4, <2>1, <2>4 DEF CreateCNode, At, Rounds
    <3>2. Len(spaces) = prog - 1 /\ spaces \in Seq([Slots -> Caps])
      BY <1>1, <3>1 DEF Numbered, HasCNode, LoadPhases, TypeOK
    <3>3. spaces'[prog] = [s \in Slots |-> Empty]
      BY <1>4, <3>1, <3>2
    <3>4. CapsAt(spaces', prog) = {}
      BY <3>3 DEF CapsAt
    <3>5. GrantsBehind' = 0 /\ SelfBehind' = 0 /\ ArenaBehind' = 0 /\ FramesBehind' = 0
      BY <2>1, <3>1 DEF GrantsBehind, SelfBehind, ArenaBehind, FramesBehind
    <3>6. Authority' = AuthorityUpTo(demo, prog, 0, 0, 0, 0)
      BY <2>1, <3>5
    <3> QED
      BY <1>3, <2>1, <3>4, <3>6, AuthorityFacts
  <2>5. CASE GrantObject
    <3>1. /\ Endows({Seen(This.grants[i].to, RootCap(demo, This.grants[i].from))})
          /\ pc = "grants"
      BY <1>1, <2>5, GrantEndows
    <3>2. /\ GrantsBehind = i - 1 /\ GrantsBehind' = i /\ SelfBehind' = SelfBehind
          /\ ArenaBehind' = ArenaBehind /\ FramesBehind' = FramesBehind /\ HasCNode
      BY <1>4, <2>1, <3>1 DEF GrantsBehind, SelfBehind, ArenaBehind, FramesBehind, HasCNode
    <3>3. GrantsUpTo(demo, prog, i) =
            GrantsUpTo(demo, prog, i - 1)
              \cup {Seen(This.grants[i].to, RootCap(demo, This.grants[i].from))}
      <4>1. i - 1 \in Nat /\ (i - 1) + 1 = i
        BY <1>4
      <4> QED
        BY <1>3, <4>1, AuthorityFacts DEF This
    <3>4. CapsAt(spaces, prog) = Authority
      BY <1>1, <3>2 DEF Endowed
    <3> QED
      BY <2>1, <3>1, <3>2, <3>3, <3>4 DEF Endows, AuthorityUpTo
  <2>6. CASE GrantSelfCNode
    <3>1. /\ Endows({Seen(s, Cap("CNode", prog)) : s \in This.selfCNode})
          /\ pc = "self" /\ i = 1
      BY <1>1, <2>6, SelfEndows
    <3>2. /\ SelfBehind = 0 /\ SelfBehind' = 1 /\ GrantsBehind' = GrantsBehind
          /\ ArenaBehind' = ArenaBehind /\ FramesBehind' = FramesBehind /\ HasCNode
      BY <2>1, <2>2, <3>1 DEF GrantsBehind, SelfBehind, ArenaBehind, FramesBehind, HasCNode
    <3>3. /\ SelfUpTo(demo, prog, 0) = {}
          /\ SelfUpTo(demo, prog, 1) = {Seen(s, Cap("CNode", prog)) : s \in This.selfCNode}
      BY <1>3, AuthorityFacts DEF This
    <3>4. CapsAt(spaces, prog) = Authority
      BY <1>1, <3>2 DEF Endowed
    <3> QED
      BY <2>1, <3>1, <3>2, <3>3, <3>4 DEF Endows, AuthorityUpTo
  <2>7. CASE OpenArena
    <3>1. /\ Endows({Seen(a.selfVSpace, Cap("VSpace", prog)) : a \in This.arena})
          /\ pc = "scratch" /\ i = 1
      BY <1>1, <2>7, ArenaEndows
    <3>2. /\ ArenaBehind = 0 /\ ArenaBehind' = 1 /\ GrantsBehind' = GrantsBehind
          /\ SelfBehind' = SelfBehind /\ FramesBehind' = FramesBehind /\ HasCNode
      BY <2>1, <2>2, <3>1 DEF GrantsBehind, SelfBehind, ArenaBehind, FramesBehind, HasCNode
    <3>3. /\ ArenaUpTo(demo, prog, 0) = {}
          /\ ArenaUpTo(demo, prog, 1) = {Seen(a.selfVSpace, Cap("VSpace", prog)) : a \in This.arena}
      BY <1>3, AuthorityFacts DEF This
    <3>4. CapsAt(spaces, prog) = Authority
      BY <1>1, <3>2 DEF Endowed
    <3> QED
      BY <2>1, <3>1, <3>2, <3>3, <3>4 DEF Endows, AuthorityUpTo
  <2>8. CASE GrantArenaFrame
    <3>1. /\ Endows({Seen(Arena.frameBase + i - 1, Cap("Frame", 0))})
          /\ pc = "arena" /\ This.arena = {Arena}
      BY <1>1, <2>8, FrameEndows
    <3>2. /\ FramesBehind = i - 1 /\ FramesBehind' = i /\ GrantsBehind' = GrantsBehind
          /\ SelfBehind' = SelfBehind /\ ArenaBehind' = ArenaBehind /\ HasCNode
      BY <1>4, <2>1, <2>2, <3>1 DEF GrantsBehind, SelfBehind, ArenaBehind, FramesBehind, HasCNode
    <3>3. ArenaFramesUpTo(demo, prog, i) =
            ArenaFramesUpTo(demo, prog, i - 1) \cup {Seen(Arena.frameBase + i - 1, Cap("Frame", 0))}
      <4>1. /\ Arena.frameBase \in Nat /\ i - 1 \in Nat /\ (i - 1) + 1 = i
            /\ demo.programs[prog].arena = {Arena}
        BY <1>2, <1>4, <3>1 DEF This
      <4>2. Arena.frameBase + (i - 1) = Arena.frameBase + i - 1
        BY <1>4, <4>1
      <4> QED
        BY <4>1, <4>2, ArenaFacts
    <3>4. CapsAt(spaces, prog) = Authority
      BY <1>1, <3>2 DEF Endowed
    <3> QED
      BY <2>1, <3>1, <3>2, <3>3, <3>4 DEF Endows, AuthorityUpTo
  <2> QED
    <3>1. pc \in {"cnode", "grants", "self", "scratch", "arena", "tcb"}
      BY <1>5, <2>1 DEF HasCNode
    <3> QED
      BY <1>9, <2>3, <2>4, <2>5, <2>6, <2>7, <2>8, <3>1
      DEF EndsRound, RetypeRootObject, MintRootObject, CreateVSpace, MapPrivateFrame,
          FillImage, MapSharedFrame, MapPackage, MapDeviceFrame, MakeReady, At
<1>10. CASE EnterFirstThread \/ Panic
  BY <1>5, <1>10 DEF EnterFirstThread, Panic, HasCNode
<1> QED
  BY <1>7, <1>8, <1>9, <1>10, StepKinds

-----------------------------------------------------------------------------
(* Furnished.                                                              *)

(* What is mapped has the size it was retyped with.                        *)
LEMMA HandedPages ==
  ASSUME TypeOK, Handing, Sized, MapPrivateFrame \/ MapSharedFrame \/ MapPackage
  PROVE  frames'[Len(frames)].pages = FramePages
<1>1. stage = "give" /\ NeedsFrame
  BY DEF MapPrivateFrame, MapSharedFrame, MapPackage, NeedsFrame
<1>2. /\ ThisFrame = Len(frames) /\ Len(frames) \in DOMAIN frames
      /\ frames[Len(frames)] \in Frames /\ frames[Len(frames)].pages = FramePages
  BY <1>1, HandedFrame DEF Sized
<1>3. ASSUME NEW places
      PROVE  /\ Mapped(Len(frames), places)[Len(frames)].pages = FramePages
             /\ DOMAIN Mapped(Len(frames), places) = DOMAIN frames
             /\ DOMAIN Mapped(Len(frames), places)[Len(frames)] = DOMAIN frames[Len(frames)]
  BY <1>2 DEF Mapped, Frames
<1>4. CASE MapPrivateFrame
  BY <1>2, <1>3, <1>4 DEF MapPrivateFrame
<1>5. CASE MapSharedFrame
  BY <1>2, <1>3, <1>5 DEF MapSharedFrame
<1>6. CASE MapPackage
  <2> DEFINE mapped == Mapped(Len(frames), Places(PackagePerms))
  <2>1. frames' = [mapped EXCEPT ![Len(frames)].content = Append(@, "package")]
    BY <1>2, <1>6 DEF MapPackage
  <2>2. /\ mapped[Len(frames)].pages = FramePages /\ Len(frames) \in DOMAIN mapped
        /\ DOMAIN mapped[Len(frames)] = DOMAIN frames[Len(frames)]
    BY <1>2, <1>3
  <2> HIDE DEF mapped
  <2>3. frames'[Len(frames)] = [mapped[Len(frames)] EXCEPT !.content = Append(@, "package")]
    BY <2>1, <2>2
  <2>4. "pages" \in DOMAIN mapped[Len(frames)]
    BY <1>2, <2>2 DEF Frames
  <2> QED
    BY <2>2, <2>3, <2>4
<1> QED
  BY <1>4, <1>5, <1>6

(* A retype or a clearing puts nothing into anybody's reach.               *)
LEMMA SilentFrames ==
  ASSUME TypeOK, Counting, Handing, Memory, Contents, RetypeFrame \/ ClearFrame
  PROVE  \A v : MemoryAt(frames', v) = MemoryAt(frames, v)
<1> SUFFICES ASSUME NEW v
             PROVE  MemoryAt(frames', v) = MemoryAt(frames, v)
  OBVIOUS
<1>1. PICK f : OneMore(frames, frames', f) /\ frames'[f].maps = {}
  <2>1. CASE RetypeFrame
    <3>1. /\ Len(frames') \in DOMAIN frames' /\ Len(frames') = Len(frames) + 1
          /\ \A g \in DOMAIN frames : frames'[g] = frames[g]
          /\ frames'[Len(frames')].maps = {}
          /\ DOMAIN frames' = DOMAIN frames \cup {Len(frames')}
      BY <2>1, RetypedFrame
    <3>2. Len(frames') \notin DOMAIN frames
      BY <3>1, LenProperties DEF TypeOK
    <3>3. OneMore(frames, frames', Len(frames'))
      BY <3>1, <3>2 DEF OneMore
    <3> QED
      BY <3>1, <3>3
  <2>2. CASE ClearFrame
    <3>1. frames' = [frames EXCEPT ![ThisFrame].content = <<"zero">>] /\ stage = "clear"
      BY <2>2 DEF ClearFrame, Cleared
    <3>2. /\ ThisFrame = Len(frames) /\ Len(frames) \in DOMAIN frames
          /\ frames[Len(frames)] \in Frames
      BY <3>1, HandedFrame
    <3>3. frames[Len(frames)].maps = {}
      BY <3>1, <3>2 DEF Contents, ContentOf, Settled
    <3>4. frames'[Len(frames)].maps = {} /\ DOMAIN frames' = DOMAIN frames
      BY <3>1, <3>2, <3>3 DEF Frames
    <3>5. OneMore(frames, frames', Len(frames))
      BY <3>1, <3>2, <3>3, <3>4 DEF OneMore
    <3> QED
      BY <3>4, <3>5
  <2> QED
    BY <2>1, <2>2
<1>2. RegionsOf(frames'[f], v) = {}
  BY <1>1 DEF RegionsOf
<1>3. MemoryAt(frames', v) = MemoryAt(frames, v) \cup RegionsOf(frames'[f], v)
  BY <1>1, MemoryGain
<1> QED
  BY <1>2, <1>3

(* The frame handed over is the one frame that changes.                    *)
LEMMA HandedIsOneMore ==
  ASSUME TypeOK, Counting, Handing, Slotting, Memory, Contents,
         MapPrivateFrame \/ MapSharedFrame \/ MapPackage \/ MapDeviceFrame
  PROVE  OneMore(frames, frames', Len(frames'))
<1>1. CASE MapPrivateFrame \/ MapSharedFrame \/ MapPackage
  <2>1. /\ Len(frames) \in DOMAIN frames /\ DOMAIN frames' = DOMAIN frames
        /\ Len(frames') = Len(frames) /\ stage = "give"
        /\ \A g \in DOMAIN frames : g # Len(frames) => frames'[g] = frames[g]
    BY <1>1, HandedOver
  <2> QED
    BY <2>1, Given DEF OneMore
<1>2. CASE MapDeviceFrame
  <2>1. /\ Len(frames') \in DOMAIN frames' /\ Len(frames') = Len(frames) + 1
        /\ DOMAIN frames' = DOMAIN frames \cup {Len(frames')}
        /\ \A g \in DOMAIN frames : frames'[g] = frames[g]
    BY <1>2, MappedDevice
  <2>2. Len(frames') \notin DOMAIN frames
    BY <2>1, LenProperties DEF TypeOK
  <2> QED
    BY <2>1, <2>2 DEF OneMore
<1> QED
  BY <1>1, <1>2

(* It is all that comes into reach.                                        *)
LEMMA HandedReach ==
  ASSUME TypeOK, Counting, Handing, Slotting, Memory, Contents,
         MapPrivateFrame \/ MapSharedFrame \/ MapPackage \/ MapDeviceFrame
  PROVE  \A v : MemoryAt(frames', v) =
                  MemoryAt(frames, v) \cup RegionsOf(frames'[Len(frames')], v)
BY HandedIsOneMore, MemoryGain

(* A private frame comes into the reach of the program at hand alone.      *)
LEMMA PrivateReach ==
  ASSUME TypeOK, Counting, Handing, Slotting, Memory, Contents, Numbered, Sized,
         MapPrivateFrame
  PROVE  /\ MemoryAt(frames', prog) = MemoryAt(frames, prog) \cup
              {Region(PrivatePlace.vaddr, Mega, PrivatePlace.perms, <<"zero">>)}
         /\ \A v : v # prog => MemoryAt(frames', v) = MemoryAt(frames, v)
         /\ PrivatePlace = CASE pc = "image" -> Place(prog, This.image[i].vaddr, This.image[i].perms)
                             [] pc = "stack" -> Place(prog, STACK_VADDR, {"R", "W"})
                             [] pc = "heap"  -> Place(prog, HEAP_VADDR + (i - 1) * Mega, {"R", "W"})
<1>1. pc \in {"image", "stack", "heap"} /\ HasVSpace
  BY DEF MapPrivateFrame, At, HasVSpace, LoadPhases
<1>2. ThisVSpace = prog
  BY <1>1, CapFacts DEF Slotting, Naming, Numbered, LoadPhases, ThisVSpace
<1>3. PrivatePlace.vspace = prog
  BY <1>1, <1>2 DEF PrivatePlace, Place
<1>4. /\ Len(frames') = Len(frames) /\ frames'[Len(frames)].maps = {PrivatePlace}
      /\ frames'[Len(frames)].content = <<"zero">>
  BY <1>1, HandedOver DEF MapPackage, At
<1>5. frames'[Len(frames)].pages = Mega
  <2>1. FramePages = Mega
    BY <1>1 DEF FramePages
  <2> QED
    BY <2>1, HandedPages
<1> DEFINE frame == frames'[Len(frames')]
<1>6. frame.maps = {PrivatePlace} /\ frame.content = <<"zero">> /\ frame.pages = Mega
  BY <1>4, <1>5
<1>7. \A v : MemoryAt(frames', v) = MemoryAt(frames, v) \cup RegionsOf(frame, v)
  BY HandedReach
<1> HIDE DEF frame
<1>8. RegionsOf(frame, prog) =
        {Region(PrivatePlace.vaddr, Mega, PrivatePlace.perms, <<"zero">>)}
  <2>1. {x \in frame.maps : x.vspace = prog} = {PrivatePlace}
    BY <1>3, <1>6
  <2> QED
    BY <1>6, <2>1 DEF RegionsOf
<1>9. ASSUME NEW v, v # prog
      PROVE  RegionsOf(frame, v) = {}
  <2>1. {x \in frame.maps : x.vspace = v} = {}
    BY <1>3, <1>6, <1>9
  <2> QED
    BY <2>1 DEF RegionsOf
<1>10. PrivatePlace = CASE pc = "image" -> Place(prog, This.image[i].vaddr, This.image[i].perms)
                        [] pc = "stack" -> Place(prog, STACK_VADDR, {"R", "W"})
                        [] pc = "heap"  -> Place(prog, HEAP_VADDR + (i - 1) * Mega, {"R", "W"})
  BY <1>1, <1>2 DEF PrivatePlace
<1> QED
  BY <1>7, <1>8, <1>9, <1>10

(* The frames a program sees while it is loaded are seen by it alone.      *)
LEMMA SeenByOne ==
  ASSUME TypeOK, Counting, Declared, Numbered, HasVSpace, pc # "tcb",
         NEW f \in DOMAIN frames, NEW m \in frames[f].maps, m.vspace = prog
  PROVE  \A n \in frames[f].maps : n.vspace = prog
<1>1. CASE \A n, o \in frames[f].maps : n.vspace = o.vspace
  BY <1>1
<1>2. CASE \E w \in DOMAIN demo.wires : \A n \in frames[f].maps : DeclaredAt(w, n)
  <2>1. PICK k \in DOMAIN tcbs : tcbs[k].vspace = m.vspace
    BY <1>2 DEF DeclaredAt
  <2>2. k = prog
    BY <2>1 DEF Numbered
  <2>3. Len(tcbs) = prog - 1 /\ prog \in Nat /\ DOMAIN tcbs = 1..Len(tcbs)
    <3>1. prog \in Nat
      BY DemoFacts
    <3>2. Len(tcbs) = prog - 1
      BY DEF Counting, HasVSpace
    <3>3. DOMAIN tcbs = 1..Len(tcbs)
      BY LenProperties DEF TypeOK
    <3> QED
      BY <3>1, <3>2, <3>3
  <2> QED
    BY <2>1, <2>2, <2>3
<1> QED
  BY <1>1, <1>2 DEF Declared, DeclaredOf

(* Pass 3 writes what the program at hand sees, and nobody else's memory.  *)
Rewritten(r) == Region(r.vaddr, r.pages, r.perms, <<"zero", "image">>)
Written(regions) == {Rewritten(r) : r \in regions}

LEMMA RewrittenRegion ==
  ASSUME NEW vaddr, NEW pages, NEW perms, NEW content
  PROVE  Rewritten(Region(vaddr, pages, perms, content)) =
           Region(vaddr, pages, perms, <<"zero", "image">>)
BY DEF Rewritten, Region

LEMMA FilledReach ==
  ASSUME TypeOK, Counting, Handing, Slotting, Contents, Declared, Numbered, FillImage
  PROVE  /\ MemoryAt(frames', prog) = Written(MemoryAt(frames, prog))
         /\ \A v : v # prog => MemoryAt(frames', v) = MemoryAt(frames, v)
         /\ pc = "fill" /\ i = 1
<1>1. pc = "fill" /\ i = 1 /\ HasVSpace /\ Unfilled
  <2>1. pc = "fill" /\ i <= 1 /\ i \in Nat \ {0}
    BY DEF FillImage, At, Rounds, TypeOK
  <2> QED
    BY <2>1 DEF HasVSpace, Unfilled, LoadPhases
<1>2. ThisVSpace = prog /\ vspaces = prog
  BY <1>1, CapFacts DEF Slotting, Naming, Numbered, LoadPhases, ThisVSpace
<1>3. frames' = [f \in DOMAIN frames |->
                   IF InThisVSpace(f)
                   THEN [frames[f] EXCEPT !.content = Append(@, "image")]
                   ELSE frames[f]]
  BY DEF FillImage
<1>4. DOMAIN frames' = DOMAIN frames
  BY <1>3
<1>5. ASSUME NEW f \in DOMAIN frames
      PROVE  /\ RegionsOf(frames'[f], prog) = Written(RegionsOf(frames[f], prog))
             /\ \A v : v # prog => RegionsOf(frames'[f], v) = RegionsOf(frames[f], v)
  <2>1. frames[f] \in Frames
    BY LenProperties, ElementOfSeq DEF TypeOK
  <2>2. CASE InThisVSpace(f)
    <3>1. PICK m \in frames[f].maps : m.vspace = prog
      BY <1>2, <2>2 DEF InThisVSpace
    <3>2. \A n \in frames[f].maps : n.vspace = prog
      BY <1>1, <3>1, SeenByOne
    <3>3. frames[f].content = <<"zero">>
      BY <1>1, <1>2, <3>1 DEF Contents, ContentOf
    <3>4. frames'[f] = [frames[f] EXCEPT !.content = Append(@, "image")]
      BY <1>3, <2>2
    <3>5. /\ frames'[f].maps = frames[f].maps /\ frames'[f].pages = frames[f].pages
          /\ frames'[f].content = <<"zero", "image">>
      BY <2>1, <3>3, <3>4, AppendToOne DEF Frames
    <3>6. RegionsOf(frames'[f], prog) = Written(RegionsOf(frames[f], prog))
      <4>1. RegionsOf(frames'[f], prog) =
              {Region(n.vaddr, frames[f].pages, n.perms, <<"zero", "image">>) :
                 n \in {x \in frames[f].maps : x.vspace = prog}}
        BY <3>5 DEF RegionsOf
      <4>2. RegionsOf(frames[f], prog) =
              {Region(n.vaddr, frames[f].pages, n.perms, frames[f].content) :
                 n \in {x \in frames[f].maps : x.vspace = prog}}
        BY DEF RegionsOf
      <4> QED
        BY <4>1, <4>2, RewrittenRegion DEF Written
    <3>7. ASSUME NEW v, v # prog
          PROVE  RegionsOf(frames'[f], v) = RegionsOf(frames[f], v)
      <4>1. {x \in frames[f].maps : x.vspace = v} = {}
        BY <3>2, <3>7
      <4> QED
        BY <3>5, <4>1 DEF RegionsOf
    <3> QED
      BY <3>6, <3>7
  <2>3. CASE ~InThisVSpace(f)
    <3>1. frames'[f] = frames[f]
      BY <1>3, <2>3
    <3>2. {x \in frames[f].maps : x.vspace = prog} = {}
      BY <1>2, <2>3 DEF InThisVSpace
    <3>3. RegionsOf(frames[f], prog) = {}
      BY <3>2 DEF RegionsOf
    <3> QED
      BY <3>1, <3>3 DEF Written
  <2> QED
    BY <2>2, <2>3
<1>6. ASSUME NEW v, v # prog
      PROVE  MemoryAt(frames', v) = MemoryAt(frames, v)
  <2>1. \A f \in DOMAIN frames : RegionsOf(frames'[f], v) = RegionsOf(frames[f], v)
    BY <1>5, <1>6
  <2> QED
    BY <1>4, <2>1 DEF MemoryAt
<1>7. MemoryAt(frames', prog) = Written(MemoryAt(frames, prog))
  <2>1. ASSUME NEW r \in MemoryAt(frames', prog)
        PROVE  r \in Written(MemoryAt(frames, prog))
    <3>1. PICK f \in DOMAIN frames : r \in RegionsOf(frames'[f], prog)
      BY <1>4, <2>1 DEF MemoryAt
    <3>2. r \in Written(RegionsOf(frames[f], prog))
      BY <1>5, <3>1
    <3> QED
      BY <3>2 DEF MemoryAt, Written
  <2>2. ASSUME NEW r \in Written(MemoryAt(frames, prog))
        PROVE  r \in MemoryAt(frames', prog)
    <3>1. PICK f \in DOMAIN frames : r \in Written(RegionsOf(frames[f], prog))
      BY <2>2 DEF MemoryAt, Written
    <3>2. r \in RegionsOf(frames'[f], prog)
      BY <1>5, <3>1
    <3> QED
      BY <1>4, <3>2 DEF MemoryAt
  <2> QED
    BY <2>1, <2>2
<1> QED
  BY <1>1, <1>6, <1>7

(* What a ProgramSpec declares of memory, one round later.                 *)
LEMMA MemoryFacts ==
  ASSUME NEW d, NEW p, NEW c
  PROVE  /\ MemoryUpTo(d, p, 0, c, 0, 0) = {}
         /\ StackUpTo(0) = {} /\ HeapUpTo(0) = {}
         /\ StackUpTo(1) = {Region(STACK_VADDR, Mega, {"R", "W"}, <<"zero">>)}
         /\ \A n \in Nat :
              HeapUpTo(n + 1) =
                   HeapUpTo(n) \cup {Region(HEAP_VADDR + n * Mega, Mega, {"R", "W"}, <<"zero">>)}
<1>1. ImageUpTo(d, p, 0, c) = {} /\ StackUpTo(0) = {} /\ HeapUpTo(0) = {}
  BY DEF ImageUpTo, StackUpTo, HeapUpTo
<1>2. StackUpTo(1) = {Region(STACK_VADDR, Mega, {"R", "W"}, <<"zero">>)}
  BY DEF StackUpTo
<1>3. ASSUME NEW n \in Nat
      PROVE  HeapUpTo(n + 1) =
               HeapUpTo(n) \cup {Region(HEAP_VADDR + n * Mega, Mega, {"R", "W"}, <<"zero">>)}
  <2>1. 0..((n + 1) - 1) = 0..(n - 1) \cup {n}
    OBVIOUS
  <2> QED
    BY <2>1 DEF HeapUpTo
<1> QED
  BY <1>1, <1>2, <1>3 DEF MemoryUpTo

(* The image, one megapage later.                                          *)
LEMMA ImageGain ==
  ASSUME NEW d, NEW p, NEW c, NEW n \in Nat
  PROVE  ImageUpTo(d, p, n + 1, c) = ImageUpTo(d, p, n, c) \cup
           {Region(d.programs[p].image[n + 1].vaddr, Mega,
                   d.programs[p].image[n + 1].perms, c)}
<1>1. 1..(n + 1) = 1..n \cup {n + 1}
  OBVIOUS
<1> QED
  BY <1>1 DEF ImageUpTo

(* Once written, the image is declared with its file bytes.                *)
LEMMA ImageWritten ==
  ASSUME NEW d, NEW p, NEW n, NEW c
  PROVE  ImageUpTo(d, p, n, <<"zero", "image">>) = Written(ImageUpTo(d, p, n, c))
BY RewrittenRegion DEF ImageUpTo, Written

(* From one loop to the next no more memory is declared.                   *)
LEMMA BehindMemoryKept ==
  ASSUME TypeOK, Bounded, NextPhase, HasVSpace'
  PROVE  /\ HasVSpace /\ prog' = prog /\ demo' = demo /\ frames' = frames
         /\ ImageBehind' = ImageBehind /\ ImageContent' = ImageContent
         /\ StackBehind' = StackBehind /\ HeapBehind' = HeapBehind
<1>1. /\ i > Rounds /\ i' = 1 /\ pc \in DOMAIN Then /\ demo' = demo /\ frames' = frames
      /\ pc' = (IF pc = "tcb" /\ prog < Len(demo.programs) THEN "vspace" ELSE Then[pc])
      /\ prog' = IF pc = "tcb" /\ prog < Len(demo.programs) THEN prog + 1 ELSE prog
  BY DEF NextPhase, given, objects
<1>2. /\ i \in Nat /\ Rounds \in Nat /\ i <= Rounds + 1
  BY <1>1, RoundsType DEF TypeOK, Bounded
<1>3. i - 1 = Rounds
  BY <1>1, <1>2
<1>4. pc \in LoadPhases \ {"tcb"}
  BY <1>1 DEF HasVSpace, LoadPhases, Then
<1>5. pc' = Then[pc] /\ prog' = prog /\ pc' \in LoadPhases \ {"vspace"}
  BY <1>1, <1>4 DEF LoadPhases, Then
<1>6. This' = This
  BY <1>1, <1>5, SameThis
<1>7. CASE pc = "vspace"
  <2>1. pc' = "image" /\ i = 2
    BY <1>2, <1>3, <1>5, <1>7 DEF Then, Rounds
  <2>2. Unfilled /\ Unfilled' /\ HasVSpace
    BY <1>1, <1>7, <2>1 DEF Unfilled, HasVSpace, LoadPhases
  <2> QED
    BY <1>1, <1>5, <1>6, <1>7, <2>1, <2>2
    DEF ImageBehind, ImageContent, StackBehind, HeapBehind
<1>8. CASE pc = "image"
  <2>1. pc' = "fill" /\ i - 1 = Len(This.image)
    BY <1>3, <1>5, <1>8 DEF Then, Rounds
  <2>2. Unfilled /\ Unfilled' /\ HasVSpace
    BY <1>1, <1>8, <2>1 DEF Unfilled, HasVSpace, LoadPhases
  <2> QED
    BY <1>1, <1>5, <1>6, <1>8, <2>1, <2>2
    DEF ImageBehind, ImageContent, StackBehind, HeapBehind
<1>9. CASE pc = "fill"
  <2>1. pc' = "stack" /\ i = 2
    BY <1>2, <1>3, <1>5, <1>9 DEF Then, Rounds
  <2>2. ~Unfilled /\ ~Unfilled' /\ HasVSpace
    BY <1>1, <1>9, <2>1 DEF Unfilled, HasVSpace, LoadPhases
  <2> QED
    BY <1>1, <1>5, <1>6, <1>9, <2>1, <2>2
    DEF ImageBehind, ImageContent, StackBehind, HeapBehind
<1>10. CASE pc \in LoadPhases \ {"vspace", "image", "fill", "tcb"}
  <2>1. ~Unfilled /\ ~Unfilled' /\ HasVSpace
    BY <1>5, <1>10 DEF Unfilled, HasVSpace, LoadPhases, Then
  <2>2. ImageContent' = ImageContent /\ ImageBehind' = ImageBehind
    BY <1>5, <1>6, <1>10, <2>1 DEF ImageBehind, ImageContent, LoadPhases, Then
  <2>3. CASE pc = "stack"
    <3>1. pc' = "heap" /\ i = 2
      BY <1>2, <1>3, <1>5, <2>3 DEF Then, Rounds
    <3> QED
      BY <1>1, <1>5, <1>6, <2>1, <2>2, <2>3, <3>1 DEF StackBehind, HeapBehind
  <2>4. CASE pc = "heap"
    <3>1. pc' = "cnode" /\ i - 1 = This.heap
      BY <1>3, <1>5, <2>4 DEF Then, Rounds
    <3> QED
      BY <1>1, <1>5, <1>6, <2>1, <2>2, <2>4, <3>1 DEF StackBehind, HeapBehind
  <2>5. CASE pc \notin {"stack", "heap"}
    <3>1. pc' \notin {"vspace", "image", "fill", "stack", "heap"}
      BY <1>5, <1>10, <2>5 DEF Then, LoadPhases
    <3> QED
      BY <1>1, <1>5, <1>6, <1>10, <2>1, <2>2, <2>5, <3>1
      DEF StackBehind, HeapBehind, LoadPhases
  <2> QED
    BY <2>3, <2>4, <2>5
<1> QED
  BY <1>4, <1>7, <1>8, <1>9, <1>10

(* Every step keeps Furnished.                                             *)
LEMMA FurnishedStep ==
  ASSUME IInv, FInv, RInv, [Next]_vars
  PROVE  Furnished'
<1>1. /\ Numbered /\ Sized /\ Furnished /\ Bounded
      /\ TypeOK /\ Counting /\ Handing /\ Memory /\ Slotting /\ Contents /\ Declared
  BY DEF RInv, IInv, FInv
<1>2. i \in Nat \ {0} /\ prog \in Nat \ {0}
  <2>1. prog \in Nat \ {0}
    BY <1>1, DemoFacts
  <2> QED
    BY <1>1, <2>1 DEF TypeOK
<1> DEFINE Declares == MemoryUpTo(demo, prog, ImageBehind, ImageContent, StackBehind, HeapBehind)
<1>3. SUFFICES ASSUME HasVSpace'
               PROVE  MemoryAt(frames', prog') = Declares'
  BY DEF Furnished
<1>4. ASSUME HasVSpace, demo' = demo, prog' = prog,
             MemoryAt(frames', prog) = MemoryAt(frames, prog),
             ImageBehind' = ImageBehind, ImageContent' = ImageContent,
             StackBehind' = StackBehind, HeapBehind' = HeapBehind
      PROVE  MemoryAt(frames', prog') = Declares'
  <2>1. MemoryAt(frames, prog) = Declares
    BY <1>1, <1>4 DEF Furnished
  <2> QED
    BY <1>4, <2>1
<1>5. CASE NextPhase
  BY <1>1, <1>3, <1>4, <1>5, BehindMemoryKept
<1>6. CASE InRound
  <2>1. pc' = pc /\ i' = i /\ prog' = prog /\ demo' = demo
    BY <1>6, StepKinds
  <2>2. MemoryAt(frames', prog) = MemoryAt(frames, prog)
    BY <1>1, <1>6, SilentFrames DEF InRound, vars, objects
  <2>3. HasVSpace /\ Unfilled' = Unfilled
    BY <1>3, <2>1 DEF HasVSpace, Unfilled
  <2>4. /\ ImageBehind' = ImageBehind /\ ImageContent' = ImageContent
        /\ StackBehind' = StackBehind /\ HeapBehind' = HeapBehind
    BY <2>1, <2>3, SameThis DEF ImageBehind, ImageContent, StackBehind, HeapBehind
  <2> QED
    BY <1>4, <2>1, <2>2, <2>3, <2>4
<1>7. CASE EndsRound
  <2>1. pc' = pc /\ i' = i + 1 /\ prog' = prog /\ demo' = demo /\ i <= Rounds
    BY <1>7, StepKinds
  <2>2. This' = This
    BY <2>1, SameThis
  <2>3. CASE CreateVSpace
    <3>1. pc = "vspace" /\ i = 1 /\ frames' = frames
      BY <1>2, <2>1, <2>3 DEF CreateVSpace, At, Rounds
    <3>2. vspaces = prog - 1
      BY <1>1, <3>1 DEF Numbered, HasVSpace, LoadPhases
    <3>3. ASSUME NEW f \in DOMAIN frames
          PROVE  RegionsOf(frames[f], prog) = {}
      <4>1. \A m \in frames[f].maps : m.vspace # prog
        BY <1>1, <1>2, <3>2 DEF Contents, ContentOf
      <4>2. {x \in frames[f].maps : x.vspace = prog} = {}
        BY <4>1
      <4> QED
        BY <4>2 DEF RegionsOf
    <3>4. MemoryAt(frames', prog) = {}
      BY <3>1, <3>3 DEF MemoryAt
    <3>5. ImageBehind' = 0 /\ StackBehind' = 0 /\ HeapBehind' = 0
      BY <2>1, <3>1 DEF ImageBehind, StackBehind, HeapBehind
    <3>6. Declares' = MemoryUpTo(demo, prog, 0, ImageContent', 0, 0)
      BY <2>1, <3>5
    <3> QED
      BY <2>1, <3>4, <3>6, MemoryFacts
  <2>4. CASE MapPrivateFrame
    <3>1. MemoryAt(frames', prog) = MemoryAt(frames, prog) \cup
            {Region(PrivatePlace.vaddr, Mega, PrivatePlace.perms, <<"zero">>)}
      BY <1>1, <2>4, PrivateReach
    <3>2. pc \in {"image", "stack", "heap"} /\ HasVSpace
      BY <2>4 DEF MapPrivateFrame, At, HasVSpace, LoadPhases
    <3>3. MemoryAt(frames, prog) = Declares
      BY <1>1, <3>2 DEF Furnished
    <3>4. CASE pc = "image"
      <4>1. PrivatePlace = Place(prog, This.image[i].vaddr, This.image[i].perms)
        BY <1>1, <2>4, <3>4, PrivateReach
      <4>2. /\ ImageBehind = i - 1 /\ ImageBehind' = i /\ StackBehind' = StackBehind
            /\ HeapBehind' = HeapBehind /\ ImageContent = <<"zero">> /\ ImageContent' = <<"zero">>
        BY <1>2, <2>1, <3>4
        DEF ImageBehind, StackBehind, HeapBehind, ImageContent, Unfilled, HasVSpace, LoadPhases
      <4>3. ImageUpTo(demo, prog, i, <<"zero">>) = ImageUpTo(demo, prog, i - 1, <<"zero">>) \cup
              {Region(This.image[i].vaddr, Mega, This.image[i].perms, <<"zero">>)}
        <5>1. ASSUME NEW n \in Nat
              PROVE  ImageUpTo(demo, prog, n + 1, <<"zero">>) =
                       ImageUpTo(demo, prog, n, <<"zero">>) \cup
                         {Region(demo.programs[prog].image[n + 1].vaddr, Mega,
                                 demo.programs[prog].image[n + 1].perms, <<"zero">>)}
          BY ImageGain
        <5>2. i - 1 \in Nat /\ (i - 1) + 1 = i
          BY <1>2
        <5>3. ImageUpTo(demo, prog, (i - 1) + 1, <<"zero">>) =
                ImageUpTo(demo, prog, i - 1, <<"zero">>) \cup
                  {Region(demo.programs[prog].image[(i - 1) + 1].vaddr, Mega,
                          demo.programs[prog].image[(i - 1) + 1].perms, <<"zero">>)}
          BY <5>1, <5>2
        <5> QED
          BY <5>2, <5>3 DEF This
      <4> QED
        BY <2>1, <3>1, <3>3, <4>1, <4>2, <4>3 DEF MemoryUpTo, Place
    <3>5. CASE pc = "stack"
      <4>1. PrivatePlace = Place(prog, STACK_VADDR, {"R", "W"})
        BY <1>1, <2>4, <3>5, PrivateReach
      <4>2. /\ StackBehind = 0 /\ StackBehind' = 1 /\ ImageBehind' = ImageBehind
            /\ HeapBehind' = HeapBehind /\ ImageContent' = ImageContent
        <5>1. i = 1
          BY <1>2, <2>1, <3>5 DEF Rounds
        <5>2. ~Unfilled /\ ~Unfilled'
          BY <2>1, <3>5 DEF Unfilled
        <5> QED
          BY <2>1, <2>2, <3>5, <5>1, <5>2
          DEF ImageBehind, StackBehind, HeapBehind, ImageContent
      <4>3. /\ StackUpTo(0) = {}
            /\ StackUpTo(1) = {Region(STACK_VADDR, Mega, {"R", "W"}, <<"zero">>)}
        BY MemoryFacts
      <4> QED
        BY <2>1, <3>1, <3>3, <4>1, <4>2, <4>3 DEF MemoryUpTo, Place
    <3>6. CASE pc = "heap"
      <4>1. PrivatePlace = Place(prog, HEAP_VADDR + (i - 1) * Mega, {"R", "W"})
        BY <1>1, <2>4, <3>6, PrivateReach
      <4>2. /\ HeapBehind = i - 1 /\ HeapBehind' = i /\ ImageBehind' = ImageBehind
            /\ StackBehind' = StackBehind /\ ImageContent' = ImageContent
        <5>1. ~Unfilled /\ ~Unfilled'
          BY <2>1, <3>6 DEF Unfilled
        <5> QED
          BY <1>2, <2>1, <2>2, <3>6, <5>1
          DEF ImageBehind, StackBehind, HeapBehind, ImageContent
      <4>3. HeapUpTo(i) = HeapUpTo(i - 1) \cup
              {Region(HEAP_VADDR + (i - 1) * Mega, Mega, {"R", "W"}, <<"zero">>)}
        <5>1. i - 1 \in Nat /\ (i - 1) + 1 = i
          BY <1>2
        <5> QED
          BY <5>1, MemoryFacts
      <4> QED
        BY <2>1, <3>1, <3>3, <4>1, <4>2, <4>3 DEF MemoryUpTo, Place
    <3> QED
      BY <3>2, <3>4, <3>5, <3>6
  <2>5. CASE FillImage
    <3>1. /\ MemoryAt(frames', prog) = Written(MemoryAt(frames, prog))
          /\ pc = "fill" /\ i = 1
      BY <1>1, <2>5, FilledReach
    <3>2. /\ ImageBehind = Len(This.image) /\ ImageBehind' = Len(This.image)
          /\ StackBehind = 0 /\ StackBehind' = 0 /\ HeapBehind = 0 /\ HeapBehind' = 0
          /\ ImageContent = <<"zero">> /\ ImageContent' = <<"zero", "image">> /\ HasVSpace
      BY <2>1, <2>2, <3>1
      DEF ImageBehind, StackBehind, HeapBehind, ImageContent, Unfilled, HasVSpace, LoadPhases
    <3>3. MemoryAt(frames, prog) = Declares
      BY <1>1, <3>2 DEF Furnished
    <3>4. /\ Declares = ImageUpTo(demo, prog, Len(This.image), <<"zero">>)
          /\ Declares' = ImageUpTo(demo, prog, Len(This.image), <<"zero", "image">>)
      BY <2>1, <3>2, MemoryFacts DEF MemoryUpTo
    <3>5. Len(This.image) \in Nat
      BY <1>1, OptionFacts, LenProperties
    <3>6. ImageUpTo(demo, prog, Len(This.image), <<"zero", "image">>) =
            Written(ImageUpTo(demo, prog, Len(This.image), <<"zero">>))
      BY ImageWritten
    <3> QED
      BY <2>1, <3>1, <3>3, <3>4, <3>6
  <2>6. CASE CreateCNode \/ GrantObject \/ GrantSelfCNode \/ OpenArena \/ GrantArenaFrame \/ CreateThread
    <3>1. /\ frames' = frames
          /\ pc \in {"cnode", "grants", "self", "scratch", "arena", "tcb"}
      BY <2>6 DEF CreateCNode, GrantObject, GrantSelfCNode, OpenArena, GrantArenaFrame,
                  CreateThread, At
    <3>2. HasVSpace /\ ~Unfilled /\ ~Unfilled'
      BY <2>1, <3>1 DEF HasVSpace, Unfilled, LoadPhases
    <3>3. /\ ImageBehind' = ImageBehind /\ ImageContent' = ImageContent
          /\ StackBehind' = StackBehind /\ HeapBehind' = HeapBehind
      BY <2>1, <2>2, <3>1, <3>2 DEF ImageBehind, ImageContent, StackBehind, HeapBehind
    <3> QED
      BY <1>4, <2>1, <3>1, <3>2, <3>3
  <2> QED
    <3>1. pc \in LoadPhases
      BY <1>3, <2>1 DEF HasVSpace
    <3> QED
      BY <1>7, <2>3, <2>4, <2>5, <2>6, <3>1
      DEF EndsRound, RetypeRootObject, MintRootObject, MapSharedFrame, MapPackage,
          MapDeviceFrame, MakeReady, At, LoadPhases
<1>8. CASE EnterFirstThread \/ Panic
  BY <1>3, <1>8 DEF EnterFirstThread, Panic, HasVSpace, LoadPhases
<1> QED
  BY <1>5, <1>6, <1>7, <1>8, StepKinds

-----------------------------------------------------------------------------
(* The inductive invariant holds.                                          *)

(* At the start nothing has been handed to anybody.                        *)
LEMMA InitRInv ==
  ASSUME Init
  PROVE  RInv
<1>1. /\ pc = "root" /\ i = 1 /\ prog = 1 /\ vspaces = 0 /\ spaces = <<>> /\ tcbs = <<>>
      /\ handles = <<>> /\ stage = "retype"
  BY DEF Init
<1>2. ~HasVSpace /\ ~HasCNode
  BY <1>1 DEF HasVSpace, HasCNode, LoadPhases
<1>3. Bounded
  <2>1. TypeOK
    BY InitIInv DEF IInv
  <2>2. Rounds \in Nat
    BY <2>1, RoundsType
  <2> QED
    BY <1>1, <2>2 DEF Bounded
<1>4. Numbered
  BY <1>1, <1>2 DEF Numbered
<1> QED
  BY <1>1, <1>2, <1>3, <1>4 DEF RInv, Handled, Sized, Endowed, Furnished

LEMMA StepRInv ==
  ASSUME IInv, FInv, RInv, [Next]_vars
  PROVE  RInv'
<1>1. TypeOK /\ Counting /\ Handing /\ Slotting /\ TypeOK'
  BY StepIInv DEF IInv, FInv
<1>2. Bounded' /\ Numbered'
  BY <1>1, BoundedStep, NumberedStep DEF RInv
<1>3. Handled' /\ Sized'
  BY <1>1, HandledStep, SizedStep DEF RInv, IInv, FInv
<1>4. Endowed' /\ Furnished'
  BY <1>1, EndowedStep, FurnishedStep
<1> QED
  BY <1>2, <1>3, <1>4 DEF RInv

(* At every step of load the program at hand holds and sees what its       *)
(* ProgramSpec declares up to there, whatever is launched.                 *)
THEOREM EndowmentInvariance == Spec => [](IInv /\ FInv /\ RInv /\ RunQueueSound)
<1>1. Spec => [](IInv /\ FInv)
  BY FrameInvariance
<1>2. IInv /\ FInv /\ RInv /\ [Next]_vars => RInv'
  BY StepRInv
<1>3. Spec => []RunQueueSound
  BY QueueIsSound
<1> QED
  BY <1>1, <1>2, <1>3, InitRInv, PTL DEF Spec

-----------------------------------------------------------------------------
(* What AbstractLaunch says a program gets, in the words of this module.   *)

LEMMA GrantMeans ==
  ASSUME NEW d, IsDescription(d), NEW g, g.from \in DOMAIN d.root
  PROVE  Seen(g.to, RootCap(d, g.from)) = Abstract!Granted(d, g)
<1>1. d.root \in Seq(RootObjects) /\ Source(d, g.from) = Abstract!Named(d, g.from)
  BY DEF IsDescription, Descriptions, Source, Abstract!Named
<1>2. Source(d, g.from) \in DOMAIN d.root
  <2>1. /\ DOMAIN d.root = 1..Len(d.root) /\ g.from \in Nat
        /\ d.root[g.from].op = "Mint" => d.root[g.from].src \in 1..(g.from - 1)
        /\ Len(d.root) \in Nat
    BY <1>1, LenProperties DEF IsDescription
  <2>2. d.root[g.from].op = "Mint" => d.root[g.from].src \in 1..Len(d.root)
    BY <2>1
  <2> QED
    BY <2>1, <2>2 DEF Source
<1>3. d.root[Source(d, g.from)].op # "Frame"
  <2>1. d.root[Source(d, g.from)] \in RootObjects
    BY <1>1, <1>2, ElementOfSeq, LenProperties
  <2> QED
    BY <2>1 DEF RootObjects
<1> QED
  BY <1>1, <1>3 DEF Seen, RootCap, Abstract!Granted, Abstract!Held

(* All of a program's authority.                                           *)
LEMMA AuthorityMeans ==
  ASSUME NEW d, IsDescription(d), NEW p \in DOMAIN d.programs, NEW grants,
         NEW self, NEW arena, NEW megapages,
         DOMAIN d.programs[p].grants = 1..grants,
         self > 0 \/ d.programs[p].selfCNode = {}, arena > 0 \/ d.programs[p].arena = {},
         \A a \in d.programs[p].arena : a.megapages = megapages
  PROVE  AuthorityUpTo(d, p, grants, self, arena, megapages) = Abstract!Authority(d, p)
<1> DEFINE spec == d.programs[p]
<1>1. GrantsUpTo(d, p, grants) = {Abstract!Granted(d, spec.grants[k]) : k \in DOMAIN spec.grants}
  <2>1. \A k \in DOMAIN spec.grants : spec.grants[k].from \in DOMAIN d.root
    BY DEF IsDescription
  <2>2. ASSUME NEW k \in DOMAIN spec.grants
        PROVE  Seen(spec.grants[k].to, RootCap(d, spec.grants[k].from)) =
                 Abstract!Granted(d, spec.grants[k])
    BY <2>1, GrantMeans
  <2> QED
    BY <2>2 DEF GrantsUpTo
<1>2. SelfUpTo(d, p, self) =
        {Abstract!Held(s, "CNode", p, "ALL", 0) : s \in spec.selfCNode}
  <2>1. \A s : Seen(s, Cap("CNode", p)) = Abstract!Held(s, "CNode", p, "ALL", 0)
    BY DEF Seen, Cap, Abstract!Held
  <2>2. (IF self > 0 THEN spec.selfCNode ELSE {}) = spec.selfCNode
    OBVIOUS
  <2> QED
    BY <2>1, <2>2 DEF SelfUpTo
<1>3. ArenaUpTo(d, p, arena) =
        {Abstract!Held(a.selfVSpace, "VSpace", p, "ALL", 0) : a \in spec.arena}
  <2>1. \A s : Seen(s, Cap("VSpace", p)) = Abstract!Held(s, "VSpace", p, "ALL", 0)
    BY DEF Seen, Cap, Abstract!Held
  <2>2. (IF arena > 0 THEN spec.arena ELSE {}) = spec.arena
    OBVIOUS
  <2> QED
    BY <2>1, <2>2 DEF ArenaUpTo
<1>4. ArenaFramesUpTo(d, p, megapages) =
        UNION {{Abstract!Held(s, "Frame", 0, "ALL", 0) :
                  s \in a.frameBase..(a.frameBase + a.megapages - 1)} : a \in spec.arena}
  <2>1. \A s : Seen(s, Cap("Frame", 0)) = Abstract!Held(s, "Frame", 0, "ALL", 0)
    BY DEF Seen, Cap, Abstract!Held
  <2>2. ASSUME NEW a \in spec.arena
        PROVE  {Seen(s, Cap("Frame", 0)) : s \in a.frameBase..(a.frameBase + megapages - 1)} =
               {Abstract!Held(s, "Frame", 0, "ALL", 0) :
                  s \in a.frameBase..(a.frameBase + a.megapages - 1)}
    BY <2>1
  <2> QED
    BY <2>2 DEF ArenaFramesUpTo
<1> QED
  BY <1>1, <1>2, <1>3, <1>4 DEF AuthorityUpTo, Abstract!Authority

(* All of its own memory.                                                  *)
LEMMA PrivateMeans ==
  ASSUME NEW d, NEW p, NEW image, DOMAIN d.programs[p].image = 1..image
  PROVE  MemoryUpTo(d, p, image, <<"zero", "image">>, 1, d.programs[p].heap) =
           Abstract!Private(d, p)
<1>1. ASSUME NEW vaddr, NEW pages, NEW perms, NEW content
      PROVE  Region(vaddr, pages, perms, content) = Abstract!Region(vaddr, pages, perms, content)
  BY DEF Region, Abstract!Region
<1>2. ImageUpTo(d, p, image, <<"zero", "image">>) =
        {Abstract!Region(d.programs[p].image[k].vaddr, Mega, d.programs[p].image[k].perms,
                         <<"zero", "image">>) : k \in DOMAIN d.programs[p].image}
  BY <1>1 DEF ImageUpTo
<1>3. StackUpTo(1) = {Abstract!Region(STACK_VADDR, Mega, {"R", "W"}, <<"zero">>)}
  BY <1>1 DEF StackUpTo
<1>4. HeapUpTo(d.programs[p].heap) =
        {Abstract!Region(HEAP_VADDR + k * Mega, Mega, {"R", "W"}, <<"zero">>) :
           k \in 0..(d.programs[p].heap - 1)}
  BY <1>1 DEF HeapUpTo
<1>5. /\ Abstract!Mega = Mega /\ Abstract!STACK_VADDR = STACK_VADDR
      /\ Abstract!HEAP_VADDR = HEAP_VADDR
  BY DEF Abstract!Mega, Mega, Abstract!STACK_VADDR, STACK_VADDR, Abstract!HEAP_VADDR, HEAP_VADDR
<1> QED
  BY <1>2, <1>3, <1>4, <1>5 DEF MemoryUpTo, Abstract!Private

(* What a wire maps, and how.                                              *)
CarriedBy(w, frame, perms) ==
  \/ /\ w.op = "Shared" /\ frame.pages = Small /\ perms = {"R", "W"}
     /\ frame.content = <<"zero">>
  \/ /\ w.op = "Package" /\ frame.pages = Mega /\ perms = {"R"}
     /\ frame.content = <<"zero", "package">>
  \/ /\ w.op = "Device" /\ frame.pages = Mega /\ perms = {"R", "W"}
     /\ frame.content = <<>>
PlacesOf(w, perms) == {Place(w.to[k].prog, w.to[k].vaddr, perms) : k \in DOMAIN w.to}

(* It comes into the reach of the programs the wire names, and no other's. *)
LEMMA WiredMeans ==
  ASSUME NEW w, NEW p, NEW frame, NEW perms, CarriedBy(w, frame, perms),
         frame.maps = PlacesOf(w, perms)
  PROVE  RegionsOf(frame, p) = Abstract!WiredInto(w, p)
<1> DEFINE Ends == {j \in DOMAIN w.to : w.to[j].prog = p}
           Seg(k) == Region(w.to[k].vaddr, frame.pages, perms, frame.content)
<1>1. RegionsOf(frame, p) = {Seg(k) : k \in Ends}
  <2>1. ASSUME NEW r \in RegionsOf(frame, p)
        PROVE  r \in {Seg(k) : k \in Ends}
    <3>1. PICK m \in frame.maps :
            m.vspace = p /\ r = Region(m.vaddr, frame.pages, m.perms, frame.content)
      BY <2>1 DEF RegionsOf
    <3>2. PICK k \in DOMAIN w.to : m = Place(w.to[k].prog, w.to[k].vaddr, perms)
      BY <3>1 DEF PlacesOf
    <3>3. m.vspace = w.to[k].prog /\ m.vaddr = w.to[k].vaddr /\ m.perms = perms
      BY <3>2 DEF Place
    <3> QED
      BY <3>1, <3>3
  <2>2. ASSUME NEW k \in Ends
        PROVE  Seg(k) \in RegionsOf(frame, p)
    <3> DEFINE m == Place(w.to[k].prog, w.to[k].vaddr, perms)
    <3>1. m \in frame.maps
      BY DEF PlacesOf
    <3>2. m.vspace = p /\ m.vaddr = w.to[k].vaddr /\ m.perms = perms
      BY DEF Place
    <3> HIDE DEF m
    <3>3. Region(m.vaddr, frame.pages, m.perms, frame.content) \in RegionsOf(frame, p)
      BY <3>1, <3>2 DEF RegionsOf
    <3> QED
      BY <3>2, <3>3
  <2> QED
    BY <2>1, <2>2
<1>2. /\ Abstract!Mega = Mega /\ Abstract!Small = Small
      /\ \A vaddr, pages, x, content :
           Abstract!Region(vaddr, pages, x, content) = Region(vaddr, pages, x, content)
  BY DEF Abstract!Mega, Mega, Abstract!Small, Small, Region, Abstract!Region
<1>3. CASE w.op = "Shared"
  <2>1. Abstract!WiredInto(w, p) =
          {Abstract!Region(w.to[k].vaddr, Abstract!Small, {"R", "W"}, <<"zero">>) : k \in Ends}
    BY <1>3 DEF Abstract!WiredInto
  <2> QED
    BY <1>1, <1>2, <1>3, <2>1 DEF CarriedBy
<1>4. CASE w.op = "Package"
  <2>1. Abstract!WiredInto(w, p) =
          {Abstract!Region(w.to[k].vaddr, Abstract!Mega, {"R"}, <<"zero", "package">>) : k \in Ends}
    BY <1>4 DEF Abstract!WiredInto
  <2> QED
    BY <1>1, <1>2, <1>4, <2>1 DEF CarriedBy
<1>5. CASE w.op = "Device"
  <2>1. Abstract!WiredInto(w, p) =
          {Abstract!Region(w.to[k].vaddr, Abstract!Mega, {"R", "W"}, <<>>) : k \in Ends}
    BY <1>5 DEF Abstract!WiredInto
  <2> QED
    BY <1>1, <1>2, <1>5, <2>1 DEF CarriedBy
<1> QED
  BY <1>3, <1>4, <1>5 DEF CarriedBy

-----------------------------------------------------------------------------
(* What AbstractLaunch sees of a state.                                    *)

ViewOf(csps, frms, p, arg0) ==
  [caps |-> CapsAt(csps, p), memory |-> MemoryAt(frms, p), arg0 |-> arg0]

LEMMA ViewsMeans ==
  Numbered => Views = [p \in DOMAIN tcbs |-> ViewOf(spaces, frames, p, tcbs[p].arg0)]
<1> SUFFICES ASSUME Numbered
             PROVE  Views = [p \in DOMAIN tcbs |-> ViewOf(spaces, frames, p, tcbs[p].arg0)]
  OBVIOUS
<1>1. ASSUME NEW p \in DOMAIN tcbs
      PROVE  CapsOf(p) = CapsAt(spaces, p) /\ MemoryOf(p) = MemoryAt(frames, p)
  <2>1. tcbs[p].cspace = p /\ tcbs[p].vspace = p
    BY DEF Numbered
  <2>2. CapsOf(p) = CapsAt(spaces, p)
    BY <2>1 DEF CapsOf, CapsAt, Seen
  <2>3. MemoryOf(p) = MemoryAt(frames, p)
    BY <2>1 DEF MemoryOf, MemoryAt, RegionsOf, Region
  <2> QED
    BY <2>2, <2>3
<1> QED
  BY <1>1 DEF Views, ViewOf

LEMMA NextViewsMeans ==
  ASSUME Numbered'
  PROVE  Views' = [p \in DOMAIN tcbs' |-> ViewOf(spaces', frames', p, tcbs'[p].arg0)]
<1>1. (Numbered => Views = [p \in DOMAIN tcbs |-> ViewOf(spaces, frames, p, tcbs[p].arg0)])'
  BY ViewsMeans, PTL
<1> QED
  BY <1>1

LEMMA ViewsLength ==
  ASSUME TypeOK, Numbered
  PROVE  Len(Views) = Len(tcbs)
<1> DEFINE T == {Views[p] : p \in DOMAIN tcbs}
<1>1. DOMAIN tcbs = 1..Len(tcbs) /\ Len(tcbs) \in Nat
  BY LenProperties DEF TypeOK
<1>2. Views = [p \in DOMAIN tcbs |-> ViewOf(spaces, frames, p, tcbs[p].arg0)]
  BY ViewsMeans
<1>3. Views \in [1..Len(tcbs) -> T]
  BY <1>1, <1>2
<1> HIDE DEF T
<1> QED
  BY <1>1, <1>3, SeqDef

(* Exactly the threads made so far can run.                                *)
LEMMA RunnableMeans ==
  RunQueueSound => Runnable = DOMAIN tcbs
BY DEF RunQueueSound, Runnable

LEMMA NextRunnableMeans ==
  ASSUME RunQueueSound'
  PROVE  Runnable' = DOMAIN tcbs'
<1>1. (RunQueueSound => Runnable = DOMAIN tcbs)'
  BY RunnableMeans, PTL
<1> QED
  BY <1>1

(* A sequence with one element more.                                       *)
LEMMA GrowsByOne ==
  ASSUME NEW n \in Nat \ {0}, NEW F, NEW G, F = [k \in 1..(n - 1) |-> F[k]],
         G = [k \in 1..n |-> G[k]], \A k \in 1..(n - 1) : G[k] = F[k]
  PROVE  Len(F) = n - 1 /\ G = Append(F, G[n])
<1> DEFINE T == {G[k] : k \in 1..n}
<1>0. 1..n = 1..(n - 1) \cup {n}
  OBVIOUS
<1>1. F \in [1..(n - 1) -> T] /\ G \in [1..n -> T] /\ G[n] \in T
  <2>1. \A k \in 1..n : G[k] \in T
    OBVIOUS
  <2> HIDE DEF T
  <2>2. \A k \in 1..(n - 1) : F[k] \in T
    BY <1>0, <2>1
  <2> QED
    BY <1>0, <2>1, <2>2
<1> HIDE DEF T
<1>2. F \in Seq(T) /\ Len(F) = n - 1
  BY <1>1, SeqDef
<1>3. /\ Append(F, G[n]) \in [1..n -> T]
      /\ Append(F, G[n])[n] = G[n]
      /\ \A k \in 1..(n - 1) : Append(F, G[n])[k] = F[k]
  <2>1. ASSUME NEW e \in T
        PROVE  /\ Append(F, e) \in Seq(T) /\ Len(Append(F, e)) = n
               /\ Append(F, e)[n] = e /\ \A k \in 1..(n - 1) : Append(F, e)[k] = F[k]
    BY <1>2, AppendProperties
  <2>2. ASSUME NEW s \in Seq(T)
        PROVE  s \in [1..Len(s) -> T]
    BY LenProperties
  <2> QED
    BY <1>1, <2>1, <2>2
<1>4. \A k \in 1..n : Append(F, G[n])[k] = G[k]
  BY <1>0, <1>3
<1> QED
  BY <1>1, <1>2, <1>3, <1>4

-----------------------------------------------------------------------------
(* The steps.                                                              *)

(* A thread is created when its program has all it was to get: that is     *)
(* where the program comes into being.                                     *)
LEMMA InstallMaps ==
  ASSUME IInv, FInv, RInv, RunQueueSound, CreateThread, Numbered', RunQueueSound'
  PROVE  Abstract!Install
<1>1. TypeOK /\ Counting /\ Slotting /\ Numbered /\ Endowed /\ Furnished
  BY DEF IInv, FInv, RInv
<1>2. prog \in Nat \ {0} /\ prog \in DOMAIN demo.programs /\ prog <= Len(demo.programs)
      /\ IsDescription(demo)
  BY <1>1, DemoFacts DEF TypeOK
<1>3. /\ Len(tcbs) = prog - 1 /\ DOMAIN tcbs = 1..(prog - 1) /\ DOMAIN tcbs' = 1..prog
      /\ \A k \in DOMAIN tcbs : tcbs'[k] = tcbs[k]
      /\ tcbs'[prog].arg0 = This.arg0
  BY <1>1, ThreadNumbered
<1>4. /\ pc = "tcb" /\ pc' = "tcb" /\ spaces' = spaces /\ frames' = frames /\ demo' = demo
      /\ i <= Rounds
  BY DEF CreateThread, At, NextRound, given
<1>5. HasCNode /\ HasVSpace /\ ~Unfilled
  BY <1>4 DEF HasCNode, HasVSpace, Unfilled, LoadPhases
<1>6. CapsAt(spaces, prog) = Abstract!Authority(demo, prog)
  <2>1. CapsAt(spaces, prog) =
          AuthorityUpTo(demo, prog, Len(This.grants), Cardinality(This.selfCNode),
                        Cardinality(This.arena), ArenaSize)
    BY <1>1, <1>4, <1>5 DEF Endowed, GrantsBehind, SelfBehind, ArenaBehind, FramesBehind
  <2>2. /\ Cardinality(This.selfCNode) > 0 \/ This.selfCNode = {}
        /\ Cardinality(This.arena) > 0 \/ This.arena = {}
        /\ \A a \in This.arena : a.megapages = ArenaSize
        /\ DOMAIN This.grants = 1..Len(This.grants)
    BY <1>1, OptionFacts, LenProperties DEF ArenaSize
  <2> QED
    BY <1>2, <2>1, <2>2, AuthorityMeans DEF This
<1>7. MemoryAt(frames, prog) = Abstract!Private(demo, prog)
  <2>1. MemoryAt(frames, prog) =
          MemoryUpTo(demo, prog, Len(This.image), <<"zero", "image">>, 1, This.heap)
    BY <1>1, <1>4, <1>5 DEF Furnished, ImageBehind, ImageContent, StackBehind, HeapBehind
  <2>2. DOMAIN This.image = 1..Len(This.image)
    BY <1>1, OptionFacts, LenProperties
  <2> QED
    BY <2>1, <2>2, PrivateMeans DEF This
<1> DEFINE new == [caps |-> Abstract!Authority(demo, prog),
                   memory |-> Abstract!Private(demo, prog), arg0 |-> This.arg0]
<1>8. Len(Views) = prog - 1 /\ Views' = Append(Views, new)
  <2>1. Views = [p \in 1..(prog - 1) |-> ViewOf(spaces, frames, p, tcbs[p].arg0)]
    BY <1>1, <1>3, ViewsMeans
  <2>2. Views' = [p \in 1..prog |-> ViewOf(spaces, frames, p, tcbs'[p].arg0)]
    BY <1>3, <1>4, NextViewsMeans
  <2>3. Views'[prog] = new
    BY <1>2, <1>3, <1>6, <1>7, <2>2 DEF ViewOf
  <2>4. \A k \in 1..(prog - 1) : Views'[k] = Views[k]
    BY <1>2, <1>3, <2>1, <2>2
  <2>5. Views = [k \in 1..(prog - 1) |-> Views[k]] /\ Views' = [k \in 1..prog |-> Views'[k]]
    BY <2>1, <2>2
  <2> HIDE DEF new
  <2>6. Len(Views) = prog - 1 /\ Views' = Append(Views, Views'[prog])
    BY <1>2, <2>4, <2>5, GrowsByOne
  <2> QED
    BY <2>3, <2>6
<1>9. Runnable' = Runnable \cup {prog}
  <2>1. Runnable = 1..(prog - 1) /\ Runnable' = 1..prog
    BY <1>3, RunnableMeans, NextRunnableMeans
  <2> QED
    BY <1>2, <2>1
<1>10. Wired = 0 /\ Wired' = 0 /\ Phase = "launching" /\ Phase' = "launching"
  BY <1>4 DEF Wired, Phase
<1>11. Len(Views) + 1 = prog /\ Len(Views) < Len(demo.programs)
  BY <1>2, <1>8
<1>12. new = [caps |-> Abstract!Authority(demo, Len(Views) + 1),
              memory |-> Abstract!Private(demo, Len(Views) + 1),
              arg0 |-> demo.programs[Len(Views) + 1].arg0]
  BY <1>11 DEF This
<1> HIDE DEF new
<1> QED
  BY <1>4, <1>8, <1>9, <1>10, <1>11, <1>12 DEF Abstract!Install

(* Where a wire's frame is mapped: wherever the wire says.                 *)
LEMMA PlacesMeans ==
  ASSUME TypeOK, Counting, Naming, Numbered, pc = "wire", i <= Rounds, NEW perms
  PROVE  Range(Places(perms)) = PlacesOf(Wire, perms)
<1>1. ASSUME NEW k \in DOMAIN Wire.to
      PROVE  Places(perms)[k] = Place(Wire.to[k].prog, Wire.to[k].vaddr, perms)
  <2>1. Wire.to[k].prog \in DOMAIN tcbs
    BY WireFacts
  <2>2. root[tcbs[Wire.to[k].prog].vspaceCptr].obj = Wire.to[k].prog
    BY <2>1, CapFacts DEF Naming, Numbered
  <2> QED
    BY <2>2 DEF Places
<1>2. DOMAIN Places(perms) = DOMAIN Wire.to
  BY DEF Places
<1> QED
  BY <1>1, <1>2 DEF Range, PlacesOf

(* What a wire hands over is what it says.                                 *)
LEMMA WireCarries ==
  ASSUME TypeOK, Counting, Handing, Slotting, Memory, Contents, Numbered, Sized,
         MapSharedFrame \/ MapPackage \/ MapDeviceFrame
  PROVE  \E perms : /\ CarriedBy(Wire, frames'[Len(frames')], perms)
                    /\ frames'[Len(frames')].maps = PlacesOf(Wire, perms)
<1>1. pc = "wire" /\ i <= Rounds
  BY DEF MapSharedFrame, MapPackage, MapDeviceFrame, At
<1>2. \A perms : Range(Places(perms)) = PlacesOf(Wire, perms)
  BY <1>1, PlacesMeans DEF Slotting
<1>3. CASE MapSharedFrame
  <2>1. Wire.op = "Shared" /\ ~MapPrivateFrame /\ ~MapPackage
    BY <1>1, <1>3 DEF MapSharedFrame, MapPrivateFrame, MapPackage, At
  <2>2. /\ Len(frames') = Len(frames) /\ frames'[Len(frames)].content = <<"zero">>
        /\ frames'[Len(frames)].maps = Range(Places(SharedPerms))
    BY <1>3, <2>1, HandedOver
  <2>3. frames'[Len(frames)].pages = Small
    <3>1. FramePages = Small
      BY <1>1, <2>1 DEF FramePages
    <3> QED
      BY <1>3, <3>1, HandedPages
  <2>4. CarriedBy(Wire, frames'[Len(frames')], SharedPerms)
    BY <2>1, <2>2, <2>3 DEF CarriedBy, SharedPerms
  <2> QED
    BY <1>2, <2>2, <2>4
<1>4. CASE MapPackage
  <2>1. Wire.op = "Package" /\ ~MapPrivateFrame /\ ~MapSharedFrame
    BY <1>1, <1>4 DEF MapSharedFrame, MapPrivateFrame, MapPackage, At
  <2>2. /\ Len(frames') = Len(frames) /\ frames'[Len(frames)].content = <<"zero", "package">>
        /\ frames'[Len(frames)].maps = Range(Places(PackagePerms))
    BY <1>4, <2>1, HandedOver
  <2>3. frames'[Len(frames)].pages = Mega
    <3>1. FramePages = Mega
      BY <1>1, <2>1 DEF FramePages
    <3> QED
      BY <1>4, <3>1, HandedPages
  <2>4. CarriedBy(Wire, frames'[Len(frames')], PackagePerms)
    BY <2>1, <2>2, <2>3 DEF CarriedBy, PackagePerms
  <2> QED
    BY <1>2, <2>2, <2>4
<1>5. CASE MapDeviceFrame
  <2>1. Wire.op = "Device" /\ frames' = Append(frames, DeviceFrame)
    BY <1>5 DEF MapDeviceFrame
  <2>2. /\ Len(frames') = Len(frames) + 1 /\ frames'[Len(frames')].content = <<>>
        /\ frames'[Len(frames')].maps = Range(Places(DevicePerms))
    BY <1>5, MappedDevice
  <2>3. frames'[Len(frames')].pages = Mega
    <3>1. DeviceFrame.pages = Mega /\ frames \in Seq(Frames)
      BY DEF DeviceFrame, TypeOK
    <3>2. Append(frames, DeviceFrame)[Len(frames) + 1] = DeviceFrame
      BY <3>1
    <3> QED
      BY <2>1, <2>2, <3>1, <3>2
  <2>4. CarriedBy(Wire, frames'[Len(frames')], DevicePerms)
    BY <2>1, <2>2, <2>3 DEF CarriedBy, DevicePerms
  <2> QED
    BY <1>2, <2>2, <2>4
<1> QED
  BY <1>3, <1>4, <1>5

(* A wire reaches all its places at once, and nothing else changes.        *)
LEMMA ConnectMaps ==
  ASSUME IInv, FInv, RInv, RunQueueSound,
         MapSharedFrame \/ MapPackage \/ MapDeviceFrame, Numbered', RunQueueSound'
  PROVE  Abstract!Connect
<1>1. /\ TypeOK /\ Counting /\ Handing /\ Slotting /\ Memory /\ Contents /\ Numbered /\ Sized
  BY DEF IInv, FInv, RInv
<1>2. /\ pc = "wire" /\ pc' = "wire" /\ i <= Len(demo.wires) /\ i' = i + 1 /\ demo' = demo
      /\ tcbs' = tcbs /\ spaces' = spaces /\ i \in Nat \ {0}
  BY <1>1 DEF MapSharedFrame, MapPackage, MapDeviceFrame, At, Rounds, NextRound, given, TypeOK
<1>3. Len(tcbs) = Len(demo.programs) /\ DOMAIN tcbs = 1..Len(tcbs) /\ Len(tcbs) \in Nat
  BY <1>1, <1>2, LenProperties DEF Counting, LatePhases, TypeOK
<1>4. PICK perms : /\ CarriedBy(Wire, frames'[Len(frames')], perms)
                   /\ frames'[Len(frames')].maps = PlacesOf(Wire, perms)
  BY <1>1, WireCarries
<1>5. ASSUME NEW p
      PROVE  MemoryAt(frames', p) = MemoryAt(frames, p) \cup Abstract!WiredInto(Wire, p)
  <2>1. MemoryAt(frames', p) = MemoryAt(frames, p) \cup RegionsOf(frames'[Len(frames')], p)
    BY <1>1, HandedReach
  <2>2. RegionsOf(frames'[Len(frames')], p) = Abstract!WiredInto(Wire, p)
    BY <1>4, WiredMeans
  <2> QED
    BY <2>1, <2>2
<1>6. Wired = i - 1 /\ Wired' = i /\ Phase = "launching" /\ Phase' = "launching"
  BY <1>2 DEF Wired, Phase
<1>7. Runnable' = Runnable
  BY <1>2, RunnableMeans, NextRunnableMeans
<1>8. Views = [p \in DOMAIN tcbs |-> ViewOf(spaces, frames, p, tcbs[p].arg0)]
  BY <1>1, ViewsMeans
<1>9. Views' = [p \in DOMAIN tcbs |-> ViewOf(spaces, frames', p, tcbs[p].arg0)]
  BY <1>2, NextViewsMeans
<1>10. Len(Views) = Len(demo.programs)
  BY <1>1, <1>3, ViewsLength
<1>11. Views' = [p \in DOMAIN Views |->
                   [Views[p] EXCEPT !.memory = @ \cup Abstract!WiredInto(demo.wires[Wired + 1], p)]]
  <2>1. demo.wires[Wired + 1] = Wire /\ DOMAIN Views = DOMAIN tcbs
    BY <1>2, <1>6, <1>8 DEF Wire
  <2>2. ASSUME NEW p \in DOMAIN tcbs
        PROVE  ViewOf(spaces, frames', p, tcbs[p].arg0) =
                 [Views[p] EXCEPT !.memory = @ \cup Abstract!WiredInto(Wire, p)]
    <3>1. Views[p] = ViewOf(spaces, frames, p, tcbs[p].arg0)
      BY <1>8
    <3>2. ASSUME NEW X
          PROVE  [ViewOf(spaces, frames, p, tcbs[p].arg0) EXCEPT !.memory = @ \cup X] =
                   [caps |-> CapsAt(spaces, p), memory |-> MemoryAt(frames, p) \cup X,
                    arg0 |-> tcbs[p].arg0]
      BY DEF ViewOf
    <3>3. [Views[p] EXCEPT !.memory = @ \cup Abstract!WiredInto(Wire, p)] =
            [caps |-> CapsAt(spaces, p),
             memory |-> MemoryAt(frames, p) \cup Abstract!WiredInto(Wire, p),
             arg0 |-> tcbs[p].arg0]
      BY <3>1, <3>2
    <3> QED
      BY <1>5, <3>3 DEF ViewOf
  <2> QED
    BY <1>9, <2>1, <2>2
<1>12. Wired < Len(demo.wires) /\ Wired' = Wired + 1
  <2>1. Len(demo.wires) \in Nat
    BY <1>1, DemoFacts, LenProperties
  <2> QED
    BY <1>2, <1>6, <2>1
<1> QED
  BY <1>2, <1>6, <1>7, <1>10, <1>11, <1>12 DEF Abstract!Connect

(* No other step touches a program that has its thread.                    *)
LEMMA ViewsStay ==
  ASSUME IInv, FInv, RInv, [Next]_vars, Numbered',
         ~CreateThread, ~MapSharedFrame, ~MapPackage, ~MapDeviceFrame
  PROVE  Views' = Views /\ tcbs' = tcbs
<1>1. /\ TypeOK /\ Counting /\ Handing /\ Slotting /\ Memory /\ Contents /\ Declared
      /\ Numbered /\ Handled /\ Sized
  BY DEF IInv, FInv, RInv
<1>2. tcbs' = tcbs
  BY <1>1, CountsStep
<1>3. DOMAIN tcbs = 1..Len(tcbs) /\ Len(tcbs) \in Nat /\ prog \in Nat \ {0}
  BY <1>1, DemoFacts, LenProperties DEF TypeOK
<1>4. ASSUME pc \in LoadPhases \ {"tcb"}, NEW p \in DOMAIN tcbs
      PROVE  p # prog /\ p \in DOMAIN spaces
  <2>1. Len(tcbs) = prog - 1
    BY <1>1, <1>4 DEF Counting
  <2>2. Len(spaces) \in Nat /\ DOMAIN spaces = 1..Len(spaces) /\ Len(spaces) >= prog - 1
    BY <1>1, <1>3, <1>4, LenProperties DEF Numbered, TypeOK
  <2> QED
    BY <1>3, <2>1, <2>2
<1>5. ASSUME NEW p \in DOMAIN tcbs
      PROVE  CapsAt(spaces', p) = CapsAt(spaces, p)
  <2>1. CASE CreateCNode
    <3>1. /\ pc \in LoadPhases \ {"tcb"}
          /\ spaces' = Append(spaces, [s \in Slots |-> Empty])
      BY <2>1 DEF CreateCNode, At, LoadPhases
    <3>2. p \in DOMAIN spaces /\ spaces \in Seq([Slots -> Caps])
      BY <1>1, <1>4, <3>1 DEF TypeOK
    <3>3. spaces'[p] = spaces[p]
      BY <3>1, <3>2
    <3> QED
      BY <3>3, CapsKept
  <2>2. CASE GrantObject \/ GrantSelfCNode \/ OpenArena \/ GrantArenaFrame
    <3>1. pc \in LoadPhases \ {"tcb"}
      BY <2>2 DEF GrantObject, GrantSelfCNode, OpenArena, GrantArenaFrame, At, LoadPhases
    <3>2. \E new : Endows(new)
      BY <1>1, <2>2, GrantEndows, SelfEndows, ArenaEndows, FrameEndows
    <3> QED
      BY <1>4, <3>1, <3>2 DEF Endows
  <2>3. CASE /\ ~CreateCNode /\ ~GrantObject /\ ~GrantSelfCNode /\ ~OpenArena
             /\ ~GrantArenaFrame
    BY <1>1, <2>3, CountsStep
  <2> QED
    BY <2>1, <2>2, <2>3
<1>6. ASSUME NEW p \in DOMAIN tcbs
      PROVE  MemoryAt(frames', p) = MemoryAt(frames, p)
  <2>1. CASE RetypeFrame \/ ClearFrame
    BY <1>1, <2>1, SilentFrames
  <2>2. CASE MapPrivateFrame \/ FillImage
    <3>1. pc \in LoadPhases \ {"tcb"}
      BY <2>2 DEF MapPrivateFrame, FillImage, At, LoadPhases
    <3>2. \A v : v # prog => MemoryAt(frames', v) = MemoryAt(frames, v)
      BY <1>1, <2>2, PrivateReach, FilledReach
    <3> QED
      BY <1>4, <3>1, <3>2
  <2>3. CASE ~RetypeFrame /\ ~ClearFrame /\ ~MapPrivateFrame /\ ~FillImage
    <3>1. frames' = frames
      BY <2>3
      DEF Next, vars, objects, NextPhase, RetypeRootObject, MintRootObject, CreateVSpace,
          CreateCNode, GrantObject, GrantSelfCNode, OpenArena, GrantArenaFrame, MakeReady,
          EnterFirstThread, Panic
    <3> QED
      BY <3>1
  <2> QED
    BY <2>1, <2>2, <2>3
<1>7. Views = [p \in DOMAIN tcbs |-> ViewOf(spaces, frames, p, tcbs[p].arg0)]
  BY <1>1, ViewsMeans
<1>8. Views' = [p \in DOMAIN tcbs |-> ViewOf(spaces', frames', p, tcbs[p].arg0)]
  BY <1>2, NextViewsMeans
<1> QED
  BY <1>2, <1>5, <1>6, <1>7, <1>8 DEF ViewOf

(* The first thread is entered when everything is in place.                *)
LEMMA StartMaps ==
  ASSUME IInv, FInv, RInv, RunQueueSound, EnterFirstThread, Numbered', RunQueueSound'
  PROVE  Abstract!Start
<1>1. TypeOK /\ Counting
  BY DEF IInv
<1>2. pc = "enter" /\ pc' = "running" /\ demo' = demo /\ [Next]_vars
  BY DEF EnterFirstThread, At, given, Next
<1>3. Views' = Views /\ tcbs' = tcbs
  BY <1>2, ViewsStay DEF CreateThread, MapSharedFrame, MapPackage, MapDeviceFrame, At
<1>4. Runnable' = Runnable
  BY <1>3, RunnableMeans, NextRunnableMeans
<1>5. /\ Wired = Len(demo.wires) /\ Wired' = Wired
      /\ Phase = "launching" /\ Phase' = "running"
  BY <1>2 DEF Wired, Phase
<1>6. Len(Views) = Len(demo.programs)
  <2>1. Len(tcbs) = Len(demo.programs)
    BY <1>1, <1>2 DEF Counting, LatePhases
  <2> QED
    BY <1>1, <2>1, ViewsLength DEF RInv
<1> QED
  BY <1>2, <1>3, <1>4, <1>5, <1>6 DEF Abstract!Start

(* A launch that panics leaves what there is, and the wires before the one *)
(* it panicked at.                                                         *)
LEMMA FailMaps ==
  ASSUME IInv, FInv, RInv, RunQueueSound, Panic, Numbered', RunQueueSound'
  PROVE  Abstract!Fail
<1>1. TypeOK /\ Counting
  BY DEF IInv
<1>2. pc' = "panicked" /\ i' = i /\ prog' = prog /\ demo' = demo /\ tcbs' = tcbs
  BY DEF Panic, given, objects
<1>3. Views' = Views
  <2>1. [Next]_vars /\ frames' = frames /\ i' = i /\ i \in Nat
    BY <1>1 DEF Next, Panic, objects, TypeOK
  <2>2. ~CreateThread /\ ~MapSharedFrame /\ ~MapPackage /\ ~MapDeviceFrame
    BY <2>1 DEF CreateThread, MapSharedFrame, MapPackage, MapDeviceFrame, NextRound
  <2> QED
    BY <2>1, <2>2, ViewsStay
<1>4. Runnable' = Runnable
  BY <1>2, RunnableMeans, NextRunnableMeans
<1>5. pc \in LoadPhases \cup {"root", "wire"} /\ (pc = "tcb" => i <= 1)
  <2>1. Refused
    BY DEF Panic
  <2>2. pc = "tcb" => Rounds = 1
    BY DEF Rounds
  <2>3. pc = "tcb" => i <= Rounds
    BY <2>1 DEF Refused, WireRefused, NeedsFrame, At
  <2> QED
    BY <2>1, <2>2, <2>3 DEF Refused, WireRefused, NeedsFrame, At, LoadPhases
<1>6. Phase = "launching" /\ Phase' = "failed"
  BY <1>2, <1>5 DEF Phase, LoadPhases
<1>7. Wired' = Wired
  <2>1. CASE pc = "wire"
    <3>1. Len(tcbs) = Len(demo.programs)
      BY <1>1, <2>1 DEF Counting, LatePhases
    <3>2. Wired = i - 1
      BY <2>1 DEF Wired
    <3>3. Wired' = i - 1
      BY <1>2, <3>1 DEF Wired
    <3> QED
      BY <3>2, <3>3
  <2>2. CASE pc \in LoadPhases \cup {"root"}
    <3>1. prog \in Nat /\ prog <= Len(demo.programs) /\ Len(demo.programs) \in Nat
          /\ i \in Nat \ {0}
      BY <1>1, DemoFacts DEF TypeOK
    <3>2. Len(tcbs) = prog - 1
      BY <1>1, <1>5, <2>2, <3>1 DEF Counting
    <3>3. Len(tcbs) # Len(demo.programs)
      BY <3>1, <3>2
    <3>4. Wired = 0
      BY <2>2 DEF Wired, LoadPhases
    <3>5. Wired' = 0
      BY <1>2, <3>3 DEF Wired
    <3> QED
      BY <3>4, <3>5
  <2> QED
    BY <1>5, <2>1, <2>2
<1> QED
  BY <1>2, <1>3, <1>4, <1>6, <1>7 DEF Abstract!Fail

(* All else is the launcher's own business.                                *)
LEMMA SilentMaps ==
  ASSUME IInv, FInv, RInv, RunQueueSound, [Next]_vars, Numbered', RunQueueSound',
         ~CreateThread, ~MapSharedFrame, ~MapPackage, ~MapDeviceFrame,
         ~EnterFirstThread, ~Panic
  PROVE  UNCHANGED Abstract!vars
<1>1. TypeOK /\ Counting /\ Bounded
  BY DEF IInv, RInv
<1>2. Views' = Views /\ tcbs' = tcbs /\ demo' = demo
  BY ViewsStay, StepKinds
<1>3. Runnable' = Runnable
  BY <1>2, RunnableMeans, NextRunnableMeans
<1>4. Phase' = Phase /\ Wired' = Wired
  <2>1. CASE NextPhase
    <3>1. /\ pc \in DOMAIN Then /\ i > Rounds /\ i' = 1
          /\ pc' = (IF pc = "tcb" /\ prog < Len(demo.programs) THEN "vspace" ELSE Then[pc])
      BY <2>1 DEF NextPhase
    <3>2. i \in Nat /\ Rounds \in Nat /\ i <= Rounds + 1
      BY <1>1, <3>1, RoundsType DEF TypeOK, Bounded
    <3>3. i - 1 = Rounds
      BY <3>1, <3>2
    <3>4. CASE pc = "wire"
      <4>1. pc' = "ready" /\ i - 1 = Len(demo.wires)
        BY <3>1, <3>3, <3>4 DEF Then, Rounds
      <4> QED
        BY <1>2, <3>4, <4>1 DEF Phase, Wired
    <3>5. CASE pc = "ready"
      <4>1. pc' = "enter"
        BY <3>1, <3>5 DEF Then
      <4> QED
        BY <1>2, <3>5, <4>1 DEF Phase, Wired
    <3>6. CASE pc \notin {"wire", "ready"}
      <4>1. pc \in LoadPhases \cup {"root"} /\ pc' \in LoadPhases \cup {"wire"}
        BY <3>1, <3>6 DEF Then, LoadPhases
      <4>2. Phase = "launching" /\ Wired = 0
        BY <4>1 DEF Phase, Wired, LoadPhases
      <4>3. Phase' = "launching" /\ Wired' = 0
        BY <3>1, <4>1 DEF Phase, Wired, LoadPhases
      <4> QED
        BY <4>2, <4>3
    <3> QED
      BY <3>4, <3>5, <3>6
  <2>2. CASE InRound
    BY <1>2, <2>2, StepKinds DEF Phase, Wired
  <2>3. CASE EndsRound
    <3>1. pc' = pc /\ pc \notin {"wire", "panicked", "running"}
      BY <2>3
      DEF EndsRound, RetypeRootObject, MintRootObject, CreateVSpace, MapPrivateFrame,
          FillImage, CreateCNode, GrantObject, GrantSelfCNode, OpenArena, GrantArenaFrame,
          MakeReady, At, NextRound
    <3> QED
      BY <1>2, <3>1 DEF Phase, Wired
  <2> QED
    BY <2>1, <2>2, <2>3, StepKinds
<1> QED
  BY <1>2, <1>3, <1>4 DEF Abstract!vars

-----------------------------------------------------------------------------
(* The refinement.                                                         *)

LEMMA InitMaps ==
  ASSUME Init
  PROVE  Abstract!Init
<1>1. /\ demo \in Demos /\ pc = "root" /\ tcbs = <<>> /\ ready = <<>> /\ running = 0
  BY DEF Init
<1>2. Views = <<>>
  BY <1>1 DEF Views
<1>3. Runnable = {}
  BY <1>1 DEF Runnable, Range
<1>4. Wired = 0 /\ Phase = "launching"
  BY <1>1 DEF Wired, Phase
<1> QED
  BY <1>1, <1>2, <1>3, <1>4 DEF Abstract!Init

(* Every launch is one AbstractLaunch allows, whatever is launched and on  *)
(* whatever machine: a program has exactly the authority its ProgramSpec   *)
(* declares from the moment it has a thread, only the declared wires add   *)
(* to it, and the first thread runs when all of that is done.              *)
THEOREM LaunchIsAsPromised ==
  Spec => Abstract!Init /\ [][Abstract!Next]_(Abstract!vars)
<1> DEFINE PInv == IInv /\ FInv /\ RInv /\ RunQueueSound
<1>1. PInv /\ PInv' /\ [Next]_vars => [Abstract!Next]_(Abstract!vars)
  <2>1. SUFFICES ASSUME IInv, FInv, RInv, RunQueueSound, RInv', RunQueueSound', [Next]_vars
                 PROVE  [Abstract!Next]_(Abstract!vars)
    OBVIOUS
  <2>2. Numbered'
    BY <2>1 DEF RInv
  <2>3. CASE CreateThread
    BY <2>1, <2>2, <2>3, InstallMaps DEF Abstract!Next
  <2>4. CASE MapSharedFrame \/ MapPackage \/ MapDeviceFrame
    BY <2>1, <2>2, <2>4, ConnectMaps DEF Abstract!Next
  <2>5. CASE EnterFirstThread
    BY <2>1, <2>2, <2>5, StartMaps DEF Abstract!Next
  <2>6. CASE Panic
    BY <2>1, <2>2, <2>6, FailMaps DEF Abstract!Next
  <2>7. CASE /\ ~CreateThread /\ ~MapSharedFrame /\ ~MapPackage /\ ~MapDeviceFrame
             /\ ~EnterFirstThread /\ ~Panic
    BY <2>1, <2>2, <2>7, SilentMaps
  <2> QED
    BY <2>3, <2>4, <2>5, <2>6, <2>7
<1>2. Spec => []PInv
  BY EndowmentInvariance
<1> HIDE DEF PInv
<1> QED
  BY <1>1, <1>2, InitMaps, PTL DEF Spec
=============================================================================
