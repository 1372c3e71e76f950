------------------------- MODULE LaunchImagesProofs -------------------------
(***************************************************************************)
(* What every launch leaves in place when the first thread runs, whatever  *)
(* its description: each program has what was declared for it and nothing  *)
(* else.  With the descriptions of the eight shipped images worked out,    *)
(* the properties of LaunchImages follow, for every machine that can boot  *)
(* them.                                                                   *)
(***************************************************************************)
EXTENDS LaunchRefinementProofs, LaunchImages

-----------------------------------------------------------------------------
(* What every program has, once the first thread runs: all of what the     *)
(* description declares for it and nothing else.  AbstractLaunch keeps the *)
(* account, view by view and wire by wire.                                 *)
WiredUpTo(d, p, n) == UNION {Abstract!WiredInto(d.wires[w], p) : w \in 1..n}
Share(d, p, n) ==
  [caps |-> Abstract!Authority(d, p),
   memory |-> Abstract!Private(d, p) \cup WiredUpTo(d, p, n),
   arg0 |-> d.programs[p].arg0]
Account ==
  /\ Len(Views) <= Len(demo.programs) /\ Wired \in 0..Len(demo.wires)
  /\ Wired # 0 \/ Phase = "running" => Len(Views) = Len(demo.programs)
  /\ Phase = "running" => Wired = Len(demo.wires)
  /\ \A p \in DOMAIN Views : Views[p] = Share(demo, p, Wired)

LEMMA AppendFacts ==
  ASSUME NEW n \in Nat, NEW F, F = [k \in 1..n |-> F[k]], NEW e
  PROVE  /\ Len(F) = n
         /\ Append(F, e) = [k \in 1..(n + 1) |-> IF k = n + 1 THEN e ELSE F[k]]
<1> DEFINE T == {F[k] : k \in 1..n} \cup {e}
<1>1. F \in [1..n -> T] /\ e \in T
  <2>1. \A k \in 1..n : F[k] \in T
    OBVIOUS
  <2> HIDE DEF T
  <2> QED
    BY <2>1 DEF T
<1> HIDE DEF T
<1>2. F \in Seq(T) /\ Len(F) = n
  BY <1>1, SeqDef
<1> QED
  BY <1>1, <1>2

LEMMA ViewsAreASequence ==
  ASSUME TypeOK, Numbered
  PROVE  /\ Len(Views) \in Nat /\ DOMAIN Views = 1..Len(Views)
         /\ Views = [p \in 1..Len(Views) |-> Views[p]]
<1>1. DOMAIN tcbs = 1..Len(tcbs) /\ Len(tcbs) \in Nat
  BY LenProperties DEF TypeOK
<1>2. Views = [p \in DOMAIN tcbs |-> ViewOf(spaces, frames, p, tcbs[p].arg0)]
  BY ViewsMeans
<1>3. Len(Views) = Len(tcbs)
  BY ViewsLength
<1> QED
  BY <1>1, <1>2, <1>3

LEMMA DescriptionLengths ==
  ASSUME TypeOK
  PROVE  /\ Len(demo.programs) \in Nat /\ Len(demo.wires) \in Nat
         /\ DOMAIN demo.programs = 1..Len(demo.programs)
         /\ DOMAIN demo.wires = 1..Len(demo.wires)
<1>1. IsDescription(demo)
  BY DemosAssumption DEF TypeOK
<1>2. demo.programs \in Seq(ProgramSpecs) /\ demo.wires \in Seq(Wirings)
  BY <1>1 DEF IsDescription, Descriptions
<1> QED
  BY <1>2, LenProperties

LEMMA InitAccount ==
  ASSUME TypeOK, Numbered, Abstract!Init
  PROVE  Account
<1>1. Views = <<>> /\ Wired = 0 /\ Phase = "launching"
  BY DEF Abstract!Init
<1> QED
  BY <1>1, DescriptionLengths DEF Account

LEMMA StepAccount ==
  ASSUME TypeOK, Numbered, Account, [Abstract!Next]_(Abstract!vars)
  PROVE  Account'
<1>1. /\ Len(Views) \in Nat /\ DOMAIN Views = 1..Len(Views)
      /\ Views = [p \in 1..Len(Views) |-> Views[p]]
  BY ViewsAreASequence
<1>2. /\ Len(demo.programs) \in Nat /\ Len(demo.wires) \in Nat
      /\ DOMAIN demo.wires = 1..Len(demo.wires)
  BY DescriptionLengths
<1>3. CASE Abstract!Install
  <2> DEFINE p == Len(Views) + 1
             view == [caps |-> Abstract!Authority(demo, p),
                      memory |-> Abstract!Private(demo, p),
                      arg0 |-> demo.programs[p].arg0]
  <2>1. /\ Views' = Append(Views, view) /\ demo' = demo /\ Wired' = Wired /\ Phase' = Phase
        /\ Phase = "launching" /\ Len(Views) < Len(demo.programs)
    BY <1>3 DEF Abstract!Install
  <2>2. Wired = 0
    BY <1>1, <1>2, <2>1 DEF Account
  <2>3. view = Share(demo, p, 0)
    <3>1. \A w : w \notin 1..0
      OBVIOUS
    <3>2. WiredUpTo(demo, p, 0) = {}
      BY <3>1 DEF WiredUpTo
    <3> QED
      BY <3>2 DEF Share
  <2> HIDE DEF view
  <2>4. Views' = [k \in 1..p |-> IF k = p THEN view ELSE Views[k]]
    BY <1>1, <2>1, AppendFacts
  <2>5. Len(Views') = p
    <3>1. Views' = [k \in 1..p |-> Views'[k]] /\ p \in Nat
      BY <1>1, <2>4
    <3> QED
      BY <3>1, AppendFacts
  <2> QED
    BY <1>1, <1>2, <2>1, <2>2, <2>3, <2>4, <2>5 DEF Account
<1>4. CASE Abstract!Connect
  <2>1. /\ demo' = demo /\ Phase' = Phase /\ Phase = "launching" /\ Wired' = Wired + 1
        /\ Len(Views) = Len(demo.programs) /\ Wired < Len(demo.wires)
        /\ Views' = [p \in DOMAIN Views |->
             [Views[p] EXCEPT !.memory = @ \cup Abstract!WiredInto(demo.wires[Wired + 1], p)]]
    BY <1>4 DEF Abstract!Connect
  <2>2. Len(Views') = Len(Views) /\ DOMAIN Views' = DOMAIN Views
    <3>1. Views' = [p \in 1..Len(Views) |-> Views'[p]]
      BY <1>1, <2>1
    <3> QED
      BY <1>1, <2>1, <3>1, AppendFacts
  <2>3. Wired \in Nat /\ 1..(Wired + 1) = 1..Wired \cup {Wired + 1}
    BY <1>2 DEF Account
  <2>4. ASSUME NEW p \in DOMAIN Views
        PROVE  Views'[p] = Share(demo, p, Wired + 1)
    <3>1. WiredUpTo(demo, p, Wired + 1)
            = WiredUpTo(demo, p, Wired) \cup Abstract!WiredInto(demo.wires[Wired + 1], p)
      BY <2>3 DEF WiredUpTo
    <3>2. Views[p] = Share(demo, p, Wired)
      BY DEF Account
    <3>3. Views'[p] = [Views[p] EXCEPT
            !.memory = @ \cup Abstract!WiredInto(demo.wires[Wired + 1], p)]
      BY <2>1
    <3>4. [Share(demo, p, Wired) EXCEPT
             !.memory = @ \cup Abstract!WiredInto(demo.wires[Wired + 1], p)]
            = [caps |-> Abstract!Authority(demo, p),
               memory |-> (Abstract!Private(demo, p) \cup WiredUpTo(demo, p, Wired))
                            \cup Abstract!WiredInto(demo.wires[Wired + 1], p),
               arg0 |-> demo.programs[p].arg0]
      BY DEF Share
    <3> QED
      BY <3>1, <3>2, <3>3, <3>4 DEF Share
  <2>5. Wired' \in 0..Len(demo.wires) /\ Wired' # 0
    BY <1>2, <2>1, <2>3
  <2> QED
    BY <1>1, <1>2, <2>1, <2>2, <2>4, <2>5 DEF Account
<1>5. CASE Abstract!Start \/ Abstract!Fail
  BY <1>5 DEF Abstract!Start, Abstract!Fail, Account
<1>6. CASE UNCHANGED Abstract!vars
  BY <1>6 DEF Abstract!vars, Account
<1> QED
  BY <1>3, <1>4, <1>5, <1>6 DEF Abstract!Next

(* At the moment the first thread runs.                                    *)
Declares(p, caps, memory, arg0) ==
  /\ caps = Abstract!Authority(demo, p)
  /\ memory = Abstract!Private(demo, p) \cup WiredUpTo(demo, p, Len(demo.wires))
  /\ arg0 = demo.programs[p].arg0
AsDeclared ==
  Running =>
    /\ DOMAIN tcbs = DOMAIN demo.programs
    /\ \A p \in DOMAIN tcbs : Declares(p, CapsOf(p), MemoryOf(p), tcbs[p].arg0)

(* Once the first thread runs, every program of the description is there,  *)
(* and its capabilities, its memory and its argument are all of what the   *)
(* description declares, and nothing else (launch.rs:218-560).             *)
THEOREM EveryoneHasTheirShare == Spec => []AsDeclared
<1>1. TypeOK /\ Numbered /\ Account => AsDeclared
  <2> SUFFICES ASSUME TypeOK, Numbered, Account, Running
               PROVE  /\ DOMAIN tcbs = DOMAIN demo.programs
                      /\ \A p \in DOMAIN tcbs :
                           Declares(p, CapsOf(p), MemoryOf(p), tcbs[p].arg0)
    BY DEF AsDeclared
  <2>1. Len(Views) = Len(demo.programs) /\ Wired = Len(demo.wires)
    BY DEF Account, Running, Phase
  <2>2. DOMAIN tcbs = 1..Len(tcbs) /\ Len(Views) = Len(tcbs)
    BY LenProperties, ViewsLength DEF TypeOK
  <2>3. DOMAIN Views = DOMAIN tcbs
    BY DEF Views
  <2>4. ASSUME NEW p \in DOMAIN tcbs
        PROVE  Declares(p, CapsOf(p), MemoryOf(p), tcbs[p].arg0)
    <3>1. Views[p] = Share(demo, p, Len(demo.wires))
      BY <2>1, <2>3 DEF Account
    <3>2. Views[p] = [caps |-> CapsOf(p), memory |-> MemoryOf(p), arg0 |-> tcbs[p].arg0]
      BY DEF Views
    <3> QED
      BY <3>1, <3>2 DEF Share, Declares
  <2> QED
    BY <2>1, <2>2, <2>4, DescriptionLengths
<1>2. Spec => [](TypeOK /\ Numbered)
  <2>1. IInv /\ FInv /\ RInv /\ RunQueueSound => TypeOK /\ Numbered
    BY DEF IInv, RInv
  <2> QED
    BY <2>1, EndowmentInvariance, PTL
<1>3. TypeOK /\ Numbered /\ Abstract!Init => Account
  BY InitAccount
<1>4. TypeOK /\ Numbered /\ Account /\ [Abstract!Next]_(Abstract!vars) => Account'
  BY StepAccount
<1> QED
  BY <1>1, <1>2, <1>3, <1>4, LaunchIsAsPromised, PTL

-----------------------------------------------------------------------------
(* What is in place once every program is loaded: a CSpace for each, and   *)
(* for each wire behind one frame that all its programs see.               *)
Late == pc \in LatePhases \cup {"running"}
WiresBehind == IF pc = "wire" THEN i - 1 ELSE Len(demo.wires)
Placed(w) ==
  \E f \in DOMAIN frames : \A k \in DOMAIN demo.wires[w].to :
    \E m \in frames[f].maps : m.vspace = demo.wires[w].to[k].prog
InPlace ==
  Late => Len(spaces) = Len(demo.programs) /\ \A w \in 1..WiresBehind : Placed(w)

LEMMA PlacedStays ==
  ASSUME IInv, FInv, [Next]_vars, NEW w \in DOMAIN demo.wires, Placed(w)
  PROVE  Placed(w)'
<1>1. TypeOK /\ Counting /\ Handing /\ Memory /\ Slotting /\ Contents
  BY DEF IInv, FInv
<1>2. demo' = demo
  BY StepKinds
<1>3. PICK f \in DOMAIN frames : \A k \in DOMAIN demo.wires[w].to :
        \E m \in frames[f].maps : m.vspace = demo.wires[w].to[k].prog
  BY DEF Placed
<1>4. DOMAIN demo.wires[w].to # {}
  <2>1. IsDescription(demo)
    BY <1>1, DemoFacts
  <2>2. demo.wires[w].to # <<>> /\ demo.wires[w] \in Wirings
    BY <1>1, <2>1, DemoFacts DEF IsDescription
  <2>3. demo.wires[w].to \in Seq([prog : Nat, vaddr : Nat])
    BY <2>2 DEF Wirings
  <2>4. 1 \in DOMAIN demo.wires[w].to
    BY <2>2, <2>3, EmptySeq, LenProperties
  <2> QED
    BY <2>4
<1>5. frames[f].maps # {}
  BY <1>3, <1>4
<1>6. f \in DOMAIN frames' /\ frames'[f].maps = frames[f].maps
  <2>1. CASE MapPrivateFrame \/ MapSharedFrame \/ MapPackage
    BY <1>1, <1>5, <2>1, HandedIsOneMore DEF OneMore
  <2>2. CASE ~MapPrivateFrame /\ ~MapSharedFrame /\ ~MapPackage
    <3>1. frames'[f].maps = frames[f].maps
      BY <1>1, <2>2, MapsKept
    <3>2. f \in DOMAIN frames'
      BY <1>1, FramesLength
    <3> QED
      BY <3>1, <3>2
  <2> QED
    BY <2>1, <2>2
<1> QED
  BY <1>2, <1>3, <1>6 DEF Placed

LEMMA WirePlaces ==
  ASSUME IInv, FInv, RInv, MapSharedFrame \/ MapPackage \/ MapDeviceFrame
  PROVE  \A w : w = i => Placed(w)'
<1>1. TypeOK /\ Counting /\ Handing /\ Memory /\ Slotting /\ Contents /\ Numbered /\ Sized
  BY DEF IInv, FInv, RInv
<1> DEFINE g == Len(frames')
<1>2. g \in DOMAIN frames'
  BY <1>1, HandedIsOneMore DEF OneMore
<1>3. PICK perms : frames'[g].maps = PlacesOf(Wire, perms)
  BY <1>1, WireCarries
<1>4. demo' = demo
  BY DEF MapSharedFrame, MapPackage, MapDeviceFrame, given
<1> HIDE DEF g
<1>5. ASSUME NEW k \in DOMAIN Wire.to
      PROVE  \E m \in frames'[g].maps : m.vspace = Wire.to[k].prog
  <2>1. Place(Wire.to[k].prog, Wire.to[k].vaddr, perms) \in frames'[g].maps
    BY <1>3 DEF PlacesOf
  <2> QED
    BY <2>1 DEF Place
<1>6. \E f \in DOMAIN frames' : \A k \in DOMAIN demo.wires[i].to :
        \E m \in frames'[f].maps : m.vspace = demo.wires[i].to[k].prog
  BY <1>2, <1>5 DEF Wire
<1>7. ASSUME NEW w, w = i
      PROVE  Placed(w)'
  BY <1>4, <1>6, <1>7 DEF Placed
<1> QED
  BY <1>7

LEMMA InPlaceStep ==
  ASSUME IInv, FInv, RInv, InPlace, [Next]_vars
  PROVE  InPlace'
<1>1. TypeOK /\ Counting /\ Bounded /\ Numbered
  BY DEF IInv, FInv, RInv
<1>2. /\ demo' = demo /\ i \in Nat \ {0} /\ Len(demo.wires) \in Nat
      /\ DOMAIN demo.wires = 1..Len(demo.wires)
      /\ prog \in Nat /\ prog <= Len(demo.programs) /\ Len(demo.programs) \in Nat
  BY <1>1, StepKinds, DemoFacts, LenProperties DEF TypeOK
<1>3. ASSUME Late, WiresBehind' = WiresBehind
      PROVE  InPlace'
  <2>1. Len(spaces') = Len(spaces)
    BY <1>1, <1>3, CountsStep DEF CreateCNode, At, Late, LatePhases
  <2>2. WiresBehind <= Len(demo.wires) /\ WiresBehind \in Nat
    BY <1>1, <1>2, <1>3 DEF WiresBehind, Bounded, Rounds, Then
  <2>3. \A w \in 1..WiresBehind : Placed(w) /\ w \in DOMAIN demo.wires
    BY <1>2, <1>3, <2>2 DEF InPlace
  <2>4. \A w \in 1..WiresBehind : Placed(w)'
    BY <2>3, PlacedStays
  <2> QED
    BY <1>2, <1>3, <2>1, <2>4 DEF InPlace
<1>4. CASE NextPhase
  <2>1. /\ pc \in DOMAIN Then /\ i > Rounds /\ i' = 1 /\ spaces' = spaces
        /\ IF pc = "tcb" /\ prog < Len(demo.programs)
           THEN pc' = "vspace" ELSE pc' = Then[pc]
    BY <1>4 DEF NextPhase, objects
  <2>2. CASE pc = "tcb" /\ ~(prog < Len(demo.programs))
    <3>1. Len(spaces) = prog /\ prog = Len(demo.programs)
      BY <1>1, <1>2, <2>2 DEF Numbered, HasCNode, LoadPhases
    <3>2. pc' = "wire" /\ WiresBehind' = 0
      BY <2>1, <2>2 DEF Then, WiresBehind
    <3> QED
      BY <1>2, <2>1, <3>1, <3>2 DEF InPlace
  <2>3. CASE pc \in {"wire", "ready"}
    <3>1. pc = "wire" => i - 1 = Len(demo.wires)
      BY <1>1, <1>2, <2>1 DEF Bounded, Rounds
    <3>2. pc' \in {"ready", "enter"}
      BY <2>1, <2>3 DEF Then
    <3>3. Late /\ WiresBehind = Len(demo.wires) /\ WiresBehind' = Len(demo.wires)
      BY <1>2, <2>3, <3>1, <3>2 DEF Late, LatePhases, WiresBehind
    <3> QED
      BY <1>3, <3>3
  <2>4. CASE pc \notin {"wire", "ready"} /\ (pc = "tcb" => prog < Len(demo.programs))
    <3>1. pc' \notin LatePhases \cup {"running"}
      BY <2>1, <2>4 DEF Then, LatePhases
    <3> QED
      BY <3>1 DEF InPlace, Late
  <2> QED
    BY <2>2, <2>3, <2>4
<1>5. CASE InRound
  <2>1. pc' = pc /\ i' = i
    BY <1>5, StepKinds
  <2>2. WiresBehind' = WiresBehind /\ Late' = Late
    BY <1>2, <2>1 DEF WiresBehind, Late
  <2> QED
    BY <1>3, <2>2 DEF InPlace
<1>6. CASE EndsRound
  <2>1. pc' = pc /\ i' = i + 1 /\ i <= Rounds
    BY <1>6, StepKinds
  <2>2. CASE pc # "wire"
    <3>1. WiresBehind' = WiresBehind /\ Late' = Late
      BY <1>2, <2>1, <2>2 DEF WiresBehind, Late
    <3> QED
      BY <1>3, <3>1 DEF InPlace
  <2>3. CASE pc = "wire"
    <3>1. MapSharedFrame \/ MapPackage \/ MapDeviceFrame
      BY <1>6, <2>3
      DEF EndsRound, RetypeRootObject, MintRootObject, CreateVSpace, MapPrivateFrame,
          FillImage, CreateCNode, GrantObject, GrantSelfCNode, OpenArena, GrantArenaFrame,
          CreateThread, MakeReady, At
    <3>2. Late /\ WiresBehind = i - 1 /\ WiresBehind' = i /\ i <= Len(demo.wires)
      BY <1>2, <2>1, <2>3 DEF Late, LatePhases, WiresBehind, Rounds
    <3>3. Len(spaces') = Len(spaces)
      BY <1>1, <2>3, CountsStep DEF CreateCNode, At
    <3>4. \A w \in 1..(i - 1) : Placed(w) /\ w \in DOMAIN demo.wires
      BY <1>2, <3>2 DEF InPlace
    <3>5. \A w \in 1..(i - 1) : Placed(w)'
      BY <3>4, PlacedStays
    <3>6. \A w \in 1..i : w \in 1..(i - 1) \/ w = i
      BY <1>2
    <3>7. \A w \in 1..i : Placed(w)'
      BY <3>1, <3>5, <3>6, WirePlaces
    <3> QED
      BY <1>2, <3>2, <3>3, <3>7 DEF InPlace
  <2> QED
    BY <2>2, <2>3
<1>7. CASE EnterFirstThread
  <2>1. pc = "enter" /\ pc' = "running"
    BY <1>7 DEF EnterFirstThread, At
  <2>2. Late /\ WiresBehind' = WiresBehind
    BY <1>2, <2>1 DEF Late, LatePhases, WiresBehind
  <2> QED
    BY <1>3, <2>2
<1>8. CASE Panic
  BY <1>8 DEF Panic, InPlace, Late, LatePhases
<1> QED
  BY <1>4, <1>5, <1>6, <1>7, <1>8, StepKinds

LEMMA EverythingInPlace == Spec => [](TypeOK /\ Counting /\ Numbered /\ InPlace)
<1>1. Init => InPlace
  BY DEF Init, InPlace, Late, LatePhases
<1>2. Spec => [](IInv /\ FInv /\ RInv)
  BY EndowmentInvariance, PTL
<1>3. IInv /\ FInv /\ RInv /\ InPlace /\ [Next]_vars => InPlace'
  BY InPlaceStep
<1>4. IInv /\ FInv /\ RInv => TypeOK /\ Counting /\ Numbered
  BY DEF IInv, RInv
<1> QED
  BY <1>1, <1>2, <1>3, <1>4, PTL DEF Spec

-----------------------------------------------------------------------------
(* The shipped images, worked out.                                         *)

(* The two images of LaunchDemos, megapage by megapage.                    *)
LEMMA CodeIs ==
  /\ Len(Code) = 1 /\ Code[1] = [vaddr |-> BASE_ADDRESS, perms |-> {"R", "X"}]
  /\ Len(CodeAndData) = 2 /\ CodeAndData[1] = Code[1]
  /\ CodeAndData[2] = [vaddr |-> BASE_ADDRESS + Mega, perms |-> {"R", "W"}]
  BY SMT DEF Code, CodeAndData

(* A ProgramSpec, as far as the properties of the images ask about it.     *)
Spec4(spec, name, arg0, self, grants) ==
  /\ spec.name = name /\ spec.arg0 = arg0 /\ spec.selfCNode = self /\ spec.grants = grants
  /\ spec.image \in {Code, CodeAndData} /\ spec.heap \in 0..1

LEMMA SpecFields ==
  ASSUME NEW name, NEW arg0, NEW image \in {Code, CodeAndData}, NEW grants
  PROVE  LET spec == Program(name, arg0, image, grants)
         IN  /\ Spec4(spec, name, arg0, {}, grants)
             /\ Spec4(WithSelf(spec), name, arg0, {0}, grants)
             /\ Spec4(WithHeap(spec), name, arg0, {}, grants)
             /\ \A megapages :
                  Spec4(WithArena(WithHeap(spec), megapages), name, arg0, {}, grants)
<1> DEFINE spec == Program(name, arg0, image, grants)
           A(megapages) == {[megapages |-> megapages, selfVSpace |-> 6, frameBase |-> 7]}
<1>1. /\ spec = [name |-> name, image |-> image, arg0 |-> arg0, grants |-> grants,
                 selfCNode |-> {}, heap |-> 0, arena |-> {}]
      /\ WithSelf(spec) = [spec EXCEPT !.selfCNode = {0}]
      /\ WithHeap(spec) = [spec EXCEPT !.heap = 1]
      /\ \A megapages :
           WithArena(WithHeap(spec), megapages) = [WithHeap(spec) EXCEPT !.arena = A(megapages)]
  BY SMT DEF Program, WithSelf, WithHeap, WithArena
<1> HIDE DEF spec, A
<1>2. /\ Spec4(spec, name, arg0, {}, grants)
      /\ Spec4(WithSelf(spec), name, arg0, {0}, grants)
      /\ Spec4(WithHeap(spec), name, arg0, {}, grants)
  BY <1>1, SMT DEF Spec4
<1>3. ASSUME NEW megapages
      PROVE  Spec4(WithArena(WithHeap(spec), megapages), name, arg0, {}, grants)
  <2> DEFINE heaped == WithHeap(spec)
  <2>1. heaped = [name |-> name, image |-> image, arg0 |-> arg0, grants |-> grants,
                  selfCNode |-> {}, heap |-> 1, arena |-> {}]
    BY <1>1, SMT
  <2>2. WithArena(heaped, megapages) = [heaped EXCEPT !.arena = A(megapages)]
    BY <1>1
  <2> HIDE DEF heaped
  <2>3. WithArena(heaped, megapages) =
          [name |-> name, image |-> image, arg0 |-> arg0, grants |-> grants,
           selfCNode |-> {}, heap |-> 1, arena |-> A(megapages)]
    BY <2>1, <2>2, SMT
  <2>4. Spec4(WithArena(heaped, megapages), name, arg0, {}, grants)
    BY <2>3, SMT DEF Spec4
  <2> QED
    BY <2>4 DEF heaped
<1> QED
  BY <1>2, <1>3 DEF spec

(* What the grants of a ProgramSpec give: a capability in a slot each.     *)
Gift(d, g) == <<g.to, RootCap(d, g.from)>>
Gifts(d, spec) == {Gift(d, spec.grants[k]) : k \in DOMAIN spec.grants}

LEMMA GiftsOfOne ==
  ASSUME NEW d, NEW spec, NEW a1, NEW b1, spec.grants = <<To(a1, b1)>>
  PROVE  Gifts(d, spec) = {<<b1, RootCap(d, a1)>>}
  BY SMT DEF Gifts, Gift, To
LEMMA GiftsOfTwo ==
  ASSUME NEW d, NEW spec, NEW a1, NEW b1, NEW a2, NEW b2,
         spec.grants = <<To(a1, b1), To(a2, b2)>>
  PROVE  Gifts(d, spec) = {<<b1, RootCap(d, a1)>>, <<b2, RootCap(d, a2)>>}
  BY SMT DEF Gifts, Gift, To
LEMMA GiftsOfThree ==
  ASSUME NEW d, NEW spec, NEW a1, NEW b1, NEW a2, NEW b2, NEW a3, NEW b3,
         spec.grants = <<To(a1, b1), To(a2, b2), To(a3, b3)>>
  PROVE  Gifts(d, spec) = {<<b1, RootCap(d, a1)>>, <<b2, RootCap(d, a2)>>,
                           <<b3, RootCap(d, a3)>>}
  BY SMT DEF Gifts, Gift, To
LEMMA GiftsOfFive ==
  ASSUME NEW d, NEW spec, NEW a1, NEW b1, NEW a2, NEW b2, NEW a3, NEW b3, NEW a4, NEW b4,
         NEW a5, NEW b5,
         spec.grants = <<To(a1, b1), To(a2, b2), To(a3, b3), To(a4, b4), To(a5, b5)>>
  PROVE  Gifts(d, spec) = {<<b1, RootCap(d, a1)>>, <<b2, RootCap(d, a2)>>,
                           <<b3, RootCap(d, a3)>>, <<b4, RootCap(d, a4)>>,
                           <<b5, RootCap(d, a5)>>}
  BY SMT DEF Gifts, Gift, To

EndpointCap(obj, rights, badge) ==
  [kind |-> "Endpoint", obj |-> obj, rights |-> rights, badge |-> badge]

LEMMA RootCaps ==
  ASSUME NEW d
  PROVE  \A k :
    /\ d.root[k] = Endpoint => RootCap(d, k) = EndpointCap(k, "ALL", 0)
    /\ d.root[k] = Notification => RootCap(d, k) = Cap("Notification", k)
    /\ \A src, rights, badge :
         d.root[k] = Mint(src, rights, badge) /\ d.root[src] = Endpoint =>
           RootCap(d, k) = EndpointCap(src, rights, badge)
<1>1. \A k : d.root[k] = Endpoint => RootCap(d, k) = EndpointCap(k, "ALL", 0)
  BY SMT DEF RootCap, Source, EndpointCap, Endpoint
<1>2. \A k : d.root[k] = Notification => RootCap(d, k) = Cap("Notification", k)
  BY SMT DEF RootCap, Source, Cap, Notification, Endpoint
<1>3. ASSUME NEW k, NEW src, NEW rights, NEW badge,
             d.root[k] = Mint(src, rights, badge), d.root[src] = Endpoint
      PROVE  RootCap(d, k) = EndpointCap(src, rights, badge)
  BY <1>3, SMT DEF RootCap, Source, EndpointCap, Endpoint, Mint
<1> QED
  BY <1>1, <1>2, <1>3

(* Program p of a description and what it is given; the wires.             *)
Has(d, p, name, arg0, self, gifts) ==
  /\ d.programs[p].name = name /\ d.programs[p].arg0 = arg0
  /\ d.programs[p].selfCNode = self /\ Gifts(d, d.programs[p]) = gifts
  /\ d.programs[p].image \in {Code, CodeAndData} /\ d.programs[p].heap \in 0..1
HighWires(d) ==
  \A w \in DOMAIN d.wires : \A k \in DOMAIN d.wires[w].to :
    d.wires[w].to[k].vaddr >= PACKAGE_VADDR
Joined(d, p, q) ==
  \E w \in DOMAIN d.wires : \E j, k \in DOMAIN d.wires[w].to :
    d.wires[w].to[j].prog = p /\ d.wires[w].to[k].prog = q

LEMMA HelloIs ==
  LET d == HelloDemo IN
  /\ d.name = "hello" /\ d.first = 2 /\ DOMAIN d.root = 1..2
  /\ DOMAIN d.programs = 1..2 /\ HighWires(d)
  /\ Has(d, 1, "server", 0, {}, {<<1, EndpointCap(1, "ALL", 42)>>})
  /\ Has(d, 2, "client", 1, {}, {<<1, EndpointCap(1, "ALL", 42)>>})
<1> DEFINE d == HelloDemo
<1>1. /\ d.name = "hello" /\ d.first = 2 /\ DOMAIN d.root = 1..2
      /\ DOMAIN d.programs = 1..2
  BY SMT DEF HelloDemo
<1>2. HighWires(d)
  BY SMT DEF HelloDemo, HighWires, Joined, Shared, Package, PolicyFlash, MappedAt,
       FRAME_VADDR, PACKAGE_VADDR, CLIENT_FRAME_VADDR_ON_STORE, POLICY_FLASH_VADDR
<1>3. /\ d.root[1] = Endpoint
      /\ d.root[2] = Mint(1, "ALL", 42)
  BY SMT DEF HelloDemo
<1>4. /\ d.programs[1] =
           Program("server", 0, Code,
             <<To(2, 1)>>)
      /\ d.programs[2] =
           Program("client", 1, Code,
             <<To(2, 1)>>)
  BY SMT DEF HelloDemo, Binder, Runtime, GrantControl, PolicyStore
<1> HIDE DEF d
<1>5. /\ RootCap(d, 1) = EndpointCap(1, "ALL", 0)
      /\ RootCap(d, 2) = EndpointCap(1, "ALL", 42)
  BY <1>3, RootCaps
<1>6. Spec4(d.programs[1], "server", 0, {},
            <<To(2, 1)>>)
  BY <1>4, SpecFields
<1>7. Spec4(d.programs[2], "client", 1, {},
            <<To(2, 1)>>)
  BY <1>4, SpecFields
<1> QED
  BY <1>1, <1>2, <1>5, <1>6, <1>7, GiftsOfOne DEF Has, Spec4, d

LEMMA BrokerIs ==
  LET d == BrokerDemo IN
  /\ d.name = "broker" /\ d.first = 2 /\ DOMAIN d.root = 1..2
  /\ DOMAIN d.programs = 1..2 /\ HighWires(d)
  /\ Has(d, 1, "broker-service", 0, {0},
       {<<1, EndpointCap(1, "ALL", 0)>>,
        <<2, Cap("Notification", 2)>>})
  /\ Has(d, 2, "broker-client", 1, {}, {<<1, EndpointCap(1, "ALL", 0)>>})
<1> DEFINE d == BrokerDemo
<1>1. /\ d.name = "broker" /\ d.first = 2 /\ DOMAIN d.root = 1..2
      /\ DOMAIN d.programs = 1..2
  BY SMT DEF BrokerDemo
<1>2. HighWires(d)
  BY SMT DEF BrokerDemo, HighWires, Joined, Shared, Package, PolicyFlash, MappedAt,
       FRAME_VADDR, PACKAGE_VADDR, CLIENT_FRAME_VADDR_ON_STORE, POLICY_FLASH_VADDR
<1>3. /\ d.root[1] = Endpoint
      /\ d.root[2] = Notification
  BY SMT DEF BrokerDemo
<1>4. /\ d.programs[1] =
           WithSelf(Program("broker-service", 0, Code,
             <<To(1, 1), To(2, 2)>>))
      /\ d.programs[2] =
           Program("broker-client", 1, Code,
             <<To(1, 1)>>)
  BY SMT DEF BrokerDemo, Binder, Runtime, GrantControl, PolicyStore
<1> HIDE DEF d
<1>5. /\ RootCap(d, 1) = EndpointCap(1, "ALL", 0)
      /\ RootCap(d, 2) = Cap("Notification", 2)
  BY <1>3, RootCaps
<1>6. Spec4(d.programs[1], "broker-service", 0, {0},
            <<To(1, 1), To(2, 2)>>)
  BY <1>4, SpecFields
<1>7. Spec4(d.programs[2], "broker-client", 1, {},
            <<To(1, 1)>>)
  BY <1>4, SpecFields
<1> QED
  BY <1>1, <1>2, <1>5, <1>6, <1>7, GiftsOfOne, GiftsOfTwo DEF Has, Spec4, d

LEMMA FrameIs ==
  LET d == FrameDemo IN
  /\ d.name = "frame" /\ d.first = 2 /\ DOMAIN d.root = 1..3
  /\ DOMAIN d.programs = 1..2 /\ HighWires(d)
  /\ Has(d, 1, "frame-service", 0, {}, {<<1, EndpointCap(1, "ALL", 0)>>})
  /\ Has(d, 2, "frame-client", 1, {},
       {<<1, EndpointCap(1, "ALL", 0)>>,
        <<2, Cap("Notification", 2)>>,
        <<3, Cap("Notification", 3)>>})
<1> DEFINE d == FrameDemo
<1>1. /\ d.name = "frame" /\ d.first = 2 /\ DOMAIN d.root = 1..3
      /\ DOMAIN d.programs = 1..2
  BY SMT DEF FrameDemo
<1>2. HighWires(d)
  BY SMT DEF FrameDemo, HighWires, Joined, Shared, Package, PolicyFlash, MappedAt,
       FRAME_VADDR, PACKAGE_VADDR, CLIENT_FRAME_VADDR_ON_STORE, POLICY_FLASH_VADDR
<1>3. /\ d.root[1] = Endpoint
      /\ d.root[2] = Notification
      /\ d.root[3] = Notification
  BY SMT DEF FrameDemo
<1>4. /\ d.programs[1] =
           Program("frame-service", 0, CodeAndData,
             <<To(1, 1)>>)
      /\ d.programs[2] =
           Program("frame-client", 1, CodeAndData,
             <<To(1, 1), To(2, 2), To(3, 3)>>)
  BY SMT DEF FrameDemo, Binder, Runtime, GrantControl, PolicyStore
<1> HIDE DEF d
<1>5. /\ RootCap(d, 1) = EndpointCap(1, "ALL", 0)
      /\ RootCap(d, 2) = Cap("Notification", 2)
      /\ RootCap(d, 3) = Cap("Notification", 3)
  BY <1>3, RootCaps
<1>6. Spec4(d.programs[1], "frame-service", 0, {},
            <<To(1, 1)>>)
  BY <1>4, SpecFields
<1>7. Spec4(d.programs[2], "frame-client", 1, {},
            <<To(1, 1), To(2, 2), To(3, 3)>>)
  BY <1>4, SpecFields
<1> QED
  BY <1>1, <1>2, <1>5, <1>6, <1>7, GiftsOfOne, GiftsOfThree DEF Has, Spec4, d

LEMMA KeystoreIs ==
  LET d == KeystoreDemo IN
  /\ d.name = "keystore" /\ d.first = 2 /\ DOMAIN d.root = 1..3
  /\ DOMAIN d.programs = 1..2 /\ HighWires(d)
  /\ Joined(d, 1, 2)
  /\ Has(d, 1, "keystore-service", PROFILE_AEAD, {0},
       {<<1, EndpointCap(1, "ALL", 0)>>})
  /\ Has(d, 2, "keystore-client", 1, {},
       {<<1, EndpointCap(1, "ALL", 0)>>,
        <<3, Cap("Notification", 2)>>,
        <<4, Cap("Notification", 3)>>})
<1> DEFINE d == KeystoreDemo
<1>1. /\ d.name = "keystore" /\ d.first = 2 /\ DOMAIN d.root = 1..3
      /\ DOMAIN d.programs = 1..2
  BY SMT DEF KeystoreDemo
<1>2. HighWires(d) /\ Joined(d, 1, 2)
  BY SMT DEF KeystoreDemo, HighWires, Joined, Shared, Package, PolicyFlash, MappedAt,
       FRAME_VADDR, PACKAGE_VADDR, CLIENT_FRAME_VADDR_ON_STORE, POLICY_FLASH_VADDR
<1>3. /\ d.root[1] = Endpoint
      /\ d.root[2] = Notification
      /\ d.root[3] = Notification
  BY SMT DEF KeystoreDemo
<1>4. /\ d.programs[1] =
           WithSelf(Program("keystore-service", PROFILE_AEAD, CodeAndData,
             <<To(1, 1)>>))
      /\ d.programs[2] =
           Program("keystore-client", 1, CodeAndData,
             <<To(1, 1), To(2, 3), To(3, 4)>>)
  BY SMT DEF KeystoreDemo, Binder, Runtime, GrantControl, PolicyStore
<1> HIDE DEF d
<1>5. /\ RootCap(d, 1) = EndpointCap(1, "ALL", 0)
      /\ RootCap(d, 2) = Cap("Notification", 2)
      /\ RootCap(d, 3) = Cap("Notification", 3)
  BY <1>3, RootCaps
<1>6. Spec4(d.programs[1], "keystore-service", PROFILE_AEAD, {0},
            <<To(1, 1)>>)
  BY <1>4, SpecFields
<1>7. Spec4(d.programs[2], "keystore-client", 1, {},
            <<To(1, 1), To(2, 3), To(3, 4)>>)
  BY <1>4, SpecFields
<1> QED
  BY <1>1, <1>2, <1>5, <1>6, <1>7, GiftsOfOne, GiftsOfThree DEF Has, Spec4, d

LEMMA StoreIs ==
  LET d == StoreDemo IN
  /\ d.name = "store" /\ d.first = 3 /\ DOMAIN d.root = 1..4
  /\ DOMAIN d.programs = 1..3 /\ HighWires(d)
  /\ Joined(d, 1, 2)
  /\ Joined(d, 2, 3)
  /\ Has(d, 1, "keystore-service", PROFILE_AEAD, {0},
       {<<1, EndpointCap(1, "ALL", 0)>>})
  /\ Has(d, 2, "store-service", 1, {0},
       {<<1, EndpointCap(1, "ALL", 0)>>,
        <<3, EndpointCap(2, "ALL", 0)>>})
  /\ Has(d, 3, "store-client", 2, {},
       {<<1, EndpointCap(2, "ALL", 0)>>,
        <<3, Cap("Notification", 3)>>,
        <<4, Cap("Notification", 4)>>})
<1> DEFINE d == StoreDemo
<1>1. /\ d.name = "store" /\ d.first = 3 /\ DOMAIN d.root = 1..4
      /\ DOMAIN d.programs = 1..3
  BY SMT DEF StoreDemo
<1>2. HighWires(d) /\ Joined(d, 1, 2) /\ Joined(d, 2, 3)
  BY SMT DEF StoreDemo, HighWires, Joined, Shared, Package, PolicyFlash, MappedAt,
       FRAME_VADDR, PACKAGE_VADDR, CLIENT_FRAME_VADDR_ON_STORE, POLICY_FLASH_VADDR
<1>3. /\ d.root[1] = Endpoint
      /\ d.root[2] = Endpoint
      /\ d.root[3] = Notification
      /\ d.root[4] = Notification
  BY SMT DEF StoreDemo
<1>4. /\ d.programs[1] =
           WithSelf(Program("keystore-service", PROFILE_AEAD, CodeAndData,
             <<To(1, 1)>>))
      /\ d.programs[2] =
           WithSelf(Program("store-service", 1, CodeAndData,
             <<To(1, 1), To(2, 3)>>))
      /\ d.programs[3] =
           Program("store-client", 2, CodeAndData,
             <<To(2, 1), To(3, 3), To(4, 4)>>)
  BY SMT DEF StoreDemo, Binder, Runtime, GrantControl, PolicyStore
<1> HIDE DEF d
<1>5. /\ RootCap(d, 1) = EndpointCap(1, "ALL", 0)
      /\ RootCap(d, 2) = EndpointCap(2, "ALL", 0)
      /\ RootCap(d, 3) = Cap("Notification", 3)
      /\ RootCap(d, 4) = Cap("Notification", 4)
  BY <1>3, RootCaps
<1>6. Spec4(d.programs[1], "keystore-service", PROFILE_AEAD, {0},
            <<To(1, 1)>>)
  BY <1>4, SpecFields
<1>7. Spec4(d.programs[2], "store-service", 1, {0},
            <<To(1, 1), To(2, 3)>>)
  BY <1>4, SpecFields
<1>8. Spec4(d.programs[3], "store-client", 2, {},
            <<To(2, 1), To(3, 3), To(4, 4)>>)
  BY <1>4, SpecFields
<1> QED
  BY <1>1, <1>2, <1>5, <1>6, <1>7, <1>8, GiftsOfOne, GiftsOfThree, GiftsOfTwo DEF Has, Spec4, d

LEMMA WasmProbeIs ==
  LET d == WasmProbeDemo IN
  /\ d.name = "wasm-probe" /\ d.first = 1 /\ DOMAIN d.root = 1..2
  /\ DOMAIN d.programs = 1..1 /\ HighWires(d)
  /\ Has(d, 1, "wasm-probe", 0, {},
       {<<4, Cap("Notification", 1)>>,
        <<5, Cap("Notification", 2)>>})
<1> DEFINE d == WasmProbeDemo
<1>1. /\ d.name = "wasm-probe" /\ d.first = 1 /\ DOMAIN d.root = 1..2
      /\ DOMAIN d.programs = 1..1
  BY SMT DEF WasmProbeDemo
<1>2. HighWires(d)
  BY SMT DEF WasmProbeDemo, HighWires, Joined, Shared, Package, PolicyFlash, MappedAt,
       FRAME_VADDR, PACKAGE_VADDR, CLIENT_FRAME_VADDR_ON_STORE, POLICY_FLASH_VADDR
<1>3. /\ d.root[1] = Notification
      /\ d.root[2] = Notification
  BY SMT DEF WasmProbeDemo
<1>4. /\ d.programs[1] =
           WithArena(WithHeap(Program("wasm-probe", 0, CodeAndData,
             <<To(1, 4), To(2, 5)>>)), 2)
  BY SMT DEF WasmProbeDemo, Binder, Runtime, GrantControl, PolicyStore
<1> HIDE DEF d
<1>5. /\ RootCap(d, 1) = Cap("Notification", 1)
      /\ RootCap(d, 2) = Cap("Notification", 2)
  BY <1>3, RootCaps
<1>6. Spec4(d.programs[1], "wasm-probe", 0, {},
            <<To(1, 4), To(2, 5)>>)
  BY <1>4, SpecFields
<1> QED
  BY <1>1, <1>2, <1>5, <1>6, GiftsOfTwo DEF Has, Spec4, d

LEMMA RuntimeIs ==
  LET d == RuntimeDemo IN
  /\ d.name = "runtime" /\ d.first = 3 /\ DOMAIN d.root = 1..12
  /\ DOMAIN d.programs = 1..5 /\ HighWires(d)
  /\ Has(d, 1, "keystore-service", Launched(PROFILE_SIGNING), {0},
       {<<1, EndpointCap(1, "ALL", 0)>>})
  /\ Has(d, 2, "launch-binder", PROBE_LPKG, {},
       {<<1, EndpointCap(3, "ALL", 0)>>,
        <<8, EndpointCap(9, "WRITE", 0)>>,
        <<2, EndpointCap(1, "WRITE", GRANTER_BADGE)>>})
  /\ Has(d, 3, "confined-runtime", PROBE_LPKG, {},
       {<<1, EndpointCap(3, "WRITE", 0)>>,
        <<3, Cap("Notification", 7)>>,
        <<4, Cap("Notification", 8)>>,
        <<10, Cap("Notification", 11)>>,
        <<11, Cap("Notification", 12)>>})
  /\ Has(d, 4, "grant-control", SignOnly, {},
       {<<1, EndpointCap(3, "WRITE", CONTROL_BADGE)>>,
        <<2, EndpointCap(1, "WRITE", 0)>>,
        <<4, Cap("Notification", 8)>>,
        <<5, Cap("Notification", 11)>>,
        <<6, Cap("Notification", 12)>>})
  /\ Has(d, 5, "policy-store", 0, {},
       {<<1, EndpointCap(9, "ALL", 0)>>,
        <<4, Cap("Notification", 8)>>})
<1> DEFINE d == RuntimeDemo
<1>1. /\ d.name = "runtime" /\ d.first = 3 /\ DOMAIN d.root = 1..12
      /\ DOMAIN d.programs = 1..5
  BY SMT DEF RuntimeDemo
<1>2. HighWires(d)
  BY SMT DEF RuntimeDemo, HighWires, Joined, Shared, Package, PolicyFlash, MappedAt,
       FRAME_VADDR, PACKAGE_VADDR, CLIENT_FRAME_VADDR_ON_STORE, POLICY_FLASH_VADDR
<1>3. /\ d.root[1] = Endpoint
      /\ d.root[2] = Mint(1, "WRITE", GRANTER_BADGE)
      /\ d.root[3] = Endpoint
      /\ d.root[4] = Mint(3, "WRITE", 0)
      /\ d.root[5] = Mint(3, "WRITE", CONTROL_BADGE)
      /\ d.root[6] = Mint(1, "WRITE", 0)
      /\ d.root[7] = Notification
      /\ d.root[8] = Notification
      /\ d.root[9] = Endpoint
      /\ d.root[10] = Mint(9, "WRITE", 0)
      /\ d.root[11] = Notification
      /\ d.root[12] = Notification
  BY SMT DEF RuntimeDemo
<1>4. /\ d.programs[1] =
           WithSelf(Program("keystore-service", Launched(PROFILE_SIGNING), CodeAndData,
             <<To(1, 1)>>))
      /\ d.programs[2] =
           WithHeap(Program("launch-binder", PROBE_LPKG, CodeAndData,
             <<To(3, 1), To(10, 8), To(2, 2)>>))
      /\ d.programs[3] =
           WithArena(WithHeap(Program("confined-runtime", PROBE_LPKG, CodeAndData,
             <<To(4, 1), To(7, 3), To(8, 4), To(11, 10), To(12, 11)>>)), 3)
      /\ d.programs[4] =
           Program("grant-control", SignOnly, CodeAndData,
             <<To(5, 1), To(6, 2), To(8, 4), To(11, 5), To(12, 6)>>)
      /\ d.programs[5] =
           Program("policy-store", 0, CodeAndData,
             <<To(9, 1), To(8, 4)>>)
  BY SMT DEF RuntimeDemo, Binder, Runtime, GrantControl, PolicyStore
<1> HIDE DEF d
<1>5. /\ RootCap(d, 1) = EndpointCap(1, "ALL", 0)
      /\ RootCap(d, 2) = EndpointCap(1, "WRITE", GRANTER_BADGE)
      /\ RootCap(d, 3) = EndpointCap(3, "ALL", 0)
      /\ RootCap(d, 4) = EndpointCap(3, "WRITE", 0)
      /\ RootCap(d, 5) = EndpointCap(3, "WRITE", CONTROL_BADGE)
      /\ RootCap(d, 6) = EndpointCap(1, "WRITE", 0)
      /\ RootCap(d, 7) = Cap("Notification", 7)
      /\ RootCap(d, 8) = Cap("Notification", 8)
      /\ RootCap(d, 9) = EndpointCap(9, "ALL", 0)
      /\ RootCap(d, 10) = EndpointCap(9, "WRITE", 0)
      /\ RootCap(d, 11) = Cap("Notification", 11)
      /\ RootCap(d, 12) = Cap("Notification", 12)
  BY <1>3, RootCaps
<1>6. Has(d, 1, "keystore-service", Launched(PROFILE_SIGNING), {0},
         {<<1, EndpointCap(1, "ALL", 0)>>})
  <2>1. Spec4(d.programs[1], "keystore-service", Launched(PROFILE_SIGNING), {0},
              <<To(1, 1)>>)
    BY <1>4, SpecFields
  <2>2. Gifts(d, d.programs[1]) =
            {<<1, EndpointCap(1, "ALL", 0)>>}
    BY <2>1, <1>5, GiftsOfOne DEF Spec4
  <2> QED
    BY <2>1, <2>2 DEF Has, Spec4
<1>7. Has(d, 2, "launch-binder", PROBE_LPKG, {},
         {<<1, EndpointCap(3, "ALL", 0)>>,
          <<8, EndpointCap(9, "WRITE", 0)>>,
          <<2, EndpointCap(1, "WRITE", GRANTER_BADGE)>>})
  <2>1. Spec4(d.programs[2], "launch-binder", PROBE_LPKG, {},
              <<To(3, 1), To(10, 8), To(2, 2)>>)
    BY <1>4, SpecFields
  <2>2. Gifts(d, d.programs[2]) =
            {<<1, EndpointCap(3, "ALL", 0)>>,
             <<8, EndpointCap(9, "WRITE", 0)>>,
             <<2, EndpointCap(1, "WRITE", GRANTER_BADGE)>>}
    BY <2>1, <1>5, GiftsOfThree DEF Spec4
  <2> QED
    BY <2>1, <2>2 DEF Has, Spec4
<1>8. Has(d, 3, "confined-runtime", PROBE_LPKG, {},
         {<<1, EndpointCap(3, "WRITE", 0)>>,
          <<3, Cap("Notification", 7)>>,
          <<4, Cap("Notification", 8)>>,
          <<10, Cap("Notification", 11)>>,
          <<11, Cap("Notification", 12)>>})
  <2>1. Spec4(d.programs[3], "confined-runtime", PROBE_LPKG, {},
              <<To(4, 1), To(7, 3), To(8, 4), To(11, 10), To(12, 11)>>)
    BY <1>4, SpecFields
  <2>2. Gifts(d, d.programs[3]) =
            {<<1, EndpointCap(3, "WRITE", 0)>>,
             <<3, Cap("Notification", 7)>>,
             <<4, Cap("Notification", 8)>>,
             <<10, Cap("Notification", 11)>>,
             <<11, Cap("Notification", 12)>>}
    BY <2>1, <1>5, GiftsOfFive DEF Spec4
  <2> QED
    BY <2>1, <2>2 DEF Has, Spec4
<1>9. Has(d, 4, "grant-control", SignOnly, {},
         {<<1, EndpointCap(3, "WRITE", CONTROL_BADGE)>>,
          <<2, EndpointCap(1, "WRITE", 0)>>,
          <<4, Cap("Notification", 8)>>,
          <<5, Cap("Notification", 11)>>,
          <<6, Cap("Notification", 12)>>})
  <2>1. Spec4(d.programs[4], "grant-control", SignOnly, {},
              <<To(5, 1), To(6, 2), To(8, 4), To(11, 5), To(12, 6)>>)
    BY <1>4, SpecFields
  <2>2. Gifts(d, d.programs[4]) =
            {<<1, EndpointCap(3, "WRITE", CONTROL_BADGE)>>,
             <<2, EndpointCap(1, "WRITE", 0)>>,
             <<4, Cap("Notification", 8)>>,
             <<5, Cap("Notification", 11)>>,
             <<6, Cap("Notification", 12)>>}
    BY <2>1, <1>5, GiftsOfFive DEF Spec4
  <2> QED
    BY <2>1, <2>2 DEF Has, Spec4
<1>10. Has(d, 5, "policy-store", 0, {},
         {<<1, EndpointCap(9, "ALL", 0)>>,
          <<4, Cap("Notification", 8)>>})
  <2>1. Spec4(d.programs[5], "policy-store", 0, {},
              <<To(9, 1), To(8, 4)>>)
    BY <1>4, SpecFields
  <2>2. Gifts(d, d.programs[5]) =
            {<<1, EndpointCap(9, "ALL", 0)>>,
             <<4, Cap("Notification", 8)>>}
    BY <2>1, <1>5, GiftsOfTwo DEF Spec4
  <2> QED
    BY <2>1, <2>2 DEF Has, Spec4
<1> QED
  BY <1>1, <1>2, <1>6, <1>7, <1>8, <1>9, <1>10 DEF d

LEMMA RuntimeFsIs ==
  LET d == RuntimeFsDemo IN
  /\ d.name = "runtime-fs" /\ d.first = 4 /\ DOMAIN d.root = 1..13
  /\ DOMAIN d.programs = 1..6 /\ HighWires(d)
  /\ Joined(d, 1, 2)
  /\ Has(d, 1, "keystore-service", PROFILE_AEAD, {0},
       {<<1, EndpointCap(1, "ALL", 0)>>})
  /\ Has(d, 2, "store-service", Launched(1), {0},
       {<<1, EndpointCap(1, "ALL", 0)>>,
        <<3, EndpointCap(2, "ALL", 0)>>})
  /\ Has(d, 3, "launch-binder", FS_PROBE_LPKG, {},
       {<<1, EndpointCap(4, "ALL", 0)>>,
        <<8, EndpointCap(10, "WRITE", 0)>>,
        <<3, EndpointCap(2, "WRITE", GRANTER_BADGE)>>})
  /\ Has(d, 4, "confined-runtime", FS_PROBE_LPKG, {},
       {<<1, EndpointCap(4, "WRITE", 0)>>,
        <<3, Cap("Notification", 8)>>,
        <<4, Cap("Notification", 9)>>,
        <<10, Cap("Notification", 12)>>,
        <<11, Cap("Notification", 13)>>})
  /\ Has(d, 5, "grant-control", ReadWrite, {},
       {<<1, EndpointCap(4, "WRITE", CONTROL_BADGE)>>,
        <<2, EndpointCap(2, "WRITE", 0)>>,
        <<4, Cap("Notification", 9)>>,
        <<5, Cap("Notification", 12)>>,
        <<6, Cap("Notification", 13)>>})
  /\ Has(d, 6, "policy-store", 0, {},
       {<<1, EndpointCap(10, "ALL", 0)>>,
        <<4, Cap("Notification", 9)>>})
<1> DEFINE d == RuntimeFsDemo
<1>1. /\ d.name = "runtime-fs" /\ d.first = 4 /\ DOMAIN d.root = 1..13
      /\ DOMAIN d.programs = 1..6
  BY SMT DEF RuntimeFsDemo
<1>2. HighWires(d) /\ Joined(d, 1, 2)
  BY SMT DEF RuntimeFsDemo, HighWires, Joined, Shared, Package, PolicyFlash, MappedAt,
       FRAME_VADDR, PACKAGE_VADDR, CLIENT_FRAME_VADDR_ON_STORE, POLICY_FLASH_VADDR
<1>3. /\ d.root[1] = Endpoint
      /\ d.root[2] = Endpoint
      /\ d.root[3] = Mint(2, "WRITE", GRANTER_BADGE)
      /\ d.root[4] = Endpoint
      /\ d.root[5] = Mint(4, "WRITE", 0)
      /\ d.root[6] = Mint(4, "WRITE", CONTROL_BADGE)
      /\ d.root[7] = Mint(2, "WRITE", 0)
      /\ d.root[8] = Notification
      /\ d.root[9] = Notification
      /\ d.root[10] = Endpoint
      /\ d.root[11] = Mint(10, "WRITE", 0)
      /\ d.root[12] = Notification
      /\ d.root[13] = Notification
  BY SMT DEF RuntimeFsDemo
<1>4. /\ d.programs[1] =
           WithSelf(Program("keystore-service", PROFILE_AEAD, CodeAndData,
             <<To(1, 1)>>))
      /\ d.programs[2] =
           WithSelf(Program("store-service", Launched(1), CodeAndData,
             <<To(1, 1), To(2, 3)>>))
      /\ d.programs[3] =
           WithHeap(Program("launch-binder", FS_PROBE_LPKG, CodeAndData,
             <<To(4, 1), To(11, 8), To(3, 3)>>))
      /\ d.programs[4] =
           WithArena(WithHeap(Program("confined-runtime", FS_PROBE_LPKG, CodeAndData,
             <<To(5, 1), To(8, 3), To(9, 4), To(12, 10), To(13, 11)>>)), 3)
      /\ d.programs[5] =
           Program("grant-control", ReadWrite, CodeAndData,
             <<To(6, 1), To(7, 2), To(9, 4), To(12, 5), To(13, 6)>>)
      /\ d.programs[6] =
           Program("policy-store", 0, CodeAndData,
             <<To(10, 1), To(9, 4)>>)
  BY SMT DEF RuntimeFsDemo, Binder, Runtime, GrantControl, PolicyStore
<1> HIDE DEF d
<1>5. /\ RootCap(d, 1) = EndpointCap(1, "ALL", 0)
      /\ RootCap(d, 2) = EndpointCap(2, "ALL", 0)
      /\ RootCap(d, 3) = EndpointCap(2, "WRITE", GRANTER_BADGE)
      /\ RootCap(d, 4) = EndpointCap(4, "ALL", 0)
      /\ RootCap(d, 5) = EndpointCap(4, "WRITE", 0)
      /\ RootCap(d, 6) = EndpointCap(4, "WRITE", CONTROL_BADGE)
      /\ RootCap(d, 7) = EndpointCap(2, "WRITE", 0)
      /\ RootCap(d, 8) = Cap("Notification", 8)
      /\ RootCap(d, 9) = Cap("Notification", 9)
      /\ RootCap(d, 10) = EndpointCap(10, "ALL", 0)
      /\ RootCap(d, 11) = EndpointCap(10, "WRITE", 0)
      /\ RootCap(d, 12) = Cap("Notification", 12)
      /\ RootCap(d, 13) = Cap("Notification", 13)
  BY <1>3, RootCaps
<1>6. Has(d, 1, "keystore-service", PROFILE_AEAD, {0},
         {<<1, EndpointCap(1, "ALL", 0)>>})
  <2>1. Spec4(d.programs[1], "keystore-service", PROFILE_AEAD, {0},
              <<To(1, 1)>>)
    BY <1>4, SpecFields
  <2>2. Gifts(d, d.programs[1]) =
            {<<1, EndpointCap(1, "ALL", 0)>>}
    BY <2>1, <1>5, GiftsOfOne DEF Spec4
  <2> QED
    BY <2>1, <2>2 DEF Has, Spec4
<1>7. Has(d, 2, "store-service", Launched(1), {0},
         {<<1, EndpointCap(1, "ALL", 0)>>,
          <<3, EndpointCap(2, "ALL", 0)>>})
  <2>1. Spec4(d.programs[2], "store-service", Launched(1), {0},
              <<To(1, 1), To(2, 3)>>)
    BY <1>4, SpecFields
  <2>2. Gifts(d, d.programs[2]) =
            {<<1, EndpointCap(1, "ALL", 0)>>,
             <<3, EndpointCap(2, "ALL", 0)>>}
    BY <2>1, <1>5, GiftsOfTwo DEF Spec4
  <2> QED
    BY <2>1, <2>2 DEF Has, Spec4
<1>8. Has(d, 3, "launch-binder", FS_PROBE_LPKG, {},
         {<<1, EndpointCap(4, "ALL", 0)>>,
          <<8, EndpointCap(10, "WRITE", 0)>>,
          <<3, EndpointCap(2, "WRITE", GRANTER_BADGE)>>})
  <2>1. Spec4(d.programs[3], "launch-binder", FS_PROBE_LPKG, {},
              <<To(4, 1), To(11, 8), To(3, 3)>>)
    BY <1>4, SpecFields
  <2>2. Gifts(d, d.programs[3]) =
            {<<1, EndpointCap(4, "ALL", 0)>>,
             <<8, EndpointCap(10, "WRITE", 0)>>,
             <<3, EndpointCap(2, "WRITE", GRANTER_BADGE)>>}
    BY <2>1, <1>5, GiftsOfThree DEF Spec4
  <2> QED
    BY <2>1, <2>2 DEF Has, Spec4
<1>9. Has(d, 4, "confined-runtime", FS_PROBE_LPKG, {},
         {<<1, EndpointCap(4, "WRITE", 0)>>,
          <<3, Cap("Notification", 8)>>,
          <<4, Cap("Notification", 9)>>,
          <<10, Cap("Notification", 12)>>,
          <<11, Cap("Notification", 13)>>})
  <2>1. Spec4(d.programs[4], "confined-runtime", FS_PROBE_LPKG, {},
              <<To(5, 1), To(8, 3), To(9, 4), To(12, 10), To(13, 11)>>)
    BY <1>4, SpecFields
  <2>2. Gifts(d, d.programs[4]) =
            {<<1, EndpointCap(4, "WRITE", 0)>>,
             <<3, Cap("Notification", 8)>>,
             <<4, Cap("Notification", 9)>>,
             <<10, Cap("Notification", 12)>>,
             <<11, Cap("Notification", 13)>>}
    BY <2>1, <1>5, GiftsOfFive DEF Spec4
  <2> QED
    BY <2>1, <2>2 DEF Has, Spec4
<1>10. Has(d, 5, "grant-control", ReadWrite, {},
         {<<1, EndpointCap(4, "WRITE", CONTROL_BADGE)>>,
          <<2, EndpointCap(2, "WRITE", 0)>>,
          <<4, Cap("Notification", 9)>>,
          <<5, Cap("Notification", 12)>>,
          <<6, Cap("Notification", 13)>>})
  <2>1. Spec4(d.programs[5], "grant-control", ReadWrite, {},
              <<To(6, 1), To(7, 2), To(9, 4), To(12, 5), To(13, 6)>>)
    BY <1>4, SpecFields
  <2>2. Gifts(d, d.programs[5]) =
            {<<1, EndpointCap(4, "WRITE", CONTROL_BADGE)>>,
             <<2, EndpointCap(2, "WRITE", 0)>>,
             <<4, Cap("Notification", 9)>>,
             <<5, Cap("Notification", 12)>>,
             <<6, Cap("Notification", 13)>>}
    BY <2>1, <1>5, GiftsOfFive DEF Spec4
  <2> QED
    BY <2>1, <2>2 DEF Has, Spec4
<1>11. Has(d, 6, "policy-store", 0, {},
         {<<1, EndpointCap(10, "ALL", 0)>>,
          <<4, Cap("Notification", 9)>>})
  <2>1. Spec4(d.programs[6], "policy-store", 0, {},
              <<To(10, 1), To(9, 4)>>)
    BY <1>4, SpecFields
  <2>2. Gifts(d, d.programs[6]) =
            {<<1, EndpointCap(10, "ALL", 0)>>,
             <<4, Cap("Notification", 9)>>}
    BY <2>1, <1>5, GiftsOfTwo DEF Spec4
  <2> QED
    BY <2>1, <2>2 DEF Has, Spec4
<1> QED
  BY <1>1, <1>2, <1>6, <1>7, <1>8, <1>9, <1>10, <1>11 DEF d

-----------------------------------------------------------------------------
(* What a program holds once the first thread runs.                        *)
Entered == Running /\ TypeOK /\ Counting /\ Numbered /\ InPlace /\ AsDeclared

LEMMA RootCapFacts ==
  ASSUME NEW d, IsDescription(d), NEW g, g.from \in DOMAIN d.root
  PROVE  /\ RootCap(d, g.from).kind \in {"Endpoint", "Notification", "Mint"}
         /\ Abstract!Granted(d, g) =
              [slot |-> g.to, kind |-> RootCap(d, g.from).kind,
               obj |-> RootCap(d, g.from).obj, rights |-> RootCap(d, g.from).rights,
               badge |-> RootCap(d, g.from).badge]
<1>1. d.root \in Seq(RootObjects) /\ DOMAIN d.root = 1..Len(d.root) /\ Len(d.root) \in Nat
  BY LenProperties DEF IsDescription, Descriptions
<1>2. Source(d, g.from) \in DOMAIN d.root
  BY <1>1 DEF IsDescription, Source
<1>3. d.root[Source(d, g.from)] \in RootObjects
  BY <1>1, <1>2
<1>4. RootCap(d, g.from).kind \in {"Endpoint", "Notification", "Mint"}
  BY <1>3 DEF RootCap, RootObjects
<1>5. Seen(g.to, RootCap(d, g.from)) = Abstract!Granted(d, g)
  BY GrantMeans
<1> QED
  BY <1>4, <1>5 DEF Seen

LEMMA EnteredFacts ==
  ASSUME Entered
  PROVE  /\ IsDescription(demo) /\ demo \in Demos
         /\ DOMAIN tcbs = DOMAIN demo.programs /\ DOMAIN tcbs = 1..Len(demo.programs)
         /\ DOMAIN demo.wires = 1..Len(demo.wires)
         /\ \A p \in DOMAIN tcbs :
              /\ Held(p) = spaces[p] /\ Held(p) \in [Slots -> Caps]
              /\ tcbs[p].vspace = p /\ tcbs[p].arg0 = demo.programs[p].arg0
              /\ CapsOf(p) = Abstract!Authority(demo, p)
              /\ \A k \in DOMAIN demo.programs[p].grants :
                   demo.programs[p].grants[k].from \in DOMAIN demo.root
<1>1. /\ IsDescription(demo) /\ demo \in Demos /\ spaces \in Seq([Slots -> Caps])
      /\ DOMAIN demo.programs = 1..Len(demo.programs)
      /\ DOMAIN demo.wires = 1..Len(demo.wires)
  BY DemoFacts, LenProperties DEF Entered, TypeOK
<1>2. DOMAIN tcbs = DOMAIN demo.programs /\ Len(spaces) = Len(demo.programs)
  BY DEF Entered, AsDeclared, InPlace, Late, Running
<1>3. DOMAIN spaces = 1..Len(spaces)
  BY <1>1, LenProperties
<1>4. ASSUME NEW p \in DOMAIN tcbs
      PROVE  /\ Held(p) = spaces[p] /\ Held(p) \in [Slots -> Caps]
             /\ tcbs[p].vspace = p /\ tcbs[p].arg0 = demo.programs[p].arg0
             /\ CapsOf(p) = Abstract!Authority(demo, p)
             /\ \A k \in DOMAIN demo.programs[p].grants :
                  demo.programs[p].grants[k].from \in DOMAIN demo.root
  <2>1. tcbs[p].cspace = p /\ tcbs[p].vspace = p
    BY DEF Entered, Numbered
  <2>2. spaces[p] \in [Slots -> Caps]
    BY <1>1, <1>2, <1>3
  <2>3. Declares(p, CapsOf(p), MemoryOf(p), tcbs[p].arg0)
    BY DEF Entered, AsDeclared
  <2>4. \A k \in DOMAIN demo.programs[p].grants :
          demo.programs[p].grants[k].from \in DOMAIN demo.root
    BY <1>1, <1>2 DEF IsDescription
  <2> QED
    BY <2>1, <2>2, <2>3, <2>4 DEF Held, Declares
<1> QED
  BY <1>1, <1>2, <1>4

(* In a slot that is not empty there is something that was declared.       *)
LEMMA HeldIsDeclared ==
  ASSUME Entered, NEW p \in DOMAIN tcbs, NEW s \in Slots,
         Held(p)[s].kind \in {"Endpoint", "Notification", "CNode"}
  PROVE  [slot |-> s, kind |-> Held(p)[s].kind, obj |-> Held(p)[s].obj,
          rights |-> Held(p)[s].rights, badge |-> Held(p)[s].badge]
           \in Abstract!Authority(demo, p)
<1>1. tcbs[p].cspace = p /\ Held(p) = spaces[p]
  BY EnteredFacts DEF Entered, Numbered
<1>2. Held(p)[s] # Empty
  BY DEF Empty
<1>3. [slot |-> s, kind |-> Held(p)[s].kind, obj |-> Held(p)[s].obj,
       rights |-> Held(p)[s].rights, badge |-> Held(p)[s].badge] \in CapsOf(p)
  BY <1>1, <1>2 DEF CapsOf
<1> QED
  BY <1>3, EnteredFacts

LEMMA AuthorityCases ==
  ASSUME Entered, NEW p \in DOMAIN tcbs, NEW x \in Abstract!Authority(demo, p)
  PROVE  \/ \E k \in DOMAIN demo.programs[p].grants :
              x = Abstract!Granted(demo, demo.programs[p].grants[k])
         \/ x.kind = "CNode" /\ x.slot \in demo.programs[p].selfCNode
         \/ x.kind \in {"VSpace", "Frame"}
BY DEF Abstract!Authority, Abstract!Held

LEMMA HeldIsAGift ==
  ASSUME Entered, NEW p \in DOMAIN tcbs, NEW s \in Slots,
         Held(p)[s].kind \in {"Endpoint", "Notification"}
  PROVE  <<s, Held(p)[s]>> \in Gifts(demo, demo.programs[p])
<1> DEFINE cap == Held(p)[s]
           x == [slot |-> s, kind |-> cap.kind, obj |-> cap.obj, rights |-> cap.rights,
                 badge |-> cap.badge]
           spec == demo.programs[p]
<1>1. cap \in Caps
  BY EnteredFacts
<1>2. x \in Abstract!Authority(demo, p)
  BY HeldIsDeclared
<1> HIDE DEF cap
<1>3. x.kind \in {"Endpoint", "Notification"}
  BY DEF cap
<1>4. PICK k \in DOMAIN spec.grants : x = Abstract!Granted(demo, spec.grants[k])
  BY <1>2, <1>3, AuthorityCases
<1> DEFINE g == spec.grants[k]
           gives == RootCap(demo, g.from)
<1>5. x = [slot |-> g.to, kind |-> gives.kind, obj |-> gives.obj, rights |-> gives.rights,
           badge |-> gives.badge]
  BY <1>4, EnteredFacts, RootCapFacts
<1>6. g.to = s /\ gives.kind = cap.kind /\ gives.obj = cap.obj /\ gives.rights = cap.rights
      /\ gives.badge = cap.badge
  BY <1>5
<1>7. gives = [kind |-> gives.kind, obj |-> gives.obj, rights |-> gives.rights,
               badge |-> gives.badge]
  BY DEF RootCap
<1> HIDE DEF gives
<1>8. cap = gives
  BY <1>1, <1>6, <1>7 DEF Caps
<1>9. Gift(demo, g) = <<s, cap>>
  BY <1>6, <1>8 DEF Gift, gives
<1> QED
  BY <1>4, <1>9 DEF Gifts, cap

LEMMA GiftIsHeld ==
  ASSUME Entered, NEW p \in DOMAIN tcbs, NEW gift \in Gifts(demo, demo.programs[p])
  PROVE  gift[1] \in Slots /\ Held(p)[gift[1]] = gift[2]
<1> DEFINE spec == demo.programs[p]
<1>1. PICK k \in DOMAIN spec.grants : gift = Gift(demo, spec.grants[k])
  BY DEF Gifts
<1> DEFINE g == spec.grants[k]
           gives == RootCap(demo, g.from)
           x == Abstract!Granted(demo, g)
<1>2. /\ x = [slot |-> g.to, kind |-> gives.kind, obj |-> gives.obj,
              rights |-> gives.rights, badge |-> gives.badge]
      /\ gives.kind # "Frame"
  BY EnteredFacts, RootCapFacts
<1>3. x \in CapsOf(p)
  <2>1. x \in Abstract!Authority(demo, p)
    BY DEF Abstract!Authority
  <2> QED
    BY <2>1, EnteredFacts
<1>4. gives = [kind |-> gives.kind, obj |-> gives.obj, rights |-> gives.rights,
               badge |-> gives.badge]
  BY DEF RootCap
<1>5. gift[1] = g.to /\ gift[2] = gives
  BY <1>1 DEF Gift
<1> HIDE DEF gives, x, g
<1>6. tcbs[p].cspace = p /\ Held(p) = spaces[p] /\ Held(p) \in [Slots -> Caps]
  BY EnteredFacts DEF Entered, Numbered
<1>7. PICK s \in Slots :
        x = [slot |-> s, kind |-> Held(p)[s].kind,
             obj |-> IF Held(p)[s].kind = "Frame" THEN 0 ELSE Held(p)[s].obj,
             rights |-> Held(p)[s].rights, badge |-> Held(p)[s].badge]
  BY <1>3, <1>6 DEF CapsOf
<1>8. Held(p)[s] \in Caps
  BY <1>6
<1>9. /\ g.to = s /\ gives.kind = Held(p)[s].kind /\ gives.rights = Held(p)[s].rights
      /\ gives.badge = Held(p)[s].badge /\ gives.obj = Held(p)[s].obj
  BY <1>2, <1>7
<1>10. Held(p)[s] = gives
  BY <1>4, <1>8, <1>9 DEF Caps
<1> QED
  BY <1>5, <1>9, <1>10

LEMMA CNodeIsItsOwn ==
  ASSUME Entered, NEW p \in DOMAIN tcbs, CanMint(p)
  PROVE  demo.programs[p].selfCNode # {}
<1>1. PICK s \in Slots : Held(p)[s].kind = "CNode"
  BY DEF CanMint
<1> DEFINE x == [slot |-> s, kind |-> Held(p)[s].kind, obj |-> Held(p)[s].obj,
                 rights |-> Held(p)[s].rights, badge |-> Held(p)[s].badge]
<1>2. x \in Abstract!Authority(demo, p) /\ x.kind = "CNode" /\ x.slot = s
  BY <1>1, HeldIsDeclared
<1>3. \A k \in DOMAIN demo.programs[p].grants :
        Abstract!Granted(demo, demo.programs[p].grants[k]).kind # "CNode"
  BY EnteredFacts, RootCapFacts
<1> HIDE DEF x
<1> QED
  BY <1>2, <1>3, AuthorityCases

-----------------------------------------------------------------------------
(* The arena window: the images are small, the wires far up.               *)
Compact(d) ==
  /\ HighWires(d)
  /\ \A p \in DOMAIN d.programs :
       d.programs[p].image \in {Code, CodeAndData} /\ d.programs[p].heap \in 0..1

LEMMA ShippedIsCompact == \A d \in ShippedDemos : Compact(d)
<1>1. Compact(HelloDemo)
  BY HelloIs DEF Has, Compact
<1>2. Compact(BrokerDemo)
  BY BrokerIs DEF Has, Compact
<1>3. Compact(FrameDemo)
  BY FrameIs DEF Has, Compact
<1>4. Compact(KeystoreDemo)
  BY KeystoreIs DEF Has, Compact
<1>5. Compact(StoreDemo)
  BY StoreIs DEF Has, Compact
<1>6. Compact(WasmProbeDemo)
  BY WasmProbeIs DEF Has, Compact
<1>7. Compact(RuntimeDemo)
  BY RuntimeIs DEF Has, Compact
<1>8. Compact(RuntimeFsDemo)
  BY RuntimeFsIs DEF Has, Compact
<1> QED
  BY <1>1, <1>2, <1>3, <1>4, <1>5, <1>6, <1>7, <1>8 DEF ShippedDemos

(* The fixed addresses, as numbers of pages.                               *)
LEMMA WindowIs ==
  /\ Mega = 512 /\ BASE_ADDRESS = 540672 /\ STACK_VADDR = 548864 /\ HEAP_VADDR = 549376
  /\ ARENA_VADDR = 557568 /\ PACKAGE_VADDR = 573440
  BY SMT DEF Mega, BASE_ADDRESS, STACK_VADDR, HEAP_VADDR, ARENA_VADDR, PACKAGE_VADDR

LEMMA SameUnits ==
  /\ Abstract!Mega = Mega /\ Abstract!Small = Small
  /\ Abstract!STACK_VADDR = STACK_VADDR /\ Abstract!HEAP_VADDR = HEAP_VADDR
  /\ \A vaddr, pages, perms, content :
       Abstract!Region(vaddr, pages, perms, content).vaddr = vaddr
       /\ Abstract!Region(vaddr, pages, perms, content).pages = pages
<1>1. /\ Abstract!Mega = Mega /\ Abstract!Small = Small
      /\ Abstract!STACK_VADDR = STACK_VADDR /\ Abstract!HEAP_VADDR = HEAP_VADDR
  BY DEF Abstract!Mega, Mega, Abstract!Small, Small, Abstract!STACK_VADDR, STACK_VADDR,
         Abstract!HEAP_VADDR, HEAP_VADDR
<1>2. \A vaddr, pages, perms, content :
        /\ Abstract!Region(vaddr, pages, perms, content).vaddr = vaddr
        /\ Abstract!Region(vaddr, pages, perms, content).pages = pages
  BY SMT DEF Abstract!Region
<1> QED
  BY <1>1, <1>2

LEMMA WiredRegions ==
  ASSUME NEW w, w.op \in {"Shared", "Package", "Device"}, NEW p,
         NEW r \in Abstract!WiredInto(w, p)
  PROVE  \E k \in DOMAIN w.to : r.vaddr = w.to[k].vaddr /\ r.pages \in {Small, Mega}
<1> DEFINE Ends == {j \in DOMAIN w.to : w.to[j].prog = p}
<1>1. CASE w.op = "Shared"
  <2>1. Abstract!WiredInto(w, p) =
          {Abstract!Region(w.to[k].vaddr, Abstract!Small, {"R", "W"}, <<"zero">>) : k \in Ends}
    BY <1>1 DEF Abstract!WiredInto
  <2> QED
    BY <2>1, SameUnits
<1>2. CASE w.op = "Package"
  <2>1. Abstract!WiredInto(w, p) =
          {Abstract!Region(w.to[k].vaddr, Abstract!Mega, {"R"}, <<"zero", "package">>) : k \in Ends}
    BY <1>2 DEF Abstract!WiredInto
  <2> QED
    BY <2>1, SameUnits
<1>3. CASE w.op = "Device"
  <2>1. Abstract!WiredInto(w, p) =
          {Abstract!Region(w.to[k].vaddr, Abstract!Mega, {"R", "W"}, <<>>) : k \in Ends}
    BY <1>3 DEF Abstract!WiredInto
  <2> QED
    BY <2>1, SameUnits
<1> QED
  BY <1>1, <1>2, <1>3

LEMMA EnteredFree ==
  ASSUME Entered, Compact(demo)
  PROVE  ArenaWindowFree
<1> SUFFICES ASSUME NEW p \in DOMAIN tcbs, NEW r \in MemoryOf(p)
             PROVE  Apart(ARENA_VADDR, 16 * Mega, r.vaddr, r.pages)
  BY DEF ArenaWindowFree
<1> DEFINE spec == demo.programs[p]
<1>1. /\ spec.image \in {Code, CodeAndData} /\ spec.heap \in 0..1
      /\ HighWires(demo) /\ DOMAIN demo.wires = 1..Len(demo.wires)
      /\ IsDescription(demo)
  BY EnteredFacts DEF Compact
<1>2. r \in Abstract!Private(demo, p) \cup WiredUpTo(demo, p, Len(demo.wires))
  BY DEF Entered, AsDeclared, Declares
<1>3. CASE r \in {Abstract!Region(spec.image[k].vaddr, Abstract!Mega, spec.image[k].perms,
                                  <<"zero", "image">>) : k \in DOMAIN spec.image}
  <2>1. PICK k \in DOMAIN spec.image : r.vaddr = spec.image[k].vaddr /\ r.pages = Mega
    BY <1>3, SameUnits
  <2>2. k \in {1, 2} /\ r.vaddr \in {BASE_ADDRESS, BASE_ADDRESS + Mega}
    BY <1>1, <2>1, CodeIs, LenProperties DEF Code, CodeAndData
  <2> QED
    BY <2>1, <2>2, WindowIs DEF Apart
<1>4. CASE r = Abstract!Region(Abstract!STACK_VADDR, Abstract!Mega, {"R", "W"}, <<"zero">>)
  BY <1>4, WindowIs, SameUnits DEF Apart
<1>5. CASE r \in {Abstract!Region(Abstract!HEAP_VADDR + k * Abstract!Mega, Abstract!Mega,
                                  {"R", "W"}, <<"zero">>) :
                    k \in 0..(spec.heap - 1)}
  <2>1. PICK k \in 0..(spec.heap - 1) : r.vaddr = HEAP_VADDR + k * Mega /\ r.pages = Mega
    BY <1>5, SameUnits
  <2>2. k = 0
    BY <1>1, <2>1
  <2> QED
    BY <2>1, <2>2, WindowIs DEF Apart
<1>6. CASE r \in WiredUpTo(demo, p, Len(demo.wires))
  <2>1. PICK w \in DOMAIN demo.wires : r \in Abstract!WiredInto(demo.wires[w], p)
    BY <1>1, <1>6 DEF WiredUpTo
  <2>2. demo.wires[w].op \in {"Shared", "Package", "Device"}
    <3>1. demo.wires[w] \in Wirings
      BY <1>1, DemoFacts DEF IsDescription, Entered
    <3> QED
      BY <3>1 DEF Wirings
  <2>3. PICK k \in DOMAIN demo.wires[w].to :
          r.vaddr = demo.wires[w].to[k].vaddr /\ r.pages \in {Small, Mega}
    BY <2>1, <2>2, WiredRegions
  <2>4. r.vaddr >= PACKAGE_VADDR /\ r.vaddr \in Nat
    <3>1. demo.wires[w].to \in Seq([prog : Nat, vaddr : Nat])
      <4>1. demo.wires[w] \in Wirings
        BY <1>1, DemoFacts DEF IsDescription, Entered
      <4> QED
        BY <4>1 DEF Wirings
    <3>2. demo.wires[w].to[k] \in [prog : Nat, vaddr : Nat]
      BY <3>1, <2>3, LenProperties
    <3> QED
      BY <1>1, <2>3, <3>2 DEF HighWires
  <2> QED
    BY <2>4, WindowIs DEF Apart
<1> QED
  BY <1>2, <1>3, <1>4, <1>5, <1>6 DEF Abstract!Private

-----------------------------------------------------------------------------
(* Narration: what the notification in a narrated slot means.              *)
Means(d, s, n) ==
  /\ <<s, Cap("Notification", n)>> \in Gifts(d, d.programs[d.first])
  /\ \A p \in DOMAIN d.programs : \A c :
       <<s, c>> \in Gifts(d, d.programs[p]) /\ c.kind = "Notification" => c.obj = n
Tells(d) ==
  \/ Narrated(d) = {}
  \/ \E s, t, m, n : /\ Narrated(d) = {s, t} /\ m # n
                     /\ Means(d, s, m) /\ Means(d, t, n)

LEMMA NotificationIs ==
  \A n : Cap("Notification", n).kind = "Notification" /\ Cap("Notification", n).obj = n
  BY SMT DEF Cap

LEMMA EndpointIs ==
  \A obj, rights, badge :
    /\ EndpointCap(obj, rights, badge).kind = "Endpoint"
    /\ EndpointCap(obj, rights, badge).obj = obj
    /\ EndpointCap(obj, rights, badge).rights = rights
    /\ EndpointCap(obj, rights, badge).badge = badge
  BY SMT DEF EndpointCap

LEMMA ShippedTells == \A d \in ShippedDemos : Tells(d)
<1>1. Tells(HelloDemo)
  BY HelloIs DEF Tells, Narrated
<1>2. Tells(BrokerDemo)
  BY BrokerIs DEF Tells, Narrated
<1>3. Tells(FrameDemo)
  <2>1. Narrated(FrameDemo) = {2, 3}
    BY FrameIs DEF Narrated
  <2>2. Means(FrameDemo, 2, 2) /\ Means(FrameDemo, 3, 3)
    BY FrameIs, NotificationIs, EndpointIs DEF Has, Means
  <2> QED
    BY <2>1, <2>2 DEF Tells
<1>4. Tells(KeystoreDemo)
  <2>1. Narrated(KeystoreDemo) = {3, 4}
    BY KeystoreIs DEF Narrated
  <2>2. Means(KeystoreDemo, 3, 2) /\ Means(KeystoreDemo, 4, 3)
    BY KeystoreIs, NotificationIs, EndpointIs DEF Has, Means
  <2> QED
    BY <2>1, <2>2 DEF Tells
<1>5. Tells(StoreDemo)
  <2>1. Narrated(StoreDemo) = {3, 4}
    BY StoreIs DEF Narrated
  <2>2. Means(StoreDemo, 3, 3) /\ Means(StoreDemo, 4, 4)
    BY StoreIs, NotificationIs, EndpointIs DEF Has, Means
  <2> QED
    BY <2>1, <2>2 DEF Tells
<1>6. Tells(WasmProbeDemo)
  <2>1. Narrated(WasmProbeDemo) = {4, 5}
    BY WasmProbeIs DEF Narrated
  <2>2. Means(WasmProbeDemo, 4, 1) /\ Means(WasmProbeDemo, 5, 2)
    BY WasmProbeIs, NotificationIs, EndpointIs DEF Has, Means
  <2> QED
    BY <2>1, <2>2 DEF Tells
<1>7. Tells(RuntimeDemo)
  <2>1. Narrated(RuntimeDemo) = {3, 4}
    BY RuntimeIs DEF Narrated
  <2>2. Means(RuntimeDemo, 3, 7) /\ Means(RuntimeDemo, 4, 8)
    BY RuntimeIs, NotificationIs, EndpointIs DEF Has, Means
  <2> QED
    BY <2>1, <2>2 DEF Tells
<1>8. Tells(RuntimeFsDemo)
  <2>1. Narrated(RuntimeFsDemo) = {3, 4}
    BY RuntimeFsIs DEF Narrated
  <2>2. Means(RuntimeFsDemo, 3, 8) /\ Means(RuntimeFsDemo, 4, 9)
    BY RuntimeFsIs, NotificationIs, EndpointIs DEF Has, Means
  <2> QED
    BY <2>1, <2>2 DEF Tells
<1> QED
  BY <1>1, <1>2, <1>3, <1>4, <1>5, <1>6, <1>7, <1>8 DEF ShippedDemos

LEMMA EnteredTells ==
  ASSUME Entered, Tells(demo)
  PROVE  NarrationUnambiguous
<1>1. demo.first \in DOMAIN tcbs /\ DOMAIN tcbs = DOMAIN demo.programs
  BY EnteredFacts DEF IsDescription
<1>2. ASSUME NEW s, NEW n, Means(demo, s, n)
      PROVE  /\ s \in Slots
             /\ Held(demo.first)[s].kind = "Notification" /\ Held(demo.first)[s].obj = n
             /\ \A p \in DOMAIN tcbs :
                  Held(p)[s].kind = "Notification" => Held(p)[s].obj = n
  <2>1. s \in Slots /\ Held(demo.first)[s] = Cap("Notification", n)
    <3> DEFINE gift == <<s, Cap("Notification", n)>>
    <3>1. gift \in Gifts(demo, demo.programs[demo.first])
      BY <1>2 DEF Means
    <3>2. gift[1] = s /\ gift[2] = Cap("Notification", n)
      OBVIOUS
    <3> HIDE DEF gift
    <3> QED
      BY <1>1, <3>1, <3>2, GiftIsHeld
  <2>2. ASSUME NEW p \in DOMAIN tcbs, Held(p)[s].kind = "Notification"
        PROVE  Held(p)[s].obj = n
    <3>1. <<s, Held(p)[s]>> \in Gifts(demo, demo.programs[p])
      BY <2>1, <2>2, HeldIsAGift
    <3> QED
      BY <1>1, <1>2, <2>2, <3>1 DEF Means
  <2> QED
    BY <2>1, <2>2, NotificationIs
<1>3. CASE Narrated(demo) = {}
  BY <1>3 DEF NarrationUnambiguous
<1>4. CASE \E s, t, m, n : /\ Narrated(demo) = {s, t} /\ m # n
                           /\ Means(demo, s, m) /\ Means(demo, t, n)
  BY <1>2, <1>4 DEF NarrationUnambiguous
<1> QED
  BY <1>3, <1>4 DEF Tells

-----------------------------------------------------------------------------
(* Endpoints: who is given a line to which, with what rights and badge.    *)
Line(d, p, s, e, r, b) == <<s, EndpointCap(e, r, b)>> \in Gifts(d, d.programs[p])

LEMMA HelloLines ==
  \A p \in 1..2 : \A s, e, r, b :
    Line(HelloDemo, p, s, e, r, b) <=>
      <<p, s, e, r, b>> \in
        {<<1, 1, 1, "ALL", 42>>, <<2, 1, 1, "ALL", 42>>}
<1> TAKE p \in 1..2
<1> TAKE s, e, r, b
<1>1. CASE p = 1
  BY <1>1, HelloIs, EndpointIs, NotificationIs DEF Has, Line, GRANTER_BADGE, CONTROL_BADGE
<1>2. CASE p = 2
  BY <1>2, HelloIs, EndpointIs, NotificationIs DEF Has, Line, GRANTER_BADGE, CONTROL_BADGE
<1> QED
  BY <1>1, <1>2

LEMMA BrokerLines ==
  \A p \in 1..2 : \A s, e, r, b :
    Line(BrokerDemo, p, s, e, r, b) <=>
      <<p, s, e, r, b>> \in
        {<<1, 1, 1, "ALL", 0>>, <<2, 1, 1, "ALL", 0>>}
<1> TAKE p \in 1..2
<1> TAKE s, e, r, b
<1>1. CASE p = 1
  BY <1>1, BrokerIs, EndpointIs, NotificationIs DEF Has, Line, GRANTER_BADGE, CONTROL_BADGE
<1>2. CASE p = 2
  BY <1>2, BrokerIs, EndpointIs, NotificationIs DEF Has, Line, GRANTER_BADGE, CONTROL_BADGE
<1> QED
  BY <1>1, <1>2

LEMMA FrameLines ==
  \A p \in 1..2 : \A s, e, r, b :
    Line(FrameDemo, p, s, e, r, b) <=>
      <<p, s, e, r, b>> \in
        {<<1, 1, 1, "ALL", 0>>, <<2, 1, 1, "ALL", 0>>}
<1> TAKE p \in 1..2
<1> TAKE s, e, r, b
<1>1. CASE p = 1
  BY <1>1, FrameIs, EndpointIs, NotificationIs DEF Has, Line, GRANTER_BADGE, CONTROL_BADGE
<1>2. CASE p = 2
  BY <1>2, FrameIs, EndpointIs, NotificationIs DEF Has, Line, GRANTER_BADGE, CONTROL_BADGE
<1> QED
  BY <1>1, <1>2

LEMMA KeystoreLines ==
  \A p \in 1..2 : \A s, e, r, b :
    Line(KeystoreDemo, p, s, e, r, b) <=>
      <<p, s, e, r, b>> \in
        {<<1, 1, 1, "ALL", 0>>, <<2, 1, 1, "ALL", 0>>}
<1> TAKE p \in 1..2
<1> TAKE s, e, r, b
<1>1. CASE p = 1
  BY <1>1, KeystoreIs, EndpointIs, NotificationIs DEF Has, Line, GRANTER_BADGE, CONTROL_BADGE
<1>2. CASE p = 2
  BY <1>2, KeystoreIs, EndpointIs, NotificationIs DEF Has, Line, GRANTER_BADGE, CONTROL_BADGE
<1> QED
  BY <1>1, <1>2

LEMMA StoreLines ==
  \A p \in 1..3 : \A s, e, r, b :
    Line(StoreDemo, p, s, e, r, b) <=>
      <<p, s, e, r, b>> \in
        {<<1, 1, 1, "ALL", 0>>, <<2, 1, 1, "ALL", 0>>,
         <<2, 3, 2, "ALL", 0>>, <<3, 1, 2, "ALL", 0>>}
<1> TAKE p \in 1..3
<1> TAKE s, e, r, b
<1>1. CASE p = 1
  BY <1>1, StoreIs, EndpointIs, NotificationIs DEF Has, Line, GRANTER_BADGE, CONTROL_BADGE
<1>2. CASE p = 2
  BY <1>2, StoreIs, EndpointIs, NotificationIs DEF Has, Line, GRANTER_BADGE, CONTROL_BADGE
<1>3. CASE p = 3
  BY <1>3, StoreIs, EndpointIs, NotificationIs DEF Has, Line, GRANTER_BADGE, CONTROL_BADGE
<1> QED
  BY <1>1, <1>2, <1>3

LEMMA WasmProbeLines ==
  \A p \in 1..1 : \A s, e, r, b :
    Line(WasmProbeDemo, p, s, e, r, b) <=>
      <<p, s, e, r, b>> \in {}
<1> TAKE p \in 1..1
<1> TAKE s, e, r, b
<1>1. CASE p = 1
  BY <1>1, WasmProbeIs, EndpointIs, NotificationIs DEF Has, Line, GRANTER_BADGE, CONTROL_BADGE
<1> QED
  BY <1>1

LEMMA RuntimeLines ==
  \A p \in 1..5 : \A s, e, r, b :
    Line(RuntimeDemo, p, s, e, r, b) <=>
      <<p, s, e, r, b>> \in
        {<<1, 1, 1, "ALL", 0>>, <<2, 1, 3, "ALL", 0>>,
         <<2, 8, 9, "WRITE", 0>>, <<2, 2, 1, "WRITE", TOP_BADGE>>,
         <<3, 1, 3, "WRITE", 0>>, <<4, 1, 3, "WRITE", TOP_BADGE>>,
         <<4, 2, 1, "WRITE", 0>>, <<5, 1, 9, "ALL", 0>>}
<1> TAKE p \in 1..5
<1> TAKE s, e, r, b
<1>1. CASE p = 1
  BY <1>1, RuntimeIs, EndpointIs, NotificationIs DEF Has, Line, GRANTER_BADGE, CONTROL_BADGE
<1>2. CASE p = 2
  BY <1>2, RuntimeIs, EndpointIs, NotificationIs DEF Has, Line, GRANTER_BADGE, CONTROL_BADGE
<1>3. CASE p = 3
  BY <1>3, RuntimeIs, EndpointIs, NotificationIs DEF Has, Line, GRANTER_BADGE, CONTROL_BADGE
<1>4. CASE p = 4
  BY <1>4, RuntimeIs, EndpointIs, NotificationIs DEF Has, Line, GRANTER_BADGE, CONTROL_BADGE
<1>5. CASE p = 5
  BY <1>5, RuntimeIs, EndpointIs, NotificationIs DEF Has, Line, GRANTER_BADGE, CONTROL_BADGE
<1> QED
  BY <1>1, <1>2, <1>3, <1>4, <1>5

LEMMA RuntimeFsLines ==
  \A p \in 1..6 : \A s, e, r, b :
    Line(RuntimeFsDemo, p, s, e, r, b) <=>
      <<p, s, e, r, b>> \in
        {<<1, 1, 1, "ALL", 0>>, <<2, 1, 1, "ALL", 0>>,
         <<2, 3, 2, "ALL", 0>>, <<3, 1, 4, "ALL", 0>>,
         <<3, 8, 10, "WRITE", 0>>, <<3, 3, 2, "WRITE", TOP_BADGE>>,
         <<4, 1, 4, "WRITE", 0>>, <<5, 1, 4, "WRITE", TOP_BADGE>>,
         <<5, 2, 2, "WRITE", 0>>, <<6, 1, 10, "ALL", 0>>}
<1> TAKE p \in 1..6
<1> TAKE s, e, r, b
<1>1. CASE p = 1
  BY <1>1, RuntimeFsIs, EndpointIs, NotificationIs DEF Has, Line, GRANTER_BADGE, CONTROL_BADGE
<1>2. CASE p = 2
  BY <1>2, RuntimeFsIs, EndpointIs, NotificationIs DEF Has, Line, GRANTER_BADGE, CONTROL_BADGE
<1>3. CASE p = 3
  BY <1>3, RuntimeFsIs, EndpointIs, NotificationIs DEF Has, Line, GRANTER_BADGE, CONTROL_BADGE
<1>4. CASE p = 4
  BY <1>4, RuntimeFsIs, EndpointIs, NotificationIs DEF Has, Line, GRANTER_BADGE, CONTROL_BADGE
<1>5. CASE p = 5
  BY <1>5, RuntimeFsIs, EndpointIs, NotificationIs DEF Has, Line, GRANTER_BADGE, CONTROL_BADGE
<1>6. CASE p = 6
  BY <1>6, RuntimeFsIs, EndpointIs, NotificationIs DEF Has, Line, GRANTER_BADGE, CONTROL_BADGE
<1> QED
  BY <1>1, <1>2, <1>3, <1>4, <1>5, <1>6

(* A held endpoint is such a line, and every line is held.                 *)
LEMMA HeldIsALine ==
  ASSUME Entered, NEW p \in DOMAIN tcbs, NEW s \in Slots, Held(p)[s].kind = "Endpoint"
  PROVE  Line(demo, p, s, Held(p)[s].obj, Held(p)[s].rights, Held(p)[s].badge)
<1>1. <<s, Held(p)[s]>> \in Gifts(demo, demo.programs[p])
  BY HeldIsAGift
<1>2. Held(p)[s] \in Caps
  BY EnteredFacts
<1>3. Held(p)[s] = EndpointCap(Held(p)[s].obj, Held(p)[s].rights, Held(p)[s].badge)
  BY <1>2, SMT DEF EndpointCap, Caps
<1> QED
  BY <1>1, <1>3 DEF Line

LEMMA LineIsHeld ==
  ASSUME Entered, NEW p \in DOMAIN tcbs, NEW s, NEW e, NEW r, NEW b, Line(demo, p, s, e, r, b)
  PROVE  s \in Slots /\ Held(p)[s] = EndpointCap(e, r, b)
<1> DEFINE gift == <<s, EndpointCap(e, r, b)>>
<1>1. gift \in Gifts(demo, demo.programs[p])
  BY DEF Line
<1>2. gift[1] = s /\ gift[2] = EndpointCap(e, r, b)
  OBVIOUS
<1> HIDE DEF gift
<1> QED
  BY <1>1, <1>2, GiftIsHeld

(* A trusted endpoint: who holds its badge, who serves it.                 *)
Badged(d, e) == \E p \in DOMAIN d.programs : \E s, r : Line(d, p, s, e, r, TOP_BADGE)
Guarded(d, e) ==
  \E server, holder \in DOMAIN d.programs \ {d.first} :
    /\ server # holder
    /\ \A p \in DOMAIN d.programs : \A s, r, b :
         Line(d, p, s, e, r, b) =>
           /\ b = TOP_BADGE => p = holder
           /\ r = "ALL" => p = server
           /\ p # server => d.programs[p].selfCNode = {}
Watertight(d) ==
  \/ d.name \notin {"runtime", "runtime-fs"} /\ \A e : ~Badged(d, e)
  \/ \E e, f \in DOMAIN d.root :
       /\ e # f /\ Badged(d, e) /\ Badged(d, f) /\ Guarded(d, e) /\ Guarded(d, f)
       /\ \A g : Badged(d, g) => g \in {e, f}

LEMMA ShippedIsWatertight == \A d \in ShippedDemos : Watertight(d)
<1>1. Watertight(HelloDemo)
  BY HelloIs, HelloLines DEF Watertight, Badged, TOP_BADGE
<1>2. Watertight(BrokerDemo)
  BY BrokerIs, BrokerLines DEF Watertight, Badged, TOP_BADGE
<1>3. Watertight(FrameDemo)
  BY FrameIs, FrameLines DEF Watertight, Badged, TOP_BADGE
<1>4. Watertight(KeystoreDemo)
  BY KeystoreIs, KeystoreLines DEF Watertight, Badged, TOP_BADGE
<1>5. Watertight(StoreDemo)
  BY StoreIs, StoreLines DEF Watertight, Badged, TOP_BADGE
<1>6. Watertight(WasmProbeDemo)
  BY WasmProbeIs, WasmProbeLines DEF Watertight, Badged, TOP_BADGE
<1>7. Watertight(RuntimeDemo)
  <2> DEFINE d == RuntimeDemo
  <2>1. /\ DOMAIN d.programs = 1..5 /\ d.first = 3 /\ DOMAIN d.root = 1..12
        /\ \A p \in 2..5 : d.programs[p].selfCNode = {}
    BY RuntimeIs DEF Has
  <2>2. /\ Line(d, 2, 2, 1, "WRITE", TOP_BADGE) /\ Line(d, 4, 1, 3, "WRITE", TOP_BADGE)
        /\ \A e : Badged(d, e) => e \in {1, 3}
    BY <2>1, RuntimeLines DEF Badged, TOP_BADGE
  <2>3. Guarded(d, 1)
    <3>1. \A p \in 1..5 : \A s, r, b :
            Line(d, p, s, 1, r, b) =>
              /\ b = TOP_BADGE => p = 2
              /\ r = "ALL" => p = 1
              /\ p # 1 => p \in 2..5
      BY RuntimeLines DEF TOP_BADGE
    <3> HIDE DEF d
    <3> QED
      BY <2>1, <3>1 DEF Guarded
  <2>4. Guarded(d, 3)
    <3>1. \A p \in 1..5 : \A s, r, b :
            Line(d, p, s, 3, r, b) =>
              /\ b = TOP_BADGE => p = 4
              /\ r = "ALL" => p = 2
              /\ p \in 2..5
      BY RuntimeLines DEF TOP_BADGE
    <3> HIDE DEF d
    <3> QED
      BY <2>1, <3>1 DEF Guarded
  <2> HIDE DEF d
  <2>5. Badged(d, 1) /\ Badged(d, 3)
    BY <2>1, <2>2 DEF Badged
  <2>6. Watertight(d)
    BY <2>1, <2>2, <2>3, <2>4, <2>5 DEF Watertight
  <2> QED
    BY <2>6 DEF d
<1>8. Watertight(RuntimeFsDemo)
  <2> DEFINE d == RuntimeFsDemo
  <2>1. /\ DOMAIN d.programs = 1..6 /\ d.first = 4 /\ DOMAIN d.root = 1..13
        /\ \A p \in 3..6 : d.programs[p].selfCNode = {}
    BY RuntimeFsIs DEF Has
  <2>2. /\ Line(d, 3, 3, 2, "WRITE", TOP_BADGE) /\ Line(d, 5, 1, 4, "WRITE", TOP_BADGE)
        /\ \A e : Badged(d, e) => e \in {2, 4}
    BY <2>1, RuntimeFsLines DEF Badged, TOP_BADGE
  <2>3. Guarded(d, 2)
    <3>1. \A p \in 1..6 : \A s, r, b :
            Line(d, p, s, 2, r, b) =>
              /\ b = TOP_BADGE => p = 3
              /\ r = "ALL" => p = 2
              /\ p # 2 => p \in 3..6
      BY RuntimeFsLines DEF TOP_BADGE
    <3> HIDE DEF d
    <3> QED
      BY <2>1, <3>1 DEF Guarded
  <2>4. Guarded(d, 4)
    <3>1. \A p \in 1..6 : \A s, r, b :
            Line(d, p, s, 4, r, b) =>
              /\ b = TOP_BADGE => p = 5
              /\ r = "ALL" => p = 3
              /\ p \in 3..6
      BY RuntimeFsLines DEF TOP_BADGE
    <3> HIDE DEF d
    <3> QED
      BY <2>1, <3>1 DEF Guarded
  <2> HIDE DEF d
  <2>5. Badged(d, 2) /\ Badged(d, 4)
    BY <2>1, <2>2 DEF Badged
  <2>6. Watertight(d)
    BY <2>1, <2>2, <2>3, <2>4, <2>5 DEF Watertight
  <2> QED
    BY <2>6 DEF d
<1> QED
  BY <1>1, <1>2, <1>3, <1>4, <1>5, <1>6, <1>7, <1>8 DEF ShippedDemos

LEMMA EnteredWatertight ==
  ASSUME Entered, Watertight(demo)
  PROVE  BadgesUnforgeable
<1>1. DOMAIN tcbs = DOMAIN demo.programs
  BY EnteredFacts
<1>2. \A e : e \in Trusted <=> e \in DOMAIN demo.root /\ Badged(demo, e)
  <2>1. ASSUME NEW e \in Trusted
        PROVE  e \in DOMAIN demo.root /\ Badged(demo, e)
    <3>1. PICK p \in DOMAIN tcbs : \E s \in Reaches(p, e) : Held(p)[s].badge = TOP_BADGE
      BY DEF Trusted
    <3>2. PICK s \in Reaches(p, e) : Held(p)[s].badge = TOP_BADGE
      BY <3>1
    <3>3. Line(demo, p, s, e, Held(p)[s].rights, TOP_BADGE)
      BY <3>2, HeldIsALine DEF Reaches
    <3> QED
      BY <1>1, <3>3 DEF Badged, Trusted
  <2>2. ASSUME NEW e \in DOMAIN demo.root, Badged(demo, e)
        PROVE  e \in Trusted
    <3>1. PICK p \in DOMAIN tcbs : \E s, r : Line(demo, p, s, e, r, TOP_BADGE)
      BY <1>1, <2>2 DEF Badged
    <3>2. PICK s, r : Line(demo, p, s, e, r, TOP_BADGE)
      BY <3>1
    <3>3. s \in Slots /\ Held(p)[s] = EndpointCap(e, r, TOP_BADGE)
      BY <3>2, LineIsHeld
    <3>4. s \in Reaches(p, e) /\ Held(p)[s].badge = TOP_BADGE
      BY <3>3, EndpointIs DEF Reaches
    <3> QED
      BY <3>4 DEF Trusted
  <2> QED
    BY <2>1, <2>2
<1>3. ASSUME NEW e, Guarded(demo, e)
      PROVE  \E server, holder \in DOMAIN tcbs \ {demo.first} :
               /\ server # holder
               /\ \A p \in DOMAIN tcbs : \A s \in Reaches(p, e) :
                    /\ Held(p)[s].badge = TOP_BADGE => p = holder
                    /\ Held(p)[s].rights = "ALL" => p = server
                    /\ p # server => ~CanMint(p)
  <2>1. PICK server, holder \in DOMAIN demo.programs \ {demo.first} :
          /\ server # holder
          /\ \A p \in DOMAIN demo.programs : \A s, r, b :
               Line(demo, p, s, e, r, b) =>
                 /\ b = TOP_BADGE => p = holder
                 /\ r = "ALL" => p = server
                 /\ p # server => demo.programs[p].selfCNode = {}
    BY <1>3 DEF Guarded
  <2>2. ASSUME NEW p \in DOMAIN tcbs, NEW s \in Reaches(p, e)
        PROVE  /\ Held(p)[s].badge = TOP_BADGE => p = holder
               /\ Held(p)[s].rights = "ALL" => p = server
               /\ p # server => ~CanMint(p)
    <3>1. Line(demo, p, s, e, Held(p)[s].rights, Held(p)[s].badge)
      BY HeldIsALine DEF Reaches
    <3> QED
      BY <1>1, <2>1, <3>1, CNodeIsItsOwn
  <2> QED
    BY <1>1, <2>1, <2>2
<1>4. CASE demo.name \notin {"runtime", "runtime-fs"} /\ \A e : ~Badged(demo, e)
  BY <1>2, <1>4 DEF BadgesUnforgeable
<1>5. CASE \E e, f \in DOMAIN demo.root :
             /\ e # f /\ Badged(demo, e) /\ Badged(demo, f)
             /\ Guarded(demo, e) /\ Guarded(demo, f)
             /\ \A g : Badged(demo, g) => g \in {e, f}
  <2>1. PICK e, f \in DOMAIN demo.root :
             /\ e # f /\ Badged(demo, e) /\ Badged(demo, f)
             /\ Guarded(demo, e) /\ Guarded(demo, f)
             /\ \A g : Badged(demo, g) => g \in {e, f}
    BY <1>5
  <2>2. Trusted = {e, f}
    BY <1>2, <2>1
  <2>3. Cardinality({e, f}) = 2
    <3>1. IsFiniteSet({e}) /\ Cardinality({e}) = 1 /\ f \notin {e} /\ {e} \cup {f} = {e, f}
      BY <2>1, FS_Singleton
    <3> QED
      BY <3>1, FS_AddElement
  <2> QED
    BY <1>3, <2>1, <2>2, <2>3 DEF BadgesUnforgeable
<1> QED
  BY <1>4, <1>5 DEF Watertight

-----------------------------------------------------------------------------
(* A service's endpoint, and who it takes its grant from.                  *)
Calls(d, q, e) == \E s, r, b : Line(d, q, s, e, r, b)
Meant(d, p) ==
  LET name == d.programs[p].name  arg0 == d.programs[p].arg0 IN
  name \in DOMAIN ServedSlot =>
    /\ \E e : /\ \E r, b : Line(d, p, ServedSlot[name], e, r, b)
              /\ IF (arg0 \div BINDER_LAUNCHED) % 2 = 1
                 THEN \E q \in DOMAIN d.programs \ {p} :
                        \E s, r : Line(d, q, s, e, r, GRANTER_BADGE)
                 ELSE \E q \in DOMAIN d.programs \ {p} :
                        /\ Calls(d, q, e)
                        /\ \A t \in DOMAIN d.programs \ {p} : Calls(d, t, e) => t = q
                        /\ name # "broker-service" => Joined(d, p, q)
    /\ name = "keystore-service" => arg0 % BINDER_LAUNCHED \in {PROFILE_AEAD, PROFILE_SIGNING}
AllMeant(d) == \A p \in DOMAIN d.programs : Meant(d, p)

LEMMA ServedSlotIs ==
  /\ DOMAIN ServedSlot = {"broker-service", "keystore-service", "store-service"}
  /\ ServedSlot["broker-service"] = 1 /\ ServedSlot["keystore-service"] = 1
  /\ ServedSlot["store-service"] = 3
  BY SMT DEF ServedSlot

LEMMA ProfilesAre ==
  /\ PROFILE_AEAD = 0 /\ PROFILE_SIGNING = 1
  /\ (0 \div BINDER_LAUNCHED) % 2 = 0 /\ 0 % BINDER_LAUNCHED = 0
  /\ (1 \div BINDER_LAUNCHED) % 2 = 0
  /\ (Launched(1) \div BINDER_LAUNCHED) % 2 = 1 /\ Launched(1) % BINDER_LAUNCHED = 1
  BY SMT DEF PROFILE_AEAD, PROFILE_SIGNING, BINDER_LAUNCHED, Launched

LEMMA UnservedIsMeant ==
  ASSUME NEW d, NEW p, d.programs[p].name \notin DOMAIN ServedSlot
  PROVE  Meant(d, p)
BY DEF Meant

LEMMA FirstCaller ==
  ASSUME NEW d, NEW p, NEW q \in DOMAIN d.programs \ {p}, NEW e, NEW r, NEW b,
         d.programs[p].name \in DOMAIN ServedSlot,
         d.programs[p].arg0 \in {0, 1},
         d.programs[p].name = "keystore-service" => d.programs[p].arg0 = PROFILE_AEAD,
         Line(d, p, ServedSlot[d.programs[p].name], e, r, b), Calls(d, q, e),
         \A t \in DOMAIN d.programs \ {p} : Calls(d, t, e) => t = q,
         d.programs[p].name # "broker-service" => Joined(d, p, q)
  PROVE  Meant(d, p)
BY ProfilesAre DEF Meant

LEMMA BinderCalls ==
  ASSUME NEW d, NEW p, NEW q \in DOMAIN d.programs \ {p}, NEW e, NEW r, NEW b, NEW s, NEW t,
         d.programs[p].name \in DOMAIN ServedSlot, d.programs[p].arg0 = Launched(1),
         Line(d, p, ServedSlot[d.programs[p].name], e, r, b), Line(d, q, s, e, t, GRANTER_BADGE)
  PROVE  Meant(d, p)
BY ProfilesAre DEF Meant

LEMMA ShippedIsMeant == \A d \in ShippedDemos : AllMeant(d)
<1>1. AllMeant(HelloDemo)
  BY HelloIs, ServedSlotIs, UnservedIsMeant DEF Has, AllMeant
<1>2. AllMeant(BrokerDemo)
  <2> DEFINE d == BrokerDemo
  <2>1. /\ DOMAIN d.programs = 1..2 /\ d.programs[1].name = "broker-service"
        /\ d.programs[1].arg0 = 0 /\ d.programs[2].name = "broker-client"
    BY BrokerIs DEF Has
  <2>2. Line(d, 1, 1, 1, "ALL", 0) /\ Calls(d, 2, 1)
    BY BrokerLines DEF Calls
  <2> HIDE DEF d
  <2>3. Meant(d, 1)
    BY <2>1, <2>2, ServedSlotIs, FirstCaller
  <2>4. Meant(d, 2)
    BY <2>1, ServedSlotIs, UnservedIsMeant
  <2>5. AllMeant(d)
    BY <2>1, <2>3, <2>4 DEF AllMeant
  <2> QED
    BY <2>5 DEF d
<1>3. AllMeant(FrameDemo)
  BY FrameIs, ServedSlotIs, UnservedIsMeant DEF Has, AllMeant
<1>4. AllMeant(KeystoreDemo)
  <2> DEFINE d == KeystoreDemo
  <2>1. /\ DOMAIN d.programs = 1..2 /\ d.programs[1].name = "keystore-service"
        /\ d.programs[1].arg0 = PROFILE_AEAD /\ d.programs[2].name = "keystore-client"
        /\ Joined(d, 1, 2)
    BY KeystoreIs DEF Has
  <2>2. Line(d, 1, 1, 1, "ALL", 0) /\ Calls(d, 2, 1)
    BY KeystoreLines DEF Calls
  <2> HIDE DEF d
  <2>3. Meant(d, 1)
    BY <2>1, <2>2, ServedSlotIs, ProfilesAre, FirstCaller
  <2>4. Meant(d, 2)
    BY <2>1, ServedSlotIs, UnservedIsMeant
  <2>5. AllMeant(d)
    BY <2>1, <2>3, <2>4 DEF AllMeant
  <2> QED
    BY <2>5 DEF d
<1>5. AllMeant(StoreDemo)
  <2> DEFINE d == StoreDemo
  <2>1. /\ DOMAIN d.programs = 1..3 /\ d.programs[1].name = "keystore-service"
        /\ d.programs[1].arg0 = PROFILE_AEAD /\ d.programs[2].name = "store-service"
        /\ d.programs[2].arg0 = 1 /\ d.programs[3].name = "store-client"
        /\ Joined(d, 1, 2) /\ Joined(d, 2, 3)
    BY StoreIs DEF Has
  <2>2. /\ Line(d, 1, 1, 1, "ALL", 0) /\ Calls(d, 2, 1) /\ ~Calls(d, 3, 1)
        /\ Line(d, 2, 3, 2, "ALL", 0) /\ Calls(d, 3, 2) /\ ~Calls(d, 1, 2)
    BY StoreLines DEF Calls
  <2> HIDE DEF d
  <2>3. Meant(d, 1)
    BY <2>1, <2>2, ServedSlotIs, ProfilesAre, FirstCaller
  <2>4. Meant(d, 2)
    BY <2>1, <2>2, ServedSlotIs, FirstCaller
  <2>5. Meant(d, 3)
    BY <2>1, ServedSlotIs, UnservedIsMeant
  <2>6. AllMeant(d)
    BY <2>1, <2>3, <2>4, <2>5 DEF AllMeant
  <2> QED
    BY <2>6 DEF d
<1>6. AllMeant(WasmProbeDemo)
  BY WasmProbeIs, ServedSlotIs, UnservedIsMeant DEF Has, AllMeant
<1>7. AllMeant(RuntimeDemo)
  <2> DEFINE d == RuntimeDemo
  <2>1. /\ DOMAIN d.programs = 1..5 /\ d.programs[1].name = "keystore-service"
        /\ d.programs[1].arg0 = Launched(1)
        /\ \A p \in 2..5 : d.programs[p].name \notin DOMAIN ServedSlot
    BY RuntimeIs, ServedSlotIs, ProfilesAre DEF Has
  <2>2. Line(d, 1, 1, 1, "ALL", 0) /\ Line(d, 2, 2, 1, "WRITE", GRANTER_BADGE)
    BY RuntimeLines DEF GRANTER_BADGE
  <2> HIDE DEF d
  <2>3. Meant(d, 1)
    BY <2>1, <2>2, ServedSlotIs, BinderCalls
  <2>4. AllMeant(d)
    BY <2>1, <2>3, UnservedIsMeant DEF AllMeant
  <2> QED
    BY <2>4 DEF d
<1>8. AllMeant(RuntimeFsDemo)
  <2> DEFINE d == RuntimeFsDemo
  <2>1. /\ DOMAIN d.programs = 1..6 /\ d.programs[1].name = "keystore-service"
        /\ d.programs[1].arg0 = PROFILE_AEAD /\ d.programs[2].name = "store-service"
        /\ d.programs[2].arg0 = Launched(1) /\ Joined(d, 1, 2)
        /\ \A p \in 3..6 : d.programs[p].name \notin DOMAIN ServedSlot
    BY RuntimeFsIs, ServedSlotIs DEF Has
  <2>2. /\ Line(d, 1, 1, 1, "ALL", 0) /\ Calls(d, 2, 1) /\ \A t \in 3..6 : ~Calls(d, t, 1)
        /\ Line(d, 2, 3, 2, "ALL", 0) /\ Line(d, 3, 3, 2, "WRITE", GRANTER_BADGE)
    BY RuntimeFsLines DEF Calls, GRANTER_BADGE
  <2> HIDE DEF d
  <2>3. Meant(d, 1)
    <3>1. \A t \in DOMAIN d.programs \ {1} : Calls(d, t, 1) => t = 2
      BY <2>1, <2>2
    <3>2. /\ 2 \in DOMAIN d.programs \ {1} /\ d.programs[1].name \in DOMAIN ServedSlot
          /\ ServedSlot[d.programs[1].name] = 1 /\ d.programs[1].arg0 \in {0, 1}
      BY <2>1, ServedSlotIs, ProfilesAre
    <3> QED
      BY <2>1, <2>2, <3>1, <3>2, FirstCaller
  <2>4. Meant(d, 2)
    BY <2>1, <2>2, ServedSlotIs, BinderCalls
  <2>5. AllMeant(d)
    BY <2>1, <2>3, <2>4, UnservedIsMeant DEF AllMeant
  <2> QED
    BY <2>5 DEF d
<1> QED
  BY <1>1, <1>2, <1>3, <1>4, <1>5, <1>6, <1>7, <1>8 DEF ShippedDemos

LEMMA JoinedShares ==
  ASSUME Entered, NEW p \in DOMAIN tcbs, NEW q \in DOMAIN tcbs, Joined(demo, p, q)
  PROVE  SharesFrame(p, q)
<1>1. PICK w \in DOMAIN demo.wires : \E j, k \in DOMAIN demo.wires[w].to :
        demo.wires[w].to[j].prog = p /\ demo.wires[w].to[k].prog = q
  BY DEF Joined
<1>2. Placed(w)
  BY EnteredFacts DEF Entered, InPlace, Late, Running, WiresBehind
<1>3. PICK f \in DOMAIN frames : \A k \in DOMAIN demo.wires[w].to :
        \E m \in frames[f].maps : m.vspace = demo.wires[w].to[k].prog
  BY <1>2 DEF Placed
<1>4. tcbs[p].vspace = p /\ tcbs[q].vspace = q
  BY EnteredFacts
<1> QED
  BY <1>1, <1>3, <1>4 DEF SharesFrame

LEMMA EnteredMeant ==
  ASSUME Entered, AllMeant(demo)
  PROVE  FirstCallerIsMeant
<1> SUFFICES ASSUME NEW p \in DOMAIN tcbs, demo.programs[p].name \in DOMAIN ServedSlot
             PROVE  /\ IF WaitsForBinder(p)
                       THEN \E q \in Callers(p) : Granter(q, Served(p))
                       ELSE /\ Cardinality(Callers(p)) = 1
                            /\ demo.programs[p].name # "broker-service" =>
                                 \A q \in Callers(p) : SharesFrame(p, q)
                    /\ demo.programs[p].name = "keystore-service" =>
                         Profile(p) \in {PROFILE_AEAD, PROFILE_SIGNING}
  BY DEF FirstCallerIsMeant
<1> DEFINE name == demo.programs[p].name
<1>1. DOMAIN tcbs = DOMAIN demo.programs /\ tcbs[p].arg0 = demo.programs[p].arg0
  BY EnteredFacts
<1>2. Meant(demo, p)
  BY <1>1 DEF AllMeant
<1>3. PICK e : /\ \E r, b : Line(demo, p, ServedSlot[name], e, r, b)
               /\ IF WaitsForBinder(p)
                  THEN \E q \in DOMAIN tcbs \ {p} :
                         \E s, r : Line(demo, q, s, e, r, GRANTER_BADGE)
                  ELSE \E q \in DOMAIN tcbs \ {p} :
                         /\ Calls(demo, q, e)
                         /\ \A t \in DOMAIN tcbs \ {p} : Calls(demo, t, e) => t = q
                         /\ name # "broker-service" => Joined(demo, p, q)
  BY <1>1, <1>2 DEF Meant, WaitsForBinder
<1>4. Served(p) = e
  BY <1>3, LineIsHeld, EndpointIs DEF Served
<1>5. ASSUME NEW q \in DOMAIN tcbs, NEW s, NEW r, NEW b, Line(demo, q, s, e, r, b)
      PROVE  s \in Reaches(q, e) /\ Held(q)[s].badge = b
  BY <1>5, LineIsHeld, EndpointIs DEF Reaches
<1>6. ASSUME NEW q \in DOMAIN tcbs \ {p}
      PROVE  q \in Callers(p) <=> Calls(demo, q, e)
  <2>1. ASSUME NEW s \in Reaches(q, e)
        PROVE  Calls(demo, q, e)
    BY HeldIsALine DEF Reaches, Calls
  <2> QED
    BY <1>4, <1>5, <2>1 DEF Callers, Calls
<1>7. CASE WaitsForBinder(p)
  <2>1. PICK q \in DOMAIN tcbs \ {p} : \E s, r : Line(demo, q, s, e, r, GRANTER_BADGE)
    BY <1>3, <1>7
  <2>2. q \in Callers(p)
    BY <1>6, <2>1 DEF Calls
  <2>3. Granter(q, e)
    BY <1>5, <2>1 DEF Granter
  <2> QED
    BY <1>4, <1>7, <2>2, <2>3, <1>1, <1>2 DEF Meant, Profile
<1>8. CASE ~WaitsForBinder(p)
  <2>1. PICK q \in DOMAIN tcbs \ {p} :
          /\ Calls(demo, q, e)
          /\ \A t \in DOMAIN tcbs \ {p} : Calls(demo, t, e) => t = q
          /\ name # "broker-service" => Joined(demo, p, q)
    BY <1>3, <1>8
  <2>2. Callers(p) = {q}
    <3>1. Callers(p) \subseteq DOMAIN tcbs \ {p}
      BY DEF Callers
    <3> QED
      BY <1>6, <2>1, <3>1
  <2>3. Cardinality(Callers(p)) = 1
    BY <2>2, FS_Singleton
  <2>4. name # "broker-service" => SharesFrame(p, q)
    BY <2>1, JoinedShares
  <2> QED
    BY <1>8, <2>2, <2>3, <2>4, <1>1, <1>2 DEF Meant, Profile
<1> QED
  BY <1>7, <1>8

-----------------------------------------------------------------------------
(* Four of the properties, of every launch of shipped images.              *)

LEMMA EntersAsDeclared ==
  ASSUME Demos \subseteq ShippedDemos
  PROVE  Spec => [](Running => Entered /\ demo \in ShippedDemos)
<1>1. /\ TypeOK /\ Counting /\ Numbered /\ InPlace
      /\ AsDeclared
      => (Running => Entered /\ demo \in ShippedDemos)
  <2> SUFFICES ASSUME TypeOK, Counting, Numbered, InPlace, AsDeclared, Running
               PROVE  Entered /\ demo \in ShippedDemos
    OBVIOUS
  <2>1. Entered
    BY DEF Entered
  <2> QED
    BY <2>1, EnteredFacts
<1> QED
  BY <1>1, EverythingInPlace, EveryoneHasTheirShare, PTL

(* In a launch of any of the shipped images nothing the launcher mapped is *)
(* in the window where a program maps its arena frames, so that no such    *)
(* mapping can be refused (launch.rs:92-106).                               *)
THEOREM ArenaWindowsAreFree ==
  ASSUME Demos \subseteq ShippedDemos
  PROVE  Spec => []ArenaWindowFree
<1>1. (Running => Entered /\ demo \in ShippedDemos) => ArenaWindowFree
  <2>1. ~Running => ArenaWindowFree
    BY DEF ArenaWindowFree
  <2> QED
    BY <2>1, ShippedIsCompact, EnteredFree
<1> QED
  BY <1>1, EntersAsDeclared, PTL

(* A slot number that the trap handlers narrate as SUCCESS or FAILURE      *)
(* names the first thread's notification in every program that has one     *)
(* there, and the two are not the same (the main.rs of each demo).         *)
THEOREM NarrationIsUnambiguous ==
  ASSUME Demos \subseteq ShippedDemos
  PROVE  Spec => []NarrationUnambiguous
<1>1. (Running => Entered /\ demo \in ShippedDemos) => NarrationUnambiguous
  <2>1. ~Running => NarrationUnambiguous
    BY DEF NarrationUnambiguous
  <2> QED
    BY <2>1, ShippedTells, EnteredTells
<1> QED
  BY <1>1, EntersAsDeclared, PTL

(* Each badge a service trusts is held by one program, and nobody but the  *)
(* endpoint's server could mint it (runtime_demo/loader.rs,                *)
(* runtime_fs_demo/loader.rs).                                             *)
THEOREM BadgesAreUnforgeable ==
  ASSUME Demos \subseteq ShippedDemos
  PROVE  Spec => []BadgesUnforgeable
<1>1. (Running => Entered /\ demo \in ShippedDemos) => BadgesUnforgeable
  <2>1. ~Running => BadgesUnforgeable
    BY DEF BadgesUnforgeable
  <2> QED
    BY <2>1, ShippedIsWatertight, EnteredWatertight
<1> QED
  BY <1>1, EntersAsDeclared, PTL

(* A service that gives its grant to its first caller has one caller, with *)
(* which it shares its data frame; one that waits for a binder has one to  *)
(* wait for; a keystore's profile is one it knows.                         *)
THEOREM TheFirstCallerIsMeant ==
  ASSUME Demos \subseteq ShippedDemos
  PROVE  Spec => []FirstCallerIsMeant
<1>1. (Running => Entered /\ demo \in ShippedDemos) => FirstCallerIsMeant
  <2>1. ~Running => FirstCallerIsMeant
    BY DEF FirstCallerIsMeant
  <2> QED
    BY <2>1, ShippedIsMeant, EnteredMeant
<1> QED
  BY <1>1, EntersAsDeclared, PTL

-----------------------------------------------------------------------------
(* What a launch uses up: every frame it retypes and every slot of root it *)
(* takes.  A description has running totals: f[p] frames and s[p] slots    *)
(* before program p is loaded, w[k] slots before wire k is mapped.         *)
ArenaMegapages(spec) == LET a == CHOOSE a \in spec.arena : TRUE
                        IN IF spec.arena = {} THEN 0 ELSE a.megapages
FrameShare(spec) == Len(spec.image) + 1 + spec.heap + ArenaMegapages(spec)
SlotShare(spec) == 5 + Len(spec.image) + spec.heap + Cardinality(spec.arena)
SlotsOfWire(wire) ==
  CASE wire.op = "Shared" -> 1 [] wire.op = "Package" -> 0 [] wire.op = "Device" -> 2
AddsUp(d, f, s, w) ==
  /\ f[1] = 0 /\ s[1] = 2 + Len(d.root) /\ w[1] = s[Len(d.programs) + 1]
  /\ \A p \in DOMAIN d.programs :
       /\ f[p] \in Nat /\ f[p + 1] = f[p] + FrameShare(d.programs[p])
       /\ s[p] \in Nat /\ s[p + 1] = s[p] + SlotShare(d.programs[p])
  /\ f[Len(d.programs) + 1] \in Nat
  /\ \A k \in DOMAIN d.wires :
       w[k] \in Nat /\ w[k + 1] = w[k] + SlotsOfWire(d.wires[k])

(* m frames and root's slots below k are used, but for those of a frame    *)
(* that is being handed over.                                              *)
Used(m, k) ==
  /\ Len(frames) = IF stage = "retype" THEN m ELSE m + 1
  /\ nextSlot = IF stage # "retype" /\ TakesSlot THEN k + 1 ELSE k

(* The tally within a program's load: n megapages of image, h of heap, a   *)
(* of arena, c arenas.                                                     *)
UsedBy(n, h, a, c, m, k) ==
  /\ pc = "vspace" => Used(m, k + i - 1)
  /\ pc = "image" => Used(m + i - 1, k + i)
  /\ pc = "fill" => Used(m + n, k + 1 + n)
  /\ pc = "stack" => Used(m + n + i - 1, k + n + i)
  /\ pc = "heap" => Used(m + n + i, k + 1 + n + i)
  /\ pc = "cnode" => Used(m + n + 1 + h, k + 1 + n + h + i)
  /\ pc \in {"grants", "self"} => Used(m + n + 1 + h, k + 3 + n + h)
  /\ pc = "scratch" => Used(m + n + 1 + h, k + 2 + n + h + i)
  /\ pc = "arena" => Used(m + n + h + i, k + 3 + n + h + c)
  /\ pc = "tcb" => Used(m + n + 1 + h + a, k + 1 + n + h + c + 2 * i)
Tallied(f, s, w) ==
  /\ pc = "root" => prog = 1 /\ Used(0, 1 + i)
  /\ UsedBy(Len(This.image), This.heap, ArenaSize, Cardinality(This.arena), f[prog], s[prog])
  /\ pc = "wire" => Used(f[Len(demo.programs) + 1] + i - 1, w[i])
  /\ pc \in {"ready", "enter", "running"} =>
       Used(f[Len(demo.programs) + 1] + Len(demo.wires), w[Len(demo.wires) + 1])
  /\ Late => vspaces = Len(demo.programs)

(* The amounts are numbers.                                                *)
LEMMA ShareTypes ==
  ASSUME TypeOK, NEW f, NEW s, NEW w, AddsUp(demo, f, s, w)
  PROVE  /\ Len(This.image) \in Nat /\ This.heap \in Nat /\ ArenaSize \in Nat
         /\ Cardinality(This.arena) \in Nat
         /\ f[prog] \in Nat /\ s[prog] \in Nat
         /\ f[prog + 1] = f[prog] + (Len(This.image) + 1 + This.heap + ArenaSize)
         /\ s[prog + 1] = s[prog] + (5 + Len(This.image) + This.heap + Cardinality(This.arena))
<1>1. /\ Cardinality(This.arena) \in Nat /\ This.heap \in Nat /\ ArenaSize \in Nat
      /\ Len(This.image) \in Nat
  BY OptionFacts, LenProperties
<1>2. prog \in DOMAIN demo.programs
  BY DemoFacts
<1>3. ArenaMegapages(This) = ArenaSize
  BY DEF ArenaMegapages, ArenaSize, Arena
<1> QED
  BY <1>1, <1>2, <1>3 DEF AddsUp, This, FrameShare, SlotShare

(* The rounds of each loop that uses something.                            *)
LEMMA RoundsAre ==
  /\ pc = "root" => Rounds = Len(demo.root)
  /\ pc = "image" => Rounds = Len(This.image)
  /\ pc = "heap" => Rounds = This.heap
  /\ pc = "scratch" => Rounds = Cardinality(This.arena)
  /\ pc = "arena" => Rounds = ArenaSize
  /\ pc = "wire" => Rounds = Len(demo.wires)
  /\ pc \in {"vspace", "fill", "stack", "cnode", "tcb"} => Rounds = 1
  BY DEF Rounds, ArenaSize

(* Retyping and clearing a frame.                                          *)
LEMMA InRoundTally ==
  ASSUME IInv, [Next]_vars, InRound, NEW f, NEW s, NEW w, Tallied(f, s, w)
  PROVE  Tallied(f, s, w)'
<1>0. TypeOK /\ Counting /\ Handing
  BY DEF IInv
<1>1. pc' = pc /\ i' = i /\ prog' = prog /\ demo' = demo
  BY StepKinds
<1>2. TakesSlot' = TakesSlot /\ This' = This /\ ArenaSize' = ArenaSize /\ vspaces' = vspaces
  <2>1. This' = This /\ Wire' = Wire
    BY <1>1 DEF Wire, This
  <2>2. vspaces' = vspaces
    BY DEF InRound, RetypeFrame, ClearFrame, vars, objects
  <2> QED
    BY <1>1, <2>1, <2>2 DEF TakesSlot, ArenaSize, Arena
<1>3. ASSUME NEW m, NEW k, Used(m, k)
      PROVE  Used(m, k)'
  <2>1. CASE RetypeFrame
    <3>1. Len(frames') = Len(frames) + 1
      BY <1>0, <2>1, FramesLength
    <3>2. stage = "retype" /\ stage' = "clear"
          /\ nextSlot' = IF TakesSlot THEN nextSlot + 1 ELSE nextSlot
      BY <2>1 DEF RetypeFrame
    <3> QED
      BY <1>2, <1>3, <3>1, <3>2 DEF Used
  <2>2. CASE ClearFrame
    <3>1. stage = "clear" /\ stage' = "give" /\ nextSlot' = nextSlot
      BY <2>2 DEF ClearFrame, locals
    <3>2. ~RetypeFrame /\ ~MapDeviceFrame
      BY <1>1, <2>2, <3>1, <1>0 DEF RetypeFrame, MapDeviceFrame, NextRound, TypeOK
    <3>3. Len(frames') = Len(frames)
      BY <1>0, <3>2, FramesLength
    <3> QED
      BY <1>2, <1>3, <3>1, <3>3 DEF Used
  <2>3. CASE UNCHANGED vars
    BY <1>2, <1>3, <2>3 DEF Used, vars, locals, objects
  <2> QED
    BY <2>1, <2>2, <2>3 DEF InRound
<1>4. ASSUME Late
      PROVE  Late' /\ vspaces = Len(demo.programs)
  BY <1>1, <1>4 DEF Late, Tallied
<1>5. Late' => Late
  BY <1>1 DEF Late
<1>6. UsedBy(Len(This.image), This.heap, ArenaSize, Cardinality(This.arena), f[prog], s[prog])'
  <2> DEFINE n == Len(This.image)
             c == Cardinality(This.arena)
             h == This.heap
             a == ArenaSize
             m == f[prog]
             k == s[prog]
  <2>1. n' = n /\ h' = h /\ a' = a /\ c' = c /\ m' = m /\ k' = k
    BY <1>1, <1>2
  <2>2. UsedBy(n, h, a, c, m, k)
    BY DEF Tallied
  <2> HIDE DEF n, h, a, c, m, k
  <2>3. UsedBy(n, h, a, c, m, k)'
    BY <1>1, <1>3, <2>1, <2>2 DEF UsedBy
  <2> QED
    BY <2>3 DEF n, h, a, c, m, k
<1>7. pc = "root" => prog = 1 /\ Used(0, 1 + i)'
  BY <1>1, <1>3 DEF Tallied
<1>8. pc = "wire" => Used(f[Len(demo.programs) + 1] + i - 1, w[i])'
  BY <1>1, <1>3 DEF Tallied
<1>9. pc \in {"ready", "enter", "running"} =>
       Used(f[Len(demo.programs) + 1] + Len(demo.wires), w[Len(demo.wires) + 1])'
  BY <1>1, <1>3 DEF Tallied
<1> QED
  BY <1>1, <1>2, <1>4, <1>5, <1>6, <1>7, <1>8, <1>9 DEF Tallied

(* What one round of each loop uses.                                       *)
FramesOfRound == IF pc \in {"image", "stack", "heap", "arena", "wire"} THEN 1 ELSE 0
SlotsOfRound ==
  CASE pc \in {"root", "vspace", "image", "stack", "heap", "cnode", "scratch"} -> 1
    [] pc = "tcb" -> 2
    [] pc = "wire" -> SlotsOfWire(Wire)
    [] OTHER -> 0

LEMMA RoundUses ==
  ASSUME IInv, [Next]_vars, EndsRound, NEW m \in Nat, NEW k \in Nat, Used(m, k)
  PROVE  \A x, y : x = m + FramesOfRound /\ y = k + SlotsOfRound => Used(x, y)'
<1>0. TypeOK /\ Counting /\ Handing
  BY DEF IInv
<1>1. CASE MapPrivateFrame \/ GrantArenaFrame \/ MapSharedFrame \/ MapPackage
  <2>1. stage = "give" /\ stage' = "retype" /\ nextSlot' = nextSlot
    BY <1>1 DEF MapPrivateFrame, GrantArenaFrame, MapSharedFrame, MapPackage, locals
  <2>2. Len(frames') = Len(frames)
    <3>1. ~RetypeFrame
      BY <2>1 DEF RetypeFrame
    <3>2. ~MapDeviceFrame
      BY <1>1 DEF MapDeviceFrame, MapPrivateFrame, GrantArenaFrame, MapSharedFrame, MapPackage, At
    <3> QED
      BY <1>0, <3>1, <3>2, FramesLength
  <2>3. FramesOfRound = 1 /\ SlotsOfRound = IF TakesSlot THEN 1 ELSE 0
    BY <1>1 DEF MapPrivateFrame, GrantArenaFrame, MapSharedFrame, MapPackage, At,
                FramesOfRound, SlotsOfRound, TakesSlot, SlotsOfWire
  <2>4. Len(frames') = m + FramesOfRound /\ nextSlot' = k + SlotsOfRound
    BY <2>1, <2>2, <2>3 DEF Used
  <2> QED
    BY <2>1, <2>4 DEF Used
<1>2. CASE ~(MapPrivateFrame \/ GrantArenaFrame \/ MapSharedFrame \/ MapPackage)
  <2>1. BetweenFrames
    BY <1>2 DEF EndsRound, BetweenFrames
  <2>2. stage = "retype" /\ stage' = "retype"
    BY <1>0, <2>1, BetweenFramesStage
  <2>3. ~RetypeFrame
    BY <2>2 DEF RetypeFrame
  <2>4. Len(frames) = m /\ nextSlot = k
    BY <2>2 DEF Used
  <2>5. Len(frames') = m + FramesOfRound /\ nextSlot' = k + SlotsOfRound
    <3>1. CASE MapDeviceFrame
      <4>1. Len(frames') = m + 1
        BY <1>0, <3>1, <2>4, FramesLength
      <4>2. FramesOfRound = 1 /\ SlotsOfRound = 2 /\ nextSlot' = nextSlot + 2
        BY <3>1 DEF MapDeviceFrame, At, FramesOfRound, SlotsOfRound, SlotsOfWire
      <4> QED
        BY <2>4, <4>1, <4>2
    <3>2. CASE ~MapDeviceFrame
      <4>1. Len(frames') = m
        BY <1>0, <3>2, <2>3, <2>4, FramesLength
      <4>2. FramesOfRound = 0
        BY <1>2, <3>2 DEF EndsRound, RetypeRootObject, MintRootObject, CreateVSpace, FillImage,
             CreateCNode, GrantObject, GrantSelfCNode, OpenArena, CreateThread, MakeReady, At,
             FramesOfRound
      <4>3. nextSlot' = nextSlot + SlotsOfRound
        <5>1. CASE RetypeRootObject \/ MintRootObject \/ CreateVSpace \/ CreateCNode \/ OpenArena
          BY <5>1 DEF RetypeRootObject, MintRootObject, CreateVSpace, CreateCNode, OpenArena, At,
               SlotsOfRound
        <5>2. CASE CreateThread
          BY <5>2 DEF CreateThread, At, SlotsOfRound
        <5>3. CASE FillImage \/ GrantObject \/ GrantSelfCNode \/ MakeReady
          <6>1. nextSlot' = nextSlot /\ SlotsOfRound = 0
            BY <5>3 DEF FillImage, GrantObject, GrantSelfCNode, MakeReady, At, SlotsOfRound,
                 locals
          <6> QED
            BY <2>4, <6>1
        <5> QED
          BY <1>2, <3>2, <5>1, <5>2, <5>3 DEF EndsRound
      <4> QED
        BY <2>4, <4>1, <4>2, <4>3
    <3> QED
      BY <3>1, <3>2
  <2> QED
    BY <2>2, <2>5 DEF Used
<1> QED
  BY <1>1, <1>2

(* The end of a round.                                                     *)
LEMMA EndsRoundTally ==
  ASSUME IInv, RInv, [Next]_vars, EndsRound, NEW f, NEW s, NEW w, AddsUp(demo, f, s, w),
         Tallied(f, s, w)
  PROVE  Tallied(f, s, w)'
<1> DEFINE n == Len(This.image)
           c == Cardinality(This.arena)
           h == This.heap
           a == ArenaSize
           m == f[prog]
           k == s[prog]
<1>0. TypeOK /\ Counting /\ Handing
  BY DEF IInv
<1>1. pc' = pc /\ i' = i + 1 /\ prog' = prog /\ demo' = demo /\ i <= Rounds
  BY StepKinds
<1>2. This' = This /\ ArenaSize' = ArenaSize
  BY <1>1 DEF This, ArenaSize, Arena
<1>3. /\ n \in Nat /\ c \in Nat /\ h \in Nat /\ a \in Nat /\ m \in Nat /\ k \in Nat
      /\ i \in Nat \ {0}
  BY <1>0, ShareTypes DEF TypeOK
<1>4. ASSUME NEW x \in Nat, NEW y \in Nat, Used(x, y)
      PROVE  \A u, v : u = x + FramesOfRound /\ v = y + SlotsOfRound => Used(u, v)'
  BY <1>4, RoundUses
<1>5. UsedBy(n, h, a, c, m, k)'
  <2>1. n' = n /\ h' = h /\ a' = a /\ c' = c /\ m' = m /\ k' = k
    BY <1>1, <1>2
  <2>2. UsedBy(n, h, a, c, m, k)
    BY DEF Tallied
  <2> HIDE DEF n, h, a, c, m, k
  <2>3. CASE pc \in {"vspace", "image", "fill", "stack"}
    BY <1>1, <1>3, <1>4, <2>1, <2>2, <2>3 DEF UsedBy, FramesOfRound, SlotsOfRound
  <2>4. CASE pc \in {"heap", "cnode", "grants", "self"}
    BY <1>1, <1>3, <1>4, <2>1, <2>2, <2>4 DEF UsedBy, FramesOfRound, SlotsOfRound
  <2>5. CASE pc \in {"scratch", "arena"}
    BY <1>1, <1>3, <1>4, <2>1, <2>2, <2>5 DEF UsedBy, FramesOfRound, SlotsOfRound
  <2>7. CASE pc = "tcb"
    <3>1. Used(m + n + 1 + h + a, k + 1 + n + h + c + 2 * i)
      BY <2>2, <2>7 DEF UsedBy
    <3>2. FramesOfRound = 0 /\ SlotsOfRound = 2
      BY <2>7 DEF FramesOfRound, SlotsOfRound
    <3>3. m + n + 1 + h + a \in Nat /\ k + 1 + n + h + c + 2 * i \in Nat
      BY <1>3
    <3>4. k' + 1 + n' + h' + c' + 2 * i' = (k + 1 + n + h + c + 2 * i) + 2
      BY <1>1, <1>3, <2>1
    <3>5. m' + n' + 1 + h' + a' = (m + n + 1 + h + a) + 0
      BY <1>1, <1>3, <2>1
    <3>6. Used(m + n + 1 + h + a, k + 1 + n + h + c + 2 * i)'
      BY <1>4, <3>1, <3>2, <3>3, <3>4, <3>5
    <3> QED
      BY <1>1, <2>7, <3>6 DEF UsedBy
  <2>6. CASE pc \notin LoadPhases
    BY <1>1, <2>6 DEF UsedBy, LoadPhases
  <2> QED
    BY <2>3, <2>4, <2>5, <2>6, <2>7 DEF LoadPhases
<1>6. pc = "root" => prog = 1 /\ Used(0, 1 + i)'
  <2> SUFFICES ASSUME pc = "root"
               PROVE  prog = 1 /\ Used(0, 1 + i)'
    OBVIOUS
  <2>1. prog = 1 /\ Used(0, 1 + i)
    BY DEF Tallied
  <2>2. FramesOfRound = 0 /\ SlotsOfRound = 1
    BY DEF FramesOfRound, SlotsOfRound
  <2> QED
    BY <1>1, <1>3, <1>4, <2>1, <2>2
<1>7. pc = "wire" => Used(f[Len(demo.programs) + 1] + i - 1, w[i])'
  <2> SUFFICES ASSUME pc = "wire"
               PROVE  Used(f[Len(demo.programs) + 1] + i - 1, w[i])'
    OBVIOUS
  <2>1. i \in DOMAIN demo.wires
    BY <1>0, <1>1, <1>3, DemoFacts, RoundsAre, DescriptionLengths
  <2>2. /\ w[i] \in Nat /\ w[i + 1] = w[i] + SlotsOfWire(Wire)
        /\ f[Len(demo.programs) + 1] \in Nat
    BY <2>1 DEF AddsUp, Wire
  <2>3. Used(f[Len(demo.programs) + 1] + i - 1, w[i])
    BY DEF Tallied
  <2>4. FramesOfRound = 1 /\ SlotsOfRound = SlotsOfWire(Wire)
    BY DEF FramesOfRound, SlotsOfRound
  <2> QED
    BY <1>1, <1>3, <1>4, <2>2, <2>3, <2>4
<1>8. pc \in {"ready", "enter", "running"} =>
       Used(f[Len(demo.programs) + 1] + Len(demo.wires), w[Len(demo.wires) + 1])'
  <2> SUFFICES ASSUME pc \in {"ready", "enter", "running"}
               PROVE  Used(f[Len(demo.programs) + 1] + Len(demo.wires),
                           w[Len(demo.wires) + 1])'
    OBVIOUS
  <2>1. Used(f[Len(demo.programs) + 1] + Len(demo.wires), w[Len(demo.wires) + 1])
    BY DEF Tallied
  <2>2. FramesOfRound = 0 /\ SlotsOfRound = 0
    BY DEF FramesOfRound, SlotsOfRound
  <2>3. stage = "retype" /\ Len(frames) \in Nat /\ nextSlot \in Nat
    <3>1. ~NeedsFrame /\ pc # "panicked"
      BY DEF NeedsFrame, At
    <3> QED
      BY <1>0, <3>1, LenProperties DEF Handing, TypeOK
  <2>4. /\ f[Len(demo.programs) + 1] + Len(demo.wires) \in Nat
        /\ w[Len(demo.wires) + 1] \in Nat
    BY <2>1, <2>3 DEF Used
  <2> QED
    BY <1>1, <1>4, <2>1, <2>2, <2>4
<1>9. Late' => vspaces' = Len(demo'.programs)
  <2>1. Late' => Late /\ ~CreateVSpace
    BY <1>1 DEF Late, LatePhases, CreateVSpace, At
  <2> QED
    BY <1>0, <1>1, <2>1, CountsStep DEF Tallied
<1> QED
  BY <1>1, <1>5, <1>6, <1>7, <1>8, <1>9 DEF Tallied

(* A program's share, as its last round leaves the tally.                  *)
LEMMA ShareEnds ==
  ASSUME TypeOK, NEW f, NEW s, NEW w, AddsUp(demo, f, s, w), pc = "tcb", i = 2,
         Tallied(f, s, w), stage = "retype"
  PROVE  Len(frames) = f[prog + 1] /\ nextSlot = s[prog + 1]
<1> DEFINE n == Len(This.image)
           c == Cardinality(This.arena)
           h == This.heap
           a == ArenaSize
           m == f[prog]
           k == s[prog]
           m2 == f[prog + 1]
           k2 == s[prog + 1]
<1>1. /\ n \in Nat /\ h \in Nat /\ a \in Nat /\ c \in Nat /\ m \in Nat /\ k \in Nat
      /\ m2 = m + (n + 1 + h + a) /\ k2 = k + (5 + n + h + c)
  BY ShareTypes
<1>2. UsedBy(n, h, a, c, m, k)
  BY DEF Tallied
<1> HIDE DEF n, c, h, a, m, k, m2, k2
<1>3. Len(frames) = m + n + 1 + h + a /\ nextSlot = k + 1 + n + h + c + 2 * i
  BY <1>2 DEF UsedBy, Used
<1>4. Len(frames) = m2 /\ nextSlot = k2
  BY <1>1, <1>3
<1> QED
  BY <1>4 DEF m2, k2

(* The next phase.                                                         *)
LEMMA NextPhaseTally ==
  ASSUME IInv, RInv, [Next]_vars, NextPhase, NEW f, NEW s, NEW w, AddsUp(demo, f, s, w),
         Tallied(f, s, w)
  PROVE  Tallied(f, s, w)'
<1>0. TypeOK /\ Counting /\ Handing /\ Bounded /\ Numbered
  BY DEF IInv, RInv
<1>1. /\ pc \in DOMAIN Then /\ i' = 1 /\ demo' = demo /\ frames' = frames
      /\ nextSlot' = nextSlot /\ vspaces' = vspaces
      /\ IF pc = "tcb" /\ prog < Len(demo.programs)
         THEN pc' = "vspace" /\ prog' = prog + 1
         ELSE pc' = Then[pc] /\ prog' = prog
  BY DEF NextPhase, given, locals, objects
<1>2. i = Rounds + 1 /\ Rounds \in Nat
  BY <1>0, RoundsType DEF NextPhase, Bounded, TypeOK
<1>3. stage = "retype" /\ stage' = "retype"
  BY <1>0, BetweenFramesStage DEF BetweenFrames
<1>4. \A m, k : Used(m, k) <=> Len(frames) = m /\ nextSlot = k
  BY <1>3 DEF Used
<1>5. ASSUME NEW x, NEW y, Len(frames) = x, nextSlot = y
      PROVE  \A u, v : u = x /\ v = y => Used(u, v)'
  BY <1>1, <1>3, <1>5 DEF Used
<1>6. Len(frames) \in Nat /\ nextSlot \in Nat
  BY <1>0, LenProperties DEF TypeOK
<1>7. ASSUME pc' \in LoadPhases
      PROVE  UsedBy(Len(This.image), This.heap, ArenaSize, Cardinality(This.arena),
                    f[prog], s[prog])'
  <2>1. CASE pc = "root"
    <3>1. pc' = "vspace" /\ prog' = 1 /\ prog = 1
      BY <1>1, <2>1 DEF Then, Tallied
    <3>2. f[1] = 0 /\ s[1] = 2 + Len(demo.root)
      BY DEF AddsUp
    <3>3. Used(0, 1 + i) /\ i = Len(demo.root) + 1 /\ Len(demo.root) \in Nat
      BY <1>0, <1>2, <2>1, RoundsAre, DemoFacts, LenProperties DEF Tallied
    <3>4. \A u, v : u = 0 /\ v = s[1] => Used(u, v)'
      <4>1. Len(frames) = 0 /\ nextSlot = s[1]
        BY <1>4, <3>2, <3>3
      <4> QED
        BY <1>5, <4>1
    <3>5. (f[prog])' = 0 /\ (s[prog] + i - 1)' = s[1]
      BY <1>1, <3>1, <3>2, <3>3
    <3> QED
      BY <3>1, <3>4, <3>5 DEF UsedBy
  <2>2. CASE pc = "tcb" /\ prog < Len(demo.programs)
    <3>1. pc' = "vspace" /\ prog' = prog + 1
      BY <1>1, <2>2
    <3>4. Len(frames) = f[prog + 1] /\ nextSlot = s[prog + 1]
      BY <1>0, <1>2, <1>3, <2>2, RoundsAre, ShareEnds
    <3>5. \A u, v : u = f[prog + 1] /\ v = s[prog + 1] => Used(u, v)'
      BY <1>5, <3>4
    <3>6. (f[prog])' = f[prog + 1] /\ (s[prog] + i - 1)' = s[prog + 1]
      BY <1>1, <1>6, <3>1, <3>4
    <3> QED
      BY <3>1, <3>5, <3>6 DEF UsedBy
  <2>3. CASE pc # "root" /\ ~(pc = "tcb" /\ prog < Len(demo.programs))
    <3> DEFINE n == Len(This.image)
               c == Cardinality(This.arena)
               h == This.heap
               a == ArenaSize
               m == f[prog]
               k == s[prog]
    <3>1. pc' = Then[pc] /\ prog' = prog
      BY <1>1, <2>3
    <3>2. n' = n /\ h' = h /\ a' = a /\ c' = c /\ m' = m /\ k' = k
      BY <1>1, <3>1 DEF This, ArenaSize, Arena
    <3>3. /\ n \in Nat /\ h \in Nat /\ a \in Nat /\ c \in Nat /\ m \in Nat /\ k \in Nat
      BY <1>0, ShareTypes
    <3>4. UsedBy(n, h, a, c, m, k)
      BY DEF Tallied
    <3>5. /\ pc = "image" => i = n + 1
          /\ pc = "heap" => i = h + 1
          /\ pc = "scratch" => i = c + 1
          /\ pc = "arena" => i = a + 1
          /\ pc \in {"vspace", "fill", "stack", "cnode"} => i = 2
      BY <1>2, RoundsAre
    <3> HIDE DEF n, h, a, c, m, k
    <3>6. pc = "vspace" => UsedBy(n, h, a, c, m, k)'
      BY <1>1, <1>4, <1>5, <3>1, <3>2, <3>3, <3>4, <3>5 DEF UsedBy, Then
    <3>7. pc = "image" => UsedBy(n, h, a, c, m, k)'
      BY <1>1, <1>4, <1>5, <3>1, <3>2, <3>3, <3>4, <3>5 DEF UsedBy, Then
    <3>8. pc = "fill" => UsedBy(n, h, a, c, m, k)'
      BY <1>1, <1>4, <1>5, <3>1, <3>2, <3>3, <3>4, <3>5 DEF UsedBy, Then
    <3>9. pc = "stack" => UsedBy(n, h, a, c, m, k)'
      BY <1>1, <1>4, <1>5, <3>1, <3>2, <3>3, <3>4, <3>5 DEF UsedBy, Then
    <3>10. pc = "heap" => UsedBy(n, h, a, c, m, k)'
      BY <1>1, <1>4, <1>5, <3>1, <3>2, <3>3, <3>4, <3>5 DEF UsedBy, Then
    <3>11. pc = "cnode" => UsedBy(n, h, a, c, m, k)'
      BY <1>1, <1>4, <1>5, <3>1, <3>2, <3>3, <3>4, <3>5 DEF UsedBy, Then
    <3>12. pc \in {"grants", "self"} => UsedBy(n, h, a, c, m, k)'
      BY <1>1, <1>4, <1>5, <3>1, <3>2, <3>3, <3>4, <3>5 DEF UsedBy, Then
    <3>13. pc = "scratch" => UsedBy(n, h, a, c, m, k)'
      BY <1>1, <1>4, <1>5, <3>1, <3>2, <3>3, <3>4, <3>5 DEF UsedBy, Then
    <3>14. pc = "arena" => UsedBy(n, h, a, c, m, k)'
      BY <1>1, <1>4, <1>5, <3>1, <3>2, <3>3, <3>4, <3>5 DEF UsedBy, Then
    <3>15. pc \in LoadPhases \ {"tcb"}
      BY <1>1, <1>7, <2>3, <3>1 DEF Then, LoadPhases
    <3>16. UsedBy(n, h, a, c, m, k)'
      BY <3>6, <3>7, <3>8, <3>9, <3>10, <3>11, <3>12, <3>13, <3>14, <3>15 DEF LoadPhases
    <3> QED
      BY <3>16 DEF n, h, a, c, m, k
  <2> QED
    BY <2>1, <2>2, <2>3
<1>8. pc' \notin LoadPhases =>
        UsedBy(Len(This.image), This.heap, ArenaSize, Cardinality(This.arena), f[prog], s[prog])'
  BY DEF UsedBy, LoadPhases
<1>9. pc' # "root"
  BY <1>1 DEF Then
<1>10. ASSUME pc' = "wire"
       PROVE  /\ Used(f[Len(demo.programs) + 1] + i - 1, w[i])'
              /\ vspaces' = Len(demo'.programs)
  <2>1. pc = "tcb" /\ prog = Len(demo.programs) /\ i = 2
    <3>1. pc = "tcb" /\ ~(prog < Len(demo.programs))
      BY <1>1, <1>10 DEF Then
    <3>2. prog \in 1..Len(demo.programs) /\ Len(demo.programs) \in Nat
      BY <1>0, DemoFacts
    <3> QED
      BY <1>2, <3>1, <3>2, RoundsAre
  <2>4. Len(frames) = f[prog + 1] /\ nextSlot = s[prog + 1]
    BY <1>0, <1>3, <2>1, ShareEnds
  <2>5. w[1] = s[prog + 1]
    BY <2>1 DEF AddsUp
  <2>6. \A u, v : u = f[prog + 1] /\ v = w[1] => Used(u, v)'
    BY <1>5, <2>4, <2>5
  <2>7. (f[Len(demo.programs) + 1] + i - 1)' = f[prog + 1] /\ (w[i])' = w[1]
    BY <1>1, <1>6, <2>1, <2>4
  <2>8. vspaces = prog
    BY <1>0, <2>1 DEF Numbered, HasVSpace, LoadPhases
  <2> QED
    BY <1>1, <2>1, <2>6, <2>7, <2>8
<1>11. ASSUME pc' \in {"ready", "enter", "running"}
       PROVE  Used(f[Len(demo.programs) + 1] + Len(demo.wires), w[Len(demo.wires) + 1])'
  <2> DEFINE u == f[Len(demo.programs) + 1] + Len(demo.wires)
             v == w[Len(demo.wires) + 1]
  <2>1. pc \in {"wire", "ready"}
    BY <1>1, <1>11 DEF Then
  <2>2. Len(frames) = u /\ nextSlot = v
    <3>1. CASE pc = "wire"
      <4>1. i = Len(demo.wires) + 1 /\ Len(demo.wires) \in Nat
        BY <1>0, <1>2, <3>1, RoundsAre, DescriptionLengths
      <4>2. Used(f[Len(demo.programs) + 1] + i - 1, w[i])
        BY <3>1 DEF Tallied
      <4>3. f[Len(demo.programs) + 1] \in Nat
        BY DEF AddsUp
      <4> QED
        BY <1>4, <4>1, <4>2, <4>3
    <3>2. CASE pc = "ready"
      BY <1>4, <3>2 DEF Tallied
    <3> QED
      BY <2>1, <3>1, <3>2
  <2>3. u' = u /\ v' = v
    BY <1>1
  <2> HIDE DEF u, v
  <2>4. Used(u, v)'
    BY <1>5, <2>2, <2>3
  <2> QED
    BY <2>4 DEF u, v
<1>12. ASSUME Late', pc' # "wire"
       PROVE  vspaces' = Len(demo'.programs)
  <2>1. Late
    BY <1>1, <1>12 DEF Late, LatePhases, Then
  <2> QED
    BY <1>1, <2>1 DEF Tallied
<1> QED
  BY <1>7, <1>8, <1>9, <1>10, <1>11, <1>12 DEF Tallied

(* Every other step.                                                       *)
LEMMA TallyStep ==
  ASSUME IInv, RInv, [Next]_vars, NEW f, NEW s, NEW w, AddsUp(demo, f, s, w) => Tallied(f, s, w)
  PROVE  (AddsUp(demo, f, s, w) => Tallied(f, s, w))'
<1>1. demo' = demo
  BY StepKinds
<1> SUFFICES ASSUME AddsUp(demo, f, s, w), Tallied(f, s, w)
             PROVE  Tallied(f, s, w)'
  BY <1>1
<1>2. CASE NextPhase
  BY <1>2, NextPhaseTally
<1>3. CASE InRound
  BY <1>3, InRoundTally
<1>4. CASE EndsRound
  BY <1>4, EndsRoundTally
<1>5. CASE EnterFirstThread
  <2>1. /\ pc = "enter" /\ pc' = "running" /\ frames' = frames /\ nextSlot' = nextSlot
        /\ vspaces' = vspaces /\ stage' = stage
    BY <1>5 DEF EnterFirstThread, At, locals, objects
  <2>2. stage = "retype"
    BY <1>5, BetweenFramesStage DEF IInv, BetweenFrames
  <2> DEFINE u == f[Len(demo.programs) + 1] + Len(demo.wires)
             v == w[Len(demo.wires) + 1]
  <2>3. Used(u, v)
    BY <2>1 DEF Tallied
  <2>4. u' = u /\ v' = v
    BY <1>1
  <2> HIDE DEF u, v
  <2>5. Used(u, v)'
    BY <2>1, <2>2, <2>3, <2>4 DEF Used
  <2>6. Late /\ vspaces = Len(demo.programs)
    BY <2>1 DEF Tallied, Late, LatePhases
  <2> QED
    BY <1>1, <2>1, <2>5, <2>6 DEF Tallied, UsedBy, u, v
<1>6. CASE Panic
  <2>1. pc' = "panicked"
    BY <1>6 DEF Panic
  <2> QED
    BY <2>1 DEF Tallied, UsedBy, Late, LatePhases
<1> QED
  BY <1>2, <1>3, <1>4, <1>5, <1>6, StepKinds

LEMMA InitTally ==
  ASSUME Init, NEW f, NEW s, NEW w
  PROVE  Tallied(f, s, w)
<1>1. /\ pc = "root" /\ prog = 1 /\ i = 1 /\ stage = "retype" /\ nextSlot = 2
      /\ frames = <<>>
  BY DEF Init
<1> QED
  BY <1>1 DEF Tallied, UsedBy, Used, Late, LatePhases

(* A launch that gets as far as its first thread has used the frames and   *)
(* root slots that its description adds up to, no more and no fewer: what  *)
(* the documentation counts by hand (STATUS.md, runtime_demo/loader.rs).   *)
UsesWhatAddsUp ==
  Running => \A f, s, w : AddsUp(demo, f, s, w) =>
    /\ Len(frames) = f[Len(demo.programs) + 1] + Len(demo.wires)
    /\ nextSlot = w[Len(demo.wires) + 1]
    /\ vspaces = Len(demo.programs)
THEOREM LaunchesAddUp == Spec => []UsesWhatAddsUp
<1> DEFINE Tally == \A f, s, w : AddsUp(demo, f, s, w) => Tallied(f, s, w)
<1>1. Init => Tally
  BY InitTally
<1>2. IInv /\ RInv /\ Tally /\ [Next]_vars => Tally'
  <2> SUFFICES ASSUME IInv, RInv, Tally, [Next]_vars, NEW f, NEW s, NEW w
               PROVE  (AddsUp(demo, f, s, w) => Tallied(f, s, w))'
    OBVIOUS
  <2>1. AddsUp(demo, f, s, w) => Tallied(f, s, w)
    OBVIOUS
  <2> QED
    BY <2>1, TallyStep
<1>3. IInv /\ Tally => UsesWhatAddsUp
  <2> SUFFICES ASSUME IInv, Running, NEW f, NEW s, NEW w, Tallied(f, s, w)
               PROVE  /\ Len(frames) = f[Len(demo.programs) + 1] + Len(demo.wires)
                      /\ nextSlot = w[Len(demo.wires) + 1]
                      /\ vspaces = Len(demo.programs)
    BY DEF UsesWhatAddsUp
  <2>1. stage = "retype"
    BY DEF IInv, Handing, NeedsFrame, At, Running
  <2> QED
    BY <2>1 DEF Tallied, Used, Late, Running
<1> HIDE DEF Tally
<1> QED
  BY <1>1, <1>2, <1>3, EndowmentInvariance, PTL DEF Spec

(* The shares of a program of two megapages of image.                      *)
LEMMA SpecShares ==
  ASSUME NEW name, NEW arg0, NEW grants
  PROVE  LET spec == Program(name, arg0, CodeAndData, grants)
         IN  /\ FrameShare(spec) = 3 /\ SlotShare(spec) = 7
             /\ FrameShare(WithSelf(spec)) = 3 /\ SlotShare(WithSelf(spec)) = 7
             /\ FrameShare(WithHeap(spec)) = 4 /\ SlotShare(WithHeap(spec)) = 8
             /\ FrameShare(WithArena(WithHeap(spec), 3)) = 7
             /\ SlotShare(WithArena(WithHeap(spec), 3)) = 9
<1> DEFINE spec == Program(name, arg0, CodeAndData, grants)
           heaped == WithHeap(spec)
           arena == [megapages |-> 3, selfVSpace |-> 6, frameBase |-> 7]
           full == WithArena(heaped, 3)
<1>1. /\ spec = [name |-> name, image |-> CodeAndData, arg0 |-> arg0, grants |-> grants,
                 selfCNode |-> {}, heap |-> 0, arena |-> {}]
      /\ WithSelf(spec) = [spec EXCEPT !.selfCNode = {0}]
      /\ heaped = [spec EXCEPT !.heap = 1]
      /\ full = [heaped EXCEPT !.arena = {arena}]
  BY SMT DEF Program, WithSelf, WithHeap, WithArena
<1>2. Len(CodeAndData) = 2 /\ Cardinality({}) = 0 /\ Cardinality({arena}) = 1
  BY CodeIs, FS_EmptySet, FS_Singleton
<1>3. arena.megapages = 3 /\ (CHOOSE x \in {arena} : TRUE) = arena
  BY SMT
<1> HIDE DEF spec, heaped, arena, full
<1>4. /\ spec.image = CodeAndData /\ spec.heap = 0 /\ spec.arena = {}
      /\ WithSelf(spec).image = CodeAndData /\ WithSelf(spec).heap = 0
      /\ WithSelf(spec).arena = {}
      /\ heaped.image = CodeAndData /\ heaped.heap = 1 /\ heaped.arena = {}
  BY <1>1, SMT
<1>5. heaped = [name |-> name, image |-> CodeAndData, arg0 |-> arg0, grants |-> grants,
                selfCNode |-> {}, heap |-> 1, arena |-> {}]
  BY <1>1, SMT
<1>6. full.image = CodeAndData /\ full.heap = 1 /\ full.arena = {arena}
  BY <1>1, <1>5, SMT
<1>7. ASSUME NEW x, x.arena = {}
      PROVE  ArenaMegapages(x) = 0
  BY <1>7 DEF ArenaMegapages
<1>8. ArenaMegapages(full) = 3
  BY <1>3, <1>6 DEF ArenaMegapages
<1>9. ASSUME NEW x, NEW h \in Nat, NEW c \in Nat, NEW a \in Nat, Len(x.image) = 2,
             x.heap = h, Cardinality(x.arena) = c, ArenaMegapages(x) = a
      PROVE  FrameShare(x) = 3 + h + a /\ SlotShare(x) = 7 + h + c
  BY <1>9 DEF FrameShare, SlotShare
<1>10. Len(spec.image) = 2 /\ Len(WithSelf(spec).image) = 2 /\ Len(heaped.image) = 2
       /\ Len(full.image) = 2
  BY <1>2, <1>4, <1>6, Zenon
<1>11. /\ Cardinality(spec.arena) = 0 /\ Cardinality(WithSelf(spec).arena) = 0
       /\ Cardinality(heaped.arena) = 0 /\ Cardinality(full.arena) = 1
  BY <1>2, <1>4, <1>6, Zenon
<1>12. /\ ArenaMegapages(spec) = 0 /\ ArenaMegapages(WithSelf(spec)) = 0
       /\ ArenaMegapages(heaped) = 0
  BY <1>4, <1>7
<1>13. FrameShare(spec) = 3 /\ SlotShare(spec) = 7
  <2>1. spec.heap = 0 /\ 0 \in Nat /\ 0 \in Nat
    BY <1>4
  <2>2. FrameShare(spec) = 3 + 0 + 0 /\ SlotShare(spec) = 7 + 0 + 0
    BY <2>1, <1>9, <1>10, <1>11, <1>12, Zenon
  <2> QED
    BY <2>2
<1>14. FrameShare(WithSelf(spec)) = 3 /\ SlotShare(WithSelf(spec)) = 7
  <2>1. WithSelf(spec).heap = 0 /\ 0 \in Nat /\ 0 \in Nat
    BY <1>4
  <2>2. FrameShare(WithSelf(spec)) = 3 + 0 + 0 /\ SlotShare(WithSelf(spec)) = 7 + 0 + 0
    BY <2>1, <1>9, <1>10, <1>11, <1>12, Zenon
  <2> QED
    BY <2>2
<1>15. FrameShare(heaped) = 4 /\ SlotShare(heaped) = 8
  <2>1. heaped.heap = 1 /\ 0 \in Nat /\ 1 \in Nat
    BY <1>4
  <2>2. FrameShare(heaped) = 3 + 1 + 0 /\ SlotShare(heaped) = 7 + 1 + 0
    BY <2>1, <1>9, <1>10, <1>11, <1>12, Zenon
  <2> QED
    BY <2>2
<1>16. FrameShare(full) = 7 /\ SlotShare(full) = 9
  BY <1>6, <1>8, <1>9, <1>10, <1>11
<1> QED
  BY <1>13, <1>14, <1>15, <1>16 DEF spec, heaped, full

LEMMA WireSlots ==
  /\ \A p : SlotsOfWire(PolicyFlash(p)) = 2
  /\ \A p, q : SlotsOfWire(Package(p, q)) = 0
  /\ \A p, a, q, b : SlotsOfWire(Shared(p, a, q, b)) = 1
  BY SMT DEF SlotsOfWire, PolicyFlash, Package, Shared

(* The running totals of the two largest images.                           *)
LEMMA RuntimeAddsUp ==
  AddsUp(RuntimeDemo, <<0, 3, 7, 14, 17, 20>>, <<14, 21, 29, 38, 45, 52>>, <<52, 54, 54, 55>>)
<1> DEFINE d == RuntimeDemo
           f == <<0, 3, 7, 14, 17, 20>>
           s == <<14, 21, 29, 38, 45, 52>>
           w == <<52, 54, 54, 55>>
<1>1. Len(d.root) = 12 /\ Len(d.programs) = 5 /\ DOMAIN d.programs = 1..5 /\ DOMAIN d.wires = 1..3
  BY SMT DEF RuntimeDemo
<1>2. /\ FrameShare(d.programs[1]) = 3 /\ SlotShare(d.programs[1]) = 7
      /\ FrameShare(d.programs[2]) = 4 /\ SlotShare(d.programs[2]) = 8
      /\ FrameShare(d.programs[3]) = 7 /\ SlotShare(d.programs[3]) = 9
      /\ FrameShare(d.programs[4]) = 3 /\ SlotShare(d.programs[4]) = 7
      /\ FrameShare(d.programs[5]) = 3 /\ SlotShare(d.programs[5]) = 7
  <2>1. /\ \E n, x, g : d.programs[1] = WithSelf(Program(n, x, CodeAndData, g))
        /\ \E n, x, g : d.programs[2] = WithHeap(Program(n, x, CodeAndData, g))
        /\ \E n, x, g : d.programs[3] = WithArena(WithHeap(Program(n, x, CodeAndData, g)), 3)
        /\ \E n, x, g : d.programs[4] = Program(n, x, CodeAndData, g)
        /\ \E n, x, g : d.programs[5] = Program(n, x, CodeAndData, g)
    BY SMT DEF RuntimeDemo, Binder, Runtime, GrantControl, PolicyStore
  <2> HIDE DEF d
  <2> QED
    BY <2>1, SpecShares
<1>3. /\ SlotsOfWire(d.wires[1]) = 2 /\ SlotsOfWire(d.wires[2]) = 0
      /\ SlotsOfWire(d.wires[3]) = 1
  <2>1. /\ \E p : d.wires[1] = PolicyFlash(p)
        /\ \E p, q : d.wires[2] = Package(p, q)
        /\ \E p, a, q, b : d.wires[3] = Shared(p, a, q, b)
    BY SMT DEF RuntimeDemo
  <2> QED
    BY <2>1, WireSlots
<1> HIDE DEF d
<1>4. /\ f[1] = 0 /\ f[2] = 3 /\ f[3] = 7 /\ f[4] = 14 /\ f[5] = 17 /\ f[6] = 20
      /\ s[1] = 14 /\ s[2] = 21 /\ s[3] = 29 /\ s[4] = 38 /\ s[5] = 45 /\ s[6] = 52
      /\ w[1] = 52 /\ w[2] = 54 /\ w[3] = 54 /\ w[4] = 55
  OBVIOUS
<1> HIDE DEF f, s, w
<1>5. \A p \in DOMAIN d.programs :
        /\ f[p] \in Nat /\ f[p + 1] = f[p] + FrameShare(d.programs[p])
        /\ s[p] \in Nat /\ s[p + 1] = s[p] + SlotShare(d.programs[p])
  BY <1>1, <1>2, <1>4
<1>6. \A k \in DOMAIN d.wires : w[k] \in Nat /\ w[k + 1] = w[k] + SlotsOfWire(d.wires[k])
  BY <1>1, <1>3, <1>4
<1>7. AddsUp(d, f, s, w)
  BY <1>1, <1>4, <1>5, <1>6 DEF AddsUp
<1> QED
  BY <1>7 DEF d, f, s, w

LEMMA RuntimeFsAddsUp ==
  AddsUp(RuntimeFsDemo, <<0, 3, 6, 10, 17, 20, 23>>, <<15, 22, 29, 37, 46, 53, 60>>,
         <<60, 62, 62, 63, 64>>)
<1> DEFINE d == RuntimeFsDemo
           f == <<0, 3, 6, 10, 17, 20, 23>>
           s == <<15, 22, 29, 37, 46, 53, 60>>
           w == <<60, 62, 62, 63, 64>>
<1>1. /\ Len(d.root) = 13 /\ Len(d.programs) = 6 /\ DOMAIN d.programs = 1..6
      /\ DOMAIN d.wires = 1..4
  BY SMT DEF RuntimeFsDemo
<1>2. /\ FrameShare(d.programs[1]) = 3 /\ SlotShare(d.programs[1]) = 7
      /\ FrameShare(d.programs[2]) = 3 /\ SlotShare(d.programs[2]) = 7
      /\ FrameShare(d.programs[3]) = 4 /\ SlotShare(d.programs[3]) = 8
      /\ FrameShare(d.programs[4]) = 7 /\ SlotShare(d.programs[4]) = 9
      /\ FrameShare(d.programs[5]) = 3 /\ SlotShare(d.programs[5]) = 7
      /\ FrameShare(d.programs[6]) = 3 /\ SlotShare(d.programs[6]) = 7
  <2>1. /\ \E n, x, g : d.programs[1] = WithSelf(Program(n, x, CodeAndData, g))
        /\ \E n, x, g : d.programs[2] = WithSelf(Program(n, x, CodeAndData, g))
        /\ \E n, x, g : d.programs[3] = WithHeap(Program(n, x, CodeAndData, g))
        /\ \E n, x, g : d.programs[4] = WithArena(WithHeap(Program(n, x, CodeAndData, g)), 3)
        /\ \E n, x, g : d.programs[5] = Program(n, x, CodeAndData, g)
        /\ \E n, x, g : d.programs[6] = Program(n, x, CodeAndData, g)
    BY SMT DEF RuntimeFsDemo, Binder, Runtime, GrantControl, PolicyStore
  <2> HIDE DEF d
  <2> QED
    BY <2>1, SpecShares
<1>3. /\ SlotsOfWire(d.wires[1]) = 2 /\ SlotsOfWire(d.wires[2]) = 0
      /\ SlotsOfWire(d.wires[3]) = 1 /\ SlotsOfWire(d.wires[4]) = 1
  <2>1. /\ \E p : d.wires[1] = PolicyFlash(p)
        /\ \E p, q : d.wires[2] = Package(p, q)
        /\ \E p, a, q, b : d.wires[3] = Shared(p, a, q, b)
        /\ \E p, a, q, b : d.wires[4] = Shared(p, a, q, b)
    BY SMT DEF RuntimeFsDemo
  <2> QED
    BY <2>1, WireSlots
<1> HIDE DEF d
<1>4. /\ f[1] = 0 /\ f[2] = 3 /\ f[3] = 6 /\ f[4] = 10 /\ f[5] = 17 /\ f[6] = 20 /\ f[7] = 23
      /\ s[1] = 15 /\ s[2] = 22 /\ s[3] = 29 /\ s[4] = 37 /\ s[5] = 46 /\ s[6] = 53
      /\ s[7] = 60
      /\ w[1] = 60 /\ w[2] = 62 /\ w[3] = 62 /\ w[4] = 63 /\ w[5] = 64
  OBVIOUS
<1> HIDE DEF f, s, w
<1>5. \A p \in DOMAIN d.programs :
        /\ f[p] \in Nat /\ f[p + 1] = f[p] + FrameShare(d.programs[p])
        /\ s[p] \in Nat /\ s[p + 1] = s[p] + SlotShare(d.programs[p])
  BY <1>1, <1>2, <1>4
<1>6. \A k \in DOMAIN d.wires : w[k] \in Nat /\ w[k + 1] = w[k] + SlotsOfWire(d.wires[k])
  BY <1>1, <1>3, <1>4
<1>7. AddsUp(d, f, s, w)
  BY <1>1, <1>4, <1>5, <1>6 DEF AddsUp
<1> QED
  BY <1>7 DEF d, f, s, w

(* The two largest images use what the documentation says: runtime-fs 27   *)
(* frames, 7 CNodes (root's included), 6 VSpaces and root slots up to 64   *)
(* (STATUS.md), runtime 23 frames (runtime_demo/loader.rs).                *)
THEOREM DocumentedUseIsRight ==
  ASSUME Demos \subseteq ShippedDemos
  PROVE  Spec => []DocumentedUse
<1> DEFINE rf == <<0, 3, 7, 14, 17, 20>>
           rs == <<14, 21, 29, 38, 45, 52>>
           rw == <<52, 54, 54, 55>>
           ff == <<0, 3, 6, 10, 17, 20, 23>>
           fs == <<15, 22, 29, 37, 46, 53, 60>>
           fw == <<60, 62, 62, 63, 64>>
<1>1. /\ AddsUp(RuntimeDemo, rf, rs, rw) /\ AddsUp(RuntimeFsDemo, ff, fs, fw)
      /\ rf[6] = 20 /\ ff[7] = 23 /\ fw[5] = 64
  BY RuntimeAddsUp, RuntimeFsAddsUp
<1>2. /\ Len(RuntimeDemo.programs) = 5 /\ Len(RuntimeDemo.wires) = 3
      /\ Len(RuntimeFsDemo.programs) = 6 /\ Len(RuntimeFsDemo.wires) = 4
  BY SMT DEF RuntimeDemo, RuntimeFsDemo
<1> HIDE DEF rf, rs, rw, ff, fs, fw
<1>3. \A d \in ShippedDemos : /\ d.name = "runtime" => d = RuntimeDemo
                              /\ d.name = "runtime-fs" => d = RuntimeFsDemo
  BY HelloIs, BrokerIs, FrameIs, KeystoreIs, StoreIs, WasmProbeIs, RuntimeIs, RuntimeFsIs
     DEF ShippedDemos
<1>4. /\ Running => Entered /\ demo \in ShippedDemos
      /\ UsesWhatAddsUp
      => DocumentedUse
  <2> SUFFICES ASSUME Running, Entered, demo \in ShippedDemos, UsesWhatAddsUp
               PROVE  DocumentedUse
    BY DEF DocumentedUse
  <2>1. demo.name = "runtime" => Len(frames) = 23
    <3> SUFFICES ASSUME demo.name = "runtime"
                 PROVE  Len(frames) = 23
      OBVIOUS
    <3>1. demo = RuntimeDemo
      BY <1>3
    <3>2. Len(frames) = rf[Len(demo.programs) + 1] + Len(demo.wires)
      BY <1>1, <3>1 DEF UsesWhatAddsUp
    <3> QED
      BY <1>1, <1>2, <3>1, <3>2
  <2>2. demo.name = "runtime-fs" =>
          Len(frames) = 27 /\ Len(spaces) + 1 = 7 /\ vspaces = 6 /\ nextSlot = 64
    <3> SUFFICES ASSUME demo.name = "runtime-fs"
                 PROVE  Len(frames) = 27 /\ Len(spaces) + 1 = 7 /\ vspaces = 6 /\ nextSlot = 64
      OBVIOUS
    <3>1. demo = RuntimeFsDemo
      BY <1>3
    <3>2. /\ Len(frames) = ff[Len(demo.programs) + 1] + Len(demo.wires)
          /\ nextSlot = fw[Len(demo.wires) + 1]
          /\ vspaces = Len(demo.programs)
      BY <1>1, <3>1 DEF UsesWhatAddsUp
    <3>3. Len(spaces) = Len(demo.programs)
      BY DEF Entered, InPlace, Late, Running
    <3> QED
      BY <1>1, <1>2, <3>1, <3>2, <3>3
  <2> QED
    BY <2>1, <2>2 DEF DocumentedUse
<1> QED
  BY <1>4, LaunchesAddUp, EntersAsDeclared, PTL

=============================================================================
