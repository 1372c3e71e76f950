--------------------------- MODULE AbstractLaunch ---------------------------
(***************************************************************************)
(* What the launcher promises, without root's CSpace, Untyped memory or    *)
(* kernel objects: programs come into being one at a time, in order, each  *)
(* at once with exactly the authority its ProgramSpec declares; then the   *)
(* declared frames appear, each in all its places at once; then the first  *)
(* thread runs, with every other one queued.  Nothing else ever changes    *)
(* what a program can name or reach.  A launch may fail until it is done.  *)
(***************************************************************************)
EXTENDS Platform, Sequences, FiniteSets, Functions

CONSTANT Demos
VARIABLES demo,    \* the launch description, as in Launch
          views,   \* per program created: [caps, memory, arg0]
          wired,   \* how many of demo.wires are in place
          phase,   \* "launching", "running" or "failed"
          runnable \* the threads that are queued or running

vars == <<demo, views, wired, phase, runnable>>

Held(slot, kind, obj, rights, badge) ==
  [slot |-> slot, kind |-> kind, obj |-> obj, rights |-> rights, badge |-> badge]
Region(vaddr, pages, perms, content) ==
  [vaddr |-> vaddr, pages |-> pages, perms |-> perms, content |-> content]

(* The object a root position names: a minted one names its source's.      *)
Named(d, k) == IF d.root[k].op = "Mint" THEN d.root[k].src ELSE k
Granted(d, g) ==
  Held(g.to, d.root[Named(d, g.from)].op, Named(d, g.from), d.root[g.from].rights,
       d.root[g.from].badge)

(* The capabilities of program p: its grants, itself, and its arena; the   *)
(* arena's frames are its own, so which ones they are does not matter.     *)
Authority(d, p) ==
  LET spec == d.programs[p]
  IN  {Granted(d, spec.grants[k]) : k \in DOMAIN spec.grants}
      \cup {Held(s, "CNode", p, "ALL", 0) : s \in spec.selfCNode}
      \cup {Held(a.selfVSpace, "VSpace", p, "ALL", 0) : a \in spec.arena}
      \cup UNION {{Held(s, "Frame", 0, "ALL", 0) :
                     s \in a.frameBase..(a.frameBase + a.megapages - 1)} :
                   a \in spec.arena}

(* Its own memory: image, one megapage of stack, heap.                     *)
Private(d, p) ==
  LET spec == d.programs[p]
  IN  {Region(spec.image[k].vaddr, Mega, spec.image[k].perms, <<"zero", "image">>) :
         k \in DOMAIN spec.image}
      \cup {Region(STACK_VADDR, Mega, {"R", "W"}, <<"zero">>)}
      \cup {Region(HEAP_VADDR + k * Mega, Mega, {"R", "W"}, <<"zero">>) :
              k \in 0..(spec.heap - 1)}

(* What wire w puts into program p's memory.                               *)
WiredInto(w, p) ==
  {CASE w.op = "Shared"  -> Region(w.to[k].vaddr, Small, {"R", "W"}, <<"zero">>)
     [] w.op = "Package" -> Region(w.to[k].vaddr, Mega, {"R"}, <<"zero", "package">>)
     [] w.op = "Device"  -> Region(w.to[k].vaddr, Mega, {"R", "W"}, <<>>) :
   k \in {j \in DOMAIN w.to : w.to[j].prog = p}}

Init ==
  /\ demo \in Demos
  /\ views = <<>> /\ wired = 0 /\ phase = "launching" /\ runnable = {}

Install ==
  /\ phase = "launching" /\ Len(views) < Len(demo.programs)
  /\ LET p == Len(views) + 1
     IN  /\ views' = Append(views, [caps |-> Authority(demo, p),
                                    memory |-> Private(demo, p),
                                    arg0 |-> demo.programs[p].arg0])
         /\ runnable' = runnable \cup {p}
  /\ UNCHANGED <<demo, wired, phase>>

Connect ==
  /\ phase = "launching" /\ Len(views) = Len(demo.programs)
  /\ wired < Len(demo.wires) /\ wired' = wired + 1
  /\ views' = [p \in DOMAIN views |->
                 [views[p] EXCEPT !.memory = @ \cup WiredInto(demo.wires[wired + 1], p)]]
  /\ UNCHANGED <<demo, phase, runnable>>

Start ==
  /\ phase = "launching" /\ Len(views) = Len(demo.programs)
  /\ wired = Len(demo.wires)
  /\ phase' = "running"
  /\ UNCHANGED <<demo, views, wired, runnable>>

Fail ==
  /\ phase = "launching" /\ phase' = "failed"
  /\ UNCHANGED <<demo, views, wired, runnable>>

Next == Install \/ Connect \/ Start \/ Fail

Spec == Init /\ [][Next]_vars /\ WF_vars(Next)

=============================================================================
