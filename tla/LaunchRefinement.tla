-------------------------- MODULE LaunchRefinement --------------------------
(***************************************************************************)
(* Launch implements AbstractLaunch: what each program can name is its own *)
(* CSpace, what it can reach is what is mapped in its own VSpace.          *)
(***************************************************************************)
EXTENDS Launch

CapsOf(p) ==
  {[slot |-> s, kind |-> spaces[tcbs[p].cspace][s].kind,
    obj |-> IF spaces[tcbs[p].cspace][s].kind = "Frame" THEN 0
            ELSE spaces[tcbs[p].cspace][s].obj,
    rights |-> spaces[tcbs[p].cspace][s].rights,
    badge |-> spaces[tcbs[p].cspace][s].badge] :
   s \in {x \in Slots : spaces[tcbs[p].cspace][x] # Empty}}

MemoryOf(p) ==
  UNION {{[vaddr |-> m.vaddr, pages |-> frames[f].pages, perms |-> m.perms,
           content |-> frames[f].content] :
          m \in {x \in frames[f].maps : x.vspace = tcbs[p].vspace}} :
         f \in DOMAIN frames}

Views ==
  [p \in DOMAIN tcbs |->
     [caps |-> CapsOf(p), memory |-> MemoryOf(p), arg0 |-> tcbs[p].arg0]]

(* How many wires are in place; a launch that panics in the midst of one   *)
(* has those before it.                                                    *)
Wired ==
  CASE pc = "wire" -> i - 1
    [] pc \in {"ready", "enter", "running"} -> Len(demo.wires)
    [] pc = "panicked" /\ Len(tcbs) = Len(demo.programs) -> i - 1
    [] OTHER -> 0

Phase ==
  CASE pc = "running" -> "running" [] pc = "panicked" -> "failed" [] OTHER -> "launching"

Runnable == Range(ready) \cup ({running} \ {0})

Abstract == INSTANCE AbstractLaunch WITH
  views <- Views, wired <- Wired, phase <- Phase, runnable <- Runnable

(* Every program gets exactly the authority its ProgramSpec declares, all  *)
(* of it before its thread exists, and afterwards only the declared wires  *)
(* add to it, each in all its places at once.                              *)
ImplementsPromise == Abstract!Spec

=============================================================================
