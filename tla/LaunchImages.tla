----------------------------- MODULE LaunchImages -----------------------------
(***************************************************************************)
(* What must be true of the eight shipped images in particular: that they  *)
(* fit the kernel's limits, that the slots and addresses their loaders     *)
(* chose by hand agree with each other, and who ends up able to grant,     *)
(* revoke and forge.                                                       *)
(***************************************************************************)
EXTENDS LaunchRefinement, LaunchDemos

Running == pc = "running"
Held(p) == spaces[tcbs[p].cspace]

(* Every shipped image enters its first thread: 64 MiB of RAM and the      *)
(* kernel's fixed pools are enough for every retype, copy and mapping, so  *)
(* no .expect() fails and no step waits for another.                       *)
EntersUserMode == <>Running

(* The figures the documentation gives for the two largest images          *)
(* (STATUS.md: 27 of 28 Frames, 7 of 7 CNodes, 6 of 6 VSpaces, 64 of 72    *)
(* root slots; runtime_demo/loader.rs: 23 Frames).                         *)
DocumentedUse ==
  Running =>
    /\ demo.name = "runtime-fs" =>
         /\ Len(frames) = 27 /\ Len(spaces) + 1 = 7 /\ vspaces = 6
         /\ nextSlot = 64
    /\ demo.name = "runtime" => Len(frames) = 23

(* A program maps its arena frames itself, anywhere in the sixteen         *)
(* megapages from ARENA_VADDR on: nothing the launcher mapped is there, so *)
(* no such mapping can be refused.                                         *)
ArenaWindowFree ==
  Running =>
    \A p \in DOMAIN tcbs :
      demo.programs[p].arena # {} =>
        \A r \in MemoryOf(p) : Apart(ARENA_VADDR, 16 * Mega, r.vaddr, r.pages)

(* The trap handlers print SUCCESS or FAILURE from the slot number alone,  *)
(* whichever program signals.  At a narrated slot no program holds another *)
(* notification than the one the narration means, the first thread's.      *)
Narrated(d) ==
  CASE d.name = "frame"      -> {2, 3}
    [] d.name = "wasm-probe" -> {4, 5}
    [] d.name \in {"keystore", "store", "runtime", "runtime-fs"} -> {3, 4}
    [] OTHER -> {}
NarrationUnambiguous ==
  Running =>
    /\ \A p \in DOMAIN tcbs, s \in Narrated(demo) :
         Held(p)[s].kind = "Notification" => Held(p)[s].obj = Held(demo.first)[s].obj
    /\ \A s \in Narrated(demo) : Held(demo.first)[s].kind = "Notification"
    /\ \A s, t \in Narrated(demo) : s # t => Held(demo.first)[s] # Held(demo.first)[t]

(* An endpoint whose service trusts a badge (GRANTER_BADGE for grants,     *)
(* CONTROL_BADGE for revocation): one program holds that badge, one serves *)
(* the endpoint, and nobody but the server could mint the badge, which     *)
(* takes a capability to a CNode.  The runtime holds neither badge.        *)
Reaches(p, e) == {s \in Slots : Held(p)[s].kind = "Endpoint" /\ Held(p)[s].obj = e}
Trusted == {e \in DOMAIN demo.root :
              \E p \in DOMAIN tcbs : \E s \in Reaches(p, e) : Held(p)[s].badge = TOP_BADGE}
CanMint(p) == \E s \in Slots : Held(p)[s].kind = "CNode"
BadgesUnforgeable ==
  Running =>
    /\ demo.name \in {"runtime", "runtime-fs"} => Cardinality(Trusted) = 2
    /\ \A e \in Trusted :
         \E server, holder \in DOMAIN tcbs \ {demo.first} :
           /\ server # holder
           /\ \A p \in DOMAIN tcbs : \A s \in Reaches(p, e) :
                /\ Held(p)[s].badge = TOP_BADGE => p = holder
                /\ Held(p)[s].rights = "ALL" => p = server
                /\ p # server => ~CanMint(p)

(* A service launched without BINDER_LAUNCHED gives its grant to the first *)
(* message on its endpoint, whoever sends it: one other program can send   *)
(* one, the one it shares its data frame with.  A service told of a binder *)
(* has one to wait for.  Every keystore has a profile it knows.            *)
ServedSlot == [name \in {"broker-service", "keystore-service", "store-service"} |->
                 IF name = "store-service" THEN 3 ELSE 1]
Served(p) == Held(p)[ServedSlot[demo.programs[p].name]].obj
Callers(p) == {q \in DOMAIN tcbs \ {p} : Reaches(q, Served(p)) # {}}
SharesFrame(p, q) ==
  \E f \in DOMAIN frames :
    {tcbs[p].vspace, tcbs[q].vspace} \subseteq {m.vspace : m \in frames[f].maps}
WaitsForBinder(p) == (tcbs[p].arg0 \div BINDER_LAUNCHED) % 2 = 1
Profile(p) == tcbs[p].arg0 % BINDER_LAUNCHED
Granter(q, e) == \E s \in Reaches(q, e) : Held(q)[s].badge = GRANTER_BADGE
FirstCallerIsMeant ==
  Running =>
    \A p \in DOMAIN tcbs :
      LET name == demo.programs[p].name IN
      name \in DOMAIN ServedSlot =>
        /\ IF WaitsForBinder(p) THEN \E q \in Callers(p) : Granter(q, Served(p))
           ELSE /\ Cardinality(Callers(p)) = 1
                /\ name # "broker-service" => \A q \in Callers(p) : SharesFrame(p, q)
        /\ name = "keystore-service" => Profile(p) \in {PROFILE_AEAD, PROFILE_SIGNING}

=============================================================================
