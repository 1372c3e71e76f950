# lantern-boot, verified

TLA+ models, TLC runs and TLAPS proofs for lantern-boot, the riscv64 loader of
LanternOS: 4,900 lines of Rust that take the machine from OpenSBI to a set of
confined user programs. The kernel calls it makes (`lantern-kernel`), the page
tables (`lantern-hal`) and the service libraries (`lantern-abi`,
`lantern-capabilities`, `lantern-crypto`, `lantern-filesystem`) are other
repositories; where the code here depends on what they do, that is modelled
from how it uses them and marked external in `PROJECT.json`.

## 1. Inventory

| Component | State it keeps | Operations | What makes it correct |
|---|---|---|---|
| launcher, `src/src/launch.rs` | `next_slot`; through the kernel: root's CSpace, the root `Untyped`, Frames, VSpaces, CNodes, TCBs | `retype`, `retype_frame`, `mint`, `copy_cross`, `delete`, `map`, `load`, `load_all`, `map_shared_frame`, `map_package`, `map_device_frame` | every program gets exactly what its `ProgramSpec` says; memory is apart, cleared, shared only where declared; a launch fails only when it must, and then before anything runs |
| eight loaders, `src/src/loader.rs`, `src/src/*_demo/loader.rs` | the launch description: root objects, specs, wiring | `run(mem_end)` | slots and addresses chosen by hand agree; the image fits the kernel's pools; authority is narrow |
| ELF reader, `src/src/elf.rs` | none | `parse_header`, `program_header` | rejects what it cannot load; never reads outside the file |
| device tree reader, `src/src/fdt.rs` | walk position, depth, cell counts | `ram_region` | finds the RAM region or nothing; ends; stays inside the blob |
| trap handlers, `src/src/main.rs`, `src/src/*_demo/main.rs` | `BENCH` (counters, flag) | `boot_trap_handler` and seven narrators | success is printed for the signal that means it; the benchmark ends although one call may be lost |
| keystore-service, store-service | keys or files, badges, a scratch slot, one frame per channel | first grant, `GRANT`, `REVOKE`, data requests, busy replies | a badge works between its grant and its revocation, and never for a forged request; the scratch slot is free for the next grant |
| clients, broker and frame demo, hello-service | program counter, one request | call, recv, reply, signal | the proof they signal is one; no deadlock |
| launch-binder, grant-control, policy-store, confined-runtime, wasm-probe | not in this repository (ELF files in `assets`) | | only their authority and memory are fixed here |
| entry, console, scripts | none that matters | | |

**How they interact.** `boot_main` reads the device tree, installs a trap
handler and calls one loader's `run(mem_end)`. The loader makes itself root (a
CNode, an Untyped over general memory), creates the endpoints and
notifications, and hands `ProgramSpec`s to `launch::load_all`. Everything the
launcher does is a call of a kernel function; a refused call fails an
`.expect()`, which panics, prints and spins for ever. `enter_first_thread`
never returns: from then on only the programs run, and talk over endpoints
(Call, Recv, Reply, with a capability in the reply), notifications, and frames
two of them see. The loaders' constants are repeated by hand in the programs.

**What is hard here.** Not concurrency in the launcher (one hart, no
interrupts, nothing else has been entered) but long sequences: some 200 kernel
calls on shared, nearly exhausted tables, in an order each loader chooses, with
slots that are taken, borrowed and given back; memory whose safety rests on a
write six paths must each remember; and figures chosen by hand in several files
that must agree. After the launch: programs interleaving on one endpoint,
revocation between two chunks of one request, replies that fail half way,
nested calls, and a kernel that is known to lose a Call.
`PROJECT.json`, "hazards", lists each at its line.

## 2. Plan

Modules are written so that they can be proved about: limits are CONSTANTS with
named assumptions, one action per operation, no RECURSIVE operators.

| Step | Module | Composes | State |
|---|---|---|---|
| 1 | `Platform`, `Launch`, `LaunchDemos`: the launcher and all eight images | `Launch` on `Platform` | done |
| 2 | `AbstractLaunch`, `LaunchRefinement`: what a launch promises, and that it is kept | `Launch` under a refinement mapping | done |
| 3 | `LaunchImages`, `LaunchDemand`: properties of the shipped images; when a launch may fail | | done |
| 4 | `LaunchProofs`: the inductive invariant and three safety theorems | `Launch` | done |
| 5 | `LoadImage` with `Elf`: passes 1 to 3 of `load` against the image the segments define, with addresses of bounded width and a bounded table | `Elf`, `Platform` | done |
| 6 | `GrantService`: both services' receive loops, grants, revocations, chunked requests, the store's nested calls, and their callers | one module for both services, composed through `Upstream` | done |
| 7 | `AbstractService`, `GrantRefinement`: what the services promise their callers, and that it is kept | `GrantService` under a refinement mapping | done |
| 8 | `DirectSwitch`: the kernel's switching between threads, as the trap handlers describe it | | done |
| 9 | `Narration`: the four demos whose programs are all here, from the first system call to the verdict, and what the handlers print | on `DirectSwitch` | done |
| 10 | `IpcBench`: hello-service, the handler's counters, lost calls, a counter that wraps | on `DirectSwitch` | done |
| 11 | `Fdt`: the token walk against a reference tree, and the memory the launcher is given | `Platform` | done |
| 12 | `LoadProofs`, `FdtProofs`: the copy of pass 3 stays in its frame, the device tree reader in its block | `LoadImage`; `Fdt` | done |
| 13 | the second part of `LaunchProofs`: cleared memory, custody of frames, declared sharing | `Launch` | done |
| 14 | `GrantProofs`: the services' safety, and that they implement `AbstractService` | `GrantService`; `GrantRefinement` | done |
| 15 | the second part of `LoadProofs`: `load` makes of every file what its segments define | `LoadImage` | done |
| 16 | `LaunchRefinementProofs`: `Launch` implements `AbstractLaunch` (safety part) | `LaunchProofs`, `LaunchRefinement` | done |
| 17 | `IpcBenchProofs`: the summary and the margin, for every number of trips and losses | `IpcBench` | done |
| 18 | `NarrationProofs`: the verdict and what is printed, for every number of refusals | `Narration` | done |
| 19 | `LaunchImagesProofs`: what each program has when the first thread runs, and what the launch used; the properties of the shipped images | `LaunchRefinementProofs`, `LaunchImages` | done |

## 3. The launcher

### State and actions

`Launch` takes the launch description as data, as `ProgramSpec` does. A
description (`Descriptions`, `IsDescription`) lists the root objects, the
programs with their images, grants and arenas, what is wired up afterwards, who
is made ready and who runs first. `DemosAssumption` says of it only what Rust's
name binding, the loaders' calls of `mint` and the fixed device addresses
guarantee.

| Variable | Code |
|---|---|
| `demo`, `memEnd` | which loader was linked in; `run`'s `mem_end` after its clamp |
| `pc`, `prog`, `i`, `stage` | where `run`, `load_all` and `load` are: the phase, the program, the iteration of the phase's loop, and how far one frame has come (retyped, cleared, handed over) |
| `nextSlot`, `handles`, `loc` | `next_slot`, the `*_root_cptr` variables, and `load`'s `*_cptr` variables |
| `root`, `budget`, `watermark` | root's CNode and the root Untyped |
| `frames`, `vspaces`, `spaces`, `tcbs` | Frame, VSpace, CNode and TCB objects, by number; a frame carries its mappings and what was written to it |
| `ready`, `running` | the scheduler |

Phases follow `load`'s own order: VSpace, image frames (pass 2), file bytes
(pass 3), stack, heap, CNode, grants, own CNode, arena, SchedContext and TCB;
then the wires; then `make_ready` and `enter_first_thread`. Each loop body is
one action, but a frame takes three, because what is between `retype` and
`write_bytes` is what matters. `Panic` is enabled exactly when one of the
kernel calls of the current step would be refused.

Abstracted: addresses are page numbers; a program's image is the list of
megapages pass 1 finds (the list each linker script produces); file contents,
entry point and stack pointer are left out; permissions lose the U bit
every mapping of the launcher has; `map_kernel_shared`'s three megapages are
occupied in every VSpace. The pools the launcher cannot exhaust before another
one (Untypeds, TCBs, page-table arena, and `map_package`'s length assertion)
have no limit in the model. Capability rights are ALL or WRITE and matter for
endpoints only.

`AbstractLaunch` is what the launcher promises: each program appears at once
with exactly its declared authority (`Authority`), memory (`Private`) and `arg0`, wires
add exactly what they declare (`WiredInto`), and then the first thread runs.
`LaunchRefinement` reads a program's authority off its own CSpace and its own
VSpace, never off root's.

### Runs

| Run | Instance | What it shows |
|---|---|---|
| `shipped_images` | the eight descriptions, the kernel's limits (28 frames, 7 CNodes, 6 VSpaces, 72 slots, 2 mappings a frame, 1000 retypes), RAM ending at 64, 128 and 512 MiB and at an odd page; 2,307 states | every image reaches user mode, with the figures the documentation quotes, an arena window with nothing in it, unambiguous narration, badges nobody else can use or mint, and services told of a binder only when there is one (`FirstCallerIsMeant`: without one, the only program that can call first is the one that shares the service's frame); each implements `AbstractLaunch` |
| `every_small_launch` | every ordered pair of nine program shapes (plain, own CNode, heap, arenas of one and two frames, an arena that collides with a grant, a slot granted twice, image on the stack) under seven wirings, two ready lists, two sizes of RAM, and three descriptions that exhaust one pool each; 91,120 states | memory disjoint, cleared, shared only as declared; custody of frames; sound queue; a launch panics exactly when it must (`PanicsOnlyWhenItMust` against the closed form in `LaunchDemand`); each implements `AbstractLaunch`, which includes that each ends |

The small machine has nine frames, 22 slots, three CNodes and VSpaces and 18
retypes: between them the shapes hit each limit, from both sides. Two programs
are enough for every relation between programs the properties state (shared or
not, same slot or not); three appear in the shipped images, which have up to
six. Each state has one successor, since the launcher is deterministic once the
description and RAM are chosen: the state count is the length of the launches,
not of an interleaving. `CHECK_DEADLOCK FALSE`, since a launch ends.

**Fairness** is `WF_vars(Next)`: straight-line code on a hart on which nothing
else runs goes on. It is used by `EntersUserMode` and by the
liveness half of `ImplementsPromise`. Every module states this one condition and
no other: the hart runs something when it can.

### Proofs

`LaunchProofs` proves, for every launch description and every value of the
limits that satisfy `DemosAssumption` and `LimitsAssumption`:

- `TypeCorrect`: `Spec => []TypeOK`,
- `FramesAreDisjoint`: `Spec => []MemoryDisjoint`,
- `QueueIsSound`: `Spec => []RunQueueSound`.

`TypeOK` alone is not inductive: that `handles[k]` exists when a grant names
it, that `tcbs[p]` exists when a wire names program p, and that root's
capability names a frame while one is handed over, need to know how far the
loops have come. `IInv` adds three parts. `Counting`: one handle per root
object behind, one thread per program behind, nothing running before the end.
`Handing`: between retype and hand-over no loop moves, and root's capability at
`loc.frame` is for the newest frame. `Memory`: a frame lies between the bottom
of the Untyped and its watermark or is the device of a wire already in place,
and frames are apart; the watermark is what makes it inductive, since a new
frame starts at or above it. There is one lemma per action for the first two
parts (`...Shape`), and for `Memory` one lemma for each step that makes a frame
and one for all others. `QueueIsSound` needs nothing beyond `IInv`: the queue
grows by thread `Len(tcbs) + 1`, which is not in it yet.

The second part of `LaunchProofs` goes on from there with what is in the frames
and who can name them, under the same assumptions:

- `VisibleIsCleared`: `Spec => []VisibleMemoryIsCleared`,
- `CustodyHolds`: `Spec => []FrameCustody`,
- `SharingHolds`: `Spec => []SharingIsDeclared`.

They rest on one more invariant, `FInv`, inductive relative to `IInv`. What a
step clears, maps or hands over is named by a slot number in a variable, so
`Slotting` says what these slots name: `loc.vspace` the newest VSpace, each
thread's `vspaceCptr` its own; that slots from `nextSlot` on are empty; and that
of a frame being handed over there is one capability and no other. `Contents`
gives the content of each frame by how far it has come, and says that the VSpace
about to be filled maps nothing but zeroes: without that `FillImage` could write
a second time. `Custody` is `FrameCustody` with the frame being handed over left
out (`Settled`), and with its cardinalities replaced by the one slot there is.
`Declared` gives for a frame in two VSpaces the wire that put it there.
`DemosAssumption` gained one conjunct with these proofs: a wire leads somewhere
(`map_shared_frame` takes two VSpaces and `map_package` is only called with
two). A frame retyped and mapped nowhere would stay root's, and `FrameCustody`
would be false of it.

`LaunchRefinementProofs` proves `LaunchIsAsPromised`, that `Launch` implements
`AbstractLaunch` but for its fairness, for every description:
`Spec => Abstract!Init /\ [][Abstract!Next]_(Abstract!vars)`. `Install` is the
step that creates the thread, `Connect` the one that maps a wire's frame at all
its places, `Start` is `EnterFirstThread`, `Fail` is `Panic`; all else stutters.
A stutter is what needs proof, since `Launch` shares one table of frames and one
of CSpaces among all programs: no step of a program's load may touch a program
that has its thread (`ViewsStay`). So does `Install`, where dozens of kernel calls have to
add up to exactly what was declared. `RInv` says what they have added up to so far. `Endowed`: the CSpace of the
program at hand holds what its `ProgramSpec` declares up to the current round of
the current loop, and nothing more (`AuthorityUpTo`, with the rounds behind in
`GrantsBehind`, `SelfBehind`, `ArenaBehind`, `FramesBehind`); `Furnished`: its
VSpace maps what is declared up to there, each region with its size, permissions
and content (`MemoryUpTo`). They rest on `Bounded`, no loop overshoots;
`Numbered`, program p has VSpace p and CSpace p; `Handled`, root's capability of
a root object has the kind, rights and badge declared; and `Sized`, a frame being
handed over has the size its place asks for. `SeenByOne` is where sharing comes
in: pass 3 writes every frame the new VSpace maps, and by `Declared` no other
program sees one of these yet. `IsDescription` gained one conjunct here: what
`run` mints from was retyped, never itself minted, as in all eight loaders;
`AbstractLaunch` names a minted capability's object by its source, and a chain
of mints would have none.

`LaunchImagesProofs` draws the consequences. `EveryoneHasTheirShare`: for every
description, once the first thread runs, each program's capabilities, memory and
argument are all of what the description declares for it, and nothing else. It
is an invariant of `AbstractLaunch` (`Account`: every view is its program's
`Share` of the wires in place), brought down to `Launch` by
`LaunchIsAsPromised`. With it what a program holds can be read off its grants
(`HeldIsAGift`, `GiftIsHeld`). `EverythingInPlace` says the same of shared frames
(`Placed`: a wire behind has a frame that all its programs map), which the views
do not tell apart. The properties of `LaunchImages` are then statements about
eight constants: lemmas `HelloIs` to `RuntimeFsIs` work out each program's gifts,
own CNode and argument, the `...Lines` lemmas who is given which endpoint with
what rights and badge, and

- `ArenaWindowsAreFree`: `Spec => []ArenaWindowFree`,
- `NarrationIsUnambiguous`: `Spec => []NarrationUnambiguous`,
- `BadgesAreUnforgeable`: `Spec => []BadgesUnforgeable`,
- `TheFirstCallerIsMeant`: `Spec => []FirstCallerIsMeant`

hold of every machine that launches any of them. Their one hypothesis is
`Demos \subseteq ShippedDemos`: they are about these images, and false of a
description that, say, grants a badge twice.

`LaunchesAddUp` is about what a launch uses up, again for every description:
when the first thread runs, there are as many frames as the programs' images,
stacks, heaps and arenas and the wires ask for, root's next slot is where the
objects, programs and wires add up to, and there is one VSpace per program. It is
stated over running totals (`AddsUp`) and not over sums, so that it needs no
induction over the description: `Tallied` says for each phase what is used by
then, and each round adds what `FramesOfRound` and `SlotsOfRound` say.
`DocumentedUseIsRight`, `Spec => []DocumentedUse`, follows with the totals of the
two largest images, under the same hypothesis.

`LoadProofs` (section 4), `GrantProofs` (section 5), `FdtProofs` (section 6),
`NarrationProofs` (section 7) and `IpcBenchProofs` (section 8) prove what their
components promise, whatever the input says, the callers do and the kernel
refuses or loses.

Model-checked only:

- all liveness, and with it the liveness half of `ImplementsPromise` (that each
  launch ends): it needs fairness and ENABLED, which the prover does not reason
  about;
- `PanicsOnlyWhenItMust`, whose closed form sums over the programs with folds:
  induction over data;
- `GeneralMemoryIsTheTrees` and `CutNeverMisleads`, which compare with trees that
  `MCFdt` generates.

## 4. Loading an image

`Launch` takes the table of megapages as given. `LoadImage` makes it: passes 1
to 3 of `load`, one program header and one megapage at a time, on an ELF file
that `Elf` reads. `Elf` is the predicate `program_header` computes, with its
one checked addition and its unchecked ones.

| Variable | Code |
|---|---|
| `file` | `spec.elf_bytes`, as the fields `parse_header` and `program_header` read |
| `pc` | the pass: `header`, `collect` (1), `map` (2), `copy` (3) |
| `i`, `v` | the loop variables of passes 1 and 3 |
| `table` | `megapage_vaddr`, `megapage_perms` up to `megapage_count` |
| `mem` | the frames of pass 2; each byte is zero or names a byte of the file |

usize has `Modulus` values and additions wrap, as in the release build
(`Cargo.toml` turns no overflow check on). The properties compare with a
reference that has no loops: the megapages a segment meets, and the byte of the
last segment that has an address in its file part. `TableIsExact`,
`ImageIsReference` and `LoadsWhatItCan` hold for files whose segments end, rounded up,
inside the address space (`AddressesFit`). The code does not check this; a
segment that wraps is given fewer megapages than it has, none at all as a rule,
and the others are loaded. `CopyStaysInFrame`, `PassesAgree`, `AcceptedIsInside` and
`LoadEnds` hold for those files too. Where two segments define one address the
later one wins; the comment at launch.rs:488 takes this not to happen, and
nothing checks it.

All seven safety properties are proved for every set of files, every width of
`usize` that counts past two program headers and every size of a megapage
(`FilesAssumption`, `WidthAssumption`, `SizesAssumption`).

`LoadProofs` has those that hold for all files, wrapped or not: `TypeCorrect`,
`ReaderStaysInside`, `CopiesInsideFrames` and `LaterPassesAgree`. A sum that
wraps is smaller than the one that does not, so no wrap can move the end of a
copy past the megapage's or past the segment's bytes in the file (`CopyBounds`);
and a start so near the top that the check of the whole header wraps fails the
check of its first field (`HeaderInside`), which is where the width is needed:
with addresses for less than two headers a wrapped end can lie inside the file.
The invariant `LoadInv` has, beside the types: `Walking`, that inside a segment
both loops are at an aligned megapage of it; `Checked`, that headers behind pass
1 were accepted; and `Listed`, that the table has exactly the megapages visited
so far. `Visited(m)` is defined by the bounds the loops compute, so pass 3, which
computes the same ones, finds every megapage it comes to, even where they are
not the segment's. `v += mega` never wraps since the end of a segment is itself
an aligned address (`MultiplesApart`).

Its second part has `OneFramePerMegapage`, `MemoryIsTheFile` and
`FailsForCauseOnly`: where `AddressesFit`, the loops make what the reference
says. `ImageInv` adds the permissions of each entry, as the union over the
segments visited there; that no two entries are for one megapage, without which
a copy would fill only one of them; and the content of each byte, as what the
last of the segments copied so far puts there (`Written`). That a panic is
justified is kept as an invariant of the panicked state, and shown at the step
that panics.

| Run | Instance | What it shows |
|---|---|---|
| `load_image` | eight megapages of 64 bytes, the real header sizes 64 and 56, files of up to 184 bytes, a table of four, one megapage taken; two segments with each of eight starts and five sizes, a third where two share a megapage, each kind of damaged header, and header offsets around the end of the file and of the address space; 31,636 states | the seven safety properties, and that both loops end |
| `hello_layout` | the layout of `hello-service/linker.ld` | a finding: the comment in the script says each segment gets a frame of its own and that the loader does not handle two in one megapage; the loader gives `.text` and `.rodata` one frame |

Starts lie on, before, inside and just under a boundary; sizes are zero, inside
one megapage, one exactly, and across two boundaries. Four entries are fewer
than two large segments need, and the mutant that uses one fewer is found.
A segment is never more than three megapages long: the loops do the same for
each one after the second. The fairness is again `WF_vars(Next)`.

## 5. The services

`keystore-service` and `store-service` have the same shape, and `GrantService`
models both: a service that needs another one has it as `Upstream`. Their
clients are sequences of calls (`script`): those of `store-client` for the
program in this repository, and any short sequence for those that exist only as
ELF files (`Elsewhere`), which may also stop in the middle of an exchange.

| Variable | Code |
|---|---|
| `svc[s].pc`, `phase` | where `run` is between two system calls; `arg0 & BINDER_LAUNCHED` decides the phase it starts in |
| `svc[s].received` | `received`, the call that is owed a reply |
| `svc[s].exchange` | the client whose next chunk `recv_request` or `reply` waits for, and the chunks of the reply left |
| `svc[s].scratch` | what `SCRATCH_CPTR` holds |
| `svc[s].ledger` | the `Broker`'s table: the badges handed out, live or revoked |
| `queue`, `thread`, `caps` | the kernel: calls waiting at an endpoint, each thread's last call and its answer, who holds which badge |
| `hart` | the thread that spins for ever, if one does |

A step goes from one system call to the next. `Recv` takes the oldest call;
what it is decides which action follows: `ServeGrant`, `Mint`, `Deliver`,
`Delete` for a grant, with `RefuseGrant` and `FirstGrantFails` for its two ways
to fail; `ServeRevoke`, `ServeForged` and `ServeBusy` for the rest of
`Others::serve`; and `TakeChunk`, `TakeLastChunk`, `Handle`, `GiveChunk`,
`RefuseChunk` for a data request. Waiting for a chunk is being in `Recv` with
an exchange under way: that is what lets everything else in between.
`HandleUpstream`, `UpstreamContinues` and `UpstreamAnswered` are the calls
`ChannelCipher` makes while the store's own client waits.

External, and modelled from how this code uses it: `Channel` (chunks one after
the other; any other message while it waits goes to `Interloper::serve`; it asks
`still_allowed` before it takes or gives a further chunk), `grant::classify`,
the `Broker`'s table (badges 1, 2, ...; a mint needs room and an empty slot),
and the kernel's Call, Recv and Reply (a queue per endpoint; a reply that carries
a capability needs a slot the caller registered). How a request is answered is
reduced to its status; the content of keys, files and frames is left out.

Which thread runs next is any thread that can: the kernel's queue allows fewer
orders, so safety carries over. No timer interrupts a program
(`src/main.rs:126`), so a program that spins keeps the hart: `hart` is why
`RevokesTakeEffect` and `CallsEnd` except it, and `FirstGrantFails` sets it.

| Run | Instance | What it shows |
|---|---|---|
| `store_demo` | `store_demo`'s three programs, replies of up to four chunks; 124 states | the chain client, store, keystore closes no cycle; every call succeeds; the client signals SUCCESS |
| `first_caller` | a keystore without `BINDER_LAUNCHED` and two clients on its endpoint, one with any three of seven calls (with and without a slot, forged, chunked), the other asking for a grant or with the binder's badge and any of four `GRANT`s, then a `REVOKE`; 65,232 states | no call is lost or answered twice, on every way out of `serve_grant` and also when the first grant fails |
| `runtime_fs_grants` | `runtime_fs_demo`: a binder with every sequence of three grants, revocations and hand-overs, well-formed or not, and a runtime with chunked requests and forged grants, on a store and its keystore; also with a runtime that can call the keystore, before the store or after it, without a slot (no loader allows that: it makes a first grant fail); 85,790 states | both services implement `AbstractService`, so that a caller whose first grant failed is never answered; a revoked badge carries no more data, not even the rest of a reply; a failed grant spoils no later one; revocations take effect and calls end whatever a client that stops leaves behind |

`AbstractService` is what a caller may rely on: each service is a table of
badges, and a call is answered in one step by what the table says at that
moment. It has no queue, no phases of a grant, no exchange, no scratch slot and
no second service. `GrantRefinement` maps `GrantService` to it: a call is asked
while it is queued or received, and takes effect with its Reply. A badge is in
the concrete table from the moment it is minted and in the abstract one from
the Reply that parts with it, or that says it could not be delivered, which is
how a badge comes to be issued that nobody holds. The refinement subsumes that
badges go only to those who are entitled to them and that data is given only
under a live one. It is about safety; that calls end is `CallsEnd`.

### Proofs

`GrantProofs` proves for any services, clients, scripts, numbers of badges and
chunks (`CapsAssumption`: nobody starts with a badge the services mint, and a
service that calls another may):

- `TypeCorrect`: `Spec => []TypeOK`,
- `EveryCallIsKept`: `Spec => []NoCallerForgotten`,
- `GrantsFailForCauseOnly`: `Spec => []GrantsFailForCause`,
- `RevocationHolds`: `Spec => RevocationIsFinal`, an action property.

`IInv` has six parts beside each other since each step disturbs several.
`Control` says where a service is when it owes an answer, that it waits itself
only where it called, and that it calls another only for a badge that is live. `Granting` follows the scratch slot: full from the mint to
the delete, with the newest badge of the table, which makes the next mint
succeed. `Owed` and `Heard` are the two directions of `NoCallerForgotten`: what is
queued or received is the last call of one who waits, each at most once; and who
waits is queued or received where it called. `Backed` is what makes
`RevocationHolds` more than a check at the door: calls are made under badges
their callers hold, and a minted badge is held only after it was issued.

The last part of `GrantProofs` proves the refinement, `ServiceIsImplemented`:
`Spec => ImplementsService`. Initial states map to initial states, and every action maps to one abstract answer or to a stutter: `Recv`, the mint,
the chunks and the delete are stutters, the grant is issued with its Reply. The
refinement mapping is where a badge in the table and not yet handed out is taken
off again (`Issued`), so the proof rests on `Granting` for its length, and on
`Owed` for each answer going to the one caller it is owed (`Telling`).

Two clients of one service without a binder is a topology no loader has, but
`frame::reply_busy()` is there for it. Two badges are enough for one to be
revoked while the other is in use, and for the table to be full at the third
grant. Two chunks put one interloper between the first and the last. Scripts
end, so every behaviour is finite and `WF_vars(Next)` is all the fairness there
is: the hart runs something when it can. `CHECK_DEADLOCK FALSE`, since the
clients come to an end.

## 6. The device tree

`Fdt` is `ram_region` one token at a time, then `boot_main`'s use of the region
and the clamp at the start of each `run`.

| Variable | Code |
|---|---|
| `blob` | the bytes OpenSBI left: header fields, cells of the structure block, strings by offset |
| `pc` | `total_size`, the header checks of `parse_ram_region`, the walk, `boot_main`, `run` |
| `cursor`, `depth`, `addrCells`, `sizeCells`, `inMemory` | the walk's local variables |
| `result`, `memEnd` | the `Result` of `parse_ram_region`; the end of general memory |

A cell of the block is four bytes, seen three ways: the number `be32` reads
there, the name that starts there, and where its first zero byte is. Names are
those the code tells apart. Amounts of memory are megapages, and a cell of one
has `WordModulus` values, 2048 in the run: two cells make a number that can
saturate, and one still reaches past the start of RAM.

`MCFdt` flattens trees to blobs and says, without a walk, what each tree means:
the first `reg` of the first memory node under the root that has one, read with
the root's cell counts (`TreeRam`). Trees have up to three nodes under the root,
with nodes of their own: names that begin the same, memory nodes lower down, a
memory node without `reg`, values that need padding, a name whose zero byte
takes a cell of its own. The smaller trees are also damaged: cut short at any
cell, one cell changed, a header field wrong. 199,666 states.

| Run | What it shows |
|---|---|
| `device_tree` | undamaged: general memory is the whole megapages up to the end of the RAM the tree reports, or the fallback of 128 MiB (`GeneralMemoryIsTheTrees`); cut: the region of the whole tree or an error (`CutNeverMisleads`); any damage: a region is read inside the structure block (`RegionIsInTheBlock`), and the walk ends |
| `device_tree_cut` | a finding: the token is read up to the end of the blob and the name from there to the end of the *block*, so a block that ends between the two makes the slice start after its end, and the reader panics where its documentation promises an error |

Two things the properties state as the code has them, since no document says
otherwise: RAM that ends below general memory still gives one megapage of it,
and the base of the region is added to its size but never compared with
`GENERAL_MEMORY_BASE`.

`FdtProofs` proves for every set of blobs of the shape `IsBlob` gives, of any
length, and every `WordModulus` above 1: `ReadsInTheBlock`,
`Spec => []RegionIsInTheBlock`, and `TypeCorrect`, `Spec => []TypeOK`, which the
run leaves to the proof. The invariant says that while the walk goes on the
cursor is at or after the start of the block, and the block ends inside the
blob; that the cursor is *before* the end of the block is not invariant (a value
is padded after it was checked) and is not needed, since each property checks
its own value. From it every cell the walk reads as a length, a name's place or
a region is one of the blob's, which is what the types rest on.
`MemoryIsTheAnswers` goes on to what `boot_main` makes of the answer: general
memory is the whole megapages up to the end of the region the reader returned,
at least one, or the fallback where it returned an error. That the answer is the
tree's stays with TLC (`GeneralMemoryIsTheTrees`).

## 7. The demos

`Narration` runs the broker, frame, keystore and store demos: each program is a
table of system calls, with the step that follows when one succeeds and when it
fails (`let _ =` goes on, `.ok()?` decides the verdict, an early
`loop { spin_loop() }` is step 0). They run on `DirectSwitch`, which is the
kernel as `src/main.rs:69-83` and `broker_demo/main.rs:72-82` describe it: a
Call to a thread that is in Recv switches to it, a Reply switches to the caller,
nothing preempts. Here the order is the kernel's own and not, as in section 5,
any order: whether a program that spins keeps others from running depends on it.
The kernel may refuse a call with cause (no capability, no reply owed, an
occupied slot) and, each step of each program once in a run, without: the store
demo has nineteen steps, so `MaxRefused` bounds nothing at 19.

A handler prints from the number of the system call, read before the kernel
dispatches it, and from the frame after it, which may by then be another
thread's. `line` is what it printed, `did` what happened. 890 states.

| Run | What it shows |
|---|---|
| `demo_verdicts` | in the demos of two programs every line but a Call's says how the call went (`NarrationIsFaithful`); SUCCESS is printed if nothing that matters was refused (`VerdictComes`) and only then (`SuccessIsEarned`), although most results are dropped |
| `mint_lines` | a finding: the keystore and store demos narrate the Delete that empties the scratch slot as a second mint |

`Harmless` are the refusals the programs recover from: the Delete, and a Recv
in a loop. The store demo is not part of `NarrationIsFaithful`: there a service
blocks in Recv and the frame the handler looks at is another's, so that it
prints `ok=true` for a Recv that has received nothing.
A request and its answer fit one chunk, as those of the frame demo do; chunks
are the subject of section 5.

`NarrationProofs` proves, for any bound on how many steps are refused:

- `NarrationSuccess`: `Spec => []SuccessIsEarned`,
- `NarrationFaithful`: `Spec => []NarrationIsFaithful`.

That a step is refused only once is what `VerdictComes` needs, since a Recv in a
loop could be refused for ever; no lemma uses it. Both theorems rest on `NarrationInvariant`, which says where the threads can be. On
the way to SUCCESS there are few places (`BrokerWay`, `FrameWay`, `KeystoreWay`,
`StoreWay`): who runs, who is ready, who waits in a Call or a Recv, who is owed
a Reply, and at which steps the programs then are; there, `refused` has only
the steps in `Free`, which are harmless. Every other refusal leads to one of the
places from which no way leads back (`OffTheWay`): the client has only its
FAILURE left, or asks for what it was never granted; a server spins, or owes
nobody the Reply it comes to, or waits where no Call is queued; the store serves
without a keystore that would serve it, so that its Reply says ERROR. That is
closed because a server in its serving loop that has lost its caller finds the
queues empty. `SuccessIsEarned` by itself says nothing of a state before the
verdict, which is why the places are needed. For `NarrationFaithful`, `FramesOf`
adds that the client's frame carries no error while the service runs: the client
blocked, which cleared it. The Reply that resumes it then shows the handler a
frame without one.

## 8. The benchmark

`IpcBench` is the two roles of hello-service and `boot_trap_handler`, one action
for each trap. `bench` is `BENCH`; one wrapping counter stands for `cycle` and
`instret`. The handler's comments (`src/main.rs:69-83`) describe a Call the
kernel drops when it comes right after the Reply that resumed its thread;
`STATUS.md:115-131` says the cause has since been found and removed. The margin
of eight is still there and is what makes the count reach its target, so the
model keeps the fault: after a Reply, and only then, a Call may be dropped.

`ipc_bench` has three round trips, a margin of two, two losses, a clock of eight
values that starts anywhere, and one or two cycles from trap to trap; 7,064
states. `SummaryIsOfTheTrips` compares the sum, minimum and maximum with a
record of the trips that is kept aside: neither the warm-up, nor a trip after
the target, nor one begun by a dropped Call is in them. `BenchmarkCompletes`:
the summary is printed and the client ends. The clock wraps in most behaviours
and a trip takes up to six cycles, fewer than eight: a trip longer than the
counter could not be told from a short one.

`IpcBenchProofs` proves for every number of round trips, every margin, any
number of dropped Calls and every counter that counts past three times the
cycles between two traps (`BenchAssumption`):

- `BenchTypes`: `Spec => []TypeOK`,
- `BenchSummary`: `Spec => []SummaryIsOfTheTrips`,
- `BenchMargin`: where at most `BENCH_SAFETY_MARGIN` Calls are dropped, the
  client is at its end only after the summary, and the server has an iteration
  left for every Call that reaches it (`MarginSuffices`),
- `BenchProgress`: every trap uses up part of a finite amount of work
  (`EveryTrapCounts`).

The invariant has the hart at one of three places (`HartInv`: the client runs;
a Call waits; a Reply is owed, with the counter as far from `bench.start` as the
cycles that have passed); the figures in `BENCH` as those of the trips so far
(`CountInv`, `Attained` for the extremes, `IsTotal` for the sum); and the
accounts of both loops (`AccountInv`): what the client has begun is what the
server has answered, what was dropped, and the Call in between. The counter
wraps at most once in a trip, so the wrapping difference is the trip
(`TurnedTwice`). The last two theorems are what `BenchmarkCompletes` needs
beside fairness: traps come to an end, and they cannot end before the summary.

## 9. Findings

| Run | Source | Disagreement |
|---|---|---|
| `hello_layout` | `src/hello-service/linker.ld` | two segments of one megapage share a frame; the comment says the loader cannot do that |
| `device_tree_cut` | `src/src/fdt.rs:127` | a malformed blob panics; the comment says it is an `Err` |
| `mint_lines` | `src/src/keystore_demo/main.rs:79` | a delete is logged as a mint |

`PROJECT.json` quotes the lines.

## 10. Not modelled

The console and the entry assembly keep no state. The scripts drive QEMU. The
five programs that exist only as ELF files have their authority, memory and
`arg0` modelled, and what they may ask of the services (`Elsewhere`), not their
behaviour; for the same reason the trap handlers of the two runtime demos and of
the probe are modelled only in which slot they narrate (`NarrationUnambiguous`).
The bytes in a shared frame, keys, files and cryptography are left out. Calls
are lost only in section 8. Page tables and the kernel's own objects are
external. That the lengths the loaders pass are those of the files they embed is
fixed at compile time.
