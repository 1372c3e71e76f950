------------------------------ MODULE LoadImage ------------------------------
(***************************************************************************)
(* Passes 1 to 3 of load (src/launch.rs): which megapages an ELF file's    *)
(* segments touch, one frame for each, and every file byte at its place.   *)
(* Launch takes the table pass 1 builds as given and the copy as one step; *)
(* here both are made of a file, one program header and one megapage at a  *)
(* time.  Addresses are bytes and wrap at Modulus.                         *)
(***************************************************************************)
EXTENDS Elf, Platform, Sequences, FiniteSets

CONSTANTS
  Files,          \* the ELF files
  MegaSize,       \* RISCV64_MEGAPAGE_SIZE in bytes
  MAX_PROGRAM_MEGAPAGES,
  Occupied        \* addresses map_kernel_shared has taken already

ASSUME FilesAssumption == \A f \in Files : IsFile(f)
ASSUME SizesAssumption ==
  /\ Modulus \in Nat \ {0} /\ MegaSize \in Nat \ {0}
  /\ Modulus % MegaSize = 0 /\ Modulus > MegaSize
  /\ MAX_PROGRAM_MEGAPAGES \in Nat

VARIABLES
  file,   \* spec.elf_bytes
  pc,     \* "header", pass "collect", "map" or "copy", "done", "panicked"
  i, v,   \* program header and megapage the pass is at; v is Outside between
  table,  \* megapage_vaddr and megapage_perms
  mem     \* content of the frames of pass 2: a byte is {} (zero) or {k},
          \* the file's byte k

vars == <<file, pc, i, v, table, mem>>

Outside == -1

Init ==
  /\ file \in Files /\ pc = "header" /\ i = 0 /\ v = Outside
  /\ table = <<>> /\ mem = <<>>

-----------------------------------------------------------------------------
Seg == file.raw[i]

WrappingRoundUp(addr) == RoundDown(Wrap(addr + MegaSize - 1), MegaSize)
SegStart(s) == RoundDown(s.vaddr, MegaSize)
SegEnd(s) == WrappingRoundUp(Wrap(s.vaddr + s.memsz))

InPass == pc \in {"collect", "copy"} /\ i < file.phnum
InSegment == InPass /\ v # Outside /\ v < SegEnd(Seg)

ParseHeader ==
  /\ pc = "header" /\ HeaderParses(file)
  /\ pc' = "collect"
  /\ UNCHANGED <<file, i, v, table, mem>>

SkipSegment ==
  /\ InPass /\ v = Outside /\ Skipped(file, i)
  /\ i' = i + 1
  /\ UNCHANGED <<file, pc, v, table, mem>>

EnterSegment ==
  /\ InPass /\ v = Outside /\ Loaded(file, i)
  /\ v' = SegStart(Seg)
  /\ UNCHANGED <<file, pc, i, table, mem>>

LeaveSegment ==
  /\ InPass /\ v # Outside /\ v >= SegEnd(Seg)
  /\ v' = Outside /\ i' = i + 1
  /\ UNCHANGED <<file, pc, table, mem>>

(* v += mega at the end of either pass's inner loop.                       *)
(* Mutant: rounded up instead, which v already is.                         *)
AdvanceRounded == WrappingRoundUp(v)
Advance == v + MegaSize

Positions == {k \in DOMAIN table : table[k].vaddr = v}

(* Pass 1: a megapage another segment brought gets more permissions ...    *)
(* Mutant: it keeps those of its first segment.                            *)
FirstPerms(perms) == perms
UnionPerms(perms) == perms \cup Seg.flags
WidenMegapage ==
  /\ pc = "collect" /\ InSegment
  /\ \E k \in Positions :
       table' = [table EXCEPT ![k].perms = UnionPerms(@)]
  /\ v' = Advance
  /\ UNCHANGED <<file, pc, i, mem>>

(* ... and a new one an entry of the table, which must have one left.      *)
(* Mutants: one entry too few used; one too many.                          *)
TableFullEarly == Len(table) + 1 >= MAX_PROGRAM_MEGAPAGES
TableFullLate == Len(table) > MAX_PROGRAM_MEGAPAGES
TableFull == Len(table) >= MAX_PROGRAM_MEGAPAGES
AddMegapage ==
  /\ pc = "collect" /\ InSegment /\ Positions = {} /\ ~TableFull
  /\ table' = Append(table, [vaddr |-> v, perms |-> Seg.flags])
  /\ v' = Advance
  /\ UNCHANGED <<file, pc, i, mem>>

NextPass ==
  /\ \/ pc = "collect" /\ i = file.phnum /\ pc' = "map"
     \/ pc = "map" /\ Len(mem) = Len(table) /\ pc' = "copy"
     \/ pc = "copy" /\ i = file.phnum /\ pc' = "done"
  /\ i' = 0
  /\ UNCHANGED <<file, v, table, mem>>

(* Pass 2: a cleared frame for each entry, mapped where nothing else is.   *)
NextEntry == table[Len(mem) + 1]
MapMegapage ==
  /\ pc = "map" /\ Len(mem) < Len(table) /\ NextEntry.vaddr \notin Occupied
  /\ mem' = Append(mem, [b \in 0..(MegaSize - 1) |-> {}])
  /\ UNCHANGED <<file, pc, i, v, table>>

(* Pass 3: the file bytes of this segment that land in this megapage.      *)
Smaller(a, b) == IF a < b THEN a ELSE b
FileEnd == Wrap(Seg.vaddr + Seg.filesz)
CopyStart == IF v > Seg.vaddr THEN v ELSE Seg.vaddr
(* Mutant: the segment's end only.                                         *)
CopyToFileEnd == FileEnd
CopyEnd == Smaller(Wrap(v + MegaSize), FileEnd)
CopyLen == CopyEnd - CopyStart
Within == CopyStart - v
(* Mutants: every megapage starts at the segment's first byte; the address *)
(* not made relative to the segment.                                       *)
SegmentOffset == Seg.offset
AbsoluteOffset == Wrap(Seg.offset + CopyStart)
FileOffset == Wrap(Seg.offset + (CopyStart - Seg.vaddr))
SourceInFile == CopyLen > 0 => FileOffset + CopyLen <= file.len

Copied(frame) ==
  [b \in DOMAIN frame |->
     IF b >= Within /\ b < Within + CopyLen THEN {FileOffset + b - Within}
     ELSE frame[b]]
CopyMegapage ==
  /\ pc = "copy" /\ InSegment /\ SourceInFile
  /\ \E k \in Positions : mem' = [mem EXCEPT ![k] = Copied(@)]
  /\ v' = Advance
  /\ UNCHANGED <<file, pc, i, table>>

(* .expect(), assert! and the slice's bounds check: all panic.             *)
Refused ==
  \/ pc = "header" /\ ~HeaderParses(file)
  \/ InPass /\ v = Outside /\ Rejected(file, i)
  \/ pc = "collect" /\ InSegment /\ Positions = {} /\ TableFull
  \/ pc = "map" /\ Len(mem) < Len(table) /\ NextEntry.vaddr \in Occupied
  \/ pc = "copy" /\ InSegment /\ ~(Positions # {} /\ SourceInFile)
Panic == Refused /\ pc' = "panicked" /\ UNCHANGED <<file, i, v, table, mem>>

Next ==
  \/ ParseHeader \/ SkipSegment \/ EnterSegment \/ LeaveSegment
  \/ WidenMegapage \/ AddMegapage \/ NextPass \/ MapMegapage \/ CopyMegapage
  \/ Panic

Spec == Init /\ [][Next]_vars /\ WF_vars(Next)

-----------------------------------------------------------------------------
Bytes == SUBSET Usize

(* Types; the fixed table is not written past its end, and the megapages   *)
(* met in between are addresses, so no `v += mega` leaves usize.           *)
TypeOK ==
  /\ file \in Files
  /\ pc \in {"header", "collect", "map", "copy", "done", "panicked"}
  /\ i \in 0..file.phnum /\ v \in Usize \cup {Outside}
  /\ table \in Seq([vaddr : Usize, perms : SUBSET Flags])
  /\ Len(table) <= MAX_PROGRAM_MEGAPAGES
  /\ mem \in Seq([0..(MegaSize - 1) -> Bytes]) /\ Len(mem) <= Len(table)

(* What the reader accepts lies inside the file: the whole header, and all *)
(* bytes the segment names, although start + PHDR_SIZE and the offsets of  *)
(* the fields are added without a check.                                   *)
AcceptedIsInside ==
  \A k \in DOMAIN file.raw :
    ~Rejected(file, k) =>
      /\ file.phoff + k * file.phentsize + PHDR_SIZE <= file.len
      /\ Loaded(file, k) => file.raw[k].offset + file.raw[k].filesz <= file.len

(* The reference: what an ELF file's segments say of memory.               *)
Segments == {k \in DOMAIN file.raw : Loaded(file, k)}
Meets(s, m) == m < s.vaddr + s.memsz /\ s.vaddr < m + MegaSize
Meeting(m) == {k \in Segments : Meets(file.raw[k], m)}
Needed == {m \in Usize : m % MegaSize = 0 /\ Meeting(m) # {}}
Covering(a) ==
  {k \in Segments : /\ file.raw[k].vaddr <= a
                    /\ a < file.raw[k].vaddr + file.raw[k].filesz}
Latest(ks) == CHOOSE k \in ks : \A j \in ks : j <= k
ByteAt(a) ==
  IF Covering(a) = {} THEN {}
  ELSE {file.raw[Latest(Covering(a))].offset + a - file.raw[Latest(Covering(a))].vaddr}

(* No segment's end, rounded up, leaves the address space.                 *)
AddressesFit ==
  \A k \in Segments :
    file.raw[k].vaddr + file.raw[k].memsz + MegaSize <= Modulus

(* One frame for each megapage any segment touches and for no other, with  *)
(* the permissions all segments in it need.                                *)
TableIsExact ==
  pc \in {"map", "copy", "done"} /\ AddressesFit =>
    /\ {table[k].vaddr : k \in DOMAIN table} = Needed
    /\ Len(table) = Cardinality(Needed)
    /\ \A k \in DOMAIN table :
         table[k].perms = UNION {file.raw[j].flags : j \in Meeting(table[k].vaddr)}

(* The program finds every file byte at its address, of the later segment  *)
(* where two have one, and zeroes everywhere else, its BSS included.       *)
ImageIsReference ==
  pc = "done" /\ AddressesFit =>
    \A k \in DOMAIN table : \A b \in 0..(MegaSize - 1) :
      mem[k][b] = ByteAt(table[k].vaddr + b)

(* The unsafe copy of pass 3 writes inside its frame, for every file that  *)
(* gets there, also one whose addresses wrap.                              *)
CopyStaysInFrame ==
  pc = "copy" /\ InSegment /\ CopyLen > 0 =>
    Within >= 0 /\ Within + CopyLen <= MegaSize

(* "every segment megapage was recorded in pass 1": pass 3 finds each, and *)
(* slices the file inside its bounds; no panic comes that late.            *)
PassesAgree == pc = "copy" => ~Refused

(* A load fails exactly when the file is malformed, touches more megapages *)
(* than the table holds, or one that is taken.                             *)
CanLoad ==
  /\ HeaderParses(file) /\ \A k \in DOMAIN file.raw : ~Rejected(file, k)
  /\ Cardinality(Needed) <= MAX_PROGRAM_MEGAPAGES
  /\ Needed \cap Occupied = {}
LoadsWhatItCan ==
  AddressesFit => /\ pc = "panicked" => ~CanLoad
                  /\ pc = "done" => CanLoad

(* Both inner loops end, for every file.                                   *)
LoadEnds == <>(pc \in {"done", "panicked"})

=============================================================================
