----------------------------- MODULE LoadProofs -----------------------------
(***************************************************************************)
(* The passes of load, for every file and every width of usize: the loop   *)
(* variables stay addresses, what the reader accepts is inside the file,   *)
(* pass 3 finds what pass 1 has listed, and it copies inside the frame it  *)
(* fills.  And what load makes of a file against what the file's segments  *)
(* define: the table of pass 1, the bytes pass 3 leaves in memory, and     *)
(* whether the load comes to its end.                                      *)
(***************************************************************************)
EXTENDS LoadImage, FiniteSetTheorems, SequenceTheorems, TLAPS

-----------------------------------------------------------------------------
(* Arithmetic: quotients, multiples of a megapage, sums that wrap.         *)
LEMMA DivisionFacts ==
  ASSUME NEW a \in Nat, NEW m \in Nat \ {0}
  PROVE  /\ a \div m \in Nat
         /\ a = m * (a \div m) + (a % m)
         /\ a % m \in 0..(m - 1)
  OBVIOUS

(* Between two multiples there is room for one more.                       *)
LEMMA MultiplesApart ==
  ASSUME NEW a \in Nat, NEW b \in Nat, NEW m \in Nat \ {0},
         a % m = 0, b % m = 0, a < b
  PROVE  a + m <= b
<1> DEFINE p == a \div m
           q == b \div m
<1>1. p \in Nat /\ q \in Nat /\ a = m * p /\ b = m * q
  BY DivisionFacts
<1> HIDE DEF p, q
<1>2. p < q
  <2>1. SUFFICES ASSUME q <= p PROVE FALSE
    BY <1>1
  <2>2. PICK d \in Nat : p = q + d
    <3>1. p - q \in Nat /\ p = q + (p - q)
      BY <1>1, <2>1
    <3> QED
      BY <3>1
  <2>3. m * p = m * q + m * d /\ m * d \in Nat /\ m * q \in Nat
    BY <1>1, <2>2
  <2> QED
    BY <1>1, <2>3
<1>3. PICK d \in Nat : q = p + 1 + d
  <2>1. q - p - 1 \in Nat /\ q = p + 1 + (q - p - 1)
    BY <1>1, <1>2
  <2> QED
    BY <2>1
<1>4. m * q = m * p + m + m * d /\ m * d \in Nat /\ m * p \in Nat
  BY <1>1, <1>3
<1> QED
  BY <1>1, <1>4

LEMMA NextMultiple ==
  ASSUME NEW a \in Nat, NEW m \in Nat \ {0}, a % m = 0
  PROVE  (a + m) % m = 0
<1> DEFINE p == a \div m
<1>1. p \in Nat /\ a = m * p
  BY DivisionFacts
<1> HIDE DEF p
<1>2. a + m = m * (p + 1)
  BY <1>1
<1>3. \A q \in Nat : (m * q) % m = 0
  OBVIOUS
<1> QED
  BY <1>1, <1>2, <1>3

LEMMA RoundDownFacts ==
  ASSUME NEW a \in Nat, NEW m \in Nat \ {0}
  PROVE  /\ RoundDown(a, m) \in Nat
         /\ RoundDown(a, m) % m = 0
         /\ RoundDown(a, m) <= a
         /\ a < RoundDown(a, m) + m
<1> DEFINE p == a \div m
<1>1. p \in Nat /\ a = m * p + (a % m) /\ a % m \in 0..(m - 1)
  BY DivisionFacts
<1> HIDE DEF p
<1>2. RoundDown(a, m) = m * p
  <2>1. m * p \in Nat
    BY <1>1
  <2> QED
    BY <1>1, <2>1 DEF RoundDown
<1>3. m * p \in Nat /\ (m * p) % m = 0
  BY <1>1
<1> QED
  BY <1>1, <1>2, <1>3
LEMMA WrapFacts ==
  ASSUME NEW a \in Nat
  PROVE  /\ Wrap(a) \in Usize /\ Wrap(a) \in Nat
         /\ Wrap(a) <= a
         /\ a < Modulus => Wrap(a) = a
   BY WidthAssumption DEF Wrap, Usize, PHDR_SIZE

-----------------------------------------------------------------------------
(* The reader.                                                             *)

LEMMA FileFacts ==
  ASSUME file \in Files
  PROVE  /\ IsFile(file)
         /\ file.len \in Nat /\ 2 * file.len < Modulus
         /\ file.phoff \in Nat /\ file.phentsize \in Nat /\ file.phnum \in Nat
         /\ DOMAIN file.raw = 0..(file.phnum - 1)
         /\ \A k \in DOMAIN file.raw : file.raw[k] \in RawHeaders
<1>1. IsFile(file)
  BY FilesAssumption
<1>2. file.len \in Nat /\ file.len <= (Modulus \div 2) - 1
  BY <1>1, WidthAssumption DEF IsFile
<1>3. 2 * (Modulus \div 2) <= Modulus /\ Modulus \div 2 \in Nat
  BY WidthAssumption
<1>4. 2 * file.len < Modulus
  BY <1>2, <1>3, WidthAssumption
<1>5. /\ file.phoff \in Nat /\ file.phentsize \in Nat /\ file.phnum \in Nat
      /\ file.raw \in [0..(file.phnum - 1) -> RawHeaders]
  BY <1>1, WidthAssumption DEF IsFile, Usize
<1> QED
  BY <1>1, <1>2, <1>4, <1>5

(* A header that is not refused was read where it is: were its start close *)
(* enough to the top for the sum to wrap, its first field would be outside.*)
LEMMA HeaderInside ==
  ASSUME file \in Files, NEW k \in DOMAIN file.raw, ~Rejected(file, k)
  PROVE  file.phoff + k * file.phentsize + PHDR_SIZE <= file.len
<1> DEFINE start == HeaderStart(file, k)
<1>1. start \in Nat
  <2>1. k \in Nat /\ file.phoff \in Nat /\ file.phentsize \in Nat
    BY FileFacts
  <2>2. k * file.phentsize \in Nat
    BY <2>1
  <2> QED
    BY <2>1, <2>2 DEF HeaderStart
<1>2. /\ start < Modulus
      /\ Wrap(start + PHDR_SIZE) <= file.len
      /\ start <= Wrap(start + 4) /\ Wrap(start + 4) <= file.len
  <2>1. ~(start >= Modulus) /\ ~(Wrap(start + PHDR_SIZE) > file.len) /\ Readable(file, start, 4)
    BY DEF Rejected
  <2>2. start + PHDR_SIZE \in Nat
    BY <1>1 DEF PHDR_SIZE
  <2>3. Wrap(start + PHDR_SIZE) \in Nat
    BY <2>2, WrapFacts
  <2>4. file.len \in Nat /\ Modulus \in Nat
    BY FileFacts, WidthAssumption
  <2> QED
    BY <1>1, <2>1, <2>3, <2>4 DEF Readable
<1> HIDE DEF start
<1>3. start <= file.len /\ file.len \in Nat /\ 2 * file.len < Modulus
  <2>1. start + 4 \in Nat
    BY <1>1
  <2>2. Wrap(start + 4) \in Nat /\ file.len \in Nat /\ 2 * file.len < Modulus
    BY <2>1, WrapFacts, FileFacts
  <2> QED
    BY <1>1, <1>2, <2>2
<1>4. Wrap(start + PHDR_SIZE) = start + PHDR_SIZE
  <2>1. start + PHDR_SIZE \in Nat /\ start + PHDR_SIZE < Modulus
    BY <1>1, <1>3, WidthAssumption DEF PHDR_SIZE
  <2> QED
    BY <2>1, WrapFacts
<1>5. start + PHDR_SIZE <= file.len
  BY <1>2, <1>4
<1> QED
  BY <1>5 DEF start, HeaderStart

(* What a segment that is loaded satisfies.                                *)
LEMMA LoadedFacts ==
  ASSUME file \in Files, NEW k \in DOMAIN file.raw
  PROVE  /\ file.raw[k].offset \in Nat /\ file.raw[k].vaddr \in Usize
         /\ file.raw[k].vaddr \in Nat
         /\ file.raw[k].filesz \in Nat /\ file.raw[k].memsz \in Nat
         /\ file.raw[k].flags \subseteq Flags
         /\ Loaded(file, k) =>
              /\ file.raw[k].offset + file.raw[k].filesz <= file.len
              /\ file.raw[k].filesz <= file.raw[k].memsz
<1>1. file.raw[k] \in RawHeaders
  BY FileFacts
<1>2. /\ file.raw[k].offset \in Nat /\ file.raw[k].vaddr \in Usize
      /\ file.raw[k].vaddr \in Nat
      /\ file.raw[k].filesz \in Nat /\ file.raw[k].memsz \in Nat
      /\ file.raw[k].flags \subseteq Flags
  BY <1>1, WidthAssumption DEF RawHeaders, Usize
<1>3. ASSUME Loaded(file, k)
      PROVE  /\ file.raw[k].offset + file.raw[k].filesz <= file.len
             /\ file.raw[k].filesz <= file.raw[k].memsz
  <2>1. /\ ~(file.raw[k].offset + file.raw[k].filesz > file.len)
        /\ ~(file.raw[k].filesz > file.raw[k].memsz)
    BY <1>3 DEF Loaded, Rejected
  <2> QED
    BY <1>2, <2>1, FileFacts
<1> QED
  BY <1>2, <1>3

-----------------------------------------------------------------------------
(* The invariant.  Nothing is known of a load that has panicked.           *)

(* Program headers pass 1 has accepted.                                    *)
Passed ==
  IF pc = "collect" THEN 0..(i - 1)
  ELSE IF pc \in {"map", "copy", "done"} THEN DOMAIN file.raw ELSE {}
Checked == \A k \in Passed : k \in DOMAIN file.raw /\ ~Rejected(file, k)

(* Inside a segment both loops are at a megapage of it; between two passes *)
(* they are at none, and pass 2 comes with one frame after another.        *)
Walking ==
  /\ pc \in {"collect", "copy"} /\ v # Outside =>
       /\ i \in DOMAIN file.raw /\ Loaded(file, i)
       /\ v \in Usize /\ v % MegaSize = 0 /\ SegStart(Seg) <= v
  /\ pc \in {"header", "map", "done"} => v = Outside
  /\ pc = "header" => i = 0 /\ table = <<>>
  /\ pc \in {"header", "collect"} => mem = <<>>
  /\ pc \in {"copy", "done"} => Len(mem) = Len(table)

(* The megapages of a segment, as both loops compute them, wrapped or not; *)
(* and the segments pass 1 has visited megapage m of.                      *)
Megapages(s) == {m \in Usize : m % MegaSize = 0 /\ SegStart(s) <= m /\ m < SegEnd(s)}
Visited(m) ==
  {k \in Segments : /\ m \in Megapages(file.raw[k])
                    /\ k \in Passed \/ (pc = "collect" /\ k = i /\ m < v)}
Listed ==
  pc # "panicked" => {table[k].vaddr : k \in DOMAIN table} = {m \in Usize : Visited(m) # {}}

LoadInv == TypeOK /\ Walking /\ Checked /\ Listed

-----------------------------------------------------------------------------
(* Facts of a state in which it holds.                                     *)

LEMMA SizeFacts ==
  /\ MegaSize \in Nat \ {0} /\ Modulus \in Nat /\ MegaSize < Modulus /\ Modulus > 112
  /\ Outside \notin Usize /\ Usize \subseteq Nat
  BY SizesAssumption, WidthAssumption DEF Outside, Usize, PHDR_SIZE

LEMMA SegmentBounds ==
  ASSUME file \in Files, NEW k \in DOMAIN file.raw
  PROVE  /\ SegStart(file.raw[k]) \in Usize /\ SegStart(file.raw[k]) % MegaSize = 0
         /\ SegStart(file.raw[k]) <= file.raw[k].vaddr
         /\ file.raw[k].vaddr < SegStart(file.raw[k]) + MegaSize
         /\ SegEnd(file.raw[k]) \in Usize /\ SegEnd(file.raw[k]) % MegaSize = 0
<1> DEFINE s == file.raw[k]
<1>1. s.vaddr \in Usize /\ s.vaddr \in Nat /\ s.memsz \in Nat
  BY LoadedFacts
<1> HIDE DEF s
<1>2. /\ RoundDown(s.vaddr, MegaSize) \in Nat /\ RoundDown(s.vaddr, MegaSize) % MegaSize = 0
      /\ RoundDown(s.vaddr, MegaSize) <= s.vaddr
      /\ s.vaddr < RoundDown(s.vaddr, MegaSize) + MegaSize
  BY <1>1, SizeFacts, RoundDownFacts
<1>3. SegStart(s) \in Usize
  BY <1>1, <1>2, SizeFacts DEF SegStart, Usize
<1> DEFINE e == Wrap(s.vaddr + s.memsz)
           r == Wrap(e + MegaSize - 1)
<1>4. e \in Nat
  BY <1>1, WrapFacts
<1>5. r \in Usize /\ r \in Nat
  <2>1. e + MegaSize - 1 \in Nat
    BY <1>4, SizeFacts
  <2> QED
    BY <2>1, WrapFacts
<1>6. SegEnd(s) = RoundDown(r, MegaSize)
  BY DEF SegEnd, WrappingRoundUp
<1> HIDE DEF e, r
<1>7. /\ RoundDown(r, MegaSize) \in Nat /\ RoundDown(r, MegaSize) % MegaSize = 0
      /\ RoundDown(r, MegaSize) <= r
  BY <1>5, SizeFacts, RoundDownFacts
<1>8. SegEnd(s) \in Usize /\ SegEnd(s) % MegaSize = 0
  BY <1>5, <1>6, <1>7, SizeFacts DEF Usize
<1> QED
  BY <1>2, <1>3, <1>8 DEF SegStart, s

(* Inside a segment there is room for a further megapage below its end.    *)
LEMMA InsideFacts ==
  ASSUME LoadInv, InSegment
  PROVE  /\ i \in DOMAIN file.raw /\ Loaded(file, i) /\ i \in Segments
         /\ v \in Nat /\ v \in Usize /\ v % MegaSize = 0 /\ v \in Megapages(Seg)
         /\ v + MegaSize <= SegEnd(Seg)
         /\ v + MegaSize \in Usize /\ (v + MegaSize) % MegaSize = 0
<1>1. /\ i \in DOMAIN file.raw /\ Loaded(file, i) /\ v \in Usize /\ v % MegaSize = 0
      /\ SegStart(Seg) <= v /\ v < SegEnd(Seg)
  BY DEF LoadInv, Walking, InSegment, InPass
<1>2. v \in Nat /\ SegEnd(Seg) \in Usize /\ SegEnd(Seg) \in Nat /\ SegEnd(Seg) % MegaSize = 0
  BY <1>1, SegmentBounds, SizeFacts DEF LoadInv, TypeOK, Seg
<1>3. v + MegaSize <= SegEnd(Seg) /\ (v + MegaSize) % MegaSize = 0
  BY <1>1, <1>2, SizeFacts, MultiplesApart, NextMultiple
<1>4. v + MegaSize \in Usize
  BY <1>2, <1>3, SizeFacts DEF Usize
<1> QED
  BY <1>1, <1>2, <1>3, <1>4 DEF Megapages, Segments

(* The next megapage is the only one this step brings.                     *)
LEMMA BeforeNext ==
  ASSUME LoadInv, InSegment, NEW m \in Usize, m % MegaSize = 0
  PROVE  m < v + MegaSize <=> m < v \/ m = v
<1>1. m \in Nat /\ v \in Nat /\ v % MegaSize = 0 /\ MegaSize \in Nat \ {0}
  BY InsideFacts, SizeFacts
<1>2. v < m => v + MegaSize <= m
  BY <1>1, MultiplesApart
<1> QED
  BY <1>1, <1>2

-----------------------------------------------------------------------------
(* What the steps do to the table and to the frames.                       *)
Entries == [vaddr : Usize, perms : SUBSET Flags]
Frames == [0..(MegaSize - 1) -> Bytes]

LEMMA SequenceFacts ==
  ASSUME TypeOK
  PROVE  /\ table \in Seq(Entries) /\ Len(table) \in Nat /\ DOMAIN table = 1..Len(table)
         /\ mem \in Seq(Frames) /\ Len(mem) \in Nat /\ DOMAIN mem = 1..Len(mem)
         /\ \A k \in DOMAIN table : table[k] \in Entries
         /\ \A k \in DOMAIN mem : mem[k] \in Frames
<1>1. table \in Seq(Entries) /\ mem \in Seq(Frames)
  BY DEF TypeOK, Entries, Frames
<1> QED
  BY <1>1, LenProperties, ElementOfSeq

LEMMA Widened ==
  ASSUME LoadInv, WidenMegapage
  PROVE  \E k \in DOMAIN table :
           /\ table[k].vaddr = v
           /\ table' \in Seq(Entries) /\ Len(table') = Len(table)
           /\ DOMAIN table' = DOMAIN table
           /\ \A j \in DOMAIN table :
                /\ table'[j].vaddr = table[j].vaddr
                /\ table'[j].perms = IF j = k THEN table[j].perms \cup Seg.flags
                                     ELSE table[j].perms
<1>1. PICK k \in DOMAIN table :
        /\ table[k].vaddr = v
        /\ table' = [table EXCEPT ![k].perms = UnionPerms(@)]
  BY DEF WidenMegapage, Positions
<1>2. TypeOK /\ InSegment
  BY DEF LoadInv, WidenMegapage
<1>3. Seg.flags \subseteq Flags
  BY <1>2, InsideFacts, LoadedFacts DEF TypeOK, Seg
<1> DEFINE e == [table[k] EXCEPT !.perms = UnionPerms(@)]
<1>4. table[k] \in Entries
  BY <1>2, SequenceFacts
<1>5. e \in Entries /\ e.vaddr = table[k].vaddr /\ e.perms = table[k].perms \cup Seg.flags
  BY <1>3, <1>4 DEF Entries, UnionPerms
<1>6. table' = [table EXCEPT ![k] = e]
  BY <1>1
<1> HIDE DEF e
<1>7. k \in 1..Len(table) /\ table \in Seq(Entries) /\ DOMAIN table = 1..Len(table)
  BY <1>2, SequenceFacts
<1>8. /\ table' \in Seq(Entries) /\ Len(table') = Len(table)
      /\ \A j \in 1..Len(table) : table'[j] = IF j = k THEN e ELSE table[j]
  BY <1>5, <1>6, <1>7, ExceptSeq
<1>9. DOMAIN table' = DOMAIN table
  BY <1>6
<1> QED
  BY <1>1, <1>5, <1>7, <1>8, <1>9

LEMMA Added ==
  ASSUME LoadInv, AddMegapage
  PROVE  /\ table' \in Seq(Entries) /\ Len(table') = Len(table) + 1
         /\ DOMAIN table' = DOMAIN table \cup {Len(table) + 1}
         /\ Len(table) + 1 \notin DOMAIN table
         /\ \A j \in DOMAIN table : table'[j] = table[j]
         /\ table'[Len(table) + 1].vaddr = v /\ table'[Len(table) + 1].perms = Seg.flags
<1>1. TypeOK /\ InSegment
  BY DEF LoadInv, AddMegapage
<1>2. v \in Usize /\ Seg.flags \subseteq Flags
  BY <1>1, InsideFacts, LoadedFacts DEF TypeOK, Seg
<1> DEFINE e == [vaddr |-> v, perms |-> Seg.flags]
<1>3. e \in Entries /\ e.vaddr = v /\ e.perms = Seg.flags
  BY <1>2 DEF Entries
<1>4. table' = Append(table, e)
  BY DEF AddMegapage
<1> HIDE DEF e
<1>5. table \in Seq(Entries) /\ Len(table) \in Nat /\ DOMAIN table = 1..Len(table)
  BY <1>1, SequenceFacts
<1>6. /\ table' \in Seq(Entries) /\ Len(table') = Len(table) + 1
      /\ \A j \in 1..Len(table) : table'[j] = table[j]
      /\ table'[Len(table) + 1] = e
  BY <1>3, <1>4, <1>5, AppendProperties
<1>7. DOMAIN table' = 1..(Len(table) + 1)
  BY <1>6, LenProperties
<1> QED
  BY <1>3, <1>5, <1>6, <1>7

LEMMA Mapped ==
  ASSUME LoadInv, MapMegapage
  PROVE  /\ mem' \in Seq(Frames) /\ Len(mem') = Len(mem) + 1
         /\ \A k \in 1..Len(mem) : mem'[k] = mem[k]
         /\ mem'[Len(mem) + 1] = [b \in 0..(MegaSize - 1) |-> {}]
<1> DEFINE e == [b \in 0..(MegaSize - 1) |-> {}]
<1>1. e \in Frames
  BY DEF Frames, Bytes
<1>2. mem' = Append(mem, e)
  BY DEF MapMegapage
<1> HIDE DEF e
<1>3. mem \in Seq(Frames)
  BY SequenceFacts DEF LoadInv
<1>4. /\ mem' \in Seq(Frames) /\ Len(mem') = Len(mem) + 1
      /\ \A k \in 1..Len(mem) : mem'[k] = mem[k]
      /\ mem'[Len(mem) + 1] = e
  BY <1>1, <1>2, <1>3, AppendProperties
<1> QED
  BY <1>4 DEF e

(* The bounds of a copy are computed afresh for each megapage: it starts   *)
(* at or after the megapage's first byte, and ends at the latest where the *)
(* next begins and where the segment's bytes in the file do, even where    *)
(* one of these sums wraps, since what wraps gets smaller.                 *)
LEMMA CopyBounds ==
  ASSUME LoadInv, InSegment
  PROVE  /\ CopyLen \in Int /\ Within \in Nat /\ FileOffset \in Nat
         /\ CopyLen > 0 => /\ Within + CopyLen <= MegaSize
                           /\ FileOffset + CopyLen <= Seg.offset + Seg.filesz
                           /\ FileOffset + CopyLen <= file.len
<1>1. /\ v \in Nat /\ Seg.vaddr \in Nat /\ Seg.filesz \in Nat /\ Seg.offset \in Nat
      /\ Seg.offset + Seg.filesz <= file.len /\ file.len \in Nat
      /\ MegaSize \in Nat
  BY InsideFacts, LoadedFacts, FileFacts, SizeFacts DEF LoadInv, TypeOK, Seg
<1>2. Wrap(v + MegaSize) \in Nat /\ Wrap(v + MegaSize) <= v + MegaSize
  <2>1. v + MegaSize \in Nat
    BY <1>1
  <2> QED
    BY <2>1, WrapFacts
<1>3. FileEnd \in Nat /\ FileEnd <= Seg.vaddr + Seg.filesz
  <2>1. Seg.vaddr + Seg.filesz \in Nat
    BY <1>1
  <2> QED
    BY <2>1, WrapFacts DEF FileEnd
<1>4. CopyEnd \in Nat /\ CopyEnd <= v + MegaSize /\ CopyEnd <= Seg.vaddr + Seg.filesz
  BY <1>1, <1>2, <1>3 DEF CopyEnd, Smaller
<1>5. CopyStart \in Nat /\ v <= CopyStart /\ Seg.vaddr <= CopyStart
  BY <1>1 DEF CopyStart
<1>6. /\ FileOffset \in Nat
      /\ FileOffset <= Seg.offset + (CopyStart - Seg.vaddr)
  <2>1. Seg.offset + (CopyStart - Seg.vaddr) \in Nat
    BY <1>1, <1>5
  <2> QED
    BY <2>1, WrapFacts DEF FileOffset
<1> QED
  BY <1>1, <1>4, <1>5, <1>6 DEF Within, CopyLen

LEMMA CopiedType ==
  ASSUME LoadInv, InSegment, NEW frame \in Frames
  PROVE  Copied(frame) \in Frames
<1>1. DOMAIN frame = 0..(MegaSize - 1) /\ MegaSize \in Nat /\ \A b \in 0..(MegaSize - 1) : frame[b] \in Bytes
  BY SizeFacts DEF Frames
<1>2. ASSUME NEW b \in 0..(MegaSize - 1), b >= Within, b < Within + CopyLen
      PROVE  {FileOffset + b - Within} \in Bytes
  <2>1. b \in Nat /\ CopyLen \in Int /\ Within \in Nat /\ FileOffset \in Nat /\ CopyLen > 0
    BY <1>2, CopyBounds
  <2>2. /\ FileOffset + CopyLen <= file.len
        /\ file.len \in Nat /\ 2 * file.len < Modulus /\ Modulus \in Nat
    BY <2>1, CopyBounds, FileFacts, SizeFacts DEF LoadInv, TypeOK
  <2>3. FileOffset + b - Within \in Nat /\ FileOffset + b - Within < Modulus
    BY <1>2, <2>1, <2>2
  <2>4. FileOffset + b - Within \in Usize
    BY <2>2, <2>3 DEF Usize
  <2> QED
    BY <2>4 DEF Bytes
<1> QED
  BY <1>1, <1>2 DEF Copied, Frames

LEMMA CopyStep ==
  ASSUME LoadInv, CopyMegapage
  PROVE  \E k \in DOMAIN table :
           /\ k \in DOMAIN mem /\ table[k].vaddr = v
           /\ mem' \in Seq(Frames) /\ Len(mem') = Len(mem) /\ DOMAIN mem' = DOMAIN mem
           /\ mem'[k] = Copied(mem[k])
           /\ \A j \in DOMAIN mem : j # k => mem'[j] = mem[j]
<1>1. TypeOK /\ InSegment /\ Len(mem) = Len(table)
  BY DEF LoadInv, CopyMegapage, Walking
<1>2. PICK k \in DOMAIN table :
        table[k].vaddr = v /\ mem' = [mem EXCEPT ![k] = Copied(@)]
  BY DEF CopyMegapage, Positions
<1>3. k \in DOMAIN mem /\ k \in 1..Len(mem) /\ mem \in Seq(Frames) /\ DOMAIN mem = 1..Len(mem)
  BY <1>1, SequenceFacts
<1>4. Copied(mem[k]) \in Frames
  BY <1>1, <1>3, SequenceFacts, CopiedType
<1> DEFINE e == Copied(mem[k])
<1>5. mem' = [mem EXCEPT ![k] = e] /\ e \in Frames
  BY <1>2, <1>4
<1> HIDE DEF e
<1>6. /\ mem' \in Seq(Frames) /\ Len(mem') = Len(mem)
      /\ \A j \in 1..Len(mem) : mem'[j] = IF j = k THEN e ELSE mem[j]
  BY <1>3, <1>5, ExceptSeq
<1>7. DOMAIN mem' = DOMAIN mem
  BY <1>5
<1>8. mem'[k] = Copied(mem[k])
  BY <1>3, <1>6 DEF e
<1> QED
  BY <1>2, <1>3, <1>6, <1>7, <1>8

-----------------------------------------------------------------------------
(* The invariant holds at the start and is kept by every step.             *)

LEMMA LoadInvInit == Init => LoadInv
<1> SUFFICES ASSUME Init PROVE LoadInv
  OBVIOUS
<1>1. /\ file \in Files /\ pc = "header" /\ i = 0 /\ v = Outside /\ table = <<>> /\ mem = <<>>
  BY DEF Init
<1>2. file.phnum \in Nat /\ MAX_PROGRAM_MEGAPAGES \in Nat
  BY <1>1, FileFacts, SizesAssumption
<1>3. TypeOK
  BY <1>1, <1>2 DEF TypeOK
<1>4. Walking
  BY <1>1 DEF Walking
<1>5. Passed = {}
  BY <1>1 DEF Passed
<1>6. Checked
  BY <1>5 DEF Checked
<1>7. {table[k].vaddr : k \in DOMAIN table} = {}
  BY <1>1
<1>8. \A m : Visited(m) = {}
  BY <1>1, <1>5 DEF Visited
<1>9. Listed
  BY <1>7, <1>8 DEF Listed
<1> QED
  BY <1>3, <1>4, <1>6, <1>9 DEF LoadInv

LEMMA TypeStep ==
  ASSUME LoadInv, [Next]_vars
  PROVE  TypeOK'
<1>1. TypeOK
  BY DEF LoadInv
<1>2. file.phnum \in Nat /\ DOMAIN file.raw = 0..(file.phnum - 1)
  BY <1>1, FileFacts DEF TypeOK
<1>3. CASE SkipSegment \/ LeaveSegment
  <2>1. i < file.phnum /\ i' = i + 1 /\ (v' = v \/ v' = Outside) /\ UNCHANGED <<file, pc, table, mem>>
    BY <1>3 DEF SkipSegment, LeaveSegment, InPass
  <2> QED
    BY <1>1, <1>2, <2>1 DEF TypeOK
<1>4. CASE EnterSegment
  <2>1. i < file.phnum /\ v' = SegStart(Seg) /\ UNCHANGED <<file, pc, i, table, mem>>
    BY <1>4 DEF EnterSegment, InPass
  <2>2. i \in DOMAIN file.raw
    BY <1>1, <1>2, <2>1 DEF TypeOK
  <2>3. SegStart(Seg) \in Usize
    BY <1>1, <2>2, SegmentBounds DEF TypeOK, Seg
  <2> QED
    BY <1>1, <2>1, <2>3 DEF TypeOK
<1>5. CASE WidenMegapage
  <2>1. InSegment /\ v' = v + MegaSize /\ UNCHANGED <<file, pc, i, mem>>
    BY <1>5 DEF WidenMegapage, Advance
  <2>2. v' \in Usize
    BY <2>1, InsideFacts
  <2>3. table' \in Seq(Entries) /\ Len(table') = Len(table)
    BY <1>5, Widened
  <2> QED
    BY <1>1, <2>1, <2>2, <2>3 DEF TypeOK, Entries
<1>6. CASE AddMegapage
  <2>1. InSegment /\ v' = v + MegaSize /\ UNCHANGED <<file, pc, i, mem>> /\ ~TableFull
    BY <1>6 DEF AddMegapage, Advance
  <2>2. v' \in Usize
    BY <2>1, InsideFacts
  <2>3. table' \in Seq(Entries) /\ Len(table') = Len(table) + 1
    BY <1>6, Added
  <2>4. Len(table') <= MAX_PROGRAM_MEGAPAGES /\ Len(mem') <= Len(table')
    BY <1>1, <2>1, <2>3, SequenceFacts, SizesAssumption DEF TypeOK, TableFull
  <2> QED
    BY <1>1, <2>1, <2>2, <2>3, <2>4 DEF TypeOK, Entries
<1>7. CASE NextPass
  <2>1. pc' \in {"map", "copy", "done"} /\ i' = 0 /\ UNCHANGED <<file, v, table, mem>>
    BY <1>7 DEF NextPass
  <2> QED
    BY <1>1, <1>2, <2>1 DEF TypeOK
<1>8. CASE MapMegapage
  <2>1. Len(mem) < Len(table) /\ UNCHANGED <<file, pc, i, v, table>>
    BY <1>8 DEF MapMegapage
  <2>2. mem' \in Seq(Frames) /\ Len(mem') = Len(mem) + 1
    BY <1>8, Mapped
  <2>3. Len(mem') <= Len(table')
    BY <1>1, <2>1, <2>2, SequenceFacts
  <2> QED
    BY <1>1, <2>1, <2>2, <2>3 DEF TypeOK, Frames
<1>9. CASE CopyMegapage
  <2>1. InSegment /\ v' = v + MegaSize /\ UNCHANGED <<file, pc, i, table>>
    BY <1>9 DEF CopyMegapage, Advance
  <2>2. v' \in Usize
    BY <2>1, InsideFacts
  <2>3. mem' \in Seq(Frames) /\ Len(mem') = Len(mem)
    BY <1>9, CopyStep
  <2> QED
    BY <1>1, <2>1, <2>2, <2>3 DEF TypeOK, Frames
<1>10. CASE ParseHeader \/ Panic \/ UNCHANGED vars
  <2>1. pc' \in {"collect", "panicked", pc} /\ UNCHANGED <<file, i, v, table, mem>>
    BY <1>10 DEF ParseHeader, Panic, vars
  <2> QED
    BY <1>1, <2>1 DEF TypeOK
<1> QED
  BY <1>3, <1>4, <1>5, <1>6, <1>7, <1>8, <1>9, <1>10 DEF Next

LEMMA WalkingStep ==
  ASSUME LoadInv, [Next]_vars
  PROVE  Walking' /\ Checked'
<1>1. TypeOK /\ Walking /\ Checked
  BY DEF LoadInv
<1>2. /\ file.phnum \in Nat /\ DOMAIN file.raw = 0..(file.phnum - 1)
      /\ i \in 0..file.phnum /\ Outside = -1
  BY <1>1, FileFacts DEF TypeOK, Outside
<1>3. CASE SkipSegment \/ LeaveSegment
  <2>1. /\ i < file.phnum /\ pc \in {"collect", "copy"}
        /\ i' = i + 1 /\ v' = Outside /\ UNCHANGED <<file, pc, table, mem>>
    BY <1>3 DEF SkipSegment, LeaveSegment, InPass
  <2>2. Walking'
    BY <1>1, <2>1 DEF Walking
  <2>3. i \in DOMAIN file.raw /\ ~Rejected(file, i)
    BY <1>1, <1>2, <1>3, <2>1 DEF SkipSegment, LeaveSegment, Skipped, Loaded, Walking
  <2>4. Passed' \subseteq Passed \cup {i}
    BY <1>2, <2>1 DEF Passed
  <2>5. Checked'
    BY <1>1, <2>1, <2>3, <2>4 DEF Checked
  <2> QED
    BY <2>2, <2>5
<1>4. CASE EnterSegment
  <2>1. /\ i < file.phnum /\ pc \in {"collect", "copy"} /\ Loaded(file, i)
        /\ v' = SegStart(Seg) /\ UNCHANGED <<file, pc, i, table, mem>>
    BY <1>4 DEF EnterSegment, InPass
  <2>2. i \in DOMAIN file.raw
    BY <1>2, <2>1
  <2>3. /\ SegStart(Seg) \in Usize /\ SegStart(Seg) % MegaSize = 0
        /\ SegStart(Seg) <= SegStart(Seg)
    <3>1. SegStart(Seg) \in Usize /\ SegStart(Seg) % MegaSize = 0
      BY <1>1, <2>2, SegmentBounds DEF TypeOK, Seg
    <3>2. SegStart(Seg) \in Nat
      BY <3>1, SizeFacts
    <3>3. \A n \in Nat : n <= n
      OBVIOUS
    <3> QED
      BY <3>1, <3>2, <3>3
  <2>4. Seg' = Seg /\ SegStart(Seg)' = SegStart(Seg)
    BY <2>1 DEF Seg, SegStart
  <2>5. Walking'
    BY <1>1, <2>1, <2>2, <2>3, <2>4 DEF Walking
  <2>6. Checked'
    BY <1>1, <2>1 DEF Checked, Passed
  <2> QED
    BY <2>5, <2>6
<1>5. CASE WidenMegapage \/ AddMegapage \/ CopyMegapage
  <2>1. /\ InSegment /\ v' = v + MegaSize /\ UNCHANGED <<file, pc, i>>
        /\ \/ pc = "collect" /\ mem' = mem
           \/ pc = "copy" /\ table' = table
    BY <1>5 DEF WidenMegapage, AddMegapage, CopyMegapage, Advance
  <2>2. /\ i \in DOMAIN file.raw /\ Loaded(file, i) /\ v \in Nat
        /\ v' \in Usize /\ v' % MegaSize = 0
    BY <2>1, InsideFacts
  <2>3. SegStart(Seg) <= v /\ SegStart(Seg) \in Nat
    BY <1>1, <2>1, <2>2, SegmentBounds, SizeFacts DEF Walking, InSegment, TypeOK, Seg
  <2>4. SegStart(Seg) <= v'
    BY <2>1, <2>2, <2>3, SizeFacts
  <2>5. SegStart(Seg)' = SegStart(Seg)
    BY <2>1 DEF Seg, SegStart
  <2>6. pc = "copy" => Len(mem') = Len(table')
    <3>1. pc = "copy" => CopyMegapage
      BY <1>5 DEF WidenMegapage, AddMegapage
    <3> QED
      BY <1>1, <2>1, <3>1, CopyStep DEF Walking
  <2>7. Walking'
    BY <1>1, <2>1, <2>2, <2>4, <2>5, <2>6 DEF Walking
  <2>8. Checked'
    BY <1>1, <2>1 DEF Checked, Passed
  <2> QED
    BY <2>7, <2>8
<1>6. CASE NextPass
  <2>1. /\ i' = 0 /\ UNCHANGED <<file, v, table, mem>>
        /\ \/ pc = "collect" /\ i = file.phnum /\ pc' = "map"
           \/ pc = "map" /\ Len(mem) = Len(table) /\ pc' = "copy"
           \/ pc = "copy" /\ i = file.phnum /\ pc' = "done"
    BY <1>6 DEF NextPass
  <2>2. v = Outside
    BY <1>1, <1>2, <2>1 DEF Walking
  <2>3. Walking'
    BY <1>1, <2>1, <2>2 DEF Walking
  <2>4. Passed' = Passed
    BY <1>2, <2>1 DEF Passed
  <2>5. Checked'
    BY <1>1, <2>1, <2>4 DEF Checked
  <2> QED
    BY <2>3, <2>5
<1>7. CASE MapMegapage
  <2>1. pc = "map" /\ UNCHANGED <<file, pc, i, v, table>>
    BY <1>7 DEF MapMegapage
  <2> QED
    BY <1>1, <2>1 DEF Walking, Checked, Passed
<1>8. CASE ParseHeader
  <2>1. pc = "header" /\ pc' = "collect" /\ UNCHANGED <<file, i, v, table, mem>>
    BY <1>8 DEF ParseHeader
  <2> QED
    BY <1>1, <2>1 DEF Walking, Checked, Passed
<1>9. CASE Panic
  <2>1. pc' = "panicked" /\ UNCHANGED <<file, i, v, table, mem>>
    BY <1>9 DEF Panic
  <2> QED
    BY <1>1, <2>1 DEF Walking, Checked, Passed
<1>10. CASE UNCHANGED vars
  <2>1. UNCHANGED <<file, pc, i, v, table, mem>>
    BY <1>10 DEF vars
  <2> QED
    BY <1>1, <2>1 DEF Walking, Checked, Passed, Seg, SegStart
<1> QED
  BY <1>3, <1>4, <1>5, <1>6, <1>7, <1>8, <1>9, <1>10 DEF Next

(* The segments visited change only by the megapage a step of pass 1 is at.*)
LEMMA VisitedKept ==
  ASSUME LoadInv, [Next]_vars, pc' # "panicked", ~WidenMegapage, ~AddMegapage,
         NEW m \in Usize
  PROVE  Visited(m)' = Visited(m)
<1>1. TypeOK /\ Walking /\ m \in Nat /\ ~(m < Outside)
  BY SizeFacts DEF LoadInv, Outside
<1>2. /\ file.phnum \in Nat /\ DOMAIN file.raw = 0..(file.phnum - 1)
      /\ i \in 0..file.phnum
  BY <1>1, FileFacts DEF TypeOK
<1>3. file' = file
  BY DEF Next, ParseHeader, SkipSegment, EnterSegment, LeaveSegment, WidenMegapage,
         AddMegapage, NextPass, MapMegapage, CopyMegapage, Panic, vars
<1>4. Segments' = Segments /\ \A k : Megapages(file.raw[k])' = Megapages(file.raw[k])
  BY <1>3 DEF Segments, Megapages, SegStart, SegEnd
<1> DEFINE Here(k) == k \in Passed \/ (pc = "collect" /\ k = i /\ m < v)
<1>5. ASSUME NEW k \in Segments, m \in Megapages(file.raw[k])
      PROVE  Here(k)' <=> Here(k)
  <2>1. k \in DOMAIN file.raw /\ k \in Nat /\ Loaded(file, k)
    BY <1>2, <1>5 DEF Segments
  <2>2. CASE SkipSegment
    <3>1. i' = i + 1 /\ UNCHANGED <<pc, v>> /\ v = Outside /\ k # i /\ pc \in {"collect", "copy"}
      BY <2>1, <2>2, SizeFacts DEF SkipSegment, InPass, Skipped, Loaded, Skippable, PT_LOAD
    <3>2. k \in Passed' <=> k \in Passed
      BY <1>2, <1>3, <2>1, <3>1 DEF Passed
    <3> QED
      BY <1>1, <3>1, <3>2
  <2>3. CASE EnterSegment
    <3>1. v' = SegStart(Seg) /\ UNCHANGED <<pc, i>> /\ v = Outside
      BY <2>3 DEF EnterSegment
    <3>2. k \in Passed' <=> k \in Passed
      BY <1>3, <3>1 DEF Passed
    <3>3. k = i => ~(m < v')
      <4>1. k = i => SegStart(Seg) <= m /\ SegStart(Seg) \in Nat
        BY <1>1, <1>5, <2>1, SegmentBounds, SizeFacts DEF Megapages, Seg, TypeOK
      <4> QED
        BY <1>1, <3>1, <4>1
    <3> QED
      BY <1>1, <3>1, <3>2, <3>3
  <2>4. CASE LeaveSegment
    <3>1. /\ i' = i + 1 /\ pc' = pc /\ v' = Outside /\ v >= SegEnd(Seg) /\ v # Outside
          /\ pc \in {"collect", "copy"}
      BY <2>4 DEF LeaveSegment, InPass
    <3>2. CASE pc = "copy"
      BY <1>3, <3>1, <3>2 DEF Passed
    <3>3. CASE pc = "collect"
      <4>1. k \in Passed' <=> k \in Passed \/ k = i
        BY <1>2, <2>1, <3>1, <3>3 DEF Passed
      <4>2. k = i => m < v
        <5>1. k = i => m < SegEnd(Seg) /\ SegEnd(Seg) \in Nat /\ v \in Nat
          BY <1>1, <1>5, <2>1, <3>1, SegmentBounds, SizeFacts DEF Megapages, Seg, TypeOK
        <5> QED
          BY <1>1, <3>1, <5>1
      <4> QED
        BY <1>1, <3>1, <3>3, <4>1, <4>2
    <3> QED
      BY <3>1, <3>2, <3>3
  <2>5. CASE CopyMegapage
    BY <1>3, <2>5 DEF CopyMegapage, Passed
  <2>6. CASE NextPass
    <3>1. /\ i' = 0 /\ v' = v /\ v = Outside
          /\ \/ pc = "collect" /\ i = file.phnum /\ pc' = "map"
             \/ pc = "map" /\ pc' = "copy"
             \/ pc = "copy" /\ pc' = "done"
      BY <1>1, <1>2, <2>6 DEF NextPass, Walking
    <3>2. k \in Passed' <=> k \in Passed
      BY <1>2, <1>3, <2>1, <3>1 DEF Passed
    <3> QED
      BY <1>1, <3>1, <3>2
  <2>7. CASE MapMegapage
    BY <1>3, <2>7 DEF MapMegapage, Passed
  <2>8. CASE ParseHeader
    <3>1. pc = "header" /\ pc' = "collect" /\ i = 0 /\ v = Outside /\ UNCHANGED <<i, v>>
      BY <1>1, <2>8 DEF ParseHeader, Walking
    <3> QED
      BY <1>1, <2>1, <3>1 DEF Passed
  <2>9. CASE UNCHANGED vars
    BY <1>3, <2>9 DEF vars, Passed
  <2>10. ~Panic
    BY DEF Panic
  <2> QED
    BY <2>2, <2>3, <2>4, <2>5, <2>6, <2>7, <2>8, <2>9, <2>10 DEF Next
<1> QED
  BY <1>4, <1>5 DEF Visited

LEMMA VisitedGrows ==
  ASSUME LoadInv, WidenMegapage \/ AddMegapage, NEW m \in Usize
  PROVE  Visited(m)' = IF m = v THEN Visited(m) \cup {i} ELSE Visited(m)
<1>1. /\ InSegment /\ pc = "collect" /\ v' = v + MegaSize /\ UNCHANGED <<file, pc, i>>
  BY DEF WidenMegapage, AddMegapage, Advance
<1>2. Segments' = Segments /\ \A k : Megapages(file.raw[k])' = Megapages(file.raw[k])
  BY <1>1 DEF Segments, Megapages, SegStart, SegEnd
<1>3. Passed' = Passed
  BY <1>1 DEF Passed
<1>4. i \in Segments /\ v \in Megapages(file.raw[i])
  BY <1>1, InsideFacts DEF Seg
<1>5. v \in Nat /\ ~(v < v)
  BY <1>1, InsideFacts
<1>6. m \in Megapages(file.raw[i]) => (m < v' <=> m < v \/ m = v)
  BY <1>1, BeforeNext DEF Megapages
<1> QED
  BY <1>1, <1>2, <1>3, <1>4, <1>5, <1>6 DEF Visited

LEMMA ListedStep ==
  ASSUME LoadInv, [Next]_vars
  PROVE  Listed'
<1> DEFINE Vaddrs == {table[k].vaddr : k \in DOMAIN table}
           Met == {m \in Usize : Visited(m) # {}}
<1>1. TypeOK /\ (pc # "panicked" => Vaddrs = Met)
  BY DEF LoadInv, Listed
<1>2. CASE pc' = "panicked"
  BY <1>2 DEF Listed
<1>3. CASE WidenMegapage \/ AddMegapage
  <2>1. InSegment /\ pc = "collect" /\ v \in Usize
    BY <1>3, InsideFacts DEF WidenMegapage, AddMegapage
  <2>2. Met' = Met \cup {v}
    BY <1>3, <2>1, VisitedGrows
  <2>3. Vaddrs' = Vaddrs \cup {v}
    <3>1. CASE WidenMegapage
      <4>1. PICK k \in DOMAIN table :
              /\ table[k].vaddr = v /\ DOMAIN table' = DOMAIN table
              /\ \A j \in DOMAIN table : table'[j].vaddr = table[j].vaddr
        BY <3>1, Widened
      <4> QED
        BY <4>1
    <3>2. CASE AddMegapage
      <4>1. /\ DOMAIN table' = DOMAIN table \cup {Len(table) + 1}
            /\ Len(table) + 1 \notin DOMAIN table
            /\ \A j \in DOMAIN table : table'[j] = table[j]
            /\ table'[Len(table) + 1].vaddr = v
        BY <3>2, Added
      <4> QED
        BY <4>1
    <3> QED
      BY <1>3, <3>1, <3>2
  <2> QED
    BY <1>1, <2>1, <2>2, <2>3 DEF Listed
<1>4. CASE pc' # "panicked" /\ ~WidenMegapage /\ ~AddMegapage
  <2>1. Met' = Met
    BY <1>4, VisitedKept
  <2>2. table' = table /\ pc # "panicked"
    BY <1>4 DEF Next, ParseHeader, SkipSegment, EnterSegment, LeaveSegment, NextPass, InPass,
         MapMegapage, CopyMegapage, Panic, vars
  <2>3. Vaddrs' = Vaddrs
    BY <2>2
  <2> QED
    BY <1>1, <2>1, <2>2, <2>3 DEF Listed
<1> QED
  BY <1>2, <1>3, <1>4

LEMMA LoadInvNext ==
  ASSUME LoadInv, [Next]_vars
  PROVE  LoadInv'
  BY TypeStep, WalkingStep, ListedStep DEF LoadInv

THEOREM LoadInvariance == Spec => []LoadInv
  BY LoadInvInit, LoadInvNext, PTL DEF Spec

-----------------------------------------------------------------------------
(* The table never holds more than it has room for, and every address the  *)
(* loops come to is one usize can hold: no `v += mega` wraps               *)
(* (launch.rs:402-499), whatever the headers say.                          *)
THEOREM TypeCorrect == Spec => []TypeOK
<1>1. LoadInv => TypeOK
  BY DEF LoadInv
<1> QED
  BY <1>1, LoadInvariance, PTL

(* program_header (elf.rs) accepts only what lies inside the file, whatever*)
(* the offsets and sizes in the headers, although the offsets of the       *)
(* fields are added without a check.                                       *)
THEOREM ReaderStaysInside == Spec => []AcceptedIsInside
<1>1. file \in Files => AcceptedIsInside
  BY HeaderInside, LoadedFacts DEF AcceptedIsInside
<1>2. LoadInv => AcceptedIsInside
  BY <1>1 DEF LoadInv, TypeOK
<1> QED
  BY <1>2, LoadInvariance, PTL

(* Whatever a file's headers say, wrapped or not: the unsafe copy of pass  *)
(* 3 (launch.rs:484-496) writes inside the frame of its megapage.          *)
THEOREM CopiesInsideFrames == Spec => []CopyStaysInFrame
<1>1. LoadInv => CopyStaysInFrame
  <2>1. \A n \in Nat : n >= 0
    OBVIOUS
  <2> QED
    BY <2>1, CopyBounds DEF CopyStaysInFrame
<1> QED
  BY <1>1, LoadInvariance, PTL

LEMMA NoLatePanic ==
  ASSUME LoadInv, pc = "copy"
  PROVE  ~Refused
<1>1. TypeOK /\ Checked /\ Listed
  BY DEF LoadInv
<1>2. ASSUME InPass PROVE ~Rejected(file, i)
  <2>1. i \in DOMAIN file.raw
    BY <1>1, <1>2, FileFacts DEF InPass, TypeOK
  <2> QED
    BY <1>1, <2>1 DEF Checked, Passed
<1>3. ASSUME InSegment PROVE Positions # {} /\ SourceInFile
  <2>1. /\ i \in DOMAIN file.raw /\ i \in Segments
        /\ v \in Usize /\ v \in Megapages(Seg)
    BY <1>3, InsideFacts
  <2>2. i \in Visited(v)
    BY <2>1 DEF Visited, Passed, Seg
  <2>3. PICK k \in DOMAIN table : table[k].vaddr = v
    BY <1>1, <2>1, <2>2 DEF Listed
  <2>4. k \in Positions
    BY <2>3 DEF Positions
  <2>5. SourceInFile
    BY <1>3, CopyBounds DEF SourceInFile
  <2> QED
    BY <2>4, <2>5
<1> QED
  BY <1>2, <1>3 DEF Refused

(* Pass 3 meets only headers pass 1 has accepted, finds the frame of every *)
(* megapage it comes to, and slices the file inside it: none of its        *)
(* `.expect()`s can fail (launch.rs:457-493), whatever the file.           *)
THEOREM LaterPassesAgree == Spec => []PassesAgree
<1>1. LoadInv => PassesAgree
  BY NoLatePanic DEF PassesAgree
<1> QED
  BY <1>1, LoadInvariance, PTL

-----------------------------------------------------------------------------
Vaddrs == {table[k].vaddr : k \in DOMAIN table}

(* Each entry has the permissions of the segments visited there, no two    *)
(* are for the same megapage, and so they can be counted.                  *)
Permitted ==
  pc # "panicked" =>
    \A k \in DOMAIN table : \A m \in Usize :
      table[k].vaddr = m => table[k].perms = UNION {file.raw[j].flags : j \in Visited(m)}
Distinct == \A j, k \in DOMAIN table : table[j].vaddr = table[k].vaddr => j = k
Counted == IsFiniteSet(Vaddrs) /\ Cardinality(Vaddrs) = Len(table)

(* The segments pass 3 has copied the byte at address a of; and what the   *)
(* last of some segments puts there.                                       *)
Written(a) ==
  IF pc = "copy" THEN {k \in Covering(a) : k < i \/ (k = i /\ a < v)}
  ELSE IF pc = "done" THEN Covering(a) ELSE {}
ByteOf(ks, a) ==
  IF ks = {} THEN {} ELSE {file.raw[Latest(ks)].offset + a - file.raw[Latest(ks)].vaddr}
Filled ==
  AddressesFit /\ pc # "panicked" =>
    \A k \in DOMAIN mem : \A b \in 0..(MegaSize - 1) : \A a \in Nat :
      a = table[k].vaddr + b => mem[k][b] = ByteOf(Written(a), a)

(* What a load that has come this far has shown of the file, and one that  *)
(* has panicked.                                                           *)
Parsed == pc \in {"collect", "map", "copy", "done"} => HeaderParses(file)
Untaken == \A k \in DOMAIN mem : table[k].vaddr \notin Occupied
Justified == AddressesFit /\ pc = "panicked" => ~CanLoad

ImageInv ==
  /\ LoadInv
  /\ Permitted /\ Distinct /\ Counted /\ Filled /\ Parsed /\ Untaken /\ Justified

-----------------------------------------------------------------------------
(* Where no segment wraps, the megapages the loops visit are those that    *)
(* the segment meets.                                                      *)

LEMMA EndFits ==
  ASSUME file \in Files, AddressesFit, NEW k \in Segments
  PROVE  LET s == file.raw[k]
         IN  /\ s.vaddr \in Nat /\ s.memsz \in Nat
             /\ SegEnd(s) = RoundDown(s.vaddr + s.memsz + MegaSize - 1, MegaSize)
<1> DEFINE s == file.raw[k]
           e == s.vaddr + s.memsz
<1>1. k \in DOMAIN file.raw /\ s.vaddr \in Nat /\ s.memsz \in Nat
  BY LoadedFacts DEF Segments
<1>2. e + MegaSize <= Modulus
  BY DEF AddressesFit
<1>3. e \in Nat
  BY <1>1
<1> HIDE DEF e
<1>4. e < Modulus /\ e + MegaSize - 1 \in Nat /\ e + MegaSize - 1 < Modulus
  BY <1>2, <1>3, SizeFacts
<1>5. Wrap(e) = e /\ Wrap(e + MegaSize - 1) = e + MegaSize - 1
  BY <1>3, <1>4, WrapFacts
<1>6. SegEnd(s) = RoundDown(Wrap(Wrap(e) + MegaSize - 1), MegaSize)
  BY DEF SegEnd, WrappingRoundUp, e
<1>7. SegEnd(s) = RoundDown(e + MegaSize - 1, MegaSize)
  BY <1>5, <1>6
<1> QED
  BY <1>1, <1>7 DEF e

LEMMA MeetsExactly ==
  ASSUME file \in Files, AddressesFit, NEW k \in Segments,
         NEW m \in Usize, m % MegaSize = 0
  PROVE  m \in Megapages(file.raw[k]) <=> Meets(file.raw[k], m)
<1> DEFINE s == file.raw[k]
           y == s.vaddr + s.memsz + MegaSize - 1
           e == RoundDown(y, MegaSize)
           b == SegStart(s)
<1>1. /\ k \in DOMAIN file.raw /\ s.vaddr \in Nat /\ s.memsz \in Nat /\ m \in Nat
      /\ MegaSize \in Nat \ {0} /\ SegEnd(s) = e
  BY EndFits, SizeFacts DEF Segments
<1>2. y \in Nat /\ y = s.vaddr + s.memsz + MegaSize - 1
  BY <1>1
<1> HIDE DEF y
<1>3. e \in Nat /\ e % MegaSize = 0 /\ e <= y /\ y < e + MegaSize
  BY <1>1, <1>2, RoundDownFacts
<1>4. b \in Nat /\ b % MegaSize = 0 /\ b <= s.vaddr /\ s.vaddr < b + MegaSize
  BY <1>1, SegmentBounds, SizeFacts
<1> HIDE DEF e, b
<1>5. m < e <=> m < s.vaddr + s.memsz
  <2>1. m < e => m + MegaSize <= e
    BY <1>1, <1>3, MultiplesApart
  <2>2. ~(m < e) => s.vaddr + s.memsz <= m
    <3>1. SUFFICES ASSUME e <= m PROVE s.vaddr + s.memsz <= m
      BY <1>1, <1>3
    <3> QED
      BY <1>1, <1>2, <1>3, <3>1
  <2> QED
    BY <1>1, <1>2, <1>3, <2>1, <2>2
<1>6. b <= m <=> s.vaddr < m + MegaSize
  <2>1. m < b => m + MegaSize <= b
    BY <1>1, <1>4, MultiplesApart
  <2> QED
    BY <1>1, <1>4, <2>1
<1>7. m \in Megapages(s) <=> b <= m /\ m < e
  BY <1>1 DEF Megapages, b
<1>8. Meets(s, m) <=> m < s.vaddr + s.memsz /\ s.vaddr < m + MegaSize
  BY DEF Meets
<1> QED
  BY <1>5, <1>6, <1>7, <1>8

(* After pass 1, and where nothing wraps, what was visited is what an ELF  *)
(* reader would say is needed.                                             *)
LEMMA VisitedIsMeeting ==
  ASSUME LoadInv, AddressesFit, pc \in {"map", "copy", "done"},
         NEW m \in Usize, m % MegaSize = 0
  PROVE  Visited(m) = Meeting(m)
<1>1. Passed = DOMAIN file.raw /\ file \in Files
  BY DEF Passed, LoadInv, TypeOK
<1>2. \A k \in Segments : m \in Megapages(file.raw[k]) <=> Meets(file.raw[k], m)
  BY <1>1, MeetsExactly
<1> QED
  BY <1>1, <1>2 DEF Visited, Meeting, Segments

LEMMA VisitedAligned ==
  ASSUME NEW m, Visited(m) # {}
  PROVE  m \in Usize /\ m % MegaSize = 0
  BY DEF Visited, Megapages

LEMMA ListedIsNeeded ==
  ASSUME LoadInv, AddressesFit, pc \in {"map", "copy", "done"}
  PROVE  Vaddrs = Needed
<1>1. Vaddrs = {m \in Usize : Visited(m) # {}}
  BY DEF LoadInv, Listed, Vaddrs
<1>2. ASSUME NEW m \in Usize
      PROVE  Visited(m) # {} <=> m % MegaSize = 0 /\ Meeting(m) # {}
  BY VisitedAligned, VisitedIsMeeting
<1> QED
  BY <1>1, <1>2 DEF Needed

(* While pass 1 goes on, what was visited is needed.                       *)
LEMMA VisitedIsNeeded ==
  ASSUME LoadInv, AddressesFit, NEW m, Visited(m) # {}
  PROVE  m \in Needed
<1>1. m \in Usize /\ m % MegaSize = 0 /\ file \in Files
  BY VisitedAligned DEF LoadInv, TypeOK
<1>2. PICK k \in Segments : m \in Megapages(file.raw[k])
  BY DEF Visited
<1>3. k \in Meeting(m)
  BY <1>1, <1>2, MeetsExactly DEF Meeting
<1> QED
  BY <1>1, <1>3 DEF Needed

LEMMA NeededFinite == IsFiniteSet(Needed) /\ Cardinality(Needed) \in Nat
<1>1. IsFiniteSet(Usize)
  BY SizeFacts, FS_Interval DEF Usize
<1> QED
  BY <1>1, FS_Subset, FS_CardinalityType DEF Needed

-----------------------------------------------------------------------------
(* The steps.                                                              *)

LEMMA ImageInvInit == Init => ImageInv
<1> SUFFICES ASSUME Init PROVE ImageInv
  OBVIOUS
<1>1. pc = "header" /\ table = <<>> /\ mem = <<>> /\ DOMAIN table = {} /\ DOMAIN mem = {}
  BY DEF Init
<1>2. Vaddrs = {} /\ Len(table) = 0
  BY <1>1 DEF Vaddrs
<1> QED
  BY <1>1, <1>2, LoadInvInit, FS_EmptySet
  DEF ImageInv, Permitted, Distinct, Counted, Filled, Parsed, Untaken, Justified

(* Only pass 1 touches the table.                                          *)
LEMMA TableKept ==
  ASSUME [Next]_vars
  PROVE  /\ file' = file
         /\ WidenMegapage \/ AddMegapage \/ table' = table
         /\ MapMegapage \/ CopyMegapage \/ mem' = mem
         /\ pc = "panicked" => pc' = "panicked"
  BY DEF Next, ParseHeader, SkipSegment, EnterSegment, LeaveSegment, WidenMegapage,
         AddMegapage, NextPass, MapMegapage, CopyMegapage, Panic, vars, InPass, InSegment, Refused

LEMMA TableStep ==
  ASSUME ImageInv, [Next]_vars
  PROVE  Permitted' /\ Distinct' /\ Counted'
<1>1. LoadInv /\ Permitted /\ Distinct /\ Counted /\ file' = file
  BY TableKept DEF ImageInv
<1>2. DOMAIN table = 1..Len(table) /\ Len(table) \in Nat /\ \A k \in DOMAIN table : table[k] \in Entries
  BY <1>1, SequenceFacts DEF LoadInv
<1>3. CASE WidenMegapage
  <2>1. PICK k \in DOMAIN table :
          /\ table[k].vaddr = v
          /\ Len(table') = Len(table) /\ DOMAIN table' = DOMAIN table
          /\ \A j \in DOMAIN table :
               /\ table'[j].vaddr = table[j].vaddr
               /\ table'[j].perms = IF j = k THEN table[j].perms \cup Seg.flags
                                    ELSE table[j].perms
    BY <1>1, <1>3, Widened
  <2>2. Vaddrs' = Vaddrs
    BY <2>1 DEF Vaddrs
  <2>3. Distinct' /\ Counted'
    BY <1>1, <2>1, <2>2 DEF Distinct, Counted
  <2>4. pc = "collect" /\ pc' = pc
    BY <1>3 DEF WidenMegapage
  <2>5. ASSUME NEW j \in DOMAIN table, NEW m \in Usize, table'[j].vaddr = m
        PROVE  table'[j].perms = UNION {file.raw[x].flags : x \in Visited(m)'}
    <3>1. table[j].vaddr = m
      BY <2>1, <2>5
    <3>2. table[j].perms = UNION {file.raw[x].flags : x \in Visited(m)}
      BY <1>1, <2>4, <3>1 DEF Permitted
    <3>3. Visited(m)' = IF m = v THEN Visited(m) \cup {i} ELSE Visited(m)
      BY <1>1, <1>3, VisitedGrows
    <3>4. m = v <=> j = k
      BY <1>1, <2>1, <3>1 DEF Distinct
    <3> QED
      BY <2>1, <3>2, <3>3, <3>4 DEF Seg
  <2>6. Permitted'
    BY <1>1, <2>1, <2>5 DEF Permitted
  <2> QED
    BY <2>3, <2>6
<1>4. CASE AddMegapage
  <2> DEFINE n == Len(table) + 1
  <2>1. /\ Len(table') = n /\ DOMAIN table' = DOMAIN table \cup {n}
        /\ n \notin DOMAIN table
        /\ \A j \in DOMAIN table : table'[j] = table[j]
        /\ table'[n].vaddr = v /\ table'[n].perms = Seg.flags
    BY <1>1, <1>4, Added
  <2> HIDE DEF n
  <2>2. pc = "collect" /\ pc' = pc /\ \A j \in DOMAIN table : table[j].vaddr # v
    BY <1>4 DEF AddMegapage, Positions
  <2>3. v \in Usize
    BY <1>1, <1>4, InsideFacts DEF AddMegapage
  <2>4. Vaddrs' = Vaddrs \cup {v} /\ v \notin Vaddrs
    BY <2>1, <2>2 DEF Vaddrs
  <2>5. Distinct'
    BY <1>1, <2>1, <2>2 DEF Distinct
  <2>6. Counted'
    <3>1. IsFiniteSet(Vaddrs) /\ Cardinality(Vaddrs) = Len(table)
      BY <1>1 DEF Counted
    <3>2. IsFiniteSet(Vaddrs \cup {v}) /\ Cardinality(Vaddrs \cup {v}) = Cardinality(Vaddrs) + 1
      BY <2>4, <3>1, FS_AddElement
    <3> QED
      BY <2>1, <2>4, <3>1, <3>2 DEF Counted, n
  <2>7. ASSUME NEW j \in DOMAIN table, NEW m \in Usize, table'[j].vaddr = m
        PROVE  table'[j].perms = UNION {file.raw[x].flags : x \in Visited(m)'}
    <3>1. table[j].vaddr = m
      BY <2>1, <2>7
    <3>2. table[j].perms = UNION {file.raw[x].flags : x \in Visited(m)}
      BY <1>1, <2>2, <3>1 DEF Permitted
    <3>3. Visited(m)' = Visited(m)
      BY <1>1, <1>4, <2>2, <3>1, VisitedGrows
    <3> QED
      BY <2>1, <3>2, <3>3
  <2>8. ASSUME NEW m \in Usize, table'[n].vaddr = m
        PROVE  table'[n].perms = UNION {file.raw[x].flags : x \in Visited(m)'}
    <3>1. m = v /\ Visited(m) = {}
      BY <1>1, <2>1, <2>2, <2>8 DEF LoadInv, Listed
    <3>2. Visited(m)' = {i}
      BY <1>1, <1>4, <3>1, VisitedGrows
    <3> QED
      BY <2>1, <3>2 DEF Seg
  <2>9. Permitted'
    BY <1>1, <2>1, <2>7, <2>8 DEF Permitted
  <2> QED
    BY <2>5, <2>6, <2>9
<1>5. CASE ~WidenMegapage /\ ~AddMegapage
  <2>1. table' = table
    BY <1>5, TableKept
  <2>2. Distinct' /\ Counted'
    BY <1>1, <2>1 DEF Distinct, Counted, Vaddrs
  <2>3. ASSUME pc' # "panicked", NEW j \in DOMAIN table, NEW m \in Usize, table[j].vaddr = m
        PROVE  table[j].perms = UNION {file.raw[x].flags : x \in Visited(m)'}
    <3>2. table[j].perms = UNION {file.raw[x].flags : x \in Visited(m)}
      BY <1>1, <2>3, TableKept DEF Permitted
    <3>3. Visited(m)' = Visited(m)
      BY <1>1, <1>5, <2>1, <2>3, VisitedKept
    <3> QED
      BY <3>2, <3>3
  <2>4. Permitted'
    BY <1>1, <2>1, <2>3 DEF Permitted
  <2> QED
    BY <2>2, <2>4
<1> QED
  BY <1>3, <1>4, <1>5

(* Where nothing wraps, a segment's bytes end before its megapages do.     *)
LEMMA BytesBeforeEnd ==
  ASSUME file \in Files, AddressesFit, NEW k \in Segments
  PROVE  LET s == file.raw[k]
         IN  /\ k \in DOMAIN file.raw /\ k \in Nat
             /\ s.vaddr \in Nat /\ s.filesz \in Nat /\ s.offset \in Nat
             /\ SegStart(s) \in Nat /\ SegEnd(s) \in Nat
             /\ SegStart(s) <= s.vaddr /\ s.vaddr + s.filesz <= SegEnd(s)
             /\ s.vaddr + s.filesz < Modulus
             /\ s.offset + s.filesz < Modulus
<1> DEFINE s == file.raw[k]
           y == s.vaddr + s.memsz + MegaSize - 1
<1>1. /\ k \in DOMAIN file.raw /\ k \in Nat /\ Loaded(file, k)
      /\ file.len \in Nat /\ 2 * file.len < Modulus
  BY FileFacts DEF Segments
<1>2. /\ s.vaddr \in Nat /\ s.filesz \in Nat /\ s.offset \in Nat /\ s.memsz \in Nat
      /\ s.filesz <= s.memsz /\ s.offset + s.filesz <= file.len
  BY <1>1, LoadedFacts
<1>3. s.vaddr + s.memsz + MegaSize <= Modulus /\ MegaSize \in Nat \ {0} /\ Modulus \in Nat
  BY SizeFacts DEF AddressesFit
<1>4. SegEnd(s) = RoundDown(y, MegaSize)
  BY EndFits
<1>5. y \in Nat /\ y = s.vaddr + s.memsz + MegaSize - 1
  BY <1>2, <1>3
<1> HIDE DEF y
<1>6. RoundDown(y, MegaSize) \in Nat /\ y < RoundDown(y, MegaSize) + MegaSize
  BY <1>3, <1>5, RoundDownFacts
<1>7. SegStart(s) \in Nat /\ SegStart(s) <= s.vaddr
  BY <1>1, SegmentBounds, SizeFacts
<1> HIDE DEF s
<1>8. SegEnd(s) \in Nat /\ s.vaddr + s.filesz <= SegEnd(s)
  BY <1>2, <1>3, <1>4, <1>5, <1>6
<1>9. s.vaddr + s.filesz < Modulus /\ s.offset + s.filesz < Modulus
  BY <1>1, <1>2, <1>3
<1> QED
  BY <1>1, <1>2, <1>7, <1>8, <1>9 DEF s

LEMMA CoveringFacts ==
  ASSUME file \in Files, AddressesFit, NEW a \in Nat, NEW k \in Covering(a)
  PROVE  /\ k \in Segments /\ k \in DOMAIN file.raw /\ k \in Nat
         /\ SegStart(file.raw[k]) \in Nat /\ SegEnd(file.raw[k]) \in Nat
         /\ SegStart(file.raw[k]) <= a /\ a < SegEnd(file.raw[k])
<1> DEFINE s == file.raw[k]
<1>1. k \in Segments /\ s.vaddr <= a /\ a < s.vaddr + s.filesz
  BY DEF Covering
<1>2. /\ k \in DOMAIN file.raw /\ k \in Nat
      /\ s.vaddr \in Nat /\ s.filesz \in Nat
      /\ SegStart(s) \in Nat /\ SegEnd(s) \in Nat
      /\ SegStart(s) <= s.vaddr /\ s.vaddr + s.filesz <= SegEnd(s)
  BY <1>1, BytesBeforeEnd
<1> HIDE DEF s
<1>3. SegStart(s) <= a /\ a < SegEnd(s)
  BY <1>1, <1>2
<1> QED
  BY <1>1, <1>2, <1>3 DEF s

(* What has been written changes only by the megapage pass 3 is at.        *)
LEMMA WrittenKept ==
  ASSUME LoadInv, AddressesFit, [Next]_vars, pc' # "panicked", ~CopyMegapage, NEW a \in Nat
  PROVE  Written(a)' = Written(a)
<1>1. TypeOK /\ Walking /\ ~(a < Outside) /\ file \in Files
  BY SizeFacts DEF LoadInv, Outside, TypeOK
<1>2. /\ file.phnum \in Nat /\ DOMAIN file.raw = 0..(file.phnum - 1)
      /\ i \in 0..file.phnum
  BY <1>1, FileFacts DEF TypeOK
<1>3. Covering(a)' = Covering(a)
  BY TableKept DEF Covering, Segments
<1>4. \A k \in Covering(a) :
        /\ k \in Segments /\ k \in DOMAIN file.raw /\ k \in Nat
        /\ SegStart(file.raw[k]) \in Nat /\ SegEnd(file.raw[k]) \in Nat
        /\ SegStart(file.raw[k]) <= a /\ a < SegEnd(file.raw[k])
  BY <1>1, CoveringFacts
<1>5. CASE SkipSegment /\ pc = "copy"
  <2>1. i' = i + 1 /\ pc' = pc /\ v = Outside /\ v' = v /\ i \notin Segments
    BY <1>5 DEF SkipSegment, Skipped, Loaded, Skippable, PT_LOAD, Segments
  <2>2. \A k \in Covering(a) : k < i + 1 <=> k < i
    BY <1>2, <1>4, <2>1
  <2> QED
    BY <1>1, <1>3, <1>5, <2>1, <2>2 DEF Written
<1>6. CASE EnterSegment /\ pc = "copy"
  <2>1. i' = i /\ pc' = pc /\ v = Outside /\ v' = SegStart(Seg)
    BY <1>6 DEF EnterSegment
  <2>2. \A k \in Covering(a) : k = i => ~(a < v')
    BY <1>4, <2>1 DEF Seg
  <2> QED
    BY <1>1, <1>3, <1>6, <2>1, <2>2 DEF Written
<1>7. CASE LeaveSegment /\ pc = "copy"
  <2>1. i' = i + 1 /\ pc' = pc /\ v' = Outside /\ v # Outside /\ v >= SegEnd(Seg)
    BY <1>7 DEF LeaveSegment
  <2>2. v \in Nat
    BY <1>1, <1>7, <2>1, SizeFacts DEF Walking
  <2>3. \A k \in Covering(a) : k = i => a < v
    BY <1>4, <2>1, <2>2 DEF Seg
  <2>4. \A k \in Covering(a) : k < i + 1 <=> k < i \/ k = i
    BY <1>2, <1>4
  <2> QED
    BY <1>1, <1>3, <1>7, <2>1, <2>3, <2>4 DEF Written
<1>8. CASE NextPass
  <2>1. /\ i' = 0 /\ v' = v /\ v = Outside
        /\ \/ pc = "collect" /\ pc' = "map"
           \/ pc = "map" /\ pc' = "copy"
           \/ pc = "copy" /\ i = file.phnum /\ pc' = "done"
    BY <1>1, <1>2, <1>8 DEF NextPass, Walking
  <2>2. \A k \in Covering(a) : ~(k < 0) /\ k < file.phnum
    BY <1>2, <1>4
  <2> QED
    BY <1>1, <1>3, <2>1, <2>2 DEF Written
<1>9. CASE UNCHANGED vars
  BY <1>3, <1>9 DEF vars, Written
<1>10. CASE pc # "copy" /\ (SkipSegment \/ EnterSegment \/ LeaveSegment)
  <2>1. pc' = pc /\ pc = "collect"
    BY <1>10 DEF SkipSegment, EnterSegment, LeaveSegment, InPass
  <2> QED
    BY <2>1 DEF Written
<1>11. CASE ParseHeader \/ WidenMegapage \/ AddMegapage \/ MapMegapage
  <2>1. pc \in {"header", "collect", "map"} /\ pc' \in {"collect", "map"}
    BY <1>11 DEF ParseHeader, WidenMegapage, AddMegapage, MapMegapage
  <2> QED
    BY <2>1 DEF Written
<1>12. ~Panic
  BY DEF Panic
<1> QED
  BY <1>5, <1>6, <1>7, <1>8, <1>9, <1>10, <1>11, <1>12 DEF Next

LEMMA WrittenGrows ==
  ASSUME LoadInv, AddressesFit, CopyMegapage, NEW a \in Nat
  PROVE  Written(a)' =
           IF i \in Covering(a) /\ v <= a /\ a < v + MegaSize
           THEN Written(a) \cup {i} ELSE Written(a)
<1>1. /\ pc = "copy" /\ pc' = pc /\ i' = i /\ v' = v + MegaSize /\ InSegment
      /\ file \in Files
  BY DEF CopyMegapage, Advance, LoadInv, TypeOK
<1>2. v \in Nat /\ MegaSize \in Nat \ {0}
  BY <1>1, InsideFacts, SizeFacts
<1>3. Covering(a)' = Covering(a)
  BY TableKept DEF Covering, Segments, Next
<1>4. a < v + MegaSize <=> a < v \/ (v <= a /\ a < v + MegaSize)
  BY <1>2
<1> QED
  BY <1>1, <1>3, <1>4 DEF Written

(* The last of some segments and a later one is the later one.             *)
LEMMA LatestIs ==
  ASSUME NEW ks \in SUBSET Nat, NEW n \in Nat, \A k \in ks : k < n
  PROVE  Latest(ks \cup {n}) = n
<1> DEFINE S == ks \cup {n}
           L == Latest(S)
<1>1. n \in S /\ \A j \in S : j <= n
  OBVIOUS
<1>2. L = CHOOSE k \in S : \A j \in S : j <= k
  BY DEF Latest
<1>3. L \in S /\ \A j \in S : j <= L
  BY <1>1, <1>2
<1>4. S \subseteq Nat
  OBVIOUS
<1> HIDE DEF L, S
<1>5. L \in Nat /\ L <= n /\ n <= L
  BY <1>1, <1>3, <1>4
<1>6. L = n
  BY <1>5
<1> QED
  BY <1>6 DEF L, S

(* One copy puts the bytes of the segment where they belong, and leaves    *)
(* the others alone.                                                       *)
LEMMA CopiedBytes ==
  ASSUME LoadInv, AddressesFit, InSegment, NEW frame \in Frames,
         NEW b \in 0..(MegaSize - 1), NEW a \in Nat, a = v + b
  PROVE  Copied(frame)[b] = IF i \in Covering(a) THEN {Seg.offset + a - Seg.vaddr}
                            ELSE frame[b]
<1>1. /\ i \in Segments /\ v \in Nat /\ v + MegaSize \in Nat /\ v + MegaSize < Modulus
      /\ MegaSize \in Nat /\ b \in Nat /\ b < MegaSize /\ file \in Files
  <2>1. v + MegaSize \in Usize /\ MegaSize \in Nat /\ Modulus \in Nat
    BY InsideFacts, SizeFacts
  <2> QED
    BY <2>1, InsideFacts DEF Usize, LoadInv, TypeOK
<1>2. /\ Seg.vaddr \in Nat /\ Seg.filesz \in Nat /\ Seg.offset \in Nat
      /\ Seg.vaddr + Seg.filesz < Modulus /\ Seg.offset + Seg.filesz < Modulus
  BY <1>1, BytesBeforeEnd DEF Seg
<1>3. Wrap(v + MegaSize) = v + MegaSize
  BY <1>1, WrapFacts
<1>4. FileEnd = Seg.vaddr + Seg.filesz
  <2>1. Seg.vaddr + Seg.filesz \in Nat
    BY <1>2
  <2> QED
    BY <1>2, <2>1, WrapFacts DEF FileEnd
<1> DEFINE st == CopyStart
           en == CopyEnd
<1>5. st \in Nat /\ v <= st /\ Seg.vaddr <= st /\ (st = v \/ st = Seg.vaddr)
  BY <1>1, <1>2 DEF CopyStart
<1>6. /\ en \in Nat /\ en <= v + MegaSize /\ en <= Seg.vaddr + Seg.filesz
      /\ en = v + MegaSize \/ en = Seg.vaddr + Seg.filesz
  BY <1>1, <1>2, <1>3, <1>4 DEF CopyEnd, Smaller
<1>7. CopyLen = en - st /\ Within = st - v
  BY DEF CopyLen, Within
<1>8. FileOffset = Wrap(Seg.offset + (st - Seg.vaddr))
  BY DEF FileOffset
<1> HIDE DEF st, en
<1>9. b >= Within /\ b < Within + CopyLen <=> st <= a /\ a < en
  BY <1>1, <1>5, <1>6, <1>7
<1>10. st <= a /\ a < en <=> Seg.vaddr <= a /\ a < Seg.vaddr + Seg.filesz
  BY <1>1, <1>2, <1>5, <1>6
<1>11. i \in Covering(a) <=> Seg.vaddr <= a /\ a < Seg.vaddr + Seg.filesz
  BY <1>1 DEF Covering, Seg
<1>12. ASSUME st <= a, a < en
       PROVE  FileOffset + b - Within = Seg.offset + a - Seg.vaddr
  <2>1. /\ Seg.offset + (st - Seg.vaddr) \in Nat
        /\ Seg.offset + (st - Seg.vaddr) < Modulus
    BY <1>1, <1>2, <1>5, <1>6, <1>12, SizeFacts
  <2>2. FileOffset = Seg.offset + (st - Seg.vaddr)
    BY <1>8, <2>1, WrapFacts
  <2> QED
    BY <1>1, <1>2, <1>5, <1>7, <2>2
<1>13. b \in DOMAIN frame
  BY DEF Frames
<1>14. Copied(frame)[b] = IF b >= Within /\ b < Within + CopyLen THEN {FileOffset + b - Within}
                          ELSE frame[b]
  BY <1>13 DEF Copied
<1> QED
  BY <1>9, <1>10, <1>11, <1>12, <1>14

(* No byte of another megapage lies in this one.                           *)
LEMMA OtherMegapage ==
  ASSUME LoadInv, pc # "panicked", InSegment, NEW k \in DOMAIN table, table[k].vaddr # v,
         NEW b \in 0..(MegaSize - 1)
  PROVE  ~(v <= table[k].vaddr + b /\ table[k].vaddr + b < v + MegaSize)
<1> DEFINE m == table[k].vaddr
<1>1. m \in Usize
  BY SequenceFacts DEF LoadInv, Entries
<1>2. m % MegaSize = 0
  <2>1. Visited(m) # {}
    BY <1>1 DEF LoadInv, Listed
  <2> QED
    BY <2>1 DEF Visited, Megapages
<1>3. m \in Nat /\ v \in Nat /\ v % MegaSize = 0 /\ MegaSize \in Nat \ {0}
  BY <1>1, InsideFacts, SizeFacts
<1>4. m # v
  OBVIOUS
<1> HIDE DEF m
<1>5. m < v => m + MegaSize <= v
  BY <1>2, <1>3, MultiplesApart
<1>6. v < m => v + MegaSize <= m
  BY <1>2, <1>3, MultiplesApart
<1>7. ~(v <= m + b /\ m + b < v + MegaSize)
  BY <1>3, <1>4, <1>5, <1>6
<1> QED
  BY <1>7 DEF m

LEMMA FilledStep ==
  ASSUME ImageInv, [Next]_vars
  PROVE  Filled'
<1> SUFFICES ASSUME AddressesFit', pc' # "panicked",
                    NEW k \in DOMAIN mem', NEW b \in 0..(MegaSize - 1), NEW a \in Nat,
                    a = table'[k].vaddr + b
             PROVE  mem'[k][b] = ByteOf(Written(a), a)'
  BY DEF Filled
<1>1. LoadInv /\ Filled /\ Distinct /\ file' = file /\ pc # "panicked"
  BY TableKept DEF ImageInv
<1>2. AddressesFit
  BY <1>1 DEF AddressesFit, Segments
<1>3. /\ DOMAIN table = 1..Len(table) /\ DOMAIN mem = 1..Len(mem)
      /\ Len(table) \in Nat /\ Len(mem) \in Nat
      /\ \A j \in DOMAIN mem : mem[j] \in Frames
      /\ Len(mem) <= Len(table)
  BY <1>1, SequenceFacts DEF LoadInv, TypeOK
<1>4. ByteOf(Written(a), a)' = ByteOf(Written(a)', a)
  BY <1>1 DEF ByteOf, Latest
<1>5. CASE CopyMegapage
  <2>1. PICK h \in DOMAIN table :
          /\ h \in DOMAIN mem /\ table[h].vaddr = v
          /\ DOMAIN mem' = DOMAIN mem
          /\ mem'[h] = Copied(mem[h])
          /\ \A j \in DOMAIN mem : j # h => mem'[j] = mem[j]
    BY <1>1, <1>5, CopyStep
  <2>2. table' = table /\ InSegment /\ pc = "copy"
    BY <1>5 DEF CopyMegapage
  <2>3. mem[k][b] = ByteOf(Written(a), a)
    BY <1>1, <1>2, <2>1, <2>2 DEF Filled
  <2>4. Written(a)' = IF i \in Covering(a) /\ v <= a /\ a < v + MegaSize
                      THEN Written(a) \cup {i} ELSE Written(a)
    BY <1>1, <1>2, <1>5, WrittenGrows
  <2>5. CASE k # h
    <3>1. table[k].vaddr # v /\ k \in DOMAIN table
      BY <1>1, <1>3, <2>1, <2>5 DEF Distinct
    <3>2. Written(a)' = Written(a)
      BY <1>1, <2>2, <2>4, <3>1, OtherMegapage
    <3> QED
      BY <1>4, <2>1, <2>3, <2>5, <3>2
  <2>6. CASE k = h
    <3>1. a = v + b /\ v \in Nat /\ MegaSize \in Nat
      BY <1>1, <2>1, <2>2, <2>6, InsideFacts, SizeFacts
    <3>2. v <= a /\ a < v + MegaSize
      BY <3>1
    <3>3. mem'[k][b] = IF i \in Covering(a) THEN {Seg.offset + a - Seg.vaddr} ELSE mem[k][b]
      <4>1. mem[h] \in Frames
        BY <1>3, <2>1
      <4>2. Copied(mem[h])[b] = IF i \in Covering(a) THEN {Seg.offset + a - Seg.vaddr}
                                ELSE mem[h][b]
        BY <1>1, <1>2, <2>2, <3>1, <4>1, CopiedBytes
      <4> QED
        BY <2>1, <2>6, <4>2
    <3>4. CASE i \notin Covering(a)
      BY <1>4, <2>3, <2>4, <3>3, <3>4
    <3>5. CASE i \in Covering(a)
      <4>1. Written(a)' = Written(a) \cup {i}
        BY <2>4, <3>2, <3>5
      <4>2. i \in Nat /\ Written(a) \in SUBSET Nat /\ \A j \in Written(a) : j < i
        <5>1. \A j \in Covering(a) : j \in Nat
          BY <1>1, <1>2, CoveringFacts DEF LoadInv, TypeOK
        <5>2. ~(a < v)
          BY <3>1, <3>2
        <5> QED
          BY <2>2, <3>5, <5>1, <5>2 DEF Written
      <4>3. Latest(Written(a)') = i
        BY <4>1, <4>2, LatestIs
      <4>4. ByteOf(Written(a)', a) = {Seg.offset + a - Seg.vaddr}
        BY <4>1, <4>3 DEF ByteOf, Seg
      <4> QED
        BY <1>4, <3>3, <3>5, <4>4
    <3> QED
      BY <3>4, <3>5
  <2> QED
    BY <2>5, <2>6
<1>6. CASE MapMegapage
  <2>1. /\ pc = "map" /\ pc' = pc /\ table' = table /\ Len(mem') = Len(mem) + 1
        /\ DOMAIN mem' = 1..(Len(mem) + 1)
        /\ \A j \in 1..Len(mem) : mem'[j] = mem[j]
        /\ mem'[Len(mem) + 1] = [x \in 0..(MegaSize - 1) |-> {}]
    BY <1>1, <1>6, Mapped, LenProperties DEF MapMegapage
  <2>2. Written(a) = {} /\ Written(a)' = {}
    BY <2>1 DEF Written
  <2>3. ByteOf({}, a) = {}
    BY DEF ByteOf
  <2>4. CASE k = Len(mem) + 1
    BY <1>4, <2>1, <2>2, <2>3, <2>4
  <2>5. CASE k # Len(mem) + 1
    <3>1. k \in DOMAIN mem
      BY <1>3, <2>1, <2>5
    <3>2. mem[k][b] = ByteOf(Written(a), a)
      BY <1>1, <1>2, <2>1, <3>1 DEF Filled
    <3> QED
      BY <1>3, <1>4, <2>1, <2>2, <3>1, <3>2
  <2> QED
    BY <2>4, <2>5
<1>7. CASE ~CopyMegapage /\ ~MapMegapage
  <2>1. mem' = mem
    BY <1>7, TableKept
  <2>2. Written(a)' = Written(a)
    BY <1>1, <1>2, <1>7, WrittenKept
  <2>3. CASE mem = <<>>
    BY <2>1, <2>3
  <2>4. CASE mem # <<>>
    <3>1. pc \notin {"header", "collect"}
      BY <1>1, <2>4 DEF LoadInv, Walking
    <3>2. table' = table
      BY <3>1, TableKept DEF WidenMegapage, AddMegapage
    <3>3. mem[k][b] = ByteOf(Written(a), a)
      BY <1>1, <1>2, <2>1, <3>2 DEF Filled
    <3> QED
      BY <1>4, <2>1, <2>2, <3>3
  <2> QED
    BY <2>3, <2>4
<1> QED
  BY <1>5, <1>6, <1>7

LEMMA JustifiedStep ==
  ASSUME ImageInv, [Next]_vars
  PROVE  Justified'
<1>1. LoadInv /\ Justified /\ Counted /\ file' = file /\ TypeOK
  BY TableKept DEF ImageInv, LoadInv
<1>2. (AddressesFit' <=> AddressesFit) /\ (CanLoad' <=> CanLoad)
  BY <1>1 DEF AddressesFit, CanLoad, Needed, Meeting, Segments
<1>3. CASE pc = "panicked"
  BY <1>1, <1>2, <1>3 DEF Justified
<1>4. CASE pc' # "panicked"
  BY <1>4 DEF Justified
<1>5. CASE pc # "panicked" /\ pc' = "panicked"
  <2>1. Refused
    BY <1>5 DEF Next, ParseHeader, SkipSegment, EnterSegment, LeaveSegment, WidenMegapage,
         AddMegapage, NextPass, MapMegapage, CopyMegapage, Panic, vars
  <2> SUFFICES ASSUME AddressesFit PROVE ~CanLoad
    BY <1>2 DEF Justified
  <2>2. CASE pc = "header" /\ ~HeaderParses(file)
    BY <2>2 DEF CanLoad
  <2>3. CASE InPass /\ v = Outside /\ Rejected(file, i)
    <3>1. i \in DOMAIN file.raw
      BY <1>1, <2>3, FileFacts DEF TypeOK, InPass
    <3> QED
      BY <2>3, <3>1 DEF CanLoad
  <2>4. CASE pc = "collect" /\ InSegment /\ Positions = {} /\ TableFull
    <3>1. /\ Vaddrs = {m \in Usize : Visited(m) # {}}
          /\ IsFiniteSet(Vaddrs) /\ Cardinality(Vaddrs) = Len(table)
      BY <1>1, <1>5 DEF LoadInv, Listed, Vaddrs, Counted
    <3>2. \A m \in Vaddrs : m \in Needed
      BY <1>1, <3>1, VisitedIsNeeded
    <3>3. v \notin Vaddrs
      BY <2>4 DEF Positions, Vaddrs
    <3>4. v \in Needed
      <4>1. i \in Segments /\ v \in Usize /\ v % MegaSize = 0 /\ v \in Megapages(file.raw[i])
        BY <1>1, <2>4, InsideFacts DEF Seg
      <4>2. Meets(file.raw[i], v)
        BY <1>1, <4>1, MeetsExactly DEF TypeOK
      <4> QED
        BY <4>1, <4>2 DEF Needed, Meeting
    <3>5. Vaddrs \cup {v} \in SUBSET Needed
      BY <3>2, <3>4
    <3>6. IsFiniteSet(Vaddrs \cup {v}) /\ Cardinality(Vaddrs \cup {v}) = Len(table) + 1
      BY <3>1, <3>3, FS_AddElement
    <3>7. Len(table) + 1 <= Cardinality(Needed)
      BY <3>5, <3>6, NeededFinite, FS_Subset
    <3>8. Len(table) >= MAX_PROGRAM_MEGAPAGES
      BY <2>4 DEF TableFull
    <3>9. ~(Cardinality(Needed) <= MAX_PROGRAM_MEGAPAGES)
      BY <1>1, <3>7, <3>8, NeededFinite, SequenceFacts, SizesAssumption
    <3> QED
      BY <3>9 DEF CanLoad
  <2>5. CASE pc = "map" /\ Len(mem) < Len(table) /\ NextEntry.vaddr \in Occupied
    <3>1. Len(mem) + 1 \in DOMAIN table
      BY <1>1, <2>5, SequenceFacts
    <3>2. NextEntry.vaddr \in Vaddrs
      BY <3>1 DEF Vaddrs, NextEntry
    <3>3. NextEntry.vaddr \in Needed
      BY <1>1, <2>5, <3>2, ListedIsNeeded
    <3> QED
      BY <2>5, <3>3 DEF CanLoad
  <2>6. pc # "copy"
    BY <1>1, <2>1, NoLatePanic
  <2> QED
    BY <2>1, <2>2, <2>3, <2>4, <2>5, <2>6 DEF Refused
<1> QED
  BY <1>3, <1>4, <1>5

LEMMA PhaseStep ==
  ASSUME ImageInv, [Next]_vars
  PROVE  Parsed' /\ Untaken'
<1>1. LoadInv /\ Parsed /\ Untaken /\ file' = file
  BY TableKept DEF ImageInv
<1>2. Parsed'
  BY <1>1 DEF Parsed, Next, ParseHeader, SkipSegment, EnterSegment, LeaveSegment, WidenMegapage,
       AddMegapage, NextPass, MapMegapage, CopyMegapage, Panic, vars, HeaderParses
<1>3. CASE MapMegapage
  <2>1. /\ table' = table /\ NextEntry.vaddr \notin Occupied
        /\ DOMAIN mem' = 1..(Len(mem) + 1)
    BY <1>1, <1>3, Mapped, LenProperties DEF MapMegapage
  <2>2. DOMAIN mem = 1..Len(mem) /\ Len(mem) \in Nat
    BY <1>1, SequenceFacts DEF LoadInv
  <2> QED
    BY <1>1, <1>2, <2>1, <2>2 DEF Untaken, NextEntry
<1>4. CASE CopyMegapage
  <2>1. table' = table /\ DOMAIN mem' = DOMAIN mem
    BY <1>1, <1>4, CopyStep DEF CopyMegapage
  <2> QED
    BY <1>1, <1>2, <2>1 DEF Untaken
<1>5. CASE WidenMegapage \/ AddMegapage
  <2>1. mem' = <<>>
    BY <1>1, <1>5 DEF WidenMegapage, AddMegapage, LoadInv, Walking
  <2> QED
    BY <1>2, <2>1 DEF Untaken
<1>6. CASE ~MapMegapage /\ ~CopyMegapage /\ ~WidenMegapage /\ ~AddMegapage
  <2>1. table' = table /\ mem' = mem
    BY <1>6, TableKept
  <2> QED
    BY <1>1, <1>2, <2>1 DEF Untaken
<1> QED
  BY <1>2, <1>3, <1>4, <1>5, <1>6

LEMMA ImageInvNext ==
  ASSUME ImageInv, [Next]_vars
  PROVE  ImageInv'
<1>1. LoadInv'
  BY LoadInvNext DEF ImageInv
<1> QED
  BY <1>1, TableStep, FilledStep, JustifiedStep, PhaseStep DEF ImageInv

THEOREM ImageInvariance == Spec => []ImageInv
  BY ImageInvInit, ImageInvNext, PTL DEF Spec

-----------------------------------------------------------------------------
(* Pass 1 (launch.rs:402-437) lists each megapage a segment meets, once,   *)
(* and no other, with the permissions of all segments that meet it: for    *)
(* every file of which no segment wraps around the address space.          *)
THEOREM OneFramePerMegapage == Spec => []TableIsExact
<1>1. ASSUME ImageInv, pc \in {"map", "copy", "done"}, AddressesFit
      PROVE  /\ Vaddrs = Needed /\ Len(table) = Cardinality(Needed)
             /\ \A k \in DOMAIN table :
                  table[k].perms = UNION {file.raw[j].flags : j \in Meeting(table[k].vaddr)}
  <2>1. LoadInv /\ Permitted /\ Counted
    BY <1>1 DEF ImageInv
  <2>2. Vaddrs = Needed
    BY <1>1, <2>1, ListedIsNeeded
  <2>3. ASSUME NEW k \in DOMAIN table
        PROVE  table[k].perms = UNION {file.raw[j].flags : j \in Meeting(table[k].vaddr)}
    <3>1. PICK m \in Usize : m = table[k].vaddr /\ m % MegaSize = 0
      BY <2>2 DEF Vaddrs, Needed
    <3>2. table[k].perms = UNION {file.raw[j].flags : j \in Visited(m)}
      BY <1>1, <2>1, <3>1 DEF Permitted
    <3>3. Visited(m) = Meeting(m)
      BY <1>1, <2>1, <3>1, VisitedIsMeeting
    <3> QED
      BY <3>1, <3>2, <3>3
  <2> QED
    BY <2>1, <2>2, <2>3 DEF Counted
<1>2. ImageInv => TableIsExact
  BY <1>1 DEF TableIsExact, Vaddrs
<1> QED
  BY <1>2, ImageInvariance, PTL

(* After pass 3 (launch.rs:454-499) memory is what the file says: every    *)
(* byte of the file at its address, of the later segment where two have    *)
(* one, and zero everywhere else, the BSS included.                        *)
THEOREM MemoryIsTheFile == Spec => []ImageIsReference
<1>1. ASSUME ImageInv, pc = "done", AddressesFit,
             NEW k \in DOMAIN table, NEW b \in 0..(MegaSize - 1)
      PROVE  mem[k][b] = ByteAt(table[k].vaddr + b)
  <2>1. LoadInv /\ Filled /\ Len(mem) = Len(table)
    BY <1>1 DEF ImageInv, LoadInv, Walking
  <2>2. k \in DOMAIN mem /\ table[k].vaddr \in Nat /\ b \in Nat
    <3>1. table[k] \in Entries /\ DOMAIN mem = DOMAIN table
      BY <2>1, SequenceFacts DEF LoadInv
    <3>2. table[k].vaddr \in Usize
      BY <3>1 DEF Entries
    <3>3. b \in Nat /\ k \in DOMAIN table
      BY SizeFacts
    <3> QED
      BY <3>1, <3>2, <3>3, SizeFacts
  <2> DEFINE a == table[k].vaddr + b
  <2>3. a \in Nat
    BY <2>2
  <2>4. mem[k][b] = ByteOf(Written(a), a)
    BY <1>1, <2>1, <2>2, <2>3 DEF Filled
  <2>5. Written(a) = Covering(a)
    BY <1>1 DEF Written
  <2> QED
    BY <2>4, <2>5 DEF ByteOf, ByteAt
<1>2. ImageInv => ImageIsReference
  BY <1>1 DEF ImageIsReference
<1> QED
  BY <1>2, ImageInvariance, PTL

(* A load panics only for a malformed file, one that touches more          *)
(* megapages than the table has room for, or one that is taken; and it     *)
(* comes to its end only where none of this is so.                         *)
THEOREM FailsForCauseOnly == Spec => []LoadsWhatItCan
<1>1. ASSUME ImageInv, AddressesFit, pc = "done"
      PROVE  CanLoad
  <2>1. LoadInv /\ Counted /\ Parsed /\ Untaken /\ Checked /\ TypeOK /\ Len(mem) = Len(table)
    BY <1>1 DEF ImageInv, LoadInv, Walking
  <2>2. HeaderParses(file)
    BY <1>1, <2>1 DEF Parsed
  <2>3. \A k \in DOMAIN file.raw : ~Rejected(file, k)
    BY <1>1, <2>1 DEF Checked, Passed
  <2>4. Vaddrs = Needed /\ Cardinality(Needed) = Len(table)
    BY <1>1, <2>1, ListedIsNeeded DEF Counted
  <2>5. Cardinality(Needed) <= MAX_PROGRAM_MEGAPAGES
    BY <2>1, <2>4 DEF TypeOK
  <2>6. DOMAIN mem = DOMAIN table
    BY <2>1, SequenceFacts
  <2>7. Needed \cap Occupied = {}
    BY <2>1, <2>4, <2>6 DEF Untaken, Vaddrs
  <2> QED
    BY <2>2, <2>3, <2>5, <2>7 DEF CanLoad
<1>2. ImageInv => LoadsWhatItCan
  BY <1>1 DEF LoadsWhatItCan, ImageInv, Justified
<1> QED
  BY <1>2, ImageInvariance, PTL
=============================================================================
