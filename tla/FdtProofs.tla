------------------------------ MODULE FdtProofs ------------------------------
(***************************************************************************)
(* The device tree reader stays inside the structure block, for every blob *)
(* there is: a region it returns was read there.                           *)
(***************************************************************************)
EXTENDS Fdt, TLAPS

(* The walk's place is known to be in the block only from below; that the  *)
(* block is in the blob is what the header check leaves behind.            *)
Walking == pc = "walk" \/ (pc = "parsed" /\ result.error = "none")
InBlock == blob.offStruct <= cursor /\ StructEnd <= blob.size
IInv ==
  /\ blob \in Blobs
  /\ cursor \in Nat
  /\ Walking => InBlock
  /\ RegionIsInTheBlock

LEMMA BlobFacts ==
  ASSUME blob \in Blobs
  PROVE  /\ blob.size \in Nat /\ blob.offStruct \in Nat /\ blob.sizeStruct \in Nat
         /\ HEADER <= blob.offStruct
         /\ blob.cells \in Seq(Cells) /\ blob.size <= HEADER + 4 * Len(blob.cells)
         /\ StructEnd \in Nat
  BY BlobsAssumption DEF IsBlob, StructEnd

(* What get(off..off + 4) finds is a cell of the blob.                     *)
LEMMA CellIsRead ==
  ASSUME blob \in Blobs, NEW off \in Nat, HEADER <= off, Readable(off)
  PROVE  Be32(off) \in Nat
<1> DEFINE k == (off - HEADER) \div 4 + 1
<1>1. off - HEADER \in Nat /\ off - HEADER + 4 <= 4 * Len(blob.cells) /\ Len(blob.cells) \in Nat
  BY BlobFacts DEF Readable, HEADER
<1>2. \A n, l \in Nat : n + 4 <= 4 * l => n \div 4 + 1 \in 1..l
  OBVIOUS
<1>3. k \in 1..Len(blob.cells)
  BY <1>1, <1>2
<1>4. blob.cells[k] \in Cells
  BY <1>3, BlobFacts
<1> QED
  BY <1>4 DEF Be32, Cell, Cells

LEMMA AlignFacts ==
  ASSUME NEW n \in Nat
  PROVE  Align4(n) \in Nat /\ n <= Align4(n)
<1>1. (n + 3) % 4 \in 0..3
  OBVIOUS
<1> QED
  BY <1>1 DEF Align4

(* A property whose value the reader accepts has a length, and ends in the *)
(* block.                                                                  *)
LEMMA PropFacts ==
  ASSUME blob \in Blobs, cursor \in Nat, InBlock, Prop
  PROVE  PropLen \in Nat /\ ValEnd \in Nat /\ cursor <= ValEnd /\ ValEnd <= StructEnd
<1>1. HEADER <= cursor + 4
  BY BlobFacts DEF InBlock, HEADER
<1>2. PropLen \in Nat
  BY <1>1, CellIsRead DEF PropLen, Prop, ValueInside
<1> QED
  BY <1>2 DEF ValEnd, ValStart, Prop, ValueInside

LEMMA InitInv == Init => IInv
  BY DEF Init, IInv, Walking, RegionIsInTheBlock

LEMMA NextInv ==
  ASSUME IInv, [Next]_vars
  PROVE  IInv'
<1> USE DEF IInv
<1>1. CASE TotalSize
  BY <1>1 DEF TotalSize, Walking, walk, RegionIsInTheBlock
<1>2. ASSUME NEW e \in Errors \ {"none"}, Return(Err(e))
      PROVE  IInv'
  BY <1>2 DEF Return, Err, Walking, walk, RegionIsInTheBlock
<1>3. CASE NoTotalSize \/ RejectHeader \/ NoToken \/ UnendedName \/ EndRoot \/ EndTree
           \/ PropError
  <2>1. HeaderError # "none" => HeaderError \in Errors \ {"none"}
    BY DEF HeaderError, Errors
  <2> QED
    BY <1>2, <1>3, <2>1 DEF NoTotalSize, RejectHeader, NoToken, UnendedName, EndRoot,
         EndTree, PropError, Errors
<1>4. CASE StartWalk
  <2>1. blob.version \in Nat /\ blob.offStrings \in Nat
    BY BlobsAssumption DEF IsBlob
  <2>2. HeaderError = "none" => StructEnd <= blob.size
    <3>1. ASSUME StructEnd > blob.size, blob.size >= HEADER, blob.version >= 16
          PROVE  HeaderError = "StructBlockOutOfBounds"
      BY <3>1, <2>1, BlobFacts DEF HeaderError, HEADER
    <3>2. ASSUME ~(blob.size >= HEADER)
          PROVE  HeaderError = "TooShortForHeader"
      BY <3>2, BlobFacts DEF HeaderError, HEADER
    <3>3. ASSUME blob.size >= HEADER, ~(blob.version >= 16)
          PROVE  HeaderError = "UnsupportedVersion"
      BY <3>3, <2>1, BlobFacts DEF HeaderError, HEADER
    <3> QED
      BY <3>1, <3>2, <3>3, BlobFacts
  <2>3. InBlock'
    BY <1>4, <2>2, BlobFacts DEF StartWalk, InBlock, StructEnd
  <2> QED
    BY <1>4, <2>3, BlobFacts DEF StartWalk, RegionIsInTheBlock
<1>5. ASSUME pc = "walk", pc' = pc, blob' = blob, cursor' \in Nat, cursor <= cursor'
      PROVE  IInv'
  <2>1. InBlock /\ InBlock'
    BY <1>5, BlobFacts DEF Walking, InBlock, StructEnd
  <2> QED
    BY <1>5, <2>1 DEF RegionIsInTheBlock
<1>6. CASE BeginNode
  <2>1. PICK nameEnd \in Zeros : cursor' = Align4(nameEnd + 1)
    BY <1>6 DEF BeginNode
  <2>2. nameEnd \in Nat /\ cursor <= nameEnd
    BY <2>1, BlobFacts DEF Zeros, NameStart, After
  <2>3. cursor' \in Nat /\ nameEnd + 1 <= cursor'
    BY <2>1, <2>2, AlignFacts
  <2> QED
    BY <1>5, <1>6, <2>2, <2>3 DEF BeginNode, On
<1>7. CASE EndNode \/ Nop
  BY <1>5, <1>7 DEF EndNode, Nop, On, After
<1>8. CASE SkipProp
  <2>1. InBlock /\ Prop
    BY <1>8 DEF SkipProp, Prop, On, Walking
  <2>2. cursor' \in Nat /\ cursor <= cursor'
    BY <1>8, <2>1, PropFacts, AlignFacts DEF SkipProp
  <2> QED
    BY <1>5, <1>8, <2>2 DEF SkipProp, Prop, On
<1>9. CASE ReadReg
  <2>1. InBlock /\ Prop
    BY <1>9 DEF ReadReg, Prop, On, Walking
  <2>2. CASE ~Usable
    BY <1>2, <1>9, <2>2 DEF ReadReg, Errors
  <2>3. CASE Usable
    <3>1. ValStart + 4 * (addrCells + sizeCells) <= StructEnd
      BY <2>1, <2>3, PropFacts, BlobFacts DEF Usable, ValEnd, ValStart
    <3>2. UNCHANGED <<blob, cursor, addrCells, sizeCells>>
      BY <1>9 DEF ReadReg, Return, walk
    <3>3. InBlock'
      BY <2>1, <3>2 DEF InBlock, StructEnd
    <3>4. RegionIsInTheBlock'
      BY <3>1, <3>2, <3>3 DEF RegionIsInTheBlock, InBlock, StructEnd, ValStart
    <3> QED
      BY <3>2, <3>3, <3>4
  <2> QED
    BY <2>2, <2>3
<1>10. CASE Panic \/ BootMain \/ Run
  BY <1>10 DEF Panic, BootMain, Run, walk, Walking, RegionIsInTheBlock
<1>11. CASE UNCHANGED vars
  BY <1>11 DEF vars, walk, Walking, InBlock, StructEnd, ValStart, RegionIsInTheBlock
<1> QED
  BY <1>1, <1>3, <1>4, <1>6, <1>7, <1>8, <1>9, <1>10, <1>11 DEF Next

(* Whatever the lengths, offsets and cell counts in a blob say: a region   *)
(* the reader returns was read inside the structure block, and the block   *)
(* is inside the blob (fdt.rs:118-204).                                    *)
THEOREM ReadsInTheBlock == Spec => []RegionIsInTheBlock
<1>1. IInv => RegionIsInTheBlock
  BY DEF IInv
<1> QED
  BY <1>1, InitInv, NextInv, PTL DEF Spec

-----------------------------------------------------------------------------
(* The types, from the same invariant: what is read is a cell.             *)
LEMMA AlignedFacts ==
  ASSUME NEW n \in Nat
  PROVE  Align4(n) % 4 = 0 /\ (n % 4 = 0 => (n + 4) % 4 = 0)
<1>1. PICK q \in Nat : n + 3 - ((n + 3) % 4) = 4 * q
  <2>1. n + 3 - ((n + 3) % 4) = 4 * ((n + 3) \div 4) /\ (n + 3) \div 4 \in Nat
    OBVIOUS
  <2> QED
    BY <2>1
<1>2. (4 * q) % 4 = 0
  OBVIOUS
<1> QED
  BY <1>1, <1>2 DEF Align4

(* Where the walk is there are cells behind the header.                    *)
LEMMA WordIsRead ==
  ASSUME IInv, InBlock, NEW off \in Nat, cursor <= off, off + 4 <= blob.size
  PROVE  Be32(off) \in Nat
  BY CellIsRead, BlobFacts DEF IInv, InBlock, Readable, HEADER

LEMMA InitTypes == Init => TypeOK
<1>1. 0 % 4 = 0
  OBVIOUS
<1>2. Init => inMemory \in BOOLEAN
  BY DEF Init
<1> QED
  BY <1>1, <1>2, BlobsAssumption DEF Init, TypeOK, Err, Errors, DEFAULT_ADDRESS_CELLS, DEFAULT_SIZE_CELLS

LEMMA NextTypes ==
  ASSUME IInv, TypeOK, [Next]_vars
  PROVE  TypeOK'
<1> USE DEF TypeOK
<1>1. ASSUME NEW e \in Errors, Return(Err(e))
      PROVE  TypeOK'
  BY <1>1 DEF Return, Err, walk
<1>2. CASE TotalSize \/ Panic \/ UNCHANGED vars
  BY <1>2 DEF TotalSize, Panic, vars, walk
<1>3. CASE NoTotalSize \/ RejectHeader \/ NoToken \/ UnendedName \/ EndRoot \/ EndTree
           \/ PropError
  BY <1>1, <1>3 DEF NoTotalSize, RejectHeader, NoToken, UnendedName, EndRoot, EndTree,
       PropError, HeaderError, Errors
<1>4. CASE StartWalk
  BY <1>4 DEF StartWalk, IsBlob
<1>5. CASE BeginNode
  <2>1. PICK nameEnd \in Zeros : cursor' = Align4(nameEnd + 1)
    BY <1>5 DEF BeginNode
  <2>2. nameEnd + 1 \in Nat
    BY <2>1, BlobFacts DEF IInv, Zeros, NameStart, After
  <2>3. cursor' \in Nat /\ cursor' % 4 = 0
    BY <2>1, <2>2, AlignFacts, AlignedFacts
  <2>4. inMemory' \in BOOLEAN
    BY <1>5 DEF BeginNode
  <2> QED
    BY <1>5, <2>3, <2>4 DEF BeginNode
<1>6. CASE EndNode \/ Nop
  <2>1. After(cursor) \in Nat /\ After(cursor) % 4 = 0
    BY AlignedFacts DEF After
  <2>2. CASE EndNode
    <3>1. inMemory' \in BOOLEAN
      BY <2>2 DEF EndNode
    <3> QED
      BY <2>1, <2>2, <3>1 DEF EndNode
  <2>3. CASE Nop
    BY <2>1, <2>3 DEF Nop
  <2> QED
    BY <1>6, <2>2, <2>3
<1>7. CASE SkipProp
  <2>1. Prop /\ InBlock
    BY <1>7 DEF SkipProp, Prop, On, IInv, Walking
  <2>2. ValEnd \in Nat /\ cursor <= ValEnd /\ ValEnd <= blob.size /\ PropLen \in Nat
    BY <2>1, PropFacts, BlobFacts DEF IInv, InBlock
  <2>3. PropLen = 4 => Be32(ValStart) \in Nat
    BY <2>1, <2>2, WordIsRead DEF ValEnd, ValStart
  <2>4. addrCells' \in Nat /\ sizeCells' \in Nat
    BY <1>7, <2>3 DEF SkipProp, CellCount
  <2>5. cursor' \in Nat /\ cursor' % 4 = 0
    BY <1>7, <2>2, AlignFacts, AlignedFacts DEF SkipProp
  <2> QED
    BY <1>7, <2>4, <2>5 DEF SkipProp
<1>8. CASE ReadReg
  <2>1. Prop /\ InBlock
    BY <1>8 DEF ReadReg, Prop, On, IInv, Walking
  <2>2. ASSUME Usable, NEW off \in Nat, NEW cells \in 1..2,
               cursor <= off, off + 4 * cells <= ValEnd
        PROVE  ReadCells(off, cells) \in Nat
    <3>1. off + 4 * cells <= blob.size
      BY <2>1, <2>2, PropFacts, BlobFacts DEF IInv, InBlock
    <3>2. off + 4 <= blob.size /\ (cells = 2 => off + 4 + 4 <= blob.size)
      BY <2>2, <3>1, BlobFacts DEF IInv
    <3>3. Be32(off) \in Nat /\ (cells = 2 => Be32(off + 4) \in Nat)
      BY <2>1, <2>2, <3>2, WordIsRead
    <3> QED
      BY <3>3, WordAssumption DEF ReadCells
  <2>3. Usable => /\ ReadCells(ValStart, addrCells) \in Nat
                  /\ ReadCells(ValStart + 4 * addrCells, sizeCells) \in Nat
    BY <2>1, <2>2, PropFacts DEF IInv, Usable, ValStart, ValEnd
  <2>4. Usable => TypeOK'
    BY <1>8, <2>3 DEF ReadReg, Return, Region, Errors, walk
  <2> QED
    BY <1>1, <1>8, <2>4 DEF ReadReg, Errors
<1>9. CASE BootMain
  <2>1. Saturated(result.base + result.size) * Mega \in Nat
    BY WordAssumption DEF Saturated, Mega
  <2> QED
    BY <1>9, <2>1 DEF BootMain, walk, GENERAL_MEMORY_END
<1>10. CASE Run
  <2>1. \A n \in Nat : MemEnd(n) \in Nat
    <3>1. \A n \in Nat : n - (n % Mega) \in Nat
      BY DEF Mega
    <3> QED
      BY <3>1 DEF MemEnd, RoundDown, GENERAL_MEMORY_BASE, Mega
  <2> QED
    BY <1>10, <2>1 DEF Run, walk
<1> QED
  BY <1>2, <1>3, <1>4, <1>5, <1>6, <1>7, <1>8, <1>9, <1>10 DEF Next

(* Every variable of the reader keeps its type, and the walk is at a       *)
(* four-byte boundary whatever the lengths in the blob (fdt.rs:140-196).   *)
THEOREM TypeCorrect == Spec => []TypeOK
<1>1. Init => IInv /\ TypeOK
  BY InitInv, InitTypes
<1>2. IInv /\ TypeOK /\ [Next]_vars => (IInv /\ TypeOK)'
  BY NextInv, NextTypes
<1> QED
  BY <1>1, <1>2, PTL DEF Spec

-----------------------------------------------------------------------------
(* What the launcher makes of the answer, whatever the blob was.           *)
RamEnd ==
  IF result.error = "none" THEN Saturated(result.base + result.size) * Mega
  ELSE GENERAL_MEMORY_END
IsWholePartOf(end) ==
  /\ memEnd % Mega = 0 /\ FirstEnd <= memEnd
  /\ IF end < FirstEnd THEN memEnd = FirstEnd ELSE IsAllRamUpTo(end)
GeneralMemoryIsTheAnswers ==
  pc = "running" =>
    IsWholePartOf(RamEnd) /\ (result.error # "none" => memEnd = GENERAL_MEMORY_END)
Handed == (pc = "booting" => memEnd = RamEnd) /\ GeneralMemoryIsTheAnswers

(* The clamp: at least a megapage, and whole megapages.                    *)
LEMMA ClampFacts ==
  ASSUME NEW end \in Nat
  PROVE  LET n == MemEnd(end)
         IN  /\ n \in Nat /\ n % Mega = 0 /\ FirstEnd <= n
             /\ IF end < FirstEnd THEN n = FirstEnd ELSE n <= end /\ end - n < Mega
<1> DEFINE least == IF end > FirstEnd THEN end ELSE FirstEnd
           q == least \div 512
<1>1. FirstEnd = 526336 /\ FirstEnd = 512 * 1028 /\ Mega = 512
  BY DEF FirstEnd, GENERAL_MEMORY_BASE, Mega
<1>2. least \in Nat /\ FirstEnd <= least
  BY <1>1
<1>3. MemEnd(end) = least - (least % 512)
  BY <1>1 DEF MemEnd, RoundDown, FirstEnd
<1> HIDE DEF least
<1>4. q \in Nat /\ least - (least % 512) = 512 * q /\ least % 512 \in 0..511
  BY <1>2
<1> HIDE DEF q
<1>5. 1028 <= q
  BY <1>1, <1>2, <1>4
<1>6. (512 * q) % 512 = 0
  BY <1>4
<1> QED
  BY <1>1, <1>2, <1>3, <1>4, <1>5, <1>6 DEF least

LEMMA NextHanded ==
  ASSUME TypeOK, Handed, [Next]_vars
  PROVE  Handed'
<1>1. CASE Run
  <2>1. memEnd = RamEnd /\ memEnd' = MemEnd(RamEnd) /\ RamEnd' = RamEnd /\ RamEnd \in Nat
    BY <1>1 DEF Run, Handed, TypeOK, RamEnd
  <2>2. IsWholePartOf(RamEnd)'
    BY <2>1, ClampFacts DEF IsWholePartOf, IsAllRamUpTo
  <2>3. result.error # "none" => memEnd' = GENERAL_MEMORY_END
    <3>1. 557056 % 512 = 0
      OBVIOUS
    <3> QED
      BY <2>1, <3>1 DEF RamEnd, MemEnd, RoundDown, GENERAL_MEMORY_BASE, GENERAL_MEMORY_END, Mega
  <2> QED
    BY <1>1, <2>2, <2>3 DEF Run, Handed, GeneralMemoryIsTheAnswers
<1>2. CASE BootMain
  BY <1>2 DEF BootMain, Handed, GeneralMemoryIsTheAnswers, RamEnd
<1>3. ASSUME pc' \notin {"booting", "running"}
      PROVE  Handed'
  BY <1>3 DEF Handed, GeneralMemoryIsTheAnswers
<1>4. CASE TotalSize \/ NoTotalSize \/ RejectHeader \/ StartWalk \/ NoToken \/ UnendedName
           \/ Panic \/ EndRoot \/ EndTree \/ PropError \/ ReadReg
  BY <1>3, <1>4 DEF TotalSize, NoTotalSize, RejectHeader, StartWalk, NoToken, UnendedName,
       Panic, EndRoot, EndTree, PropError, ReadReg, Return
<1>5. CASE BeginNode \/ EndNode \/ Nop \/ SkipProp
  BY <1>3, <1>5 DEF BeginNode, EndNode, Nop, SkipProp, Prop, On
<1>6. CASE UNCHANGED vars
  BY <1>6 DEF vars, Handed, GeneralMemoryIsTheAnswers, RamEnd, IsWholePartOf, IsAllRamUpTo
<1> QED
  BY <1>1, <1>2, <1>4, <1>5, <1>6 DEF Next

(* Whatever the blob says, damaged or not: general memory is every whole   *)
(* megapage up to the end of the region the reader answered, saturated at  *)
(* the word's end, with one megapage at the least, and is exactly the      *)
(* fallback when it is an error (main.rs:284-296, loader.rs:78-82).        *)
THEOREM MemoryIsTheAnswers == Spec => []GeneralMemoryIsTheAnswers
<1>1. Init => Handed
  BY DEF Init, Handed, GeneralMemoryIsTheAnswers
<1>2. Spec => []TypeOK
  BY TypeCorrect
<1>3. TypeOK /\ Handed /\ [Next]_vars => Handed'
  BY NextHanded
<1>4. Handed => GeneralMemoryIsTheAnswers
  BY DEF Handed
<1> QED
  BY <1>1, <1>2, <1>3, <1>4, PTL DEF Spec
=============================================================================
