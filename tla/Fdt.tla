--------------------------------- MODULE Fdt ---------------------------------
(***************************************************************************)
(* The device tree reader (src/fdt.rs): one pass over the structure block, *)
(* a token at a time, for the first (base, size) of a /memory node, and    *)
(* what boot_main and the loader make of the answer.                       *)
(*                                                                         *)
(* Offsets are bytes from the start of the blob.  The block is a sequence  *)
(* of four-byte cells; a cell is the number be32 reads there, the name     *)
(* that starts there and the place of its first zero byte.  Amounts of     *)
(* memory are in megapages, so a cell of one has WordModulus values.       *)
(***************************************************************************)
EXTENDS Platform, Sequences

CONSTANTS Blobs, WordModulus

FDT_BEGIN_NODE == 1
FDT_END_NODE == 2
FDT_PROP == 3
FDT_NOP == 4
FDT_END == 9
DEFAULT_ADDRESS_CELLS == 2
DEFAULT_SIZE_CELLS == 1
HEADER == 40   \* bytes of the header

NodeNames == {"memory", "memory@", "other"}
PropNames == {"#address-cells", "#size-cells", "reg", "other"}
Cells == [num : Nat, name : NodeNames, nul : 0..4]

(* The header's fields, the block, and the strings by their offset.  Of a  *)
(* blob that was made from a tree and then damaged, ram is what the tree   *)
(* says and damage what was done to it; the reader sees neither.           *)
IsBlob(b) ==
  /\ b.magic \in BOOLEAN
  /\ {b.size, b.version, b.offStruct, b.sizeStruct, b.offStrings} \subseteq Nat
  /\ b.offStruct >= HEADER /\ b.offStruct % 4 = 0
  /\ b.cells \in Seq(Cells) /\ b.size <= HEADER + 4 * Len(b.cells)
  /\ \A k \in DOMAIN b.names : k \in Nat /\ b.names[k] \in PropNames
ASSUME BlobsAssumption == \A b \in Blobs : IsBlob(b)
ASSUME WordAssumption == WordModulus \in Nat \ {0, 1}

VARIABLES blob, pc, cursor, depth, addrCells, sizeCells, inMemory, result, memEnd

walk == <<cursor, depth, addrCells, sizeCells, inMemory>>
vars == <<blob, pc, walk, result, memEnd>>

Err(e) == [error |-> e, base |-> 0, size |-> 0]
Region(base, size) == [error |-> "none", base |-> base, size |-> size]
Errors == {"none", "BadMagic", "TooShortForHeader", "UnsupportedVersion",
           "StructBlockOutOfBounds", "StringsBlockOutOfBounds", "Truncated",
           "NoMemoryNode", "BadMemoryReg"}

Init ==
  /\ blob \in Blobs
  /\ pc = "size" /\ result = Err("none") /\ memEnd = 0
  /\ cursor = 0 /\ depth = 0 /\ inMemory = FALSE
  /\ addrCells = DEFAULT_ADDRESS_CELLS /\ sizeCells = DEFAULT_SIZE_CELLS

-----------------------------------------------------------------------------
(* Reading cells; be32's get(off..off + 4) is None past the end of fdt.    *)
Readable(off) == off + 4 <= blob.size
Cell(off) == blob.cells[(off - HEADER) \div 4 + 1]
Be32(off) == Cell(off).num
StructEnd == blob.offStruct + blob.sizeStruct

Align4(n) == (n + 3) - ((n + 3) % 4)

(* Mutant: a token is looked at and not taken.                             *)
Peek(off) == off
After(off) == off + 4

Return(r) == pc' = "parsed" /\ result' = r /\ UNCHANGED <<blob, walk, memEnd>>

(* total_size: the length every later bound refers to.                     *)
TotalSize ==
  /\ pc = "size" /\ blob.magic
  /\ pc' = "header"
  /\ UNCHANGED <<blob, walk, result, memEnd>>
NoTotalSize == pc = "size" /\ ~blob.magic /\ Return(Err("BadMagic"))

HeaderError ==
  CASE blob.size < HEADER -> "TooShortForHeader"
    [] blob.size >= HEADER /\ blob.version < 16 -> "UnsupportedVersion"
    [] blob.size >= HEADER /\ blob.version >= 16
         /\ (StructEnd > blob.size \/ blob.offStrings > blob.size) -> "StructBlockOutOfBounds"
    [] OTHER -> "none"
RejectHeader == pc = "header" /\ HeaderError # "none" /\ Return(Err(HeaderError))
StartWalk ==
  /\ pc = "header" /\ HeaderError = "none"
  /\ pc' = "walk" /\ cursor' = blob.offStruct
  /\ UNCHANGED <<blob, depth, addrCells, sizeCells, inMemory, result, memEnd>>

-----------------------------------------------------------------------------
(* The walk.                                                               *)
On(token) == pc = "walk" /\ Readable(cursor) /\ Be32(cursor) = token
Tokens == {FDT_BEGIN_NODE, FDT_END_NODE, FDT_PROP, FDT_NOP, FDT_END}
NoToken ==
  /\ pc = "walk" /\ (Readable(cursor) => Be32(cursor) \notin Tokens)
  /\ Return(Err("Truncated"))

(* A node's name is what is before the first zero byte inside the block.   *)
NameStart == After(cursor)
Zeros == {a \in NameStart..(StructEnd - 1) : Cell(a).nul = a % 4}
(* Mutant: at any depth.                                                   *)
IsMemoryAnywhere(d, name) == name \in {"memory", "memory@"}
IsMemory(d, name) == d = 2 /\ name \in {"memory", "memory@"}

BeginNode ==
  /\ On(FDT_BEGIN_NODE) /\ NameStart <= StructEnd
  /\ \E nameEnd \in Zeros :
       /\ \A a \in Zeros : nameEnd <= a
       /\ cursor' = Align4(nameEnd + 1)
       /\ inMemory' = (nameEnd > NameStart /\ IsMemory(depth + 1, Cell(NameStart).name))
  /\ depth' = depth + 1
  /\ UNCHANGED <<blob, pc, addrCells, sizeCells, result, memEnd>>
UnendedName ==
  /\ On(FDT_BEGIN_NODE) /\ NameStart <= StructEnd /\ Zeros = {}
  /\ Return(Err("Truncated"))
(* The slice fdt[name_start..struct_end] of a name that would start after  *)
(* the end of the block.                                                   *)
Panic ==
  /\ On(FDT_BEGIN_NODE) /\ NameStart > StructEnd
  /\ pc' = "panic"
  /\ UNCHANGED <<blob, walk, result, memEnd>>

EndNode ==
  /\ On(FDT_END_NODE) /\ depth # 1
  /\ cursor' = After(cursor) /\ depth' = depth - 1 /\ inMemory' = FALSE
  /\ UNCHANGED <<blob, pc, addrCells, sizeCells, result, memEnd>>
EndRoot == On(FDT_END_NODE) /\ depth = 1 /\ Return(Err("NoMemoryNode"))

Nop ==
  /\ On(FDT_NOP)
  /\ cursor' = After(cursor)
  /\ UNCHANGED <<blob, pc, depth, addrCells, sizeCells, inMemory, result, memEnd>>
EndTree == On(FDT_END) /\ Return(Err("NoMemoryNode"))

(* A property: its length, its name's place among the strings, its value.  *)
PropLen == Be32(cursor + 4)
PropName == blob.names[Be32(cursor + 8)]
ValStart == cursor + 12
ValEnd == ValStart + PropLen
(* Mutant: inside the blob instead of inside the block.                    *)
ValueInBlob == Readable(cursor + 4) /\ Readable(cursor + 8) /\ ValEnd <= blob.size
ValueInside == Readable(cursor + 4) /\ Readable(cursor + 8) /\ ValEnd <= StructEnd
Named == Be32(cursor + 8) \in DOMAIN blob.names
PropError ==
  /\ On(FDT_PROP) /\ ~(ValueInside /\ Named)
  /\ Return(Err(IF ValueInside THEN "StringsBlockOutOfBounds" ELSE "Truncated"))

Prop == On(FDT_PROP) /\ ValueInside /\ Named
CellCount(name, old) ==
  IF depth = 1 /\ PropName = name /\ PropLen = 4 THEN Be32(ValStart) ELSE old
(* The reg a region is read from.                                          *)
MemoryReg == depth # 1 /\ inMemory /\ PropName = "reg"
SkipProp ==
  /\ Prop /\ ~MemoryReg
  /\ addrCells' = CellCount("#address-cells", addrCells)
  /\ sizeCells' = CellCount("#size-cells", sizeCells)
  /\ cursor' = Align4(ValEnd)
  /\ UNCHANGED <<blob, pc, depth, inMemory, result, memEnd>>

(* read_reg, read_cells.                                                   *)
ReadCells(off, cells) ==
  IF cells = 1 THEN Be32(off) ELSE Be32(off) * WordModulus + Be32(off + 4)
(* Mutant: whatever the length.                                            *)
AnyLength == addrCells \in 1..2 /\ sizeCells \in 1..2
Usable ==
  /\ addrCells \in 1..2 /\ sizeCells \in 1..2
  /\ PropLen >= 4 * (addrCells + sizeCells)
ReadReg ==
  /\ Prop /\ MemoryReg
  /\ Return(IF Usable
            THEN Region(ReadCells(ValStart, addrCells),
                        ReadCells(ValStart + 4 * addrCells, sizeCells))
            ELSE Err("BadMemoryReg"))

(* boot_main: base.saturating_add(size), or the fallback.                  *)
Saturated(n) == IF n < WordModulus * WordModulus THEN n ELSE WordModulus * WordModulus - 1
BootMain ==
  /\ pc = "parsed"
  /\ memEnd' = IF result.error = "none" THEN Saturated(result.base + result.size) * Mega
               ELSE GENERAL_MEMORY_END
  /\ pc' = "booting"
  /\ UNCHANGED <<blob, walk, result>>

(* run(mem_end): the end of the root Untyped.                              *)
Run ==
  /\ pc = "booting"
  /\ memEnd' = MemEnd(memEnd)
  /\ pc' = "running"
  /\ UNCHANGED <<blob, walk, result>>

Next ==
  \/ TotalSize \/ NoTotalSize \/ RejectHeader \/ StartWalk
  \/ NoToken \/ BeginNode \/ UnendedName \/ Panic \/ EndNode \/ EndRoot
  \/ Nop \/ EndTree \/ PropError \/ SkipProp \/ ReadReg \/ BootMain \/ Run
Spec == Init /\ [][Next]_vars /\ WF_vars(Next)
-----------------------------------------------------------------------------
(* Types; the walk never leaves four-byte boundaries.                      *)
TypeOK ==
  /\ IsBlob(blob)
  /\ pc \in {"size", "header", "walk", "parsed", "booting", "running", "panic"}
  /\ cursor \in Nat /\ cursor % 4 = 0 /\ depth \in Int
  /\ addrCells \in Nat /\ sizeCells \in Nat /\ inMemory \in BOOLEAN
  /\ result \in [error : Errors, base : Nat, size : Nat]
  /\ memEnd \in Nat

(* What the tree says is what general memory becomes, wherever the memory  *)
(* node is among others, whatever has a similar name or the same name      *)
(* elsewhere, and however the reg is laid out: all whole megapages up to   *)
(* the end of RAM and no more.  If RAM ends below the first of them, or    *)
(* the tree says nothing usable, it is the least or the fallback.          *)
FirstEnd == GENERAL_MEMORY_BASE + Mega
IsAllRamUpTo(end) == memEnd <= end /\ end - memEnd < Mega /\ memEnd % Mega = 0
GeneralMemoryIsTheTrees ==
  pc = "running" /\ blob.damage = "none" =>
    LET end == Saturated(blob.ram.base + blob.ram.size) * Mega
    IN  CASE blob.ram.error # "none" -> memEnd = GENERAL_MEMORY_END
          [] blob.ram.error = "none" /\ end >= FirstEnd -> IsAllRamUpTo(end)
          [] OTHER -> memEnd = FirstEnd

(* A tree of which the end is missing gives the region it gave before or   *)
(* an error, and never another region.                                     *)
CutNeverMisleads ==
  pc = "parsed" /\ blob.damage = "cut" /\ result.error = "none" => result = blob.ram

(* A region is read from inside the structure block and nowhere else,      *)
(* whatever the lengths and counts in the blob say.                        *)
RegionIsInTheBlock ==
  pc = "parsed" /\ result.error = "none" =>
    /\ blob.offStruct <= cursor /\ StructEnd <= blob.size
    /\ ValStart + 4 * (addrCells + sizeCells) <= StructEnd

(* The walk ends on every blob.                                            *)
WalkEnds == <>(pc \in {"running", "panic"})

(* "anything malformed is an `Err`, never a permissive guess".             *)
MalformedIsAnError == pc # "panic"
=============================================================================
