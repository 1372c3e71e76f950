--------------------------------- MODULE Elf ---------------------------------
(***************************************************************************)
(* The ELF reader (src/elf.rs).  It keeps no state: what it accepts is a   *)
(* predicate on a file.  usize and u64 have Modulus values, and arithmetic *)
(* that is not a checked_add wraps, as in the release build.               *)
(*                                                                         *)
(* A file is a record                                                      *)
(*   len      its length, at most isize::MAX as of any slice               *)
(*   ident    what parse_header compares: the fields that are as required  *)
(*   phoff, phentsize, phnum   the header's fields                         *)
(*   raw      what the program headers' bytes say, by index                *)
(***************************************************************************)
EXTENDS Integers

CONSTANT Modulus   \* 2^64: number of values of usize and u64

Wrap(n) == n % Modulus

ELF_HEADER_SIZE == 64
PHDR_SIZE == 56

(* 64 bits are more than enough: with only two headers' worth of addresses *)
(* a start near the top could wrap round to an end inside the file.        *)
ASSUME WidthAssumption == Modulus \in Nat /\ Modulus > 2 * PHDR_SIZE

Ident == {"magic", "class", "data", "type", "machine"}

PT_LOAD == "LOAD"
Skippable == {"NULL", "PHDR", "GNU_STACK", "RISCV_ATTRIBUTES"}

Flags == {"R", "W", "X"}
Usize == 0..(Modulus - 1)
RawHeaders ==
  [type : STRING, flags : SUBSET Flags, offset : Usize, vaddr : Usize,
   filesz : Usize, memsz : Usize]
IsFile(f) ==
  /\ f.len \in 0..((Modulus \div 2) - 1) /\ f.ident \subseteq Ident
  /\ f.phoff \in Usize /\ f.phentsize \in Nat /\ f.phnum \in Nat
  /\ f.phnum * f.phentsize < Modulus
  /\ f.raw \in [0..(f.phnum - 1) -> RawHeaders]

(* parse_header returns Ok.                                                *)
HeaderParses(f) == f.len >= ELF_HEADER_SIZE /\ f.ident = Ident

(* bytes.get(at..at + n) returns Some.                                     *)
Readable(f, at, n) == at <= Wrap(at + n) /\ Wrap(at + n) <= f.len

(* Where program header k starts: a checked addition, so a start that does *)
(* not fit is refused.                                                     *)
(* Mutant: an addition that wraps.                                         *)
WrappingStart(f, k) == Wrap(f.phoff + k * f.phentsize)
HeaderStart(f, k) == f.phoff + k * f.phentsize

(* Offset and length of the fields program_header reads of a PT_LOAD.      *)
FieldsRead == {<<0, 4>>, <<4, 4>>, <<8, 8>>, <<16, 8>>, <<32, 8>>, <<40, 8>>}

(* program_header(f, k) returns Err; Ok(None); Ok(Some).                   *)
Rejected(f, k) ==
  LET start == HeaderStart(f, k)
      raw == f.raw[k]
  IN  \/ start >= Modulus
      \/ Wrap(start + PHDR_SIZE) > f.len
      \/ ~Readable(f, start, 4)
      \/ raw.type \notin Skippable \cup {PT_LOAD}
      \/ /\ raw.type = PT_LOAD
         /\ \/ \E x \in FieldsRead : ~Readable(f, Wrap(start + x[1]), x[2])
            \/ raw.offset + raw.filesz >= Modulus
            \/ raw.offset + raw.filesz > f.len
            \/ raw.filesz > raw.memsz
Skipped(f, k) == ~Rejected(f, k) /\ f.raw[k].type \in Skippable
Loaded(f, k) == ~Rejected(f, k) /\ f.raw[k].type = PT_LOAD

=============================================================================
