----------------------------- MODULE MCLoadImage -----------------------------
(* ELF files of two program headers, in an address space of eight          *)
(* megapages of 64 bytes.                                                  *)
EXTENDS LoadImage, SequencesExt

Header(type, flags, offset, vaddr, filesz, memsz) ==
  [type |-> type, flags |-> flags, offset |-> offset, vaddr |-> vaddr,
   filesz |-> filesz, memsz |-> memsz]
FileAt(phoff, stride, raw) ==
  [len |-> 184, ident |-> Ident, phoff |-> phoff, phentsize |-> stride,
   phnum |-> Len(raw), raw |-> [k \in 0..(Len(raw) - 1) |-> raw[k + 1]]]
File(raw) == FileAt(ELF_HEADER_SIZE, PHDR_SIZE, raw)

(* Starts on, before and inside a megapage, and close to the top; sizes    *)
(* zero, inside one megapage, up to one exactly, across two boundaries,    *)
(* with and without bytes that are not in the file.                        *)
Vaddrs == {0, 5, 60, 64, 120, 448, 460, 500}
Sizes == {<<0, 0>>, <<10, 10>>, <<3, 90>>, <<64, 64>>, <<70, 140>>}
Segs(flags, offset) ==
  {Header(PT_LOAD, flags, offset, a, s[1], s[2]) : a \in Vaddrs, s \in Sizes}
Text == Segs({"R", "X"}, 0)
Data == Segs({"R", "W"}, 100)

AText == Header(PT_LOAD, {"R", "X"}, 20, 70, 10, 10)
Odd == {Header("GNU_STACK", {"R", "W"}, 0, 0, 0, 0), Header("NULL", {}, 400, 9, 8, 7),
        Header("DYNAMIC", {"R"}, 0, 0, 8, 8),
        Header(PT_LOAD, {"R"}, 180, 0, 8, 8), Header(PT_LOAD, {"R"}, 500, 0, 20, 20),
        Header(PT_LOAD, {"R"}, 0, 0, 8, 7), Header(PT_LOAD, {"R"}, 0, 7, 9, 511)}
MCFiles ==
  {File(<<t, d>>) : t \in Text, d \in Data}
  \cup {File(<<d, t, AText>>) : t \in Segs({"X"}, 3), d \in {AText}}
  \cup {File(<<AText, o>>) : o \in Odd} \cup {File(<<o, AText>>) : o \in Odd}
  \cup {[File(<<AText>>) EXCEPT !.ident = Ident \ {x}] : x \in Ident}
  \cup {[File(<<AText>>) EXCEPT !.len = n] : n \in {0, 63, 64, 119, 120}}
  \cup {FileAt(p, s, <<AText, AText>>) :
          p \in {0, 72, 73, 128, 129, 255, 450, 456, 500, 511}, s \in {0, 56, 60}}

(* The layout src/hello-service/linker.ld makes: .text and .rodata in one  *)
(* megapage, .data in the next, and what the linker adds.                  *)
HelloFiles ==
  {[File(<<Header(PT_LOAD, {"R", "X"}, 300, 128, 20, 20),
           Header(PT_LOAD, {"R"}, 320, 148, 10, 10),
           Header(PT_LOAD, {"R", "W"}, 330, 192, 10, 30),
           Header("GNU_STACK", {"R", "W"}, 0, 0, 0, 0)>>) EXCEPT !.len = 400]}

(* "Phase 1's loader retypes one Frame [...] per PT_LOAD segment [...] (the *)
(* loader does not currently handle a segment straddling, or sharing a      *)
(* megapage with, another segment" (src/hello-service/linker.ld:13-18).     *)
OneFramePerSegment == pc = "done" => Len(mem) = Cardinality(Segments)
=============================================================================
