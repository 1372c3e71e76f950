-------------------------------- MODULE MCFdt --------------------------------
(* Trees, the blobs they flatten to, what they say, and damaged blobs.     *)
EXTENDS Fdt, SequencesExt

Num(n) == [num |-> n, name |-> "other", nul |-> 0]
Text(name, nul) == [num |-> 1000, name |-> name, nul |-> nul]

(* A property: name and value, a sequence of cells, and bytes of padding.  *)
P(name, value, pad) == [name |-> name, value |-> value, pad |-> pad]
N(name, props, children) == [name |-> name, props |-> props, children |-> children]

Strings == [k \in {0, 15, 27, 39} |->
  CASE k = 0 -> "#address-cells" [] k = 15 -> "#size-cells" [] k = 27 -> "other" [] k = 39 -> "reg"]
OffsetOf(name) == CHOOSE k \in DOMAIN Strings : Strings[k] = name

(* "cpus" ends at a boundary, so its zero byte takes a cell of its own.    *)
NameCells(name) ==
  CASE name = "" -> <<Num(0)>>
    [] name = "memory" -> <<Text("memory", 4), Text("other", 2)>>
    [] name = "memory@" -> <<Text("memory@", 4), Text("other", 4), Text("other", 3)>>
    [] name = "cpus" -> <<Text("other", 4), Num(0)>>
    [] name = "memory-controller" -> <<Text("other", 4), Text("other", 1)>>

FlatProps(props) ==
  FlattenSeq([i \in DOMAIN props |->
    <<Num(FDT_PROP), Num(4 * Len(props[i].value) - props[i].pad), Num(OffsetOf(props[i].name))>>
      \o [j \in DOMAIN props[i].value |-> Num(props[i].value[j])]])
Flat(node, children) ==
  <<Num(FDT_BEGIN_NODE)>> \o NameCells(node.name) \o FlatProps(node.props)
    \o children \o <<Num(FDT_END_NODE)>>
FlatLeaf(n) == Flat(n, <<>>)
FlatInner(n) == Flat(n, FlattenSeq([i \in DOMAIN n.children |-> FlatLeaf(n.children[i])]))
FlatTree(root) ==
  <<Num(FDT_NOP)>> \o Flat(root, FlattenSeq([i \in DOMAIN root.children |->
    FlatInner(root.children[i]) \o <<Num(FDT_NOP)>>])) \o <<Num(FDT_END)>>

(* What a tree says: the first reg of the first memory node that has one,  *)
(* read with the root's counts.                                            *)
First(s, Test(_)) == s[CHOOSE i \in DOMAIN s : Test(s[i]) /\ \A j \in 1..(i - 1) : ~Test(s[j])]
Has(s, Test(_)) == \E i \in DOMAIN s : Test(s[i])
IsReg(p) == p.name = "reg"
HasReg(n) == n.name \in {"memory", "memory@"} /\ Has(n.props, IsReg)
Count(root, name, default) ==
  LET IsCount(p) == p.name = name /\ Len(p.value) = 1 /\ p.pad = 0
  IN  IF Has(root.props, IsCount) THEN First(root.props, IsCount).value[1] ELSE default
Amount(value) == IF Len(value) = 1 THEN value[1] ELSE value[1] * WordModulus + value[2]
TreeRam(root) ==
  LET a == Count(root, "#address-cells", 2)
      n == Count(root, "#size-cells", 1)
      reg == First(First(root.children, HasReg).props, IsReg)
  IN  IF ~Has(root.children, HasReg) THEN Err("NoMemoryNode")
      ELSE IF {a, n} \subseteq 1..2 /\ 4 * Len(reg.value) - reg.pad >= 4 * (a + n)
           THEN Region(Amount(SubSeq(reg.value, 1, a)), Amount(SubSeq(reg.value, a + 1, a + n)))
           ELSE Err("BadMemoryReg")

Blob(block, ram) ==
  [magic |-> TRUE, size |-> HEADER + 4 * (Len(block) + 2), version |-> 17,
   offStruct |-> HEADER, sizeStruct |-> 4 * Len(block),
   offStrings |-> HEADER + 4 * Len(block),
   cells |-> block \o <<Text("other", 4), Text("other", 3)>>, names |-> Strings,
   ram |-> ram, damage |-> "none"]
BlobsOf(trees) ==
  {Blob(flat[1], flat[2]) : flat \in {<<FlatTree(t), TreeRam(t)>> : t \in trees}}

Word == 2048
RootProps ==
  {<<>>, <<P("#address-cells", <<2>>, 0), P("#size-cells", <<2>>, 0)>>,
   <<P("#size-cells", <<1>>, 0), P("other", <<7, 0>>, 3), P("#address-cells", <<1>>, 0)>>,
   <<P("#address-cells", <<3>>, 0)>>, <<P("#address-cells", <<0, 1>>, 0), P("reg", <<5>>, 2)>>}
Regs ==
  {P("reg", <<0, 1024, 0, 64>>, 0), P("reg", <<1024, 64>>, 0), P("reg", <<0, 1024, 64>>, 1),
   P("reg", <<1024, 3>>, 0), P("reg", <<0, 1024, 2047, 2000>>, 0),
   P("reg", <<2047, 2047, 2047, 2047>>, 0)}
Decoy == P("reg", <<0, 5, 0, 6>>, 0)
OtherNodes ==
  {N("cpus", <<P("other", <<3, 3>>, 1), Decoy>>, <<N("memory@", <<Decoy>>, <<>>)>>),
   N("memory-controller", <<Decoy>>, <<>>),
   N("memory", <<P("other", <<1>>, 2)>>, <<N("memory", <<Decoy>>, <<>>)>>)}
MemoryNodes == {N("memory@", <<P("other", <<9>>, 0), r>>, <<N("cpus", <<Decoy>>, <<>>)>>) : r \in Regs}
Trees ==
  {N("", props, children) : props \in RootProps,
   children \in {<<>>} \cup {<<a>> : a \in OtherNodes \cup MemoryNodes}
     \cup {<<a, b>> : a, b \in OtherNodes \cup MemoryNodes}
     \cup {<<a, b, c>> : a \in OtherNodes, b \in OtherNodes, c \in MemoryNodes}}
SmallTrees ==
  {N("", props, <<a, b>>) : props \in {<<>>, <<P("#size-cells", <<2>>, 0)>>},
   a \in OtherNodes, b \in {N("memory", <<r>>, <<>>) : r \in Regs}}

(* The end of the block, or of the blob, is missing; or one cell is        *)
(* another one; or the header is damaged.                                  *)
CutBlock(b) ==
  {[b EXCEPT !.sizeStruct = 4 * n, !.damage = "cut"] : n \in 0..(b.sizeStruct \div 4 - 1)}
CutBlob(b) ==
  {[b EXCEPT !.size = 4 * n, !.damage = "cut"] : n \in 9..(b.size \div 4 - 1)}
OtherCell(b) ==
  {[b EXCEPT !.cells[i] = Num(n), !.damage = "cell"] :
     i \in 1..(b.sizeStruct \div 4), n \in {0, 1, 2, 3, 4, 9, 12, 39, 2000}}
OtherHeader(b) ==
  {[b EXCEPT !.magic = FALSE, !.damage = "header"], [b EXCEPT !.version = 15, !.damage = "header"],
   [b EXCEPT !.offStrings = b.size + 1, !.damage = "header"],
   [b EXCEPT !.sizeStruct = b.size, !.damage = "header"]}
Damaged(b) == CutBlock(b) \cup CutBlob(b) \cup OtherCell(b) \cup OtherHeader(b)

AllBlobs == BlobsOf(Trees) \cup UNION {Damaged(b) : b \in BlobsOf(SmallTrees)}
OneTree == N("", <<>>, <<N("memory", <<P("reg", <<0, 1024, 64>>, 0)>>, <<>>)>>)
CutBlobs == UNION {CutBlock(b) : b \in BlobsOf({OneTree})}
=============================================================================
