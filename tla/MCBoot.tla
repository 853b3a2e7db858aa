-------------------------------- MODULE MCBoot --------------------------------
(* An instance of Boot for TLC.  A page has 64 bytes, the kernel lies from   *)
(* 256 to 420, the heap takes 256, and addresses end at 4096.                *)
EXTENDS Boot

Map(type, addr, len) == [type |-> type, addr |-> 16 * addr, len |-> 16 * len]
MapTag(entries) == [type |-> "mmap", entries |-> entries]
ModuleTag(start, end, length) == [type |-> "module", start |-> 16 * start, end |-> 16 * end, length |-> length]
MemoryTag == [type |-> "meminfo", lower |-> 16, upper |-> 200]

Low == Map("available", 0, 14)
Hole == Map("reserved", 14, 2)
High == Map("available", 16, 200)
Module == ModuleTag(27, 33, 5)

Other == [type |-> "framebuffer"]

\* The usual machine; two maps; memory in two regions, also with the module in
\* the upper one; memory that is too small, and cut in pieces; memory from the
\* first page on; no module; no map; no tags.
SomeTags == {
  <<MemoryTag, Module, Other, MapTag(<<Low, Hole, High>>)>>,
  <<MapTag(<<Low, Hole>>), Module, ModuleTag(34, 42, 0), MapTag(<<High>>)>>,
  <<Module, MapTag(<<Map("available", 16, 40), Map("available", 60, 300)>>)>>,
  <<Module, MapTag(<<Low, Map("available", 16, 45)>>)>>,
  <<Module, MapTag(<<Low, Map("available", 16, 30), Map("available", 300, 90)>>)>>,
  <<ModuleTag(180, 190, 0), MapTag(<<Map("available", 16, 100), Map("available", 150, 200)>>)>>,
  <<Module, MapTag(<<Map("available", 1, 20), High>>)>>,
  <<MapTag(<<Low, Hole, High>>)>>,
  <<Module>>,
  <<>>}

OctalDigits(n) == [i \in 1 .. 3 |-> 48 + ((n \div (IF i = 1 THEN 64 ELSE IF i = 2 THEN 8 ELSE 1)) % 8)]
Field(n, terminated) == IF terminated THEN Tail(OctalDigits(n)) \o <<0>> ELSE OctalDigits(n)
Data == [name |-> <<120>>, size |-> <<49, 50, 0>>]
End == [name |-> <<>>, size |-> <<0, 0, 0>>]
File(name, size) == [name |-> name, size |-> size]
Packed(files, terminated) ==
  FoldLeft(LAMBDA blocks, f : blocks \o <<[name |-> f.name, size |-> Field(f.size, terminated)]>>
             \o [i \in 1 .. (f.size + TAR_HEADER_SIZE - 1) \div TAR_HEADER_SIZE |-> Data],
           <<>>, files) \o <<End>>

SomeSymtab == <<98, 115>>
SomeFiles == {
  <<File(SomeSymtab, 9)>>, <<File(<<97>>, 16), File(SomeSymtab, 7), File(<<99>>, 0)>>,
  <<File(<<97>>, 5)>>, <<File(<<97>>, 0), File(SomeSymtab, 7)>>}

Environment(m, t, f, b) == [magic |-> m, tags |-> t, files |-> f, terminated |-> b, archive |-> Packed(f, b)]
Usual ==
  LET tags == <<MemoryTag, Module, MapTag(<<Low, Hole, High>>)>>
      files == <<File(<<97>>, 130), File(SomeSymtab, 64), File(<<99>>, 0)>>
  IN  {Environment(FALSE, tags, files, FALSE)}
      \union {Environment(TRUE, t, files, FALSE) : t \in SomeTags}
      \union {Environment(TRUE, tags, f, b) : f \in SomeFiles, b \in BOOLEAN}
One == {Environment(TRUE, <<MemoryTag, Module, MapTag(<<Low, Hole, High>>)>>, <<File(SomeSymtab, 9)>>, FALSE)}
=============================================================================
