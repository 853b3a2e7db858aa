------------------------------- MODULE BootInfo -------------------------------
(***************************************************************************)
(* What boot makes of the boot loader's tags and of the initial ramdisk:   *)
(* the memory map and the region for the heap (hal/memory.c, heap.c), the  *)
(* list of boot modules (boot_module.c), the files of the archive (tar.c,  *)
(* initrd.c).  Operators only; Boot calls them in order.                   *)
(*                                                                         *)
(* A tag is a record with its type and fields, a list of structures is a   *)
(* sequence, an archive is a sequence of blocks.  A block holds a name and *)
(* a size, as characters, whether it is a header or the data of a file.    *)
(* Regions are not empty and end below 2^64, where sums would begin anew.  *)
(***************************************************************************)
EXTENDS Integers, Sequences, SequencesExt

CONSTANTS
  PAGE_SIZE,
  Address,          \* the number of addresses, 2^32
  KernelEnd,        \* __kernel_end__
  INITIAL_HEAP_SIZE,
  TAR_HEADER_SIZE,
  INITRD_MAX_FILES,
  FILENAME_MAX,     \* INITRD_FILENAME_MAX
  Word              \* the number of values of the size of a file and of a hash

ASSUME BootInfoAssumption ==
  /\ {PAGE_SIZE, Address, INITIAL_HEAP_SIZE, TAR_HEADER_SIZE, Word} \subseteq Nat \ {0}
  /\ {KernelEnd, INITRD_MAX_FILES, FILENAME_MAX} \subseteq Nat
  /\ Word % TAR_HEADER_SIZE = 0

\* The tags that boot looks at, and others.
Regions == [type : STRING, addr : Nat, len : Nat \ {0}]
Tags ==
  [type : {"meminfo"}, lower : Nat, upper : Nat]
    \union [type : {"module"}, start : Nat, end : Nat, length : Nat]
    \union [type : {"mmap"}, entries : Seq(Regions)]
    \union [type : STRING \ {"meminfo", "module", "mmap"}]

Greater(a, b) == IF a > b THEN a ELSE b

\* A loop over the tags, and what it does with those of one type.
OverTags(tags, type, first, Op(_, _)) ==
  LET after[i \in 0 .. Len(tags)] ==
        IF i = 0 THEN first
        ELSE IF tags[i].type = type THEN Op(after[i - 1], tags[i]) ELSE after[i - 1]
  IN  after[Len(tags)]

\* MAKE_ALIGNED moves an address that is aligned as well, see Frames.
MakeAligned(x, a) == IF x < a THEN x ELSE (x \div a + 1) * a

\* static_alloc, n times for the same size: where heap_addr is after it.
Allocated(heapAddr, size, n) ==
  LET after[i \in 0 .. n] ==
        IF i = 0 THEN heapAddr ELSE MakeAligned(after[i - 1], IF size < 16 THEN 4 ELSE 16) + size
  IN  after[n]
---------------------------------------------------------------------------
(* Memory.                                                                 *)

\* memory_init.
MemoryInit(tags) ==
  OverTags(tags, "meminfo", [lower |-> 0, upper |-> 0], LAMBDA m, t : [lower |-> t.lower, upper |-> t.upper])

\* memory_map_init: the list, over all maps.
Region(e) == [type |-> e.type, start |-> e.addr, end |-> e.addr + e.len - 1]
MemoryMap(tags) ==
  OverTags(tags, "mmap", <<>>, LAMBDA list, t : list \o [i \in DOMAIN t.entries |-> Region(t.entries[i])])
MemoryMapNode == 24

\* get_heap_region: where the heap would begin in a region, as a number of 32
\* bits, and whether it fits there.
RegionStart(r, heapAddr) ==
  MakeAligned(IF r.start < heapAddr /\ heapAddr <= r.end THEN heapAddr ELSE r.start % Address, PAGE_SIZE)
\* Mutant: the alignment is not taken into account.
FitsUnaligned(r, heapAddr) ==
  r.end - r.start >= INITIAL_HEAP_SIZE /\ r.type = "available"
Fits(r, heapAddr) ==
  /\ r.end - r.start >= INITIAL_HEAP_SIZE /\ r.type = "available"
  /\ RegionStart(r, heapAddr) + INITIAL_HEAP_SIZE <= r.end

\* The first region that the heap fits in.  When there is none, the loop ends
\* behind the list, and the pointer that is followed next is NULL.
HeapRegion(map, heapAddr, debug) ==
  LET i == SelectInSeq(map, LAMBDA r : Fits(r, heapAddr))
  IN  IF debug /\ map = <<>> THEN [status |-> "panic"]
      ELSE IF i = 0 THEN [status |-> "wild"]
      ELSE [status |-> "ok", address |-> RegionStart(map[i], heapAddr)]
---------------------------------------------------------------------------
(* Boot modules.                                                           *)

\* discover_boot_modules: the end of the last one in memory.
ModulesEnd(tags) == OverTags(tags, "module", 0, LAMBDA end, t : Greater(end, t.end))

\* save_boot_modules: a structure more than there are modules, and never filled.
SavedModules(tags) ==
  LET m == OverTags(tags, "module", <<>>, LAMBDA list, t : Append(list, t))
  IN  [list |-> Append(m, [type |-> "unfilled"]), count |-> Len(m)]
ModuleNode == 16

\* The static memory that is used for them and their command lines.
ModulesAllocated(heapAddr, tags) ==
  OverTags(tags, "module", Allocated(heapAddr, ModuleNode, 1), LAMBDA a, t :
    Allocated(IF t.length > 0 THEN Allocated(a, t.length, 1) ELSE a, ModuleNode, 1))

\* static_init.
StaticInit(end) == MakeAligned(Greater(KernelEnd, end), PAGE_SIZE)
---------------------------------------------------------------------------
(* The initial ramdisk.                                                    *)

\* tar_oct2dec takes every character for a digit, the terminator too.
tar_oct2dec(s) ==
  LET dec[i \in 0 .. Len(s)] == IF i = 0 THEN 0 ELSE (8 * dec[i - 1] + s[i] - 48) % Word
  IN  dec[Len(s)]

\* The number that octal digits stand for.
Octal(s) ==
  LET value[i \in 0 .. Len(s)] == IF i = 0 THEN 0 ELSE 8 * value[i - 1] + s[i] - 48
  IN  value[Len(s)]

\* kstring_hash32 over at most n characters.
kstring_hash32(s, n) ==
  LET h[i \in 0 .. n] == IF i = 0 THEN 5381 % Word ELSE (s[i] + h[i - 1] * 33) % Word
  IN  h[IF Len(s) < n THEN Len(s) ELSE n]

\* Where the headers of the files are in an archive, and then the empty block.
\* The size of a file has only digits in its header, or ends in a terminator.
Headers(files) ==
  LET at[k \in 0 .. Len(files)] ==
        IF k = 0 THEN 1
        ELSE at[k - 1] + 1 + (files[k].size + TAR_HEADER_SIZE - 1) \div TAR_HEADER_SIZE
  IN  at
Holds(archive, files, terminated) ==
  LET at == Headers(files)
  IN  /\ \A k \in 0 .. Len(files) : at[k] \in DOMAIN archive
      /\ archive[at[Len(files)]].name = <<>>
      /\ \A k \in 1 .. Len(files) :
           LET header == archive[at[k - 1]]
               n == Len(header.size) - 1
           IN  /\ header.name = files[k].name
               /\ IF terminated
                  THEN n >= 0 /\ header.size[n + 1] = 0 /\ Octal(SubSeq(header.size, 1, n)) = files[k].size
                  ELSE Octal(header.size) = files[k].size

\* The walk of tar_extract: how many blocks it goes on.
Blocks(size) == size \div TAR_HEADER_SIZE + 1 + (IF size % TAR_HEADER_SIZE # 0 THEN 1 ELSE 0)

\* The blocks that its offset, a number of 32 bits, tells apart, and the n-th
\* one after a block.
Offsets == Word \div TAR_HEADER_SIZE
Forward(at, n) == ((at - 1 + n) % Offsets) + 1

FileAt(archive, at) ==
  [name |-> archive[at].name, hash |-> kstring_hash32(archive[at].name, FILENAME_MAX),
   start |-> at + 1, size |-> tar_oct2dec(archive[at].size)]

\* tar_extract of `blocks' blocks.  It stops at the end, at an empty name and
\* when the table is full; where it comes to is a header for it.
\* Mutant: the padding of a file is forgotten.
ExtractUnpadded(archive, blocks) ==
  LET walk[i \in 0 .. INITRD_MAX_FILES] ==
        IF i = 0 THEN [at |-> 1, files |-> <<>>]
        ELSE LET w == walk[i - 1]
             IN  IF w.at > blocks \/ archive[w.at].name = <<>> THEN w
                 ELSE LET f == FileAt(archive, w.at)
                      IN  [at |-> Forward(w.at, f.size \div TAR_HEADER_SIZE + 1), files |-> Append(w.files, f)]
  IN  walk[INITRD_MAX_FILES].files
Extract(archive, blocks) ==
  LET walk[i \in 0 .. INITRD_MAX_FILES] ==
        IF i = 0 THEN [at |-> 1, files |-> <<>>]
        ELSE LET w == walk[i - 1]
             IN  IF w.at > blocks \/ archive[w.at].name = <<>> THEN w
                 ELSE LET f == FileAt(archive, w.at)
                      IN  [at |-> Forward(w.at, Blocks(f.size)), files |-> Append(w.files, f)]
  IN  walk[INITRD_MAX_FILES].files

\* initrd_get_file_by_name: 0, or the place in the table.  The places that were
\* never filled have the hash 0.
FileByName(files, name) ==
  LET hash == kstring_hash32(name, FILENAME_MAX)
      i == SelectInSeq(files, LAMBDA f : f.hash = hash)
  IN  IF i = 0 /\ hash = 0 /\ Len(files) < INITRD_MAX_FILES THEN Len(files) + 1 ELSE i
=============================================================================
