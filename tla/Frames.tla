-------------------------------- MODULE Frames --------------------------------
(***************************************************************************)
(* Physical frames and the kernel's page tables: arch/i686/mem/paging.c    *)
(* over the static allocator of src/mem/static.c, from paging_init to the  *)
(* heap that grows and shrinks through them (heap_expand, heap_contract).  *)
(*                                                                         *)
(* Addresses are numbers, so that what lies where decides what happens:    *)
(* the static allocator places page tables in the memory that the identity *)
(* map is growing over, and the frame bitmap is shorter than the words it  *)
(* is searched by.  A page is its number, a frame likewise.  The rw and    *)
(* user bits are left out.  All of it runs with interrupts off.            *)
(***************************************************************************)
EXTENDS Integers

CONSTANTS
  PageSize,       (* PAGE_SIZE, 4096.                                       *)
  PageEntries,    (* PAGE_ENTRIES, the pages of a table: 1024.              *)
  Tables,         (* PAGE_TABLES, the tables of a directory: 1024.          *)
  ByteBits,       (* Bits of a byte: 8.                                     *)
  WordBytes,      (* Bytes of a word of the bitmap: 4.                      *)
  Alignment,      (* Alignment of static allocations of 16 bytes and more.  *)
  FramesCount,    (* frames_count: the frames of physical memory.           *)
  KernelEnd,      (* heap_addr as static_init leaves it.                    *)
  DirectorySize,  (* sizeof(struct page_directory).                         *)
  HeapMapEnd,     (* HEAP_ADDRESS + HEAP_SIZE_INIT, in pages.               *)
  InitialHeap,    (* INITIAL_HEAP_SIZE, in pages; the heap's max_size too.  *)
  MinimumHeap,    (* MINIMUM_HEAP_SIZE, in pages.                           *)
  BlockListPages, (* The part of the heap its list of blocks takes.         *)
  HeapSize,       (* sizeof(struct heap).                                   *)
  AllocSizes,     (* Sizes other boot code asks of static_alloc.            *)
  ListAllocated   (* Does the heap get its list of blocks?  FALSE is the    *)
                  (* code as it is; what it does next is modelled for TRUE. *)

ASSUME FramesAssumption ==
  /\ PageSize \in Nat \ {0} /\ PageEntries \in Nat \ {0}
  /\ Tables \in Nat \ {0}
  /\ ByteBits \in Nat \ {0} /\ WordBytes \in Nat \ {0}
  /\ Alignment \in Nat \ {0} /\ Alignment < PageSize
  /\ FramesCount \in Nat
  /\ KernelEnd \in Nat /\ KernelEnd >= PageSize
  /\ DirectorySize \in Nat \ {0}
  /\ HeapMapEnd \in Nat
  /\ InitialHeap \in Nat /\ MinimumHeap \in Nat /\ BlockListPages \in Nat
  /\ 0 < MinimumHeap /\ MinimumHeap + BlockListPages <= InitialHeap
  /\ HeapSize \in Nat \ {0}
  /\ AllocSizes \subseteq Nat \ {0}
  /\ ListAllocated \in BOOLEAN

Table == 0 .. Tables - 1
Page == 0 .. Tables * PageEntries - 1   (* The 4 GiB address space.         *)

VARIABLES
  pc,         (* Where boot is, then which heap operation is in progress.   *)
  asserts,    (* Is this a build with DEBUG_ASSERT?                         *)
  heapAddr,   (* heap_addr.                                                 *)
  used,       (* Frames whose bit is set in the bitmap's own memory.        *)
  tables,     (* kernel_directory->tables: the page a table is in, or NULL. *)
  page,       (* The entries: present and frame.                            *)
  i,          (* The loop variable of paging_init and the heap's loops, as  *)
              (* a page number.                                             *)
  limit,      (* new_size in those loops.                                   *)
  heapBase,   (* heap->start, as a page number.                             *)
  heapPages,  (* get_heap_size, in pages.                                   *)
  paging,     (* CR0.PG.                                                    *)
  identity,   (* History: pages below this were identity mapped.            *)
  owned       (* History: pages given a frame and not freed since.          *)

vars == <<pc, asserts, heapAddr, used, tables, page, i, limit, heapBase,
          heapPages, paging, identity, owned>>

NULL == 0

Init ==
  /\ pc = "start"
  /\ asserts \in BOOLEAN
  /\ heapAddr = KernelEnd
  /\ used = {}
  /\ tables = [t \in Table |-> NULL]
  /\ page = [p \in Page |-> [present |-> FALSE, frame |-> 0]]
  /\ i = 0
  /\ limit = 0
  /\ heapBase = 0
  /\ heapPages = 0
  /\ paging = FALSE
  /\ identity = 0
  /\ owned = {}

-----------------------------------------------------------------------------
(* The static allocator.                                                   *)

(* MAKE_ALIGNED: IS_ALIGNED tests the wrong bits, so that an aligned       *)
(* address is moved on as well, unless it is below the alignment.          *)
MakeAligned(x, a) == IF x < a THEN x ELSE (x \div a + 1) * a

(* static_alloc(Words) and static_alloc(DirectorySize) in paging_init.     *)
Words == FramesCount \div (ByteBits * WordBytes)
BitmapAt == MakeAligned(KernelEnd, Alignment)
DirectoryAt == MakeAligned(BitmapAt + Words, Alignment)

(* What other boot code allocates, and then writes to.                     *)
StaticAlloc ==
  /\ pc \in {"boot", "idle"}
  /\ \E size \in AllocSizes :
        LET addr == MakeAligned(heapAddr, Alignment)
        IN  /\ addr \div PageSize \in Page
            /\ heapAddr' = addr + size
            /\ pc' = IF paging /\ ~page[addr \div PageSize].present
                       THEN "panic" ELSE pc
  /\ UNCHANGED <<asserts, used, tables, page, i, limit, heapBase, heapPages,
                 paging, identity, owned>>

-----------------------------------------------------------------------------
(* Frames.  The bitmap is allocated with its number of words as its size   *)
(* in bytes.  Only that much is cleared; up to the page directory follows  *)
(* padding with arbitrary bits; the rest of the words that are searched    *)
(* belong to the directory and whatever is allocated after it.             *)

Cleared == {f \in Nat : f < Words * ByteBits}
Scanned == 0 .. (Words * WordBytes * ByteBits - 1)
Own == {f \in Scanned : f < (DirectoryAt - BitmapAt) * ByteBits}
Foreign == Scanned \ Own

(* Mutation: the search starts behind frame 0, which stands for none.      *)
FirstFreeButZero ==
  LET free == (Own \ used) \ {0}
  IN  IF free # {} THEN {f \in free : \A g \in free : f <= g}
                   ELSE Foreign \union {0}

(* frame_get_first_free: the first clear bit.  Beyond its own memory the   *)
(* bits are those of other data, and 0 is the answer if all are set.       *)
FirstFree ==
  IF Own \ used # {} THEN {f \in Own \ used : \A g \in Own \ used : f <= g}
                     ELSE Foreign \union {0}

(* frame_alloc; its panic cannot happen.  Setting a bit in other data      *)
(* corrupts it, and nothing is known of what happens then.                 *)
FrameAlloc(p, present, then) ==
  \/ /\ page[p].frame # 0
     /\ pc' = then
     /\ UNCHANGED <<used, page, owned>>
  \/ /\ page[p].frame = 0
     /\ \E f \in FirstFree :
           /\ used' = used \union ({f} \intersect Own)
           /\ page' = [page EXCEPT ![p] = [present |-> present, frame |-> f]]
           /\ pc' = IF f \in Foreign THEN "corrupt" ELSE then
     /\ owned' = owned \union {p}

(* Mutation: the bit cleared is the one at the index of the frame's word.  *)
FrameFreeByWord(p) ==
  \/ /\ page[p].frame = 0
     /\ UNCHANGED <<used, page, owned>>
  \/ /\ page[p].frame # 0
     /\ used' = used \ {page[p].frame \div (WordBytes * ByteBits)}
     /\ page' = [page EXCEPT ![p].frame = 0]
     /\ owned' = owned \ {p}

(* frame_free: frame_clear divides the frame number by the page size, as   *)
(* if it were an address.  The entry stays present.                        *)
FrameFree(p) ==
  \/ /\ page[p].frame = 0
     /\ UNCHANGED <<used, page, owned>>
  \/ /\ page[p].frame # 0
     /\ used' = used \ {page[p].frame \div PageSize}
     /\ page' = [page EXCEPT ![p].frame = 0]
     /\ owned' = owned \ {p}

(* page_get with create.                                                   *)
PageGet(p) ==
  LET t == p \div PageEntries
      addr == MakeAligned(heapAddr, PageSize)
  IN  \/ /\ tables[t] # NULL
         /\ UNCHANGED <<tables, heapAddr>>
      \/ /\ tables[t] = NULL
         /\ tables' = [tables EXCEPT ![t] = addr \div PageSize]
         /\ heapAddr' = addr + PageSize

-----------------------------------------------------------------------------
(* paging_init.                                                            *)

CreateDirectory ==
  /\ pc = "start"
  /\ heapAddr' = DirectoryAt + DirectorySize
  /\ used' \in SUBSET (Own \ Cleared)
  /\ pc' = "first"
  /\ UNCHANGED <<asserts, tables, page, i, limit, heapBase, heapPages, paging,
                 identity, owned>>

(* The first page is not present, so that NULL faults.                     *)
MapFirst ==
  /\ pc = "first"
  /\ PageGet(0)
  /\ FrameAlloc(0, FALSE, "map")
  /\ i' = 1
  /\ UNCHANGED <<asserts, limit, heapBase, heapPages, paging, identity>>

(* for (i = PAGE_SIZE; i < heap_addr; ...): page_get moves heap_addr on.   *)
MapNext ==
  /\ pc = "map"
  /\ i \in Page
  /\ i * PageSize < heapAddr
  /\ PageGet(i)
  /\ FrameAlloc(i, TRUE, "map")
  /\ i' = i + 1
  /\ UNCHANGED <<asserts, limit, heapBase, heapPages, paging, identity>>

(* Mutation: the loop is left at the end of the page directory.            *)
MapDoneEarly ==
  /\ pc = "map"
  /\ i * PageSize >= DirectoryAt + DirectorySize
  /\ pc' = "tables"
  /\ identity' = i
  /\ UNCHANGED <<asserts, heapAddr, used, tables, page, i, limit, heapBase,
                 heapPages, paging, owned>>

MapDone ==
  /\ pc = "map"
  /\ i * PageSize >= heapAddr
  /\ pc' = "tables"
  /\ identity' = i
  /\ UNCHANGED <<asserts, heapAddr, used, tables, page, i, limit, heapBase,
                 heapPages, paging, owned>>

(* The tables of the region meant for the heap.                            *)
MapHeap ==
  /\ pc = "tables"
  /\ i \in Page
  /\ i < HeapMapEnd
  /\ PageGet(i)
  /\ i' = i + 1
  /\ UNCHANGED <<pc, asserts, used, page, limit, heapBase, heapPages, paging,
                 identity, owned>>

MapHeapDone ==
  /\ pc = "tables"
  /\ i >= HeapMapEnd
  /\ pc' = "enable"
  /\ UNCHANGED <<asserts, heapAddr, used, tables, page, i, limit, heapBase,
                 heapPages, paging, identity, owned>>

(* page_enable: its second asm statement reads a register that it declares *)
(* as an output, so the bit may be set or not.                             *)
EnablePaging ==
  /\ pc = "enable"
  /\ paging' \in BOOLEAN
  /\ pc' = "boot"
  /\ UNCHANGED <<asserts, heapAddr, used, tables, page, i, limit, heapBase,
                 heapPages, identity, owned>>

-----------------------------------------------------------------------------
(* The heap.                                                               *)

(* get_heap_region in the region the kernel is in, which has room, and     *)
(* create_heap.  It allocates its structure after the heap and writes      *)
(* there, then asks ksorted_array_place for a list of blocks: `true' makes *)
(* it a dynamic one, whose memory comes from kmalloc, which panics before  *)
(* the heap is there.                                                      *)
HeapInit ==
  /\ pc = "boot"
  /\ LET start == MakeAligned(heapAddr, PageSize) \div PageSize
         faults == paging /\ ~page[start + InitialHeap].present
     IN  /\ start + InitialHeap \in Page
         /\ heapAddr' = HeapSize +
                 MakeAligned((start + InitialHeap) * PageSize, Alignment)
         /\ \/ /\ faults
               /\ pc' = "panic"
               /\ UNCHANGED <<heapBase, heapPages>>
            \/ /\ ~faults /\ ~ListAllocated
               /\ pc' = "early"
               /\ UNCHANGED <<heapBase, heapPages>>
            \/ /\ ~faults /\ ListAllocated
               /\ pc' = "idle"
               /\ heapBase' = start + BlockListPages
               /\ heapPages' = InitialHeap - BlockListPages
  /\ UNCHANGED <<asserts, used, tables, page, i, limit, paging, identity, owned>>

(* heap_alloc without a hole big enough calls heap_expand.                 *)
Expand ==
  /\ pc = "idle"
  /\ \E new \in Page :
        /\ new > heapPages
        /\ heapBase + new \in Page
        /\ limit' = new
        /\ pc' = IF asserts /\ new > InitialHeap THEN "panic" ELSE "expand"
  /\ i' = heapPages
  /\ UNCHANGED <<asserts, heapAddr, used, tables, page, heapBase, heapPages,
                 paging, identity, owned>>

(* Paging is off here: with CR0.PG set HeapInit has met a page fault.      *)
ExpandPage ==
  /\ pc = "expand"
  /\ i < limit
  /\ PageGet(heapBase + i)
  /\ FrameAlloc(heapBase + i, TRUE, "expand")
  /\ i' = i + 1
  /\ UNCHANGED <<asserts, limit, heapBase, heapPages, paging, identity>>

(* Mutation: the heap may shrink below its minimum size.                   *)
ContractToNothing ==
  /\ pc = "idle"
  /\ \E new \in 0 .. heapPages : limit' = new
  /\ pc' = IF asserts THEN "panic" ELSE "contract"
  /\ i' = heapPages - 1
  /\ UNCHANGED <<asserts, heapAddr, used, tables, page, heapBase, heapPages,
                 paging, identity, owned>>

(* heap_free of a block at the end of the heap calls heap_contract.  With  *)
(* assertions it panics before: it looks for the footer where place_footer *)
(* does not put it.                                                        *)
Contract ==
  /\ pc = "idle"
  /\ \E new \in MinimumHeap .. heapPages : limit' = new
  /\ pc' = IF asserts THEN "panic" ELSE "contract"
  /\ i' = heapPages - 1
  /\ UNCHANGED <<asserts, heapAddr, used, tables, page, heapBase, heapPages,
                 paging, identity, owned>>

(* Mutation: the last page that stays is freed as well.                    *)
ContractPageTooFar ==
  /\ pc = "contract"
  /\ i >= limit - 1
  /\ tables[(heapBase + i) \div PageEntries] # NULL
  /\ FrameFree(heapBase + i)
  /\ i' = i - 1
  /\ UNCHANGED <<pc, asserts, heapAddr, tables, limit, heapBase, heapPages,
                 paging, identity>>

(* Down to, and without, the page at new_size.                             *)
ContractPage ==
  /\ pc = "contract"
  /\ i > limit
  /\ tables[(heapBase + i) \div PageEntries] # NULL
  /\ FrameFree(heapBase + i)
  /\ i' = i - 1
  /\ UNCHANGED <<pc, asserts, heapAddr, tables, limit, heapBase, heapPages,
                 paging, identity>>

(* Where there is no table frame_free is given a NULL pointer.             *)
ContractNoTable ==
  /\ pc = "contract"
  /\ i > limit
  /\ tables[(heapBase + i) \div PageEntries] = NULL
  /\ pc' = "corrupt"
  /\ UNCHANGED <<asserts, heapAddr, used, tables, page, i, limit, heapBase,
                 heapPages, paging, identity, owned>>

ResizeDone ==
  /\ \/ pc = "expand" /\ i >= limit
     \/ pc = "contract" /\ i <= limit
  /\ heapPages' = limit
  /\ pc' = "idle"
  /\ i' = 0
  /\ limit' = 0
  /\ UNCHANGED <<asserts, heapAddr, used, tables, page, heapBase, paging,
                 identity, owned>>

Next ==
  \/ CreateDirectory \/ MapFirst \/ MapNext \/ MapDone
  \/ MapHeap \/ MapHeapDone \/ EnablePaging
  \/ StaticAlloc
  \/ HeapInit \/ Expand \/ ExpandPage \/ Contract \/ ContractPage
  \/ ContractNoTable \/ ResizeDone

Spec == Init /\ [][Next]_vars

-----------------------------------------------------------------------------
(* Properties.                                                             *)

(* Types of the variables.                                                 *)
TypeOK ==
  /\ pc \in {"start", "first", "map", "tables", "enable", "boot", "idle",
             "expand", "contract", "corrupt", "panic", "early"}
  /\ asserts \in BOOLEAN
  /\ heapAddr \in Nat
  /\ used \in SUBSET Own
  /\ tables \in [Table -> Nat]
  /\ page \in [Page -> [present : BOOLEAN, frame : Nat]]
  /\ i \in Nat
  /\ limit \in Nat
  /\ heapBase \in Nat
  /\ heapPages \in Nat
  /\ paging \in BOOLEAN
  /\ identity \in Nat
  /\ owned \in SUBSET Page

(* paging_init gives each page the frame of its own number, although       *)
(* frame_alloc is never told which: the map is the identity, as long as    *)
(* the part of the bitmap that was cleared reaches.                        *)
IdentityMapped ==
  identity <= Words * ByteBits =>
    \A p \in 0 .. identity - 1 : page[p].frame = p

(* The identity map covers the page tables it is itself made of, though    *)
(* they are allocated while it is being made: once paging is on they can   *)
(* still be written.                                                       *)
MapCoversItsTables ==
  \A p \in 0 .. identity - 1 :
     LET t == tables[p \div PageEntries] IN t # NULL /\ t < identity

(* Frames freed have numbers below the page size: the wrong bit frame_free *)
(* clears is then always that of frame 0.                                  *)
SmallMemory == \A f \in Own : f < PageSize

(* A frame is given to one page only and stays marked while the page has   *)
(* it, however often the heap grows and shrinks (frame 0 excepted).        *)
FramesExclusive ==
  SmallMemory =>
    \A p \in Page : page[p].frame # 0 =>
      /\ page[p].frame \in used \union Foreign
      /\ \A q \in Page : page[q].frame = page[p].frame => q = p

(* Every page by which the heap has outgrown its initial size is present   *)
(* and has been given a frame: heap_expand and heap_contract agree on      *)
(* where the heap ends although the one leaves out a page the other does   *)
(* not.                                                                    *)
HeapBacked ==
  pc = "idle" =>
    \A k \in InitialHeap - BlockListPages .. heapPages - 1 :
       heapBase + k \in owned /\ page[heapBase + k].present

-----------------------------------------------------------------------------
(* What comments say, and the code does not do.                            *)

(* enable_kmalloc: "Called by create_heap after the kernel heap is         *)
(* initialised.  Prior to this, kmalloc and kfree will trigger a kernel    *)
(* panic": creating the heap does not call kmalloc itself.                 *)
KmallocAfterHeap == pc # "early"

(* paging_init: "Identity map pages up to heap address", which includes    *)
(* the page tables it has put there.                                       *)
MappedUpToHeapAddress ==
  pc = "enable" =>
    \A p \in Page \ {0} :
       p * PageSize < heapAddr => page[p].present /\ page[p].frame = p

(* frame_free of a page without a frame: "Already freed"; page 0 apart,    *)
(* a page that has been given a frame is not taken for one without.        *)
ZeroFrameMeansFreed == \A p \in owned \ {0} : page[p].frame # 0
=============================================================================
