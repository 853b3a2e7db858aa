---------------------------- MODULE FramesProofs ----------------------------
(***************************************************************************)
(* Proofs about Frames, for every memory size, page size, alignment and    *)
(* placement of the heap.                                                  *)
(***************************************************************************)
EXTENDS Frames, TLAPS

PageCount == Tables * PageEntries

(* static_alloc never returns an address below the first page, and all     *)
(* page tables are below heap_addr.                                        *)
AddrInv ==
  /\ heapAddr >= PageSize
  /\ \A t \in Table : tables[t] * PageSize < heapAddr

(* Before the identity map: no tables, and nothing has a frame.            *)
StartInv ==
  /\ pc = "start" => \A t \in Table : tables[t] = 0
  /\ pc \in {"start", "first", "map"} => identity = 0
  /\ pc \in {"start", "first"} => \A p \in Page : page[p].frame = 0
  /\ pc = "first" => used \intersect Cleared = {}

(* In its loop: the pages below i are mapped to their own frames, and      *)
(* those frames are the ones marked.                                       *)
LoopInv ==
  pc = "map" =>
    /\ i \in 1 .. PageCount
    /\ (i - 1) * PageSize < heapAddr
    /\ \A p \in Page : p >= i => page[p].frame = 0
    /\ \A p \in Page : p < i => tables[p \div PageEntries] # NULL
    /\ i <= Words * ByteBits =>
          /\ used \intersect Cleared = 0 .. i - 1
          /\ \A p \in Page : p < i => page[p].frame = p

(* After it: the map stays, and the heap is placed beyond it.              *)
IdentityInv ==
  /\ identity <= PageCount
  /\ identity # 0 => (identity - 1) * PageSize < heapAddr
  /\ IdentityMapped
  /\ MapCoversItsTables
  /\ pc \in {"idle", "expand", "contract"} => heapBase >= 1 /\ heapBase >= identity

(* Where the loops of the heap are.                                        *)
ResizeInv ==
  /\ pc = "idle" => heapPages >= 1 /\ heapBase + heapPages \in Page
  /\ pc = "expand" => /\ i <= limit /\ limit >= 1
                      /\ heapBase + limit \in Page
  /\ pc = "contract" => /\ limit <= i + 1 /\ limit >= 1
                        /\ heapBase + i + 1 \in Page

Backed(n) ==
  \A k \in InitialHeap - BlockListPages .. n - 1 :
     heapBase + k \in owned /\ page[heapBase + k].present

BackedInv ==
  /\ pc = "idle" => Backed(heapPages)
  /\ pc = "expand" => Backed(i)
  /\ pc = "contract" => Backed(limit)
  /\ \A p \in Page \ {0} :
        page[p].frame # 0 => p \in owned /\ page[p].present

(* Frames in use are marked, and in use once.                              *)
ExclusiveInv ==
  SmallMemory =>
    \A p \in Page : page[p].frame # 0 =>
      /\ page[p].frame \in used \union Foreign
      /\ pc # "corrupt" => page[p].frame \in used
      /\ \A q \in Page : page[q].frame = page[p].frame => q = p

IInv == /\ TypeOK /\ AddrInv /\ StartInv /\ LoopInv /\ IdentityInv
        /\ ResizeInv /\ BackedInv /\ ExclusiveInv

-----------------------------------------------------------------------------
(* Arithmetic.                                                             *)

(* Division by a positive number.                                          *)
LEMMA Division ==
  ASSUME NEW x \in Nat, NEW a \in Nat \ {0}
  PROVE  /\ x \div a \in Nat
         /\ (x \div a) * a <= x
         /\ x < (x \div a + 1) * a
         /\ x < a => x \div a = 0
         /\ (x * a) \div a = x
OBVIOUS

(* Multiplication keeps order.                                             *)
LEMMA Order ==
  ASSUME NEW x \in Nat, NEW y \in Nat, NEW a \in Nat \ {0}
  PROVE  /\ x * a < y * a => x < y
         /\ x * a <= y * a => x <= y
         /\ x <= y => x * a <= y * a
OBVIOUS

(* The product of two naturals is one.                                     *)
LEMMA Product ==
  ASSUME NEW x \in Nat, NEW y \in Nat
  PROVE  x * y \in Nat /\ (y # 0 => x <= x * y)
OBVIOUS

(* MAKE_ALIGNED moves an address on to the next multiple.                  *)
LEMMA Aligned ==
  ASSUME NEW x \in Nat, NEW a \in Nat \ {0}
  PROVE  /\ MakeAligned(x, a) \in Nat
         /\ MakeAligned(x, a) >= x
         /\ x >= a => /\ MakeAligned(x, a) = (x \div a + 1) * a
                      /\ MakeAligned(x, a) \div a = x \div a + 1
                      /\ MakeAligned(x, a) >= a
<1>1. x \div a \in Nat /\ x < (x \div a + 1) * a /\ x \div a + 1 \in Nat
  BY Division
<1>2. (x \div a + 1) * a \in Nat
  BY <1>1, Product
<1>3. ((x \div a + 1) * a) \div a = x \div a + 1
  BY <1>1, Division
<1> QED BY <1>1, <1>2, <1>3 DEF MakeAligned

-----------------------------------------------------------------------------
(* The bitmap.                                                             *)

(* The bits that are cleared lie in the memory of the bitmap.              *)
LEMMA BitmapFacts ==
  /\ Words \in Nat
  /\ Words * ByteBits \in Nat
  /\ Own \subseteq Nat /\ Foreign \subseteq Nat
  /\ Own \intersect Foreign = {}
  /\ Cleared \subseteq Own
<1> USE FramesAssumption
<1>1. Words \in Nat
  <2>1. ByteBits * WordBytes \in Nat \ {0}
    BY Product
  <2> QED BY <2>1, Division DEF Words
<1>2. Words * ByteBits \in Nat /\ Words * ByteBits <= Words * WordBytes * ByteBits
  <2>1. Words * WordBytes \in Nat /\ Words <= Words * WordBytes
    BY <1>1, Product
  <2> QED BY <1>1, <2>1, Product, Order
<1>3. BitmapAt \in Nat /\ DirectoryAt \in Nat /\ DirectoryAt - BitmapAt >= Words
  <2>1. BitmapAt \in Nat
    BY Aligned DEF BitmapAt
  <2>2. BitmapAt + Words \in Nat
    BY <1>1, <2>1
  <2>3. DirectoryAt \in Nat /\ DirectoryAt >= BitmapAt + Words
    BY <2>2, Aligned DEF DirectoryAt
  <2> QED BY <1>1, <2>1, <2>3
<1>4. Words * ByteBits <= (DirectoryAt - BitmapAt) * ByteBits
  <2>1. DirectoryAt - BitmapAt \in Nat
    BY <1>1, <1>3
  <2> QED BY <1>1, <1>3, <2>1, Order
<1>5. Words * WordBytes * ByteBits \in Nat
  BY <1>1, Product
<1>6. (DirectoryAt - BitmapAt) * ByteBits \in Nat
  <2>1. DirectoryAt - BitmapAt \in Nat
    BY <1>1, <1>3
  <2> QED BY <2>1, Product
<1> QED
  BY <1>1, <1>2, <1>4, <1>5, <1>6 DEF Own, Foreign, Scanned, Cleared

(* frame_get_first_free finds the lowest frame that is not marked.         *)
LEMMA FirstFreeIsLeast ==
  ASSUME used \subseteq Own, NEW n \in Cleared,
         used \intersect Cleared = {m \in Nat : m < n}
  PROVE  FirstFree = {n}
<1>1. n \in Own \ used /\ n \in Nat
  BY BitmapFacts DEF Cleared
<1>2. \A f \in Own \ used : f \in Nat /\ n <= f
  <2> SUFFICES ASSUME NEW f \in Own \ used, ~(n <= f) PROVE FALSE
    BY BitmapFacts
  <2>1. f \in Nat /\ f < n /\ f \in Cleared
    BY <1>1, BitmapFacts DEF Cleared
  <2> QED BY <2>1
<1>3. FirstFree = {f \in Own \ used : \A g \in Own \ used : f <= g}
  BY <1>1 DEF FirstFree
<1>4. \A f \in FirstFree : f <= n /\ f \in Nat /\ n <= f
  BY <1>1, <1>2, <1>3
<1>5. \A f \in FirstFree : f = n
  BY <1>1, <1>4
<1>6. n \in FirstFree
  BY <1>1, <1>2, <1>3
<1> QED BY <1>5, <1>6

(* What frame_get_first_free may return.                                   *)
LEMMA FirstFreeRange ==
  ASSUME used \subseteq Own, NEW f \in FirstFree
  PROVE  /\ f \in Nat
         /\ f \in Own \ used \/ f \in Foreign \/ f = 0
BY BitmapFacts DEF FirstFree

-----------------------------------------------------------------------------
(* What the calls do.                                                      *)

(* The table a page is in.                                                 *)
LEMMA TableOf ==
  ASSUME NEW p \in Page
  PROVE  p \div PageEntries \in Table
<1> USE FramesAssumption
<1> DEFINE t == p \div PageEntries
<1>1. p \in Nat /\ p < Tables * PageEntries
  BY Product DEF Page
<1>2. t \in Nat /\ t * PageEntries <= p
  BY <1>1, Division
<1>3. t * PageEntries < Tables * PageEntries
  BY <1>1, <1>2, Product
<1> QED BY <1>2, <1>3, Order DEF Table

(* page_get: tables are only added, heap_addr only grows, and the table of *)
(* the page asked for is there afterwards.                                 *)
LEMMA PageGetFacts ==
  ASSUME TypeOK, AddrInv, NEW p \in Page, PageGet(p)
  PROVE  /\ heapAddr' \in Nat /\ heapAddr' >= heapAddr
         /\ tables' \in [Table -> Nat]
         /\ \A t \in Table : tables[t] # NULL => tables'[t] = tables[t]
         /\ tables'[p \div PageEntries] # NULL
         /\ AddrInv'
<1> USE FramesAssumption
<1> DEFINE t == p \div PageEntries
           addr == MakeAligned(heapAddr, PageSize)
<1>1. t \in Table
  BY TableOf
<1>2. heapAddr \in Nat /\ heapAddr >= PageSize
  BY DEF TypeOK, AddrInv
<1>3. addr \in Nat /\ addr >= heapAddr /\ addr \div PageSize \in Nat
      /\ addr \div PageSize # NULL
  <2>1. addr \in Nat /\ addr >= heapAddr /\ addr \div PageSize = heapAddr \div PageSize + 1
    BY <1>2, Aligned
  <2>2. heapAddr \div PageSize \in Nat
    BY <1>2, Division
  <2> QED BY <2>1, <2>2 DEF NULL
<1>4. CASE tables[t] # NULL
  BY <1>2, <1>4 DEF PageGet, TypeOK, AddrInv
<1>5. CASE tables[t] = NULL
  <2> HIDE DEF t, addr
  <2>1. tables' = [tables EXCEPT ![t] = addr \div PageSize]
        /\ heapAddr' = addr + PageSize
    BY <1>5 DEF PageGet, t, addr
  <2>2. tables'[t] = addr \div PageSize
    BY <1>1, <2>1 DEF TypeOK
  <2>3. (addr \div PageSize) * PageSize <= addr
        /\ (addr \div PageSize) * PageSize \in Nat
    BY <1>3, Division, Product
  <2>4. tables'[t] * PageSize < heapAddr'
    BY <1>3, <2>1, <2>2, <2>3
  <2>5. heapAddr' \in Nat /\ heapAddr' >= heapAddr
    BY <1>2, <1>3, <2>1
  <2>6. tables' \in [Table -> Nat] /\ \A u \in Table : u # t => tables'[u] = tables[u]
    BY <1>1, <1>3, <2>1 DEF TypeOK
  <2>7. AddrInv'
    <3> SUFFICES ASSUME NEW u \in Table PROVE tables'[u] * PageSize < heapAddr'
      BY <1>2, <2>5 DEF AddrInv, Table
    <3>1. CASE u = t
      BY <2>4, <3>1
    <3>2. CASE u # t
      <4>1. tables[u] * PageSize < heapAddr /\ tables[u] * PageSize \in Nat
        BY Product DEF AddrInv, TypeOK
      <4> QED BY <1>2, <2>5, <2>6, <3>2, <4>1
    <3> QED BY <3>1, <3>2
  <2> QED BY <1>3, <1>5, <2>2, <2>5, <2>6, <2>7 DEF t
<1> QED BY <1>4, <1>5

(* frame_alloc changes one page and keeps every mark.                      *)
LEMMA FrameAllocFacts ==
  ASSUME TypeOK, NEW p \in Page, NEW present \in BOOLEAN, NEW then,
         FrameAlloc(p, present, then)
  PROVE  /\ used' \in SUBSET Own /\ used \subseteq used'
         /\ page' \in [Page -> [present : BOOLEAN, frame : Nat]]
         /\ \A q \in Page : q # p => page'[q] = page[q]
         /\ owned' \in SUBSET Page /\ owned \subseteq owned'
         /\ pc' \in {then, "corrupt"}
         /\ \/ page[p].frame # 0 /\ page'[p] = page[p] /\ used' = used
               /\ owned' = owned /\ pc' = then
            \/ /\ page[p].frame = 0 /\ page'[p].present = present
               /\ p \in owned'
               /\ page'[p].frame \in FirstFree
               /\ used' = used \union ({page'[p].frame} \intersect Own)
               /\ pc' = IF page'[p].frame \in Foreign THEN "corrupt" ELSE then
<1>1. CASE page[p].frame # 0
  BY <1>1 DEF FrameAlloc, TypeOK
<1>2. CASE page[p].frame = 0
  <2>1. PICK f \in FirstFree :
          /\ used' = used \union ({f} \intersect Own)
          /\ page' = [page EXCEPT ![p] = [present |-> present, frame |-> f]]
          /\ pc' = IF f \in Foreign THEN "corrupt" ELSE then
    BY <1>2 DEF FrameAlloc
  <2>2. f \in Nat
    BY FirstFreeRange DEF TypeOK
  <2>3. page'[p] = [present |-> present, frame |-> f]
    BY <2>1 DEF TypeOK
  <2>4. owned' = owned \union {p}
    BY <1>2 DEF FrameAlloc
  <2>5. page' \in [Page -> [present : BOOLEAN, frame : Nat]]
        /\ \A q \in Page : q # p => page'[q] = page[q]
    BY <2>1, <2>2 DEF TypeOK
  <2>6. used' \in SUBSET Own /\ used \subseteq used'
    BY <2>1 DEF TypeOK
  <2> QED BY <1>2, <2>1, <2>3, <2>4, <2>5, <2>6 DEF TypeOK
<1> QED BY <1>1, <1>2

(* frame_alloc gives a frame no other page has.                            *)
LEMMA FrameAllocExclusive ==
  ASSUME TypeOK, ExclusiveInv, pc # "corrupt", NEW p \in Page,
         NEW present \in BOOLEAN, NEW then, FrameAlloc(p, present, then)
  PROVE  ExclusiveInv'
<1> SUFFICES ASSUME SmallMemory, NEW q \in Page, page'[q].frame # 0
             PROVE  /\ page'[q].frame \in used' \union Foreign
                    /\ pc' # "corrupt" => page'[q].frame \in used'
                    /\ \A r \in Page : page'[r].frame = page'[q].frame => r = q
  BY DEF ExclusiveInv, SmallMemory
<1>1. \A r \in Page : page[r].frame # 0 =>
        /\ page[r].frame \in used
        /\ \A s \in Page : page[s].frame = page[r].frame => s = r
  BY DEF ExclusiveInv
<1>2. CASE page[p].frame # 0
  <2>1. page'[p] = page[p] /\ used' = used
    BY <1>2, FrameAllocFacts
  <2>2. \A r \in Page : page'[r] = page[r]
    BY <2>1, FrameAllocFacts
  <2> QED BY <1>1, <2>1, <2>2
<1>3. CASE page[p].frame = 0
  <2>1. /\ page'[p].frame \in FirstFree
        /\ used' = used \union ({page'[p].frame} \intersect Own)
        /\ pc' = IF page'[p].frame \in Foreign THEN "corrupt" ELSE then
    BY <1>3, FrameAllocFacts
  <2>2. page'[p].frame \in Own \ used \/ page'[p].frame \in Foreign
        \/ page'[p].frame = 0
    BY <2>1, FirstFreeRange DEF TypeOK
  <2>3. \A r \in Page : r # p => page'[r] = page[r]
    BY FrameAllocFacts
  <2>4. \A r \in Page : r # p /\ page[r].frame # 0 =>
           page[r].frame \in used /\ page[r].frame # page'[p].frame
    BY <1>1, <2>2, BitmapFacts DEF TypeOK
  <2>5. CASE q = p
    <3>1. \A r \in Page : page'[r].frame = page'[q].frame => r = q
      BY <2>3, <2>4, <2>5
    <3>2. page'[q].frame \in used' \union Foreign
      BY <2>1, <2>2, <2>5
    <3>3. pc' # "corrupt" => page'[q].frame \in used'
      BY <2>1, <2>2, <2>5
    <3> QED BY <3>1, <3>2, <3>3
  <2>6. CASE q # p
    <3>1. page'[q] = page[q] /\ page[q].frame \in used /\ page[q].frame # page'[p].frame
      BY <2>3, <2>4, <2>6
    <3>2. \A r \in Page : page'[r].frame = page'[q].frame => r = q
      BY <1>1, <2>3, <3>1
    <3> QED BY <2>1, <3>1, <3>2
  <2> QED BY <2>5, <2>6
<1> QED BY <1>2, <1>3

-----------------------------------------------------------------------------
(* The invariant.                                                          *)

(* The invariant holds at first.                                           *)
LEMMA InitInv == Init => IInv
<1> SUFFICES ASSUME Init PROVE IInv
  OBVIOUS
<1> USE FramesAssumption DEF Init
<1>1. TypeOK
  BY DEF TypeOK, NULL
<1>2. AddrInv
  <2>1. \A t \in Table : tables[t] = 0
    BY DEF NULL
  <2>2. 0 * PageSize = 0
    OBVIOUS
  <2> QED BY <2>1, <2>2 DEF AddrInv
<1>3. StartInv
  BY DEF StartInv, NULL
<1>4. LoopInv /\ ResizeInv
  BY DEF LoopInv, ResizeInv
<1>5. IdentityInv
  <2>1. PageCount \in Nat
    BY Product DEF PageCount
  <2> QED BY <2>1 DEF IdentityInv, IdentityMapped, MapCoversItsTables
<1>6. BackedInv /\ ExclusiveInv
  BY DEF BackedInv, ExclusiveInv
<1> QED BY <1>1, <1>2, <1>3, <1>4, <1>5, <1>6 DEF IInv

(* A step that changes neither entries, bitmap nor tables, and lets        *)
(* heap_addr grow, keeps the identity map and the owners of frames.        *)
LEMMA Untouched ==
  ASSUME IInv, UNCHANGED <<used, tables, page, identity, owned>>,
         heapAddr' \in Nat, heapAddr' >= heapAddr,
         pc' = "corrupt" \/ pc # "corrupt",
         pc \notin {"start", "first", "map"} /\ pc' \notin {"start", "first", "map"},
         pc' \in {"idle", "expand", "contract"} => heapBase' >= 1 /\ heapBase' >= identity'
  PROVE  AddrInv' /\ StartInv' /\ LoopInv' /\ IdentityInv' /\ ExclusiveInv'
<1> USE FramesAssumption DEF IInv
<1>1. AddrInv' /\ StartInv' /\ LoopInv'
  BY DEF AddrInv, StartInv, LoopInv, TypeOK
<1>2. ExclusiveInv'
  BY DEF ExclusiveInv, SmallMemory
<1>3. identity # 0 => (identity - 1) * PageSize < heapAddr'
  <2> SUFFICES ASSUME identity # 0 PROVE (identity - 1) * PageSize < heapAddr'
    OBVIOUS
  <2>1. (identity - 1) * PageSize \in Nat
    BY Product DEF TypeOK
  <2> QED BY <2>1 DEF IdentityInv, TypeOK
<1>4. IdentityInv'
  BY <1>3 DEF IdentityInv, IdentityMapped, MapCoversItsTables
<1> QED BY <1>1, <1>2, <1>4

(* So does a step that adds tables, or changes pages beyond the map.       *)
LEMMA IdentityKept ==
  ASSUME IInv, identity' = identity,
         heapAddr' \in Nat, heapAddr' >= heapAddr,
         \A t \in Table : tables[t] # NULL => tables'[t] = tables[t],
         \A p \in Page : p < identity => page'[p] = page[p],
         pc' \in {"idle", "expand", "contract"} => heapBase' >= 1 /\ heapBase' >= identity
  PROVE  IdentityInv'
<1> USE FramesAssumption DEF IInv
<1>1. PageCount \in Nat /\ identity \in Nat /\ identity <= PageCount
  BY Product DEF PageCount, TypeOK, IdentityInv
<1>2. \A p \in 0 .. identity - 1 :
        p \in Page /\ p < identity /\ p \div PageEntries \in Table
  <2>1. \A p \in 0 .. identity - 1 : p \in Page /\ p < identity
    BY <1>1 DEF Page, PageCount
  <2> QED BY <2>1, TableOf
<1>3. identity # 0 => (identity - 1) * PageSize < heapAddr'
  <2> SUFFICES ASSUME identity # 0 PROVE (identity - 1) * PageSize < heapAddr'
    OBVIOUS
  <2>1. (identity - 1) * PageSize \in Nat
    BY Product DEF TypeOK
  <2> QED BY <2>1 DEF IdentityInv, TypeOK
<1>4. IdentityMapped'
  BY <1>2 DEF IdentityInv, IdentityMapped
<1>5. MapCoversItsTables'
  BY <1>2 DEF IdentityInv, MapCoversItsTables
<1> QED BY <1>1, <1>3, <1>4, <1>5 DEF IdentityInv

(* The bitmap and the page directory are allocated.                        *)
LEMMA CreateDirectoryInv == IInv /\ CreateDirectory => IInv'
<1> SUFFICES ASSUME IInv, CreateDirectory PROVE IInv'
  OBVIOUS
<1> USE FramesAssumption DEF IInv, CreateDirectory
<1>1. heapAddr' \in Nat /\ heapAddr' >= PageSize
  <2>1. BitmapAt \in Nat /\ BitmapAt >= KernelEnd
    BY Aligned DEF BitmapAt
  <2>2. BitmapAt + Words \in Nat /\ BitmapAt + Words >= BitmapAt
    BY <2>1, BitmapFacts
  <2>3. DirectoryAt \in Nat /\ DirectoryAt >= BitmapAt + Words
    BY <2>2, Aligned DEF DirectoryAt
  <2> QED BY <2>1, <2>2, <2>3
<1>2. TypeOK'
  BY <1>1 DEF TypeOK
<1>3. AddrInv'
  <2>1. \A t \in Table : tables'[t] = 0
    BY DEF StartInv
  <2>2. 0 * PageSize = 0
    OBVIOUS
  <2> QED BY <1>1, <2>1, <2>2 DEF AddrInv
<1>4. StartInv' /\ LoopInv' /\ ResizeInv'
  BY DEF StartInv, LoopInv, ResizeInv
<1>5. IdentityInv'
  <2>1. identity = 0
    BY DEF StartInv
  <2> QED BY <2>1 DEF IdentityInv, IdentityMapped, MapCoversItsTables
<1>6. BackedInv' /\ ExclusiveInv'
  BY DEF BackedInv, ExclusiveInv, StartInv
<1> QED BY <1>2, <1>3, <1>4, <1>5, <1>6

(* Page 0 gets frame 0.                                                    *)
LEMMA MapFirstInv == IInv /\ MapFirst => IInv'
<1> SUFFICES ASSUME IInv, MapFirst PROVE IInv'
  OBVIOUS
<1> USE FramesAssumption DEF IInv
<1>1. 0 \in Page /\ PageCount \in Nat /\ PageCount >= 1
  BY Product DEF Page, PageCount
<1>2. /\ pc = "first" /\ identity = 0 /\ i' = 1 /\ identity' = 0
      /\ PageGet(0) /\ FrameAlloc(0, FALSE, "map")
      /\ \A p \in Page : page[p].frame = 0
      /\ used \intersect Cleared = {}
  BY DEF MapFirst, StartInv
<1>3. /\ heapAddr' \in Nat /\ heapAddr' >= heapAddr
      /\ tables' \in [Table -> Nat]
      /\ tables'[0 \div PageEntries] # NULL
      /\ AddrInv'
  BY <1>1, <1>2, PageGetFacts
<1>4. /\ used' \in SUBSET Own /\ used \subseteq used'
      /\ page' \in [Page -> [present : BOOLEAN, frame : Nat]]
      /\ \A q \in Page : q # 0 => page'[q] = page[q]
      /\ owned' \in SUBSET Page
      /\ pc' \in {"map", "corrupt"}
      /\ page'[0].frame \in FirstFree
      /\ used' = used \union ({page'[0].frame} \intersect Own)
  BY <1>1, <1>2, FrameAllocFacts
<1>5. TypeOK'
  BY <1>2, <1>3, <1>4 DEF TypeOK, MapFirst
<1>6. StartInv' /\ ResizeInv'
  BY <1>2, <1>3, <1>4 DEF StartInv, ResizeInv, TypeOK
<1>7. \A p \in Page : p >= 1 => page'[p].frame = 0
  BY <1>2, <1>4 DEF Page
<1>8. LoopInv'
  <2> SUFFICES ASSUME pc' = "map" PROVE LoopInv'
    BY DEF LoopInv
  <2>1. \A p \in Page : p < 1 => p = 0
    BY DEF Page
  <2>2. 1 <= Words * ByteBits =>
          used' \intersect Cleared = 0 .. 0 /\ page'[0].frame = 0
    <3> SUFFICES ASSUME 1 <= Words * ByteBits
                 PROVE  used' \intersect Cleared = 0 .. 0 /\ page'[0].frame = 0
      OBVIOUS
    <3>1. 0 \in Cleared /\ used \intersect Cleared = {m \in Nat : m < 0}
      BY <1>2, BitmapFacts DEF Cleared
    <3>2. FirstFree = {0}
      BY <3>1, FirstFreeIsLeast DEF TypeOK
    <3>3. page'[0].frame = 0 /\ 0 \in Own
      BY <1>4, <3>1, <3>2, BitmapFacts
    <3> QED BY <1>2, <1>4, <3>1, <3>3
  <2>3. (1 - 1) * PageSize < heapAddr'
    BY <1>3 DEF AddrInv
  <2> QED BY <1>1, <1>2, <1>3, <1>7, <2>1, <2>2, <2>3 DEF LoopInv
<1>9. IdentityInv'
  BY <1>1, <1>2, <1>4 DEF IdentityInv, IdentityMapped, MapCoversItsTables
<1>10. BackedInv'
  BY <1>4, <1>7 DEF BackedInv, Page
<1>11. ExclusiveInv'
  BY <1>1, <1>2, FrameAllocExclusive
<1> QED BY <1>3, <1>5, <1>6, <1>8, <1>9, <1>10, <1>11

(* One turn of the loop that makes the identity map.                       *)
LEMMA MapNextInv == IInv /\ MapNext => IInv'
<1> SUFFICES ASSUME IInv, MapNext PROVE IInv'
  OBVIOUS
<1> USE FramesAssumption DEF IInv
<1>1. /\ pc = "map" /\ identity = 0 /\ identity' = 0 /\ i' = i + 1
      /\ i \in Page /\ i >= 1 /\ i * PageSize < heapAddr
      /\ PageGet(i) /\ FrameAlloc(i, TRUE, "map")
      /\ PageCount \in Nat /\ i + 1 <= PageCount
      /\ page[i].frame = 0 /\ i \in Nat
  <2>1. /\ pc = "map" /\ i \in Page /\ i * PageSize < heapAddr
        /\ PageGet(i) /\ FrameAlloc(i, TRUE, "map")
        /\ i' = i + 1 /\ identity' = identity
    BY DEF MapNext
  <2>2. PageCount \in Nat
    BY Product DEF PageCount
  <2>3. i \in Nat /\ i + 1 <= PageCount
    BY <2>1, <2>2 DEF Page, PageCount
  <2>4. identity = 0 /\ i >= 1
    BY <2>1, <2>2 DEF StartInv, LoopInv
  <2>5. page[i].frame = 0
    BY <2>1, <2>3 DEF LoopInv
  <2> QED BY <2>1, <2>2, <2>3, <2>4, <2>5
<1>2. /\ heapAddr' \in Nat /\ heapAddr' >= heapAddr
      /\ tables' \in [Table -> Nat]
      /\ \A t \in Table : tables[t] # NULL => tables'[t] = tables[t]
      /\ tables'[i \div PageEntries] # NULL
      /\ AddrInv'
  BY <1>1, PageGetFacts
<1>3. /\ used' \in SUBSET Own /\ used \subseteq used'
      /\ page' \in [Page -> [present : BOOLEAN, frame : Nat]]
      /\ \A q \in Page : q # i => page'[q] = page[q]
      /\ owned' \in SUBSET Page /\ owned \subseteq owned'
      /\ pc' \in {"map", "corrupt"}
      /\ page'[i].frame \in FirstFree /\ page'[i].present /\ i \in owned'
      /\ used' = used \union ({page'[i].frame} \intersect Own)
  BY <1>1, FrameAllocFacts
<1>4. TypeOK'
  BY <1>1, <1>2, <1>3 DEF TypeOK, MapNext
<1>5. StartInv' /\ ResizeInv'
  BY <1>1, <1>3 DEF StartInv, ResizeInv
<1>6. LoopInv'
  <2> SUFFICES ASSUME pc' = "map" PROVE LoopInv'
    BY DEF LoopInv
  <2>1. \A p \in Page : p < i + 1 => p < i \/ p = i
    BY <1>1 DEF Page
  <2>2. i + 1 <= Words * ByteBits =>
          /\ used' \intersect Cleared = 0 .. i
          /\ \A p \in Page : p < i + 1 => page'[p].frame = p
    <3> SUFFICES ASSUME i + 1 <= Words * ByteBits
                 PROVE  /\ used' \intersect Cleared = 0 .. i
                        /\ \A p \in Page : p < i + 1 => page'[p].frame = p
      OBVIOUS
    <3>1. i \in Nat /\ i \in Cleared
      BY <1>1, BitmapFacts DEF Cleared, TypeOK
    <3>2. /\ used \intersect Cleared = 0 .. i - 1
          /\ \A p \in Page : p < i => page[p].frame = p
      <4>1. i <= Words * ByteBits
        BY <3>1, BitmapFacts
      <4> HIDE DEF IInv
      <4> QED BY <1>1, <4>1 DEF LoopInv, IInv
    <3>3. used \intersect Cleared = {m \in Nat : m < i}
      BY <3>1, <3>2
    <3>4. FirstFree = {i}
      BY <3>1, <3>3, FirstFreeIsLeast DEF TypeOK
    <3>5. page'[i].frame = i /\ i \in Own
      BY <1>3, <3>1, <3>4, BitmapFacts
    <3>6. used' \intersect Cleared = 0 .. i
      <4>1. used' \intersect Cleared = (0 .. i - 1) \union {i}
        BY <1>3, <3>1, <3>2, <3>5
      <4> QED BY <3>1, <4>1
    <3>7. \A p \in Page : p < i + 1 => page'[p].frame = p
      BY <1>3, <2>1, <3>2, <3>5
    <3> QED BY <3>6, <3>7
  <2>3. \A p \in Page : p >= i + 1 => page'[p].frame = 0
    <3> SUFFICES ASSUME NEW p \in Page, p >= i + 1 PROVE page'[p].frame = 0
      OBVIOUS
    <3>1. p \in Nat /\ p # i /\ p >= i
      BY <1>1 DEF Page
    <3> QED BY <1>1, <1>3, <3>1 DEF LoopInv
  <2>4. \A p \in Page : p < i + 1 => tables'[p \div PageEntries] # NULL
    <3> SUFFICES ASSUME NEW p \in Page, p < i + 1
                 PROVE  tables'[p \div PageEntries] # NULL
      OBVIOUS
    <3>1. CASE p = i
      BY <1>2, <3>1
    <3>2. CASE p < i
      BY <1>1, <1>2, <3>2, TableOf DEF LoopInv
    <3> QED BY <2>1, <3>1, <3>2
  <2>5. i * PageSize < heapAddr'
    <3>1. i * PageSize \in Nat /\ heapAddr \in Nat
      BY <1>1, Product DEF TypeOK
    <3> QED BY <1>1, <1>2, <3>1
  <2>6. i' - 1 = i /\ i' \in 1 .. PageCount
    BY <1>1
  <2>7. /\ \A p \in Page : p >= i' => page'[p].frame = 0
        /\ \A p \in Page : p < i' => tables'[p \div PageEntries] # NULL
        /\ i' <= Words * ByteBits =>
              /\ used' \intersect Cleared = 0 .. i' - 1
              /\ \A p \in Page : p < i' => page'[p].frame = p
    <3>1. i' = i + 1
      BY <1>1
    <3> HIDE DEF IInv
    <3> QED BY <2>2, <2>3, <2>4, <2>6, <3>1
  <2> HIDE DEF IInv
  <2> QED BY <2>5, <2>6, <2>7 DEF LoopInv, Cleared, Words, PageCount
<1>7. IdentityInv'
  BY <1>1, <1>3 DEF IdentityInv, IdentityMapped, MapCoversItsTables
<1>8. BackedInv'
  <2>1. \A p \in Page \ {0} : page'[p].frame # 0 => p \in owned' /\ page'[p].present
    BY <1>3 DEF BackedInv
  <2> QED BY <1>3, <2>1 DEF BackedInv
<1>9. ExclusiveInv'
  BY <1>1, FrameAllocExclusive
<1> QED BY <1>2, <1>4, <1>5, <1>6, <1>7, <1>8, <1>9

(* The end of that loop: heap_addr has been caught up with.                *)
LEMMA MapDoneInv == IInv /\ MapDone => IInv'
<1> SUFFICES ASSUME IInv, MapDone PROVE IInv'
  OBVIOUS
<1> USE FramesAssumption DEF IInv, MapDone
<1>1. /\ i \in 1 .. PageCount /\ PageCount \in Nat
      /\ (i - 1) * PageSize < heapAddr
      /\ i * PageSize >= heapAddr
      /\ pc' = "tables" /\ identity' = i
  BY Product DEF LoopInv, PageCount
<1>2. TypeOK' /\ AddrInv' /\ StartInv' /\ LoopInv' /\ ResizeInv'
  BY <1>1 DEF TypeOK, AddrInv, StartInv, LoopInv, ResizeInv
<1>3. BackedInv' /\ ExclusiveInv'
  BY DEF BackedInv, ExclusiveInv, SmallMemory
<1>4. \A p \in 0 .. i - 1 : p \in Page /\ p < i
  BY <1>1 DEF Page, PageCount
<1>5. IdentityMapped'
  BY <1>1, <1>4 DEF IdentityMapped, LoopInv
<1>6. MapCoversItsTables'
  <2> SUFFICES ASSUME NEW p \in 0 .. i - 1
               PROVE  /\ tables[p \div PageEntries] # NULL
                      /\ tables[p \div PageEntries] < i
    BY <1>1 DEF MapCoversItsTables
  <2>1. p \in Page /\ p < i /\ p \div PageEntries \in Table
    BY <1>4, TableOf
  <2>2. tables[p \div PageEntries] # NULL
    BY <2>1 DEF LoopInv
  <2>3. tables[p \div PageEntries] \in Nat
        /\ tables[p \div PageEntries] * PageSize < heapAddr
    BY <2>1 DEF AddrInv, TypeOK
  <2>4. tables[p \div PageEntries] * PageSize < i * PageSize
    <3>1. tables[p \div PageEntries] * PageSize \in Nat /\ i * PageSize \in Nat
          /\ heapAddr \in Nat
      BY <1>1, <2>3, Product DEF TypeOK
    <3> QED BY <1>1, <2>3, <3>1
  <2>5. tables[p \div PageEntries] < i
    BY <1>1, <2>3, <2>4, Order DEF TypeOK
  <2> QED BY <2>2, <2>5
<1> QED BY <1>1, <1>2, <1>3, <1>5, <1>6 DEF IdentityInv

(* Tables for the region after it.                                         *)
LEMMA MapHeapInv == IInv /\ MapHeap => IInv'
<1> SUFFICES ASSUME IInv, MapHeap PROVE IInv'
  OBVIOUS
<1> USE FramesAssumption DEF IInv
<1>1. /\ pc = "tables" /\ pc' = "tables" /\ i \in Page /\ i' = i + 1 /\ PageGet(i)
      /\ UNCHANGED <<asserts, used, page, limit, heapBase, heapPages, paging,
                     identity, owned>>
  BY DEF MapHeap
<1>2. /\ heapAddr' \in Nat /\ heapAddr' >= heapAddr
      /\ tables' \in [Table -> Nat]
      /\ \A t \in Table : tables[t] # NULL => tables'[t] = tables[t]
      /\ AddrInv'
  BY <1>1, PageGetFacts
<1>3. TypeOK'
  BY <1>1, <1>2 DEF TypeOK
<1>4. StartInv' /\ LoopInv' /\ ResizeInv' /\ BackedInv'
  BY <1>1 DEF StartInv, LoopInv, ResizeInv, BackedInv, Backed
<1>5. IdentityInv'
  BY <1>1, <1>2, IdentityKept
<1>6. ExclusiveInv'
  BY <1>1 DEF ExclusiveInv, SmallMemory
<1> QED BY <1>2, <1>3, <1>4, <1>5, <1>6

(* The end of the loop over the tables for the heap.                       *)
LEMMA MapHeapDoneInv == IInv /\ MapHeapDone => IInv'
<1> SUFFICES ASSUME IInv, MapHeapDone PROVE IInv'
  OBVIOUS
<1> USE DEF IInv, MapHeapDone
<1>1. heapAddr \in Nat
  BY DEF TypeOK
<1>2. TypeOK'
  BY DEF TypeOK
<1>3. AddrInv' /\ StartInv' /\ LoopInv' /\ IdentityInv' /\ ExclusiveInv'
  BY <1>1, Untouched
<1>4. ResizeInv' /\ BackedInv'
  BY DEF ResizeInv, BackedInv, Backed
<1> QED BY <1>2, <1>3, <1>4

(* page_enable changes nothing but CR0.PG.                                 *)
LEMMA EnablePagingInv == IInv /\ EnablePaging => IInv'
<1> SUFFICES ASSUME IInv, EnablePaging PROVE IInv'
  OBVIOUS
<1> USE DEF IInv, EnablePaging
<1>1. heapAddr \in Nat
  BY DEF TypeOK
<1>2. TypeOK'
  BY DEF TypeOK
<1>3. AddrInv' /\ StartInv' /\ LoopInv' /\ IdentityInv' /\ ExclusiveInv'
  BY <1>1, Untouched
<1>4. ResizeInv' /\ BackedInv'
  BY DEF ResizeInv, BackedInv, Backed
<1> QED BY <1>2, <1>3, <1>4

(* The static allocator only moves heap_addr.                              *)
LEMMA StaticAllocInv == IInv /\ StaticAlloc => IInv'
<1> SUFFICES ASSUME IInv, StaticAlloc PROVE IInv'
  OBVIOUS
<1> USE FramesAssumption DEF IInv
<1>1. /\ pc \in {"boot", "idle"} /\ pc' \in {pc, "panic"}
      /\ UNCHANGED <<asserts, used, tables, page, i, limit, heapBase, heapPages,
                     paging, identity, owned>>
  BY DEF StaticAlloc
<1>2. PICK size \in AllocSizes : heapAddr' = MakeAligned(heapAddr, Alignment) + size
  BY DEF StaticAlloc
<1>3. heapAddr' \in Nat /\ heapAddr' >= heapAddr
  <2>1. MakeAligned(heapAddr, Alignment) \in Nat
        /\ MakeAligned(heapAddr, Alignment) >= heapAddr
    BY Aligned DEF TypeOK
  <2> QED BY <1>2, <2>1 DEF TypeOK
<1>4. TypeOK'
  BY <1>1, <1>3 DEF TypeOK
<1>5. AddrInv' /\ StartInv' /\ LoopInv' /\ IdentityInv' /\ ExclusiveInv'
  <2>1. pc' \in {"idle", "expand", "contract"} => heapBase' >= 1 /\ heapBase' >= identity'
    BY <1>1 DEF IdentityInv
  <2> QED BY <1>1, <1>3, <2>1, Untouched
<1>6. ResizeInv' /\ BackedInv'
  BY <1>1 DEF ResizeInv, BackedInv, Backed
<1> QED BY <1>4, <1>5, <1>6

(* The heap is placed at heap_addr, which is beyond the identity map.      *)
LEMMA HeapInitInv == IInv /\ HeapInit => IInv'
<1> SUFFICES ASSUME IInv, HeapInit PROVE IInv'
  OBVIOUS
<1> USE FramesAssumption DEF IInv
<1>1. PICK start : start = MakeAligned(heapAddr, PageSize) \div PageSize
  OBVIOUS
<1>2. /\ pc = "boot" /\ start + InitialHeap \in Page
      /\ heapAddr' = HeapSize + MakeAligned((start + InitialHeap) * PageSize, Alignment)
      /\ \/ pc' \in {"panic", "early"} /\ UNCHANGED <<heapBase, heapPages>>
         \/ /\ pc' = "idle"
            /\ heapBase' = start + BlockListPages
            /\ heapPages' = InitialHeap - BlockListPages
      /\ UNCHANGED <<asserts, used, tables, page, i, limit, paging, identity, owned>>
  BY <1>1 DEF HeapInit
<1>3. heapAddr \in Nat /\ heapAddr >= PageSize
  BY DEF TypeOK, AddrInv
<1>4. start \in Nat /\ start >= 1 /\ heapAddr < start * PageSize
  <2>1. start = heapAddr \div PageSize + 1
    BY <1>1, <1>3, Aligned
  <2> QED BY <1>3, <2>1, Division
<1>5. identity <= start
  <2> SUFFICES ASSUME identity # 0 PROVE identity - 1 < start
    BY <1>4 DEF TypeOK
  <2>1. identity - 1 \in Nat /\ (identity - 1) * PageSize < heapAddr
    BY DEF TypeOK, IdentityInv
  <2>2. (identity - 1) * PageSize \in Nat /\ start * PageSize \in Nat
    BY <1>4, <2>1, Product
  <2>3. (identity - 1) * PageSize < start * PageSize
    BY <1>3, <1>4, <2>1, <2>2
  <2> QED BY <1>4, <2>1, <2>3, Order
<1>6. heapAddr' \in Nat /\ heapAddr' >= heapAddr
  <2>1. start + InitialHeap \in Nat /\ start <= start + InitialHeap
    BY <1>4
  <2>2. (start + InitialHeap) * PageSize \in Nat /\ start * PageSize \in Nat
    BY <1>4, <2>1, Product
  <2>3. start * PageSize <= (start + InitialHeap) * PageSize
    BY <1>4, <2>1, Order
  <2>4. MakeAligned((start + InitialHeap) * PageSize, Alignment) \in Nat
        /\ MakeAligned((start + InitialHeap) * PageSize, Alignment)
             >= (start + InitialHeap) * PageSize
    BY <2>2, Aligned
  <2> QED BY <1>2, <1>3, <1>4, <2>2, <2>3, <2>4
<1>7. /\ heapBase' \in Nat /\ heapPages' \in Nat
      /\ pc' \in {"panic", "early", "idle"}
      /\ pc' = "idle" => /\ heapBase' >= 1 /\ heapBase' >= identity
                         /\ heapPages' = InitialHeap - BlockListPages
                         /\ heapPages' >= 1
                         /\ heapBase' + heapPages' = start + InitialHeap
  BY <1>2, <1>4, <1>5 DEF TypeOK
<1>8. TypeOK'
  BY <1>2, <1>6, <1>7 DEF TypeOK
<1>9. AddrInv' /\ StartInv' /\ LoopInv' /\ IdentityInv' /\ ExclusiveInv'
  <2>1. /\ pc \notin {"start", "first", "map", "corrupt"}
        /\ pc' \notin {"start", "first", "map"}
        /\ pc' \in {"idle", "expand", "contract"} =>
              heapBase' >= 1 /\ heapBase' >= identity'
        /\ UNCHANGED <<used, tables, page, identity, owned>>
    BY <1>2, <1>7
  <2> QED BY <1>6, <2>1, Untouched
<1>10. ResizeInv'
  BY <1>2, <1>7 DEF ResizeInv
<1>11. BackedInv'
  <2>1. \A p \in Page \ {0} :
          page'[p].frame # 0 => p \in owned' /\ page'[p].present
    BY <1>2 DEF BackedInv
  <2>2. ASSUME pc' = "idle" PROVE Backed(heapPages)'
    <3>1. heapPages' = InitialHeap - BlockListPages
      BY <1>7, <2>2
    <3>2. InitialHeap - BlockListPages .. heapPages' - 1 = {}
      BY <3>1
    <3> QED BY <3>2 DEF Backed
  <2> QED BY <1>7, <2>1, <2>2 DEF BackedInv
<1> QED BY <1>8, <1>9, <1>10, <1>11

(* heap_expand starts at the end of the heap.                              *)
LEMMA ExpandInv == IInv /\ Expand => IInv'
<1> SUFFICES ASSUME IInv, Expand PROVE IInv'
  OBVIOUS
<1> USE DEF IInv
<1>1. PICK new \in Page : new > heapPages /\ heapBase + new \in Page /\ limit' = new
  BY DEF Expand
<1>2. /\ pc = "idle" /\ pc' \in {"panic", "expand"} /\ i' = heapPages
      /\ UNCHANGED <<asserts, heapAddr, used, tables, page, heapBase, heapPages,
                     paging, identity, owned>>
  BY DEF Expand
<1>3. new \in Nat /\ heapPages \in Nat /\ heapPages >= 1 /\ heapAddr \in Nat
  BY <1>2 DEF Page, TypeOK, ResizeInv
<1>4. TypeOK'
  BY <1>1, <1>2, <1>3 DEF TypeOK
<1>5. AddrInv' /\ StartInv' /\ LoopInv' /\ IdentityInv' /\ ExclusiveInv'
  <2>1. heapBase' >= 1 /\ heapBase' >= identity'
    BY <1>2 DEF IdentityInv
  <2> QED BY <1>2, <1>3, <2>1, Untouched
<1>6. ResizeInv'
  BY <1>1, <1>2, <1>3 DEF ResizeInv
<1>7. BackedInv'
  BY <1>2 DEF BackedInv, Backed
<1> QED BY <1>4, <1>5, <1>6, <1>7

(* One page more for the heap.                                             *)
LEMMA ExpandPageInv == IInv /\ ExpandPage => IInv'
<1> SUFFICES ASSUME IInv, ExpandPage PROVE IInv'
  OBVIOUS
<1> USE FramesAssumption DEF IInv
<1>1. PICK p : p = heapBase + i
  OBVIOUS
<1>2. /\ pc = "expand" /\ i < limit /\ i' = i + 1
      /\ PageGet(p) /\ FrameAlloc(p, TRUE, "expand")
      /\ UNCHANGED <<asserts, limit, heapBase, heapPages, paging, identity>>
  BY <1>1 DEF ExpandPage
<1>3. /\ i \in Nat /\ limit \in Nat /\ heapBase \in Nat /\ identity \in Nat
      /\ heapBase >= 1 /\ heapBase >= identity
      /\ limit >= 1 /\ heapBase + limit \in Page
  BY <1>2 DEF TypeOK, IdentityInv, ResizeInv
<1>4. p \in Page /\ p \in Nat /\ p >= 1 /\ p >= identity
  <2>1. PageCount \in Nat
    BY Product DEF PageCount
  <2> QED BY <1>1, <1>2, <1>3, <2>1 DEF Page, PageCount
<1>5. /\ heapAddr' \in Nat /\ heapAddr' >= heapAddr
      /\ tables' \in [Table -> Nat]
      /\ \A t \in Table : tables[t] # NULL => tables'[t] = tables[t]
      /\ AddrInv'
  BY <1>2, <1>4, PageGetFacts
<1>6. /\ used' \in SUBSET Own
      /\ page' \in [Page -> [present : BOOLEAN, frame : Nat]]
      /\ \A q \in Page : q # p => page'[q] = page[q]
      /\ owned' \in SUBSET Page /\ owned \subseteq owned'
      /\ pc' \in {"expand", "corrupt"}
  BY <1>2, <1>4, FrameAllocFacts
<1>7. p \in owned' /\ page'[p].present
  <2>1. page[p].frame # 0 => p \in owned /\ page[p].present
    BY <1>4 DEF BackedInv
  <2> QED BY <1>2, <1>4, <2>1, FrameAllocFacts
<1>8. TypeOK'
  BY <1>2, <1>3, <1>5, <1>6 DEF TypeOK
<1>9. StartInv' /\ LoopInv'
  BY <1>6 DEF StartInv, LoopInv
<1>10. IdentityInv'
  <2>1. \A q \in Page : q < identity => page'[q] = page[q]
    BY <1>3, <1>4, <1>6
  <2> QED BY <1>2, <1>3, <1>5, <2>1, IdentityKept
<1>11. ResizeInv'
  BY <1>2, <1>3, <1>6 DEF ResizeInv
<1>12. BackedInv'
  <2>1. \A q \in Page \ {0} : page'[q].frame # 0 => q \in owned' /\ page'[q].present
    BY <1>6, <1>7 DEF BackedInv
  <2>2. Backed(i)
    BY <1>2 DEF BackedInv
  <2>3. ASSUME NEW k \in InitialHeap - BlockListPages .. i + 1 - 1
        PROVE  heapBase + k \in owned' /\ page'[heapBase + k].present
    <3>1. CASE k = i
      BY <1>1, <1>7, <3>1
    <3>2. CASE k # i
      <4>1. k \in InitialHeap - BlockListPages .. i - 1
        BY <1>3, <3>2
      <4>2. heapBase + k \in owned /\ page[heapBase + k].present
        BY <2>2, <4>1 DEF Backed
      <4>3. heapBase + k \in Page /\ heapBase + k # p
        BY <1>1, <1>3, <4>1, <4>2 DEF TypeOK
      <4> QED BY <1>6, <4>2, <4>3
    <3> QED BY <3>1, <3>2
  <2>4. Backed(i)'
    <3> SUFFICES ASSUME NEW k \in InitialHeap - BlockListPages .. i' - 1
                 PROVE  heapBase' + k \in owned' /\ page'[heapBase' + k].present
      BY DEF Backed
    <3>1. i' = i + 1 /\ heapBase' = heapBase
      BY <1>2
    <3>2. k \in InitialHeap - BlockListPages .. i + 1 - 1
      BY <1>3, <3>1
    <3>3. heapBase + k \in owned' /\ page'[heapBase + k].present
      BY <2>3, <3>2
    <3> QED BY <3>1, <3>3
  <2> QED BY <1>6, <2>1, <2>4 DEF BackedInv
<1>13. ExclusiveInv'
  BY <1>2, <1>4, FrameAllocExclusive
<1> QED BY <1>5, <1>8, <1>9, <1>10, <1>11, <1>12, <1>13

(* heap_contract starts at its last page, and keeps its minimum size.      *)
LEMMA ContractInv == IInv /\ Contract => IInv'
<1> SUFFICES ASSUME IInv, Contract PROVE IInv'
  OBVIOUS
<1> USE FramesAssumption DEF IInv
<1>1. PICK new \in MinimumHeap .. heapPages : limit' = new
  BY DEF Contract
<1>2. /\ pc = "idle" /\ pc' \in {"panic", "contract"} /\ i' = heapPages - 1
      /\ UNCHANGED <<asserts, heapAddr, used, tables, page, heapBase, heapPages,
                     paging, identity, owned>>
  BY DEF Contract
<1>3. /\ heapPages \in Nat /\ heapPages >= 1 /\ heapAddr \in Nat /\ heapBase \in Nat
      /\ heapBase + heapPages \in Page /\ i' \in Nat
      /\ new \in Nat /\ new >= 1 /\ new <= heapPages
  BY <1>2 DEF TypeOK, ResizeInv
<1>4. TypeOK'
  BY <1>1, <1>2, <1>3 DEF TypeOK
<1>5. AddrInv' /\ StartInv' /\ LoopInv' /\ IdentityInv' /\ ExclusiveInv'
  <2>1. heapBase' >= 1 /\ heapBase' >= identity'
    BY <1>2 DEF IdentityInv
  <2> QED BY <1>2, <1>3, <2>1, Untouched
<1>6. ResizeInv'
  <2>1. heapBase' + i' + 1 = heapBase + heapPages
    BY <1>2, <1>3
  <2> QED BY <1>1, <1>2, <1>3, <2>1 DEF ResizeInv
<1>7. BackedInv'
  <2>1. Backed(heapPages)
    BY <1>2 DEF BackedInv
  <2>2. Backed(limit)'
    BY <1>1, <1>2, <1>3, <2>1 DEF Backed
  <2> QED BY <1>2, <2>2 DEF BackedInv
<1> QED BY <1>4, <1>5, <1>6, <1>7

(* One page less: its entry alone changes, and under SmallMemory no bit    *)
(* but that of frame 0 is cleared.                                         *)
LEMMA ContractPageInv == IInv /\ ContractPage => IInv'
<1> SUFFICES ASSUME IInv, ContractPage PROVE IInv'
  OBVIOUS
<1> USE FramesAssumption DEF IInv
<1>1. PICK p : p = heapBase + i
  OBVIOUS
<1>2. /\ pc = "contract" /\ i > limit /\ FrameFree(p) /\ i' = i - 1
      /\ UNCHANGED <<pc, asserts, heapAddr, tables, limit, heapBase, heapPages,
                     paging, identity>>
  BY <1>1 DEF ContractPage
<1>3. /\ i \in Nat /\ limit \in Nat /\ heapBase \in Nat /\ identity \in Nat
      /\ heapBase >= 1 /\ heapBase >= identity /\ heapAddr \in Nat
      /\ limit >= 1 /\ heapBase + i + 1 \in Page
  BY <1>2 DEF TypeOK, IdentityInv, ResizeInv
<1>4. PageCount \in Nat /\ Page = 0 .. PageCount - 1
  BY Product DEF PageCount, Page
<1>5. p \in Page /\ p \in Nat /\ p >= 1 /\ p >= identity /\ p > heapBase + limit
  BY <1>1, <1>2, <1>3, <1>4
<1>6. /\ page' \in [Page -> [present : BOOLEAN, frame : Nat]]
      /\ \A q \in Page : q # p => page'[q] = page[q]
      /\ \A q \in Page : page'[q].present = page[q].present
      /\ page'[p].frame = 0
      /\ used' \subseteq used /\ owned' \subseteq owned
      /\ \A q \in owned : q # p => q \in owned'
      /\ page[p].frame = 0 => used' = used
      /\ page[p].frame # 0 => used' = used \ {page[p].frame \div PageSize}
  <2>1. CASE page[p].frame = 0
    BY <1>2, <2>1 DEF FrameFree, TypeOK
  <2>2. CASE page[p].frame # 0
    <3>1. page' = [page EXCEPT ![p].frame = 0] /\ owned' = owned \ {p}
          /\ used' = used \ {page[p].frame \div PageSize}
      BY <1>2, <2>2 DEF FrameFree
    <3> QED BY <1>5, <2>2, <3>1 DEF TypeOK
  <2> QED BY <2>1, <2>2
<1>7. TypeOK'
  BY <1>2, <1>3, <1>6 DEF TypeOK
<1>8. AddrInv' /\ StartInv' /\ LoopInv'
  BY <1>2, <1>3 DEF AddrInv, StartInv, LoopInv
<1>9. IdentityInv'
  <2>1. \A q \in Page : q < identity => page'[q] = page[q]
    BY <1>3, <1>5, <1>6
  <2> QED BY <1>2, <1>3, <2>1, IdentityKept
<1>10. ResizeInv'
  <2>1. heapBase + i \in Page
    BY <1>1, <1>5
  <2>2. heapBase' + i' + 1 = heapBase + i
    BY <1>2, <1>3
  <2> QED BY <1>2, <1>3, <2>1, <2>2 DEF ResizeInv
<1>11. BackedInv'
  <2>1. \A q \in Page \ {0} : page'[q].frame # 0 => q \in owned' /\ page'[q].present
    BY <1>6 DEF BackedInv
  <2>2. Backed(limit)
    BY <1>2 DEF BackedInv
  <2>3. Backed(limit)'
    <3> SUFFICES ASSUME NEW k \in InitialHeap - BlockListPages .. limit - 1
                 PROVE  heapBase + k \in owned' /\ page'[heapBase + k].present
      BY <1>2 DEF Backed
    <3>1. heapBase + k \in owned /\ page[heapBase + k].present
      BY <2>2 DEF Backed
    <3>2. heapBase + k # p /\ heapBase + k \in Page
      BY <1>3, <1>5, <3>1 DEF TypeOK
    <3> QED BY <1>6, <3>1, <3>2
  <2> QED BY <1>2, <2>1, <2>3 DEF BackedInv
<1>12. ExclusiveInv'
  <2> SUFFICES ASSUME SmallMemory PROVE ExclusiveInv'
    BY DEF ExclusiveInv, SmallMemory
  <2>1. \A q \in Page : page[q].frame # 0 =>
          /\ page[q].frame \in used
          /\ \A r \in Page : page[r].frame = page[q].frame => r = q
    BY <1>2 DEF ExclusiveInv
  <2>2. \A f \in used : f # 0 => f \in used'
    <3>1. CASE page[p].frame = 0
      BY <1>6, <3>1
    <3>2. CASE page[p].frame # 0
      <4>1. page[p].frame \in Own /\ page[p].frame \in Nat
        BY <1>5, <2>1, <3>2 DEF TypeOK
      <4>2. page[p].frame < PageSize
        BY <4>1 DEF SmallMemory
      <4>3. page[p].frame \div PageSize = 0
        BY <4>1, <4>2, Division
      <4> QED BY <1>6, <3>2, <4>3
    <3> QED BY <3>1, <3>2
  <2>3. \A q \in Page : page'[q].frame # 0 => q # p /\ page'[q] = page[q]
    BY <1>6
  <2>4. \A q \in Page : page'[q].frame # 0 =>
          /\ page'[q].frame \in used'
          /\ \A r \in Page : page'[r].frame = page'[q].frame => r = q
    BY <2>1, <2>2, <2>3
  <2> QED BY <2>4 DEF ExclusiveInv
<1> QED BY <1>7, <1>8, <1>9, <1>10, <1>11, <1>12

(* frame_free of a NULL pointer.                                           *)
LEMMA ContractNoTableInv == IInv /\ ContractNoTable => IInv'
<1> SUFFICES ASSUME IInv, ContractNoTable PROVE IInv'
  OBVIOUS
<1> USE DEF IInv, ContractNoTable
<1>1. heapAddr \in Nat
  BY DEF TypeOK
<1>2. TypeOK'
  BY DEF TypeOK
<1>3. AddrInv' /\ StartInv' /\ LoopInv' /\ IdentityInv' /\ ExclusiveInv'
  BY <1>1, Untouched
<1>4. ResizeInv' /\ BackedInv'
  BY DEF ResizeInv, BackedInv, Backed
<1> QED BY <1>2, <1>3, <1>4

(* The heap has its new size.                                              *)
LEMMA ResizeDoneInv == IInv /\ ResizeDone => IInv'
<1> SUFFICES ASSUME IInv, ResizeDone PROVE IInv'
  OBVIOUS
<1> USE FramesAssumption DEF IInv
<1>1. /\ \/ pc = "expand" /\ i >= limit
         \/ pc = "contract" /\ i <= limit
      /\ pc' = "idle" /\ heapPages' = limit /\ i' = 0 /\ limit' = 0
      /\ UNCHANGED <<asserts, heapAddr, used, tables, page, heapBase, paging,
                     identity, owned>>
  BY DEF ResizeDone
<1>2. i \in Nat /\ limit \in Nat /\ heapBase \in Nat /\ heapAddr \in Nat
  BY DEF TypeOK
<1>3. TypeOK'
  BY <1>1, <1>2 DEF TypeOK
<1>4. AddrInv' /\ StartInv' /\ LoopInv' /\ IdentityInv' /\ ExclusiveInv'
  <2>1. heapBase' >= 1 /\ heapBase' >= identity'
    BY <1>1 DEF IdentityInv
  <2> QED BY <1>1, <1>2, <2>1, Untouched
<1>5. limit >= 1 /\ heapBase + limit \in Page
  <2>1. PageCount \in Nat /\ Page = 0 .. PageCount - 1
    BY Product DEF PageCount, Page
  <2> QED BY <1>1, <1>2, <2>1 DEF ResizeInv
<1>6. ResizeInv'
  BY <1>1, <1>5 DEF ResizeInv
<1>7. Backed(limit)
  BY <1>1, <1>2 DEF BackedInv, ResizeInv
<1>8. BackedInv'
  BY <1>1, <1>7 DEF BackedInv, Backed
<1> QED BY <1>3, <1>4, <1>6, <1>8

(* Nothing changes.                                                        *)
LEMMA StutterInv == IInv /\ UNCHANGED vars => IInv'
<1> SUFFICES ASSUME IInv, UNCHANGED vars PROVE IInv'
  OBVIOUS
<1> USE DEF IInv, vars
<1>1. TypeOK' /\ AddrInv' /\ StartInv' /\ LoopInv' /\ ResizeInv'
  BY DEF TypeOK, AddrInv, StartInv, LoopInv, ResizeInv
<1>2. IdentityInv' /\ BackedInv'
  BY DEF IdentityInv, IdentityMapped, MapCoversItsTables, BackedInv, Backed
<1>3. ExclusiveInv'
  BY DEF ExclusiveInv, SmallMemory
<1> QED BY <1>1, <1>2, <1>3

-----------------------------------------------------------------------------
(* The theorems.                                                           *)

(* The conjunction above is an inductive invariant of paging_init, the     *)
(* static allocator and the loops of heap_expand and heap_contract.        *)
THEOREM IInvHolds == Spec => []IInv
<1>1. IInv /\ [Next]_vars => IInv'
  <2> SUFFICES ASSUME IInv, [Next]_vars PROVE IInv'
    OBVIOUS
  <2>1. CASE CreateDirectory BY <2>1, CreateDirectoryInv
  <2>2. CASE MapFirst BY <2>2, MapFirstInv
  <2>3. CASE MapNext BY <2>3, MapNextInv
  <2>4. CASE MapDone BY <2>4, MapDoneInv
  <2>5. CASE MapHeap BY <2>5, MapHeapInv
  <2>6. CASE MapHeapDone BY <2>6, MapHeapDoneInv
  <2>7. CASE EnablePaging BY <2>7, EnablePagingInv
  <2>8. CASE StaticAlloc BY <2>8, StaticAllocInv
  <2>9. CASE HeapInit BY <2>9, HeapInitInv
  <2>10. CASE Expand BY <2>10, ExpandInv
  <2>11. CASE ExpandPage BY <2>11, ExpandPageInv
  <2>12. CASE Contract BY <2>12, ContractInv
  <2>13. CASE ContractPage BY <2>13, ContractPageInv
  <2>14. CASE ContractNoTable BY <2>14, ContractNoTableInv
  <2>15. CASE ResizeDone BY <2>15, ResizeDoneInv
  <2>16. CASE UNCHANGED vars BY <2>16, StutterInv
  <2> QED
    BY <2>1, <2>2, <2>3, <2>4, <2>5, <2>6, <2>7, <2>8, <2>9, <2>10, <2>11,
       <2>12, <2>13, <2>14, <2>15, <2>16 DEF Next
<1> QED BY <1>1, InitInv, PTL DEF Spec

(* The variables of the paging code keep their types: no loop of           *)
(* paging_init or of the heap leaves the address space.                    *)
THEOREM FramesTypeCorrect == Spec => []TypeOK
<1>1. IInv => TypeOK
  BY DEF IInv
<1> QED BY <1>1, IInvHolds, PTL

(* paging_init maps each page to the frame of its own number.              *)
THEOREM IdentityMapCorrect == Spec => []IdentityMapped
<1>1. IInv => IdentityMapped
  BY DEF IInv, IdentityInv
<1> QED BY <1>1, IInvHolds, PTL

(* The loop of paging_init that runs after a moving heap_addr ends only    *)
(* once it has mapped the page tables it has put there.                    *)
THEOREM MapCoversTables == Spec => []MapCoversItsTables
<1>1. IInv => MapCoversItsTables
  BY DEF IInv, IdentityInv
<1> QED BY <1>1, IInvHolds, PTL

(* frame_alloc gives no frame to two pages, although frame_free clears the *)
(* wrong bit, while the bitmap has at most PageSize bits of its own.       *)
THEOREM FramesHaveOneOwner == Spec => []FramesExclusive
<1>1. IInv => FramesExclusive
  BY DEF IInv, ExclusiveInv, FramesExclusive
<1> QED BY <1>1, IInvHolds, PTL

(* However the heap grows and shrinks, each of its pages beyond the        *)
(* initial ones is present and has been given a frame.                     *)
THEOREM HeapPagesBacked == Spec => []HeapBacked
<1>1. IInv => HeapBacked
  BY DEF IInv, BackedInv, Backed, HeapBacked
<1> QED BY <1>1, IInvHolds, PTL
=============================================================================
