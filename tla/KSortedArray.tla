---------------------------- MODULE KSortedArray ----------------------------
(***************************************************************************)
(* Sorted arrays of pointers (libk/ksorted_array.c) in the memory that      *)
(* ksorted_array_create gets for them.  It asks for the size of a pointer  *)
(* to the structure instead of the structure, so that the elements begin   *)
(* gap words after the structure does, and the two may overlap.            *)
(*                                                                         *)
(* A memory is a function from word offsets to numbers.  The words of the  *)
(* structure are elements (0), freeable (1), count (2), capacity (3) and   *)
(* predicate (4).  kmemory_copy, which an insertion before another element *)
(* calls, does not come back: see CopyStaysInside of Libk.                 *)
(***************************************************************************)
LOCAL INSTANCE Integers

CONSTANTS
  Capacity,     \* elements that there is room for
  PREDICATE     \* the address of the order predicate, no element's address

Constants ==
  Capacity \in Nat \ {0} /\ PREDICATE \in Nat \ {0}

COUNT == 2
CAPACITY == 3
ORDER == 4
\* Words between the structure and its elements: static_alloc aligns the one
\* to 4 bytes and the other to 16.
Gaps == {2, 3, 4, 5}

\* ksorted_array_create, for static memory.
Create(gap) ==
  [w \in 1 .. gap + Capacity |->
     CASE w = COUNT -> 0 [] w = CAPACITY -> Capacity [] w = ORDER -> PREDICATE [] OTHER -> 0]

Get(m, gap, i) == m[gap + i]
Count(m) == m[COUNT]
Elements(m, gap) == {Get(m, gap, i) : i \in 0 .. Count(m) - 1}

\* Can the elements be visited: are there Count of them, and all pointers?
Sound(m, gap, pointers) ==
  Count(m) <= Capacity + 1 /\ Elements(m, gap) \subseteq pointers

Outcome(m, status) == [mem |-> m, status |-> status]

\* Where an element goes, with the predicate as a set of pairs.
Place(m, gap, e, before) ==
  LET n == Count(m)
      places == {i \in 0 .. n : i = n \/ <<Get(m, gap, i), e>> \notin before}
  IN  CHOOSE i \in places : \A j \in places : i <= j

\* ksorted_array_add.  The element is stored before the capacity is checked.
Add(m, gap, e, pointers, before) ==
  LET n     == Count(m)
      first == Place(m, gap, e, before)
      m2    == [[m EXCEPT ![gap + first] = e] EXCEPT ![COUNT] = @ + 1]
  IN  CASE n = 0 -> Outcome(m2, "ok")
        [] n > 0 /\ (m[ORDER] # PREDICATE \/ ~Sound(m, gap, pointers)) -> Outcome(m, "wild")
        [] n > 0 /\ m[ORDER] = PREDICATE /\ Sound(m, gap, pointers) ->
             IF first < n THEN Outcome(m, "lost")
             ELSE Outcome(m2, IF m2[COUNT] > m2[CAPACITY] THEN "panic" ELSE "ok")
=============================================================================
