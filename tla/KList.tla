-------------------------------- MODULE KList --------------------------------
(***************************************************************************)
(* The forward list of libk (klist.c): a list, and a tail made of it by    *)
(* klist_tail that shares its nodes.  The machine `s' holds the nodes, the *)
(* two structs and how the last call ended: "ok", stopped by a failing     *)
(* check ("abort"), or by following a pointer that is NULL or freed        *)
(* ("undefined"), after which nothing more is said of the program.  A node *)
(* is a positive number, NULL is 0.  The library takes no lock and its     *)
(* callers are sequential, so a call is one step.                          *)
(***************************************************************************)
EXTENDS Integers, Sequences, SequencesExt

CONSTANTS
  MaxNodes,   \* bound: nodes allocated in a behaviour
  MaxData     \* bound: objects that elements may point to

ASSUME KListAssumption == MaxNodes \in Nat /\ MaxData \in Nat

VARIABLES
  s,         \* the machine
  debug,     \* the build: are DEBUG_ASSERTs compiled in?
  model,     \* while exact, what klist.h says the list holds
  exact      \* was every call so far one that the code gets right?

vars == <<s, debug, model, exact>>

NULL == 0
NoList == [head |-> NULL, last |-> NULL, size |-> 0, dynamic |-> FALSE,
           duplicate |-> FALSE, live |-> FALSE]

Init ==
  /\ s = [node |-> <<>>, freed |-> {}, objects |-> 0, gone |-> {},
          list |-> NoList, tail |-> NoList, status |-> "ok"]
  /\ debug \in BOOLEAN
  /\ model = <<>>
  /\ exact = TRUE

Valid(m, n) == n \in DOMAIN m.node /\ n \notin m.freed
NextOf(m, n) == IF Valid(m, n) THEN m.node[n].next ELSE NULL

\* The node k steps behind n, NULL when the walk leaves the valid nodes.
Follow(m, n, k) ==
  LET walk[i \in 0 .. k] == IF i = 0 THEN n ELSE NextOf(m, walk[i - 1])
  IN  walk[k]

\* The nodes from n to the first that has no valid successor.
Chain(m, n) ==
  LET visited == {k \in 1 .. Len(m.node) + 1 : Valid(m, Follow(m, n, k - 1))}
  IN  [k \in visited |-> Follow(m, n, k - 1)]

Contents(m) == LET c == Chain(m, m.list.head) IN [i \in DOMAIN c |-> m.node[c[i]].data]
---------------------------------------------------------------------------
(* The functions.  Each takes the machine to what the call leaves.         *)

\* A call whose checks hold (asserts only count in a debug build) and which
\* follows valid pointers has its effect; another ends the behaviour.
Outcome(m, check, asserts, defined, effect) ==
  IF ~check \/ (debug /\ ~asserts) THEN [m EXCEPT !.status = "abort"]
  ELSE IF ~defined THEN [m EXCEPT !.status = "undefined"]
  ELSE effect

\* klist_append, k times with the same data: the nodes it leaves.
Appended(m, k, d) ==
  LET brk == Len(m.node)
      fresh(i) == [data |-> d, next |-> IF i < brk + k THEN i + 1 ELSE NULL]
      linked(i) == IF m.list.head # NULL /\ i = m.list.last
                   THEN [m.node[i] EXCEPT !.next = brk + 1] ELSE m.node[i]
  IN  [i \in 1 .. brk + k |-> IF i > brk THEN fresh(i) ELSE linked(i)]

AppendAll(m, k, d) ==
  IF k = 0 THEN m
  ELSE Outcome(m, TRUE, TRUE, m.list.head = NULL \/ Valid(m, m.list.last),
         [m EXCEPT !.node = Appended(m, k, d),
                   !.list = [m.list EXCEPT !.head = IF @ = NULL THEN Len(m.node) + 1 ELSE @,
                                           !.last = Len(m.node) + k,
                                           !.size = @ + k]])

\* Mutant: a prepended element is counted twice.
PrependedTwice(m, d) ==
  [m EXCEPT !.node = Append(m.node, [data |-> d, next |-> m.list.head]),
            !.list = [m.list EXCEPT !.head = Len(m.node) + 1, !.size = @ + 2]]
Prepended(m, d) ==
  [m EXCEPT !.node = Append(m.node, [data |-> d, next |-> m.list.head]),
            !.list = [m.list EXCEPT !.head = Len(m.node) + 1, !.size = @ + 1]]

\* get_node_by_index, and the assertions it makes on its way.
GetNode(m, i) ==
  IF i = 0 THEN m.list.head
  ELSE IF i + 1 = m.list.size THEN m.list.last
  ELSE Follow(m, m.list.head, i + 1)
GetAsserts(m, i) ==
  \/ i = 0 \/ i + 1 = m.list.size
  \/ \A k \in 1 .. i + 1 : Follow(m, m.list.head, k) \notin {NULL, m.list.last}

\* klist_insert between two elements.
InsertedAfter(m, i, d) ==
  LET n == GetNode(m, i)
  IN  Outcome(m, TRUE, GetAsserts(m, i), Valid(m, n),
        [m EXCEPT !.node = Append([m.node EXCEPT ![n].next = Len(m.node) + 1],
                                  [data |-> d, next |-> m.node[n].next]),
                  !.list.size = @ + 1])

\* Mutant: the new element follows the index instead of taking its place.
InsertedBehind(m, i, d) ==
  CASE i > m.list.size -> [m EXCEPT !.status = "abort"]
    [] i = m.list.size -> AppendAll(m, 1, d)
    [] OTHER           -> InsertedAfter(m, i, d)
Inserted(m, i, d) ==
  IF i > m.list.size THEN [m EXCEPT !.status = "abort"]
  ELSE IF i = 0 THEN Prepended(m, d)
  ELSE IF i = m.list.size THEN AppendAll(m, 1, d)
  ELSE InsertedAfter(m, i - 1, d)

Updated(m, i, d) ==
  LET n == GetNode(m, i)
  IN  Outcome(m, i < m.list.size, m.list.head # NULL /\ GetAsserts(m, i) /\ n # NULL,
        Valid(m, n), [m EXCEPT !.node[n].data = d])

Grown(m, size) ==
  LET g == AppendAll(m, size, NULL)
  IN  IF debug /\ g.list.size # size THEN [g EXCEPT !.status = "abort"] ELSE g

\* The checks that the functions which free memory share: a list whose nodes
\* kfree can take is dynamic.
FreeAsserts(l) == ~l.dynamic

Popped(m) ==
  LET l == m.list
      chain == Chain(m, l.head)
      k == SelectInSeq(chain, LAMBDA x : NextOf(m, x) = l.last)
  IN  IF l.size = 1 \/ l.head = l.last
      THEN Outcome(m, TRUE, FreeAsserts(l), Valid(m, l.head),
             [m EXCEPT !.freed = @ \union {l.head},
                       !.list = [m.list EXCEPT !.head = NULL, !.last = NULL]])
      ELSE Outcome(m, TRUE, FreeAsserts(l), Valid(m, l.last) /\ k > 0,
             [m EXCEPT !.node = [m.node EXCEPT ![l.last].data = NULL, ![chain[k]].next = NULL],
                       !.freed = @ \union {l.last},
                       !.list = [m.list EXCEPT !.last = chain[k], !.size = @ - 1]])

\* What a function called `deep' frees besides nodes.
Drop(m, deep, data) == IF deep THEN [m EXCEPT !.gone = @ \union (data \ {NULL})] ELSE m

LastData(m) == IF Valid(m, m.list.last) THEN m.node[m.list.last].data ELSE NULL

Shrunk(m, size, deep) ==
  LET pops[i \in Nat] ==
        IF i = 0 THEN m
        ELSE LET p == pops[i - 1]
             IN  IF p.status = "ok" /\ p.list.size > size
                 THEN Drop(Popped(p), deep, {LastData(p)}) ELSE p
  IN  Outcome(m, m.list.size > size, FreeAsserts(m.list), TRUE, pops[m.list.size + 1])

\* klist_shallow_remove and klist_deep_remove.
Removed(m, i, deep) ==
  LET n == GetNode(m, i)
      x == NextOf(m, n)
  IN  Outcome(m, i < m.list.size, FreeAsserts(m.list) /\ m.list.head # NULL /\ GetAsserts(m, i),
        Valid(m, n) /\ Valid(m, x),
        Drop([m EXCEPT !.node = [m.node EXCEPT ![n].next = m.node[x].next, ![x] = [data |-> NULL, next |-> NULL]],
                       !.freed = @ \union {x},
                       !.list.size = @ - 1],
             deep, {m.node[x].data}))

\* klist_shallow_free and klist_deep_free of the list or of its tail.
Freed(m, which, deep) ==
  LET l == m[which]
      nodes == IF l.duplicate THEN {} ELSE ToSet(Chain(m, l.head))
  IN  Outcome(m, TRUE, FreeAsserts(l), TRUE,
        Drop([m EXCEPT !.freed = @ \union nodes, ![which] = NoList],
             deep, {m.node[n].data : n \in nodes}))

\* klist_tail; the flags of the new struct are what its memory held.
\* Mutant: the tail is not marked as a duplicate.
TailNotDuplicate(m, garbage) ==
  [m EXCEPT !.tail = [head |-> NextOf(m, m.list.head), last |-> m.list.last,
                      size |-> m.list.size - 1, dynamic |-> garbage,
                      duplicate |-> FALSE, live |-> TRUE]]
TailOf(m, garbage) ==
  LET l == m.list
  IN  IF l.size = 1
      THEN Outcome(m, TRUE, l.head # NULL /\ l.head = l.last, TRUE, m)
      ELSE Outcome(m, TRUE, l.head # NULL /\ l.last # NULL, Valid(m, l.head),
             [m EXCEPT !.tail = [head |-> NextOf(m, l.head), last |-> l.last,
                                 size |-> l.size - 1, dynamic |-> garbage,
                                 duplicate |-> TRUE, live |-> TRUE]])

\* klist_index, for an index below the size.
IndexedNode(m, i) ==
  IF i + 1 = m.list.size THEN m.list.last ELSE Follow(m, m.list.head, i)
---------------------------------------------------------------------------
(* The calls.  Clients follow klist.h: they free only what was allocated   *)
(* dynamically, ask for no element of an empty list, and let every element *)
(* point to an object of its own.                                          *)

\* The call takes the machine to m; the header promises contents c, and the
\* code keeps the promise when `right'.
Call(m, c, right) ==
  /\ s.status = "ok"
  /\ s' = m
  /\ exact' = (exact /\ right)
  /\ model' = IF exact' THEN c ELSE <<>>
  /\ UNCHANGED debug

Room(k) == s.list.live /\ Len(s.node) + k <= MaxNodes
Object == s.objects + 1
WithObject == [s EXCEPT !.objects = Object]
MayFree == s.list.dynamic /\ s.list.size > 0

Create(dynamic, size) ==
  /\ ~s.list.live /\ Len(s.node) + size <= MaxNodes
  /\ LET m == [s EXCEPT !.list = [NoList EXCEPT !.dynamic = dynamic, !.live = TRUE]]
     IN  Call(AppendAll(m, size, NULL), [i \in 1 .. size |-> NULL], TRUE)

AppendElement ==
  /\ Room(1) /\ Object <= MaxData
  /\ Call(AppendAll(WithObject, 1, Object), Append(model, Object), TRUE)

Prepend ==
  /\ Room(1) /\ Object <= MaxData
  /\ Call(Prepended(WithObject, Object), <<Object>> \o model, s.list.size > 0)

Insert(i) ==
  /\ Room(1) /\ Object <= MaxData
  /\ Call(Inserted(WithObject, i, Object),
          IF i > Len(model) THEN model ELSE InsertAt(model, i + 1, Object),
          s.list.size > 0 /\ i \in {0, 1, s.list.size})

Update(i) ==
  /\ Room(0) /\ Object <= MaxData /\ s.list.size > 0
  /\ Call(Updated(WithObject, i, Object),
          IF i >= Len(model) THEN model ELSE [model EXCEPT ![i + 1] = Object],
          i = 0 \/ i + 1 = s.list.size)

Grow(size) ==
  /\ Room(size) /\ size > s.list.size
  /\ Call(Grown(s, size), model \o [i \in 1 .. size - Len(model) |-> NULL], s.list.size = 0)

Pop ==
  /\ Room(0) /\ MayFree
  /\ Call(Popped(s), SubSeq(model, 1, Len(model) - 1), s.list.size > 1)

Shrink(size, deep) ==
  /\ Room(0) /\ MayFree
  /\ Call(Shrunk(s, size, deep), IF size > Len(model) THEN model ELSE SubSeq(model, 1, size), size > 0)

RemoveElement(i, deep) ==
  /\ Room(0) /\ MayFree
  /\ Call(Removed(s, i, deep), IF i >= Len(model) THEN model ELSE RemoveAt(model, i + 1), FALSE)

FreeList(deep) ==
  /\ Room(0) /\ s.list.dynamic
  /\ Call(Freed(s, "list", deep), <<>>, TRUE)

MakeTail(garbage) ==
  /\ Room(0) /\ s.list.size > 0 /\ ~s.tail.live
  /\ Call(TailOf(s, garbage), model, TRUE)

FreeTail(deep) ==
  /\ s.tail.live /\ s.list.dynamic
  /\ Call(Freed(s, "tail", deep), model, TRUE)

Next ==
  \/ \E dynamic \in BOOLEAN, size \in 0 .. 2 : Create(dynamic, size)
  \/ AppendElement \/ Prepend \/ Pop
  \/ \E i \in 0 .. MaxNodes : Insert(i) \/ Update(i) \/ Grow(i)
  \/ \E deep \in BOOLEAN : FreeList(deep) \/ FreeTail(deep)
  \/ \E deep \in BOOLEAN, i \in 0 .. MaxNodes : Shrink(i, deep) \/ RemoveElement(i, deep)
  \/ \E garbage \in BOOLEAN : MakeTail(garbage)

Spec == Init /\ [][Next]_vars
---------------------------------------------------------------------------
(* Properties.                                                             *)

Struct ==
  [head : 0 .. MaxNodes, last : 0 .. MaxNodes, size : 0 .. MaxNodes,
   dynamic : BOOLEAN, duplicate : BOOLEAN, live : BOOLEAN]

(* Types: pointers are NULL or nodes that exist, and a size never exceeds  *)
(* the number of nodes ever allocated (klist.c never loses count upwards). *)
TypeOK ==
  /\ s.node \in Seq([data : 0 .. MaxData, next : 0 .. MaxNodes])
  /\ \A n \in DOMAIN s.node : s.node[n].next \in 0 .. Len(s.node)
  /\ s.freed \subseteq DOMAIN s.node
  /\ s.gone \subseteq 1 .. s.objects
  /\ s.list \in Struct /\ s.tail \in Struct
  /\ s.list.size <= Len(s.node) /\ s.tail.size <= Len(s.node)
  /\ s.status \in {"ok", "abort", "undefined"}

(* A list never runs into a node or an object that was freed, whatever     *)
(* calls were made on it and on its tail, the wrong ones included: the     *)
(* walk from the head ends, visits no node twice, and no free of a node,   *)
(* a list or a tail takes a node that the list still reaches.              *)
NothingFreedIsListed ==
  s.status = "ok" =>
    LET c == Chain(s, s.list.head)
    IN  /\ IsInjective(c)
        /\ c # <<>> => s.node[Last(c)].next = NULL
        /\ s.list.head # NULL => Valid(s, s.list.head)
        /\ \A i \in DOMAIN c : s.node[c[i]].data \notin s.gone

(* While every call is one that klist.c gets right, the list is the        *)
(* sequence that klist.h describes: elements, size, head, last and every   *)
(* index.  The calls it gets wrong are those whose third argument of Call  *)
(* is false: prepending to an empty list, inserting or updating away from  *)
(* the ends, growing a list that is not empty, popping the only element,   *)
(* shrinking to nothing, and removing by index.  Nor does a right call     *)
(* follow a bad pointer in a release build; in a debug build nothing is    *)
(* ever freed, as the assertions of pop, shrink, remove and free demand a  *)
(* list that is not dynamic, and only dynamic lists may be freed.          *)
ContentsAsDocumented ==
  /\ (s.status = "ok" /\ exact) =>
       /\ Contents(s) = model
       /\ s.list.size = Len(model)
       /\ \A i \in 0 .. Len(model) - 1 :
            LET n == IndexedNode(s, i) IN Valid(s, n) /\ s.node[n].data = model[i + 1]
  /\ exact /\ ~debug => s.status # "undefined"
  /\ debug => s.freed = {} /\ s.gone = {}
=============================================================================
