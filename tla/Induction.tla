------------------------------ MODULE Induction ------------------------------
(***************************************************************************)
(* Induction on the natural numbers in first-order form, and what the      *)
(* proofs use it for: the recursive functions by which the models walk     *)
(* lists and repeat loops exist, are unique and stay where every step      *)
(* stays.  It rests on the library's theorem that finite sets are well     *)
(* founded under inclusion.                                                *)
(***************************************************************************)
EXTENDS Integers, Sequences, FiniteSets, FiniteSetTheorems, SequenceTheorems,
        WellFoundedInduction, TLAPS

(* Every set of natural numbers that is not empty has a least member.      *)
LEMMA Least ==
  ASSUME NEW T \in SUBSET Nat, T # {}
  PROVE  \E m \in T : \A k \in T : m <= k
<1> DEFINE Upto(n) == 1 .. n
           U == {Upto(n) : n \in T}
<1>1. IsWellFoundedOn(StrictSubsetOrdering(Nat), FiniteSubsetsOf(Nat))
  BY FS_StrictSubsetOrderingWellFounded
<1>2. U \subseteq FiniteSubsetsOf(Nat)
  <2>1. \A n \in Nat : IsFiniteSet(1 .. n)
    BY FS_Interval
  <2> QED
    BY <2>1 DEF FiniteSubsetsOf
<1>3. U # {}
  OBVIOUS
<1>4. PICK x \in U : \A y \in U : ~(<<y, x>> \in StrictSubsetOrdering(Nat))
  <2> HIDE DEF U
  <2> QED
    BY <1>1, <1>2, <1>3, WFMin
<1>5. PICK m \in T : x = 1 .. m
  OBVIOUS
<1>6. ASSUME NEW k \in T, k < m PROVE FALSE
  <2>1. (1 .. k) \subseteq (1 .. m) /\ m \in 1 .. m /\ m \notin 1 .. k
    BY <1>6
  <2>2. <<1 .. k, 1 .. m>> \in StrictSubsetOrdering(Nat)
    BY <2>1 DEF StrictSubsetOrdering
  <2> QED
    BY <1>4, <1>5, <2>2
<1> QED
  BY <1>6

(* A set of natural numbers with 0 and the successor of every member is    *)
(* all of them.                                                            *)
LEMMA Induct ==
  ASSUME NEW T, 0 \in T, \A n \in Nat : n \in T => n + 1 \in T
  PROVE  Nat \subseteq T
<1> DEFINE Missing == {n \in Nat : n \notin T}
<1>1. ASSUME Missing # {} PROVE FALSE
  <2>1. Missing \in SUBSET Nat
    OBVIOUS
  <2>2. PICK n \in Missing : \A k \in Missing : n <= k
    <3> HIDE DEF Missing
    <3> QED
      BY <1>1, <2>1, Least
  <2>3. n \in Nat /\ n # 0 /\ n - 1 \in Nat /\ n - 1 < n
    OBVIOUS
  <2>4. n - 1 \in T
    BY <2>2, <2>3
  <2> QED
    BY <2>3, <2>4
<1> QED
  BY <1>1

\* From place b to place n, g takes the step f each time.
Steps(g, f, b, n) == \A k \in b .. n : k # b => g[k] = f[g[k - 1]]

(* A walk is determined by where it starts and the step it repeats.        *)
LEMMA WalkUnique ==
  ASSUME NEW b \in Int, NEW n \in Int, NEW f, NEW g, NEW h, g[b] = h[b],
         Steps(g, f, b, n), Steps(h, f, b, n)
  PROVE  \A k \in b .. n : g[k] = h[k]
<1> DEFINE Same == {k \in Nat : b + k <= n => g[b + k] = h[b + k]}
<1>1. 0 \in Same
  OBVIOUS
<1>2. ASSUME NEW k \in Nat, k \in Same PROVE k + 1 \in Same
  <2>1. CASE b + (k + 1) <= n
    <3>1. /\ b + (k + 1) \in b .. n /\ b + (k + 1) # b
          /\ (b + (k + 1)) - 1 = b + k /\ b + k <= n
      BY <2>1
    <3>2. g[b + (k + 1)] = f[g[b + k]] /\ h[b + (k + 1)] = f[h[b + k]]
      BY <3>1 DEF Steps
    <3> QED
      BY <1>2, <3>1, <3>2
  <2> QED
    BY <2>1
<1>3. Nat \subseteq Same
  <2> HIDE DEF Same
  <2> QED
    BY <1>1, <1>2, Induct
<1> SUFFICES ASSUME NEW k \in b .. n PROVE g[k] = h[k]
  OBVIOUS
<1>4. k - b \in Nat /\ b + (k - b) = k /\ k <= n
  OBVIOUS
<1>5. k - b \in Same
  BY <1>3, <1>4
<1> QED
  BY <1>4, <1>5

(* The repetition of a step that stays in a set exists and stays there.    *)
LEMMA Repetition ==
  ASSUME NEW S, NEW f \in [S -> S], NEW x \in S
  PROVE  \E g \in [Nat -> S] : g = [i \in Nat |-> IF i = 0 THEN x ELSE f[g[i - 1]]]
<1> DEFINE Upto(g, n) == \A i \in 0 .. n : g[i] = IF i = 0 THEN x ELSE f[g[i - 1]]
           Done == {n \in Nat : \E g \in [Nat -> S] : Upto(g, n)}
<1>1. 0 \in Done
  <2>1. [i \in Nat |-> x] \in [Nat -> S] /\ Upto([i \in Nat |-> x], 0)
    OBVIOUS
  <2> QED
    BY <2>1
<1>2. ASSUME NEW n \in Nat, n \in Done PROVE n + 1 \in Done
  <2>1. PICK g \in [Nat -> S] : Upto(g, n)
    BY <1>2
  <2> DEFINE h == [g EXCEPT ![n + 1] = f[g[n]]]
  <2>2. h \in [Nat -> S] /\ h[n + 1] = f[g[n]] /\ \A i \in Nat : i # n + 1 => h[i] = g[i]
    OBVIOUS
  <2> HIDE DEF h
  <2>3. ASSUME NEW i \in 0 .. n + 1 PROVE h[i] = IF i = 0 THEN x ELSE f[h[i - 1]]
    <3>1. CASE i = n + 1
      BY <2>2, <3>1
    <3>2. CASE i # n + 1
      <4>1. i \in 0 .. n /\ h[i] = g[i] /\ (i # 0 => i - 1 \in Nat /\ h[i - 1] = g[i - 1])
        BY <2>2, <3>2
      <4> QED
        BY <2>1, <4>1
    <3> QED
      BY <3>1, <3>2
  <2> QED
    BY <2>2, <2>3
<1>3. Nat \subseteq Done
  <2> HIDE DEF Done
  <2> QED
    BY <1>1, <1>2, Induct
<1>4. ASSUME NEW n \in Nat, NEW g \in [Nat -> S], NEW h \in [Nat -> S], Upto(g, n), Upto(h, n)
      PROVE  g[n] = h[n]
  <2> DEFINE Same == {k \in Nat : k <= n => g[k] = h[k]}
  <2>1. 0 \in Same
    BY <1>4
  <2>2. ASSUME NEW k \in Nat, k \in Same PROVE k + 1 \in Same
    <3>1. CASE k + 1 <= n
      <4>1. k + 1 \in 0 .. n /\ k + 1 # 0 /\ (k + 1) - 1 = k /\ k <= n
        BY <3>1
      <4>2. g[k + 1] = f[g[k]] /\ h[k + 1] = f[h[k]]
        BY <1>4, <4>1
      <4> QED
        BY <2>2, <4>1, <4>2
    <3> QED
      BY <3>1
  <2>3. Nat \subseteq Same
    <3> HIDE DEF Same
    <3> QED
      BY <2>1, <2>2, Induct
  <2> QED
    BY <2>3
<1> DEFINE At(n) == CHOOSE g \in [Nat -> S] : Upto(g, n)
           F == [n \in Nat |-> At(n)[n]]
<1>5. ASSUME NEW n \in Nat PROVE At(n) \in [Nat -> S] /\ Upto(At(n), n)
  <2>1. \E g \in [Nat -> S] : Upto(g, n)
    BY <1>3
  <2> HIDE DEF Upto
  <2> QED
    BY <2>1
<1> HIDE DEF At
<1>6. F \in [Nat -> S]
  BY <1>5
<1>7. ASSUME NEW i \in Nat PROVE F[i] = IF i = 0 THEN x ELSE f[F[i - 1]]
  <2>1. CASE i = 0
    BY <1>5, <2>1
  <2>2. CASE i # 0
    <3>1. i - 1 \in Nat /\ i \in 0 .. i
      BY <2>2
    <3>2. Upto(At(i), i - 1) /\ At(i)[i] = f[At(i)[i - 1]]
      BY <1>5, <2>2, <3>1
    <3>3. At(i)[i - 1] = At(i - 1)[i - 1]
      <4> HIDE DEF Upto
      <4> QED
        BY <1>4, <1>5, <3>1, <3>2
    <3> QED
      BY <2>2, <3>1, <3>2, <3>3
  <2> QED
    BY <2>1, <2>2
<1>8. F = [i \in Nat |-> IF i = 0 THEN x ELSE f[F[i - 1]]]
  BY <1>7
<1> QED
  BY <1>6, <1>8

\* f takes a set into itself; g begins at x and takes the step f each time.
Maps(f, S) == f \in [S -> S]
Repeats(g, S, f, x) == g \in [Nat -> S] /\ g[0] = x /\ \A i \in Nat : g[i + 1] = f[g[i]]

(* The same, place by place.                                               *)
LEMMA Repeated ==
  ASSUME NEW S, NEW f, Maps(f, S), NEW x \in S
  PROVE  \E g : Repeats(g, S, f, x)
<1> USE DEF Maps
<1>1. PICK g \in [Nat -> S] : g = [i \in Nat |-> IF i = 0 THEN x ELSE f[g[i - 1]]]
  BY Repetition
<1>2. g[0] = x
  BY <1>1
<1>3. ASSUME NEW i \in Nat PROVE g[i + 1] = f[g[i]]
  <2>1. i + 1 \in Nat /\ i + 1 # 0 /\ (i + 1) - 1 = i
    OBVIOUS
  <2>2. QED
    BY <1>1, <2>1
<1>4. QED
  BY <1>2, <1>3 DEF Repeats

\* Steps of a set into itself for the places behind b; g begins at x and takes them.
MapsAt(f, S, b, n) == f \in [b + 1 .. n -> [S -> S]]
Unfolds(g, S, f, x, b, n) ==
  g \in [b .. n -> S] /\ \A k \in b .. n : g[k] = IF k = b THEN x ELSE f[k][g[k - 1]]

(* So does a function that is defined from place to place, with a step of  *)
(* its own at each.                                                        *)
LEMMA Unfolding ==
  ASSUME NEW S, NEW b \in Int, NEW n \in Int, NEW x \in S, NEW f, MapsAt(f, S, b, n)
  PROVE  \E g : Unfolds(g, S, f, x, b, n)
<1> USE DEF MapsAt
<1> DEFINE P == Int \X S
           Next(p) == <<p[1] + 1, IF p[1] + 1 \in b + 1 .. n THEN f[p[1] + 1][p[2]] ELSE p[2]>>
           step == [p \in P |-> Next(p)]
           y == <<b, x>>
<1>1. ASSUME NEW p \in P PROVE Next(p) \in P
  <2>1. p[1] \in Int /\ p[2] \in S
    OBVIOUS
  <2>2. p[1] + 1 \in b + 1 .. n => f[p[1] + 1][p[2]] \in S
    BY <2>1
  <2>3. QED
    BY <2>1, <2>2
<1>2. step \in [P -> P] /\ y \in P
  BY <1>1
<1>3. \A p \in P : step[p] = Next(p)
  OBVIOUS
<1> HIDE DEF P, step, y, Next
<1>4. PICK h : Repeats(h, P, step, y)
  BY <1>2, Repeated, Zenon DEF Maps
<1>5. h[0] = <<b, x>> /\ \A i \in Nat : h[i + 1] = Next(h[i])
  BY <1>3, <1>4 DEF y, Repeats
<1> USE DEF Next
<1>6. \A i \in Nat : h[i][1] = b + i /\ h[i][2] \in S
  <2> DEFINE T == {i \in Nat : h[i][1] = b + i}
  <2>1. 0 \in T
    BY <1>5
  <2>2. ASSUME NEW i \in Nat, i \in T PROVE i + 1 \in T
    <3>1. h[i + 1][1] = h[i][1] + 1
      BY <1>5, SMTT(60)
    <3>2. QED
      BY <2>2, <3>1
  <2>3. Nat \subseteq T
    <3> HIDE DEF T
    <3>1. QED
      BY <2>1, <2>2, Induct
  <2>4. \A i \in Nat : h[i][2] \in S
    BY <1>4 DEF P, Repeats
  <2>5. QED
    BY <2>3, <2>4
<1> DEFINE g == [k \in b .. n |-> h[k - b][2]]
<1>7. ASSUME NEW k \in b .. n PROVE g[k] = (IF k = b THEN x ELSE f[k][g[k - 1]]) /\ g[k] \in S
  <2>1. k - b \in Nat /\ g[k] = h[k - b][2]
    OBVIOUS
  <2>2. CASE k = b
    BY <1>5, <1>6, <2>1, <2>2, SMTT(60)
  <2>3. CASE k # b
    <3>1. (k - 1) - b \in Nat /\ ((k - 1) - b) + 1 = k - b /\ k - 1 \in b .. n /\ k \in b + 1 .. n
      BY <2>3
    <3>2. h[(k - 1) - b][1] + 1 = k
      <4>1. h[(k - 1) - b][1] = b + ((k - 1) - b)
        BY <1>6, <3>1
      <4>2. QED
        BY <4>1
    <3>3. h[k - b] = Next(h[(k - 1) - b])
      BY <1>5, <3>1
    <3>4. h[k - b][2] = f[k][h[(k - 1) - b][2]]
      BY <3>1, <3>2, <3>3
    <3>5. g[k - 1] = h[(k - 1) - b][2]
      BY <3>1
    <3>6. QED
      BY <1>6, <2>1, <2>3, <3>4, <3>5
  <2>4. QED
    BY <2>2, <2>3
<1>8. g \in [b .. n -> S]
  BY <1>7
<1> HIDE DEF g
<1>9. QED
  BY <1>7, <1>8 DEF Unfolds

(* A function that begins in a set, and stays there from place to place.    *)
LEMMA EachStepKept ==
  ASSUME NEW S, NEW b \in Int, NEW n \in Int, NEW h, b <= n => h[b] \in S,
         \A k \in b + 1 .. n : h[k - 1] \in S => h[k] \in S
  PROVE  \A k \in b .. n : h[k] \in S
<1> DEFINE T == {i \in Nat : b + i <= n => h[b + i] \in S}
<1>1. 0 \in T
  OBVIOUS
<1>2. ASSUME NEW i \in Nat, i \in T PROVE i + 1 \in T
  <2>1. b + (i + 1) <= n => b + (i + 1) \in b + 1 .. n /\ (b + (i + 1)) - 1 = b + i /\ b + i <= n
    OBVIOUS
  <2>2. QED
    BY <1>2, <2>1
<1>3. Nat \subseteq T
  <2> HIDE DEF T
  <2>1. QED
    BY <1>1, <1>2, Induct
<1> SUFFICES ASSUME NEW k \in b .. n PROVE h[k] \in S
  OBVIOUS
<1>4. k - b \in Nat /\ b + (k - b) = k /\ k <= n
  OBVIOUS
<1>5. k - b \in T
  BY <1>3, <1>4
<1>6. QED
  BY <1>4, <1>5

(* The same of the numbers themselves, up to some number.                  *)
LEMMA Climbed ==
  ASSUME NEW n \in Nat, NEW T, 0 \in T, \A k \in 1 .. n : k - 1 \in T => k \in T
  PROVE  \A k \in 0 .. n : k \in T
<1> DEFINE h == [k \in 0 .. n |-> k]
<1>1. \A k \in 0 .. n : h[k] = k
  OBVIOUS
<1>2. (0 <= n => h[0] \in T) /\ \A k \in 0 + 1 .. n : h[k - 1] \in T => h[k] \in T
  OBVIOUS
<1>3. 0 \in Int /\ n \in Int
  OBVIOUS
<1> HIDE DEF h
<1>4. \A k \in 0 .. n : h[k] \in T
  BY <1>2, <1>3, EachStepKept
<1>5. QED
  BY <1>1, <1>4

\* A function from the numbers into a set: given at the numbers of Z, and made
\* elsewhere from what it is at a smaller number, the next one of a descent.
Falls(d, Z) == d \in [Nat -> Nat] /\ 0 \in Z /\ \A u \in Nat : u \in Z \/ d[u] < u
Falling(g, Z, x, f, d, u) == IF u \in Z THEN x[u] ELSE f[u][g[d[u]]]
Descends(g, S, Z, x, f, d) == g \in [Nat -> S] /\ \A u \in Nat : g[u] = Falling(g, Z, x, f, d, u)
MapsEach(f, S) == f \in [Nat -> [S -> S]]

(* Such a function exists.                                                 *)
LEMMA Descent ==
  ASSUME NEW S, NEW Z, NEW x \in [Nat -> S], NEW f, MapsEach(f, S), NEW d, Falls(d, Z)
  PROVE  \E g : Descends(g, S, Z, x, f, d)
<1> DEFINE First(g, u) == Falling(g, Z, x, f, d, u)
           Upto(g, n) == \A u \in 0 .. n : g[u] = First(g, u)
           Done == {n \in Nat : \E g \in [Nat -> S] : Upto(g, n)}
<1>1. ASSUME NEW u \in Nat PROVE d[u] \in Nat /\ (u \in Z \/ d[u] < u)
  BY DEF Falls
<1>2. ASSUME NEW u \in Nat, NEW g \in [Nat -> S] PROVE First(g, u) \in S
  <2>1. g[d[u]] \in S /\ f[u] \in [S -> S] /\ x[u] \in S
    BY <1>1 DEF MapsEach
  <2>2. QED
    BY <2>1 DEF Falling
<1>3. ASSUME NEW u \in Nat, NEW g, NEW h, d[u] < u => g[d[u]] = h[d[u]]
      PROVE  First(g, u) = First(h, u)
  BY <1>1, <1>3 DEF Falling
<1> HIDE DEF First
<1>4. 0 \in Done
  <2>1. x \in [Nat -> S] /\ x[0] = First(x, 0)
    BY DEF Falls, Falling, First
  <2>2. Upto(x, 0)
    BY <2>1
  <2>3. QED
    BY <2>1, <2>2
<1>5. ASSUME NEW n \in Nat, n \in Done PROVE n + 1 \in Done
  <2>1. PICK g \in [Nat -> S] : Upto(g, n)
    BY <1>5
  <2> DEFINE y == First(g, n + 1)
             h == [g EXCEPT ![n + 1] = y]
  <2>2. y \in S
    BY <1>2
  <2> HIDE DEF y
  <2>3. h \in [Nat -> S] /\ h[n + 1] = y /\ \A u \in Nat : u # n + 1 => h[u] = g[u]
    BY <2>2
  <2> HIDE DEF h
  <2>4. ASSUME NEW u \in 0 .. n + 1 PROVE h[u] = First(h, u)
    <3>1. d[u] < u => g[d[u]] = h[d[u]]
      BY <1>1, <2>3
    <3>2. First(g, u) = First(h, u)
      BY <1>3, <3>1
    <3>3. u # n + 1 => u \in 0 .. n /\ h[u] = g[u]
      BY <2>3
    <3>4. u = n + 1 => h[u] = First(g, u)
      BY <2>3 DEF y
    <3>5. QED
      BY <2>1, <3>2, <3>3, <3>4
  <2>5. Upto(h, n + 1)
    BY <2>4
  <2> HIDE DEF Upto
  <2>6. QED
    BY <2>3, <2>5
<1>6. Nat \subseteq Done
  <2> HIDE DEF Done
  <2>1. QED
    BY <1>4, <1>5, Induct
<1>7. ASSUME NEW n \in Nat, NEW g, NEW h, Upto(g, n), Upto(h, n) PROVE g[n] = h[n]
  <2> DEFINE T == {k \in Nat : \A u \in 0 .. k : u <= n => g[u] = h[u]}
  <2>1. ASSUME NEW u \in 0 .. n, d[u] < u => g[d[u]] = h[d[u]] PROVE g[u] = h[u]
    <3>1. g[u] = First(g, u) /\ h[u] = First(h, u)
      BY <1>7
    <3>2. First(g, u) = First(h, u)
      BY <1>3, <2>1
    <3>3. QED
      BY <3>1, <3>2
  <2>2. 0 \in T
    <3>1. 0 \in 0 .. n /\ ~(d[0] < 0)
      BY <1>1
    <3>2. g[0] = h[0]
      BY <2>1, <3>1
    <3>3. QED
      BY <3>2
  <2>3. ASSUME NEW k \in Nat, k \in T PROVE k + 1 \in T
    <3>1. ASSUME NEW u \in 0 .. k + 1, u <= n PROVE g[u] = h[u]
      <4>1. u \in 0 .. n /\ d[u] \in Nat
        BY <1>1, <3>1
      <4>2. d[u] < u => d[u] \in 0 .. k /\ d[u] <= n
        BY <3>1, <4>1
      <4>3. d[u] < u => g[d[u]] = h[d[u]]
        BY <2>3, <4>2
      <4>4. QED
        BY <2>1, <4>1, <4>3
    <3>2. QED
      BY <3>1
  <2>4. Nat \subseteq T
    <3> HIDE DEF T
    <3>1. QED
      BY <2>2, <2>3, Induct
  <2>5. n \in T /\ n \in 0 .. n
    BY <2>4
  <2>6. QED
    BY <2>5
<1> DEFINE At(n) == CHOOSE g \in [Nat -> S] : Upto(g, n)
           F0 == [n \in Nat |-> At(n)[n]]
<1>8. ASSUME NEW n \in Nat PROVE At(n) \in [Nat -> S] /\ Upto(At(n), n)
  <2>1. \E g \in [Nat -> S] : Upto(g, n)
    BY <1>6
  <2> HIDE DEF Upto
  <2>2. QED
    BY <2>1
<1> HIDE DEF At
<1>9. F0 \in [Nat -> S] /\ \A n \in Nat : F0[n] = At(n)[n]
  BY <1>8
<1> HIDE DEF F0
<1>10. ASSUME NEW u \in Nat PROVE F0[u] = First(F0, u)
  <2>1. d[u] < u => At(u)[d[u]] = F0[d[u]]
    <3> SUFFICES ASSUME d[u] < u PROVE At(u)[d[u]] = F0[d[u]]
      OBVIOUS
    <3>1. d[u] \in Nat /\ 0 .. d[u] \subseteq 0 .. u
      BY <1>1
    <3>2. Upto(At(u), d[u])
      BY <1>8, <3>1
    <3>3. Upto(At(d[u]), d[u])
      BY <1>8, <3>1
    <3> HIDE DEF Upto
    <3>4. At(u)[d[u]] = At(d[u])[d[u]]
      BY <1>7, <3>1, <3>2, <3>3
    <3>5. QED
      BY <1>9, <3>1, <3>4
  <2>2. First(At(u), u) = First(F0, u)
    BY <1>3, <2>1
  <2>3. u \in 0 .. u
    OBVIOUS
  <2>4. At(u)[u] = First(At(u), u)
    BY <1>8, <2>3
  <2>5. QED
    BY <1>9, <2>2, <2>4
<1>11. QED
  BY <1>9, <1>10 DEF Descends, First

(* A sequence without repetitions has as many places as members.           *)
LEMMA CountSeq ==
  ASSUME NEW S, NEW n \in Nat, NEW s \in [1 .. n -> S],
         \A x \in S : \E k \in 1 .. n : s[k] = x,
         \A j, k \in 1 .. n : s[j] = s[k] => j = k
  PROVE  IsFiniteSet(S) /\ Cardinality(S) = n
<1>1. s \in Bijection(1 .. n, S)
  BY DEF Bijection, Injection, Surjection, IsInjective
<1>2. ExistsBijection(1 .. n, S)
  BY <1>1 DEF ExistsBijection
<1>3. IsFiniteSet(1 .. n)
  BY FS_Interval
<1> QED
  BY <1>2, <1>3, FS_CountingElements, FS_Bijection
=============================================================================
