---------------------------- MODULE KListProofs ----------------------------
(***************************************************************************)
(* Proofs about KList: for lists of every length, and however many calls   *)
(* went wrong before, the list from its head is a path of nodes that were  *)
(* never freed; and while every call was right it is the sequence that     *)
(* klist.h describes.                                                      *)
(***************************************************************************)
EXTENDS KList, Induction, TLAPS

-----------------------------------------------------------------------------
(* Paths, as functions of the successors alone.                            *)

(* q lists the n nodes from h on: there are top nodes, f gives their       *)
(* successors, and F are the freed ones.  No node outside the path that is *)
(* not freed has a successor in it.                                        *)
Listing(q, n, top, f, h, F) ==
  /\ n \in Nat /\ q \in [1 .. n -> 1 .. top]
  /\ \A j, k \in 1 .. n : q[j] = q[k] => j = k
  /\ \A k \in 1 .. n : q[k] \notin F
  /\ n = 0 => h = NULL
  /\ n > 0 => h = q[1] /\ f[q[n]] = NULL
  /\ \A k \in 1 .. n - 1 : f[q[k]] = q[k + 1]
  /\ \A x \in 1 .. top : \A k \in 1 .. n :
       x \notin F /\ f[x] = q[k] => k > 1 /\ x = q[k - 1]

(* The successors of top nodes.                                            *)
Links(top) == [1 .. top -> 0 .. top]

(* The path's successors stay on the path or end it.                       *)
LEMMA ListingNext ==
  ASSUME NEW top \in Nat, NEW f \in Links(top), NEW h, NEW F, NEW n, NEW q,
         Listing(q, n, top, f, h, F), NEW k \in 1 .. n
  PROVE  f[q[k]] = IF k < n THEN q[k + 1] ELSE NULL
<1>1. n \in Nat
  BY DEF Listing
<1>2. CASE k < n
  <2>1. k \in 1 .. n - 1
    BY <1>1, <1>2
  <2> QED
    BY <1>2, <2>1 DEF Listing
<1>3. CASE ~(k < n)
  <2>1. k = n /\ n > 0
    BY <1>1, <1>3
  <2> QED
    BY <1>3, <2>1 DEF Listing
<1> QED
  BY <1>2, <1>3

(* New nodes, frees and stores outside the path leave it what it was.      *)
LEMMA ListingAside ==
  ASSUME NEW top \in Nat, NEW f \in Links(top), NEW h, NEW F, NEW n, NEW q,
         Listing(q, n, top, f, h, F),
         NEW more \in Nat, more >= top, NEW g \in Links(more), NEW G, F \subseteq G,
         \A k \in 1 .. n : q[k] \notin G /\ g[q[k]] = f[q[k]],
         \A x \in 1 .. more : \A k \in 1 .. n :
           x \notin G /\ g[x] = q[k] => k > 1 /\ x = q[k - 1]
  PROVE  Listing(q, n, more, g, h, G)
<1>1. n \in Nat /\ q \in [1 .. n -> 1 .. top] /\ 1 .. top \subseteq 1 .. more
  BY DEF Listing
<1>2. q \in [1 .. n -> 1 .. more]
  BY <1>1
<1>3. (\A k \in 1 .. n - 1 : k \in 1 .. n) /\ (n > 0 => n \in 1 .. n)
  BY <1>1
<1>4. n > 0 => h = q[1] /\ g[q[n]] = NULL
  BY <1>3 DEF Listing
<1>5. \A k \in 1 .. n - 1 : g[q[k]] = q[k + 1]
  BY <1>3 DEF Listing
<1> QED
  BY <1>1, <1>2, <1>4, <1>5 DEF Listing

(* The first j nodes and then more new ones.                               *)
Joined(q, j, more, top) == [i \in 1 .. j + more |-> IF i <= j THEN q[i] ELSE top + (i - j)]

(* An append behind the j-th node lists the first j nodes and the new      *)
(* ones.                                                                   *)
LEMMA ListingAppend ==
  ASSUME NEW top \in Nat, NEW f \in Links(top), NEW h, NEW F \in SUBSET (1 .. top),
         NEW n, NEW q, Listing(q, n, top, f, h, F),
         NEW j \in Nat, j <= n, j = 0 => n = 0, NEW more \in Nat, more > 0,
         NEW g \in Links(top + more),
         \A x \in 1 .. top : (j = 0 \/ x # q[j]) => g[x] = f[x],
         j > 0 => g[q[j]] = top + 1,
         \A i \in 1 .. more : g[top + i] = IF i < more THEN top + i + 1 ELSE NULL
  PROVE  Listing(Joined(q, j, more, top), j + more, top + more, g,
                 IF h = NULL THEN top + 1 ELSE h, F)
<1> DEFINE r == Joined(q, j, more, top)
           h2 == IF h = NULL THEN top + 1 ELSE h
<1>1. n \in Nat /\ q \in [1 .. n -> 1 .. top] /\ (\A i \in 1 .. j : i \in 1 .. n)
  BY DEF Listing
<1>2. ASSUME NEW i \in 1 .. j
      PROVE  i \in 1 .. j + more /\ r[i] = q[i] /\ r[i] \in 1 .. top /\ r[i] \notin F
  <2>1. i \in 1 .. j + more /\ i \in 1 .. n /\ i <= j
    BY <1>1
  <2> QED
    BY <1>1, <2>1 DEF Joined, Listing
<1>3. ASSUME NEW i \in 1 .. more
      PROVE  j + i \in 1 .. j + more /\ r[j + i] = top + i
  <2>1. j + i \in 1 .. j + more /\ ~(j + i <= j) /\ top + ((j + i) - j) = top + i
    OBVIOUS
  <2> QED
    BY <2>1 DEF Joined
<1>4. ASSUME NEW k \in 1 .. j + more
      PROVE  k \in 1 .. j \/ (k - j \in 1 .. more /\ j + (k - j) = k)
  OBVIOUS
<1>5. r \in [1 .. j + more -> 1 .. top + more]
  <2>1. DOMAIN r = 1 .. j + more /\ r = [i \in 1 .. j + more |-> r[i]]
    BY DEF Joined
  <2>2. ASSUME NEW k \in 1 .. j + more PROVE r[k] \in 1 .. top + more
    <3>1. CASE k \in 1 .. j
      <4>1. r[k] \in 1 .. top
        BY <1>2, <3>1
      <4> QED
        BY <4>1
    <3>2. CASE k - j \in 1 .. more /\ j + (k - j) = k
      <4>1. r[k] = top + (k - j)
        BY <1>3, <3>2
      <4> QED
        BY <3>2, <4>1
    <3> QED
      BY <1>4, <3>1, <3>2
  <2> HIDE DEF r
  <2> QED
    BY <2>1, <2>2
<1> HIDE DEF r
<1>6. ASSUME NEW a \in 1 .. j + more, NEW b \in 1 .. j + more, r[a] = r[b] PROVE a = b
  <2>1. CASE a \in 1 .. j /\ b \in 1 .. j
    <3>1. q[a] = q[b] /\ a \in 1 .. n /\ b \in 1 .. n
      BY <1>1, <1>2, <1>6, <2>1
    <3> QED
      BY <3>1 DEF Listing
  <2>2. CASE a \in 1 .. j /\ b - j \in 1 .. more /\ j + (b - j) = b
    <3>1. r[a] <= top /\ r[b] = top + (b - j) /\ b - j > 0
      BY <1>2, <1>3, <2>2
    <3> QED
      BY <1>6, <3>1
  <2>3. CASE b \in 1 .. j /\ a - j \in 1 .. more /\ j + (a - j) = a
    <3>1. r[b] \in 1 .. top /\ r[a] = top + (a - j)
      BY <1>2, <1>3, <2>3
    <3>2. top + (a - j) \notin 1 .. top
      BY <2>3
    <3> QED
      BY <1>6, <3>1, <3>2
  <2>4. CASE a - j \in 1 .. more /\ j + (a - j) = a /\ b - j \in 1 .. more /\ j + (b - j) = b
    <3>1. r[a] = top + (a - j) /\ r[b] = top + (b - j)
      BY <1>3, <2>4
    <3>2. top + (a - j) = top + (b - j)
      BY <1>6, <3>1
    <3>3. a - j = b - j
      BY <2>4, <3>2
    <3> QED
      BY <2>4, <3>3
  <2> QED
    BY <1>4, <2>1, <2>2, <2>3, <2>4
<1>7. ASSUME NEW k \in 1 .. j + more PROVE r[k] \notin F
  <2>1. CASE k \in 1 .. j
    BY <1>2, <2>1
  <2>2. CASE k - j \in 1 .. more /\ j + (k - j) = k
    <3>1. r[j + (k - j)] = top + (k - j)
      BY <1>3, <2>2
    <3>2. r[k] = top + (k - j)
      BY <2>2, <3>1
    <3>3. r[k] \in Nat /\ r[k] \notin 1 .. top
      BY <2>2, <3>2
    <3> QED
      BY <3>3
  <2> QED
    BY <1>4, <2>1, <2>2
<1>8. h2 = r[1]
  <2>1. CASE n = 0
    <3>1. j = 0 /\ h = NULL
      BY <1>1, <2>1 DEF Listing
    <3>2. 1 \in 1 .. more /\ j + 1 = 1
      BY <3>1
    <3> QED
      BY <1>3, <3>1, <3>2
  <2>2. CASE n # 0
    <3>1. 1 \in 1 .. j /\ n > 0
      BY <1>1, <2>2
    <3>2. h = q[1] /\ q[1] # NULL
      BY <1>1, <3>1 DEF Listing, NULL
    <3> QED
      BY <1>2, <3>1, <3>2
  <2> QED
    BY <2>1, <2>2
<1>9. g[r[j + more]] = NULL
  <2>1. more \in 1 .. more /\ ~(more < more)
    OBVIOUS
  <2> QED
    BY <1>3, <2>1
<1>10. ASSUME NEW k \in 1 .. (j + more) - 1 PROVE g[r[k]] = r[k + 1]
  <2>1. CASE k < j
    <3>1. k \in 1 .. j /\ k + 1 \in 1 .. j /\ k \in 1 .. n - 1 /\ k # j /\ j \in 1 .. n
      BY <1>1, <2>1
    <3>2. r[k] = q[k] /\ r[k + 1] = q[k + 1] /\ q[k] \in 1 .. top
      BY <1>2, <3>1
    <3>3. q[k] # q[j] /\ f[q[k]] = q[k + 1]
      BY <1>1, <3>1 DEF Listing
    <3> QED
      BY <3>2, <3>3
  <2>2. CASE k = j
    <3>1. k \in 1 .. j /\ j > 0 /\ 1 \in 1 .. more
      BY <2>2
    <3>2. r[k] = q[k] /\ r[k + 1] = top + 1
      BY <1>2, <1>3, <2>2, <3>1
    <3> QED
      BY <2>2, <3>1, <3>2
  <2>3. CASE k > j
    <3>1. /\ k - j \in 1 .. more /\ (k - j) + 1 \in 1 .. more /\ k - j < more
          /\ j + (k - j) = k /\ j + ((k - j) + 1) = k + 1
      BY <2>3
    <3>2. r[k] = top + (k - j) /\ r[k + 1] = top + ((k - j) + 1)
      BY <1>3, <3>1
    <3>3. g[top + (k - j)] = top + (k - j) + 1
      BY <3>1
    <3> QED
      BY <3>1, <3>2, <3>3
  <2> QED
    BY <2>1, <2>2, <2>3
<1>11. ASSUME NEW x \in 1 .. top + more, NEW k \in 1 .. j + more, x \notin F, g[x] = r[k]
       PROVE  k > 1 /\ x = r[k - 1]
  <2>1. CASE k \in 1 .. j
    <3>1. k \in 1 .. n /\ r[k] = q[k] /\ r[k] \in 1 .. top /\ j > 0
      BY <1>1, <1>2, <2>1
    <3>2. x \in 1 .. top
      <4>1. ASSUME x - top \in 1 .. more PROVE FALSE
        <5>1. top + (x - top) = x
          BY <4>1
        <5>2. g[x] = IF x - top < more THEN top + (x - top) + 1 ELSE NULL
          BY <4>1, <5>1
        <5>3. g[x] = NULL \/ g[x] > top
          BY <4>1, <5>2 DEF NULL
        <5> QED
          BY <1>11, <3>1, <5>3 DEF NULL
      <4> QED
        BY <4>1
    <3>3. x # q[j]
      <4>1. top + 1 \notin 1 .. top
        OBVIOUS
      <4> QED
        BY <1>11, <3>1, <4>1
    <3>4. k > 1 /\ x = q[k - 1]
      BY <1>11, <3>1, <3>2, <3>3 DEF Listing
    <3>5. k - 1 \in 1 .. j
      BY <2>1, <3>4
    <3> QED
      BY <1>2, <3>4, <3>5
  <2>2. CASE k - j \in 1 .. more /\ j + (k - j) = k
    <3>1. g[x] = top + (k - j)
      BY <1>3, <1>11, <2>2
    <3>2. CASE x - top \in 1 .. more
      <4>1. top + (x - top) = x
        BY <3>2
      <4>2. g[x] = IF x - top < more THEN top + (x - top) + 1 ELSE NULL
        BY <3>2, <4>1
      <4>3. g[x] = top + (x - top) + 1
        BY <2>2, <3>1, <4>2 DEF NULL
      <4>4. k - j = (x - top) + 1
        BY <2>2, <3>1, <3>2, <4>3
      <4>5. k > 1 /\ k - 1 = j + (x - top)
        BY <2>2, <3>2, <4>4
      <4> QED
        BY <1>3, <3>2, <4>1, <4>5
    <3>3. CASE x \in 1 .. top
      <4>1. j > 0 /\ x = q[j]
        <5>1. ASSUME j = 0 \/ x # q[j] PROVE FALSE
          <6>1. g[x] = f[x] /\ f[x] \in 0 .. top
            BY <3>3, <5>1 DEF Links
          <6> QED
            BY <2>2, <3>1, <6>1
        <5> QED
          BY <5>1
      <4>2. k - j = 1
        BY <2>2, <3>1, <4>1
      <4>3. k > 1 /\ k - 1 = j /\ j \in 1 .. j
        BY <2>2, <4>1, <4>2
      <4> QED
        BY <1>2, <4>1, <4>3
    <3> QED
      BY <3>2, <3>3
  <2> QED
    BY <1>4, <2>1, <2>2
<1> HIDE DEF h2
<1>12. Listing(r, j + more, top + more, g, h2, F)
  <2>1. j + more \in Nat /\ j + more # 0
    OBVIOUS
  <2> QED
    BY <1>5, <1>6, <1>7, <1>8, <1>9, <1>10, <1>11, <2>1 DEF Listing
<1> QED
  BY <1>12 DEF r, h2

(* The n nodes with p in place j + 1.                                      *)
Placed(q, n, j, p) ==
  [i \in 1 .. n + 1 |-> IF i <= j THEN q[i] ELSE IF i = j + 1 THEN p ELSE q[i - 1]]

(* A new node that takes over the successor of the j-th node, or the head, *)
(* comes behind it.                                                        *)
LEMMA ListingInsert ==
  ASSUME NEW top \in Nat, NEW f \in Links(top), NEW h, NEW F \in SUBSET (1 .. top),
         NEW n, NEW q, Listing(q, n, top, f, h, F),
         NEW j \in Nat, j <= n, NEW g \in Links(top + 1),
         \A x \in 1 .. top : (j = 0 \/ x # q[j]) => g[x] = f[x],
         j > 0 => g[q[j]] = top + 1,
         g[top + 1] = IF j = 0 THEN h ELSE f[q[j]]
  PROVE  Listing(Placed(q, n, j, top + 1), n + 1, top + 1, g,
                 IF j = 0 THEN top + 1 ELSE h, F)
<1> DEFINE r == Placed(q, n, j, top + 1)
           h2 == IF j = 0 THEN top + 1 ELSE h
<1>1. n \in Nat /\ q \in [1 .. n -> 1 .. top] /\ (\A i \in 1 .. j : i \in 1 .. n)
  BY DEF Listing
<1>2. ASSUME NEW i \in 1 .. j PROVE i \in 1 .. n + 1 /\ i \in 1 .. n /\ r[i] = q[i]
  <2>1. i \in 1 .. n + 1 /\ i \in 1 .. n /\ i <= j
    BY <1>1
  <2> QED
    BY <2>1 DEF Placed
<1>3. j + 1 \in 1 .. n + 1 /\ r[j + 1] = top + 1
  <2>1. j + 1 \in 1 .. n + 1 /\ ~(j + 1 <= j)
    BY <1>1
  <2> QED
    BY <2>1 DEF Placed
<1>4. ASSUME NEW i \in j + 1 .. n PROVE i + 1 \in 1 .. n + 1 /\ i \in 1 .. n /\ r[i + 1] = q[i]
  <2>1. i + 1 \in 1 .. n + 1 /\ i \in 1 .. n /\ ~(i + 1 <= j) /\ i + 1 # j + 1 /\ (i + 1) - 1 = i
    BY <1>1
  <2> QED
    BY <2>1 DEF Placed
<1>5. ASSUME NEW k \in 1 .. n + 1
      PROVE  k \in 1 .. j \/ k = j + 1 \/ (k - 1 \in j + 1 .. n /\ (k - 1) + 1 = k)
  BY <1>1
<1>6. r = [i \in 1 .. n + 1 |-> r[i]]
  BY DEF Placed
<1> HIDE DEF r
\* Where a node of the new path comes from.
<1>7. ASSUME NEW k \in 1 .. n + 1, k # j + 1
      PROVE  \E i \in 1 .. n : r[k] = q[i] /\ ((i <= j /\ k = i) \/ (i > j /\ k = i + 1))
  <2>1. CASE k \in 1 .. j
    <3>1. k \in 1 .. n /\ k <= j
      BY <1>1, <2>1
    <3> QED
      BY <1>2, <2>1, <3>1
  <2>2. CASE k - 1 \in j + 1 .. n /\ (k - 1) + 1 = k
    <3>1. k - 1 \in 1 .. n /\ k - 1 > j
      BY <1>1, <2>2
    <3> QED
      BY <1>4, <2>2, <3>1
  <2> QED
    BY <1>5, <1>7, <2>1, <2>2
<1>8. ASSUME NEW k \in 1 .. n + 1 PROVE r[k] \in 1 .. top + 1 /\ r[k] \notin F
  <2>1. CASE k = j + 1
    <3>1. top + 1 \in 1 .. top + 1 /\ top + 1 \notin 1 .. top
      OBVIOUS
    <3> QED
      BY <1>3, <2>1, <3>1
  <2>2. CASE k # j + 1
    <3>1. PICK i \in 1 .. n : r[k] = q[i]
      BY <1>7, <2>2
    <3>2. q[i] \in 1 .. top /\ q[i] \notin F
      BY <1>1 DEF Listing
    <3> QED
      BY <3>1, <3>2
  <2> QED
    BY <2>1, <2>2
<1>9. r \in [1 .. n + 1 -> 1 .. top + 1]
  BY <1>6, <1>8
<1>10. ASSUME NEW k \in 1 .. n + 1, k # j + 1 PROVE r[k] \in 1 .. top /\ r[k] # top + 1
  <2>1. PICK i \in 1 .. n : r[k] = q[i]
    BY <1>7, <1>10
  <2>2. q[i] \in 1 .. top
    BY <1>1
  <2> QED
    BY <2>1, <2>2
<1>11. ASSUME NEW a \in 1 .. n + 1, NEW b \in 1 .. n + 1, r[a] = r[b] PROVE a = b
  <2>1. CASE a = j + 1 \/ b = j + 1
    BY <1>3, <1>10, <1>11, <2>1
  <2>2. CASE a # j + 1 /\ b # j + 1
    <3>1. PICK i \in 1 .. n : r[a] = q[i] /\ ((i <= j /\ a = i) \/ (i > j /\ a = i + 1))
      BY <1>7, <2>2
    <3>2. PICK k \in 1 .. n : r[b] = q[k] /\ ((k <= j /\ b = k) \/ (k > j /\ b = k + 1))
      BY <1>7, <2>2
    <3>3. q[i] = q[k]
      BY <1>11, <3>1, <3>2
    <3>4. i = k
      BY <3>3 DEF Listing
    <3> QED
      BY <3>1, <3>2, <3>4
  <2> QED
    BY <2>1, <2>2
<1>12. h2 = r[1]
  <2>1. CASE j = 0
    BY <1>3, <2>1
  <2>2. CASE j # 0
    <3>1. 1 \in 1 .. j /\ n > 0
      BY <1>1, <2>2
    <3> QED
      BY <1>2, <2>2, <3>1 DEF Listing
  <2> QED
    BY <2>1, <2>2
<1>13. g[top + 1] = IF j < n THEN q[j + 1] ELSE NULL
  <2>1. CASE j = 0
    <3>1. 0 < n <=> n > 0
      BY <1>1
    <3> QED
      BY <1>1, <2>1, <3>1 DEF Listing
  <2>2. CASE j # 0
    <3>1. j \in 1 .. n
      BY <1>1, <2>2
    <3> QED
      BY <2>2, <3>1, ListingNext
  <2> QED
    BY <2>1, <2>2
<1>14. ASSUME NEW i \in 1 .. n, i # j PROVE g[q[i]] = IF i < n THEN q[i + 1] ELSE NULL
  <2>1. j = 0 \/ q[i] # q[j]
    <3>1. j = 0 \/ j \in 1 .. n
      BY <1>1
    <3> QED
      BY <1>14, <3>1 DEF Listing
  <2>2. q[i] \in 1 .. top
    BY <1>1
  <2>3. g[q[i]] = f[q[i]]
    BY <2>1, <2>2
  <2> QED
    BY <2>3, ListingNext
<1>15. g[r[n + 1]] = NULL
  <2>1. CASE j = n
    BY <1>3, <1>13, <2>1
  <2>2. CASE j # n
    <3>1. n \in j + 1 .. n /\ n \in 1 .. n /\ ~(n < n)
      BY <1>1, <2>2
    <3> QED
      BY <1>4, <1>14, <2>2, <3>1
  <2> QED
    BY <2>1, <2>2
<1>16. ASSUME NEW k \in 1 .. n PROVE g[r[k]] = r[k + 1]
  <2>1. CASE k < j
    <3>1. k \in 1 .. j /\ k + 1 \in 1 .. j /\ k # j /\ k < n
      BY <1>1, <2>1
    <3> QED
      BY <1>2, <1>14, <3>1
  <2>2. CASE k = j
    <3>1. k \in 1 .. j /\ j > 0
      BY <2>2
    <3> QED
      BY <1>2, <1>3, <2>2, <3>1
  <2>3. CASE k = j + 1
    <3>1. j + 1 \in j + 1 .. n /\ j < n
      BY <1>1, <2>3
    <3> QED
      BY <1>3, <1>4, <1>13, <2>3, <3>1
  <2>4. CASE k > j + 1
    <3>1. /\ k - 1 \in j + 1 .. n /\ (k - 1) + 1 = k /\ k \in j + 1 .. n
          /\ k - 1 # j /\ k - 1 < n /\ k - 1 \in 1 .. n
      BY <1>1, <2>4
    <3>2. r[k] = q[k - 1] /\ r[k + 1] = q[k]
      <4>1. r[(k - 1) + 1] = q[k - 1]
        BY <1>4, <3>1
      <4> QED
        BY <1>4, <3>1, <4>1
    <3>3. g[q[k - 1]] = q[(k - 1) + 1]
      BY <1>14, <3>1
    <3> QED
      BY <3>1, <3>2, <3>3
  <2> QED
    BY <1>1, <2>1, <2>2, <2>3, <2>4
<1>17. ASSUME NEW x \in 1 .. top + 1, NEW k \in 1 .. n + 1, x \notin F, g[x] = r[k]
       PROVE  k > 1 /\ x = r[k - 1]
  <2>1. \A i \in 1 .. top : i # top + 1 /\ i # NULL
    BY DEF NULL
  <2>2. CASE x = top + 1
    <3>1. j < n /\ r[k] = q[j + 1]
      <4>1. r[k] # NULL
        BY <1>8, NULL = 0 DEF NULL
      <4> QED
        BY <1>13, <1>17, <2>2, <4>1
    <3>2. j + 1 \in j + 1 .. n /\ (j + 1) + 1 \in 1 .. n + 1
      BY <1>1, <3>1
    <3>3. k = (j + 1) + 1
      BY <1>4, <1>11, <3>1, <3>2
    <3>4. k > 1 /\ k - 1 = j + 1
      BY <3>3
    <3> QED
      BY <1>3, <2>2, <3>4
  <2>3. CASE x \in 1 .. top /\ j > 0 /\ x = q[j]
    <3>1. g[x] = top + 1 /\ j \in 1 .. j
      BY <2>3
    <3>2. k = j + 1
      BY <1>10, <1>17, <3>1
    <3>3. k > 1 /\ k - 1 = j
      BY <2>3, <3>2
    <3> QED
      BY <1>2, <2>3, <3>1, <3>3
  <2>4. CASE x \in 1 .. top /\ (j = 0 \/ x # q[j])
    <3>1. g[x] = f[x] /\ f[x] \in 0 .. top
      BY <2>4 DEF Links
    <3>2. k # j + 1
      <4>1. top + 1 \notin 0 .. top
        OBVIOUS
      <4> QED
        BY <1>3, <1>17, <3>1, <4>1
    <3>3. PICK i \in 1 .. n : r[k] = q[i] /\ ((i <= j /\ k = i) \/ (i > j /\ k = i + 1))
      BY <1>7, <3>2
    <3>4. i > 1 /\ x = q[i - 1]
      <4>1. f[x] = q[i]
        BY <1>17, <3>1, <3>3
      <4> QED
        BY <1>17, <2>4, <4>1 DEF Listing
    <3>5. i - 1 # j
      <4>1. i - 1 = j => j # 0
        BY <3>4
      <4> QED
        BY <2>4, <3>4, <4>1
    <3>6. CASE i <= j
      <4>1. k = i /\ k > 1 /\ k - 1 \in 1 .. j
        BY <3>3, <3>4, <3>6
      <4> QED
        BY <1>2, <3>4, <4>1
    <3>7. CASE i > j
      <4>1. k = i + 1 /\ k > 1 /\ i - 1 \in j + 1 .. n /\ k - 1 = (i - 1) + 1
        BY <1>1, <3>3, <3>4, <3>5, <3>7
      <4> QED
        BY <1>4, <3>4, <4>1
    <3> QED
      BY <3>6, <3>7
  <2> QED
    BY <2>2, <2>3, <2>4
<1> HIDE DEF h2
<1>18. Listing(r, n + 1, top + 1, g, h2, F)
  <2>1. n + 1 \in Nat /\ n + 1 # 0 /\ (n + 1) - 1 = n
    BY <1>1
  <2> QED
    BY <1>8, <1>9, <1>11, <1>12, <1>15, <1>16, <1>17, <2>1 DEF Listing
<1> QED
  BY <1>18 DEF r, h2

(* The first j nodes.                                                      *)
Cut(q, j) == [i \in 1 .. j |-> q[i]]

(* When the j-th node gets NULL for a successor, or the head when j is 0,  *)
(* the nodes behind are listed no longer and may be freed.                 *)
LEMMA ListingCut ==
  ASSUME NEW top \in Nat, NEW f \in Links(top), NEW h, NEW F \in SUBSET (1 .. top),
         NEW n, NEW q, Listing(q, n, top, f, h, F),
         NEW j \in Nat, j <= n, NEW g \in Links(top), NEW G, F \subseteq G,
         \A k \in 1 .. j : q[k] \notin G,
         \A x \in 1 .. top : x \notin G /\ (j = 0 \/ x # q[j]) => g[x] = f[x],
         j > 0 => g[q[j]] = NULL
  PROVE  Listing(Cut(q, j), j, top, g, IF j = 0 THEN NULL ELSE h, G)
<1> DEFINE r == Cut(q, j)
           h2 == IF j = 0 THEN NULL ELSE h
<1>1. n \in Nat /\ q \in [1 .. n -> 1 .. top] /\ (\A i \in 1 .. j : i \in 1 .. n)
  BY DEF Listing
<1>2. r \in [1 .. j -> 1 .. top] /\ \A i \in 1 .. j : r[i] = q[i]
  BY <1>1 DEF Cut
<1> HIDE DEF r
<1>3. \A a, b \in 1 .. j : r[a] = r[b] => a = b
  BY <1>1, <1>2 DEF Listing
<1>4. \A k \in 1 .. j : r[k] \notin G
  BY <1>2
<1>5. j > 0 => h2 = r[1] /\ g[r[j]] = NULL
  <2> SUFFICES ASSUME j > 0 PROVE h2 = r[1] /\ g[r[j]] = NULL
    OBVIOUS
  <2>1. 1 \in 1 .. j /\ j \in 1 .. j /\ n > 0 /\ j # 0
    BY <1>1
  <2> QED
    BY <1>2, <2>1 DEF Listing
<1>6. ASSUME NEW k \in 1 .. j - 1 PROVE g[r[k]] = r[k + 1]
  <2>1. /\ k \in 1 .. j /\ k + 1 \in 1 .. j /\ k \in 1 .. n - 1 /\ k # j
        /\ k \in 1 .. n /\ j \in 1 .. n
    BY <1>1
  <2>2. q[k] \in 1 .. top /\ q[k] \notin G /\ q[k] # q[j] /\ f[q[k]] = q[k + 1]
    BY <1>1, <2>1 DEF Listing
  <2> QED
    BY <1>2, <2>1, <2>2
<1>7. ASSUME NEW x \in 1 .. top, NEW k \in 1 .. j, x \notin G, g[x] = r[k]
      PROVE  k > 1 /\ x = r[k - 1]
  <2>1. r[k] = q[k] /\ k \in 1 .. n /\ q[k] \in 1 .. top /\ j > 0
    BY <1>1, <1>2
  <2>2. q[k] # NULL
    BY <2>1 DEF NULL
  <2>3. x # q[j]
    BY <1>7, <2>1, <2>2
  <2>4. f[x] = q[k] /\ x \notin F
    BY <1>7, <2>1, <2>3
  <2>5. k > 1 /\ x = q[k - 1]
    BY <2>1, <2>4 DEF Listing
  <2>6. k - 1 \in 1 .. j
    BY <2>5
  <2> QED
    BY <1>2, <2>5, <2>6
<1>8. j = 0 => h2 = NULL
  OBVIOUS
<1> HIDE DEF h2
<1>9. Listing(r, j, top, g, h2, G)
  BY <1>2, <1>3, <1>4, <1>5, <1>6, <1>7, <1>8 DEF Listing
<1> QED
  BY <1>9 DEF r, h2

(* All nodes but the d-th.                                                 *)
Without(q, n, d) == [i \in 1 .. n - 1 |-> IF i < d THEN q[i] ELSE q[i + 1]]

(* When a node takes over the successor of the next one, the next one is   *)
(* listed no longer and may be freed.                                      *)
LEMMA ListingRemove ==
  ASSUME NEW top \in Nat, NEW f \in Links(top), NEW h, NEW F \in SUBSET (1 .. top),
         NEW n, NEW q, Listing(q, n, top, f, h, F),
         NEW d \in 2 .. n, NEW g \in Links(top),
         \A x \in 1 .. top : x # q[d] /\ x # q[d - 1] => g[x] = f[x],
         g[q[d - 1]] = f[q[d]]
  PROVE  Listing(Without(q, n, d), n - 1, top, g, h, F \union {q[d]})
<1> DEFINE r == Without(q, n, d)
           G == F \union {q[d]}
<1>1. n \in Nat /\ q \in [1 .. n -> 1 .. top]
  BY DEF Listing
<1>2. d \in 1 .. n /\ d - 1 \in 1 .. n /\ d \in Nat
  BY <1>1
<1>3. ASSUME NEW k \in 1 .. n - 1, k < d PROVE r[k] = q[k] /\ k \in 1 .. n
  BY <1>1, <1>3 DEF Without
<1>4. ASSUME NEW k \in 1 .. n - 1, ~(k < d) PROVE r[k] = q[k + 1] /\ k + 1 \in 1 .. n
  BY <1>1, <1>4 DEF Without
<1>5. r = [i \in 1 .. n - 1 |-> r[i]]
  BY DEF Without
<1> HIDE DEF r
<1>6. ASSUME NEW k \in 1 .. n - 1
      PROVE  \E i \in 1 .. n : i # d /\ r[k] = q[i] /\ ((i < d /\ k = i) \/ (i > d /\ k + 1 = i))
  <2>1. CASE k < d
    <3>1. k # d
      BY <1>2, <2>1
    <3> QED
      BY <1>3, <2>1, <3>1
  <2>2. CASE ~(k < d)
    <3>1. k + 1 # d /\ k + 1 > d
      BY <1>2, <2>2
    <3> QED
      BY <1>4, <2>2, <3>1
  <2> QED
    BY <2>1, <2>2
<1>7. ASSUME NEW k \in 1 .. n - 1 PROVE r[k] \in 1 .. top /\ r[k] \notin G
  <2>1. PICK i \in 1 .. n : i # d /\ r[k] = q[i]
    BY <1>6
  <2>2. q[i] # q[d] /\ q[i] \notin F /\ q[i] \in 1 .. top
    BY <1>1, <1>2, <2>1 DEF Listing
  <2> QED
    BY <2>1, <2>2
<1>8. r \in [1 .. n - 1 -> 1 .. top]
  BY <1>5, <1>7
<1>9. ASSUME NEW a \in 1 .. n - 1, NEW b \in 1 .. n - 1, r[a] = r[b] PROVE a = b
  <2>1. PICK i \in 1 .. n : r[a] = q[i] /\ ((i < d /\ a = i) \/ (i > d /\ a + 1 = i))
    BY <1>6
  <2>2. PICK k \in 1 .. n : r[b] = q[k] /\ ((k < d /\ b = k) \/ (k > d /\ b + 1 = k))
    BY <1>6
  <2>3. q[i] = q[k]
    BY <1>9, <2>1, <2>2
  <2>4. i = k
    BY <2>3 DEF Listing
  <2>5. CASE i < d
    <3>1. a = i /\ b = k
      BY <1>2, <2>1, <2>2, <2>4, <2>5
    <3> QED
      BY <2>4, <3>1
  <2>6. CASE i > d
    <3>1. a + 1 = i /\ b + 1 = k
      BY <1>2, <2>1, <2>2, <2>4, <2>6
    <3> QED
      BY <2>4, <3>1
  <2> QED
    BY <2>1, <2>5, <2>6
<1>10. n - 1 > 0 /\ h = r[1]
  <2>1. n > 0 /\ n - 1 > 0 /\ 1 \in 1 .. n - 1 /\ 1 < d
    <3>1. CASE n = 1
      BY <1>1, <3>1
    <3>2. CASE n > 1
      BY <1>1, <3>2
    <3> QED
      BY <1>1, <3>1, <3>2
  <2> QED
    BY <1>3, <2>1 DEF Listing
<1>11. ASSUME NEW i \in 1 .. n, i # d, i # d - 1
       PROVE  g[q[i]] = IF i < n THEN q[i + 1] ELSE NULL
  <2>1. q[i] \in 1 .. top
    BY <1>1
  <2>2. q[i] # q[d]
    BY <1>2, <1>11 DEF Listing
  <2>3. q[i] # q[d - 1]
    BY <1>2, <1>11 DEF Listing
  <2> QED
    BY <2>1, <2>2, <2>3, ListingNext
<1>12. g[q[d - 1]] = IF d < n THEN q[d + 1] ELSE NULL
  BY <1>2, ListingNext
<1>13. g[r[n - 1]] = NULL
  <2>1. n - 1 \in 1 .. n - 1 /\ n \in 1 .. n /\ (n - 1) + 1 = n
    BY <1>1, <1>10
  <2>2. CASE d = n
    <3>1. n - 1 < d /\ d - 1 = n - 1
      BY <1>1, <2>2
    <3> QED
      BY <1>3, <1>12, <2>1, <2>2, <3>1
  <2>3. CASE d # n
    <3>1. ~(n - 1 < d) /\ n # d - 1
      BY <1>1, <1>2, <2>3
    <3>2. r[n - 1] = q[n]
      BY <1>4, <2>1, <3>1
    <3> QED
      BY <1>11, <2>1, <2>3, <3>1, <3>2
  <2> QED
    BY <2>2, <2>3
<1>14. ASSUME NEW k \in 1 .. (n - 1) - 1 PROVE g[r[k]] = r[k + 1]
  <2>1. /\ k \in 1 .. n - 1 /\ k + 1 \in 1 .. n - 1 /\ k \in 1 .. n /\ k < n
        /\ (k + 1) + 1 \in 1 .. n /\ k + 1 < n /\ k + 1 \in 1 .. n
    BY <1>1
  <2>2. CASE k + 1 < d
    <3>1. k < d /\ k # d /\ k # d - 1
      BY <1>2, <2>2
    <3>2. r[k] = q[k] /\ r[k + 1] = q[k + 1]
      BY <1>3, <2>1, <2>2, <3>1
    <3> QED
      BY <1>11, <2>1, <3>1, <3>2
  <2>3. CASE k + 1 = d
    <3>1. k < d /\ ~(k + 1 < d) /\ k = d - 1 /\ d < n
      BY <1>2, <2>1, <2>3
    <3>2. r[k] = q[k] /\ r[k + 1] = q[(k + 1) + 1]
      BY <1>3, <1>4, <2>1, <3>1
    <3> QED
      BY <1>12, <2>3, <3>1, <3>2
  <2>4. CASE k + 1 > d
    <3>1. ~(k < d) /\ ~(k + 1 < d) /\ k + 1 # d /\ k + 1 # d - 1
      BY <1>2, <2>4
    <3>2. r[k] = q[k + 1] /\ r[k + 1] = q[(k + 1) + 1]
      BY <1>4, <2>1, <3>1
    <3> QED
      BY <1>11, <2>1, <3>1, <3>2
  <2> QED
    BY <1>2, <2>2, <2>3, <2>4
<1>15. ASSUME NEW x \in 1 .. top, NEW k \in 1 .. n - 1, x \notin G, g[x] = r[k]
       PROVE  k > 1 /\ x = r[k - 1]
  <2>1. PICK i \in 1 .. n : i # d /\ r[k] = q[i] /\ ((i < d /\ k = i) \/ (i > d /\ k + 1 = i))
    BY <1>6
  <2>2. x \notin F /\ x # q[d]
    BY <1>15
  <2>3. CASE x = q[d - 1]
    <3>1. q[i] # NULL
      BY <1>1 DEF NULL
    <3>2. d < n /\ q[i] = q[d + 1]
      BY <1>12, <1>15, <2>1, <2>3, <3>1
    <3>3. d + 1 \in 1 .. n
      BY <1>1, <1>2, <3>2
    <3>4. i = d + 1
      <4>1. \A a, b \in 1 .. n : q[a] = q[b] => a = b
        BY DEF Listing
      <4> QED
        BY <3>2, <3>3, <4>1
    <3>5. k = d
      <4>1. i > d /\ ~(i < d)
        BY <1>2, <3>4
      <4>2. k + 1 = i
        BY <2>1, <4>1
      <4> QED
        BY <1>2, <3>4, <4>2
    <3>6. k > 1 /\ k - 1 < d /\ k - 1 \in 1 .. n - 1
      BY <1>1, <1>2, <3>5
    <3> QED
      BY <1>3, <2>3, <3>5, <3>6
  <2>4. CASE x # q[d - 1]
    <3>1. f[x] = q[i]
      BY <1>15, <2>1, <2>2, <2>4
    <3>2. i > 1 /\ x = q[i - 1]
      BY <2>2, <3>1 DEF Listing
    <3>3. i - 1 # d
      BY <2>2, <3>2
    <3>4. CASE i < d
      <4>1. k = i
        BY <1>2, <2>1, <3>4
      <4>2. k > 1 /\ k - 1 < d /\ k - 1 \in 1 .. n - 1
        BY <1>1, <1>2, <3>2, <3>4, <4>1
      <4> QED
        BY <1>3, <3>2, <4>1, <4>2
    <3>5. CASE i > d
      <4>1. k + 1 = i
        BY <1>2, <2>1, <3>5
      <4>2. k > 1 /\ (k - 1) + 1 = i - 1 /\ ~(k - 1 < d) /\ k - 1 \in 1 .. n - 1
        BY <1>1, <1>2, <3>3, <3>5, <4>1
      <4>3. r[k - 1] = q[(k - 1) + 1]
        BY <1>4, <4>2
      <4> QED
        BY <3>2, <4>2, <4>3
    <3> QED
      BY <2>1, <3>4, <3>5
  <2> QED
    BY <2>3, <2>4
<1> HIDE DEF G
<1>16. Listing(r, n - 1, top, g, h, G)
  <2>1. n - 1 \in Nat /\ n - 1 # 0
    BY <1>1, <1>10
  <2> QED
    BY <1>7, <1>8, <1>9, <1>10, <1>13, <1>14, <1>15, <2>1 DEF Listing
<1> QED
  BY <1>16 DEF r, G
-----------------------------------------------------------------------------
(* Machines.                                                               *)

Node == [data : Nat, next : Nat]
ListStruct ==
  [head : Nat, last : Nat, size : Nat, dynamic : BOOLEAN, duplicate : BOOLEAN, live : BOOLEAN]
Machine ==
  [node : Seq(Node), freed : SUBSET Nat, objects : Nat, gone : SUBSET Nat,
   list : ListStruct, tail : ListStruct, status : {"ok", "abort", "undefined"}]

Succ(m) == [x \in 1 .. Len(m.node) |-> m.node[x].next]

(* q lists the n nodes of the list, and their data are not gone.           *)
Reaches(m, q, n) ==
  /\ Listing(q, n, Len(m.node), Succ(m), m.list.head, m.freed)
  /\ \A k \in 1 .. n : m.node[q[k]].data \notin m.gone

(* The struct points into the nodes.                                       *)
Within(l, top) == l.head <= top /\ l.last <= top /\ l.size <= top

(* What holds of the machine besides the path: every object has one node,  *)
(* and the tail does not own its nodes.                                    *)
Sound(m) ==
  /\ m \in Machine
  /\ m.freed \subseteq 1 .. Len(m.node)
  /\ m.gone \subseteq 1 .. m.objects
  /\ \A x \in 1 .. Len(m.node) : m.node[x].data <= m.objects /\ m.node[x].next <= Len(m.node)
  /\ \A x, y \in 1 .. Len(m.node) : m.node[x].data = m.node[y].data => x = y \/ m.node[x].data = NULL
  /\ Within(m.list, Len(m.node)) /\ Within(m.tail, Len(m.node))
  /\ m.list.duplicate = FALSE /\ (m.tail.live => m.tail.duplicate)

(* The list is the sequence c.                                             *)
Holds(m, q, n, c) ==
  /\ c \in Seq(Nat) /\ Len(c) = n /\ m.list.size = n
  /\ n > 0 => m.list.last = q[n]
  /\ \A k \in 1 .. n : m.node[q[k]].data = c[k]

(* The nodes of a machine, one by one.                                     *)
LEMMA MachineNodes ==
  ASSUME NEW m, m \in Machine
  PROVE  /\ Len(m.node) \in Nat /\ DOMAIN m.node = 1 .. Len(m.node)
         /\ m.node \in [1 .. Len(m.node) -> Node]
         /\ \A x \in 1 .. Len(m.node) : m.node[x].data \in Nat /\ m.node[x].next \in Nat
<1>1. m.node \in Seq(Node)
  BY DEF Machine
<1>2. /\ Len(m.node) \in Nat /\ DOMAIN m.node = 1 .. Len(m.node)
      /\ m.node \in [1 .. Len(m.node) -> Node]
  BY <1>1, LenProperties
<1> QED
  BY <1>2 DEF Node

(* The successors are links.                                               *)
LEMMA SuccIs ==
  ASSUME NEW m, Sound(m)
  PROVE  /\ Succ(m) \in Links(Len(m.node))
         /\ \A x \in 1 .. Len(m.node) : Succ(m)[x] = m.node[x].next
<1>1. m \in Machine /\ \A x \in 1 .. Len(m.node) : m.node[x].next <= Len(m.node)
  BY DEF Sound
<1>2. /\ Len(m.node) \in Nat
      /\ \A x \in 1 .. Len(m.node) : m.node[x].next \in 0 .. Len(m.node)
  BY <1>1, MachineNodes
<1> QED
  BY <1>2 DEF Succ, Links

(* A path of nodes is no longer than there are nodes.                      *)
LEMMA ListingShort ==
  ASSUME NEW top \in Nat, NEW f, NEW h, NEW F, NEW n, NEW q, Listing(q, n, top, f, h, F)
  PROVE  n <= top
<1>1. n \in Nat /\ q \in [1 .. n -> 1 .. top] /\ \A j, k \in 1 .. n : q[j] = q[k] => j = k
  BY DEF Listing
<1>2. q \in Injection(1 .. n, 1 .. top)
  BY <1>1 DEF Injection, IsInjective
<1>3. /\ IsFiniteSet(1 .. top) /\ Cardinality(1 .. top) = top
      /\ IsFiniteSet(1 .. n) /\ Cardinality(1 .. n) = n
  <2>1. 1 \in Int /\ top \in Int /\ n \in Int
    BY <1>1
  <2>2. Cardinality(1 .. top) = (IF 1 > top THEN 0 ELSE top - 1 + 1) /\ IsFiniteSet(1 .. top)
    BY <2>1, FS_Interval
  <2>3. Cardinality(1 .. n) = (IF 1 > n THEN 0 ELSE n - 1 + 1) /\ IsFiniteSet(1 .. n)
    BY <2>1, FS_Interval
  <2> QED
    BY <1>1, <2>2, <2>3
<1> QED
  BY <1>2, <1>3, FS_Injection

(* The walk from the head follows the path and then stays at NULL.         *)
LEMMA FollowIs ==
  ASSUME NEW m, Sound(m), NEW n, NEW q, Reaches(m, q, n), NEW k \in Nat
  PROVE  Follow(m, m.list.head, k) = IF k < n THEN q[k + 1] ELSE NULL
<1> DEFINE h == m.list.head
           IsWalk(w) == w = [i \in 0 .. k |-> IF i = 0 THEN h ELSE NextOf(m, w[i - 1])]
           v == [i \in 0 .. k |-> IF i < n THEN q[i + 1] ELSE NULL]
<1>1. /\ Listing(q, n, Len(m.node), Succ(m), h, m.freed) /\ n \in Nat
      /\ q \in [1 .. n -> 1 .. Len(m.node)] /\ \A i \in 1 .. n : q[i] \notin m.freed
  BY DEF Reaches, Listing
<1>2. Len(m.node) \in Nat /\ DOMAIN m.node = 1 .. Len(m.node)
  BY MachineNodes DEF Sound
<1>3. ASSUME NEW i \in 1 .. n PROVE NextOf(m, q[i]) = IF i < n THEN q[i + 1] ELSE NULL
  <2>1. q[i] \in 1 .. Len(m.node) /\ q[i] \notin m.freed
    BY <1>1
  <2>2. NextOf(m, q[i]) = Succ(m)[q[i]]
    BY <1>2, <2>1, SuccIs DEF NextOf, Valid
  <2> QED
    <3> DEFINE f == Succ(m)
               top == Len(m.node)
    <3>1. f \in Links(top) /\ top \in Nat
      BY <1>2, SuccIs
    <3>2. Listing(q, n, top, f, h, m.freed)
      BY <1>1
    <3> HIDE DEF f, top
    <3>3. f[q[i]] = IF i < n THEN q[i + 1] ELSE NULL
      BY <3>1, <3>2, ListingNext
    <3> QED
      BY <2>2, <3>3 DEF f
<1>4. NextOf(m, NULL) = NULL
  BY <1>2 DEF NextOf, Valid, NULL
<1>5. h = IF 0 < n THEN q[1] ELSE NULL
  BY <1>1 DEF Listing
<1>6. ASSUME NEW i \in 0 .. k, i # 0 PROVE v[i] = NextOf(m, v[i - 1])
  <2>1. i - 1 \in 0 .. k /\ (i - 1) + 1 = i
    BY <1>6
  <2>2. CASE i - 1 < n
    <3>1. i \in 1 .. n /\ v[i - 1] = q[i]
      BY <1>1, <1>6, <2>1, <2>2
    <3> QED
      BY <1>3, <3>1
  <2>3. CASE ~(i - 1 < n)
    <3>1. ~(i < n) /\ v[i - 1] = NULL
      BY <1>1, <2>1, <2>3
    <3> QED
      BY <1>4, <3>1
  <2> QED
    BY <2>2, <2>3
<1>7. v[0] = h
  <2>1. 0 \in 0 .. k /\ 0 + 1 = 1
    OBVIOUS
  <2> QED
    BY <1>5, <2>1
<1>8. IsWalk(v)
  <2> DEFINE u == [i \in 0 .. k |-> IF i = 0 THEN h ELSE NextOf(m, v[i - 1])]
  <2>1. \A i \in 0 .. k : v[i] = u[i]
    BY <1>6, <1>7
  <2>2. v = [i \in 0 .. k |-> v[i]]
    OBVIOUS
  <2> HIDE DEF v
  <2> QED
    BY <2>1, <2>2
<1> DEFINE walk == CHOOSE w : IsWalk(w)
<1>9. IsWalk(walk)
  <2> HIDE DEF IsWalk, v
  <2> QED
    BY <1>8
<1>10. Follow(m, h, k) = walk[k]
  BY DEF Follow
<1> HIDE DEF walk
<1>11. walk[0] = h /\ \A i \in 0 .. k : i # 0 => walk[i] = NextOf(m, walk[i - 1])
  BY <1>9
<1> DEFINE Same == {i \in Nat : i <= k => walk[i] = v[i]}
<1>12. Nat \subseteq Same
  <2>1. 0 \in Same
    BY <1>7, <1>11
  <2>2. ASSUME NEW i \in Nat, i \in Same PROVE i + 1 \in Same
    <3>1. CASE i + 1 <= k
      <4>1. i + 1 \in 0 .. k /\ i + 1 # 0 /\ (i + 1) - 1 = i /\ i <= k
        BY <3>1
      <4>2. walk[i + 1] = NextOf(m, walk[i]) /\ v[i + 1] = NextOf(m, v[i])
        BY <1>6, <1>11, <4>1
      <4> QED
        BY <2>2, <4>1, <4>2
    <3> QED
      BY <3>1
  <2> HIDE DEF Same
  <2> QED
    BY <2>1, <2>2, Induct
<1>13. walk[k] = v[k]
  <2>1. k \in Same
    <3> HIDE DEF Same
    <3> QED
      BY <1>12
  <2> HIDE DEF v
  <2> QED
    BY <2>1
<1> QED
  BY <1>10, <1>13

(* The chain from the head is the path.                                    *)
LEMMA ChainIs ==
  ASSUME NEW m, Sound(m), NEW n, NEW q, Reaches(m, q, n)
  PROVE  /\ Chain(m, m.list.head) = q /\ DOMAIN q = 1 .. n
         /\ q \in Seq(1 .. Len(m.node)) /\ Len(q) = n
         /\ \A k \in 1 .. n : Valid(m, q[k])
<1> DEFINE h == m.list.head
           visited == {k \in 1 .. Len(m.node) + 1 : Valid(m, Follow(m, h, k - 1))}
<1>1. /\ n \in Nat /\ Listing(q, n, Len(m.node), Succ(m), h, m.freed)
      /\ q \in [1 .. n -> 1 .. Len(m.node)] /\ \A i \in 1 .. n : q[i] \notin m.freed
  BY DEF Reaches, Listing
<1>2. Len(m.node) \in Nat /\ DOMAIN m.node = 1 .. Len(m.node)
  BY MachineNodes DEF Sound
<1>3. \A i \in 1 .. n : Valid(m, q[i])
  BY <1>1, <1>2 DEF Valid
<1>4. ~Valid(m, NULL)
  BY <1>2 DEF Valid, NULL
<1>5. n <= Len(m.node)
  BY <1>1, <1>2, ListingShort
<1>6. ASSUME NEW k \in 1 .. Len(m.node) + 1
      PROVE  Follow(m, h, k - 1) = IF k <= n THEN q[k] ELSE NULL
  <2>1. k - 1 \in Nat /\ (k - 1) + 1 = k /\ (k - 1 < n <=> k <= n)
    BY <1>1, <1>2
  <2> QED
    BY <2>1, FollowIs
<1>7. visited = 1 .. n
  <2>1. \A k \in 1 .. Len(m.node) + 1 : k <= n => k \in 1 .. n
    BY <1>1, <1>2
  <2>2. \A k \in 1 .. n : k \in 1 .. Len(m.node) + 1 /\ k <= n
    BY <1>1, <1>2, <1>5
  <2>3. \A k \in visited : k \in 1 .. n
    BY <1>4, <1>6, <2>1
  <2>4. \A k \in 1 .. n : k \in visited
    BY <1>3, <1>6, <2>2
  <2> QED
    BY <2>3, <2>4
<1>8. Chain(m, h) = [k \in 1 .. n |-> Follow(m, h, k - 1)]
  BY <1>7 DEF Chain
<1>9. \A k \in 1 .. n : Follow(m, h, k - 1) = q[k]
  <2>1. \A k \in 1 .. n : k \in 1 .. Len(m.node) + 1 /\ k <= n
    BY <1>1, <1>2, <1>5
  <2> QED
    BY <1>6, <2>1
<1>10. Chain(m, h) = q
  <2> HIDE DEF visited
  <2> QED
    BY <1>1, <1>8, <1>9
<1> QED
  BY <1>1, <1>3, <1>10
-----------------------------------------------------------------------------
(* The functions, each from a sound machine and a path in it.              *)

\* No node points to d, and it is not gone.
Unused(m, d) ==
  /\ d \in 1 .. m.objects /\ d \notin m.gone
  /\ \A x \in 1 .. Len(m.node) : m.node[x].data # d

\* k times d.
Copies(d, k) == [i \in 1 .. k |-> d]

(* A sequence continued is the old one and then the new one.               *)
LEMMA HoldsConcat ==
  ASSUME NEW c \in Seq(Nat), NEW d \in Nat, NEW k \in Nat
  PROVE  /\ c \o Copies(d, k) \in Seq(Nat) /\ Len(c \o Copies(d, k)) = Len(c) + k
         /\ \A i \in 1 .. Len(c) + k :
              (c \o Copies(d, k))[i] = IF i <= Len(c) THEN c[i] ELSE d
<1>1. Copies(d, k) \in Seq(Nat) /\ Len(Copies(d, k)) = k /\ \A i \in 1 .. k : Copies(d, k)[i] = d
  BY DEF Copies
<1> DEFINE e == Copies(d, k)
<1> HIDE DEF e
<1>2. /\ c \o e \in Seq(Nat) /\ Len(c \o e) = Len(c) + Len(e)
      /\ \A i \in 1 .. Len(c) + Len(e) : (c \o e)[i] = IF i <= Len(c) THEN c[i] ELSE e[i - Len(c)]
  BY <1>1, ConcatProperties DEF e
<1>3. Len(c) \in Nat
  BY LenProperties
<1>4. ASSUME NEW i \in 1 .. Len(c) + k
      PROVE  (c \o e)[i] = IF i <= Len(c) THEN c[i] ELSE d
  <2>1. ~(i <= Len(c)) => i - Len(c) \in 1 .. k
    BY <1>3
  <2>2. ~(i <= Len(c)) => e[i - Len(c)] = d
    BY <1>1, <2>1 DEF e
  <2> QED
    BY <1>1, <1>2, <2>2 DEF e
<1> QED
  BY <1>1, <1>2, <1>4 DEF e

(* What klist_append leaves when it gets that far.                         *)
AppendedTo(m, k, d) ==
  [m EXCEPT !.node = Appended(m, k, d),
            !.list = [m.list EXCEPT !.head = IF @ = NULL THEN Len(m.node) + 1 ELSE @,
                                    !.last = Len(m.node) + k,
                                    !.size = @ + k]]

(* It leaves the old nodes with one new link, and the new ones in a row.   *)
LEMMA AppendedIs ==
  ASSUME NEW m, Sound(m), NEW k \in Nat, k > 0, NEW d \in Nat
  PROVE  LET m2 == AppendedTo(m, k, d)
             top == Len(m.node)
         IN  /\ m2 \in Machine /\ Len(m2.node) = top + k
             /\ \A x \in 1 .. top :
                  /\ m2.node[x].data = m.node[x].data
                  /\ m2.node[x].next = IF m.list.head # NULL /\ x = m.list.last
                                       THEN top + 1 ELSE m.node[x].next
             /\ \A i \in 1 .. k :
                  /\ m2.node[top + i].data = d
                  /\ m2.node[top + i].next = IF i < k THEN top + i + 1 ELSE NULL
             /\ m2.list.head = (IF m.list.head = NULL THEN top + 1 ELSE m.list.head)
             /\ m2.list.last = top + k /\ m2.list.size = m.list.size + k
             /\ m2.list.duplicate = m.list.duplicate
             /\ m2.freed = m.freed /\ m2.gone = m.gone /\ m2.tail = m.tail
             /\ m2.objects = m.objects /\ m2.status = m.status
<1> DEFINE m2 == AppendedTo(m, k, d)
           top == Len(m.node)
           nodes == Appended(m, k, d)
           fresh(i) == [data |-> d, next |-> IF i < top + k THEN i + 1 ELSE NULL]
           linked(i) == IF m.list.head # NULL /\ i = m.list.last
                        THEN [m.node[i] EXCEPT !.next = top + 1] ELSE m.node[i]
           head == IF m.list.head = NULL THEN top + 1 ELSE m.list.head
           lst == [m.list EXCEPT !.head = IF @ = NULL THEN top + 1 ELSE @,
                                 !.last = top + k, !.size = @ + k]
<1>1. m \in Machine
  BY DEF Sound
<1>2. top \in Nat /\ m.node \in [1 .. top -> Node]
  BY <1>1, MachineNodes
<1>3. m2 = [m EXCEPT !.node = nodes, !.list = lst]
  BY DEF AppendedTo
<1>4. nodes = [i \in 1 .. top + k |-> IF i > top THEN fresh(i) ELSE linked(i)]
  BY DEF Appended
<1> HIDE DEF m2, nodes
<1>5. ASSUME NEW x \in 1 .. top
      PROVE  /\ x \in 1 .. top + k /\ nodes[x] \in Node
             /\ nodes[x].data = m.node[x].data
             /\ nodes[x].next = IF m.list.head # NULL /\ x = m.list.last
                                THEN top + 1 ELSE m.node[x].next
  <2>1. x \in 1 .. top + k /\ ~(x > top) /\ m.node[x] \in Node
    BY <1>2
  <2>2. nodes[x] = linked(x)
    BY <1>4, <2>1
  <2> QED
    BY <1>2, <2>1, <2>2 DEF Node
<1>6. ASSUME NEW i \in 1 .. k
      PROVE  /\ top + i \in 1 .. top + k /\ nodes[top + i] \in Node
             /\ nodes[top + i].data = d
             /\ nodes[top + i].next = IF i < k THEN top + i + 1 ELSE NULL
  <2>1. top + i \in 1 .. top + k /\ top + i > top /\ (top + i < top + k <=> i < k)
    BY <1>2
  <2>2. nodes[top + i] = fresh(top + i)
    BY <1>4, <2>1
  <2> QED
    BY <1>2, <2>1, <2>2 DEF Node, NULL
<1>7. nodes \in Seq(Node) /\ Len(nodes) = top + k
  <2>1. ASSUME NEW x \in 1 .. top + k PROVE nodes[x] \in Node
    <3>1. CASE x \in 1 .. top
      BY <1>5, <3>1
    <3>2. CASE x > top
      <4>1. x - top \in 1 .. k /\ top + (x - top) = x
        BY <1>2, <3>2
      <4> QED
        BY <1>6, <4>1
    <3> QED
      BY <1>2, <3>1, <3>2
  <2>2. nodes = [x \in 1 .. top + k |-> nodes[x]]
    BY <1>4
  <2>3. nodes \in [1 .. top + k -> Node]
    BY <2>1, <2>2
  <2>4. top + k \in Nat
    BY <1>2
  <2> QED
    BY <2>3, <2>4
<1>8. /\ lst \in ListStruct /\ lst.head = head /\ lst.last = top + k
      /\ lst.size = m.list.size + k /\ lst.duplicate = m.list.duplicate
  <2>1. m.list \in ListStruct
    BY <1>1 DEF Machine
  <2>2. head \in Nat /\ top + k \in Nat /\ m.list.size + k \in Nat
    BY <1>2, <2>1 DEF ListStruct
  <2>3. [m.list EXCEPT !.head = head, !.last = top + k, !.size = m.list.size + k] \in ListStruct
    <3> HIDE DEF head
    <3> QED
      BY <2>1, <2>2, Zenon DEF ListStruct
  <2>4. lst = [m.list EXCEPT !.head = head, !.last = top + k, !.size = m.list.size + k]
    BY <2>1, Zenon DEF ListStruct
  <2> HIDE DEF head, lst
  <2> QED
    BY <2>1, <2>3, <2>4, SMT DEF ListStruct
<1> HIDE DEF lst
<1>9. m2 \in Machine
  BY <1>1, <1>3, <1>7, <1>8, Zenon DEF Machine
<1>10. /\ m2.node = nodes /\ m2.freed = m.freed /\ m2.gone = m.gone /\ m2.tail = m.tail
      /\ m2.objects = m.objects /\ m2.status = m.status /\ m2.list = lst
  BY <1>1, <1>3, SMT DEF Machine
<1>11. /\ m2 \in Machine /\ Len(m2.node) = top + k
       /\ m2.list.head = head /\ m2.list.last = top + k
       /\ m2.list.size = m.list.size + k /\ m2.list.duplicate = m.list.duplicate
  BY <1>7, <1>8, <1>9, <1>10
<1> QED
  BY <1>5, <1>6, <1>10, <1>11 DEF m2

(* klist_append keeps the list a path, wherever its last pointer is.       *)
LEMMA AppendedKeeps ==
  ASSUME NEW m, Sound(m), NEW n, NEW q, Reaches(m, q, n), NEW k \in Nat, k > 0,
         NEW d, d = NULL \/ (k = 1 /\ Unused(m, d)),
         m.list.head = NULL \/ Valid(m, m.list.last)
  PROVE  /\ Sound(AppendedTo(m, k, d))
         /\ \E n2, q2 : /\ Reaches(AppendedTo(m, k, d), q2, n2)
                        /\ \A c : Holds(m, q, n, c) =>
                                   Holds(AppendedTo(m, k, d), q2, n2, c \o Copies(d, k))
<1> DEFINE m2 == AppendedTo(m, k, d)
           top == Len(m.node)
           f == Succ(m)
           g == Succ(m2)
           h == m.list.head
           F == m.freed
<1>1. d \in Nat /\ d <= m.objects /\ m \in Machine
  BY DEF Sound, Machine, NULL, Unused
<1>2. /\ m2 \in Machine /\ Len(m2.node) = top + k
      /\ \A x \in 1 .. top :
           /\ m2.node[x].data = m.node[x].data
           /\ m2.node[x].next = IF h # NULL /\ x = m.list.last THEN top + 1 ELSE m.node[x].next
      /\ \A i \in 1 .. k :
           /\ m2.node[top + i].data = d
           /\ m2.node[top + i].next = IF i < k THEN top + i + 1 ELSE NULL
      /\ m2.list.head = (IF h = NULL THEN top + 1 ELSE h)
      /\ m2.list.last = top + k /\ m2.list.size = m.list.size + k
      /\ m2.list.duplicate = m.list.duplicate
      /\ m2.freed = F /\ m2.gone = m.gone /\ m2.tail = m.tail
      /\ m2.objects = m.objects /\ m2.status = m.status
  BY <1>1, AppendedIs, ZenonT(60)
<1> HIDE DEF m2
<1>3. /\ top \in Nat /\ f \in Links(top) /\ \A x \in 1 .. top : f[x] = m.node[x].next
      /\ DOMAIN m.node = 1 .. top
      /\ \A x \in 1 .. top : m.node[x].data \in Nat /\ m.node[x].next \in Nat
  BY <1>1, SuccIs, MachineNodes
<1>4. ASSUME NEW x \in 1 .. top + k
      PROVE  x \in 1 .. top \/ (x - top \in 1 .. k /\ top + (x - top) = x)
  BY <1>3
<1>5. Sound(m2)
  <2>1. ASSUME NEW x \in 1 .. top + k
        PROVE  m2.node[x].data <= m.objects /\ m2.node[x].next <= top + k
    <3>1. CASE x \in 1 .. top
      <4>1. m.node[x].data <= m.objects /\ m.node[x].next <= top
        BY <3>1 DEF Sound
      <4>2. m.node[x].next <= top + k /\ top + 1 <= top + k
        BY <1>3, <3>1, <4>1
      <4> QED
        BY <1>2, <3>1, <4>1, <4>2
    <3>2. CASE x - top \in 1 .. k /\ top + (x - top) = x
      <4>1. m2.node[x].data = d /\ m2.node[x].next = IF x - top < k THEN x + 1 ELSE NULL
        <5>1. /\ m2.node[top + (x - top)].data = d
              /\ m2.node[top + (x - top)].next = IF x - top < k THEN top + (x - top) + 1 ELSE NULL
          BY <1>2, <3>2
        <5> QED
          BY <3>2, <5>1
      <4>2. (x - top < k => x + 1 <= top + k) /\ NULL <= top + k
        BY <1>3, <3>2 DEF NULL
      <4> QED
        BY <1>1, <4>1, <4>2
    <3> QED
      BY <1>4, <3>1, <3>2
  <2>2. ASSUME NEW x \in 1 .. top + k, NEW y \in 1 .. top + k, m2.node[x].data = m2.node[y].data
        PROVE  x = y \/ m2.node[x].data = NULL
    <3>1. CASE x \in 1 .. top /\ y \in 1 .. top
      <4>1. m2.node[x].data = m.node[x].data /\ m2.node[y].data = m.node[y].data
        BY <1>2, <3>1
      <4> QED
        BY <2>2, <3>1, <4>1 DEF Sound
    <3>2. CASE x - top \in 1 .. k /\ top + (x - top) = x
      <4>1. m2.node[x].data = d
        BY <1>2, <3>2, ZenonT(60)
      <4>2. CASE y \in 1 .. top
        <5>1. m2.node[y].data = m.node[y].data
          BY <1>2, <4>2
        <5> QED
          BY <2>2, <4>1, <4>2, <5>1 DEF Unused
      <4>3. CASE y - top \in 1 .. k /\ top + (y - top) = y
        <5>1. k = 1 => x = y
          BY <1>3, <3>2, <4>3
        <5> QED
          BY <4>1, <5>1
      <4> QED
        BY <1>4, <4>2, <4>3
    <3>3. CASE x \in 1 .. top /\ y - top \in 1 .. k /\ top + (y - top) = y
      <4>1. m2.node[y].data = d /\ m2.node[x].data = m.node[x].data
        BY <1>2, <3>3, ZenonT(60)
      <4> QED
        BY <2>2, <3>3, <4>1 DEF Unused
    <3> QED
      BY <1>4, <3>1, <3>2, <3>3
  <2>3. m2.freed \subseteq 1 .. top + k /\ m2.gone \subseteq 1 .. m2.objects
    BY <1>2, <1>3 DEF Sound
  <2>4. Within(m2.list, top + k) /\ Within(m2.tail, top + k)
    <3>1. m.list \in ListStruct /\ m.tail \in ListStruct
      BY <1>1 DEF Machine
    <3>2. /\ m.list.head <= top /\ m.list.size <= top
          /\ m.tail.head <= top /\ m.tail.last <= top /\ m.tail.size <= top
      BY DEF Sound, Within
    <3>3. /\ m.list.head \in Nat /\ m.list.size \in Nat
          /\ m.tail.head \in Nat /\ m.tail.last \in Nat /\ m.tail.size \in Nat
      BY <3>1 DEF ListStruct
    <3>4. /\ m.list.head <= top + k /\ m.list.size + k <= top + k /\ top + 1 <= top + k
          /\ m.tail.head <= top + k /\ m.tail.last <= top + k /\ m.tail.size <= top + k
          /\ top + k <= top + k
      <4>1. \A a \in Nat : a <= top => a <= top + k /\ a + k <= top + k
        BY <1>3
      <4>2. top + 1 <= top + k /\ top + k <= top + k
        BY <1>3
      <4> QED
        BY <3>2, <3>3, <4>1, <4>2
    <3> QED
      BY <1>2, <3>4 DEF Within
  <2>5. m2.list.duplicate = FALSE /\ (m2.tail.live => m2.tail.duplicate)
    BY <1>2 DEF Sound
  <2> QED
    BY <1>2, <2>1, <2>2, <2>3, <2>4, <2>5 DEF Sound
<1>6. /\ g \in Links(top + k)
      /\ \A x \in 1 .. top : g[x] = IF h # NULL /\ x = m.list.last THEN top + 1 ELSE f[x]
      /\ \A i \in 1 .. k : g[top + i] = IF i < k THEN top + i + 1 ELSE NULL
  <2>1. g \in Links(top + k) /\ \A x \in 1 .. top + k : g[x] = m2.node[x].next
    BY <1>2, <1>5, SuccIs
  <2>2. ASSUME NEW x \in 1 .. top
        PROVE  g[x] = IF h # NULL /\ x = m.list.last THEN top + 1 ELSE f[x]
    <3>1. x \in 1 .. top + k
      BY <1>3
    <3>2. m2.node[x].next = IF h # NULL /\ x = m.list.last THEN top + 1 ELSE m.node[x].next
      BY <1>2
    <3> QED
      BY <1>3, <2>1, <3>1, <3>2
  <2>3. ASSUME NEW i \in 1 .. k PROVE g[top + i] = IF i < k THEN top + i + 1 ELSE NULL
    <3>1. top + i \in 1 .. top + k
      BY <1>3
    <3> QED
      <4>1. m2.node[top + i].next = IF i < k THEN top + i + 1 ELSE NULL
        BY <1>2
      <4> QED
        BY <2>1, <3>1, <4>1
  <2> QED
    BY <2>1, <2>2, <2>3
<1> HIDE DEF f, g
<1>7. Listing(q, n, top, f, h, F) /\ n \in Nat /\ q \in [1 .. n -> 1 .. top]
  BY DEF Reaches, Listing, f
<1>8. F \in SUBSET (1 .. top)
  BY DEF Sound
\* The new path: the first j nodes, if the last pointer is the j-th.
<1>9. ASSUME NEW j \in Nat, j <= n, j = 0 => n = 0, h = NULL => j = 0,
             j > 0 => h # NULL /\ m.list.last = q[j],
             \A c : Holds(m, q, n, c) => j = n
      PROVE  /\ Reaches(m2, Joined(q, j, k, top), j + k)
             /\ \A c : Holds(m, q, n, c) =>
                        Holds(m2, Joined(q, j, k, top), j + k, c \o Copies(d, k))
  <2> DEFINE r == Joined(q, j, k, top)
  <2>1. \A i \in 1 .. j : r[i] = q[i] /\ q[i] \in 1 .. top /\ i \in 1 .. n
    <3> SUFFICES ASSUME NEW i \in 1 .. j PROVE r[i] = q[i] /\ q[i] \in 1 .. top /\ i \in 1 .. n
      OBVIOUS
    <3>1. i \in 1 .. j + k /\ i \in 1 .. n /\ i <= j
      BY <1>7, <1>9
    <3> QED
      BY <1>7, <3>1 DEF Joined
  <2>2. \A i \in 1 .. k : r[j + i] = top + i
    <3> SUFFICES ASSUME NEW i \in 1 .. k PROVE r[j + i] = top + i
      OBVIOUS
    <3>1. j + i \in 1 .. j + k /\ ~(j + i <= j) /\ (j + i) - j = i
      OBVIOUS
    <3> QED
      BY <3>1 DEF Joined
  <2> HIDE DEF r
  <2>3. ASSUME NEW x \in 1 .. j + k
        PROVE  x \in 1 .. j \/ (x - j \in 1 .. k /\ j + (x - j) = x)
    OBVIOUS
  <2>4. j > 0 => q[j] \in 1 .. top /\ g[q[j]] = top + 1
    <3>1. j > 0 => j \in 1 .. j
      OBVIOUS
    <3> QED
      BY <1>6, <1>9, <2>1, <3>1
  <2>5. \A x \in 1 .. top : (j = 0 \/ x # q[j]) => g[x] = f[x]
    <3>1. j = 0 => h = NULL
      BY <1>7, <1>9 DEF Listing
    <3>2. j = 0 \/ j > 0
      OBVIOUS
    <3> QED
      BY <1>6, <1>9, <3>1, <3>2
  <2>6. Listing(r, j + k, top + k, g, m2.list.head, m2.freed)
    <3>1. Listing(Joined(q, j, k, top), j + k, top + k, g, IF h = NULL THEN top + 1 ELSE h, F)
      BY <1>3, <1>6, <1>7, <1>8, <1>9, <2>4, <2>5, ListingAppend
    <3>2. m2.list.head = (IF h = NULL THEN top + 1 ELSE h) /\ m2.freed = F
      BY <1>2
    <3> QED
      BY <3>1, <3>2 DEF r
  <2>7. \A i \in 1 .. j : m2.node[r[i]].data = m.node[q[i]].data
    BY <1>2, <2>1
  <2>8. \A i \in 1 .. k : m2.node[r[j + i]].data = d
    BY <1>2, <2>2, ZenonT(60)
  <2>9. Reaches(m2, r, j + k)
    <3>1. ASSUME NEW x \in 1 .. j + k PROVE m2.node[r[x]].data \notin m2.gone
      <4>1. CASE x \in 1 .. j
        BY <1>2, <2>1, <2>7, <4>1 DEF Reaches
      <4>2. CASE x - j \in 1 .. k /\ j + (x - j) = x
        <5>1. m2.node[r[x]].data = d
          BY <2>8, <4>2
        <5>2. d \notin m.gone
          <6>1. NULL \notin 1 .. m.objects
            BY DEF NULL
          <6> QED
            BY <6>1 DEF Sound, Unused
        <5> QED
          BY <1>2, <5>1, <5>2
      <4> QED
        BY <2>3, <4>1, <4>2
    <3> QED
      BY <1>2, <2>6, <3>1 DEF Reaches, g
  <2>10. ASSUME NEW c, Holds(m, q, n, c) PROVE Holds(m2, r, j + k, c \o Copies(d, k))
    <3>1. j = n /\ c \in Seq(Nat) /\ Len(c) = n
      BY <1>9, <2>10 DEF Holds
    <3> DEFINE e == c \o Copies(d, k)
    <3>2. /\ e \in Seq(Nat) /\ Len(e) = n + k
          /\ \A i \in 1 .. n + k : e[i] = IF i <= n THEN c[i] ELSE d
      <4>1. /\ c \o Copies(d, k) \in Seq(Nat) /\ Len(c \o Copies(d, k)) = Len(c) + k
            /\ \A i \in 1 .. Len(c) + k :
                 (c \o Copies(d, k))[i] = IF i <= Len(c) THEN c[i] ELSE d
        BY <1>1, <3>1, HoldsConcat
      <4> QED
        BY <3>1, <4>1
    <3> HIDE DEF e
    <3>3. m2.list.size = j + k
      BY <1>2, <2>10, <3>1 DEF Holds
    <3>4. m2.list.last = r[j + k]
      <4>1. k \in 1 .. k
        OBVIOUS
      <4> QED
        BY <1>2, <2>2, <4>1
    <3>5. ASSUME NEW x \in 1 .. j + k PROVE m2.node[r[x]].data = e[x]
      <4>1. CASE x \in 1 .. j
        <5>1. x \in 1 .. n /\ x \in 1 .. n + k /\ x <= n
          BY <1>7, <3>1, <4>1
        <5>2. m.node[q[x]].data = c[x]
          BY <2>10, <5>1 DEF Holds
        <5> QED
          BY <2>7, <3>2, <4>1, <5>1, <5>2
      <4>2. CASE x - j \in 1 .. k /\ j + (x - j) = x
        <5>1. x \in 1 .. n + k /\ ~(x <= n)
          BY <1>7, <3>1, <4>2
        <5> QED
          BY <2>8, <3>2, <4>2, <5>1
      <4> QED
        BY <2>3, <4>1, <4>2
    <3> QED
      BY <3>1, <3>2, <3>3, <3>4, <3>5 DEF Holds, e
  <2> QED
    BY <2>9, <2>10 DEF r
<1>10. CASE h = NULL
  <2>1. n = 0
    <3>1. ASSUME n # 0 PROVE FALSE
      <4>1. n > 0 /\ 1 \in 1 .. n
        BY <1>7, <3>1
      <4>2. h = q[1] /\ q[1] \in 1 .. top
        BY <1>7, <4>1 DEF Listing
      <4> QED
        BY <1>10, <4>2 DEF NULL
    <3> QED
      BY <3>1
  <2>2. /\ Reaches(m2, Joined(q, 0, k, top), 0 + k)
        /\ \A c : Holds(m, q, n, c) =>
                   Holds(m2, Joined(q, 0, k, top), 0 + k, c \o Copies(d, k))
    <3>1. 0 \in Nat /\ 0 <= n /\ ~(0 > 0)
      BY <2>1
    <3> QED
      BY <1>9, <2>1, <3>1, Zenon
  <2> QED
    BY <1>5, <2>2, Zenon DEF m2
<1>11. CASE h # NULL /\ \E j \in 1 .. n : m.list.last = q[j]
  <2>1. PICK j \in 1 .. n : m.list.last = q[j]
    BY <1>11
  <2>2. j \in Nat /\ j <= n /\ j > 0
    BY <1>7
  <2>3. ASSUME NEW c, Holds(m, q, n, c) PROVE j = n
    <3>1. q[j] = q[n] /\ n \in 1 .. n
      BY <1>7, <2>1, <2>2, <2>3 DEF Holds
    <3> QED
      BY <1>7, <3>1 DEF Listing
  <2>4. /\ Reaches(m2, Joined(q, j, k, top), j + k)
        /\ \A c : Holds(m, q, n, c) =>
                   Holds(m2, Joined(q, j, k, top), j + k, c \o Copies(d, k))
    <3>1. j # 0
      BY <2>2
    <3> QED
      BY <1>9, <1>11, <2>1, <2>2, <2>3, <3>1, Zenon
  <2> QED
    BY <1>5, <2>4, Zenon DEF m2
<1>12. CASE h # NULL /\ \A j \in 1 .. n : m.list.last # q[j]
  <2>1. \A i \in 1 .. n : q[i] \in 1 .. top /\ g[q[i]] = f[q[i]] /\ q[i] \notin F
    BY <1>6, <1>7, <1>12 DEF Listing
  <2>2. ASSUME NEW x \in 1 .. top + k, NEW i \in 1 .. n, x \notin F, g[x] = q[i]
        PROVE  i > 1 /\ x = q[i - 1]
    <3>1. CASE x \in 1 .. top
      <4>1. top + 1 \notin 1 .. top
        BY <1>3
      <4>2. f[x] = q[i]
        BY <1>6, <2>1, <2>2, <3>1, <4>1
      <4> QED
        BY <1>7, <2>2, <3>1, <4>2 DEF Listing
    <3>2. CASE x - top \in 1 .. k /\ top + (x - top) = x
      <4>1. g[x] = IF x - top < k THEN x + 1 ELSE NULL
        BY <1>6, <3>2
      <4>2. x + 1 \notin 1 .. top /\ NULL \notin 1 .. top
        BY <1>3, <3>2 DEF NULL
      <4> QED
        BY <2>1, <2>2, <4>1, <4>2
    <3> QED
      BY <1>4, <3>1, <3>2
  <2>3. Listing(q, n, top + k, g, h, F)
    <3>1. top + k \in Nat /\ top + k >= top /\ F \subseteq F
      BY <1>3
    <3>2. \A i \in 1 .. n : q[i] \notin F /\ g[q[i]] = f[q[i]]
      BY <2>1
    <3>3. \A x \in 1 .. top + k : \A i \in 1 .. n :
            x \notin F /\ g[x] = q[i] => i > 1 /\ x = q[i - 1]
      BY <2>2
    <3> QED
      BY <1>3, <1>6, <1>7, <3>1, <3>2, <3>3, ListingAside, ZenonT(60)
  <2>4. \A i \in 1 .. n : m2.node[q[i]].data \notin m2.gone
    BY <1>2, <2>1 DEF Reaches
  <2>5. Reaches(m2, q, n)
    BY <1>2, <1>12, <2>3, <2>4 DEF Reaches, g
  <2>6. ASSUME NEW c, Holds(m, q, n, c) PROVE FALSE
    <3>1. n # 0
      BY <1>7, <1>12 DEF Listing
    <3>2. n > 0 /\ n \in 1 .. n
      BY <1>7, <3>1
    <3> QED
      BY <1>12, <2>6, <3>2 DEF Holds
  <2> QED
    BY <1>5, <2>5, <2>6 DEF m2
<1> QED
  BY <1>10, <1>11, <1>12

(* What InsertAt of the community modules makes of a sequence.             *)
LEMMA InsertAtIs ==
  ASSUME NEW c \in Seq(Nat), NEW d \in Nat, NEW j \in 1 .. Len(c) + 1
  PROVE  /\ InsertAt(c, j, d) \in Seq(Nat) /\ Len(InsertAt(c, j, d)) = Len(c) + 1
         /\ \A i \in 1 .. Len(c) + 1 :
              InsertAt(c, j, d)[i] = IF i < j THEN c[i] ELSE IF i = j THEN d ELSE c[i - 1]
<1> DEFINE n == Len(c)
           a == SubSeq(c, 1, j - 1)
           b == SubSeq(c, j, n)
           x == a \o <<d>>
           y == x \o b
<1>1. n \in Nat /\ c \in [1 .. n -> Nat] /\ j \in Nat /\ j > 0 /\ j <= n + 1
  BY LenProperties
<1>2. a \in Seq(Nat) /\ Len(a) = j - 1 /\ \A i \in 1 .. j - 1 : a[i] = c[i]
  <2>1. 1 \in Int /\ j - 1 \in Int /\ \A i \in 1 .. j - 1 : c[i] \in Nat
    BY <1>1
  <2>2. /\ a \in Seq(Nat) /\ Len(a) = (IF 1 <= j - 1 THEN (j - 1) - 1 + 1 ELSE 0)
        /\ \A i \in 1 .. (j - 1) - 1 + 1 : a[i] = c[1 + i - 1]
    BY <2>1, SubSeqProperties
  <2> HIDE DEF a
  <2>3. (IF 1 <= j - 1 THEN (j - 1) - 1 + 1 ELSE 0) = j - 1 /\ (j - 1) - 1 + 1 = j - 1
        /\ \A i \in 1 .. j - 1 : 1 + i - 1 = i
    BY <1>1
  <2> QED
    BY <2>2, <2>3
<1>3. b \in Seq(Nat) /\ Len(b) = n - j + 1 /\ \A i \in 1 .. n - j + 1 : b[i] = c[j + i - 1]
  <2>1. j \in Int /\ n \in Int /\ \A i \in j .. n : c[i] \in Nat
    BY <1>1
  <2>2. /\ b \in Seq(Nat) /\ Len(b) = (IF j <= n THEN n - j + 1 ELSE 0)
        /\ \A i \in 1 .. n - j + 1 : b[i] = c[j + i - 1]
    BY <2>1, SubSeqProperties
  <2> HIDE DEF b
  <2>3. (IF j <= n THEN n - j + 1 ELSE 0) = n - j + 1
    BY <1>1
  <2> QED
    BY <2>2, <2>3
<1>4. <<d>> \in Seq(Nat) /\ Len(<<d>>) = 1 /\ <<d>>[1] = d
  OBVIOUS
<1> HIDE DEF a, b
<1>5. /\ x \in Seq(Nat) /\ Len(x) = j
      /\ \A i \in 1 .. j : x[i] = IF i < j THEN c[i] ELSE d
  <2>1. /\ x \in Seq(Nat) /\ Len(x) = Len(a) + Len(<<d>>)
        /\ \A i \in 1 .. Len(a) + Len(<<d>>) :
             x[i] = IF i <= Len(a) THEN a[i] ELSE <<d>>[i - Len(a)]
    BY <1>2, <1>4, ConcatProperties
  <2> HIDE DEF x
  <2>2. Len(a) + Len(<<d>>) = j
    BY <1>1, <1>2, <1>4
  <2>3. ASSUME NEW i \in 1 .. j PROVE x[i] = IF i < j THEN c[i] ELSE d
    <3>1. CASE i < j
      <4>1. i \in 1 .. j - 1 /\ i <= j - 1
        BY <1>1, <3>1
      <4> QED
        BY <1>2, <2>1, <2>2, <3>1, <4>1
    <3>2. CASE ~(i < j)
      <4>1. i = j /\ ~(i <= j - 1) /\ i - (j - 1) = 1
        BY <1>1, <3>2
      <4> QED
        BY <1>2, <1>4, <2>1, <2>2, <3>2, <4>1
    <3> QED
      BY <3>1, <3>2
  <2> QED
    BY <2>1, <2>2, <2>3
<1> HIDE DEF x
<1>6. /\ y \in Seq(Nat) /\ Len(y) = n + 1
      /\ \A i \in 1 .. n + 1 : y[i] = IF i < j THEN c[i] ELSE IF i = j THEN d ELSE c[i - 1]
  <2>1. /\ y \in Seq(Nat) /\ Len(y) = Len(x) + Len(b)
        /\ \A i \in 1 .. Len(x) + Len(b) :
             y[i] = IF i <= Len(x) THEN x[i] ELSE b[i - Len(x)]
    BY <1>3, <1>5, ConcatProperties
  <2> HIDE DEF y
  <2>2. Len(x) + Len(b) = n + 1
    BY <1>1, <1>3, <1>5
  <2>3. ASSUME NEW i \in 1 .. n + 1
        PROVE  y[i] = IF i < j THEN c[i] ELSE IF i = j THEN d ELSE c[i - 1]
    <3>1. CASE i <= j
      <4>1. i \in 1 .. j /\ (~(i < j) => i = j)
        BY <1>1, <3>1
      <4> QED
        BY <1>5, <2>1, <2>2, <3>1, <4>1
    <3>2. CASE ~(i <= j)
      <4>1. i # j /\ ~(i < j) /\ i - j \in 1 .. n - j + 1 /\ j + (i - j) - 1 = i - 1
        BY <1>1, <3>2
      <4>2. b[i - j] = c[i - 1]
        BY <1>3, <4>1
      <4> QED
        BY <1>5, <2>1, <2>2, <3>2, <4>1, <4>2
    <3> QED
      BY <3>1, <3>2
  <2> QED
    BY <2>1, <2>2, <2>3
<1>7. InsertAt(c, j, d) = y
  BY DEF InsertAt, x, y, a, b
<1> QED
  BY <1>6, <1>7

(* Sequences of equal length and elements are equal.                       *)
LEMMA SameSeq ==
  ASSUME NEW c \in Seq(Nat), NEW e \in Seq(Nat), Len(c) = Len(e),
         \A i \in 1 .. Len(c) : c[i] = e[i]
  PROVE  c = e
<1>1. c \in [1 .. Len(c) -> Nat] /\ e \in [1 .. Len(e) -> Nat]
  BY LenProperties
<1> QED
  BY <1>1

(* The other ways to write an insertion at an end.                         *)
LEMMA InsertAtEnds ==
  ASSUME NEW c \in Seq(Nat), NEW d \in Nat
  PROVE  /\ <<d>> \o c = InsertAt(c, 1, d)
         /\ c \o Copies(d, 1) = InsertAt(c, Len(c) + 1, d)
         /\ c \o Copies(d, 1) = Append(c, d)
<1>1. Len(c) \in Nat /\ 1 \in 1 .. Len(c) + 1 /\ Len(c) + 1 \in 1 .. Len(c) + 1
  BY LenProperties
<1> DEFINE n == Len(c)
           x == InsertAt(c, 1, d)
           y == InsertAt(c, n + 1, d)
           p == <<d>> \o c
           a == c \o Copies(d, 1)
           b == Append(c, d)
<1>2. /\ x \in Seq(Nat) /\ Len(x) = n + 1
      /\ \A i \in 1 .. n + 1 : x[i] = IF i < 1 THEN c[i] ELSE IF i = 1 THEN d ELSE c[i - 1]
  BY <1>1, InsertAtIs
<1>3. /\ y \in Seq(Nat) /\ Len(y) = n + 1
      /\ \A i \in 1 .. n + 1 : y[i] = IF i < n + 1 THEN c[i] ELSE IF i = n + 1 THEN d ELSE c[i - 1]
  BY <1>1, InsertAtIs
<1>4. /\ p \in Seq(Nat) /\ Len(p) = 1 + n
      /\ \A i \in 1 .. 1 + n : p[i] = IF i <= 1 THEN d ELSE c[i - 1]
  <2>1. <<d>> \in Seq(Nat) /\ Len(<<d>>) = 1 /\ <<d>>[1] = d
    OBVIOUS
  <2>2. /\ p \in Seq(Nat) /\ Len(p) = Len(<<d>>) + n
        /\ \A i \in 1 .. Len(<<d>>) + n : p[i] = IF i <= Len(<<d>>) THEN <<d>>[i] ELSE c[i - Len(<<d>>)]
    BY <2>1, ConcatProperties
  <2> HIDE DEF p
  <2> QED
    BY <1>1, <2>1, <2>2
<1>5. /\ a \in Seq(Nat) /\ Len(a) = n + 1
      /\ \A i \in 1 .. n + 1 : a[i] = IF i <= n THEN c[i] ELSE d
  <2>1. 1 \in Nat
    OBVIOUS
  <2> HIDE DEF x, y, p, b
  <2> QED
    BY <2>1, HoldsConcat
<1>6. /\ b \in Seq(Nat) /\ Len(b) = n + 1 /\ b[n + 1] = d
      /\ \A i \in 1 .. n : b[i] = c[i]
  BY AppendProperties
<1>7. \A i \in 1 .. n + 1 : (i < 1 <=> FALSE) /\ (i <= 1 <=> i = 1)
  BY <1>1
<1>8. \A i \in 1 .. n + 1 : (i < n + 1 <=> i <= n) /\ (~(i <= n) => i = n + 1) /\ (i <= n => i \in 1 .. n)
  BY <1>1
<1>9. 1 + n = n + 1
  BY <1>1
<1> HIDE DEF x, y, p, a, b
<1>10. p = x
  <2>1. \A i \in 1 .. n + 1 : p[i] = x[i]
    BY <1>2, <1>4, <1>7, <1>9
  <2> QED
    BY <1>2, <1>4, <1>9, <2>1, SameSeq
<1>11. a = y
  <2>1. \A i \in 1 .. n + 1 : a[i] = y[i]
    BY <1>3, <1>5, <1>8
  <2> QED
    BY <1>3, <1>5, <2>1, SameSeq
<1>12. a = b
  <2>1. \A i \in 1 .. n + 1 : a[i] = b[i]
    BY <1>5, <1>6, <1>8
  <2> QED
    BY <1>5, <1>6, <2>1, SameSeq
<1> QED
  BY <1>10, <1>11, <1>12 DEF x, y, p, a, b

(* m2 is m with a new node for d behind node p, or before the head when p  *)
(* is NULL.                                                                *)
Linked(m, p, d, m2) ==
  LET top == Len(m.node)
  IN  /\ m2 \in Machine /\ Len(m2.node) = top + 1
      /\ \A x \in 1 .. top :
           /\ m2.node[x].data = m.node[x].data
           /\ m2.node[x].next = IF x = p THEN top + 1 ELSE m.node[x].next
      /\ m2.node[top + 1].data = d
      /\ m2.node[top + 1].next = IF p = NULL THEN m.list.head ELSE m.node[p].next
      /\ m2.list.head = IF p = NULL THEN top + 1 ELSE m.list.head
      /\ m2.list.last = m.list.last /\ m2.list.size = m.list.size + 1
      /\ m2.list.duplicate = m.list.duplicate
      /\ m2.freed = m.freed /\ m2.gone = m.gone /\ m2.tail = m.tail
      /\ m2.objects = m.objects /\ m2.status = m.status

(* A new node keeps the list a path, wherever it is linked; before the     *)
(* head of a list that is not empty, or behind the head of one with two    *)
(* elements, it is an insertion.                                           *)
LEMMA LinkedKeeps ==
  ASSUME NEW m, Sound(m), NEW n, NEW q, Reaches(m, q, n), NEW d, Unused(m, d),
         NEW p, p = NULL \/ Valid(m, p), NEW m2, Linked(m, p, d, m2)
  PROVE  /\ Sound(m2)
         /\ \E n2, q2 :
              /\ Reaches(m2, q2, n2)
              /\ \A c : Holds(m, q, n, c) /\ n > 0 /\ p = NULL
                          => Holds(m2, q2, n2, InsertAt(c, 1, d))
              /\ \A c : Holds(m, q, n, c) /\ n > 1 /\ p = q[1]
                          => Holds(m2, q2, n2, InsertAt(c, 2, d))
<1> DEFINE top == Len(m.node)
           f == Succ(m)
           g == Succ(m2)
           h == m.list.head
           F == m.freed
<1>1. d \in Nat /\ d <= m.objects /\ m \in Machine /\ m.objects \in Nat /\ d \notin m.gone
  BY DEF Sound, Machine, NULL, Unused
<1>2. /\ m2 \in Machine /\ Len(m2.node) = top + 1
      /\ \A x \in 1 .. top :
           /\ m2.node[x].data = m.node[x].data
           /\ m2.node[x].next = IF x = p THEN top + 1 ELSE m.node[x].next
      /\ m2.node[top + 1].data = d
      /\ m2.node[top + 1].next = IF p = NULL THEN h ELSE m.node[p].next
      /\ m2.list.head = IF p = NULL THEN top + 1 ELSE h
      /\ m2.list.last = m.list.last /\ m2.list.size = m.list.size + 1
      /\ m2.list.duplicate = m.list.duplicate
      /\ m2.freed = F /\ m2.gone = m.gone /\ m2.tail = m.tail
      /\ m2.objects = m.objects /\ m2.status = m.status
  BY DEF Linked
<1>3. /\ top \in Nat /\ f \in Links(top) /\ \A x \in 1 .. top : f[x] = m.node[x].next
      /\ DOMAIN m.node = 1 .. top
      /\ \A x \in 1 .. top : m.node[x].data \in Nat /\ m.node[x].next \in Nat
  BY <1>1, SuccIs, MachineNodes
<1>4. /\ p # NULL => p \in 1 .. top /\ p \notin F
      /\ NULL \notin 1 .. top
  BY <1>3 DEF Valid, NULL
<1>5. ASSUME NEW x \in 1 .. top + 1 PROVE x \in 1 .. top \/ x = top + 1
  BY <1>3
<1>6. Sound(m2)
  <2>1. m.list \in ListStruct /\ m.tail \in ListStruct
    BY <1>1 DEF Machine
  <2>2. /\ h <= top /\ m.list.last <= top /\ m.list.size <= top
        /\ m.tail.head <= top /\ m.tail.last <= top /\ m.tail.size <= top
    BY DEF Sound, Within
  <2>3. /\ h \in Nat /\ m.list.last \in Nat /\ m.list.size \in Nat
        /\ m.tail.head \in Nat /\ m.tail.last \in Nat /\ m.tail.size \in Nat
    BY <2>1 DEF ListStruct
  <2>4. \A a \in Nat : a <= top => a <= top + 1 /\ a + 1 <= top + 1
    BY <1>3
  <2>5. top + 1 <= top + 1
    BY <1>3
  <2>6. Within(m2.list, top + 1) /\ Within(m2.tail, top + 1)
    BY <1>2, <2>2, <2>3, <2>4, <2>5 DEF Within
  <2>7. \A x \in 1 .. top : m.node[x].next <= top /\ m.node[x].data <= m.objects
    BY DEF Sound
  <2>8. ASSUME NEW x \in 1 .. top + 1
        PROVE  m2.node[x].data <= m.objects /\ m2.node[x].next <= top + 1
    <3>1. CASE x \in 1 .. top
      <4>1. m.node[x].next <= top + 1
        BY <1>3, <2>4, <2>7, <3>1
      <4> QED
        BY <1>2, <2>5, <2>7, <3>1, <4>1
    <3>2. CASE x = top + 1
      <4>1. p # NULL => m.node[p].next <= top + 1
        BY <1>3, <1>4, <2>4, <2>7
      <4>2. h <= top + 1
        BY <2>2, <2>3, <2>4
      <4> QED
        BY <1>1, <1>2, <3>2, <4>1, <4>2
    <3> QED
      BY <1>5, <3>1, <3>2
  <2>9. ASSUME NEW x \in 1 .. top + 1, NEW y \in 1 .. top + 1, m2.node[x].data = m2.node[y].data
        PROVE  x = y \/ m2.node[x].data = NULL
    <3>1. CASE x \in 1 .. top /\ y \in 1 .. top
      BY <1>2, <2>9, <3>1 DEF Sound
    <3>2. CASE x = top + 1 /\ y \in 1 .. top
      BY <1>2, <2>9, <3>2 DEF Unused
    <3>3. CASE x \in 1 .. top /\ y = top + 1
      BY <1>2, <2>9, <3>3 DEF Unused
    <3> QED
      BY <1>5, <3>1, <3>2, <3>3
  <2>10. m2.freed \subseteq 1 .. top + 1 /\ m2.gone \subseteq 1 .. m2.objects
    BY <1>2, <1>3 DEF Sound
  <2>11. m2.list.duplicate = FALSE /\ (m2.tail.live => m2.tail.duplicate)
    BY <1>2 DEF Sound
  <2> QED
    BY <1>2, <2>6, <2>8, <2>9, <2>10, <2>11 DEF Sound
<1>7. /\ g \in Links(top + 1)
      /\ \A x \in 1 .. top : g[x] = IF x = p THEN top + 1 ELSE f[x]
      /\ g[top + 1] = IF p = NULL THEN h ELSE f[p]
  <2>1. g \in Links(top + 1) /\ \A x \in 1 .. top + 1 : g[x] = m2.node[x].next
    BY <1>2, <1>6, SuccIs
  <2>2. top + 1 \in 1 .. top + 1 /\ \A x \in 1 .. top : x \in 1 .. top + 1
    BY <1>3
  <2>3. \A x \in 1 .. top : g[x] = IF x = p THEN top + 1 ELSE f[x]
    BY <1>2, <1>3, <2>1, <2>2
  <2>4. g[top + 1] = IF p = NULL THEN h ELSE f[p]
    BY <1>2, <1>3, <1>4, <2>1, <2>2
  <2> QED
    BY <2>1, <2>3, <2>4
<1> HIDE DEF f, g
<1>8. Listing(q, n, top, f, h, F) /\ n \in Nat /\ q \in [1 .. n -> 1 .. top]
  BY DEF Reaches, Listing, f
<1>9. F \in SUBSET (1 .. top)
  BY DEF Sound
\* The new path, when p is its j-th node or NULL.
<1>10. ASSUME NEW j \in Nat, j <= n, j = 0 <=> p = NULL, j > 0 => p = q[j]
       PROVE  /\ Reaches(m2, Placed(q, n, j, top + 1), n + 1)
              /\ \A c : Holds(m, q, n, c) /\ j < n =>
                        Holds(m2, Placed(q, n, j, top + 1), n + 1, InsertAt(c, j + 1, d))
  <2> DEFINE r == Placed(q, n, j, top + 1)
  <2>1. \A i \in 1 .. n + 1 :
          r[i] = IF i <= j THEN q[i] ELSE IF i = j + 1 THEN top + 1 ELSE q[i - 1]
    BY DEF Placed
  <2> HIDE DEF r
  <2>2. ASSUME NEW i \in 1 .. n + 1
        PROVE  /\ i <= j => i \in 1 .. n
               /\ i > j + 1 => i - 1 \in 1 .. n
    BY <1>8, <1>10
  <2>3. Listing(r, n + 1, top + 1, g, m2.list.head, F)
    <3>1. \A x \in 1 .. top : (j = 0 \/ x # q[j]) => g[x] = f[x]
      <4>1. j = 0 \/ j > 0
        OBVIOUS
      <4> QED
        BY <1>4, <1>7, <1>10, <4>1
    <3>2. j > 0 => g[q[j]] = top + 1
      <4>1. j > 0 => j # 0
        OBVIOUS
      <4> QED
        BY <1>4, <1>7, <1>10, <4>1
    <3>3. g[top + 1] = IF j = 0 THEN h ELSE f[q[j]]
      <4>1. j = 0 \/ j > 0
        OBVIOUS
      <4> QED
        BY <1>7, <1>10, <4>1
    <3>4. Listing(Placed(q, n, j, top + 1), n + 1, top + 1, g, IF j = 0 THEN top + 1 ELSE h, F)
      BY <1>3, <1>7, <1>8, <1>9, <1>10, <3>1, <3>2, <3>3, ListingInsert, ZenonT(60)
    <3>5. m2.list.head = IF j = 0 THEN top + 1 ELSE h
      BY <1>2, <1>10
    <3> QED
      BY <3>4, <3>5 DEF r
  <2>4. ASSUME NEW i \in 1 .. n + 1
        PROVE  m2.node[r[i]].data = IF i <= j THEN m.node[q[i]].data
                                    ELSE IF i = j + 1 THEN d ELSE m.node[q[i - 1]].data
    <3>1. CASE i <= j
      <4>1. i \in 1 .. n /\ r[i] = q[i] /\ q[i] \in 1 .. top
        BY <1>8, <2>1, <2>2, <3>1
      <4> QED
        BY <1>2, <3>1, <4>1
    <3>2. CASE i = j + 1
      <4>1. ~(i <= j)
        BY <3>2
      <4> QED
        BY <1>2, <2>1, <3>2, <4>1
    <3>3. CASE i > j + 1
      <4>1. ~(i <= j) /\ i # j + 1 /\ i - 1 \in 1 .. n
        BY <2>2, <3>3
      <4>2. r[i] = q[i - 1] /\ q[i - 1] \in 1 .. top
        BY <1>8, <2>1, <4>1
      <4> QED
        BY <1>2, <4>1, <4>2
    <3> QED
      BY <3>1, <3>2, <3>3
  <2>5. Reaches(m2, r, n + 1)
    <3>1. ASSUME NEW i \in 1 .. n + 1 PROVE m2.node[r[i]].data \notin m2.gone
      <4>1. i <= j \/ i = j + 1 \/ i > j + 1
        OBVIOUS
      <4>2. i > j + 1 => ~(i <= j) /\ i # j + 1
        OBVIOUS
      <4> QED
        BY <1>1, <1>2, <2>2, <2>4, <4>1, <4>2 DEF Reaches
    <3> QED
      BY <1>2, <2>3, <3>1 DEF Reaches, g
  <2>6. ASSUME NEW c, Holds(m, q, n, c), j < n PROVE Holds(m2, r, n + 1, InsertAt(c, j + 1, d))
    <3>1. /\ c \in Seq(Nat) /\ Len(c) = n /\ m.list.size = n /\ m.list.last = q[n]
          /\ \A i \in 1 .. n : m.node[q[i]].data = c[i]
      BY <2>6 DEF Holds
    <3> DEFINE e == InsertAt(c, j + 1, d)
    <3>2. /\ e \in Seq(Nat) /\ Len(e) = n + 1
          /\ \A i \in 1 .. n + 1 : e[i] = IF i < j + 1 THEN c[i] ELSE IF i = j + 1 THEN d ELSE c[i - 1]
      <4>1. j + 1 \in 1 .. n + 1
        BY <1>8, <2>6
      <4>2. j + 1 \in 1 .. Len(c) + 1
        BY <3>1, <4>1
      <4>3. /\ InsertAt(c, j + 1, d) \in Seq(Nat) /\ Len(InsertAt(c, j + 1, d)) = Len(c) + 1
            /\ \A i \in 1 .. Len(c) + 1 :
                 InsertAt(c, j + 1, d)[i] = IF i < j + 1 THEN c[i] ELSE IF i = j + 1 THEN d ELSE c[i - 1]
        BY <1>1, <3>1, <4>2, InsertAtIs, ZenonT(60)
      <4> QED
        BY <3>1, <4>3
    <3> HIDE DEF e
    <3>3. m2.list.size = n + 1
      BY <1>2, <3>1
    <3>4. m2.list.last = r[n + 1]
      <4>1. n + 1 \in 1 .. n + 1 /\ ~(n + 1 <= j) /\ n + 1 # j + 1 /\ (n + 1) - 1 = n
        BY <1>8, <2>6
      <4>2. r[n + 1] = q[n]
        BY <2>1, <4>1
      <4> QED
        BY <1>2, <3>1, <4>2
    <3>5. ASSUME NEW i \in 1 .. n + 1 PROVE m2.node[r[i]].data = e[i]
      <4>1. i <= j <=> i < j + 1
        OBVIOUS
      <4>2. ~(i <= j) /\ i # j + 1 => i > j + 1
        OBVIOUS
      <4> QED
        BY <2>2, <2>4, <3>1, <3>2, <4>1, <4>2
    <3> QED
      BY <3>2, <3>3, <3>4, <3>5 DEF Holds, e
  <2> QED
    BY <2>5, <2>6 DEF r
<1>11. CASE p = NULL
  <2>1. 0 \in Nat /\ 0 <= n /\ ~(0 > 0) /\ 0 + 1 = 1 /\ (n > 0 <=> 0 < n)
    BY <1>8
  <2>2. /\ Reaches(m2, Placed(q, n, 0, top + 1), n + 1)
        /\ \A c : Holds(m, q, n, c) /\ 0 < n =>
                  Holds(m2, Placed(q, n, 0, top + 1), n + 1, InsertAt(c, 0 + 1, d))
    BY <1>10, <1>11, <2>1, Zenon
  <2>3. n > 1 => p # q[1]
    <3>1. n > 1 => 1 \in 1 .. n
      BY <1>8
    <3> QED
      BY <1>4, <1>8, <1>11, <3>1
  <2> QED
    BY <1>6, <2>1, <2>2, <2>3
<1>12. CASE p # NULL /\ \E j \in 1 .. n : p = q[j]
  <2>1. PICK j \in 1 .. n : p = q[j]
    BY <1>12
  <2>2. j \in Nat /\ j <= n /\ j # 0
    BY <1>8
  <2>3. /\ Reaches(m2, Placed(q, n, j, top + 1), n + 1)
        /\ \A c : Holds(m, q, n, c) /\ j < n =>
                  Holds(m2, Placed(q, n, j, top + 1), n + 1, InsertAt(c, j + 1, d))
    BY <1>10, <1>12, <2>1, <2>2, Zenon
  <2>4. n > 1 /\ p = q[1] => j = 1 /\ j < n /\ j + 1 = 2
    <3> SUFFICES ASSUME n > 1, p = q[1] PROVE j = 1 /\ j < n /\ j + 1 = 2
      OBVIOUS
    <3>1. 1 \in 1 .. n
      BY <1>8
    <3>2. j = 1
      BY <1>8, <2>1, <3>1 DEF Listing
    <3> QED
      BY <3>2
  <2> QED
    BY <1>6, <1>12, <2>3, <2>4
<1>13. CASE p # NULL /\ \A j \in 1 .. n : p # q[j]
  <2>1. \A i \in 1 .. n : q[i] \in 1 .. top /\ q[i] \notin F /\ g[q[i]] = f[q[i]]
    BY <1>7, <1>8, <1>13 DEF Listing
  <2>2. ASSUME NEW x \in 1 .. top + 1, NEW i \in 1 .. n, x \notin F, g[x] = q[i]
        PROVE  i > 1 /\ x = q[i - 1]
    <3>1. top + 1 \notin 1 .. top
      BY <1>3
    <3>2. CASE x \in 1 .. top
      <4>1. f[x] = q[i]
        BY <1>7, <2>1, <2>2, <3>1, <3>2
      <4> QED
        BY <1>8, <2>2, <3>2, <4>1 DEF Listing
    <3>3. CASE x = top + 1
      <4>1. f[p] = q[i]
        BY <1>7, <1>13, <2>2, <3>3
      <4>2. i > 1 /\ p = q[i - 1]
        BY <1>4, <1>8, <1>13, <4>1 DEF Listing
      <4>3. i - 1 \in 1 .. n
        BY <1>8, <4>2
      <4> QED
        BY <1>13, <4>2, <4>3
    <3> QED
      BY <1>5, <3>2, <3>3
  <2>3. Listing(q, n, top + 1, g, h, F)
    <3>1. top + 1 \in Nat /\ top + 1 >= top /\ F \subseteq F
      BY <1>3
    <3>2. \A i \in 1 .. n : q[i] \notin F /\ g[q[i]] = f[q[i]]
      BY <2>1
    <3>3. \A x \in 1 .. top + 1 : \A i \in 1 .. n :
            x \notin F /\ g[x] = q[i] => i > 1 /\ x = q[i - 1]
      BY <2>2
    <3> QED
      BY <1>3, <1>7, <1>8, <3>1, <3>2, <3>3, ListingAside, ZenonT(60)
  <2>4. \A i \in 1 .. n : m2.node[q[i]].data \notin m2.gone
    BY <1>2, <2>1 DEF Reaches
  <2>5. Reaches(m2, q, n)
    BY <1>2, <1>13, <2>3, <2>4 DEF Reaches, g
  <2>6. n > 1 => p # q[1]
    <3>1. n > 1 => 1 \in 1 .. n
      BY <1>8
    <3> QED
      BY <1>13, <3>1
  <2> QED
    BY <1>6, <1>13, <2>5, <2>6
<1> QED
  BY <1>11, <1>12, <1>13

(* klist_prepend links its node before the head.                           *)
LEMMA PrependedIs ==
  ASSUME NEW m, Sound(m), NEW d \in Nat
  PROVE  Linked(m, NULL, d, Prepended(m, d))
<1> DEFINE m2 == Prepended(m, d)
           top == Len(m.node)
           new == [data |-> d, next |-> m.list.head]
           nodes == Append(m.node, new)
           lst == [m.list EXCEPT !.head = Len(m.node) + 1, !.size = @ + 1]
<1>1. m \in Machine /\ m.list \in ListStruct /\ m.node \in Seq(Node)
  BY DEF Sound, Machine
<1>2. top \in Nat /\ \A x \in 1 .. top : m.node[x].data \in Nat /\ m.node[x].next \in Nat
  BY <1>1, MachineNodes
<1>3. m2 = [m EXCEPT !.node = nodes, !.list = lst]
  BY DEF Prepended
<1>4. new \in Node /\ new.data = d /\ new.next = m.list.head
  BY <1>1 DEF Node, ListStruct
<1> HIDE DEF m2, new
<1>5. /\ nodes \in Seq(Node) /\ Len(nodes) = top + 1 /\ nodes[top + 1] = new
      /\ \A x \in 1 .. top : nodes[x] = m.node[x]
  BY <1>1, <1>4, AppendProperties
<1> HIDE DEF nodes
<1>6. /\ lst \in ListStruct /\ lst.head = top + 1 /\ lst.size = m.list.size + 1
      /\ lst.last = m.list.last /\ lst.duplicate = m.list.duplicate
  <2>1. top + 1 \in Nat /\ m.list.size + 1 \in Nat
    BY <1>1, <1>2 DEF ListStruct
  <2>2. lst = [m.list EXCEPT !.head = top + 1, !.size = m.list.size + 1]
    BY <1>1, Zenon DEF ListStruct
  <2>3. [m.list EXCEPT !.head = top + 1, !.size = m.list.size + 1] \in ListStruct
    BY <1>1, <2>1, Zenon DEF ListStruct
  <2> HIDE DEF lst
  <2> QED
    BY <1>1, <2>2, <2>3, SMT DEF ListStruct
<1> HIDE DEF lst
<1>7. m2 \in Machine
  BY <1>1, <1>3, <1>5, <1>6, Zenon DEF Machine
<1>8. /\ m2.node = nodes /\ m2.freed = m.freed /\ m2.gone = m.gone /\ m2.tail = m.tail
      /\ m2.objects = m.objects /\ m2.status = m.status /\ m2.list = lst
  BY <1>1, <1>3, SMT DEF Machine
<1>9. \A x \in 1 .. top : x # NULL
  BY DEF NULL
<1> QED
  BY <1>4, <1>5, <1>6, <1>7, <1>8, <1>9 DEF Linked, m2

(* What klist_insert leaves when it links a node behind p.                 *)
InsertedTo(m, p, d) ==
  [m EXCEPT !.node = Append([m.node EXCEPT ![p].next = Len(m.node) + 1],
                            [data |-> d, next |-> m.node[p].next]),
            !.list.size = @ + 1]

(* klist_insert links its node behind p.                                   *)
LEMMA InsertedIs ==
  ASSUME NEW m, Sound(m), NEW d \in Nat, NEW p, Valid(m, p)
  PROVE  Linked(m, p, d, InsertedTo(m, p, d))
<1> DEFINE m2 == InsertedTo(m, p, d)
           top == Len(m.node)
           new == [data |-> d, next |-> m.node[p].next]
           base == [m.node EXCEPT ![p].next = Len(m.node) + 1]
           nodes == Append(base, new)
           lst == [m.list EXCEPT !.size = @ + 1]
<1>1. m \in Machine /\ m.list \in ListStruct /\ m.node \in Seq(Node)
  BY DEF Sound, Machine
<1>2. /\ top \in Nat /\ m.node \in [1 .. top -> Node] /\ DOMAIN m.node = 1 .. top
      /\ \A x \in 1 .. top : m.node[x].data \in Nat /\ m.node[x].next \in Nat
  BY <1>1, MachineNodes
<1>3. p \in 1 .. top /\ p # NULL
  BY <1>2 DEF Valid, NULL
<1>4. m2 = [m EXCEPT !.node = nodes, !.list = lst]
  <2>1. [m EXCEPT !.node = nodes].list = m.list
    <3> HIDE DEF nodes
    <3> QED
      BY <1>1, SMT DEF Machine
  <2> HIDE DEF nodes
  <2> QED
    BY <2>1, Zenon DEF InsertedTo, nodes
<1>5. new \in Node /\ new.data = d /\ new.next = m.node[p].next
  BY <1>2, <1>3 DEF Node
<1>6. /\ base \in [1 .. top -> Node]
      /\ \A x \in 1 .. top : base[x].data = m.node[x].data
      /\ \A x \in 1 .. top : base[x].next = IF x = p THEN top + 1 ELSE m.node[x].next
  BY <1>2, <1>3, SMTT(60) DEF Node
<1> HIDE DEF m2, new, base
<1>7. base \in Seq(Node) /\ Len(base) = top
  BY <1>2, <1>6
<1>8. /\ nodes \in Seq(Node) /\ Len(nodes) = top + 1 /\ nodes[top + 1] = new
      /\ \A x \in 1 .. top : nodes[x] = base[x]
  BY <1>5, <1>7, AppendProperties
<1> HIDE DEF nodes
<1>9. /\ lst \in ListStruct /\ lst.head = m.list.head /\ lst.size = m.list.size + 1
      /\ lst.last = m.list.last /\ lst.duplicate = m.list.duplicate
  BY <1>1 DEF ListStruct
<1> HIDE DEF lst
<1>10. m2 \in Machine
  BY <1>1, <1>4, <1>8, <1>9, Zenon DEF Machine
<1>11. /\ m2.node = nodes /\ m2.freed = m.freed /\ m2.gone = m.gone /\ m2.tail = m.tail
       /\ m2.objects = m.objects /\ m2.status = m.status /\ m2.list = lst
  BY <1>1, <1>4, SMT DEF Machine
<1>12. \A x \in 1 .. top :
         /\ m2.node[x].data = m.node[x].data
         /\ m2.node[x].next = IF x = p THEN top + 1 ELSE m.node[x].next
  BY <1>6, <1>8, <1>11
<1> QED
  BY <1>3, <1>5, <1>8, <1>9, <1>10, <1>11, <1>12 DEF Linked, m2

(* What is still sound when nodes are unlinked.                            *)
LEMMA SoundUnlinked ==
  ASSUME NEW m, Sound(m), NEW m2 \in Machine, Len(m2.node) = Len(m.node),
         \A x \in 1 .. Len(m.node) :
           /\ m2.node[x].data \in {m.node[x].data, NULL}
           /\ m2.node[x].next <= Len(m.node),
         m2.freed \subseteq 1 .. Len(m.node), m2.gone = m.gone, m2.objects = m.objects,
         Within(m2.list, Len(m.node)), m2.list.duplicate = FALSE, m2.tail = m.tail
  PROVE  Sound(m2)
<1>1. \A x \in 1 .. Len(m.node) : m2.node[x].data <= m2.objects
  <2>1. NULL <= m.objects
    BY DEF Sound, Machine, NULL
  <2> QED
    BY <2>1 DEF Sound
<1>2. \A x, y \in 1 .. Len(m.node) :
        m2.node[x].data = m2.node[y].data => x = y \/ m2.node[x].data = NULL
  BY DEF Sound
<1>3. Within(m2.tail, Len(m.node)) /\ (m2.tail.live => m2.tail.duplicate)
  BY DEF Sound
<1>4. m2.gone \subseteq 1 .. m2.objects
  BY DEF Sound
<1> QED
  BY <1>1, <1>2, <1>3, <1>4 DEF Sound

(* m2 is m with the list cut behind its j-th node q[j].                    *)
CutBehind(m, q, j, m2) ==
  LET top == Len(m.node)
  IN  /\ m2 \in Machine /\ Len(m2.node) = top
      /\ m.freed \subseteq m2.freed /\ m2.freed \subseteq 1 .. top
      /\ \A k \in 1 .. j : q[k] \notin m2.freed
      /\ \A x \in 1 .. top :
           /\ m2.node[x].data \in {m.node[x].data, NULL}
           /\ x \notin m2.freed => m2.node[x].data = m.node[x].data
           /\ m2.node[x].next <= top
           /\ x \notin m2.freed /\ (j = 0 \/ x # q[j]) => m2.node[x].next = m.node[x].next
      /\ j > 0 => m2.node[q[j]].next = NULL
      /\ m2.list.head = IF j = 0 THEN NULL ELSE m.list.head
      /\ Within(m2.list, top) /\ m2.list.duplicate = FALSE
      /\ m2.gone = m.gone /\ m2.objects = m.objects /\ m2.tail = m.tail

(* The first j elements stay a path, and the sequence they were.           *)
LEMMA CutKeeps ==
  ASSUME NEW m, Sound(m), NEW n, NEW q, Reaches(m, q, n), NEW j \in Nat, j <= n,
         NEW m2, CutBehind(m, q, j, m2)
  PROVE  /\ Sound(m2) /\ Reaches(m2, Cut(q, j), j)
         /\ \A k \in 1 .. j : Cut(q, j)[k] = q[k] /\ m2.node[q[k]].data = m.node[q[k]].data
         /\ \A c : /\ Holds(m, q, n, c) /\ m2.list.size = j
                   /\ j > 0 => m2.list.last = q[j]
                   => Holds(m2, Cut(q, j), j, SubSeq(c, 1, j))
<1> DEFINE top == Len(m.node)
           f == Succ(m)
           g == Succ(m2)
           h == m.list.head
           r == Cut(q, j)
<1>1. /\ m2 \in Machine /\ Len(m2.node) = top
      /\ m.freed \subseteq m2.freed /\ m2.freed \subseteq 1 .. top
      /\ \A k \in 1 .. j : q[k] \notin m2.freed
      /\ \A x \in 1 .. top :
           /\ m2.node[x].data \in {m.node[x].data, NULL}
           /\ x \notin m2.freed => m2.node[x].data = m.node[x].data
           /\ m2.node[x].next <= top
           /\ x \notin m2.freed /\ (j = 0 \/ x # q[j]) => m2.node[x].next = m.node[x].next
      /\ j > 0 => m2.node[q[j]].next = NULL
      /\ m2.list.head = IF j = 0 THEN NULL ELSE h
      /\ Within(m2.list, top) /\ m2.list.duplicate = FALSE
      /\ m2.gone = m.gone /\ m2.objects = m.objects /\ m2.tail = m.tail
  BY DEF CutBehind
<1>2. top \in Nat
  BY MachineNodes DEF Sound
<1>3. Sound(m2)
  BY <1>1, SoundUnlinked
<1>4. /\ f \in Links(top) /\ \A x \in 1 .. top : f[x] = m.node[x].next
      /\ g \in Links(top) /\ \A x \in 1 .. top : g[x] = m2.node[x].next
  BY <1>1, <1>3, SuccIs
<1> HIDE DEF f, g
<1>5. Listing(q, n, top, f, h, m.freed) /\ n \in Nat /\ q \in [1 .. n -> 1 .. top]
  BY DEF Reaches, Listing, f
<1>6. \A k \in 1 .. j : k \in 1 .. n /\ q[k] \in 1 .. top
  BY <1>5
<1>7. j > 0 => q[j] \in 1 .. top
  <2>1. j > 0 => j \in 1 .. j
    OBVIOUS
  <2> QED
    BY <1>6, <2>1
<1>8. Listing(r, j, top, g, m2.list.head, m2.freed)
  <2>1. m.freed \in SUBSET (1 .. top)
    BY DEF Sound
  <2>2. \A x \in 1 .. top : x \notin m2.freed /\ (j = 0 \/ x # q[j]) => g[x] = f[x]
    BY <1>1, <1>4
  <2>3. j > 0 => g[q[j]] = NULL
    BY <1>1, <1>4, <1>7
  <2>4. \A k \in 1 .. j : q[k] \notin m2.freed
    BY <1>1
  <2>5. m.freed \subseteq m2.freed
    BY <1>1
  <2>6. Listing(Cut(q, j), j, top, g, IF j = 0 THEN NULL ELSE h, m2.freed)
    BY <1>2, <1>4, <1>5, <2>1, <2>2, <2>3, <2>4, <2>5, ListingCut
  <2> QED
    BY <1>1, <2>6
<1>9. \A k \in 1 .. j : r[k] = q[k] /\ m2.node[q[k]].data = m.node[q[k]].data
  BY <1>1, <1>6 DEF Cut
<1> HIDE DEF r
<1>10. Reaches(m2, r, j)
  BY <1>1, <1>6, <1>8, <1>9 DEF Reaches, g
<1>11. ASSUME NEW c, Holds(m, q, n, c), m2.list.size = j, j > 0 => m2.list.last = q[j]
       PROVE  Holds(m2, r, j, SubSeq(c, 1, j))
  <2> DEFINE e == SubSeq(c, 1, j)
  <2>1. c \in Seq(Nat) /\ Len(c) = n /\ \A k \in 1 .. n : m.node[q[k]].data = c[k]
    BY <1>11 DEF Holds
  <2>2. e \in Seq(Nat) /\ Len(e) = j /\ \A k \in 1 .. j : e[k] = c[k]
    <3>1. c \in [1 .. n -> Nat]
      BY <2>1, LenProperties
    <3>2. 1 \in Int /\ j \in Int /\ \A k \in 1 .. j : c[k] \in Nat
      BY <1>6, <3>1
    <3>3. /\ e \in Seq(Nat) /\ Len(e) = (IF 1 <= j THEN j - 1 + 1 ELSE 0)
          /\ \A k \in 1 .. j - 1 + 1 : e[k] = c[1 + k - 1]
      BY <3>2, SubSeqProperties
    <3> HIDE DEF e
    <3>4. (IF 1 <= j THEN j - 1 + 1 ELSE 0) = j /\ j - 1 + 1 = j /\ \A k \in 1 .. j : 1 + k - 1 = k
      OBVIOUS
    <3> QED
      BY <3>3, <3>4
  <2> HIDE DEF e
  <2>3. j > 0 => m2.list.last = r[j]
    <3>1. j > 0 => j \in 1 .. j
      OBVIOUS
    <3> QED
      BY <1>9, <1>11, <3>1
  <2>4. \A k \in 1 .. j : m2.node[r[k]].data = e[k]
    BY <1>6, <1>9, <2>1, <2>2
  <2> QED
    BY <1>11, <2>2, <2>3, <2>4 DEF Holds, e
<1> QED
  BY <1>3, <1>9, <1>10, <1>11 DEF r

\* The index at which klist_pop finds the node before the last.
BeforeLast(m, q) == SelectInSeq(q, LAMBDA x : NextOf(m, x) = m.list.last)

(* It is 0 only when there is none.                                        *)
LEMMA BeforeLastIs ==
  ASSUME NEW m, NEW n \in Nat, NEW q, Len(q) = n
  PROVE  LET k == BeforeLast(m, q)
         IN  /\ k > 0 => k \in 1 .. n /\ NextOf(m, q[k]) = m.list.last
             /\ \A i \in 1 .. n : NextOf(m, q[i]) = m.list.last => k > 0
<1> DEFINE k == BeforeLast(m, q)
           I == {i \in 1 .. n : NextOf(m, q[i]) = m.list.last}
<1>1. k = IF I # {} THEN Min(I) ELSE 0
  BY DEF BeforeLast, SelectInSeq
<1>2. I \subseteq Nat
  OBVIOUS
<1>3. ASSUME I # {} PROVE Min(I) \in I
  <2>1. \E x \in I : \A y \in I : x <= y
    <3> HIDE DEF I
    <3> QED
      BY <1>2, <1>3, Least
  <2> HIDE DEF I
  <2> QED
    BY <2>1 DEF Min
<1> HIDE DEF k
<1>4. k > 0 => k \in I
  <2> HIDE DEF I
  <2> QED
    BY <1>1, <1>3
<1>5. I # {} => k \in I
  <2> HIDE DEF I
  <2> QED
    BY <1>1, <1>3
<1>6. \A i \in I : i > 0
  OBVIOUS
<1> QED
  BY <1>4, <1>5, <1>6 DEF k

(* What klist_pop leaves of a list with one node, and of a longer one when *)
(* p is the node before the last.                                          *)
Emptied(m) ==
  [m EXCEPT !.freed = @ \union {m.list.head},
            !.list = [m.list EXCEPT !.head = NULL, !.last = NULL]]
Shortened(m, p) ==
  [m EXCEPT !.node = [m.node EXCEPT ![m.list.last].data = NULL, ![p].next = NULL],
            !.freed = @ \union {m.list.last},
            !.list = [m.list EXCEPT !.last = p, !.size = @ - 1]]

(* The first frees the head and cuts the list before it.                   *)
LEMMA EmptiedIs ==
  ASSUME NEW m, Sound(m), Valid(m, m.list.head), NEW q
  PROVE  /\ CutBehind(m, q, 0, Emptied(m)) /\ Emptied(m).status = m.status
         /\ Emptied(m).list.size = m.list.size
<1> DEFINE m2 == Emptied(m)
           top == Len(m.node)
           freed == m.freed \union {m.list.head}
           lst == [m.list EXCEPT !.head = NULL, !.last = NULL]
<1>1. m \in Machine /\ m.list \in ListStruct /\ m.freed \subseteq 1 .. top
  BY DEF Sound, Machine
<1>2. top \in Nat /\ DOMAIN m.node = 1 .. top
  BY <1>1, MachineNodes
<1>3. freed \subseteq 1 .. top /\ freed \in SUBSET Nat /\ m.freed \subseteq freed
  <2>1. m.list.head \in 1 .. top
    BY <1>2 DEF Valid
  <2> QED
    BY <1>1, <2>1
<1>4. m2 = [m EXCEPT !.freed = freed, !.list = lst]
  BY DEF Emptied
<1> HIDE DEF m2, freed
<1>5. NULL \in Nat
  BY DEF NULL
<1>6. /\ lst \in ListStruct /\ lst.head = NULL /\ lst.last = NULL
      /\ lst.size = m.list.size /\ lst.duplicate = m.list.duplicate
  <2>1. lst \in ListStruct
    BY <1>1, <1>5, Zenon DEF ListStruct
  <2> QED
    BY <1>1, <2>1, SMT DEF ListStruct
<1> HIDE DEF lst
<1>7. m2 \in Machine
  BY <1>1, <1>3, <1>4, <1>6, Zenon DEF Machine
<1>8. /\ m2.node = m.node /\ m2.freed = freed /\ m2.gone = m.gone /\ m2.tail = m.tail
      /\ m2.objects = m.objects /\ m2.status = m.status /\ m2.list = lst
  BY <1>1, <1>4, SMT DEF Machine
<1>9. Within(m2.list, top) /\ m2.list.duplicate = FALSE
  <2>1. m.list.size <= top /\ m.list.duplicate = FALSE /\ NULL <= top
    BY <1>2 DEF Sound, Within, NULL
  <2> QED
    BY <1>6, <1>8, <2>1 DEF Within
<1>10. \A x \in 1 .. top : m.node[x].next <= top
  BY DEF Sound
<1>11. \A k \in 1 .. 0 : FALSE
  OBVIOUS
<1>12. ~(0 > 0)
  OBVIOUS
<1> QED
  BY <1>3, <1>6, <1>7, <1>8, <1>9, <1>10, <1>11, <1>12 DEF CutBehind, m2

(* The second frees the last node and cuts the list behind p.              *)
LEMMA ShortenedIs ==
  ASSUME NEW m, Sound(m), NEW n, NEW q, Reaches(m, q, n), NEW k \in 1 .. n - 1,
         m.list.last = q[k + 1], m.list.size > 0
  PROVE  /\ CutBehind(m, q, k, Shortened(m, q[k]))
         /\ Shortened(m, q[k]).status = m.status
         /\ Shortened(m, q[k]).list.size = m.list.size - 1
         /\ Shortened(m, q[k]).list.last = q[k]
<1> DEFINE p == q[k]
           l == m.list.last
           m2 == Shortened(m, p)
           top == Len(m.node)
           freed == m.freed \union {l}
           nodes == [m.node EXCEPT ![l].data = NULL, ![p].next = NULL]
           lst == [m.list EXCEPT !.last = p, !.size = @ - 1]
<1>1. m \in Machine /\ m.list \in ListStruct /\ m.freed \subseteq 1 .. top
  BY DEF Sound, Machine
<1>2. /\ top \in Nat /\ m.node \in [1 .. top -> Node]
      /\ \A x \in 1 .. top : m.node[x].data \in Nat /\ m.node[x].next \in Nat
  BY <1>1, MachineNodes
<1>3. /\ n \in Nat /\ q \in [1 .. n -> 1 .. top]
      /\ \A i \in 1 .. n : q[i] \notin m.freed
      /\ \A i, j \in 1 .. n : q[i] = q[j] => i = j
  BY DEF Reaches, Listing
<1>4. /\ k \in 1 .. n /\ k + 1 \in 1 .. n /\ k # k + 1 /\ k > 0 /\ k # 0
      /\ \A i \in 1 .. k : i \in 1 .. n /\ i # k + 1
  BY <1>3
<1>5. /\ p \in 1 .. top /\ l \in 1 .. top /\ p # l /\ p \notin m.freed
      /\ \A i \in 1 .. k : q[i] # l /\ q[i] \notin m.freed
  BY <1>3, <1>4
<1>6. freed \subseteq 1 .. top /\ freed \in SUBSET Nat /\ m.freed \subseteq freed
      /\ \A i \in 1 .. k : q[i] \notin freed
  BY <1>1, <1>5
<1> HIDE DEF p, l
<1>7. m2 = [m EXCEPT !.node = nodes, !.freed = freed, !.list = lst]
  <2>1. [m EXCEPT !.node = nodes].freed = m.freed
    <3> HIDE DEF nodes
    <3> QED
      BY <1>1, SMT DEF Machine
  <2> HIDE DEF nodes
  <2> QED
    BY <2>1, Zenon DEF Shortened, nodes, l
<1> HIDE DEF m2, freed
<1>8. /\ nodes \in [1 .. top -> Node]
      /\ \A x \in 1 .. top :
           /\ nodes[x].data = IF x = l THEN NULL ELSE m.node[x].data
           /\ nodes[x].next = IF x = p THEN NULL ELSE m.node[x].next
  BY <1>2, <1>5 DEF Node, NULL
<1> HIDE DEF nodes
<1>9. nodes \in Seq(Node) /\ Len(nodes) = top
  BY <1>2, <1>8
<1>10. /\ lst \in ListStruct /\ lst.head = m.list.head /\ lst.last = p
       /\ lst.size = m.list.size - 1 /\ lst.duplicate = m.list.duplicate
  <2>1. p \in Nat /\ m.list.size - 1 \in Nat
    BY <1>1, <1>2, <1>5 DEF ListStruct
  <2>2. lst = [m.list EXCEPT !.last = p, !.size = m.list.size - 1]
    BY <1>1, Zenon DEF ListStruct
  <2>3. [m.list EXCEPT !.last = p, !.size = m.list.size - 1] \in ListStruct
    BY <1>1, <2>1, Zenon DEF ListStruct
  <2> HIDE DEF lst
  <2> QED
    BY <1>1, <2>2, <2>3, SMT DEF ListStruct
<1> HIDE DEF lst
<1>11. m2 \in Machine
  BY <1>1, <1>6, <1>7, <1>9, <1>10, Zenon DEF Machine
<1>12. /\ m2.node = nodes /\ m2.freed = freed /\ m2.gone = m.gone /\ m2.tail = m.tail
       /\ m2.objects = m.objects /\ m2.status = m.status /\ m2.list = lst
  BY <1>1, <1>7, SMT DEF Machine
<1>13. Within(m2.list, top) /\ m2.list.duplicate = FALSE
  <2>1. /\ m.list.head <= top /\ m.list.size <= top /\ m.list.duplicate = FALSE
        /\ m.list.size \in Nat
    BY <1>1 DEF Sound, Within, ListStruct
  <2>2. m.list.size - 1 <= top /\ p <= top
    BY <1>2, <1>5, <2>1
  <2> QED
    BY <1>10, <1>12, <2>1, <2>2 DEF Within
<1>14. ASSUME NEW x \in 1 .. top
       PROVE  /\ m2.node[x].data \in {m.node[x].data, NULL}
              /\ x \notin m2.freed => m2.node[x].data = m.node[x].data
              /\ m2.node[x].next <= top
              /\ x \notin m2.freed /\ x # p => m2.node[x].next = m.node[x].next
  <2>1. m.node[x].next <= top /\ NULL <= top
    BY <1>2 DEF Sound, NULL
  <2>2. x = l => x \in freed
    BY DEF freed
  <2> QED
    BY <1>8, <1>12, <2>1, <2>2
<1>15. m2.node[p].next = NULL
  BY <1>5, <1>8, <1>12
<1>16. CutBehind(m, q, k, m2)
  BY <1>4, <1>6, <1>9, <1>10, <1>11, <1>12, <1>13, <1>14, <1>15 DEF CutBehind, p
<1> QED
  BY <1>10, <1>12, <1>16 DEF m2, p

(* Along the path NextOf is the next node.                                 *)
LEMMA PathNext ==
  ASSUME NEW m, Sound(m), NEW n, NEW q, Reaches(m, q, n), NEW i \in 1 .. n
  PROVE  Valid(m, q[i]) /\ NextOf(m, q[i]) = IF i < n THEN q[i + 1] ELSE NULL
<1>1. Valid(m, q[i])
  BY ChainIs
<1>2. Len(m.node) \in Nat /\ DOMAIN m.node = 1 .. Len(m.node)
  BY MachineNodes DEF Sound
<1>3. NextOf(m, q[i]) = Succ(m)[q[i]]
  BY <1>1, <1>2, SuccIs DEF NextOf, Valid
<1>4. Listing(q, n, Len(m.node), Succ(m), m.list.head, m.freed)
  BY DEF Reaches
<1> QED
  BY <1>1, <1>2, <1>3, <1>4, SuccIs, ListingNext

\* A call stopped by a check, or by a pointer that is not valid.
Stopped(m, status) == [m EXCEPT !.status = status]

(* klist_pop stops, or takes the last element off a path; with at least    *)
(* two elements nothing but an assertion stops it.                         *)
LEMMA PoppedKeeps ==
  ASSUME NEW m, Sound(m), NEW n, NEW q, Reaches(m, q, n), m.list.size > 0
  PROVE  \/ Popped(m) = Stopped(m, "abort") /\ debug
         \/ /\ Popped(m) = Stopped(m, "undefined")
            /\ \A c : Holds(m, q, n, c) => n <= 1
         \/ /\ ~(debug /\ m.list.dynamic)
            /\ Sound(Popped(m)) /\ Popped(m).status = m.status
            /\ Len(Popped(m).node) = Len(m.node) /\ Popped(m).objects = m.objects
            /\ \E n2, q2 :
                 /\ Reaches(Popped(m), q2, n2)
                 /\ \A i \in 1 .. n2 : LET d == Popped(m).node[q2[i]].data
                                       IN  d # LastData(m) \/ d = NULL
                 /\ \A c : Holds(m, q, n, c) /\ n > 1
                             => Holds(Popped(m), q2, n2, SubSeq(c, 1, n - 1))
<1> DEFINE l == m.list.last
           h == m.list.head
           k == BeforeLast(m, q)
<1>1. Chain(m, m.list.head) = q /\ Len(q) = n /\ n \in Nat
  <2>1. n \in Nat
    BY DEF Reaches, Listing
  <2>2. Chain(m, m.list.head) = q /\ Len(q) = n
    BY ChainIs
  <2> QED
    BY <2>1, <2>2
<1>2. /\ k > 0 => k \in 1 .. n /\ NextOf(m, q[k]) = l
      /\ \A i \in 1 .. n : NextOf(m, q[i]) = l => k > 0
  BY <1>1, BeforeLastIs
<1>3. Popped(m) = IF m.list.size = 1 \/ h = l
                  THEN Outcome(m, TRUE, FreeAsserts(m.list), Valid(m, h), Emptied(m))
                  ELSE Outcome(m, TRUE, FreeAsserts(m.list), Valid(m, l) /\ k > 0, Shortened(m, q[k]))
  <2> DEFINE i == SelectInSeq(Chain(m, m.list.head), LAMBDA x : NextOf(m, x) = m.list.last)
  <2>1. Popped(m) = IF m.list.size = 1 \/ h = l
                    THEN Outcome(m, TRUE, FreeAsserts(m.list), Valid(m, h), Emptied(m))
                    ELSE Outcome(m, TRUE, FreeAsserts(m.list), Valid(m, l) /\ i > 0,
                                 Shortened(m, Chain(m, m.list.head)[i]))
    BY DEF Popped, Emptied, Shortened
  <2>2. i = k
    BY <1>1 DEF SelectInSeq, BeforeLast
  <2> HIDE DEF i, k
  <2> QED
    BY <1>1, <2>1, <2>2
<1> HIDE DEF k
<1>4. ASSUME NEW c, Holds(m, q, n, c), n > 1 PROVE m.list.size # 1 /\ h # l /\ Valid(m, l) /\ k > 0
  <2>1. m.list.size = n /\ l = q[n] /\ n \in 1 .. n /\ 1 \in 1 .. n /\ n # 1
    BY <1>1, <1>4 DEF Holds
  <2>2. h = q[1] /\ q[1] # q[n]
    BY <1>4, <2>1 DEF Reaches, Listing
  <2>3. Valid(m, q[n])
    BY <2>1, PathNext
  <2>4. n - 1 \in 1 .. n /\ n - 1 < n /\ (n - 1) + 1 = n
    BY <1>1, <1>4
  <2>5. NextOf(m, q[n - 1]) = q[n]
    BY <2>4, PathNext
  <2> QED
    BY <1>2, <2>1, <2>2, <2>3, <2>4, <2>5
<1>5. ASSUME ~(n <= 1) PROVE n > 1
  BY <1>1, <1>5
<1>6. CASE m.list.size = 1 \/ h = l
  <2>1. ASSUME NEW c, Holds(m, q, n, c) PROVE n <= 1
    BY <1>4, <1>5, <1>6, <2>1
  <2>2. CASE debug /\ m.list.dynamic
    BY <1>3, <1>6, <2>2 DEF Outcome, FreeAsserts, Stopped
  <2>3. CASE ~(debug /\ m.list.dynamic) /\ ~Valid(m, h)
    <3>1. Popped(m) = Stopped(m, "undefined")
      BY <1>3, <1>6, <2>3 DEF Outcome, FreeAsserts, Stopped
    <3> QED
      BY <2>1, <3>1
  <2>4. CASE ~(debug /\ m.list.dynamic) /\ Valid(m, h)
    <3>1. Popped(m) = Emptied(m)
      BY <1>3, <1>6, <2>4 DEF Outcome, FreeAsserts
    <3>2. CutBehind(m, q, 0, Emptied(m)) /\ Emptied(m).status = m.status
      BY <2>4, EmptiedIs
    <3>3. 0 \in Nat /\ 0 <= n
      BY <1>1
    <3>4. Sound(Emptied(m)) /\ Reaches(Emptied(m), Cut(q, 0), 0)
      BY <3>2, <3>3, CutKeeps
    <3>5. Len(Emptied(m).node) = Len(m.node) /\ Emptied(m).objects = m.objects
      BY <3>2 DEF CutBehind
    <3>6. \A i \in 1 .. 0 : FALSE
      OBVIOUS
    <3>7. \A c : ~(Holds(m, q, n, c) /\ n > 1)
      BY <1>4, <1>6
    <3> QED
      BY <2>4, <3>1, <3>2, <3>4, <3>5, <3>6, <3>7
  <2> QED
    BY <2>2, <2>3, <2>4
<1>7. CASE ~(m.list.size = 1 \/ h = l)
  <2>1. CASE debug /\ m.list.dynamic
    BY <1>3, <1>7, <2>1 DEF Outcome, FreeAsserts, Stopped
  <2>2. CASE ~(debug /\ m.list.dynamic) /\ ~(Valid(m, l) /\ k > 0)
    <3>1. Popped(m) = Stopped(m, "undefined")
      BY <1>3, <1>7, <2>2 DEF Outcome, FreeAsserts, Stopped
    <3>2. ASSUME NEW c, Holds(m, q, n, c) PROVE n <= 1
      BY <1>4, <1>5, <2>2, <3>2
    <3> QED
      BY <3>1, <3>2
  <2>3. CASE ~(debug /\ m.list.dynamic) /\ Valid(m, l) /\ k > 0
    <3> DEFINE m2 == Shortened(m, q[k])
    <3>1. Popped(m) = m2
      BY <1>3, <1>7, <2>3 DEF Outcome, FreeAsserts
    <3>2. k \in 1 .. n - 1 /\ l = q[k + 1] /\ k \in Nat /\ k <= n
      <4>1. k \in 1 .. n /\ NextOf(m, q[k]) = l
        BY <1>2, <2>3
      <4>2. ~Valid(m, NULL)
        <5>1. DOMAIN m.node = 1 .. Len(m.node)
          BY MachineNodes DEF Sound
        <5> QED
          BY <5>1 DEF Valid, NULL
      <4>3. k < n /\ l = q[k + 1]
        BY <2>3, <4>1, <4>2, PathNext
      <4> QED
        BY <1>1, <4>1, <4>3
    <3>3. /\ CutBehind(m, q, k, m2) /\ m2.status = m.status
          /\ m2.list.size = m.list.size - 1 /\ m2.list.last = q[k]
      BY <3>2, ShortenedIs
    <3>4. Len(m2.node) = Len(m.node) /\ m2.objects = m.objects
      BY <3>3 DEF CutBehind
    <3>5. /\ Sound(m2) /\ Reaches(m2, Cut(q, k), k)
          /\ \A i \in 1 .. k : Cut(q, k)[i] = q[i] /\ m2.node[q[i]].data = m.node[q[i]].data
          /\ \A c : /\ Holds(m, q, n, c) /\ m2.list.size = k
                    /\ k > 0 => m2.list.last = q[k]
                    => Holds(m2, Cut(q, k), k, SubSeq(c, 1, k))
      <4> HIDE DEF m2
      <4> QED
        BY <3>2, <3>3, CutKeeps
    <3>6. ASSUME NEW i \in 1 .. k
          PROVE  LET d == m2.node[Cut(q, k)[i]].data IN d # LastData(m) \/ d = NULL
      <4>1. i \in 1 .. n /\ k + 1 \in 1 .. n /\ i # k + 1
        BY <1>1, <3>2
      <4>2. q[i] # q[k + 1]
        BY <4>1 DEF Reaches, Listing
      <4>3. q[i] \in 1 .. Len(m.node) /\ l \in 1 .. Len(m.node)
        BY <3>2, <4>1 DEF Reaches, Listing
      <4>4. m.node[q[i]].data # m.node[l].data \/ m.node[q[i]].data = NULL
        BY <3>2, <4>2, <4>3 DEF Sound
      <4>5. LastData(m) = m.node[l].data
        BY <2>3 DEF LastData
      <4> HIDE DEF m2
      <4> QED
        BY <3>5, <4>4, <4>5
    <3>7. ASSUME NEW c, Holds(m, q, n, c), n > 1
          PROVE  Holds(m2, Cut(q, k), k, SubSeq(c, 1, n - 1))
      <4>1. l = q[n] /\ m.list.size = n /\ n \in 1 .. n /\ k + 1 \in 1 .. n
        BY <1>1, <3>2, <3>7 DEF Holds
      <4>2. k + 1 = n
        BY <3>2, <4>1, ZenonT(60) DEF Reaches, Listing
      <4>3. k = n - 1
        BY <1>1, <3>2, <4>2
      <4> HIDE DEF m2
      <4> QED
        BY <3>3, <3>5, <3>7, <4>1, <4>3
    <3> HIDE DEF m2
    <3> QED
      BY <2>3, <3>1, <3>3, <3>4, <3>5, <3>6, <3>7
  <2> QED
    BY <2>1, <2>2, <2>3
<1> QED
  BY <1>6, <1>7

(* What removal leaves when x, the successor of p, goes.                   *)
RemovedTo(m, p, x) ==
  [m EXCEPT !.node = [m.node EXCEPT ![p].next = m.node[x].next, ![x] = [data |-> NULL, next |-> NULL]],
            !.freed = @ \union {x},
            !.list.size = @ - 1]

(* Removal keeps the list a path, whichever node it takes.                 *)
LEMMA RemovedKeeps ==
  ASSUME NEW m, Sound(m), NEW n, NEW q, Reaches(m, q, n), m.list.size > 0,
         NEW p, Valid(m, p), NEW x, x = NextOf(m, p), Valid(m, x)
  PROVE  LET m2 == RemovedTo(m, p, x)
         IN  /\ Sound(m2) /\ m2.status = m.status
             /\ Len(m2.node) = Len(m.node) /\ m2.objects = m.objects
             /\ \E n2, q2 :
                  /\ Reaches(m2, q2, n2)
                  /\ \A i \in 1 .. n2 : LET d == m2.node[q2[i]].data
                                        IN  d # m.node[x].data \/ d = NULL
<1> DEFINE top == Len(m.node)
           m2 == RemovedTo(m, p, x)
           freed == m.freed \union {x}
           nodes == [m.node EXCEPT ![p].next = m.node[x].next, ![x] = [data |-> NULL, next |-> NULL]]
           lst == [m.list EXCEPT !.size = @ - 1]
           f == Succ(m)
           g == Succ(m2)
           h == m.list.head
           F == m.freed
<1>1. m \in Machine /\ m.list \in ListStruct /\ F \subseteq 1 .. top
  BY DEF Sound, Machine
<1>2. /\ top \in Nat /\ m.node \in [1 .. top -> Node] /\ DOMAIN m.node = 1 .. top
      /\ \A y \in 1 .. top : m.node[y].data \in Nat /\ m.node[y].next \in Nat
  BY <1>1, MachineNodes
<1>3. /\ p \in 1 .. top /\ x \in 1 .. top /\ x = m.node[p].next /\ p \notin F /\ x \notin F
  BY <1>2 DEF Valid, NextOf
<1>4. freed \subseteq 1 .. top /\ freed \in SUBSET Nat
  BY <1>1, <1>3
<1>5. m2 = [m EXCEPT !.node = nodes, !.freed = freed, !.list = lst]
  <2>1. [m EXCEPT !.node = nodes].freed = m.freed
    <3> HIDE DEF nodes
    <3> QED
      BY <1>1, SMT DEF Machine
  <2>2. [m EXCEPT !.node = nodes, !.freed = freed].list = m.list
    <3> HIDE DEF nodes, freed
    <3> QED
      BY <1>1, SMT DEF Machine
  <2> HIDE DEF nodes
  <2> QED
    BY <2>1, <2>2, Zenon DEF RemovedTo, nodes
<1> HIDE DEF m2
<1>6. /\ nodes \in [1 .. top -> Node]
      /\ \A y \in 1 .. top :
           /\ nodes[y].data = IF y = x THEN NULL ELSE m.node[y].data
           /\ nodes[y].next = IF y = x THEN NULL ELSE IF y = p THEN m.node[x].next ELSE m.node[y].next
  BY <1>2, <1>3 DEF Node, NULL
<1> HIDE DEF nodes
<1>7. nodes \in Seq(Node) /\ Len(nodes) = top
  BY <1>2, <1>6
<1>8. /\ lst \in ListStruct /\ lst.head = h /\ lst.last = m.list.last
      /\ lst.size = m.list.size - 1 /\ lst.duplicate = m.list.duplicate
  BY <1>1 DEF ListStruct
<1> HIDE DEF lst
<1>9. m2 \in Machine
  <2> HIDE DEF freed
  <2> QED
    BY <1>1, <1>4, <1>5, <1>7, <1>8, Zenon DEF Machine
<1>10. /\ m2.node = nodes /\ m2.freed = freed /\ m2.gone = m.gone /\ m2.tail = m.tail
       /\ m2.objects = m.objects /\ m2.status = m.status /\ m2.list = lst
  <2> HIDE DEF freed
  <2> QED
    BY <1>1, <1>5, SMT DEF Machine
<1>11. Sound(m2)
  <2>1. Within(m2.list, top) /\ m2.list.duplicate = FALSE
    <3>1. /\ h <= top /\ m.list.last <= top /\ m.list.size <= top /\ m.list.duplicate = FALSE
          /\ m.list.size \in Nat
      BY <1>1 DEF Sound, Within, ListStruct
    <3>2. m.list.size - 1 <= top
      BY <1>2, <3>1
    <3> QED
      BY <1>8, <1>10, <3>1, <3>2 DEF Within
  <2>2. ASSUME NEW y \in 1 .. top
        PROVE  m2.node[y].data \in {m.node[y].data, NULL} /\ m2.node[y].next <= top
    <3>1. m.node[y].next <= top /\ m.node[x].next <= top /\ NULL <= top
      BY <1>2, <1>3 DEF Sound, NULL
    <3> QED
      BY <1>6, <1>10, <3>1
  <2> QED
    BY <1>4, <1>7, <1>9, <1>10, <2>1, <2>2, SoundUnlinked
<1>12. /\ f \in Links(top) /\ \A y \in 1 .. top : f[y] = m.node[y].next
       /\ g \in Links(top) /\ \A y \in 1 .. top : g[y] = m2.node[y].next
  BY <1>7, <1>10, <1>11, SuccIs
<1> HIDE DEF f, g
<1>13. /\ x = f[p]
       /\ \A y \in 1 .. top : y # x => g[y] = IF y = p THEN f[x] ELSE f[y]
  BY <1>3, <1>6, <1>10, <1>12
<1>14. Listing(q, n, top, f, h, F) /\ n \in Nat /\ q \in [1 .. n -> 1 .. top]
  BY DEF Reaches, Listing, f
<1>15. Len(m2.node) = top /\ m2.list.head = h
  BY <1>7, <1>8, <1>10
\* A path none of whose nodes is x has the data that it had.
<1>16. ASSUME NEW r, NEW k \in Nat, Listing(r, k, top, g, h, freed),
              \A i \in 1 .. k : \E j \in 1 .. n : r[i] = q[j]
       PROVE  /\ Reaches(m2, r, k)
              /\ \A i \in 1 .. k : LET d == m2.node[r[i]].data IN d # m.node[x].data \/ d = NULL
  <2>1. ASSUME NEW i \in 1 .. k
        PROVE  /\ m2.node[r[i]].data \notin m2.gone
               /\ m2.node[r[i]].data # m.node[x].data \/ m2.node[r[i]].data = NULL
    <3>1. r[i] \in 1 .. top /\ r[i] # x
      BY <1>16 DEF Listing
    <3>2. PICK j \in 1 .. n : r[i] = q[j]
      BY <1>16
    <3>3. m2.node[r[i]].data = m.node[r[i]].data
      BY <1>6, <1>10, <3>1
    <3>4. m.node[r[i]].data \notin m.gone
      BY <3>2 DEF Reaches
    <3>5. m.node[r[i]].data # m.node[x].data \/ m.node[r[i]].data = NULL
      BY <1>3, <3>1 DEF Sound
    <3> QED
      BY <1>10, <3>3, <3>4, <3>5
  <2>2. Listing(r, k, Len(m2.node), Succ(m2), m2.list.head, m2.freed)
    BY <1>10, <1>15, <1>16 DEF g
  <2> QED
    BY <2>1, <2>2 DEF Reaches
<1>17. CASE \E j \in 1 .. n : p = q[j]
  <2>1. PICK j \in 1 .. n : p = q[j]
    BY <1>17
  <2>2. j < n /\ x = q[j + 1]
    <3>1. x # NULL
      BY <1>3 DEF NULL
    <3> QED
      BY <1>2, <1>12, <1>13, <1>14, <2>1, <3>1, ListingNext
  <2> DEFINE d == j + 1
  <2>3. d \in 2 .. n /\ d - 1 = j /\ d \in 1 .. n
    BY <1>14, <2>2
  <2>4. q[d] = x /\ q[d - 1] = p
    BY <2>1, <2>2, <2>3
  <2> HIDE DEF d
  <2>5. p # x
    <3>1. d - 1 \in 1 .. n /\ d - 1 # d
      BY <2>3
    <3> QED
      BY <2>3, <2>4, <3>1 DEF Reaches, Listing
  <2>6. Listing(Without(q, n, d), n - 1, top, g, h, F \union {q[d]})
    <3>1. F \in SUBSET (1 .. top)
      BY <1>1
    <3>2. \A y \in 1 .. top : y # q[d] /\ y # q[d - 1] => g[y] = f[y]
      BY <1>13, <2>4
    <3>3. g[q[d - 1]] = f[q[d]]
      BY <1>3, <1>13, <2>4, <2>5
    <3> QED
      BY <1>2, <1>12, <1>14, <2>3, <3>1, <3>2, <3>3, ListingRemove
  <2>7. \A i \in 1 .. n - 1 : \E k \in 1 .. n : Without(q, n, d)[i] = q[k]
    <3>1. \A i \in 1 .. n - 1 : i \in 1 .. n /\ i + 1 \in 1 .. n
      BY <1>14
    <3> QED
      BY <3>1 DEF Without
  <2>8. n - 1 \in Nat
    BY <1>14, <2>3
  <2>9. Listing(Without(q, n, d), n - 1, top, g, h, freed)
    BY <2>4, <2>6
  <2>10. /\ Reaches(m2, Without(q, n, d), n - 1)
         /\ \A i \in 1 .. n - 1 : LET e == m2.node[Without(q, n, d)[i]].data
                                  IN  e # m.node[x].data \/ e = NULL
    BY <1>16, <2>7, <2>8, <2>9
  <2> QED
    BY <1>10, <1>11, <1>15, <2>10 DEF m2
<1>18. CASE \A j \in 1 .. n : p # q[j]
  <2>1. ASSUME NEW i \in 1 .. n PROVE q[i] # x
    <3>1. ASSUME q[i] = x PROVE FALSE
      <4>1. i > 1 /\ p = q[i - 1]
        BY <1>3, <1>13, <1>14, <3>1 DEF Listing
      <4>2. i - 1 \in 1 .. n
        BY <1>14, <4>1
      <4> QED
        BY <1>18, <4>1, <4>2
    <3> QED
      BY <3>1
  <2>2. \A i \in 1 .. n : q[i] \notin freed /\ g[q[i]] = f[q[i]]
    <3>1. \A i \in 1 .. n : q[i] \in 1 .. top /\ q[i] \notin F
      BY <1>14 DEF Listing
    <3> QED
      BY <1>13, <1>18, <2>1, <3>1
  <2>3. ASSUME NEW y \in 1 .. top, NEW i \in 1 .. n, y \notin freed, g[y] = q[i]
        PROVE  i > 1 /\ y = q[i - 1]
    <3>1. y # x /\ y \notin F
      BY <2>3
    <3>2. CASE y = p
      <4>1. f[x] = q[i]
        BY <1>13, <2>3, <3>1, <3>2
      <4>2. i > 1 /\ x = q[i - 1]
        BY <1>3, <1>14, <4>1 DEF Listing
      <4>3. i - 1 \in 1 .. n
        BY <1>14, <4>2
      <4> QED
        BY <2>1, <4>2, <4>3
    <3>3. CASE y # p
      <4>1. f[y] = q[i]
        BY <1>13, <2>3, <3>1, <3>3
      <4> QED
        BY <1>14, <3>1, <4>1 DEF Listing
    <3> QED
      BY <3>2, <3>3
  <2>4. Listing(q, n, top, g, h, freed)
    <3>1. top >= top /\ F \subseteq freed
      BY <1>2
    <3>2. \A y \in 1 .. top : \A i \in 1 .. n :
            y \notin freed /\ g[y] = q[i] => i > 1 /\ y = q[i - 1]
      BY <2>3
    <3> HIDE DEF freed
    <3> QED
      BY <1>2, <1>12, <1>14, <2>2, <3>1, <3>2, ListingAside, ZenonT(60)
  <2>5. /\ Reaches(m2, q, n)
        /\ \A i \in 1 .. n : LET e == m2.node[q[i]].data IN e # m.node[x].data \/ e = NULL
    BY <1>14, <1>16, <2>4
  <2> QED
    BY <1>10, <1>11, <1>15, <2>5 DEF m2
<1> QED
  BY <1>17, <1>18

-----------------------------------------------------------------------------
(* The functions, each as the invariant sees it.                           *)

\* The list is a path; it is the sequence c.
Good(m) == Sound(m) /\ \E n, q : Reaches(m, q, n)
Is(m, c) == Sound(m) /\ \E n, q : Reaches(m, q, n) /\ Holds(m, q, n, c)

(* A list has one path only.                                               *)
LEMMA OnePath ==
  ASSUME NEW m, NEW c, Is(m, c), NEW n, NEW q, Reaches(m, q, n)
  PROVE  Holds(m, q, n, c)
<1>1. PICK n2, q2 : Reaches(m, q2, n2) /\ Holds(m, q2, n2, c)
  BY DEF Is
<1>2. Sound(m)
  BY DEF Is
<1>3. Chain(m, m.list.head) = q /\ Len(q) = n
  BY <1>2, ChainIs
<1>4. Chain(m, m.list.head) = q2 /\ Len(q2) = n2
  BY <1>1, <1>2, ChainIs
<1> QED
  BY <1>1, <1>3, <1>4

(* What leaves nodes and list alone keeps the path.                        *)
LEMMA AsideKeeps ==
  ASSUME NEW m, Good(m), NEW m2 \in Machine,
         m2.node = m.node, m2.freed = m.freed, m2.gone = m.gone, m2.list = m.list,
         m.objects <= m2.objects,
         Within(m2.tail, Len(m.node)), m2.tail.live => m2.tail.duplicate
  PROVE  Good(m2) /\ \A c : Is(m, c) => Is(m2, c)
<1>1. Sound(m) /\ m \in Machine
  BY DEF Good, Sound
<1>2. m.objects \in Nat /\ m2.objects \in Nat
  BY <1>1 DEF Machine
<1>3. \A x \in 1 .. Len(m.node) : m.node[x].data <= m2.objects
  <2> SUFFICES ASSUME NEW x \in 1 .. Len(m.node) PROVE m.node[x].data <= m2.objects
    OBVIOUS
  <2>1. m.node[x].data \in Nat
    BY <1>1, MachineNodes
  <2>2. m.node[x].data <= m.objects
    BY <1>1 DEF Sound
  <2> QED
    BY <1>2, <2>1, <2>2
<1>4. m.gone \subseteq 1 .. m2.objects
  <2>1. m.gone \subseteq 1 .. m.objects
    BY <1>1 DEF Sound
  <2>2. \A x \in 1 .. m.objects : x \in 1 .. m2.objects
    BY <1>2
  <2> QED
    BY <2>1, <2>2
<1>5. Sound(m2)
  BY <1>1, <1>3, <1>4 DEF Sound
<1>6. ASSUME NEW n, NEW q, Reaches(m, q, n)
      PROVE  Reaches(m2, q, n) /\ \A c : Holds(m, q, n, c) => Holds(m2, q, n, c)
  BY <1>6 DEF Reaches, Holds, Succ
<1> QED
  BY <1>5, <1>6, Zenon DEF Good, Is

(* A machine that stops, and one with a new object, is one of those.       *)
LEMMA StoppedKeeps ==
  ASSUME NEW m, Good(m), NEW status \in {"abort", "undefined"}
  PROVE  LET m2 == Stopped(m, status)
         IN  /\ Good(m2) /\ m2.status = status /\ m2.node = m.node /\ m2.objects = m.objects
             /\ m2.freed = m.freed /\ m2.gone = m.gone
<1> DEFINE m2 == Stopped(m, status)
<1>1. m \in Machine
  BY DEF Good, Sound
<1>2. m2 \in Machine
  BY <1>1, Zenon DEF Machine, Stopped
<1>3. /\ m2.node = m.node /\ m2.freed = m.freed /\ m2.gone = m.gone /\ m2.tail = m.tail
      /\ m2.objects = m.objects /\ m2.status = status /\ m2.list = m.list
  BY <1>1, SMT DEF Machine, Stopped
<1> HIDE DEF m2
<1>4. m.objects <= m2.objects
  BY <1>1, <1>3 DEF Machine
<1>5. Within(m2.tail, Len(m.node)) /\ (m2.tail.live => m2.tail.duplicate)
  BY <1>3 DEF Good, Sound
<1>6. Good(m2)
  BY <1>2, <1>3, <1>4, <1>5, AsideKeeps
<1> QED
  BY <1>3, <1>6 DEF m2

(* A machine with a new object has the same path, and no node points to    *)
(* the object.                                                             *)
LEMMA ObjectKeeps ==
  ASSUME Good(s)
  PROVE  LET m == WithObject
         IN  /\ Good(m) /\ Unused(m, Object) /\ \A c : Is(s, c) => Is(m, c)
             /\ m.node = s.node /\ m.freed = s.freed /\ m.gone = s.gone /\ m.tail = s.tail
             /\ m.objects = Object /\ m.status = s.status /\ m.list = s.list
<1> DEFINE m == WithObject
<1>1. s \in Machine /\ s.objects \in Nat /\ Object \in Nat /\ s.objects <= Object
  BY DEF Good, Sound, Machine, Object
<1>2. m \in Machine
  BY <1>1, Zenon DEF Machine, WithObject
<1>3. /\ m.node = s.node /\ m.freed = s.freed /\ m.gone = s.gone /\ m.tail = s.tail
      /\ m.objects = Object /\ m.status = s.status /\ m.list = s.list
  BY <1>1, SMT DEF Machine, WithObject
<1> HIDE DEF m
<1>4. Within(m.tail, Len(s.node)) /\ (m.tail.live => m.tail.duplicate)
  BY <1>3 DEF Good, Sound
<1>5. Good(m) /\ \A c : Is(s, c) => Is(m, c)
  BY <1>1, <1>2, <1>3, <1>4, AsideKeeps
<1>6. Unused(m, Object)
  <2>1. Object \in 1 .. Object /\ \A d \in 1 .. s.objects : d < Object
    BY <1>1 DEF Object
  <2>2. Object \notin s.gone
    <3>1. s.gone \subseteq 1 .. s.objects
      BY DEF Good, Sound
    <3> QED
      BY <1>1, <2>1, <3>1
  <2>3. ASSUME NEW x \in 1 .. Len(s.node) PROVE s.node[x].data # Object
    <3>1. s.node[x].data <= s.objects
      BY DEF Good, Sound
    <3>2. s.node[x].data \in Nat
      BY <1>1, MachineNodes
    <3> QED
      BY <1>1, <3>1, <3>2 DEF Object
  <2> QED
    BY <1>3, <2>1, <2>2, <2>3 DEF Unused
<1> QED
  BY <1>3, <1>5, <1>6 DEF m

(* What a deep function frees besides nodes is a set of objects.           *)
LEMMA DropSound ==
  ASSUME NEW m, Sound(m), NEW deep \in BOOLEAN, NEW data, data \ {NULL} \subseteq 1 .. m.objects
  PROVE  LET m2 == Drop(m, deep, data)
         IN  /\ Sound(m2) /\ m2.status = m.status /\ m2.node = m.node
             /\ m2.objects = m.objects /\ m2.freed = m.freed /\ m2.list = m.list
             /\ deep => m2.gone = m.gone \union (data \ {NULL})
             /\ ~deep => m2.gone = m.gone
<1> DEFINE m2 == Drop(m, deep, data)
           gone == IF deep THEN m.gone \union (data \ {NULL}) ELSE m.gone
<1>1. m \in Machine /\ m.gone \subseteq 1 .. m.objects
  BY DEF Sound
<1>2. gone \subseteq 1 .. m.objects /\ gone \in SUBSET Nat
  <2>1. gone \subseteq 1 .. m.objects
    BY <1>1
  <2>2. 1 .. m.objects \subseteq Nat
    OBVIOUS
  <2> QED
    BY <2>1, <2>2
<1>3. /\ m2 \in Machine
      /\ m2.node = m.node /\ m2.freed = m.freed /\ m2.gone = gone /\ m2.tail = m.tail
      /\ m2.objects = m.objects /\ m2.status = m.status /\ m2.list = m.list
  <2>1. CASE deep
    <3>1. m2 = [m EXCEPT !.gone = gone]
      BY <2>1, Zenon DEF Drop
    <3> HIDE DEF m2, gone
    <3>2. m2 \in Machine
      BY <1>1, <1>2, <3>1, Zenon DEF Machine
    <3> QED
      BY <1>1, <3>1, <3>2, SMT DEF Machine
  <2>2. CASE ~deep
    BY <1>1, <2>2 DEF Drop
  <2> QED
    BY <2>1, <2>2
<1> HIDE DEF m2, gone
<1>4. Sound(m2)
  BY <1>2, <1>3 DEF Sound
<1> QED
  BY <1>3, <1>4 DEF m2, gone

(* It leaves the path alone, if the path has none of it.                   *)
LEMMA DropKeeps ==
  ASSUME NEW m, Sound(m), NEW n, NEW q, Reaches(m, q, n), NEW deep \in BOOLEAN,
         NEW data, data \ {NULL} \subseteq 1 .. m.objects,
         \A k \in 1 .. n : m.node[q[k]].data \notin data \/ m.node[q[k]].data = NULL
  PROVE  LET m2 == Drop(m, deep, data)
         IN  /\ Sound(m2) /\ Reaches(m2, q, n) /\ \A c : Holds(m, q, n, c) => Holds(m2, q, n, c)
             /\ m2.status = m.status /\ m2.node = m.node /\ m2.objects = m.objects
             /\ m2.freed = m.freed /\ m2.list = m.list
             /\ data \ {NULL} = {} => m2.gone = m.gone
<1> DEFINE m2 == Drop(m, deep, data)
           gone == IF deep THEN m.gone \union (data \ {NULL}) ELSE m.gone
<1>1. /\ Sound(m2) /\ m2.status = m.status /\ m2.node = m.node
      /\ m2.objects = m.objects /\ m2.freed = m.freed /\ m2.list = m.list /\ m2.gone = gone
  <2>1. /\ Sound(m2) /\ m2.status = m.status /\ m2.node = m.node
        /\ m2.objects = m.objects /\ m2.freed = m.freed /\ m2.list = m.list
        /\ deep => m2.gone = m.gone \union (data \ {NULL})
        /\ ~deep => m2.gone = m.gone
    BY DropSound
  <2> HIDE DEF m2
  <2> QED
    BY <2>1
<1> HIDE DEF m2
<1>2. \A k \in 1 .. n : m.node[q[k]].data \notin gone
  <2> SUFFICES ASSUME NEW k \in 1 .. n PROVE m.node[q[k]].data \notin gone
    OBVIOUS
  <2>1. m.node[q[k]].data \notin m.gone
    BY DEF Reaches
  <2> QED
    BY <2>1
<1>3. data \ {NULL} = {} => gone = m.gone
  OBVIOUS
<1> HIDE DEF gone
<1>4. Reaches(m2, q, n) /\ \A c : Holds(m, q, n, c) => Holds(m2, q, n, c)
  BY <1>1, <1>2 DEF Reaches, Holds, Succ
<1> QED
  BY <1>1, <1>3, <1>4 DEF m2

(* klist_shallow_free and klist_deep_free of the list leave the empty one. *)
LEMMA ListFreedKeeps ==
  ASSUME NEW m, Good(m), m.status = "ok", NEW deep \in BOOLEAN
  PROVE  LET m2 == Freed(m, "list", deep)
         IN  /\ Good(m2) /\ Len(m2.node) = Len(m.node) /\ m2.objects = m.objects
             /\ m2.status # "undefined" /\ (m2.status = "ok" => Is(m2, <<>>))
             /\ debug /\ m.list.dynamic => m2.freed = m.freed /\ m2.gone = m.gone
<1> DEFINE m2 == Freed(m, "list", deep)
           nodes == ToSet(Chain(m, m.list.head))
           base == [m EXCEPT !.freed = m.freed \union nodes, !.list = NoList]
           data == {m.node[x].data : x \in nodes}
           top == Len(m.node)
<1>1. m \in Machine /\ m.list.duplicate = FALSE /\ m.freed \subseteq 1 .. top /\ Sound(m)
  BY DEF Good, Sound
<1>2. m2 = Outcome(m, TRUE, FreeAsserts(m.list), TRUE, Drop(base, deep, data))
  <2>1. [m EXCEPT !.freed = m.freed \union nodes, !["list"] = NoList] = base
    OBVIOUS
  <2>2. m["list"] = m.list
    OBVIOUS
  <2> HIDE DEF base
  <2> QED
    BY <1>1, <2>1, <2>2 DEF Freed
<1>3. PICK n, q : Reaches(m, q, n)
  BY DEF Good
<1>4. /\ Chain(m, m.list.head) = q /\ DOMAIN q = 1 .. n /\ n \in Nat
      /\ q \in [1 .. n -> 1 .. top] /\ top \in Nat
  BY <1>1, <1>3, ChainIs, MachineNodes DEF Reaches, Listing
<1>5. nodes = {q[i] : i \in 1 .. n} /\ nodes \subseteq 1 .. top
  BY <1>4 DEF ToSet
<1> HIDE DEF m2, nodes
<1>6. data \ {NULL} \subseteq 1 .. m.objects
  <2> SUFFICES ASSUME NEW x \in nodes, m.node[x].data # NULL PROVE m.node[x].data \in 1 .. m.objects
    OBVIOUS
  <2>1. x \in 1 .. top
    BY <1>5
  <2>2. m.node[x].data \in Nat /\ m.node[x].data <= m.objects /\ m.objects \in Nat
    BY <1>1, <2>1, MachineNodes DEF Sound, Machine
  <2> QED
    BY <2>2 DEF NULL
<1> HIDE DEF data
<1>7. NoList \in ListStruct /\ NoList.head = NULL /\ NoList.size = 0 /\ NoList.duplicate = FALSE
  BY DEF NoList, ListStruct, NULL
<1>8. /\ base \in Machine
      /\ base.node = m.node /\ base.freed = m.freed \union nodes /\ base.gone = m.gone
      /\ base.tail = m.tail /\ base.objects = m.objects /\ base.status = m.status
      /\ base.list = NoList
  <2>1. m.freed \union nodes \in SUBSET Nat
    <3>1. 1 .. top \subseteq Nat
      BY <1>4
    <3> QED
      BY <1>1, <1>5, <3>1
  <2> DEFINE freed == m.freed \union nodes
  <2>2. base = [m EXCEPT !.freed = freed, !.list = NoList] /\ freed \in SUBSET Nat
    BY <2>1
  <2> HIDE DEF base, freed
  <2>3. base \in Machine
    BY <1>1, <1>7, <2>2, Zenon DEF Machine
  <2> QED
    BY <1>1, <2>2, <2>3, SMT DEF Machine, freed
<1> HIDE DEF base
<1>9. CutBehind(m, q, 0, base)
  <2>1. \A k \in 1 .. 0 : FALSE
    OBVIOUS
  <2>2. Within(NoList, top)
    BY <1>4 DEF Within, NoList, NULL
  <2>3. \A x \in 1 .. top : m.node[x].next <= top
    BY <1>1 DEF Sound
  <2>4. ~(0 > 0)
    OBVIOUS
  <2> QED
    BY <1>1, <1>5, <1>7, <1>8, <2>1, <2>2, <2>3, <2>4 DEF CutBehind
<1>10. Sound(base) /\ Reaches(base, Cut(q, 0), 0)
  <2>1. 0 \in Nat /\ 0 <= n
    BY <1>4
  <2> QED
    BY <1>1, <1>3, <1>9, <2>1, CutKeeps
<1>11. Holds(base, Cut(q, 0), 0, <<>>)
  <2>1. <<>> \in Seq(Nat) /\ Len(<<>>) = 0 /\ ~(0 > 0) /\ \A k \in 1 .. 0 : FALSE
    OBVIOUS
  <2> QED
    BY <1>7, <1>8, <2>1 DEF Holds
<1> DEFINE dropped == Drop(base, deep, data)
<1>12. /\ Sound(dropped) /\ Reaches(dropped, Cut(q, 0), 0)
       /\ Holds(dropped, Cut(q, 0), 0, <<>>)
       /\ dropped.status = m.status /\ dropped.node = m.node /\ dropped.objects = m.objects
  <2>1. \A k \in 1 .. 0 : base.node[Cut(q, 0)[k]].data \notin data \/ base.node[Cut(q, 0)[k]].data = NULL
    OBVIOUS
  <2> QED
    BY <1>6, <1>8, <1>10, <1>11, <2>1, DropKeeps
<1> HIDE DEF dropped
<1>13. CASE debug /\ ~FreeAsserts(m.list)
  <2>1. m2 = Stopped(m, "abort")
    BY <1>2, <1>13 DEF Outcome, Stopped
  <2> QED
    BY <2>1, StoppedKeeps DEF m2
<1>14. CASE ~(debug /\ ~FreeAsserts(m.list))
  <2>1. m2 = dropped
    BY <1>2, <1>14 DEF Outcome, dropped
  <2>2. ~(debug /\ m.list.dynamic)
    BY <1>14 DEF FreeAsserts
  <2>3. Good(dropped) /\ Is(dropped, <<>>)
    BY <1>12, Zenon DEF Good, Is
  <2> QED
    BY <1>12, <2>1, <2>2, <2>3 DEF m2
<1> QED
  BY <1>13, <1>14

(* Those of the tail leave the list alone.                                 *)
LEMMA TailFreedKeeps ==
  ASSUME NEW m, Good(m), m.status = "ok", m.tail.live, NEW deep \in BOOLEAN
  PROVE  LET m2 == Freed(m, "tail", deep)
         IN  /\ Good(m2) /\ Len(m2.node) = Len(m.node) /\ m2.objects = m.objects
             /\ m2.status # "undefined" /\ (m2.status = "ok" => \A c : Is(m, c) => Is(m2, c))
             /\ m2.freed = m.freed /\ m2.gone = m.gone
<1> DEFINE m2 == Freed(m, "tail", deep)
           base == [m EXCEPT !.freed = m.freed \union {}, !.tail = NoList]
<1>1. m \in Machine /\ m.tail.duplicate /\ Sound(m)
  BY DEF Good, Sound
<1>2. m2 = Outcome(m, TRUE, FreeAsserts(m.tail), TRUE, Drop(base, deep, {}))
  <2>1. [m EXCEPT !.freed = m.freed \union {}, !["tail"] = NoList] = base
    OBVIOUS
  <2>2. m["tail"] = m.tail
    OBVIOUS
  <2>3. {m.node[x].data : x \in {}} = {}
    OBVIOUS
  <2> HIDE DEF base
  <2> QED
    BY <1>1, <2>1, <2>2, <2>3 DEF Freed
<1> HIDE DEF m2
<1>3. NoList \in ListStruct /\ Within(NoList, Len(m.node)) /\ ~NoList.live
  <2>1. Len(m.node) \in Nat
    BY <1>1, MachineNodes
  <2> QED
    BY <2>1 DEF NoList, ListStruct, NULL, Within
<1>4. /\ base \in Machine
      /\ base.node = m.node /\ base.freed = m.freed /\ base.gone = m.gone
      /\ base.tail = NoList /\ base.objects = m.objects /\ base.status = m.status
      /\ base.list = m.list
  <2>1. m.freed \union {} = m.freed
    OBVIOUS
  <2>2. base = [m EXCEPT !.freed = m.freed, !.tail = NoList] /\ m.freed \in SUBSET Nat
    BY <1>1, <2>1 DEF Machine
  <2> HIDE DEF base
  <2>3. base \in Machine
    BY <1>1, <1>3, <2>2, Zenon DEF Machine
  <2> QED
    BY <1>1, <2>2, <2>3, SMT DEF Machine
<1> HIDE DEF base
<1>5. Good(base) /\ \A c : Is(m, c) => Is(base, c)
  <2>1. m.objects <= base.objects
    BY <1>1, <1>4 DEF Machine
  <2> QED
    BY <1>3, <1>4, <2>1, AsideKeeps
<1>6. CASE debug /\ ~FreeAsserts(m.tail)
  <2>1. m2 = Stopped(m, "abort")
    BY <1>2, <1>6 DEF Outcome, Stopped
  <2> QED
    BY <2>1, StoppedKeeps DEF m2
<1>7. CASE ~(debug /\ ~FreeAsserts(m.tail))
  <2> DEFINE dropped == Drop(base, deep, {})
  <2>1. m2 = dropped
    BY <1>2, <1>7 DEF Outcome
  <2>2. PICK n, q : Reaches(base, q, n)
    BY <1>5 DEF Good
  <2>3. /\ Sound(dropped) /\ Reaches(dropped, q, n)
        /\ \A c : Holds(base, q, n, c) => Holds(dropped, q, n, c)
        /\ dropped.status = m.status /\ dropped.node = m.node /\ dropped.objects = m.objects
        /\ dropped.freed = m.freed /\ dropped.gone = m.gone
    <3>1. Sound(base) /\ {} \ {NULL} = {} /\ {} \ {NULL} \subseteq 1 .. base.objects
      BY <1>5 DEF Good
    <3>2. \A k \in 1 .. n : base.node[q[k]].data \notin {} \/ base.node[q[k]].data = NULL
      OBVIOUS
    <3> QED
      BY <1>4, <2>2, <3>1, <3>2, DropKeeps
  <2> HIDE DEF dropped
  <2>4. Good(dropped)
    BY <2>3, Zenon DEF Good
  <2>5. ASSUME NEW c, Is(m, c) PROVE Is(dropped, c)
    <3>1. Holds(base, q, n, c)
      BY <1>5, <2>2, <2>5, OnePath
    <3> QED
      BY <2>3, <3>1, Zenon DEF Is
  <2> QED
    BY <2>1, <2>3, <2>4, <2>5 DEF m2
<1> QED
  BY <1>6, <1>7

(* klist_tail leaves the list alone, and stops at most at an assertion     *)
(* when the list is the one that it should be.                             *)
LEMMA TailOfKeeps ==
  ASSUME NEW m, Good(m), m.status = "ok", m.list.size > 0, NEW garbage \in BOOLEAN
  PROVE  LET m2 == TailOf(m, garbage)
         IN  /\ Good(m2) /\ m2.node = m.node /\ m2.objects = m.objects
             /\ m2.freed = m.freed /\ m2.gone = m.gone
             /\ m2.status = "ok" => \A c : Is(m, c) => Is(m2, c)
             /\ \A c : Is(m, c) => m2.status # "undefined"
<1> DEFINE m2 == TailOf(m, garbage)
           l == m.list
           tail == [head |-> NextOf(m, l.head), last |-> l.last, size |-> l.size - 1,
                    dynamic |-> garbage, duplicate |-> TRUE, live |-> TRUE]
           base == [m EXCEPT !.tail = tail]
           top == Len(m.node)
<1>1. m \in Machine /\ Sound(m) /\ l \in ListStruct
  BY DEF Good, Sound, Machine
<1>2. /\ top \in Nat /\ DOMAIN m.node = 1 .. top
      /\ \A x \in 1 .. top : m.node[x].next \in Nat /\ m.node[x].next <= top
  BY <1>1, MachineNodes DEF Sound
<1>3. m2 = IF l.size = 1
           THEN Outcome(m, TRUE, l.head # NULL /\ l.head = l.last, TRUE, m)
           ELSE Outcome(m, TRUE, l.head # NULL /\ l.last # NULL, Valid(m, l.head), base)
  BY DEF TailOf
<1> HIDE DEF m2
<1>4. tail \in ListStruct /\ Within(tail, top) /\ tail.duplicate
  <2>1. NextOf(m, l.head) \in Nat /\ NextOf(m, l.head) <= top
    BY <1>2 DEF NextOf, Valid, NULL
  <2>2. /\ l.last \in Nat /\ l.size - 1 \in Nat /\ l.last <= top /\ l.size - 1 <= top
    <3>1. l.last \in Nat /\ l.size \in Nat /\ l.last <= top /\ l.size <= top
      BY <1>1 DEF ListStruct, Sound, Within
    <3> QED
      BY <1>2, <3>1
  <2> QED
    BY <2>1, <2>2 DEF ListStruct, Within
<1> HIDE DEF tail
<1>5. /\ base \in Machine
      /\ base.node = m.node /\ base.freed = m.freed /\ base.gone = m.gone
      /\ base.tail = tail /\ base.objects = m.objects /\ base.status = m.status
      /\ base.list = l
  <2>1. base \in Machine
    BY <1>1, <1>4, Zenon DEF Machine
  <2> QED
    BY <1>1, <2>1, SMT DEF Machine
<1> HIDE DEF base
<1>6. Good(base) /\ \A c : Is(m, c) => Is(base, c)
  <2>1. m.objects <= base.objects
    BY <1>1, <1>5 DEF Machine
  <2> QED
    BY <1>4, <1>5, <2>1, AsideKeeps
<1>7. ASSUME NEW c, Is(m, c), l.size # 1 PROVE Valid(m, l.head)
  <2>1. PICK n, q : Reaches(m, q, n) /\ Holds(m, q, n, c)
    BY <1>7 DEF Is
  <2>2. n > 0 /\ 1 \in 1 .. n /\ l.head = q[1]
    BY <2>1 DEF Holds, Reaches, Listing
  <2> QED
    BY <1>1, <2>1, <2>2, ChainIs
<1>8. m2 = m \/ m2 = base \/ m2 = Stopped(m, "abort")
        \/ (m2 = Stopped(m, "undefined") /\ l.size # 1 /\ ~Valid(m, l.head))
  BY <1>3 DEF Outcome, Stopped
<1>9. CASE m2 = m
  BY <1>9 DEF m2
<1>10. CASE m2 = base
  BY <1>5, <1>6, <1>10 DEF m2
<1>11. CASE m2 = Stopped(m, "abort")
  BY <1>11, StoppedKeeps DEF m2
<1>12. CASE m2 = Stopped(m, "undefined") /\ l.size # 1 /\ ~Valid(m, l.head)
  BY <1>7, <1>12, StoppedKeeps DEF m2
<1> QED
  BY <1>8, <1>9, <1>10, <1>11, <1>12

(* klist_set keeps the path; at an end it is the update of the sequence.   *)
LEMMA UpdatedKeeps ==
  ASSUME NEW m, Good(m), m.status = "ok", m.list.size > 0, NEW d, Unused(m, d), NEW i \in Nat
  PROVE  LET m2 == Updated(m, i, d)
         IN  /\ Good(m2) /\ Len(m2.node) = Len(m.node) /\ m2.objects = m.objects
             /\ m2.freed = m.freed /\ m2.gone = m.gone
             /\ \A c : Is(m, c) /\ (i = 0 \/ i + 1 = m.list.size) =>
                  /\ m2.status # "undefined"
                  /\ m2.status = "ok" => i < Len(c) /\ Is(m2, [c EXCEPT ![i + 1] = d])
<1> DEFINE m2 == Updated(m, i, d)
           x == GetNode(m, i)
           nodes == [m.node EXCEPT ![x].data = d]
           base == [m EXCEPT !.node = nodes]
           top == Len(m.node)
<1>1. m \in Machine /\ Sound(m) /\ m.list.size \in Nat
  BY DEF Good, Sound, Machine, ListStruct
<1>2. /\ top \in Nat /\ DOMAIN m.node = 1 .. top /\ m.node \in [1 .. top -> Node]
      /\ \A y \in 1 .. top : m.node[y].data \in Nat /\ m.node[y].next \in Nat
  BY <1>1, MachineNodes
<1>3. m2 = Outcome(m, i < m.list.size, m.list.head # NULL /\ GetAsserts(m, i) /\ x # NULL,
                   Valid(m, x), base)
  BY DEF Updated
<1> HIDE DEF m2, x
<1>4. \/ m2 = Stopped(m, "abort")
      \/ /\ m2 = Stopped(m, "undefined") /\ i < m.list.size /\ ~Valid(m, x)
      \/ /\ m2 = base /\ i < m.list.size /\ Valid(m, x)
  BY <1>3 DEF Outcome, Stopped
<1>5. ASSUME NEW c, NEW n, NEW q, Reaches(m, q, n), Holds(m, q, n, c),
             i = 0 \/ i + 1 = m.list.size, i < m.list.size
      PROVE  x = q[i + 1] /\ i + 1 \in 1 .. n /\ Valid(m, x)
  <2>1. n \in Nat /\ m.list.size = n /\ n > 0 /\ m.list.last = q[n] /\ m.list.head = q[1]
    BY <1>5 DEF Reaches, Listing, Holds
  <2>2. i + 1 \in 1 .. n
    BY <1>5, <2>1
  <2>3. x = q[i + 1]
    BY <1>5, <2>1 DEF GetNode, x
  <2> QED
    BY <1>1, <1>5, <2>2, <2>3, ChainIs
<1>6. ASSUME Valid(m, x)
      PROVE  /\ Good(base) /\ Len(base.node) = top /\ base.objects = m.objects
             /\ base.freed = m.freed /\ base.gone = m.gone
             /\ \A c : Is(m, c) /\ (i = 0 \/ i + 1 = m.list.size) /\ i < m.list.size
                         => i < Len(c) /\ Is(base, [c EXCEPT ![i + 1] = d])
  <2>1. x \in 1 .. top /\ d \in 1 .. m.objects /\ m.objects \in Nat /\ d \in Nat /\ d # NULL
    BY <1>1, <1>2, <1>6 DEF Valid, Unused, Machine, NULL
  <2>2. /\ nodes \in [1 .. top -> Node]
        /\ \A y \in 1 .. top :
             /\ nodes[y].data = IF y = x THEN d ELSE m.node[y].data
             /\ nodes[y].next = m.node[y].next
    BY <1>2, <2>1 DEF Node
  <2>3. nodes \in Seq(Node) /\ Len(nodes) = top
    <3> HIDE DEF nodes
    <3> QED
      BY <1>2, <2>2
  <2> HIDE DEF nodes
  <2>4. /\ base \in Machine
        /\ base.node = nodes /\ base.freed = m.freed /\ base.gone = m.gone
        /\ base.tail = m.tail /\ base.objects = m.objects /\ base.status = m.status
        /\ base.list = m.list
    <3>1. base \in Machine
      BY <1>1, <2>3, Zenon DEF Machine
    <3> QED
      BY <1>1, <3>1, Zenon DEF Machine
  <2> HIDE DEF base
  <2>5. Sound(base)
    <3>1. \A y \in 1 .. top : nodes[y].data <= m.objects /\ nodes[y].next <= top
      BY <1>1, <2>1, <2>2 DEF Sound
    <3>2. ASSUME NEW y \in 1 .. top, NEW z \in 1 .. top, nodes[y].data = nodes[z].data
          PROVE  y = z \/ nodes[y].data = NULL
      <4>1. \A w \in 1 .. top : m.node[w].data # d
        BY DEF Unused
      <4> QED
        BY <1>1, <2>2, <3>2, <4>1 DEF Sound
    <3> QED
      BY <1>1, <2>3, <2>4, <3>1, <3>2 DEF Sound
  <2>6. Succ(base) = Succ(m)
    BY <2>2, <2>3, <2>4 DEF Succ
  <2>7. ASSUME NEW n, NEW q, Reaches(m, q, n) PROVE Reaches(base, q, n)
    <3>1. \A k \in 1 .. n : q[k] \in 1 .. top
      BY <2>7 DEF Reaches, Listing
    <3>2. \A k \in 1 .. n : nodes[q[k]].data \notin m.gone
      BY <2>2, <2>7, <3>1 DEF Reaches, Unused
    <3> QED
      BY <2>3, <2>4, <2>6, <2>7, <3>2 DEF Reaches
  <2>8. ASSUME NEW c, Is(m, c), i = 0 \/ i + 1 = m.list.size, i < m.list.size
        PROVE  i < Len(c) /\ Is(base, [c EXCEPT ![i + 1] = d])
    <3>1. PICK n, q : Reaches(m, q, n) /\ Holds(m, q, n, c)
      BY <2>8 DEF Is
    <3>2. x = q[i + 1] /\ i + 1 \in 1 .. n
      BY <1>5, <2>8, <3>1
    <3>3. /\ c \in Seq(Nat) /\ Len(c) = n /\ n \in Nat
          /\ \A k \in 1 .. n : q[k] \in 1 .. top /\ m.node[q[k]].data = c[k]
          /\ \A j, k \in 1 .. n : q[j] = q[k] => j = k
      BY <3>1 DEF Reaches, Listing, Holds
    <3> DEFINE e == [c EXCEPT ![i + 1] = d]
    <3>4. /\ e \in Seq(Nat) /\ Len(e) = n
          /\ \A k \in 1 .. n : e[k] = IF k = i + 1 THEN d ELSE c[k]
      <4>1. c \in [1 .. n -> Nat]
        BY <3>3, LenProperties
      <4>2. e \in [1 .. n -> Nat] /\ \A k \in 1 .. n : e[k] = IF k = i + 1 THEN d ELSE c[k]
        BY <2>1, <3>2, <4>1
      <4>3. n \in Nat
        BY <3>3
      <4> HIDE DEF e
      <4>4. e \in Seq(Nat) /\ Len(e) = n
        BY <4>2, <4>3
      <4> QED
        BY <4>2, <4>4
    <3> HIDE DEF e
    <3>5. \A k \in 1 .. n : nodes[q[k]].data = e[k]
      BY <2>2, <3>2, <3>3, <3>4
    <3>6. Holds(base, q, n, e)
      BY <2>4, <3>1, <3>4, <3>5 DEF Holds
    <3>7. i < Len(c)
      BY <3>2, <3>3
    <3> QED
      BY <2>5, <2>7, <3>1, <3>6, <3>7, Zenon DEF Is, e
  <2>9. Good(base)
    BY <2>5, <2>7 DEF Good
  <2> QED
    BY <2>3, <2>4, <2>8, <2>9
<1> HIDE DEF base
<1>7. CASE m2 = Stopped(m, "abort")
  BY <1>7, StoppedKeeps DEF m2
<1>8. CASE m2 = Stopped(m, "undefined") /\ i < m.list.size /\ ~Valid(m, x)
  <2>1. ASSUME NEW c, Is(m, c), i = 0 \/ i + 1 = m.list.size PROVE FALSE
    BY <1>5, <1>8, <2>1 DEF Is
  <2> QED
    BY <1>8, <2>1, StoppedKeeps DEF m2
<1>9. CASE m2 = base /\ i < m.list.size /\ Valid(m, x)
  <2>1. base.status = "ok"
    BY <1>1 DEF base, Machine
  <2>2. m2 = base /\ base.status # "undefined"
    BY <1>9, <2>1
  <2> QED
    BY <1>6, <1>9, <2>2 DEF m2
<1> QED
  BY <1>4, <1>7, <1>8, <1>9

(* klist_append keeps the path, and continues the sequence.                *)
LEMMA AppendAllKeeps ==
  ASSUME NEW m, Good(m), m.status = "ok", NEW k \in Nat,
         NEW d, d = NULL \/ (k = 1 /\ Unused(m, d))
  PROVE  LET m2 == AppendAll(m, k, d)
         IN  /\ Good(m2) /\ Len(m2.node) <= Len(m.node) + k /\ m2.objects = m.objects
             /\ m2.freed = m.freed /\ m2.gone = m.gone
             /\ \A c : Is(m, c) => m2.status = "ok" /\ Is(m2, c \o Copies(d, k))
<1> DEFINE m2 == AppendAll(m, k, d)
           base == AppendedTo(m, k, d)
           top == Len(m.node)
<1>1. m \in Machine /\ Sound(m) /\ d \in Nat
  BY DEF Good, Sound, Machine, Unused, NULL
<1>2. top \in Nat /\ top <= top + k
  BY <1>1, MachineNodes
<1>3. CASE k = 0
  <2>1. m2 = m
    BY <1>3 DEF AppendAll
  <2>2. ASSUME NEW c, Is(m, c) PROVE c \o Copies(d, k) = c
    <3>1. c \in Seq(Nat)
      BY <2>2 DEF Is, Holds
    <3>2. Len(c) \in Nat /\ Len(c) + k = Len(c)
      BY <1>3, <3>1, LenProperties
    <3> DEFINE e == c \o Copies(d, k)
    <3>3. /\ e \in Seq(Nat) /\ Len(e) = Len(c) + k
          /\ \A i \in 1 .. Len(c) + k : e[i] = IF i <= Len(c) THEN c[i] ELSE d
      BY <1>1, <3>1, HoldsConcat
    <3> HIDE DEF e
    <3>4. e \in Seq(Nat) /\ Len(c) = Len(e) /\ \A i \in 1 .. Len(c) : c[i] = e[i]
      BY <3>2, <3>3
    <3>5. c = e
      BY <3>1, <3>4, SameSeq
    <3> QED
      BY <3>5 DEF e
  <2> QED
    BY <1>2, <2>1, <2>2
<1>4. CASE k > 0
  <2>1. m2 = Outcome(m, TRUE, TRUE, m.list.head = NULL \/ Valid(m, m.list.last), base)
    <3>1. k # 0
      BY <1>4
    <3> QED
      BY <3>1, Zenon DEF AppendAll, AppendedTo
  <2>2. PICK n, q : Reaches(m, q, n)
    BY DEF Good
  <2>3. ASSUME NEW c, Is(m, c) PROVE m.list.head = NULL \/ Valid(m, m.list.last)
    <3>1. n \in Nat /\ (n = 0 => m.list.head = NULL) /\ (n > 0 => m.list.last = q[n])
      <4>1. Holds(m, q, n, c)
        BY <2>2, <2>3, OnePath
      <4> QED
        BY <2>2, <4>1 DEF Reaches, Listing, Holds
    <3>2. n = 0 \/ n \in 1 .. n
      BY <3>1
    <3> QED
      BY <1>1, <2>2, <3>1, <3>2, ChainIs
  <2>4. CASE ~(m.list.head = NULL \/ Valid(m, m.list.last))
    <3>1. m2 = Stopped(m, "undefined")
      BY <2>1, <2>4 DEF Outcome, Stopped
    <3> HIDE DEF m2
    <3>2. /\ Good(m2) /\ m2.node = m.node /\ m2.objects = m.objects
          /\ m2.freed = m.freed /\ m2.gone = m.gone
      BY <3>1, StoppedKeeps
    <3> QED
      BY <1>2, <2>3, <2>4, <3>2 DEF m2
  <2>5. CASE m.list.head = NULL \/ Valid(m, m.list.last)
    <3>1. m2 = base
      BY <2>1, <2>5 DEF Outcome
    <3>2. /\ Sound(base)
          /\ \E n2, q2 : /\ Reaches(base, q2, n2)
                         /\ \A c : Holds(m, q, n, c) => Holds(base, q2, n2, c \o Copies(d, k))
      BY <1>1, <1>4, <2>2, <2>5, AppendedKeeps
    <3>3. /\ Len(base.node) = top + k /\ base.objects = m.objects /\ base.status = m.status
          /\ base.freed = m.freed /\ base.gone = m.gone
      <4>1. /\ base \in Machine /\ Len(base.node) = top + k
            /\ \A x \in 1 .. top :
                 /\ base.node[x].data = m.node[x].data
                 /\ base.node[x].next = IF m.list.head # NULL /\ x = m.list.last
                                        THEN top + 1 ELSE m.node[x].next
            /\ \A i \in 1 .. k :
                 /\ base.node[top + i].data = d
                 /\ base.node[top + i].next = IF i < k THEN top + i + 1 ELSE NULL
            /\ base.list.head = (IF m.list.head = NULL THEN top + 1 ELSE m.list.head)
            /\ base.list.last = top + k /\ base.list.size = m.list.size + k
            /\ base.list.duplicate = m.list.duplicate
            /\ base.freed = m.freed /\ base.gone = m.gone /\ base.tail = m.tail
            /\ base.objects = m.objects /\ base.status = m.status
        BY <1>1, <1>4, AppendedIs, ZenonT(60)
      <4> HIDE DEF base
      <4> QED
        BY <4>1
    <3> HIDE DEF base, m2
    <3>4. PICK n2, q2 : /\ Reaches(base, q2, n2)
                        /\ \A c : Holds(m, q, n, c) => Holds(base, q2, n2, c \o Copies(d, k))
      BY <3>2
    <3>5. Good(base)
      BY <3>2, <3>4 DEF Good
    <3>6. ASSUME NEW c, Is(m, c) PROVE Is(base, c \o Copies(d, k))
      <4>1. Holds(m, q, n, c)
        BY <2>2, <3>6, OnePath
      <4> QED
        BY <3>2, <3>4, <4>1, Zenon DEF Is
    <3>7. top + k <= top + k
      BY <1>2
    <3> QED
      BY <3>1, <3>3, <3>5, <3>6, <3>7 DEF m2
  <2> QED
    BY <2>4, <2>5
<1> QED
  BY <1>3, <1>4

(* klist_resize keeps it too.                                              *)
LEMMA GrownKeeps ==
  ASSUME NEW m, Good(m), m.status = "ok", NEW k \in Nat
  PROVE  LET m2 == Grown(m, k)
         IN  /\ Good(m2) /\ Len(m2.node) <= Len(m.node) + k /\ m2.objects = m.objects
             /\ m2.freed = m.freed /\ m2.gone = m.gone
             /\ \A c : Is(m, c) => /\ m2.status # "undefined"
                                   /\ m2.status = "ok" => Is(m2, c \o Copies(NULL, k))
<1> DEFINE m2 == Grown(m, k)
           g == AppendAll(m, k, NULL)
<1>1. /\ Good(g) /\ Len(g.node) <= Len(m.node) + k /\ g.objects = m.objects
      /\ g.freed = m.freed /\ g.gone = m.gone
      /\ \A c : Is(m, c) => g.status = "ok" /\ Is(g, c \o Copies(NULL, k))
  BY AppendAllKeeps
<1>2. m2 = g \/ m2 = Stopped(g, "abort")
  BY DEF Grown, Stopped
<1> HIDE DEF m2, g
<1>3. CASE m2 = g
  BY <1>1, <1>3 DEF m2
<1>4. CASE m2 = Stopped(g, "abort")
  <2>1. /\ Good(m2) /\ m2.status = "abort" /\ m2.node = g.node /\ m2.objects = g.objects
        /\ m2.freed = g.freed /\ m2.gone = g.gone
    BY <1>1, <1>4, StoppedKeeps
  <2> QED
    BY <1>1, <2>1 DEF m2
<1> QED
  BY <1>2, <1>3, <1>4

(* A linked node keeps the path, and inserts into the sequence.            *)
LEMMA LinkedGood ==
  ASSUME NEW m, Good(m), NEW d, Unused(m, d), NEW p, p = NULL \/ Valid(m, p),
         NEW m2, Linked(m, p, d, m2)
  PROVE  /\ Good(m2)
         /\ \A c : Is(m, c) /\ m.list.size > 0 /\ p = NULL => Is(m2, InsertAt(c, 1, d))
         /\ \A c : Is(m, c) /\ m.list.size > 1 /\ p = m.list.head => Is(m2, InsertAt(c, 2, d))
<1>1. Sound(m)
  BY DEF Good
<1>2. PICK n, q : Reaches(m, q, n)
  BY DEF Good
<1>3. /\ Sound(m2)
      /\ \E n2, q2 :
           /\ Reaches(m2, q2, n2)
           /\ \A c : Holds(m, q, n, c) /\ n > 0 /\ p = NULL
                       => Holds(m2, q2, n2, InsertAt(c, 1, d))
           /\ \A c : Holds(m, q, n, c) /\ n > 1 /\ p = q[1]
                       => Holds(m2, q2, n2, InsertAt(c, 2, d))
  BY <1>1, <1>2, LinkedKeeps
<1>4. PICK n2, q2 : 
           /\ Reaches(m2, q2, n2)
           /\ \A c : Holds(m, q, n, c) /\ n > 0 /\ p = NULL
                       => Holds(m2, q2, n2, InsertAt(c, 1, d))
           /\ \A c : Holds(m, q, n, c) /\ n > 1 /\ p = q[1]
                       => Holds(m2, q2, n2, InsertAt(c, 2, d))
  BY <1>3
<1>5. ASSUME NEW c, Is(m, c)
      PROVE  /\ Holds(m, q, n, c) /\ m.list.size = n
             /\ m.list.size > 0 => m.list.head = q[1]
  <2>1. Holds(m, q, n, c)
    BY <1>2, <1>5, OnePath
  <2> QED
    BY <1>2, <2>1 DEF Holds, Reaches, Listing
<1>6. ASSUME NEW c, Is(m, c), m.list.size > 0, p = NULL PROVE Is(m2, InsertAt(c, 1, d))
  <2>1. Holds(m2, q2, n2, InsertAt(c, 1, d))
    BY <1>4, <1>5, <1>6
  <2> QED
    BY <1>3, <1>4, <2>1, Zenon DEF Is
<1>7. ASSUME NEW c, Is(m, c), m.list.size > 1, p = m.list.head PROVE Is(m2, InsertAt(c, 2, d))
  <2>1. m.list.size > 0
    <3>1. m.list.size \in Nat
      BY <1>1 DEF Sound, Machine, ListStruct
    <3> QED
      BY <1>7, <3>1
  <2>2. Holds(m2, q2, n2, InsertAt(c, 2, d))
    BY <1>4, <1>5, <1>7, <2>1
  <2> QED
    BY <1>3, <1>4, <2>2, Zenon DEF Is
<1>8. Good(m2)
  BY <1>3, <1>4 DEF Good
<1> QED
  BY <1>6, <1>7, <1>8

(* klist_prepend and klist_insert keep the path; where the code is right,  *)
(* they insert into the sequence.                                          *)
LEMMA PrependedKeeps ==
  ASSUME NEW m, Good(m), m.status = "ok", NEW d, Unused(m, d)
  PROVE  LET m2 == Prepended(m, d)
         IN  /\ Good(m2) /\ Len(m2.node) = Len(m.node) + 1 /\ m2.objects = m.objects
             /\ m2.freed = m.freed /\ m2.gone = m.gone /\ m2.status = "ok"
             /\ \A c : Is(m, c) /\ m.list.size > 0 => Is(m2, InsertAt(c, 1, d))
<1> DEFINE m2 == Prepended(m, d)
<1>1. Sound(m) /\ d \in Nat
  BY DEF Good, Unused
<1>2. Linked(m, NULL, d, m2)
  BY <1>1, PrependedIs
<1> HIDE DEF m2
<1>3. Good(m2) /\ \A c : Is(m, c) /\ m.list.size > 0 => Is(m2, InsertAt(c, 1, d))
  BY <1>2, LinkedGood
<1> QED
  BY <1>2, <1>3 DEF Linked, m2

(* klist_insert keeps the path wherever it links its node; behind the head *)
(* it is an insertion at the second place.                                 *)
LEMMA InsertedAfterKeeps ==
  ASSUME NEW m, Good(m), m.status = "ok", NEW d, Unused(m, d), NEW i \in Nat
  PROVE  LET m2 == InsertedAfter(m, i, d)
         IN  /\ Good(m2) /\ Len(m2.node) <= Len(m.node) + 1 /\ m2.objects = m.objects
             /\ m2.freed = m.freed /\ m2.gone = m.gone
             /\ \A c : Is(m, c) /\ m.list.size > 1 /\ i = 0 =>
                  /\ m2.status # "undefined"
                  /\ m2.status = "ok" => Is(m2, InsertAt(c, 2, d))
<1> DEFINE m2 == InsertedAfter(m, i, d)
           p == GetNode(m, i)
           base == InsertedTo(m, p, d)
<1>1. Sound(m) /\ d \in Nat /\ Len(m.node) \in Nat /\ Len(m.node) + 1 <= Len(m.node) + 1
  BY MachineNodes DEF Good, Unused, Sound
<1>2. m2 = Outcome(m, TRUE, GetAsserts(m, i), Valid(m, p), base)
  BY DEF InsertedAfter, InsertedTo
<1>3. i = 0 => p = m.list.head
  BY DEF GetNode
<1> HIDE DEF m2, p, base
<1>4. \/ m2 = Stopped(m, "abort")
      \/ m2 = Stopped(m, "undefined") /\ ~Valid(m, p)
      \/ m2 = base /\ Valid(m, p)
  BY <1>2 DEF Outcome, Stopped
<1>5. ASSUME NEW c, Is(m, c), m.list.size > 1 PROVE Valid(m, m.list.head)
  <2>1. PICK n, q : Reaches(m, q, n) /\ Holds(m, q, n, c)
    BY <1>5 DEF Is
  <2>2. n \in Nat /\ m.list.size = n
    BY <2>1 DEF Reaches, Listing, Holds
  <2>3. n > 0 /\ 1 \in 1 .. n
    BY <1>5, <2>2
  <2>4. Valid(m, q[1]) /\ m.list.head = q[1]
    BY <1>1, <2>1, <2>3, ChainIs DEF Reaches, Listing
  <2> QED
    BY <2>4
<1>6. CASE m2 = Stopped(m, "abort")
  <2>1. /\ Good(m2) /\ m2.status = "abort" /\ m2.node = m.node /\ m2.objects = m.objects
        /\ m2.freed = m.freed /\ m2.gone = m.gone
    BY <1>6, StoppedKeeps
  <2>2. Len(m.node) <= Len(m.node) + 1
    BY <1>1
  <2> QED
    BY <2>1, <2>2 DEF m2
<1>7. CASE m2 = Stopped(m, "undefined") /\ ~Valid(m, p)
  <2>1. /\ Good(m2) /\ m2.node = m.node /\ m2.objects = m.objects
        /\ m2.freed = m.freed /\ m2.gone = m.gone
    BY <1>7, StoppedKeeps
  <2>2. Len(m.node) <= Len(m.node) + 1
    BY <1>1
  <2> QED
    BY <1>3, <1>5, <1>7, <2>1, <2>2 DEF m2
<1>8. CASE m2 = base /\ Valid(m, p)
  <2>1. Linked(m, p, d, base)
    BY <1>1, <1>8, InsertedIs DEF base
  <2>2. /\ Good(base)
        /\ \A c : Is(m, c) /\ m.list.size > 1 /\ p = m.list.head => Is(base, InsertAt(c, 2, d))
    BY <1>8, <2>1, LinkedGood
  <2>3. /\ Len(base.node) = Len(m.node) + 1 /\ base.objects = m.objects
        /\ base.freed = m.freed /\ base.gone = m.gone /\ base.status = "ok"
    BY <2>1 DEF Linked
  <2> QED
    BY <1>1, <1>3, <1>8, <2>2, <2>3 DEF m2
<1> QED
  BY <1>4, <1>6, <1>7, <1>8

(* klist_insert as a whole.                                                *)
LEMMA InsertedKeeps ==
  ASSUME NEW m, Good(m), m.status = "ok", NEW d, Unused(m, d), NEW i \in Nat
  PROVE  LET m2 == Inserted(m, i, d)
         IN  /\ Good(m2) /\ Len(m2.node) <= Len(m.node) + 1 /\ m2.objects = m.objects
             /\ m2.freed = m.freed /\ m2.gone = m.gone
             /\ \A c : Is(m, c) /\ m.list.size > 0 /\ i \in {0, 1, m.list.size} =>
                  /\ m2.status # "undefined"
                  /\ m2.status = "ok" => i <= Len(c) /\ Is(m2, InsertAt(c, i + 1, d))
<1> DEFINE m2 == Inserted(m, i, d)
           top == Len(m.node)
<1>1. Sound(m) /\ m \in Machine /\ m.list.size \in Nat /\ d \in Nat
  BY SMTT(60) DEF Good, Sound, Machine, ListStruct, Unused
<1>2. top \in Nat /\ top <= top + 1 /\ top + 1 <= top + 1
  BY <1>1, MachineNodes
<1>3. ASSUME NEW c, Is(m, c) PROVE c \in Seq(Nat) /\ Len(c) = m.list.size
  BY <1>3 DEF Is, Holds
<1>4. CASE i > m.list.size
  <2>1. m2 = Stopped(m, "abort")
    BY <1>1, <1>4 DEF Inserted, Stopped
  <2> HIDE DEF m2
  <2>2. /\ Good(m2) /\ m2.status = "abort" /\ m2.node = m.node /\ m2.objects = m.objects
        /\ m2.freed = m.freed /\ m2.gone = m.gone
    BY <2>1, StoppedKeeps
  <2> QED
    BY <1>2, <2>2 DEF m2
<1>5. CASE i = 0
  <2>1. ~(i > m.list.size)
    BY <1>1, <1>5
  <2>2. m2 = Prepended(m, d)
    BY <1>5, <2>1 DEF Inserted
  <2> HIDE DEF m2
  <2>3. /\ Good(m2) /\ Len(m2.node) = top + 1 /\ m2.objects = m.objects
        /\ m2.freed = m.freed /\ m2.gone = m.gone /\ m2.status = "ok"
        /\ \A c : Is(m, c) /\ m.list.size > 0 => Is(m2, InsertAt(c, 1, d))
    BY <2>2, PrependedKeeps
  <2>4. i + 1 = 1 /\ i <= m.list.size
    BY <1>1, <1>5
  <2> QED
    BY <1>2, <1>3, <2>3, <2>4 DEF m2
<1>6. CASE i = m.list.size /\ i # 0
  <2>1. ~(i > m.list.size)
    BY <1>1, <1>6
  <2>2. m2 = AppendAll(m, 1, d)
    BY <1>6, <2>1 DEF Inserted
  <2> HIDE DEF m2
  <2>3. /\ Good(m2) /\ Len(m2.node) <= top + 1 /\ m2.objects = m.objects
        /\ m2.freed = m.freed /\ m2.gone = m.gone
        /\ \A c : Is(m, c) => m2.status = "ok" /\ Is(m2, c \o Copies(d, 1))
    <3>1. 1 \in Nat
      OBVIOUS
    <3> QED
      BY <2>2, <3>1, AppendAllKeeps
  <2>4. ASSUME NEW c, Is(m, c) PROVE c \o Copies(d, 1) = InsertAt(c, i + 1, d) /\ i <= Len(c)
    <3>1. c \in Seq(Nat) /\ Len(c) = i
      BY <1>3, <1>6, <2>4
    <3>2. c \o Copies(d, 1) = InsertAt(c, Len(c) + 1, d)
      BY <1>1, <3>1, InsertAtEnds
    <3>3. i <= i
      OBVIOUS
    <3> QED
      BY <3>1, <3>2, <3>3
  <2> QED
    BY <2>3, <2>4 DEF m2
<1>7. CASE ~(i > m.list.size) /\ i # 0 /\ i # m.list.size
  <2>1. m2 = InsertedAfter(m, i - 1, d)
    BY <1>7 DEF Inserted
  <2>2. i - 1 \in Nat /\ i < m.list.size /\ m.list.size > 1 /\ i <= m.list.size
    BY <1>1, <1>7
  <2> HIDE DEF m2
  <2>3. /\ Good(m2) /\ Len(m2.node) <= top + 1 /\ m2.objects = m.objects
        /\ m2.freed = m.freed /\ m2.gone = m.gone
        /\ \A c : Is(m, c) /\ m.list.size > 1 /\ i - 1 = 0 =>
             /\ m2.status # "undefined"
             /\ m2.status = "ok" => Is(m2, InsertAt(c, 2, d))
    BY <2>1, <2>2, InsertedAfterKeeps
  <2>4. i \in {0, 1, m.list.size} => i - 1 = 0 /\ i + 1 = 2
    BY <1>7
  <2> QED
    BY <1>3, <2>2, <2>3, <2>4 DEF m2
<1> QED
  BY <1>1, <1>4, <1>5, <1>6, <1>7

(* The struct that klist_new begins with is the empty list.                *)
LEMMA FreshKeeps ==
  ASSUME NEW m, Good(m), NEW dynamic \in BOOLEAN
  PROVE  LET m2 == [m EXCEPT !.list = [NoList EXCEPT !.dynamic = dynamic, !.live = TRUE]]
         IN  /\ Good(m2) /\ Is(m2, <<>>) /\ m2.node = m.node /\ m2.objects = m.objects
             /\ m2.freed = m.freed /\ m2.gone = m.gone /\ m2.status = m.status
<1> DEFINE lst == [NoList EXCEPT !.dynamic = dynamic, !.live = TRUE]
           m2 == [m EXCEPT !.list = lst]
           top == Len(m.node)
<1>1. Sound(m) /\ m \in Machine /\ m.freed \subseteq 1 .. top
  BY DEF Good, Sound
<1>2. /\ lst \in ListStruct /\ lst.head = NULL /\ lst.last = NULL /\ lst.size = 0
      /\ lst.duplicate = FALSE
  BY DEF NoList, ListStruct, NULL
<1> HIDE DEF lst
<1>3. m2 \in Machine
  BY <1>1, <1>2, Zenon DEF Machine
<1>4. /\ m2.node = m.node /\ m2.freed = m.freed /\ m2.gone = m.gone /\ m2.tail = m.tail
      /\ m2.objects = m.objects /\ m2.status = m.status /\ m2.list = lst
  BY <1>1, SMT DEF Machine
<1> HIDE DEF m2
<1>5. PICK n, q : Reaches(m, q, n)
  BY DEF Good
<1>6. top \in Nat /\ n \in Nat /\ 0 \in Nat /\ 0 <= n
  BY <1>1, <1>5, MachineNodes DEF Reaches, Listing
<1>7. CutBehind(m, q, 0, m2)
  <2>1. \A k \in 1 .. 0 : FALSE
    OBVIOUS
  <2>2. Within(lst, top)
    BY <1>2, <1>6 DEF Within, NULL
  <2>3. \A x \in 1 .. top : m.node[x].next <= top
    BY <1>1 DEF Sound
  <2>4. ~(0 > 0)
    OBVIOUS
  <2> QED
    BY <1>1, <1>2, <1>3, <1>4, <2>1, <2>2, <2>3, <2>4 DEF CutBehind
<1>8. Sound(m2) /\ Reaches(m2, Cut(q, 0), 0)
  BY <1>1, <1>5, <1>6, <1>7, CutKeeps
<1>9. Holds(m2, Cut(q, 0), 0, <<>>)
  <2>1. <<>> \in Seq(Nat) /\ Len(<<>>) = 0 /\ ~(0 > 0) /\ \A k \in 1 .. 0 : FALSE
    OBVIOUS
  <2> QED
    BY <1>2, <1>4, <2>1 DEF Holds
<1>10. Good(m2) /\ Is(m2, <<>>)
  BY <1>8, <1>9, Zenon DEF Good, Is
<1> QED
  BY <1>4, <1>10 DEF m2, lst

(* Removal by index keeps the path, whatever it takes.                     *)
LEMMA RemoveKeeps ==
  ASSUME NEW m, Good(m), m.status = "ok", m.list.size > 0, NEW i \in Nat, NEW deep \in BOOLEAN
  PROVE  LET m2 == Removed(m, i, deep)
         IN  /\ Good(m2) /\ Len(m2.node) = Len(m.node) /\ m2.objects = m.objects
             /\ debug /\ m.list.dynamic => m2.freed = m.freed /\ m2.gone = m.gone
<1> DEFINE m2 == Removed(m, i, deep)
           p == GetNode(m, i)
           x == NextOf(m, p)
           base == RemovedTo(m, p, x)
           data == {m.node[x].data}
           dropped == Drop(base, deep, data)
<1>1. Sound(m) /\ m \in Machine
  BY DEF Good, Sound
<1>2. m2 = Outcome(m, i < m.list.size, FreeAsserts(m.list) /\ m.list.head # NULL /\ GetAsserts(m, i),
                   Valid(m, p) /\ Valid(m, x), dropped)
  BY DEF Removed, RemovedTo
<1> HIDE DEF m2, p, x, dropped
<1>3. \/ m2 = Stopped(m, "abort")
      \/ m2 = Stopped(m, "undefined")
      \/ m2 = dropped /\ Valid(m, p) /\ Valid(m, x) /\ ~(debug /\ m.list.dynamic)
  BY <1>2 DEF Outcome, Stopped, FreeAsserts
<1>4. CASE m2 = Stopped(m, "abort") \/ m2 = Stopped(m, "undefined")
  BY <1>4, StoppedKeeps DEF m2
<1>5. CASE m2 = dropped /\ Valid(m, p) /\ Valid(m, x) /\ ~(debug /\ m.list.dynamic)
  <2>1. PICK n, q : Reaches(m, q, n)
    BY DEF Good
  <2>2. x = NextOf(m, p)
    BY DEF x
  <2>3. /\ Sound(base)
        /\ Len(base.node) = Len(m.node) /\ base.objects = m.objects
        /\ \E n2, q2 :
             /\ Reaches(base, q2, n2)
             /\ \A k \in 1 .. n2 : LET d == base.node[q2[k]].data
                                   IN  d # m.node[x].data \/ d = NULL
    BY <1>1, <1>5, <2>1, <2>2, RemovedKeeps
  <2> HIDE DEF base
  <2>4. PICK n2, q2 :
             /\ Reaches(base, q2, n2)
             /\ \A k \in 1 .. n2 : LET d == base.node[q2[k]].data
                                   IN  d # m.node[x].data \/ d = NULL
    BY <2>3
  <2>5. data \ {NULL} \subseteq 1 .. base.objects
    <3>1. x \in 1 .. Len(m.node)
      BY <1>1, <1>5, MachineNodes DEF Valid
    <3>2. m.node[x].data \in Nat /\ m.node[x].data <= m.objects /\ m.objects \in Nat
      BY <1>1, <3>1, MachineNodes DEF Sound, Machine
    <3> QED
      BY <2>3, <3>2 DEF NULL
  <2>6. \A k \in 1 .. n2 : base.node[q2[k]].data \notin data \/ base.node[q2[k]].data = NULL
    BY <2>4
  <2> HIDE DEF data
  <2>7. /\ Sound(dropped) /\ Reaches(dropped, q2, n2)
        /\ dropped.node = base.node /\ dropped.objects = base.objects
    BY <2>3, <2>4, <2>5, <2>6, DropKeeps DEF dropped
  <2>8. Good(dropped)
    BY <2>7 DEF Good
  <2> QED
    BY <1>5, <2>3, <2>7, <2>8 DEF m2
<1> QED
  BY <1>3, <1>4, <1>5

(* klist_pop keeps the path, and takes the last of several elements.       *)
LEMMA PopKeeps ==
  ASSUME NEW m, Good(m), m.status = "ok", m.list.size > 0
  PROVE  LET m2 == Popped(m)
         IN  /\ Good(m2) /\ Len(m2.node) = Len(m.node) /\ m2.objects = m.objects
             /\ debug /\ m.list.dynamic => m2.freed = m.freed /\ m2.gone = m.gone
             /\ \A c : Is(m, c) /\ m.list.size > 1 =>
                  /\ m2.status # "undefined"
                  /\ m2.status = "ok" => Is(m2, SubSeq(c, 1, Len(c) - 1))
<1> DEFINE m2 == Popped(m)
<1>1. Sound(m)
  BY DEF Good
<1>2. PICK n, q : Reaches(m, q, n)
  BY DEF Good
<1>3. ASSUME NEW c, Is(m, c) PROVE Holds(m, q, n, c) /\ n = m.list.size /\ n = Len(c)
  <2>1. Holds(m, q, n, c)
    BY <1>2, <1>3, OnePath
  <2> QED
    BY <2>1 DEF Holds
<1>4. \/ m2 = Stopped(m, "abort")
      \/ /\ m2 = Stopped(m, "undefined")
         /\ \A c : Holds(m, q, n, c) => n <= 1
      \/ /\ ~(debug /\ m.list.dynamic)
         /\ Sound(m2) /\ m2.status = m.status
         /\ Len(m2.node) = Len(m.node) /\ m2.objects = m.objects
         /\ \E n2, q2 :
              /\ Reaches(m2, q2, n2)
              /\ \A i \in 1 .. n2 : LET d == m2.node[q2[i]].data
                                    IN  d # LastData(m) \/ d = NULL
              /\ \A c : Holds(m, q, n, c) /\ n > 1 => Holds(m2, q2, n2, SubSeq(c, 1, n - 1))
  BY <1>1, <1>2, PoppedKeeps
<1> HIDE DEF m2
<1>5. CASE m2 = Stopped(m, "abort")
  <2>1. /\ Good(m2) /\ m2.status = "abort" /\ m2.node = m.node /\ m2.objects = m.objects
        /\ m2.freed = m.freed /\ m2.gone = m.gone
    BY <1>5, StoppedKeeps
  <2> QED
    BY <2>1 DEF m2
<1>6. CASE m2 = Stopped(m, "undefined") /\ \A c : Holds(m, q, n, c) => n <= 1
  <2>1. /\ Good(m2) /\ m2.node = m.node /\ m2.objects = m.objects
        /\ m2.freed = m.freed /\ m2.gone = m.gone
    BY <1>6, StoppedKeeps
  <2>2. \A c : ~(Is(m, c) /\ m.list.size > 1)
    <3> SUFFICES ASSUME NEW c, Is(m, c), m.list.size > 1 PROVE FALSE
      OBVIOUS
    <3>1. n <= 1 /\ n > 1
      BY <1>3, <1>6
    <3>2. n \in Nat
      BY <1>2 DEF Reaches, Listing
    <3> QED
      BY <3>1, <3>2
  <2> QED
    BY <2>1, <2>2 DEF m2
<1>7. CASE /\ ~(debug /\ m.list.dynamic)
           /\ Sound(m2) /\ m2.status = m.status
           /\ Len(m2.node) = Len(m.node) /\ m2.objects = m.objects
           /\ \E n2, q2 :
                /\ Reaches(m2, q2, n2)
                /\ \A i \in 1 .. n2 : LET d == m2.node[q2[i]].data
                                      IN  d # LastData(m) \/ d = NULL
                /\ \A c : Holds(m, q, n, c) /\ n > 1 => Holds(m2, q2, n2, SubSeq(c, 1, n - 1))
  <2>1. PICK n2, q2 :
          /\ Reaches(m2, q2, n2)
          /\ \A c : Holds(m, q, n, c) /\ n > 1 => Holds(m2, q2, n2, SubSeq(c, 1, n - 1))
    BY <1>7
  <2>2. Good(m2)
    BY <1>7, <2>1 DEF Good
  <2>3. ASSUME NEW c, Is(m, c), m.list.size > 1 PROVE Is(m2, SubSeq(c, 1, Len(c) - 1))
    <3>1. Holds(m2, q2, n2, SubSeq(c, 1, n - 1))
      BY <1>3, <2>1, <2>3
    <3>2. Holds(m2, q2, n2, SubSeq(c, 1, Len(c) - 1))
      BY <1>3, <2>3, <3>1
    <3> QED
      BY <1>7, <2>1, <3>2, Zenon DEF Is
  <2> QED
    BY <1>7, <2>2, <2>3 DEF m2
<1> QED
  BY <1>4, <1>5, <1>6, <1>7

\* One round of klist_shallow_shrink or klist_deep_shrink.
Round(p, size, deep) ==
  IF p.status = "ok" /\ p.list.size > size THEN Drop(Popped(p), deep, {LastData(p)}) ELSE p

\* The machines that a round may leave of one with top nodes.
Rounds(top, objects) ==
  {p \in Machine : /\ Sound(p) /\ (p.status = "ok" => Good(p))
                   /\ Len(p.node) = top /\ p.objects = objects}

(* A round keeps the path unless it stops, and takes the last of several   *)
(* elements.                                                               *)
LEMMA RoundKeeps ==
  ASSUME ~debug, NEW top, NEW objects, NEW p \in Rounds(top, objects), NEW size \in Nat,
         NEW deep \in BOOLEAN
  PROVE  LET m2 == Round(p, size, deep)
         IN  /\ m2 \in Rounds(top, objects)
             /\ \A c : Is(p, c) /\ p.status = "ok" /\ p.list.size > 1 /\ p.list.size > size =>
                  m2.status = "ok" /\ Is(m2, SubSeq(c, 1, Len(c) - 1))
<1> DEFINE m2 == Round(p, size, deep)
           data == {LastData(p)}
           popped == Popped(p)
<1>1. p \in Machine /\ Sound(p) /\ p.list.size \in Nat
  BY DEF Rounds, Machine, ListStruct
<1>2. CASE ~(p.status = "ok" /\ p.list.size > size)
  BY <1>2 DEF Round
<1>3. CASE p.status = "ok" /\ p.list.size > size
  <2>1. m2 = Drop(popped, deep, data) /\ Good(p) /\ p.list.size > 0
    BY <1>1, <1>3 DEF Round, Rounds
  <2> HIDE DEF m2
  <2>2. PICK n, q : Reaches(p, q, n)
    BY <2>1 DEF Good
  <2>3. data \ {NULL} \subseteq 1 .. p.objects
    <3>1. CASE Valid(p, p.list.last)
      <4>1. p.list.last \in 1 .. Len(p.node)
        BY <1>1, <3>1, MachineNodes DEF Valid
      <4>2. /\ p.node[p.list.last].data \in Nat /\ p.node[p.list.last].data <= p.objects
            /\ p.objects \in Nat
        BY <1>1, <4>1, MachineNodes DEF Sound, Machine
      <4> QED
        BY <3>1, <4>2 DEF LastData, NULL
    <3>2. CASE ~Valid(p, p.list.last)
      BY <3>2 DEF LastData
    <3> QED
      BY <3>1, <3>2
  <2>4. \/ /\ popped = Stopped(p, "undefined")
           /\ \A c : Holds(p, q, n, c) => n <= 1
        \/ /\ Sound(popped) /\ popped.status = p.status
           /\ Len(popped.node) = Len(p.node) /\ popped.objects = p.objects
           /\ \E n2, q2 :
                /\ Reaches(popped, q2, n2)
                /\ \A i \in 1 .. n2 : LET d == popped.node[q2[i]].data
                                      IN  d # LastData(p) \/ d = NULL
                /\ \A c : Holds(p, q, n, c) /\ n > 1
                            => Holds(popped, q2, n2, SubSeq(c, 1, n - 1))
    BY <1>1, <2>1, <2>2, PoppedKeeps
  <2>5. ASSUME NEW c, Is(p, c) PROVE Holds(p, q, n, c) /\ n = p.list.size /\ n = Len(c)
    <3>1. Holds(p, q, n, c)
      BY <2>2, <2>5, OnePath
    <3> QED
      BY <3>1 DEF Holds
  <2>6. n \in Nat
    BY <2>2 DEF Reaches, Listing
  <2> HIDE DEF popped, data
  <2>7. CASE popped = Stopped(p, "undefined") /\ \A c : Holds(p, q, n, c) => n <= 1
    <3>1. /\ Good(popped) /\ popped.status = "undefined" /\ popped.node = p.node
          /\ popped.objects = p.objects
      BY <2>1, <2>7, StoppedKeeps
    <3>2. Sound(m2) /\ m2.status = "undefined" /\ m2.node = p.node /\ m2.objects = p.objects
      <4>1. Sound(popped) /\ data \ {NULL} \subseteq 1 .. popped.objects
        BY <2>3, <3>1 DEF Good
      <4> DEFINE dropped == Drop(popped, deep, data)
      <4>2. /\ Sound(dropped) /\ dropped.status = popped.status /\ dropped.node = popped.node
            /\ dropped.objects = popped.objects
            /\ dropped.freed = popped.freed /\ dropped.list = popped.list
        BY <4>1, DropSound
      <4>3. m2 = dropped
        BY <2>1
      <4> HIDE DEF dropped
      <4> QED
        BY <3>1, <4>2, <4>3
    <3>3. m2 \in Rounds(top, objects)
      BY <3>2 DEF Rounds, Sound
    <3>4. \A c : ~(Is(p, c) /\ p.list.size > 1)
      <4> SUFFICES ASSUME NEW c, Is(p, c), p.list.size > 1 PROVE FALSE
        OBVIOUS
      <4>1. n <= 1 /\ n > 1
        BY <2>5, <2>7
      <4> QED
        BY <2>6, <4>1
    <3> QED
      BY <3>3, <3>4 DEF m2
  <2>8. CASE /\ Sound(popped) /\ popped.status = p.status
             /\ Len(popped.node) = Len(p.node) /\ popped.objects = p.objects
             /\ \E n2, q2 :
                  /\ Reaches(popped, q2, n2)
                  /\ \A i \in 1 .. n2 : LET d == popped.node[q2[i]].data
                                        IN  d # LastData(p) \/ d = NULL
                  /\ \A c : Holds(p, q, n, c) /\ n > 1
                              => Holds(popped, q2, n2, SubSeq(c, 1, n - 1))
    <3>1. PICK n2, q2 :
            /\ Reaches(popped, q2, n2)
            /\ \A i \in 1 .. n2 : LET d == popped.node[q2[i]].data
                                  IN  d # LastData(p) \/ d = NULL
            /\ \A c : Holds(p, q, n, c) /\ n > 1
                        => Holds(popped, q2, n2, SubSeq(c, 1, n - 1))
      BY <2>8
    <3>2. \A k \in 1 .. n2 : popped.node[q2[k]].data \notin data \/ popped.node[q2[k]].data = NULL
      BY <3>1 DEF data
    <3>3. /\ Sound(m2) /\ Reaches(m2, q2, n2)
          /\ \A c : Holds(popped, q2, n2, c) => Holds(m2, q2, n2, c)
          /\ m2.status = popped.status /\ m2.node = popped.node /\ m2.objects = popped.objects
      <4>1. data \ {NULL} \subseteq 1 .. popped.objects
        BY <2>3, <2>8
      <4> QED
        BY <2>1, <2>8, <3>1, <3>2, <4>1, DropKeeps
    <3>4. m2 \in Rounds(top, objects)
      <4>1. Good(m2)
        BY <3>3 DEF Good
      <4> QED
        BY <2>8, <3>3, <4>1 DEF Rounds, Sound
    <3>5. ASSUME NEW c, Is(p, c), p.list.size > 1 PROVE Is(m2, SubSeq(c, 1, Len(c) - 1))
      <4>1. Holds(popped, q2, n2, SubSeq(c, 1, n - 1)) /\ n = Len(c)
        BY <2>5, <3>1, <3>5
      <4>2. Holds(m2, q2, n2, SubSeq(c, 1, Len(c) - 1))
        BY <3>3, <4>1
      <4> QED
        BY <3>3, <4>2, Zenon DEF Is
    <3>6. m2.status = "ok"
      BY <1>3, <2>8, <3>3
    <3> QED
      BY <3>4, <3>5, <3>6 DEF m2
  <2> QED
    BY <2>4, <2>7, <2>8
<1> QED
  BY <1>2, <1>3

(* The first elements of a sequence.                                       *)
LEMMA SubSeqFirst ==
  ASSUME NEW c \in Seq(Nat), NEW n \in Nat, n <= Len(c)
  PROVE  /\ SubSeq(c, 1, n) \in Seq(Nat) /\ Len(SubSeq(c, 1, n)) = n
         /\ \A k \in 1 .. n : SubSeq(c, 1, n)[k] = c[k]
<1>1. Len(c) \in Nat
  BY LenProperties
<1>2. \A i \in 1 .. n : i \in 1 .. Len(c)
  BY <1>1
<1>3. /\ SubSeq(c, 1, n) \in Seq(Nat)
      /\ Len(SubSeq(c, 1, n)) = IF 1 <= n THEN n - 1 + 1 ELSE 0
      /\ \A i \in 1 .. n - 1 + 1 : SubSeq(c, 1, n)[i] = c[1 + i - 1]
  BY <1>2, SubSeqProperties
<1>4. Len(SubSeq(c, 1, n)) = n
  BY <1>3
<1>5. ASSUME NEW k \in 1 .. n PROVE SubSeq(c, 1, n)[k] = c[k]
  <2>1. k \in 1 .. n - 1 + 1 /\ 1 + k - 1 = k
    OBVIOUS
  <2> QED
    BY <1>3, <2>1
<1> QED
  BY <1>3, <1>4, <1>5

\* The rounds of klist_shallow_shrink and klist_deep_shrink, one by one.
IsRounds(pops, m, size, deep) ==
  pops = [i \in Nat |-> IF i = 0 THEN m ELSE Round(pops[i - 1], size, deep)]

(* There is such a function, and shrinking takes its values.               *)
LEMMA RoundsExist ==
  ASSUME ~debug, NEW m, Good(m), NEW size \in Nat, NEW deep \in BOOLEAN
  PROVE  \E pops : /\ IsRounds(pops, m, size, deep)
                   /\ Shrunk(m, size, deep) =
                        Outcome(m, m.list.size > size, FreeAsserts(m.list), TRUE,
                                pops[m.list.size + 1])
<1> DEFINE S == Rounds(Len(m.node), m.objects)
           f == [p \in S |-> Round(p, size, deep)]
<1>1. m \in S
  BY DEF Rounds, Good, Sound
<1>2. f \in [S -> S]
  <2>1. \A p \in S : Round(p, size, deep) \in S
    BY RoundKeeps
  <2> HIDE DEF S
  <2> QED
    BY <2>1
<1>3. PICK g \in [Nat -> S] : g = [i \in Nat |-> IF i = 0 THEN m ELSE f[g[i - 1]]]
  <2> HIDE DEF S, f
  <2> QED
    BY <1>1, <1>2, Repetition, SMTT(60)
<1>4. IsRounds(g, m, size, deep)
  <2> DEFINE h == [i \in Nat |-> IF i = 0 THEN m ELSE Round(g[i - 1], size, deep)]
  <2>1. ASSUME NEW i \in Nat, i # 0 PROVE f[g[i - 1]] = Round(g[i - 1], size, deep)
    <3>1. i - 1 \in Nat
      BY <2>1
    <3>2. g[i - 1] \in S
      BY <1>3, <3>1
    <3> HIDE DEF S
    <3> QED
      BY <3>2
  <2> HIDE DEF f
  <2>2. \A i \in Nat : g[i] = h[i]
    BY <1>3, <2>1
  <2>3. g = [i \in Nat |-> g[i]]
    <3> HIDE DEF S, h
    <3> QED
      BY <1>3
  <2>4. g = h
    <3> HIDE DEF h
    <3>1. h = [i \in Nat |-> h[i]]
      BY DEF h
    <3> QED
      BY <2>2, <2>3, <3>1
  <2> QED
    BY <2>4 DEF IsRounds
<1> DEFINE pops == CHOOSE w : IsRounds(w, m, size, deep)
<1>5. IsRounds(pops, m, size, deep)
  BY <1>4
<1>6. Shrunk(m, size, deep) =
        Outcome(m, m.list.size > size, FreeAsserts(m.list), TRUE, pops[m.list.size + 1])
  BY Zenon DEF Shrunk, IsRounds, Round
<1> HIDE DEF pops
<1> QED
  BY <1>5, <1>6

(* After i rounds, a sequence that was right at first has lost its last i  *)
(* elements, or as many as it had to.                                      *)
LEMMA RoundsKeep ==
  ASSUME ~debug, NEW m, Good(m), m.status = "ok", NEW size \in Nat, NEW deep \in BOOLEAN,
         NEW pops, IsRounds(pops, m, size, deep), NEW i \in Nat
  PROVE  /\ pops[i] \in Rounds(Len(m.node), m.objects)
         /\ \A c : Is(m, c) /\ 0 < size /\ size < Len(c) =>
              /\ pops[i].status = "ok"
              /\ Is(pops[i], SubSeq(c, 1, IF i < Len(c) - size THEN Len(c) - i ELSE size))
<1> DEFINE S == Rounds(Len(m.node), m.objects)
           left(c, j) == IF j < Len(c) - size THEN Len(c) - j ELSE size
           Kept(c, j) == pops[j].status = "ok" /\ Is(pops[j], SubSeq(c, 1, left(c, j)))
           Right(c) == Is(m, c) /\ 0 < size /\ size < Len(c)
           T == {j \in Nat : pops[j] \in S /\ \A c : Right(c) => Kept(c, j)}
<1>1. pops[0] = m /\ \A j \in Nat : pops[j + 1] = Round(pops[j], size, deep)
  <2>1. \A j \in Nat : pops[j] = IF j = 0 THEN m ELSE Round(pops[j - 1], size, deep)
    BY DEF IsRounds
  <2> SUFFICES ASSUME NEW j \in Nat PROVE pops[0] = m /\ pops[j + 1] = Round(pops[j], size, deep)
    OBVIOUS
  <2>2. j + 1 \in Nat /\ j + 1 # 0 /\ (j + 1) - 1 = j /\ 0 \in Nat
    OBVIOUS
  <2> QED
    BY <2>1, <2>2
<1>2. m \in S
  BY DEF Rounds, Good, Sound
<1>3. ASSUME NEW c, Right(c) PROVE c \in Seq(Nat) /\ Len(c) \in Nat
  <2>1. c \in Seq(Nat)
    BY <1>3 DEF Is, Holds
  <2> QED
    BY <2>1, LenProperties
<1>4. 0 \in T
  <2>1. ASSUME NEW c, Right(c) PROVE Kept(c, 0)
    <3>1. left(c, 0) = Len(c)
      BY <1>3, <2>1
    <3>2. SubSeq(c, 1, Len(c)) = c
      BY <1>3, <2>1, SubSeqFull
    <3> QED
      BY <1>1, <2>1, <3>1, <3>2
  <2> QED
    BY <1>1, <1>2, <2>1
<1>5. ASSUME NEW j \in Nat, j \in T PROVE j + 1 \in T
  <2>1. pops[j] \in S /\ pops[j + 1] = Round(pops[j], size, deep)
    BY <1>1, <1>5
  <2>2. /\ pops[j + 1] \in S
        /\ \A c : /\ Is(pops[j], c) /\ pops[j].status = "ok"
                  /\ pops[j].list.size > 1 /\ pops[j].list.size > size
                  => pops[j + 1].status = "ok" /\ Is(pops[j + 1], SubSeq(c, 1, Len(c) - 1))
    BY <2>1, RoundKeeps
  <2>3. ASSUME NEW c, Right(c) PROVE Kept(c, j + 1)
    <3> DEFINE n == left(c, j)
               e == SubSeq(c, 1, n)
    <3>1. c \in Seq(Nat) /\ Len(c) \in Nat /\ n \in Nat /\ size <= n /\ n <= Len(c)
      BY <1>3, <2>3
    <3>2. pops[j].status = "ok" /\ Is(pops[j], e)
      BY <1>5, <2>3
    <3>3. /\ e \in Seq(Nat) /\ Len(e) = n
          /\ \A k \in 1 .. n : e[k] = c[k]
      BY <3>1, SubSeqFirst
    <3>4. pops[j].list.size = n
      BY <3>2, <3>3 DEF Is, Holds
    <3>5. CASE j < Len(c) - size
      <4>1. n > size /\ n > 1 /\ left(c, j + 1) = n - 1 /\ n - 1 \in Nat /\ n - 1 <= n
        BY <1>3, <2>3, <3>1, <3>5
      <4>2. pops[j + 1].status = "ok" /\ Is(pops[j + 1], SubSeq(e, 1, n - 1))
        <5> HIDE DEF n, e
        <5> QED
          BY <2>2, <3>2, <3>3, <3>4, <4>1
      <4>3. SubSeq(e, 1, n - 1) = SubSeq(c, 1, n - 1)
        <5> HIDE DEF n, e
        <5>1. /\ SubSeq(e, 1, n - 1) \in Seq(Nat) /\ Len(SubSeq(e, 1, n - 1)) = n - 1
              /\ \A k \in 1 .. n - 1 : SubSeq(e, 1, n - 1)[k] = e[k]
          BY <3>3, <4>1, SubSeqFirst
        <5>2. /\ SubSeq(c, 1, n - 1) \in Seq(Nat) /\ Len(SubSeq(c, 1, n - 1)) = n - 1
              /\ \A k \in 1 .. n - 1 : SubSeq(c, 1, n - 1)[k] = c[k]
          <6>1. n - 1 <= Len(c)
            BY <3>1, <4>1
          <6> QED
            BY <3>1, <4>1, <6>1, SubSeqFirst
        <5>3. \A k \in 1 .. n - 1 : k \in 1 .. n
          BY <3>1
        <5> DEFINE a == SubSeq(e, 1, n - 1)
                   b == SubSeq(c, 1, n - 1)
        <5>4. /\ a \in Seq(Nat) /\ b \in Seq(Nat) /\ Len(a) = Len(b)
              /\ \A k \in 1 .. Len(a) : a[k] = b[k]
          BY <3>3, <5>1, <5>2, <5>3
        <5> HIDE DEF a, b
        <5>5. a = b
          BY <5>4, SameSeq
        <5> QED
          BY <5>5 DEF a, b
      <4> HIDE DEF n, e
      <4> QED
        BY <4>1, <4>2, <4>3
    <3>6. CASE ~(j < Len(c) - size)
      <4>1. n = size /\ left(c, j + 1) = size /\ ~(size > size)
        BY <1>3, <2>3, <3>6
      <4>2. pops[j + 1] = pops[j]
        BY <2>1, <3>4, <4>1 DEF Round
      <4> HIDE DEF left
      <4> QED
        BY <3>2, <4>1, <4>2
    <3> QED
      BY <3>5, <3>6
  <2> HIDE DEF Kept, Right, S
  <2> QED
    BY <2>2, <2>3
<1>6. Nat \subseteq T
  <2> HIDE DEF T
  <2> QED
    BY <1>4, <1>5, Induct
<1>7. i \in T
  <2> HIDE DEF T
  <2> QED
    BY <1>6
<1> QED
  BY <1>7

(* Shrinking keeps the path where it does not stop, and takes elements off *)
(* the end; in a debug build, it frees nothing.                            *)
LEMMA ShrunkKeeps ==
  ASSUME NEW m, Good(m), m.status = "ok", m.list.dynamic, debug \in BOOLEAN,
         NEW size \in Nat, NEW deep \in BOOLEAN
  PROVE  LET m2 == Shrunk(m, size, deep)
         IN  /\ Sound(m2) /\ (m2.status = "ok" => Good(m2))
             /\ Len(m2.node) = Len(m.node) /\ m2.objects = m.objects
             /\ debug => m2.freed = m.freed /\ m2.gone = m.gone
             /\ \A c : Is(m, c) /\ 0 < size =>
                  /\ m2.status # "undefined"
                  /\ m2.status = "ok" => size < Len(c) /\ Is(m2, SubSeq(c, 1, size))
<1> DEFINE m2 == Shrunk(m, size, deep)
           k == m.list.size + 1
<1>1. Sound(m) /\ m.list.size \in Nat /\ k \in Nat
  BY SMTT(60) DEF Good, Sound, Machine, ListStruct
<1>2. CASE m2 = Stopped(m, "abort")
  <2> HIDE DEF m2
  <2>1. /\ Good(m2) /\ m2.status = "abort" /\ m2.node = m.node /\ m2.objects = m.objects
        /\ m2.freed = m.freed /\ m2.gone = m.gone
    BY <1>2, StoppedKeeps
  <2> QED
    BY <2>1 DEF m2, Good
<1>3. CASE debug
  <2>1. m2 = Stopped(m, "abort")
    BY <1>3 DEF Shrunk, Outcome, FreeAsserts, Stopped
  <2> QED
    BY <1>2, <2>1
<1>4. CASE ~debug
  <2>1. PICK pops : /\ IsRounds(pops, m, size, deep)
                    /\ m2 = Outcome(m, m.list.size > size, FreeAsserts(m.list), TRUE, pops[k])
    <3> HIDE DEF k
    <3> QED
      BY <1>4, RoundsExist DEF k
  <2> HIDE DEF m2
  <2>2. /\ pops[k] \in Rounds(Len(m.node), m.objects)
        /\ \A c : Is(m, c) /\ 0 < size /\ size < Len(c) =>
             /\ pops[k].status = "ok"
             /\ Is(pops[k], SubSeq(c, 1, IF k < Len(c) - size THEN Len(c) - k ELSE size))
    BY <1>1, <1>4, <2>1, RoundsKeep
  <2>3. CASE ~(m.list.size > size)
    BY <1>2, <2>1, <2>3 DEF Outcome, Stopped
  <2>4. CASE m.list.size > size
    <3>1. m2 = pops[k]
      BY <1>4, <2>1, <2>4 DEF Outcome
    <3> HIDE DEF k
    <3>2. /\ Sound(m2) /\ (m2.status = "ok" => Good(m2))
          /\ Len(m2.node) = Len(m.node) /\ m2.objects = m.objects
      BY <2>2, <3>1 DEF Rounds
    <3>3. ASSUME NEW c, Is(m, c), 0 < size
          PROVE  m2.status = "ok" /\ size < Len(c) /\ Is(m2, SubSeq(c, 1, size))
      <4>1. Len(c) = m.list.size
        BY <3>3 DEF Is, Holds
      <4>2. size < Len(c) /\ ~(k < Len(c) - size)
        BY <1>1, <2>4, <4>1 DEF k
      <4> QED
        BY <2>2, <3>1, <3>3, <4>2
    <3> QED
      BY <1>4, <3>2, <3>3 DEF m2
  <2> QED
    BY <2>3, <2>4
<1> QED
  BY <1>3, <1>4
-----------------------------------------------------------------------------
(* The invariant.                                                          *)

ListInv ==
  /\ debug \in BOOLEAN /\ exact \in BOOLEAN
  /\ Sound(s) /\ Len(s.node) <= MaxNodes /\ s.objects <= MaxData
  /\ s.status = "ok" => Good(s)
  /\ exact /\ s.status = "ok" => Is(s, model)
  /\ exact /\ ~debug => s.status # "undefined"
  /\ debug => s.freed = {} /\ s.gone = {}

(* What a call has to keep for the invariant to hold after it.             *)
LEMMA CallKeeps ==
  ASSUME ListInv, NEW m, NEW c, NEW right, Call(m, c, right),
         Sound(m), Len(m.node) <= MaxNodes, m.objects <= MaxData,
         m.status = "ok" => Good(m),
         exact /\ right => /\ m.status = "ok" => Is(m, c)
                           /\ ~debug => m.status # "undefined",
         debug => m.freed = s.freed /\ m.gone = s.gone
  PROVE  ListInv'
<1>1. /\ s' = m /\ exact' = (exact /\ right) /\ model' = (IF exact' THEN c ELSE <<>>)
      /\ debug' = debug
  BY DEF Call
<1>2. exact' \in BOOLEAN /\ debug' \in BOOLEAN
  BY <1>1 DEF ListInv
<1>3. /\ Sound(s)' /\ Len(s'.node) <= MaxNodes /\ s'.objects <= MaxData
      /\ (s'.status = "ok" => Good(s)')
  BY <1>1
<1>4. exact' /\ s'.status = "ok" => Is(s, model)'
  BY <1>1
<1>5. exact' /\ ~debug' => s'.status # "undefined"
  BY <1>1
<1>6. debug' => s'.freed = {} /\ s'.gone = {}
  BY <1>1 DEF ListInv
<1> QED
  BY <1>2, <1>3, <1>4, <1>5, <1>6 DEF ListInv

(* While every call was right, the contents are a sequence as long as the  *)
(* list says.                                                              *)
LEMMA ModelIs ==
  ASSUME NEW m, NEW c, Is(m, c)
  PROVE  c \in Seq(Nat) /\ Len(c) = m.list.size /\ Len(c) \in Nat
<1>1. c \in Seq(Nat) /\ Len(c) = m.list.size
  BY DEF Is, Holds
<1> QED
  BY <1>1, LenProperties

(* The bounds that the calls leave room for.                               *)
LEMMA RoomIs ==
  ASSUME ListInv
  PROVE  /\ s.objects \in Nat /\ Object \in Nat /\ Len(s.node) \in Nat /\ s.list.size \in Nat
         /\ MaxNodes \in Nat /\ s \in Machine
<1>1. Sound(s) /\ s \in Machine /\ s.list \in ListStruct
  BY DEF ListInv, Sound, Machine
<1>2. s.objects \in Nat /\ s.list.size \in Nat
  BY <1>1 DEF Machine, ListStruct
<1> QED
  BY <1>1, <1>2, MachineNodes, KListAssumption DEF Object

(* The invariant holds at first.                                           *)
LEMMA ListInvInit == Init => ListInv
<1> SUFFICES ASSUME Init PROVE ListInv
  OBVIOUS
<1> DEFINE q == Cut(<<>>, 0)
<1>1. /\ s.node = <<>> /\ s.freed = {} /\ s.objects = 0 /\ s.gone = {}
      /\ s.list = NoList /\ s.tail = NoList /\ s.status = "ok"
      /\ debug \in BOOLEAN /\ model = <<>> /\ exact = TRUE
  BY DEF Init
<1>2. NoList \in ListStruct
  BY DEF NoList, ListStruct, NULL
<1>3. s \in Machine
  <2>1. <<>> \in Seq(Node) /\ {} \in SUBSET Nat /\ 0 \in Nat /\ "ok" \in {"ok", "abort", "undefined"}
    OBVIOUS
  <2> QED
    BY <1>2, <2>1 DEF Init, Machine
<1>4. Len(s.node) = 0 /\ \A k \in 1 .. 0 : FALSE
  BY <1>1
<1>5. /\ NoList.head = NULL /\ NoList.last = NULL /\ NoList.size = 0
      /\ NoList.duplicate = FALSE /\ NoList.live = FALSE
  BY DEF NoList
<1>6. Sound(s)
  <2>1. Within(NoList, 0)
    BY <1>5 DEF Within, NULL
  <2>2. {} \subseteq 1 .. 0
    OBVIOUS
  <2> QED
    BY <1>1, <1>3, <1>4, <1>5, <2>1, <2>2 DEF Sound
<1>7. Reaches(s, q, 0)
  <2>1. q \in [1 .. 0 -> 1 .. 0] /\ 0 \in Nat /\ ~(0 > 0) /\ \A k \in 1 .. 0 - 1 : FALSE
    BY DEF Cut
  <2> HIDE DEF q
  <2> QED
    BY <1>1, <1>4, <1>5, <2>1 DEF Reaches, Listing
<1>8. Holds(s, q, 0, <<>>)
  <2>1. <<>> \in Seq(Nat) /\ Len(<<>>) = 0 /\ ~(0 > 0)
    OBVIOUS
  <2> HIDE DEF q
  <2> QED
    BY <1>1, <1>4, <1>5, <2>1 DEF Holds
<1> HIDE DEF q
<1>9. Good(s) /\ Is(s, model)
  BY <1>1, <1>6, <1>7, <1>8, Zenon DEF Good, Is
<1>10. Len(s.node) <= MaxNodes /\ s.objects <= MaxData
  BY <1>1, <1>4, KListAssumption
<1> QED
  BY <1>1, <1>6, <1>9, <1>10 DEF ListInv

(* klist_new keeps it.                                                     *)
LEMMA CreateInv ==
  ASSUME ListInv, NEW dynamic \in BOOLEAN, NEW size \in Nat, Create(dynamic, size)
  PROVE  ListInv'
<1> DEFINE m == [s EXCEPT !.list = [NoList EXCEPT !.dynamic = dynamic, !.live = TRUE]]
           m2 == AppendAll(m, size, NULL)
           c == [i \in 1 .. size |-> NULL]
<1>1. /\ Call(m2, c, TRUE) /\ s.status = "ok" /\ Good(s) /\ Len(s.node) + size <= MaxNodes
      /\ s.objects <= MaxData
  BY DEF Create, Call, ListInv
<1>2. /\ Good(m) /\ Is(m, <<>>) /\ m.node = s.node /\ m.objects = s.objects
      /\ m.freed = s.freed /\ m.gone = s.gone /\ m.status = s.status
  BY <1>1, FreshKeeps
<1> HIDE DEF m
<1>3. /\ Good(m2) /\ Len(m2.node) <= Len(m.node) + size /\ m2.objects = m.objects
      /\ m2.freed = m.freed /\ m2.gone = m.gone
      /\ \A e : Is(m, e) => m2.status = "ok" /\ Is(m2, e \o Copies(NULL, size))
  BY <1>1, <1>2, AppendAllKeeps
<1> HIDE DEF m2
<1>4. <<>> \o Copies(NULL, size) = c
  BY DEF Copies
<1>5. Len(m2.node) <= MaxNodes
  <2>1. Len(m2.node) \in Nat
    BY <1>3, MachineNodes DEF Good, Sound
  <2> QED
    BY <1>1, <1>2, <1>3, <2>1, RoomIs
<1>6. Sound(m2) /\ Is(m2, c) /\ m2.status = "ok"
  BY <1>2, <1>3, <1>4 DEF Good
<1> HIDE DEF c
<1> QED
  BY <1>1, <1>2, <1>3, <1>5, <1>6, CallKeeps

(* So do the calls that bring an object.                                   *)
LEMMA AppendElementInv ==
  ASSUME ListInv, AppendElement
  PROVE  ListInv'
<1> DEFINE m == WithObject
           m2 == AppendAll(m, 1, Object)
<1>1. /\ Call(m2, Append(model, Object), TRUE) /\ s.status = "ok" /\ Good(s)
      /\ Len(s.node) + 1 <= MaxNodes /\ Object <= MaxData /\ (exact => Is(s, model))
      /\ Object \in Nat /\ MaxNodes \in Nat
  BY RoomIs DEF AppendElement, Room, Call, ListInv
<1>2. /\ Good(m) /\ Unused(m, Object) /\ \A c : Is(s, c) => Is(m, c)
      /\ m.node = s.node /\ m.freed = s.freed /\ m.gone = s.gone
      /\ m.objects = Object /\ m.status = s.status
  BY <1>1, ObjectKeeps
<1> HIDE DEF m
<1>3. /\ Good(m2) /\ Len(m2.node) <= Len(m.node) + 1 /\ m2.objects = m.objects
      /\ m2.freed = m.freed /\ m2.gone = m.gone
      /\ \A c : Is(m, c) => m2.status = "ok" /\ Is(m2, c \o Copies(Object, 1))
  <2>1. 1 \in Nat
    OBVIOUS
  <2> QED
    BY <1>1, <1>2, <2>1, AppendAllKeeps
<1> HIDE DEF m2
<1>4. Len(m2.node) <= MaxNodes
  <2>1. Len(m2.node) \in Nat
    BY <1>3, MachineNodes DEF Good, Sound
  <2> QED
    BY <1>1, <1>2, <1>3, <2>1, RoomIs
<1>5. exact => m2.status = "ok" /\ Is(m2, Append(model, Object))
  <2> SUFFICES ASSUME exact PROVE m2.status = "ok" /\ Is(m2, Append(model, Object))
    OBVIOUS
  <2>1. model \o Copies(Object, 1) = Append(model, Object)
    BY <1>1, ModelIs, InsertAtEnds
  <2> QED
    BY <1>1, <1>2, <1>3, <2>1
<1>6. Sound(m2)
  BY <1>3 DEF Good
<1> QED
  BY <1>1, <1>2, <1>3, <1>4, <1>5, <1>6, CallKeeps

(* klist_prepend.                                                          *)
LEMMA PrependInv ==
  ASSUME ListInv, Prepend
  PROVE  ListInv'
<1> DEFINE m == WithObject
           m2 == Prepended(m, Object)
           c == <<Object>> \o model
<1>1. /\ Call(m2, c, s.list.size > 0) /\ s.status = "ok" /\ Good(s)
      /\ Len(s.node) + 1 <= MaxNodes /\ Object <= MaxData /\ (exact => Is(s, model))
      /\ Object \in Nat /\ MaxNodes \in Nat
  BY RoomIs DEF Prepend, Room, Call, ListInv
<1>2. /\ Good(m) /\ Unused(m, Object) /\ \A e : Is(s, e) => Is(m, e)
      /\ m.node = s.node /\ m.freed = s.freed /\ m.gone = s.gone
      /\ m.objects = Object /\ m.status = s.status /\ m.list = s.list
  BY <1>1, ObjectKeeps
<1> HIDE DEF m
<1>3. /\ Good(m2) /\ Len(m2.node) = Len(m.node) + 1 /\ m2.objects = m.objects
      /\ m2.freed = m.freed /\ m2.gone = m.gone /\ m2.status = "ok"
      /\ \A e : Is(m, e) /\ m.list.size > 0 => Is(m2, InsertAt(e, 1, Object))
  BY <1>1, <1>2, PrependedKeeps
<1> HIDE DEF m2
<1>4. exact /\ s.list.size > 0 => Is(m2, c)
  <2> SUFFICES ASSUME exact, s.list.size > 0 PROVE Is(m2, c)
    OBVIOUS
  <2>1. c = InsertAt(model, 1, Object)
    BY <1>1, ModelIs, InsertAtEnds
  <2> HIDE DEF c
  <2> QED
    BY <1>1, <1>2, <1>3, <2>1
<1>5. Sound(m2)
  BY <1>3 DEF Good
<1> HIDE DEF c
<1> QED
  BY <1>1, <1>2, <1>3, <1>4, <1>5, CallKeeps

(* klist_insert.                                                           *)
LEMMA InsertInv ==
  ASSUME ListInv, NEW i \in Nat, Insert(i)
  PROVE  ListInv'
<1> DEFINE m == WithObject
           m2 == Inserted(m, i, Object)
           c == IF i > Len(model) THEN model ELSE InsertAt(model, i + 1, Object)
           right == s.list.size > 0 /\ i \in {0, 1, s.list.size}
<1>1. /\ Call(m2, c, right) /\ s.status = "ok" /\ Good(s)
      /\ Len(s.node) + 1 <= MaxNodes /\ Object <= MaxData /\ (exact => Is(s, model))
      /\ Object \in Nat /\ MaxNodes \in Nat
  BY RoomIs DEF Insert, Room, Call, ListInv
<1>2. /\ Good(m) /\ Unused(m, Object) /\ \A e : Is(s, e) => Is(m, e)
      /\ m.node = s.node /\ m.freed = s.freed /\ m.gone = s.gone
      /\ m.objects = Object /\ m.status = s.status /\ m.list = s.list
  BY <1>1, ObjectKeeps
<1> HIDE DEF m
<1>3. /\ Good(m2) /\ Len(m2.node) <= Len(m.node) + 1 /\ m2.objects = m.objects
      /\ m2.freed = m.freed /\ m2.gone = m.gone
      /\ \A e : Is(m, e) /\ m.list.size > 0 /\ i \in {0, 1, m.list.size} =>
           /\ m2.status # "undefined"
           /\ m2.status = "ok" => i <= Len(e) /\ Is(m2, InsertAt(e, i + 1, Object))
  BY <1>1, <1>2, InsertedKeeps
<1> HIDE DEF m2
<1>4. Len(m2.node) <= MaxNodes
  <2>1. Len(m2.node) \in Nat
    BY <1>3, MachineNodes DEF Good, Sound
  <2> QED
    BY <1>1, <1>2, <1>3, <2>1, RoomIs
<1>5. exact /\ right => m2.status # "undefined" /\ (m2.status = "ok" => Is(m2, c))
  <2> SUFFICES ASSUME exact, right
               PROVE  m2.status # "undefined" /\ (m2.status = "ok" => Is(m2, c))
    OBVIOUS
  <2>1. /\ m2.status # "undefined"
        /\ m2.status = "ok" => i <= Len(model) /\ Is(m2, InsertAt(model, i + 1, Object))
    BY <1>1, <1>2, <1>3
  <2>2. i <= Len(model) => c = InsertAt(model, i + 1, Object)
    <3>1. Len(model) \in Nat
      BY <1>1, ModelIs
    <3> QED
      BY <3>1
  <2> HIDE DEF c
  <2> QED
    BY <2>1, <2>2
<1>6. Sound(m2)
  BY <1>3 DEF Good
<1> HIDE DEF c, right
<1> QED
  BY <1>1, <1>2, <1>3, <1>4, <1>5, <1>6, CallKeeps

(* klist_set.                                                              *)
LEMMA UpdateInv ==
  ASSUME ListInv, NEW i \in Nat, Update(i)
  PROVE  ListInv'
<1> DEFINE m == WithObject
           m2 == Updated(m, i, Object)
           c == IF i >= Len(model) THEN model ELSE [model EXCEPT ![i + 1] = Object]
           right == i = 0 \/ i + 1 = s.list.size
<1>1. /\ Call(m2, c, right) /\ s.status = "ok" /\ Good(s) /\ s.list.size > 0
      /\ Len(s.node) <= MaxNodes /\ Object <= MaxData /\ (exact => Is(s, model))
      /\ Object \in Nat /\ MaxNodes \in Nat
  BY RoomIs DEF Update, Room, Call, ListInv
<1>2. /\ Good(m) /\ Unused(m, Object) /\ \A e : Is(s, e) => Is(m, e)
      /\ m.node = s.node /\ m.freed = s.freed /\ m.gone = s.gone
      /\ m.objects = Object /\ m.status = s.status /\ m.list = s.list
  BY <1>1, ObjectKeeps
<1> HIDE DEF m
<1>3. /\ Good(m2) /\ Len(m2.node) = Len(m.node) /\ m2.objects = m.objects
      /\ m2.freed = m.freed /\ m2.gone = m.gone
      /\ \A e : Is(m, e) /\ (i = 0 \/ i + 1 = m.list.size) =>
           /\ m2.status # "undefined"
           /\ m2.status = "ok" => i < Len(e) /\ Is(m2, [e EXCEPT ![i + 1] = Object])
  BY <1>1, <1>2, UpdatedKeeps
<1> HIDE DEF m2
<1>4. exact /\ right => m2.status # "undefined" /\ (m2.status = "ok" => Is(m2, c))
  <2> SUFFICES ASSUME exact, right
               PROVE  m2.status # "undefined" /\ (m2.status = "ok" => Is(m2, c))
    OBVIOUS
  <2>1. /\ m2.status # "undefined"
        /\ m2.status = "ok" => i < Len(model) /\ Is(m2, [model EXCEPT ![i + 1] = Object])
    BY <1>1, <1>2, <1>3
  <2>2. i < Len(model) => c = [model EXCEPT ![i + 1] = Object]
    <3>1. Len(model) \in Nat
      BY <1>1, ModelIs
    <3> QED
      BY <3>1
  <2> HIDE DEF c
  <2> QED
    BY <2>1, <2>2
<1>5. Sound(m2)
  BY <1>3 DEF Good
<1> HIDE DEF c, right
<1> QED
  BY <1>1, <1>2, <1>3, <1>4, <1>5, CallKeeps

(* So do those that work on the nodes there are.                           *)
LEMMA GrowInv ==
  ASSUME ListInv, NEW size \in Nat, Grow(size)
  PROVE  ListInv'
<1> DEFINE m2 == Grown(s, size)
           c == model \o [i \in 1 .. size - Len(model) |-> NULL]
           right == s.list.size = 0
<1>1. /\ Call(m2, c, right) /\ s.status = "ok" /\ Good(s)
      /\ Len(s.node) + size <= MaxNodes /\ s.objects <= MaxData /\ (exact => Is(s, model))
  BY DEF Grow, Room, Call, ListInv
<1>2. /\ Good(m2) /\ Len(m2.node) <= Len(s.node) + size /\ m2.objects = s.objects
      /\ m2.freed = s.freed /\ m2.gone = s.gone
      /\ \A e : Is(s, e) => /\ m2.status # "undefined"
                            /\ m2.status = "ok" => Is(m2, e \o Copies(NULL, size))
  BY <1>1, GrownKeeps
<1> HIDE DEF m2
<1>3. Len(m2.node) <= MaxNodes
  <2>1. Len(m2.node) \in Nat
    BY <1>2, MachineNodes DEF Good, Sound
  <2> QED
    BY <1>1, <1>2, <2>1, RoomIs
<1>4. exact /\ right => m2.status # "undefined" /\ (m2.status = "ok" => Is(m2, c))
  <2> SUFFICES ASSUME exact, right
               PROVE  m2.status # "undefined" /\ (m2.status = "ok" => Is(m2, c))
    OBVIOUS
  <2>1. size - Len(model) = size
    <3>1. Len(model) = 0
      BY <1>1, ModelIs
    <3> QED
      BY <3>1
  <2>2. c = model \o Copies(NULL, size)
    BY <2>1 DEF Copies
  <2> HIDE DEF c
  <2> QED
    BY <1>1, <1>2, <2>2
<1>5. Sound(m2)
  BY <1>2 DEF Good
<1> HIDE DEF c, right
<1> QED
  BY <1>1, <1>2, <1>3, <1>4, <1>5, CallKeeps

(* klist_pop.                                                              *)
LEMMA PopInv ==
  ASSUME ListInv, Pop
  PROVE  ListInv'
<1> DEFINE m2 == Popped(s)
           c == SubSeq(model, 1, Len(model) - 1)
           right == s.list.size > 1
<1>1. /\ Call(m2, c, right) /\ s.status = "ok" /\ Good(s) /\ s.list.size > 0 /\ s.list.dynamic
      /\ Len(s.node) <= MaxNodes /\ s.objects <= MaxData /\ (exact => Is(s, model))
  BY DEF Pop, Room, MayFree, Call, ListInv
<1>2. /\ Good(m2) /\ Len(m2.node) = Len(s.node) /\ m2.objects = s.objects
      /\ debug /\ s.list.dynamic => m2.freed = s.freed /\ m2.gone = s.gone
      /\ \A e : Is(s, e) /\ s.list.size > 1 =>
           /\ m2.status # "undefined"
           /\ m2.status = "ok" => Is(m2, SubSeq(e, 1, Len(e) - 1))
  BY <1>1, PopKeeps
<1> HIDE DEF m2
<1>3. exact /\ right => m2.status # "undefined" /\ (m2.status = "ok" => Is(m2, c))
  BY <1>1, <1>2
<1>4. Sound(m2)
  BY <1>2 DEF Good
<1> HIDE DEF c, right
<1> QED
  BY <1>1, <1>2, <1>3, <1>4, CallKeeps

(* klist_shallow_shrink and klist_deep_shrink.                             *)
LEMMA ShrinkInv ==
  ASSUME ListInv, NEW size \in Nat, NEW deep \in BOOLEAN, Shrink(size, deep)
  PROVE  ListInv'
<1> DEFINE m2 == Shrunk(s, size, deep)
           c == IF size > Len(model) THEN model ELSE SubSeq(model, 1, size)
           right == size > 0
<1>1. /\ Call(m2, c, right) /\ s.status = "ok" /\ Good(s) /\ s.list.dynamic
      /\ Len(s.node) <= MaxNodes /\ s.objects <= MaxData /\ (exact => Is(s, model))
      /\ debug \in BOOLEAN
  BY DEF Shrink, Room, MayFree, Call, ListInv
<1>2. /\ Sound(m2) /\ (m2.status = "ok" => Good(m2))
      /\ Len(m2.node) = Len(s.node) /\ m2.objects = s.objects
      /\ debug => m2.freed = s.freed /\ m2.gone = s.gone
      /\ \A e : Is(s, e) /\ 0 < size =>
           /\ m2.status # "undefined"
           /\ m2.status = "ok" => size < Len(e) /\ Is(m2, SubSeq(e, 1, size))
  BY <1>1, ShrunkKeeps
<1> HIDE DEF m2
<1>3. exact /\ right => m2.status # "undefined" /\ (m2.status = "ok" => Is(m2, c))
  <2> SUFFICES ASSUME exact, right
               PROVE  m2.status # "undefined" /\ (m2.status = "ok" => Is(m2, c))
    OBVIOUS
  <2>1. /\ m2.status # "undefined"
        /\ m2.status = "ok" => size < Len(model) /\ Is(m2, SubSeq(model, 1, size))
    <3>1. 0 < size
      OBVIOUS
    <3> QED
      BY <1>1, <1>2, <3>1
  <2>2. size < Len(model) => c = SubSeq(model, 1, size)
    <3>1. Len(model) \in Nat
      BY <1>1, ModelIs
    <3> QED
      BY <3>1
  <2> HIDE DEF c
  <2> QED
    BY <2>1, <2>2
<1> HIDE DEF c, right
<1> QED
  BY <1>1, <1>2, <1>3, CallKeeps

(* klist_shallow_remove and klist_deep_remove.                             *)
LEMMA RemoveElementInv ==
  ASSUME ListInv, NEW i \in Nat, NEW deep \in BOOLEAN, RemoveElement(i, deep)
  PROVE  ListInv'
<1> DEFINE m2 == Removed(s, i, deep)
           c == IF i >= Len(model) THEN model ELSE RemoveAt(model, i + 1)
<1>1. /\ Call(m2, c, FALSE) /\ s.status = "ok" /\ Good(s) /\ s.list.size > 0 /\ s.list.dynamic
      /\ Len(s.node) <= MaxNodes /\ s.objects <= MaxData
  BY DEF RemoveElement, Room, MayFree, Call, ListInv
<1>2. /\ Good(m2) /\ Len(m2.node) = Len(s.node) /\ m2.objects = s.objects
      /\ debug /\ s.list.dynamic => m2.freed = s.freed /\ m2.gone = s.gone
  BY <1>1, RemoveKeeps
<1> HIDE DEF m2, c
<1>3. Sound(m2)
  BY <1>2 DEF Good
<1> QED
  BY <1>1, <1>2, <1>3, CallKeeps

(* klist_shallow_free and klist_deep_free of the list.                     *)
LEMMA FreeListInv ==
  ASSUME ListInv, NEW deep \in BOOLEAN, FreeList(deep)
  PROVE  ListInv'
<1> DEFINE m2 == Freed(s, "list", deep)
<1>1. /\ Call(m2, <<>>, TRUE) /\ s.status = "ok" /\ Good(s) /\ s.list.dynamic
      /\ Len(s.node) <= MaxNodes /\ s.objects <= MaxData
  BY DEF FreeList, Room, Call, ListInv
<1>2. /\ Good(m2) /\ Len(m2.node) = Len(s.node) /\ m2.objects = s.objects
      /\ m2.status # "undefined" /\ (m2.status = "ok" => Is(m2, <<>>))
      /\ debug /\ s.list.dynamic => m2.freed = s.freed /\ m2.gone = s.gone
  BY <1>1, ListFreedKeeps
<1> HIDE DEF m2
<1>3. Sound(m2)
  BY <1>2 DEF Good
<1> QED
  BY <1>1, <1>2, <1>3, CallKeeps

(* klist_tail.                                                             *)
LEMMA MakeTailInv ==
  ASSUME ListInv, NEW garbage \in BOOLEAN, MakeTail(garbage)
  PROVE  ListInv'
<1> DEFINE m2 == TailOf(s, garbage)
<1>1. /\ Call(m2, model, TRUE) /\ s.status = "ok" /\ Good(s) /\ s.list.size > 0
      /\ Len(s.node) <= MaxNodes /\ s.objects <= MaxData /\ (exact => Is(s, model))
  BY DEF MakeTail, Room, Call, ListInv
<1>2. /\ Good(m2) /\ m2.node = s.node /\ m2.objects = s.objects
      /\ m2.freed = s.freed /\ m2.gone = s.gone
      /\ m2.status = "ok" => \A c : Is(s, c) => Is(m2, c)
      /\ \A c : Is(s, c) => m2.status # "undefined"
  BY <1>1, TailOfKeeps
<1> HIDE DEF m2
<1>3. Sound(m2)
  BY <1>2 DEF Good
<1>4. exact => m2.status # "undefined" /\ (m2.status = "ok" => Is(m2, model))
  BY <1>1, <1>2
<1> QED
  BY <1>1, <1>2, <1>3, <1>4, CallKeeps

(* klist_shallow_free and klist_deep_free of the tail.                     *)
LEMMA FreeTailInv ==
  ASSUME ListInv, NEW deep \in BOOLEAN, FreeTail(deep)
  PROVE  ListInv'
<1> DEFINE m2 == Freed(s, "tail", deep)
<1>1. /\ Call(m2, model, TRUE) /\ s.status = "ok" /\ Good(s) /\ s.tail.live
      /\ Len(s.node) <= MaxNodes /\ s.objects <= MaxData /\ (exact => Is(s, model))
  BY DEF FreeTail, Call, ListInv
<1>2. /\ Good(m2) /\ Len(m2.node) = Len(s.node) /\ m2.objects = s.objects
      /\ m2.status # "undefined" /\ (m2.status = "ok" => \A c : Is(s, c) => Is(m2, c))
      /\ m2.freed = s.freed /\ m2.gone = s.gone
  BY <1>1, TailFreedKeeps
<1> HIDE DEF m2
<1>3. Sound(m2)
  BY <1>2 DEF Good
<1>4. exact /\ m2.status = "ok" => Is(m2, model)
  BY <1>1, <1>2
<1> QED
  BY <1>1, <1>2, <1>3, <1>4, CallKeeps

(* Every step keeps the invariant.                                         *)
LEMMA ListInvNext == ListInv /\ [Next]_vars => ListInv'
<1> SUFFICES ASSUME ListInv, [Next]_vars PROVE ListInv'
  OBVIOUS
<1>1. 0 .. 2 \subseteq Nat /\ 0 .. MaxNodes \subseteq Nat
  OBVIOUS
<1>2. CASE \E dynamic \in BOOLEAN, size \in 0 .. 2 : Create(dynamic, size)
  BY <1>1, <1>2, CreateInv
<1>3. CASE AppendElement
  BY <1>3, AppendElementInv
<1>4. CASE Prepend
  BY <1>4, PrependInv
<1>5. CASE Pop
  BY <1>5, PopInv
<1>6. CASE \E i \in 0 .. MaxNodes : Insert(i) \/ Update(i) \/ Grow(i)
  <2>1. PICK i \in 0 .. MaxNodes : Insert(i) \/ Update(i) \/ Grow(i)
    BY <1>6
  <2>2. i \in Nat
    BY <1>1
  <2> QED
    BY <2>1, <2>2, InsertInv, UpdateInv, GrowInv
<1>7. CASE \E deep \in BOOLEAN : FreeList(deep) \/ FreeTail(deep)
  BY <1>7, FreeListInv, FreeTailInv
<1>8. CASE \E deep \in BOOLEAN, i \in 0 .. MaxNodes : Shrink(i, deep) \/ RemoveElement(i, deep)
  <2>1. PICK deep \in BOOLEAN, i \in 0 .. MaxNodes : Shrink(i, deep) \/ RemoveElement(i, deep)
    BY <1>8
  <2>2. i \in Nat
    BY <1>1
  <2> QED
    BY <2>1, <2>2, ShrinkInv, RemoveElementInv
<1>9. CASE \E garbage \in BOOLEAN : MakeTail(garbage)
  BY <1>9, MakeTailInv
<1>10. CASE UNCHANGED vars
  BY <1>10 DEF vars, ListInv
<1> QED
  BY <1>2, <1>3, <1>4, <1>5, <1>6, <1>7, <1>8, <1>9, <1>10 DEF Next

(* So every reachable state has it.                                        *)
THEOREM ListInvHolds == Spec => []ListInv
<1> QED
  BY ListInvInit, ListInvNext, PTL DEF Spec

-----------------------------------------------------------------------------
(* The properties.                                                         *)

(* The types: pointers stay among the nodes that klist.c allocated, and a  *)
(* size never exceeds their number.                                        *)
THEOREM ListTypeCorrect == Spec => []TypeOK
<1>1. ListInv => TypeOK
  <2> SUFFICES ASSUME ListInv PROVE TypeOK
    OBVIOUS
  <2>1. Sound(s) /\ s \in Machine
    BY DEF ListInv, Sound
  <2> DEFINE top == Len(s.node)
  <2>2. top \in Nat /\ top <= MaxNodes /\ MaxNodes \in Nat
        /\ s.objects \in Nat /\ s.objects <= MaxData /\ MaxData \in Nat
    BY RoomIs, KListAssumption DEF ListInv
  <2>3. /\ DOMAIN s.node = 1 .. top /\ s.node \in [1 .. top -> Node]
        /\ \A x \in 1 .. top : s.node[x].data \in Nat /\ s.node[x].next \in Nat
    BY <2>1, MachineNodes
  <2>4. ASSUME NEW x \in 1 .. top
        PROVE  /\ s.node[x].data \in 0 .. MaxData /\ s.node[x].next \in 0 .. MaxNodes
               /\ s.node[x].next \in 0 .. top
               /\ s.node[x] = [data |-> s.node[x].data, next |-> s.node[x].next]
    <3>1. s.node[x].data <= s.objects /\ s.node[x].next <= top
      BY <2>1 DEF Sound
    <3>2. s.node[x].data \in Nat /\ s.node[x].next \in Nat
      BY <2>3
    <3>3. s.node[x] \in Node
      BY <2>3
    <3> QED
      BY <2>2, <3>1, <3>2, <3>3 DEF Node
  <2>5. s.node \in Seq([data : 0 .. MaxData, next : 0 .. MaxNodes])
    <3> DEFINE N == [data : 0 .. MaxData, next : 0 .. MaxNodes]
    <3>1. \A x \in 1 .. top : s.node[x] \in N
      <4> SUFFICES ASSUME NEW x \in 1 .. top PROVE s.node[x] \in N
        OBVIOUS
      <4>1. [data |-> s.node[x].data, next |-> s.node[x].next] \in N
        BY <2>4
      <4> QED
        BY <2>4, <4>1, Zenon
    <3> HIDE DEF N
    <3>2. s.node \in [1 .. top -> N]
      BY <2>3, <3>1
    <3> QED
      BY <2>2, <3>2, SeqDef DEF N
  <2>6. \A l : l \in ListStruct /\ Within(l, top) => l \in Struct /\ l.size <= top
    <3> SUFFICES ASSUME NEW l, l \in ListStruct, Within(l, top) PROVE l \in Struct /\ l.size <= top
      OBVIOUS
    <3>1. /\ l.head \in Nat /\ l.last \in Nat /\ l.size \in Nat
          /\ l.head <= top /\ l.last <= top /\ l.size <= top
          /\ l.dynamic \in BOOLEAN /\ l.duplicate \in BOOLEAN /\ l.live \in BOOLEAN
      BY DEF ListStruct, Within
    <3>2. l.head \in 0 .. MaxNodes /\ l.last \in 0 .. MaxNodes /\ l.size \in 0 .. MaxNodes
      BY <2>2, <3>1
    <3>3. l = [head |-> l.head, last |-> l.last, size |-> l.size, dynamic |-> l.dynamic,
               duplicate |-> l.duplicate, live |-> l.live]
      BY DEF ListStruct
    <3> QED
      BY <3>1, <3>2, <3>3 DEF Struct
  <2>7. /\ s.freed \subseteq 1 .. top /\ s.gone \subseteq 1 .. s.objects
        /\ s.list \in ListStruct /\ Within(s.list, top)
        /\ s.tail \in ListStruct /\ Within(s.tail, top)
        /\ s.status \in {"ok", "abort", "undefined"}
    BY <2>1 DEF Sound, Machine
  <2> QED
    BY <2>3, <2>4, <2>5, <2>6, <2>7 DEF TypeOK
<1> QED
  BY <1>1, ListInvHolds, PTL

(* No sequence of calls on a list and its tail, the wrong ones included,   *)
(* leaves a freed node, a freed object or a cycle behind the head.         *)
THEOREM ListNeverDangles == Spec => []NothingFreedIsListed
<1>1. ListInv => NothingFreedIsListed
  <2> SUFFICES ASSUME ListInv, s.status = "ok"
               PROVE  LET c == Chain(s, s.list.head)
                      IN  /\ IsInjective(c)
                          /\ c # <<>> => s.node[Last(c)].next = NULL
                          /\ s.list.head # NULL => Valid(s, s.list.head)
                          /\ \A i \in DOMAIN c : s.node[c[i]].data \notin s.gone
    BY DEF NothingFreedIsListed
  <2>1. Sound(s)
    BY DEF ListInv
  <2>2. PICK n, q : Reaches(s, q, n)
    BY DEF ListInv, Good
  <2>3. /\ Chain(s, s.list.head) = q /\ DOMAIN q = 1 .. n
        /\ q \in Seq(1 .. Len(s.node)) /\ Len(q) = n
        /\ \A k \in 1 .. n : Valid(s, q[k])
    BY <2>1, <2>2, ChainIs
  <2>4. /\ n \in Nat
        /\ \A j, k \in 1 .. n : q[j] = q[k] => j = k
        /\ n = 0 => s.list.head = NULL
        /\ n > 0 => s.list.head = q[1] /\ Succ(s)[q[n]] = NULL
    BY <2>2 DEF Reaches, Listing
  <2>5. IsInjective(q)
    BY <2>3, <2>4 DEF IsInjective
  <2>6. ASSUME q # <<>> PROVE s.node[Last(q)].next = NULL
    <3>1. n > 0 /\ n \in 1 .. n
      <4>1. n # 0
        BY <2>3, <2>6, EmptySeq
      <4> QED
        BY <2>4, <4>1
    <3>2. Last(q) = q[n] /\ q[n] \in 1 .. Len(s.node)
      BY <2>3, <3>1 DEF Last
    <3> QED
      BY <2>1, <2>4, <3>1, <3>2, SuccIs
  <2>7. ASSUME s.list.head # NULL PROVE Valid(s, s.list.head)
    <3>1. n > 0 /\ 1 \in 1 .. n
      BY <2>4, <2>7
    <3> QED
      BY <2>3, <2>4, <3>1
  <2>8. \A i \in DOMAIN q : s.node[q[i]].data \notin s.gone
    BY <2>2, <2>3 DEF Reaches
  <2> QED
    BY <2>3, <2>5, <2>6, <2>7, <2>8
<1> QED
  BY <1>1, ListInvHolds, PTL

(* While every call is one that klist.c gets right, the list is the        *)
(* sequence that klist.h describes, at every index.                        *)
THEOREM ListAsDocumented == Spec => []ContentsAsDocumented
<1>1. ListInv => ContentsAsDocumented
  <2> SUFFICES ASSUME ListInv PROVE ContentsAsDocumented
    OBVIOUS
  <2>1. ASSUME s.status = "ok", exact
        PROVE  /\ Contents(s) = model
               /\ s.list.size = Len(model)
               /\ \A i \in 0 .. Len(model) - 1 :
                    LET n == IndexedNode(s, i) IN Valid(s, n) /\ s.node[n].data = model[i + 1]
    <3>1. Sound(s)
      BY DEF ListInv
    <3>2. PICK n, q : Reaches(s, q, n) /\ Holds(s, q, n, model)
      BY <2>1 DEF ListInv, Is
    <3>3. /\ Chain(s, s.list.head) = q /\ DOMAIN q = 1 .. n
          /\ \A k \in 1 .. n : Valid(s, q[k])
      BY <3>1, <3>2, ChainIs
    <3>4. /\ n \in Nat /\ model \in Seq(Nat) /\ Len(model) = n /\ s.list.size = n
          /\ n > 0 => s.list.last = q[n]
          /\ \A k \in 1 .. n : s.node[q[k]].data = model[k]
      BY <3>2 DEF Reaches, Listing, Holds
    <3>5. Contents(s) = model
      <4>1. Contents(s) = [i \in 1 .. n |-> s.node[q[i]].data]
        BY <3>3 DEF Contents
      <4>2. model = [i \in 1 .. n |-> model[i]]
        BY <3>4, LenProperties
      <4> QED
        BY <3>4, <4>1, <4>2
    <3>6. ASSUME NEW i \in 0 .. Len(model) - 1
          PROVE  LET x == IndexedNode(s, i) IN Valid(s, x) /\ s.node[x].data = model[i + 1]
      <4>1. i \in Nat /\ i < n /\ i + 1 \in 1 .. n /\ n > 0
        BY <3>4
      <4>2. IndexedNode(s, i) = q[i + 1]
        <5>1. CASE i + 1 = s.list.size
          BY <3>4, <4>1, <5>1 DEF IndexedNode
        <5>2. CASE i + 1 # s.list.size
          <6>1. Follow(s, s.list.head, i) = q[i + 1]
            BY <3>1, <3>2, <4>1, FollowIs
          <6> QED
            BY <5>2, <6>1 DEF IndexedNode
        <5> QED
          BY <5>1, <5>2
      <4> QED
        BY <3>3, <3>4, <4>1, <4>2
    <3> QED
      BY <3>4, <3>5, <3>6
  <2> QED
    BY <2>1 DEF ListInv, ContentsAsDocumented
<1> QED
  BY <1>1, ListInvHolds, PTL
=============================================================================
