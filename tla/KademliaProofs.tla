--------------------------- MODULE KademliaProofs ---------------------------
(***************************************************************************)
(* The buckets stay bounded, free of duplicates and in order of distance;  *)
(* and in a network that can be searched, where nothing is lost or late, a *)
(* value is stored at the closest node and found again, for any network,   *)
(* IDs, key, bucket size, number of parallel queries and initial table.    *)
(***************************************************************************)
EXTENDS Kademlia, SequenceTheorems, WellFoundedInduction, FiniteSetTheorems, TLAPS

-----------------------------------------------------------------------------
(* Numbers and sequences                                                    *)

\* Every set of naturals that is not empty has a smallest one.
LEMMA Smallest ==
    ASSUME NEW T \in SUBSET Nat, T # {}
    PROVE  \E x \in T : \A y \in T : x <= y
<1>1. PICK x \in T : \A y \in T : ~ (<<y, x>> \in OpToRel(<, Nat))
  BY NatLessThanWellFounded, WFMin
<1>2. \A y \in T : ~ (y < x)
  BY <1>1 DEF OpToRel
<1>3. \A y \in T : x \in Nat /\ y \in Nat
  OBVIOUS
<1> QED  BY <1>2, <1>3

LEMMA MinFacts ==
    ASSUME NEW T \in SUBSET Nat, T # {}
    PROVE  Min(T) \in T /\ \A y \in T : Min(T) <= y
  BY Smallest DEF Min

Recursive(f, N, base, g) == f = [k \in 0..N |-> IF k = 0 THEN base ELSE g[k][f[k - 1]]]
Steps(g, N, T) == \A k \in 1..N : g[k] \in [T[k - 1] -> T[k]]

\* A function that computes each value from the one before exists, and has the types
\* that one step keeps.
LEMMA Recursion ==
    ASSUME NEW N \in Nat, NEW T, NEW base \in T[0], NEW g, Steps(g, N, T)
    PROVE  \E f : Recursive(f, N, base, g) /\ \A k \in 0..N : f[k] \in T[k]
<1> DEFINE Good(f, n) == /\ DOMAIN f = 0..n /\ f = [k \in 0..n |-> f[k]]
                         /\ \A k \in 0..n : /\ f[k] \in T[k]
                                            /\ f[k] = IF k = 0 THEN base ELSE g[k][f[k - 1]]
           Bad == {n \in 0..N : ~ \E f : Good(f, n)}
<1>1. ASSUME Bad # {}  PROVE FALSE
  <2>1. PICK n \in Bad : \A m \in Bad : n <= m
    <3>1. Bad \in SUBSET Nat
      OBVIOUS
    <3> HIDE DEF Bad
    <3> QED  BY <1>1, <3>1, Smallest
  <2>2. n \in 0..N /\ ~ \E f : Good(f, n)
    BY <2>1
  <2>3. CASE n = 0
    <3> DEFINE f == [k \in 0..0 |-> base]
    <3>1. Good(f, 0)
      OBVIOUS
    <3> QED  BY <2>2, <2>3, <3>1
  <2>4. CASE n # 0
    <3>1. n - 1 \in 0..N /\ n \in 1..N /\ ~ (n <= n - 1)
      BY <2>2, <2>4
    <3>2. PICK h : Good(h, n - 1)
      <4>1. n - 1 \notin Bad
        BY <2>1, <3>1
      <4> QED  BY <3>1, <4>1
    <3> DEFINE f == [k \in 0..n |-> IF k = n THEN g[n][h[n - 1]] ELSE h[k]]
    <3>3. \A k \in 0..n : k # n => k \in 0..(n - 1) /\ (k # 0 => k - 1 \in 0..(n - 1))
      BY <3>1
    <3>4. h[n - 1] \in T[n - 1] /\ f[n - 1] = h[n - 1] /\ f[n] = g[n][h[n - 1]]
      <4>1. n - 1 \in 0..(n - 1) /\ n - 1 \in 0..n /\ n \in 0..n /\ n - 1 # n
        BY <3>1
      <4> QED  BY <3>2, <4>1
    <3>5. \A k \in 0..n : f[k] \in T[k] /\ f[k] = IF k = 0 THEN base ELSE g[k][f[k - 1]]
      <4> TAKE k \in 0..n
      <4>1. CASE k = n
        <5>1. g[n] \in [T[n - 1] -> T[n]]
          BY <3>1 DEF Steps
        <5> QED  BY <3>1, <3>4, <4>1, <2>4, <5>1
      <4>2. CASE k # n
        <5>1. f[k] = h[k] /\ (k # 0 => f[k - 1] = h[k - 1])
          BY <3>1, <3>3, <4>2
        <5> HIDE DEF f
        <5> QED  BY <3>2, <3>3, <4>2, <5>1
      <4> QED  BY <4>1, <4>2
    <3>6. Good(f, n)
      BY <3>5
    <3> QED  BY <2>2, <3>6
  <2> QED  BY <2>3, <2>4
<1>2. PICK f : Good(f, N)
  BY <1>1
<1>3. Recursive(f, N, base, g)
  BY <1>2 DEF Recursive
<1> QED  BY <1>2, <1>3

\* What a set of positions says about a sequence with distinct elements.
LEMMA DistinctCardinality ==
    ASSUME NEW S, NEW s \in Seq(S), \A i, j \in DOMAIN s : s[i] = s[j] => i = j
    PROVE  Cardinality(ToSet(s)) = Len(s)
<1>1. s \in Injection(1..Len(s), ToSet(s)) /\ s \in Surjection(1..Len(s), ToSet(s)) /\ Len(s) \in Nat
  BY DEF ToSet, Injection, Surjection, IsInjective
<1>2. IsFiniteSet(1..Len(s)) /\ Cardinality(1..Len(s)) = Len(s)
  <2>1. 1 \in Int /\ Len(s) \in Int /\ (IF 1 > Len(s) THEN 0 ELSE Len(s) - 1 + 1) = Len(s)
    BY <1>1
  <2> QED  BY <2>1, FS_Interval
<1> QED  BY <1>1, <1>2, FS_Surjection

LEMMA InsertOrderedFacts ==
    ASSUME NEW S, NEW closest \in Seq(S), NEW n \in S
    PROVE  InsertOrdered(closest, n) \in Seq(S) /\ Len(InsertOrdered(closest, n)) = Len(closest) + 1
<1> DEFINE at == {i \in DOMAIN closest : isCloser[closest[i]][n]}
<1>1. CASE at = {}
  BY <1>1, AppendProperties DEF InsertOrdered
<1>2. CASE at # {}
  <2>1. Len(closest) \in Nat /\ DOMAIN closest = 1..Len(closest)
    OBVIOUS
  <2>2. at \in SUBSET Nat
    BY <2>1
  <2> DEFINE i == Min(at)
  <2>3. i \in 1..Len(closest)
    <3>1. i \in at
      <4> HIDE DEF at
      <4> QED  BY <1>2, <2>2, MinFacts
    <3> QED  BY <2>1, <3>1
  <2> HIDE DEF i, at
  <2> DEFINE a == SubSeq(closest, 1, i - 1)
             b == SubSeq(closest, i, Len(closest))
  <2>4. \A j \in 1..Len(closest) : closest[j] \in S
    BY ElementOfSeq
  <2>5. a \in Seq(S) /\ Len(a) = i - 1
    <3>1. 1 \in Int /\ i - 1 \in Int /\ (\A j \in 1..(i - 1) : closest[j] \in S)
      BY <2>1, <2>3, <2>4
    <3> QED  BY <2>3, <3>1, SubSeqProperties
  <2>6. b \in Seq(S) /\ Len(b) = Len(closest) - i + 1
    <3>1. Len(closest) \in Int /\ i \in Int /\ (\A j \in i..Len(closest) : closest[j] \in S)
      BY <2>1, <2>3, <2>4
    <3> QED  BY <2>3, <3>1, SubSeqProperties
  <2>7. <<n>> \in Seq(S) /\ Len(<<n>>) = 1
    OBVIOUS
  <2> HIDE DEF a, b
  <2>8. a \o <<n>> \in Seq(S) /\ Len(a \o <<n>>) = i
    BY <2>3, <2>5, <2>7, ConcatProperties
  <2>9. (a \o <<n>>) \o b \in Seq(S) /\ Len((a \o <<n>>) \o b) = Len(closest) + 1
    <3> DEFINE c == a \o <<n>>
    <3>1. c \in Seq(S) /\ Len(c) = i
      BY <2>8
    <3> HIDE DEF c
    <3>2. c \o b \in Seq(S) /\ Len(c \o b) = Len(c) + Len(b)
      BY <2>6, <3>1, ConcatProperties
    <3>3. Len(c) + Len(b) = Len(closest) + 1
      BY <2>1, <2>3, <2>6, <3>1
    <3> QED  BY <3>2, <3>3 DEF c
  <2>10. InsertOrdered(closest, n) = (a \o <<n>>) \o b
    BY <1>2 DEF InsertOrdered, InsertAt, a, b, i, at
  <2> QED  BY <2>9, <2>10
<1> QED  BY <1>1, <1>2

\* alphaClosest returns nodes it is given, as many as it may and can.
LEMMA AlphaClosestFacts ==
    ASSUME NEW S, NEW nodes \in Seq(S), NEW alpha \in Nat \ {0}
    PROVE  /\ AlphaClosest(nodes, alpha) \in Seq(S)
           /\ Len(nodes) # 0 => Len(AlphaClosest(nodes, alpha)) # 0
<1> DEFINE N == Len(nodes)
           T == [k \in 0..N |-> {t \in Seq(S) : Len(t) = IF k <= alpha THEN k ELSE alpha}]
           base == SubSeq(nodes, 1, 0)
           g == [k \in 1..N |-> [t \in T[k - 1] |->
                    IF k <= alpha THEN SubSeq(nodes, 1, k)
                    ELSE SubSeq(InsertOrdered(t, nodes[k]), 1, alpha)]]
<1>1. N \in Nat /\ \A k \in 1..N : nodes[k] \in S
  BY ElementOfSeq
<1>2. \A k \in 0..N : SubSeq(nodes, 1, k) \in Seq(S) /\ Len(SubSeq(nodes, 1, k)) = k
  <2> TAKE k \in 0..N
  <2>1. 1 \in Int /\ k \in Int /\ (\A i \in 1..k : nodes[i] \in S)
    BY <1>1
  <2>2. (IF 1 <= k THEN k - 1 + 1 ELSE 0) = k
    BY <1>1
  <2> QED  BY <2>1, <2>2, SubSeqProperties
<1>3. base \in T[0]
  BY <1>1, <1>2
<1>4. ASSUME NEW k \in 1..N, NEW t \in T[k - 1]  PROVE g[k][t] \in T[k]
  <2>1. /\ k \in 0..N /\ k - 1 \in 0..N /\ k \in Nat /\ k # 0 /\ t \in Seq(S)
        /\ Len(t) = IF k - 1 <= alpha THEN k - 1 ELSE alpha
    BY <1>1, <1>4
  <2>2. CASE k <= alpha
    BY <1>2, <2>1, <2>2
  <2>3. CASE ~ (k <= alpha)
    <3> DEFINE s == InsertOrdered(t, nodes[k])
    <3>1. s \in Seq(S) /\ Len(s) = alpha + 1
      <4>1. Len(t) = alpha /\ nodes[k] \in S
        BY <1>1, <2>1, <2>3
      <4> QED  BY <2>1, <4>1, InsertOrderedFacts
    <3> HIDE DEF s
    <3>2. 1 \in Int /\ alpha \in Int /\ (\A i \in 1..alpha : s[i] \in S) /\ 1 <= alpha /\ alpha - 1 + 1 = alpha
      BY <3>1, ElementOfSeq
    <3>3. SubSeq(s, 1, alpha) \in Seq(S) /\ Len(SubSeq(s, 1, alpha)) = alpha
      BY <3>2, SubSeqProperties
    <3>4. g[k][t] = SubSeq(s, 1, alpha)
      BY <2>3 DEF s
    <3> QED  BY <2>1, <2>3, <3>3, <3>4
  <2> QED  BY <2>2, <2>3
<1>5. Steps(g, N, T)
  BY <1>4 DEF Steps
<1>6. PICK f : Recursive(f, N, base, g) /\ \A k \in 0..N : f[k] \in T[k]
  <2> HIDE DEF N, T, base, g
  <2> QED  BY <1>1, <1>3, <1>5, Recursion
<1> DEFINE Good(r) == r = [k \in 0..N |-> IF k <= alpha THEN SubSeq(nodes, 1, k)
                                         ELSE SubSeq(InsertOrdered(r[k - 1], nodes[k]), 1, alpha)]
           results == CHOOSE r : Good(r)
<1>7. Good(f)
  <2>1. ASSUME NEW k \in 0..N
        PROVE  (IF k = 0 THEN base ELSE g[k][f[k - 1]]) =
               IF k <= alpha THEN SubSeq(nodes, 1, k)
               ELSE SubSeq(InsertOrdered(f[k - 1], nodes[k]), 1, alpha)
    <3>1. CASE k = 0
      BY <3>1
    <3>2. CASE k # 0
      <4>1. k \in 1..N /\ f[k - 1] \in T[k - 1]
        <5> HIDE DEF T
        <5> QED  BY <1>1, <1>6, <3>2
      <4> QED  BY <3>2, <4>1
    <3> QED  BY <3>1, <3>2
  <2> HIDE DEF N, T, base, g
  <2> QED  BY <1>6, <2>1 DEF Recursive
<1>8. Good(results)
  <2> HIDE DEF Good, N, T, base, g
  <2> QED  BY <1>7
<1>9. AlphaClosest(nodes, alpha) = results[N]
  BY DEF AlphaClosest
\* The recursion has one solution.
<1>10. \A k \in 0..N : results[k] = f[k]
  <2> DEFINE Bad == {k \in 0..N : results[k] # f[k]}
  <2>1. ASSUME Bad # {}  PROVE FALSE
    <3>1. Bad \in SUBSET Nat
      BY <1>1
    <3>2. PICK k \in Bad : \A m \in Bad : k <= m
      <4> HIDE DEF Bad
      <4> QED  BY <2>1, <3>1, Smallest
    <3> HIDE DEF results
    <3>3. k \in 0..N /\ results[k] # f[k]
      BY <3>2
    <3>4. k # 0 => k - 1 \in 0..N /\ results[k - 1] = f[k - 1]
      BY <1>1, <3>2, <3>3
    <3>5. \A r : Good(r) => r[k] = IF k <= alpha THEN SubSeq(nodes, 1, k)
                                   ELSE SubSeq(InsertOrdered(r[k - 1], nodes[k]), 1, alpha)
      BY <3>3
    <3> HIDE DEF Good
    <3> QED  BY <1>7, <1>8, <3>3, <3>4, <3>5
  <2> QED  BY <2>1
<1>11. f[N] \in T[N] /\ N \in 0..N
  <2> HIDE DEF T
  <2> QED  BY <1>1, <1>6
<1>12. results[N] \in Seq(S) /\ Len(results[N]) = IF N <= alpha THEN N ELSE alpha
  <2> HIDE DEF results, Good
  <2> QED  BY <1>10, <1>11
<1> QED
  <2> HIDE DEF results, Good
  <2> QED  BY <1>1, <1>9, <1>12

\* The table as one sequence: its nodes, and none only if every bucket is empty.
LEMMA FlatFacts ==
    ASSUME NEW S, NEW buckets \in [Bits -> Seq(S)]
    PROVE  /\ Flat(buckets) \in Seq(S)
           /\ \A i \in Bits : Len(buckets[i]) # 0 => Len(Flat(buckets)) # 0
<1> DEFINE N == Len(Key)
           T == [k \in 0..N |-> {t \in Seq(S) : \A i \in 1..k : Len(buckets[i]) <= Len(t)}]
           base == <<>>
           g == [k \in 1..N |-> [t \in T[k - 1] |-> t \o buckets[k]]]
<1>1. N \in Nat /\ Bits = 1..N /\ \A k \in 1..N : buckets[k] \in Seq(S) /\ Len(buckets[k]) \in Nat
  BY IDAssumption DEF Bits
<1>2. base \in T[0]
  BY <1>1
<1>3. ASSUME NEW k \in 1..N, NEW t \in T[k - 1]  PROVE g[k][t] \in T[k] /\ g[k][t] = t \o buckets[k]
  <2>1. k \in 0..N /\ k - 1 \in 0..N /\ t \in Seq(S) /\ Len(t) \in Nat
        /\ \A i \in 1..(k - 1) : Len(buckets[i]) <= Len(t)
    BY <1>1, <1>3
  <2>2. t \o buckets[k] \in Seq(S) /\ Len(t \o buckets[k]) = Len(t) + Len(buckets[k])
    BY <1>1, <2>1, ConcatProperties
  <2>3. \A i \in 1..k : Len(buckets[i]) <= Len(t) + Len(buckets[k])
    <3> TAKE i \in 1..k
    <3>1. CASE i = k
      BY <1>1, <2>1, <3>1
    <3>2. CASE i # k
      <4>1. i \in 1..(k - 1) /\ Len(buckets[i]) \in Nat /\ Len(buckets[k]) \in Nat
        BY <1>1, <3>2
      <4> QED  BY <2>1, <4>1
    <3> QED  BY <3>1, <3>2
  <2>4. t \o buckets[k] \in T[k]
    BY <2>1, <2>2, <2>3
  <2> QED  BY <2>4
<1>4. Steps(g, N, T)
  BY <1>3 DEF Steps
<1>5. PICK f : Recursive(f, N, base, g) /\ \A k \in 0..N : f[k] \in T[k]
  <2> HIDE DEF N, T, base, g
  <2> QED  BY <1>1, <1>2, <1>4, Recursion
<1> DEFINE Good(r) == r = [k \in 0..N |-> IF k = 0 THEN <<>> ELSE r[k - 1] \o buckets[k]]
           upTo == CHOOSE r : Good(r)
<1>6. Good(f)
  <2>1. ASSUME NEW k \in 0..N
        PROVE  (IF k = 0 THEN base ELSE g[k][f[k - 1]]) =
               IF k = 0 THEN <<>> ELSE f[k - 1] \o buckets[k]
    <3>1. CASE k = 0
      BY <3>1
    <3>2. CASE k # 0
      <4>1. k \in 1..N /\ f[k - 1] \in T[k - 1]
        <5> HIDE DEF T
        <5> QED  BY <1>1, <1>5, <3>2
      <4> QED  BY <3>2, <4>1
    <3> QED  BY <3>1, <3>2
  <2> HIDE DEF N, T, base, g
  <2> QED  BY <1>5, <2>1 DEF Recursive
<1>7. Good(upTo)
  <2> HIDE DEF Good, N, T, base, g
  <2> QED  BY <1>6
<1>8. Flat(buckets) = upTo[N]
  BY DEF Flat
<1>9. \A k \in 0..N : upTo[k] \in T[k]
  <2> DEFINE Bad == {k \in 0..N : upTo[k] \notin T[k]}
  <2>1. ASSUME Bad # {}  PROVE FALSE
    <3>1. Bad \in SUBSET Nat
      <4> HIDE DEF upTo, T
      <4> QED  BY <1>1
    <3>2. PICK k \in Bad : \A m \in Bad : k <= m
      <4> HIDE DEF Bad
      <4> QED  BY <2>1, <3>1, Smallest
    <3> HIDE DEF upTo, T, g
    <3>3. k \in 0..N /\ upTo[k] \notin T[k]
      BY <3>2
    <3>4. upTo[k] = IF k = 0 THEN base ELSE upTo[k - 1] \o buckets[k]
      BY <1>7, <3>3
    <3>5. k # 0 => k \in 1..N /\ upTo[k - 1] \in T[k - 1]
      BY <1>1, <3>2, <3>3
    <3>6. k # 0 => upTo[k - 1] \o buckets[k] \in T[k]
      BY <1>3, <3>5
    <3> HIDE DEF base
    <3> QED  BY <1>2, <3>3, <3>4, <3>6
  <2> QED  BY <2>1
<1>10. N \in 0..N /\ upTo[N] \in T[N]
  <2> HIDE DEF upTo, T
  <2> QED  BY <1>1, <1>9
<1>11. upTo[N] \in Seq(S) /\ \A i \in 1..N : Len(buckets[i]) <= Len(upTo[N])
  <2> HIDE DEF upTo
  <2> QED  BY <1>10
<1> QED
  <2> HIDE DEF upTo
  <2>1. Len(upTo[N]) \in Nat
    BY <1>11
  <2> QED  BY <1>1, <1>8, <1>11, <2>1

\* The positions of a bucket after updateNode: n comes first, the others keep their
\* order, and the bucket grows by one only if it did not have n.
LEMMA PutFirstFacts ==
    ASSUME NEW S, NEW nodes \in Seq(S), NEW n \in S,
           \A i, j \in DOMAIN nodes : nodes[i] = nodes[j] => i = j
    PROVE  /\ PutFirst(nodes, n) \in Seq(S)
           /\ \A i, j \in DOMAIN PutFirst(nodes, n) :
                PutFirst(nodes, n)[i] = PutFirst(nodes, n)[j] => i = j
           /\ Len(PutFirst(nodes, n)) = IF n \in ToSet(nodes) THEN Len(nodes) ELSE Len(nodes) + 1
           /\ Len(PutFirst(nodes, n)) # 0
<1> DEFINE N == Len(nodes)
           at == {i \in DOMAIN nodes : nodes[i] = n} \cup {N + 1}
           last == Min(at)
           D == (DOMAIN nodes) \cup {last}
           s == [j \in D |-> IF j = 1 THEN n ELSE nodes[IF j <= last THEN j - 1 ELSE j]]
<1>1. N \in Nat /\ DOMAIN nodes = 1..N /\ \A i \in 1..N : nodes[i] \in S
  BY ElementOfSeq
<1>2. at \in SUBSET Nat /\ at # {}
  BY <1>1
<1>3. last \in at /\ \A i \in at : last <= i
  <2> HIDE DEF at
  <2> QED  BY <1>2, MinFacts
<1>4. /\ last \in 1..(N + 1) /\ last \in Nat
      /\ last # N + 1 => nodes[last] = n
      /\ \A i \in 1..N : i < last => nodes[i] # n
  <2> HIDE DEF last
  <2> QED  BY <1>1, <1>3
<1> HIDE DEF last, at
<1>5. n \in ToSet(nodes) <=> last # N + 1
  BY <1>1, <1>4 DEF ToSet
<1> DEFINE M == IF n \in ToSet(nodes) THEN N ELSE N + 1
<1>6. D = 1..M /\ M \in Nat /\ 1 \in D
  BY <1>1, <1>4, <1>5
<1> DEFINE src == [j \in D |-> IF j <= last THEN j - 1 ELSE j]
<1>7. \A j \in D : j # 1 => src[j] \in 1..N /\ s[j] = nodes[src[j]] /\ nodes[src[j]] # n
  <2> TAKE j \in D
  <2> HAVE j # 1
  <2>1. j \in 1..(N + 1) /\ j \in Nat /\ s[j] = nodes[src[j]]
    BY <1>1, <1>4
  <2>2. CASE j <= last
    <3>1. src[j] = j - 1 /\ j - 1 \in 1..N /\ j - 1 < last
      BY <1>1, <1>4, <2>1, <2>2
    <3> QED  BY <1>4, <2>1, <3>1
  <2>3. CASE ~ (j <= last)
    <3>1. src[j] = j /\ j \in 1..N /\ last \in 1..N /\ j # last /\ last # N + 1
      BY <1>1, <1>4, <2>1, <2>3
    <3>2. nodes[j] # nodes[last]
      BY <1>1, <3>1
    <3> QED  BY <1>4, <2>1, <3>1, <3>2
  <2> QED  BY <2>2, <2>3
<1>8. s[1] = n
  BY <1>6
<1>9. \A j \in 1..M : s[j] \in S
  BY <1>1, <1>6, <1>7, <1>8
<1>10. ASSUME NEW i \in D, NEW j \in D, s[i] = s[j]  PROVE i = j
  <2>1. CASE i = 1 \/ j = 1
    BY <1>7, <1>8, <1>10, <2>1
  <2>2. CASE i # 1 /\ j # 1
    <3>1. src[i] = src[j]
      <4> HIDE DEF src, s
      <4> QED  BY <1>1, <1>7, <1>10, <2>2
    <3>2. i \in Nat /\ j \in Nat
      BY <1>6
    <3>3. nodes[src[i]] = nodes[src[j]] /\ src[i] # last /\ src[j] # last
      BY <1>4, <1>7, <2>2, <3>1
    <3> QED  BY <1>4, <3>1, <3>2, <3>3
  <2> QED  BY <2>1, <2>2
<1>11. s \in Seq(S) /\ Len(s) = M /\ DOMAIN s = D
  <2>1. s = [j \in 1..M |-> s[j]] /\ DOMAIN s = D
    BY <1>6
  <2>2. [j \in 1..M |-> s[j]] \in Seq(S)
    <3> HIDE DEF s
    <3> QED  BY <1>6, <1>9, IsASeq
  <2>3. Len([j \in 1..M |-> s[j]]) = M
    BY <1>6
  <2> QED  BY <2>1, <2>2, <2>3
<1>12. PutFirst(nodes, n) = s
  BY DEF PutFirst, last, at
<1>13. M # 0
  BY <1>6
<1> QED
  <2> HIDE DEF s
  <2> QED  BY <1>10, <1>11, <1>12, <1>13

-----------------------------------------------------------------------------
(* Distances                                                                *)

\* Bit i is the first in which two IDs differ, and that of m agrees with the key.
CloserAt(n, m, i) ==
    /\ ID[n][i] # ID[m][i] /\ ID[m][i] = Key[i]
    /\ \A j \in Bits : j < i => ID[n][j] = ID[m][j]

LEMMA IDFacts ==
    /\ Key \in Seq({0, 1}) /\ Bits = 1..Len(Key) /\ Len(Key) \in Nat
    /\ \A i \in Bits : i \in Nat /\ Key[i] \in {0, 1}
    /\ \A n \in Node : ID[n] \in [Bits -> {0, 1}]
    /\ \A n, m \in Node : ID[n] = ID[m] => n = m
  BY IDAssumption DEF Bits

LEMMA FirstDifferenceFacts ==
    ASSUME NEW n \in Node, NEW m \in Node, n # m
    PROVE  LET i == FirstDifference(ID[n], ID[m])
           IN  i \in Bits /\ ID[n][i] # ID[m][i] /\ \A j \in Bits : j < i => ID[n][j] = ID[m][j]
<1> DEFINE T == {i \in Bits : ID[n][i] # ID[m][i]}
<1>1. ID[n] # ID[m] /\ ID[n] \in [Bits -> {0, 1}] /\ ID[m] \in [Bits -> {0, 1}]
  BY IDFacts
<1>2. T \in SUBSET Nat /\ T # {}
  BY <1>1, IDFacts
<1>3. PICK i \in T : \A j \in T : i <= j
  <2> HIDE DEF T
  <2> QED  BY <1>2, Smallest
<1>4. i \in Bits /\ ID[n][i] # ID[m][i] /\ \A j \in Bits : j < i => ID[n][j] = ID[m][j]
  BY <1>3, IDFacts
<1> QED  BY <1>4 DEF FirstDifference

LEMMA CloserBit ==
    ASSUME NEW n \in Node, NEW m \in Node
    PROVE  isCloser[n][m] <=> \E i \in Bits : CloserAt(n, m, i)
<1>1. isCloser[n][m] <=> ID[n] # ID[m] /\ ID[m][FirstDifference(ID[n], ID[m])]
                                         = Key[FirstDifference(ID[n], ID[m])]
  BY DEF isCloser
<1>2. CASE n = m
  BY <1>1, <1>2 DEF CloserAt
<1>3. CASE n # m
  <2> DEFINE i == FirstDifference(ID[n], ID[m])
  <2>1. i \in Bits /\ ID[n][i] # ID[m][i] /\ \A j \in Bits : j < i => ID[n][j] = ID[m][j]
    BY <1>3, FirstDifferenceFacts
  <2>2. ID[n] # ID[m]
    BY <1>3, IDFacts
  <2> HIDE DEF i
  <2>3. \A k \in Bits : CloserAt(n, m, k) => k = i
    BY <2>1, IDFacts DEF CloserAt
  <2>4. isCloser[n][m] <=> ID[m][i] = Key[i]
    BY <1>1, <2>2 DEF i
  <2>5. CloserAt(n, m, i) <=> ID[m][i] = Key[i]
    BY <2>1 DEF CloserAt
  <2> QED  BY <2>1, <2>3, <2>4, <2>5
<1> QED  BY <1>2, <1>3

\* isCloser orders the nodes.
LEMMA CloserOrders ==
    /\ \A n \in Node : ~ isCloser[n][n]
    /\ \A n, m \in Node : n # m => isCloser[n][m] \/ isCloser[m][n]
    /\ \A n, m, k \in Node : isCloser[n][m] /\ isCloser[m][k] => isCloser[n][k]
<1>1. \A n \in Node : ~ isCloser[n][n]
  BY CloserBit DEF CloserAt
<1>2. ASSUME NEW n \in Node, NEW m \in Node, n # m
      PROVE  isCloser[n][m] \/ isCloser[m][n]
  <2>1. PICK i \in Bits : ID[n][i] # ID[m][i] /\ \A j \in Bits : j < i => ID[n][j] = ID[m][j]
    BY <1>2, FirstDifferenceFacts
  <2>2. ID[n][i] \in {0, 1} /\ ID[m][i] \in {0, 1} /\ Key[i] \in {0, 1}
    BY IDFacts
  <2>3. CloserAt(n, m, i) \/ CloserAt(m, n, i)
    BY <2>1, <2>2 DEF CloserAt
  <2> QED  BY <2>3, CloserBit
<1>3. ASSUME NEW n \in Node, NEW m \in Node, NEW k \in Node, isCloser[n][m], isCloser[m][k]
      PROVE  isCloser[n][k]
  <2>1. PICK i \in Bits : CloserAt(n, m, i)
    BY <1>3, CloserBit
  <2>2. PICK j \in Bits : CloserAt(m, k, j)
    BY <1>3, CloserBit
  <2>3. i \in Nat /\ j \in Nat /\ \A l \in Bits : l \in Nat
    BY IDFacts
  <2>4. CASE i < j
    <3>1. CloserAt(n, k, i)
      BY <2>1, <2>2, <2>3, <2>4 DEF CloserAt
    <3> QED  BY <3>1, CloserBit
  <2>5. CASE j < i
    <3>1. CloserAt(n, k, j)
      BY <2>1, <2>2, <2>3, <2>5 DEF CloserAt
    <3> QED  BY <3>1, CloserBit
  <2>6. CASE i = j
    BY <2>1, <2>2, <2>6 DEF CloserAt
  <2> QED  BY <2>3, <2>4, <2>5, <2>6
<1> QED  BY <1>1, <1>2, <1>3

\* A set of nodes has a closest one, which KClosest returns.
LEMMA ClosestExists ==
    ASSUME NEW S \in SUBSET Node, S # {}
    PROVE  \E c \in S : \A m \in S : ~ isCloser[c][m]
<1> DEFINE Nearer(n) == {m \in S : isCloser[n][m]}
           T == {Cardinality(Nearer(n)) : n \in S}
<1>1. \A n \in S : IsFiniteSet(Nearer(n)) /\ Cardinality(Nearer(n)) \in Nat
  <2> TAKE n \in S
  <2>1. Nearer(n) \in SUBSET Node
    OBVIOUS
  <2> HIDE DEF Nearer
  <2> QED  BY <2>1, IDAssumption, FS_Subset, FS_CardinalityType
<1>2. T \in SUBSET Nat /\ T # {}
  <2> HIDE DEF Nearer
  <2> QED  BY <1>1
<1>3. PICK x \in T : \A y \in T : x <= y
  <2> HIDE DEF T
  <2> QED  BY <1>2, Smallest
<1>4. PICK c \in S : x = Cardinality(Nearer(c))
  <2> HIDE DEF Nearer
  <2> QED  OBVIOUS
<1>5. ASSUME NEW m \in S, isCloser[c][m]  PROVE FALSE
  <2>1. Nearer(m) \in SUBSET Nearer(c)
    BY <1>5, CloserOrders
  <2>2. m \in Nearer(c) /\ m \notin Nearer(m)
    BY <1>5, CloserOrders
  <2>3. Cardinality(Nearer(c)) <= Cardinality(Nearer(m))
    <3> HIDE DEF Nearer
    <3> QED  BY <1>3, <1>4
  <2> HIDE DEF Nearer
  <2>4. /\ Cardinality(Nearer(m)) <= Cardinality(Nearer(c))
        /\ Cardinality(Nearer(c)) = Cardinality(Nearer(m)) => Nearer(c) = Nearer(m)
    BY <1>1, <2>1, FS_Subset
  <2>5. Cardinality(Nearer(m)) \in Nat /\ Cardinality(Nearer(c)) \in Nat
    BY <1>1
  <2> QED  BY <2>2, <2>3, <2>4, <2>5
<1> QED  BY <1>5

LEMMA KClosestFacts ==
    ASSUME NEW S \in SUBSET Node, NEW k \in Nat \ {0}
    PROVE  /\ KClosest(S, k) \subseteq S
           /\ \A c \in S : (\A m \in S : ~ isCloser[c][m]) => c \in KClosest(S, k)
           /\ \A c \in KClosest(S, 1), m \in S : ~ isCloser[c][m]
           /\ S # {} => KClosest(S, k) # {}
<1>1. KClosest(S, k) \subseteq S
  BY DEF KClosest
<1>2. ASSUME NEW c \in S, \A m \in S : ~ isCloser[c][m]  PROVE c \in KClosest(S, k)
  <2>1. {m \in S : isCloser[c][m]} = {}
    BY <1>2
  <2>2. Cardinality({m \in S : isCloser[c][m]}) = 0
    BY <2>1, FS_EmptySet
  <2> QED  BY <2>2 DEF KClosest
<1>3. ASSUME NEW c \in KClosest(S, 1), NEW m \in S, isCloser[c][m]  PROVE FALSE
  <2> DEFINE T == {l \in S : isCloser[c][l]}
  <2>1. c \in S /\ Cardinality(T) < 1 /\ m \in T
    BY <1>3 DEF KClosest
  <2>2. T \in SUBSET Node
    OBVIOUS
  <2> HIDE DEF T
  <2>3. IsFiniteSet(T) /\ Cardinality(T) \in Nat
    BY <2>2, IDAssumption, FS_Subset, FS_CardinalityType
  <2>4. Cardinality(T) = 0
    BY <2>1, <2>3
  <2> QED  BY <2>1, <2>3, <2>4, FS_EmptySet
<1>4. S # {} => KClosest(S, k) # {}
  BY <1>2, ClosestExists
<1> QED  BY <1>1, <1>2, <1>3, <1>4

-----------------------------------------------------------------------------
(* The inductive invariant                                                  *)

LookupState ==
    [kind : {"none", "store", "value"}, phase : {"round", "final", "done"},
     exists : SUBSET Other, queried : SUBSET Other, responded : SUBSET Other,
     arrived : SUBSET Message, waiting : SUBSET Other,
     closer : BOOLEAN, found : BOOLEAN, certain : BOOLEAN]

\* There is a node closer to the key than n.
HasCloser(n) == \E m \in Node : isCloser[n][m]

\* A network that can be searched, in which nothing was lost or late.
Calm == Navigable /\ ~ disturbed

\* Buckets hold distinct nodes of their distance, and not all are empty.
InBucket(i) == {n \in Other : BucketOf[n] = i}
Distinct(nodes) == \A j, k \in DOMAIN nodes : nodes[j] = nodes[k] => j = k
BucketOK(nodes, i) ==
    nodes \in Seq(InBucket(i)) /\ Len(nodes) <= BucketSize /\ Distinct(nodes)
TableOK ==
    /\ table \in [Bits -> Seq(Other)]
    /\ \A i \in Bits : BucketOK(table[i], i)
    /\ \E i \in Bits : Len(table[i]) # 0

\* While the routine waits for a ping, the bucket is full and lacks the sender.
RoutineOK ==
    routine = Idle \/
        /\ routine.peer \in Other /\ routine.msg \in Message /\ routine.msg.type \in ToMe
        /\ routine.msg.peer \notin ToSet(table[BucketOf[routine.msg.peer]])
        /\ Len(table[BucketOf[routine.msg.peer]]) = BucketSize

\* A query and its answer belong to a lookup that was started, and those of the running
\* one to a node it has queried.
QueryOK(msg) ==
    msg.type \in {"query", "reply"} =>
        msg.op <= ops /\ (msg.op = ops => msg.peer \in lookup.queried)

\* Answers are a node's own, values are returned to LookupValue only, and by the closest
\* node if a value was stored before.
ReplyOK(msg) ==
    msg.type = "reply" /\ msg.op = ops =>
        /\ ~ msg.data => msg.nodes = Answer[msg.peer]
        /\ msg.data => lookup.kind = "value"
        /\ Calm /\ lookup.kind = "value" /\ lookup.certain /\ ~ HasCloser(msg.peer) => msg.data

InHand == IF routine = Idle THEN {} ELSE {routine.msg}

MessagesOK ==
    /\ net \subseteq Message
    /\ \A msg \in net \cup InHand \cup lookup.arrived : QueryOK(msg) /\ ReplyOK(msg)

LookupOK ==
    /\ lookup \in LookupState
    /\ lookup.waiting \subseteq lookup.queried /\ lookup.queried \subseteq lookup.exists
    /\ lookup.responded \subseteq lookup.queried /\ (lookup.phase # "done" => ops # 0)
    /\ \A msg \in lookup.arrived :
        msg.type = "reply" /\ msg.op = ops /\ msg.peer \in lookup.responded

\* A node whose answer was taken has responded, a closer one is known if there is one,
\* and it is not the node that has the value.
CoveredBy(l, n) ==
    /\ n \in l.responded
    /\ HasCloser(n) => \E m \in l.exists : isCloser[n][m]
    /\ l.kind = "value" /\ l.certain => HasCloser(n)
Covered ==
    Calm /\ lookup.phase # "done" => \A n \in lookup.queried \ lookup.waiting : CoveredBy(lookup, n)

\* The value is stored at the closest node, or on its way to it.
StoresOK ==
    /\ holders \subseteq Node
    /\ Calm => /\ \A n \in holders : ~ HasCloser(n)
               /\ \A msg \in net : msg.type = "store" => ~ HasCloser(msg.peer)
    /\ lookup.kind = "value" /\ lookup.certain => holders # {}

CountsOK == ops \in 0..MaxOps /\ requests \in 0..MaxOps /\ disturbed \in BOOLEAN

IInv ==
    /\ TableOK /\ RoutineOK /\ MessagesOK /\ LookupOK /\ Covered /\ StoresOK /\ CountsOK
    /\ StoredIsFound

-----------------------------------------------------------------------------
(* The steps of a lookup                                                    *)

LEMMA MessageType ==
    ASSUME NEW msg \in Message
    PROVE  /\ msg.type \in {"query", "reply", "store", "pingreply", "request"}
           /\ msg.peer \in Node /\ (msg.type # "store" => msg.peer \in Other)
           /\ msg.type \in {"query", "reply"} => msg.op \in 1..MaxOps
           /\ msg.type = "reply" => msg.data \in BOOLEAN /\ msg.nodes \in Seq(Node)
  BY IDAssumption DEF Message, Other

LEMMA AnswerType ==
    ASSUME NEW n \in Other
    PROVE  Answer[n] \in Seq(Node)
<1>1. Knows[n] \in Seq(Node \ {n})
  BY IDAssumption
<1>2. AlphaClosest(Knows[n], BucketSize) \in Seq(Node \ {n})
  BY <1>1, AlphaClosestFacts, BoundAssumption
<1> HIDE DEF Answer
<1>3. Answer[n] \in Seq(Node \ {n})
  BY <1>2 DEF Answer
<1> QED  BY <1>3, SeqMonotonic

\* What InsertArray keeps of the nodes it is given is enough to make progress.
LEMMA InsertArrayFacts ==
    ASSUME NEW l \in LookupState, NEW nodes \in Seq(Node)
    PROVE  LET r == InsertArray(l, nodes) IN
           /\ r \in LookupState
           /\ r.kind = l.kind /\ r.phase = l.phase /\ r.queried = l.queried
           /\ r.responded = l.responded /\ r.arrived = l.arrived /\ r.waiting = l.waiting
           /\ r.found = l.found /\ r.certain = l.certain
           /\ l.exists \subseteq r.exists
           /\ r.closer => r.exists \ l.exists # {}
           /\ \A n \in l.exists, m \in ToSet(nodes) \ {Me} :
                isCloser[n][m] => \E c \in r.exists : isCloser[n][c]
           /\ Len(nodes) # 0 /\ nodes[1] # Me => r.exists # {}
<1> DEFINE hits == {i \in DOMAIN nodes : NewClosest(l.exists, nodes, i)}
           last == IF hits = {} THEN Len(nodes) ELSE Min(hits)
           new == {nodes[j] : j \in 1..last} \ {Me}
           r == InsertArray(l, nodes)
<1>1. Len(nodes) \in Nat /\ DOMAIN nodes = 1..Len(nodes) /\ \A j \in 1..Len(nodes) : nodes[j] \in Node
  BY ElementOfSeq
<1>2. hits # {} => last \in hits
  <2>1. hits \in SUBSET Nat
    BY <1>1
  <2> HIDE DEF hits
  <2> QED  BY <2>1, MinFacts
<1>3. hits # {} => last \in 1..Len(nodes) /\ NewClosest(l.exists, nodes, last)
  <2> HIDE DEF last
  <2> QED  BY <1>1, <1>2
<1>4. hits = {} => last = Len(nodes)
  OBVIOUS
<1>5. last \in 0..Len(nodes) /\ (Len(nodes) # 0 => 1 \in 1..last)
  <2> HIDE DEF last, hits
  <2> QED  BY <1>1, <1>3, <1>4
<1>6. /\ r.exists = l.exists \cup new /\ r.closer = (hits # {})
      /\ r.kind = l.kind /\ r.phase = l.phase /\ r.queried = l.queried
      /\ r.responded = l.responded /\ r.arrived = l.arrived /\ r.waiting = l.waiting
      /\ r.found = l.found /\ r.certain = l.certain
  <2>1. r = [l EXCEPT !.exists = @ \cup new, !.closer = (hits # {})]
    BY DEF InsertArray
  <2> HIDE DEF r, new, hits
  <2> QED  BY <2>1 DEF LookupState
<1>7. new \subseteq Other
  <2> HIDE DEF last
  <2> QED  BY <1>1, <1>5 DEF Other
<1>8. r \in LookupState
  <2>1. r = [l EXCEPT !.exists = @ \cup new, !.closer = (hits # {})]
    BY DEF InsertArray
  <2> DEFINE b == (hits # {})
  <2>2. b \in BOOLEAN /\ l.exists \cup new \in SUBSET Other
    BY <1>7 DEF LookupState
  <2> HIDE DEF r, new, hits, b
  <2>3. PICK x : x = l.exists \cup new
    OBVIOUS
  <2>4. r = [l EXCEPT !.exists = x, !.closer = b]
    BY <2>1, <2>3 DEF b
  <2> QED  BY <2>2, <2>3, <2>4 DEF LookupState
<1> HIDE DEF r, last, hits
<1>9. hits # {} => /\ nodes[last] \in new /\ nodes[last] \notin l.exists
                   /\ \A n \in l.exists : isCloser[n][nodes[last]]
  <2>1. Me \notin l.exists
    BY DEF LookupState, Other
  <2> QED  BY <1>3, <2>1 DEF NewClosest
<1>10. hits = {} => \A m \in ToSet(nodes) \ {Me} : m \in new
  BY <1>1, <1>4 DEF ToSet
<1>11. Len(nodes) # 0 /\ nodes[1] # Me => nodes[1] \in new
  BY <1>5
<1> HIDE DEF new
<1>12. r.closer => r.exists \ l.exists # {}
  BY <1>6, <1>9
<1>13. ASSUME NEW n \in l.exists, NEW m \in ToSet(nodes) \ {Me}, isCloser[n][m]
       PROVE  \E c \in r.exists : isCloser[n][c]
  BY <1>6, <1>9, <1>10, <1>13
<1>14. Len(nodes) # 0 /\ nodes[1] # Me => r.exists # {}
  BY <1>6, <1>11
<1> QED  BY <1>6, <1>8, <1>12, <1>13, <1>14 DEF r

\* The next phase queries nodes that were not queried before, or ends the lookup.
LEMMA QueryFacts ==
    ASSUME NEW l \in LookupState, NEW phase \in {"round", "final"}, NEW nodes \in SUBSET Other
    PROVE  LET r == Query(l, phase, nodes) IN
           /\ r \in LookupState
           /\ r.kind = l.kind /\ r.exists = l.exists /\ r.responded = l.responded
           /\ r.arrived = l.arrived /\ r.found = l.found /\ r.certain = l.certain
           /\ r.queried = l.queried \cup nodes /\ r.waiting = nodes
           /\ r.phase = IF nodes = {} THEN "done" ELSE phase
<1> DEFINE r == Query(l, phase, nodes)
           next == IF nodes = {} THEN "done" ELSE phase
           asked == l.queried \cup nodes
<1>1. next \in {"round", "final", "done"} /\ asked \in SUBSET Other
  BY DEF LookupState
<1>2. r = [l EXCEPT !.phase = next, !.closer = FALSE, !.queried = asked, !.waiting = nodes]
  BY DEF Query
<1> HIDE DEF r, next, asked
<1>3. r \in LookupState
  BY <1>1, <1>2 DEF LookupState
<1>4. /\ r.kind = l.kind /\ r.exists = l.exists /\ r.responded = l.responded
      /\ r.arrived = l.arrived /\ r.found = l.found /\ r.certain = l.certain
      /\ r.queried = asked /\ r.waiting = nodes /\ r.phase = next
  BY <1>2 DEF LookupState
<1> QED  BY <1>3, <1>4 DEF r, next, asked

Advances(l, r) ==
    /\ r \in LookupState
    /\ r.kind = l.kind /\ r.exists = l.exists /\ r.responded = l.responded
    /\ r.arrived = l.arrived /\ r.found = l.found /\ r.certain = l.certain
    /\ r.queried = l.queried \cup r.waiting
    /\ r.waiting \subseteq l.exists \ l.queried
    /\ r.phase = "done" <=> r.waiting = {}

LEMMA LookupRoundFacts ==
    ASSUME NEW l \in LookupState
    PROVE  /\ Advances(l, LookupRound(l))
           /\ l.exists \ l.queried # {} => LookupRound(l).phase # "done"
<1> DEFINE nodes == GetAlphaUnqueried(l)
<1>1. l.exists \ l.queried \in SUBSET Other /\ l.exists \ l.queried \in SUBSET Node
  BY DEF LookupState, Other
<1>2. nodes \subseteq l.exists \ l.queried /\ (l.exists \ l.queried # {} => nodes # {})
  BY <1>1, KClosestFacts, BoundAssumption DEF GetAlphaUnqueried
<1> HIDE DEF nodes
<1>3. LookupRound(l) = Query(l, "round", nodes) /\ nodes \in SUBSET Other
  BY <1>1, <1>2 DEF LookupRound, nodes
<1> QED  BY <1>2, <1>3, QueryFacts DEF Advances

LEMMA LookupFinalPhaseFacts ==
    ASSUME NEW l \in LookupState, l.responded \subseteq l.queried
    PROVE  Advances(l, LookupFinalPhase(l))
<1> DEFINE S == l.responded \cup (l.exists \ l.queried)
           nodes == GetKClosestUnqueried(l)
<1>1. S \in SUBSET Node /\ l.exists \subseteq Other
  BY DEF LookupState, Other
<1>2. Candidates(l) \subseteq S
  <2> HIDE DEF S
  <2>1. KClosest(S, BucketSize) \subseteq S
    BY <1>1, KClosestFacts, BoundAssumption
  <2> QED  BY <2>1 DEF Candidates, S
<1>3. nodes \subseteq l.exists \ l.queried
  BY <1>2 DEF GetKClosestUnqueried
<1> HIDE DEF nodes, S
<1>4. LookupFinalPhase(l) = Query(l, "final", nodes) /\ nodes \in SUBSET Other
  BY <1>1, <1>3 DEF LookupFinalPhase, nodes
<1> QED  BY <1>3, <1>4, QueryFacts DEF Advances

LEMMA NextPhaseFacts ==
    ASSUME NEW l \in LookupState, l.responded \subseteq l.queried
    PROVE  /\ Advances(l, NextPhase(l))
           /\ l.closer /\ l.exists \ l.queried # {} => NextPhase(l).phase # "done"
           /\ ~ l.closer /\ NextPhase(l).phase = "done" => Candidates(l) \subseteq l.queried
<1>1. CASE l.closer
  BY <1>1, LookupRoundFacts DEF NextPhase
<1>2. CASE ~ l.closer
  <2>1. NextPhase(l) = LookupFinalPhase(l)
    BY <1>2 DEF NextPhase
  <2> DEFINE nodes == GetKClosestUnqueried(l)
  <2>2. LookupFinalPhase(l).phase = "done" => nodes = {}
    <3> HIDE DEF nodes
    <3>1. LookupFinalPhase(l) = [l EXCEPT !.phase = IF nodes = {} THEN "done" ELSE "final",
              !.closer = FALSE, !.queried = @ \cup nodes, !.waiting = nodes]
      BY DEF LookupFinalPhase, Query, nodes
    <3> QED  BY <3>1 DEF LookupState
  <2> QED  BY <1>2, <2>1, <2>2, LookupFinalPhaseFacts DEF GetKClosestUnqueried
<1> QED  BY <1>1, <1>2

\* A lookup that has nobody left to ask, and knows a closer node for every node that has
\* one, ends at the closest node of the network.
LEMMA EndsAtClosest ==
    ASSUME NEW l \in LookupState, l.queried \subseteq l.exists, l.exists # {},
           l.responded \subseteq l.queried, Candidates(l) \subseteq l.queried,
           \A n \in l.queried : n \in l.responded /\ (HasCloser(n) => \E m \in l.exists : isCloser[n][m])
    PROVE  \E c \in l.queried : ~ HasCloser(c) /\ \A x \in KClosest(Closest(l), 1) : x = c
<1>1. l.exists \in SUBSET Node /\ l.queried = l.responded /\ l.responded \cup (l.exists \ l.queried) = l.exists
  BY DEF LookupState, Other
<1>2. PICK c \in l.exists : \A m \in l.exists : ~ isCloser[c][m]
  BY <1>1, ClosestExists
<1>3. c \in Candidates(l)
  <2>1. c \in KClosest(l.exists, BucketSize)
    BY <1>1, <1>2, KClosestFacts, BoundAssumption
  <2> QED  BY <1>1, <2>1 DEF Candidates
<1>4. c \in l.queried /\ c \in l.responded /\ ~ HasCloser(c) /\ c \in Node
  BY <1>1, <1>2, <1>3
<1> DEFINE S == (Candidates(l) \cap l.responded) \cup {Me}
<1>5. S \in SUBSET Node /\ c \in S
  BY <1>1, <1>3, <1>4, IDAssumption
<1>6. Closest(l) = KClosest(S, BucketSize)
  BY DEF Closest
<1> HIDE DEF S
<1>7. Closest(l) \in SUBSET Node /\ c \in Closest(l)
  <2>1. \A m \in S : ~ isCloser[c][m]
    BY <1>4, <1>5 DEF HasCloser
  <2>2. KClosest(S, BucketSize) \subseteq S /\ c \in KClosest(S, BucketSize)
    BY <1>5, <2>1, KClosestFacts, BoundAssumption
  <2> QED  BY <1>5, <1>6, <2>2
<1>8. ASSUME NEW x \in KClosest(Closest(l), 1)  PROVE x = c
  <2>1. x \in Node /\ ~ isCloser[x][c]
    <3>1. 1 \in Nat \ {0}
      OBVIOUS
    <3> QED  BY <1>7, <3>1, KClosestFacts
  <2> QED  BY <1>4, <2>1, CloserOrders DEF HasCloser
<1> QED  BY <1>4, <1>8

\* What a lookup sends.
LEMMA SendDueFacts ==
    ASSUME NEW l \in LookupState, lookup' = l, net \subseteq Message,
           NEW before, NEW op \in 1..MaxOps, SendDue(before, op)
    PROVE  /\ net' \subseteq Message
           /\ \A msg \in net' : msg \notin net =>
                \/ msg.type = "query" /\ msg.op = op /\ msg.peer \in l.queried
                \/ /\ msg.type = "store" /\ l.kind = "store" /\ l.phase = "done"
                   /\ msg.peer \in KClosest(Closest(l), 1)
<1> DEFINE Q == {[type |-> "query", peer |-> n, op |-> op] : n \in l.queried \ before}
           R == {m \in KClosest(Closest(l), 1) : l.kind = "store" /\ l.phase = "done"}
           W == {[type |-> "store", peer |-> n] : n \in R}
<1>1. net' = net \cup Q \cup W
  BY DEF SendDue
<1>2. l.queried \subseteq Other
  BY DEF LookupState
<1>3. KClosest(Closest(l), 1) \subseteq Node
  <2> DEFINE S == (Candidates(l) \cap l.responded) \cup {Me}
  <2>1. S \in SUBSET Node
    BY IDAssumption DEF LookupState, Other
  <2>2. Closest(l) = KClosest(S, BucketSize)
    BY DEF Closest
  <2> HIDE DEF S
  <2>3. Closest(l) \in SUBSET Node
    BY <2>1, <2>2, KClosestFacts, BoundAssumption
  <2>4. 1 \in Nat \ {0}
    OBVIOUS
  <2> QED  BY <2>3, <2>4, KClosestFacts
<1>4. \A msg \in Q : msg \in Message /\ msg.type = "query" /\ msg.op = op /\ msg.peer \in l.queried
  BY <1>2 DEF Message
<1>5. \A msg \in W : /\ msg \in Message /\ msg.type = "store" /\ l.kind = "store" /\ l.phase = "done"
                     /\ msg.peer \in KClosest(Closest(l), 1)
  BY <1>3 DEF Message
<1> HIDE DEF Q, W
<1> QED  BY <1>1, <1>4, <1>5

-----------------------------------------------------------------------------
(* Messages of the network                                                  *)

\* What holds of a message stays true as its lookup goes on.
LEMMA MessageStays ==
    ASSUME NEW msg, QueryOK(msg), ReplyOK(msg), ops' = ops,
           lookup'.kind = lookup.kind, lookup'.certain = lookup.certain,
           lookup.queried \subseteq lookup'.queried, ~ disturbed' => ~ disturbed
    PROVE  QueryOK(msg)' /\ ReplyOK(msg)'
<1>1. QueryOK(msg)'
  BY DEF QueryOK
<1>2. Calm' => Calm
  BY DEF Calm
<1>3. ReplyOK(msg)'
  BY <1>2 DEF ReplyOK
<1> QED  BY <1>1, <1>3

\* Two closest nodes are the same.
LEMMA ClosestUnique ==
    ASSUME NEW n \in Node, NEW m \in Node, ~ HasCloser(n), ~ HasCloser(m)
    PROVE  n = m
  BY CloserOrders DEF HasCloser

LEMMA RequestPreserves ==
    ASSUME IInv, NEW n \in Other, Request(n)
    PROVE  IInv'
<1> DEFINE new == [type |-> "request", peer |-> n]
<1>1. /\ net' = net \cup {new} /\ requests' = requests + 1 /\ ops + requests < MaxOps
      /\ UNCHANGED <<table, routine, lookup, ops, holders, disturbed>>
  BY DEF Request
<1>2. new \in Message /\ new.type = "request"
  BY DEF Message
<1> HIDE DEF new
<1>3. TableOK' /\ RoutineOK' /\ LookupOK' /\ Covered' /\ StoredIsFound'
  BY <1>1 DEF IInv, TableOK, RoutineOK, LookupOK, Covered, Calm, StoredIsFound
<1>4. StoresOK'
  BY <1>1, <1>2 DEF IInv, StoresOK, Calm
<1>5. MessagesOK'
  <2>1. \A msg \in net \cup InHand \cup lookup.arrived : QueryOK(msg)' /\ ReplyOK(msg)'
    BY <1>1, MessageStays DEF IInv, MessagesOK
  <2>2. QueryOK(new)' /\ ReplyOK(new)'
    BY <1>2 DEF QueryOK, ReplyOK
  <2>3. InHand' = InHand
    BY <1>1 DEF InHand
  <2> QED  BY <1>1, <1>2, <2>1, <2>2, <2>3 DEF IInv, MessagesOK
<1>6. CountsOK'
  BY <1>1, BoundAssumption DEF IInv, CountsOK
<1> QED  BY <1>3, <1>4, <1>5, <1>6 DEF IInv

LEMMA LosePreserves ==
    ASSUME IInv, NEW lost \in net, Lose(lost)
    PROVE  IInv'
<1>1. /\ net' = net \ {lost} /\ disturbed' = TRUE
      /\ UNCHANGED <<table, routine, lookup, ops, requests, holders>>
  BY DEF Lose
<1>2. TableOK' /\ RoutineOK' /\ LookupOK' /\ CountsOK'
  BY <1>1 DEF IInv, TableOK, RoutineOK, LookupOK, CountsOK
<1>3. Covered' /\ StoresOK' /\ StoredIsFound'
  BY <1>1 DEF IInv, Covered, StoresOK, Calm, StoredIsFound
<1>4. MessagesOK'
  <2>1. \A msg \in net \cup InHand \cup lookup.arrived : QueryOK(msg)' /\ ReplyOK(msg)'
    BY <1>1, MessageStays DEF IInv, MessagesOK
  <2>2. InHand' = InHand
    BY <1>1 DEF InHand
  <2> QED  BY <1>1, <2>1, <2>2 DEF IInv, MessagesOK
<1> QED  BY <1>2, <1>3, <1>4 DEF IInv

\* The closest node returns the value if it was stored before the lookup.
LEMMA ReplyPreserves ==
    ASSUME IInv, NEW query \in net, Reply(query)
    PROVE  IInv'
<1> DEFINE data == lookup.kind = "value" /\ query.peer \in holders
           nodes == IF data THEN <<>> ELSE Answer[query.peer]
           new == [type |-> "reply", peer |-> query.peer, op |-> query.op, data |-> data, nodes |-> nodes]
<1>1. /\ net' = (net \ {query}) \cup {new} /\ query.type = "query"
      /\ UNCHANGED <<table, routine, lookup, ops, requests, holders, disturbed>>
  BY DEF Reply
<1>2. query \in Message /\ query.peer \in Other /\ query.op \in 1..MaxOps /\ QueryOK(query)
  BY <1>1, MessageType DEF IInv, MessagesOK
<1>3. data \in BOOLEAN /\ nodes \in Seq(Node)
  <2>1. data \in BOOLEAN
    OBVIOUS
  <2> HIDE DEF data
  <2> QED  BY <1>2, <2>1, AnswerType
<1>4. /\ new \in Message /\ new.type = "reply" /\ new.peer = query.peer /\ new.op = query.op
      /\ new.data = data /\ new.nodes = nodes
  <2> HIDE DEF data, nodes
  <2> QED  BY <1>2, <1>3 DEF Message
<1>5. PICK reply : reply = new
  OBVIOUS
<1> HIDE DEF new
<1>6. TableOK' /\ RoutineOK' /\ LookupOK' /\ Covered' /\ StoredIsFound' /\ CountsOK'
  BY <1>1 DEF IInv, TableOK, RoutineOK, LookupOK, Covered, Calm, StoredIsFound, CountsOK
<1>7. StoresOK'
  BY <1>1, <1>4 DEF IInv, StoresOK, Calm
<1>8. QueryOK(reply)' /\ ReplyOK(reply)'
  <2>1. QueryOK(reply)'
    BY <1>5, <1>1, <1>2, <1>4 DEF QueryOK
  <2>2. ~ reply.data => reply.nodes = Answer[reply.peer]
    BY <1>5, <1>4
  <2>3. reply.data => lookup.kind = "value"
    BY <1>5, <1>4
  <2>4. ASSUME Calm, lookup.kind = "value", lookup.certain, ~ HasCloser(reply.peer)
        PROVE  reply.data
    <3>1. PICK n \in holders : n \in Node /\ ~ HasCloser(n)
      BY <2>4 DEF IInv, StoresOK
    <3>2. n = query.peer
      BY <1>2, <1>5, <1>4, <2>4, <3>1, ClosestUnique DEF Other
    <3> QED  BY <1>5, <1>4, <2>4, <3>1, <3>2
  <2>5. Calm' = Calm
    BY <1>1 DEF Calm
  <2> HIDE DEF data, nodes
  <2>6. ReplyOK(reply)'
    BY <1>1, <2>2, <2>3, <2>4, <2>5 DEF ReplyOK
  <2> QED  BY <2>1, <2>6
<1>9. MessagesOK'
  <2>1. \A msg \in net \cup InHand \cup lookup.arrived : QueryOK(msg)' /\ ReplyOK(msg)'
    BY <1>1, MessageStays DEF IInv, MessagesOK
  <2>2. InHand' = InHand
    BY <1>1 DEF InHand
  <2> HIDE DEF data, nodes
  <2> QED  BY <1>1, <1>5, <1>4, <1>8, <2>1, <2>2 DEF IInv, MessagesOK
<1> QED  BY <1>6, <1>7, <1>9 DEF IInv

LEMMA ReplyStorePreserves ==
    ASSUME IInv, NEW store \in net, ReplyStore(store)
    PROVE  IInv'
<1>1. /\ net' = net \ {store} /\ store.type = "store" /\ holders' = holders \cup {store.peer}
      /\ UNCHANGED <<table, routine, lookup, ops, requests, disturbed>>
  BY DEF ReplyStore
<1>2. TableOK' /\ RoutineOK' /\ LookupOK' /\ Covered' /\ StoredIsFound' /\ CountsOK'
  BY <1>1 DEF IInv, TableOK, RoutineOK, LookupOK, Covered, Calm, StoredIsFound, CountsOK
<1>3. store.peer \in Node
  BY MessageType DEF IInv, MessagesOK
<1>4. StoresOK'
  BY <1>1, <1>3 DEF IInv, StoresOK, Calm
<1>5. MessagesOK'
  <2>1. \A msg \in net \cup InHand \cup lookup.arrived : QueryOK(msg)' /\ ReplyOK(msg)'
    BY <1>1, MessageStays DEF IInv, MessagesOK
  <2>2. InHand' = InHand
    BY <1>1 DEF InHand
  <2> QED  BY <1>1, <2>1, <2>2 DEF IInv, MessagesOK
<1> QED  BY <1>2, <1>4, <1>5 DEF IInv

-----------------------------------------------------------------------------
(* dhtMessageListenRoutine                                                  *)

LEMMA BucketOfType ==
    ASSUME NEW n \in Other
    PROVE  BucketOf[n] \in Bits
<1>1. n \in Node /\ Me \in Node /\ n # Me
  BY IDAssumption DEF Other
<1>2. FirstDifference(ID[Me], ID[n]) \in Bits
  BY <1>1, FirstDifferenceFacts
<1> QED  BY <1>2 DEF BucketOf

LEMMA TableUpdate ==
    ASSUME TableOK, NEW n \in Other, NEW nodes, BucketOK(nodes, BucketOf[n]), Len(nodes) # 0,
           table' = [table EXCEPT ![BucketOf[n]] = nodes]
    PROVE  TableOK'
<1> DEFINE b == BucketOf[n]
<1>1. b \in Bits
  BY BucketOfType
<1>2. nodes \in Seq(InBucket(b)) /\ InBucket(b) \subseteq Other
  BY DEF BucketOK, InBucket
<1>3. nodes \in Seq(Other)
  BY <1>2, SeqMonotonic
<1> HIDE DEF b
<1>4. table' = [table EXCEPT ![b] = nodes] /\ BucketOK(nodes, b)
  BY DEF b
<1>5. table' \in [Bits -> Seq(Other)] /\ table'[b] = nodes /\ \A i \in Bits : i # b => table'[i] = table[i]
  BY <1>1, <1>3, <1>4 DEF TableOK
<1>6. \A i \in Bits : BucketOK(table'[i], i)
  BY <1>4, <1>5 DEF TableOK
<1> QED  BY <1>1, <1>5, <1>6 DEF TableOK, BucketOK, Distinct

\* The last node makes room for a new one.
LEMMA DropLastFacts ==
    ASSUME NEW S, NEW nodes \in Seq(S), NEW n \in S, n \notin ToSet(nodes),
           NEW k \in Nat \ {0}, Len(nodes) = k, Distinct(nodes)
    PROVE  LET s == <<n>> \o SubSeq(nodes, 1, k - 1)
           IN  s \in Seq(S) /\ Len(s) = k /\ Distinct(s)
<1> DEFINE t == SubSeq(nodes, 1, k - 1)
           s == <<n>> \o t
<1>1. \A i \in 1..k : nodes[i] \in S /\ nodes[i] # n
  BY ElementOfSeq DEF ToSet
<1>2. t \in Seq(S) /\ Len(t) = k - 1 /\ \A i \in 1..(k - 1) : t[i] = nodes[i]
  <2>1. 1 \in Int /\ k - 1 \in Int /\ (\A i \in 1..(k - 1) : nodes[i] \in S)
    BY <1>1
  <2>2. (IF 1 <= k - 1 THEN k - 1 - 1 + 1 ELSE 0) = k - 1 /\ k - 1 - 1 + 1 = k - 1
    OBVIOUS
  <2>3. \A i \in 1..(k - 1) : 1 + i - 1 = i
    OBVIOUS
  <2> QED  BY <2>1, <2>2, <2>3, SubSeqProperties
<1> HIDE DEF t
<1>3. <<n>> \in Seq(S) /\ Len(<<n>>) = 1 /\ <<n>>[1] = n
  OBVIOUS
<1>4. /\ s \in Seq(S) /\ Len(s) = 1 + (k - 1)
      /\ \A i \in 1..(1 + (k - 1)) : s[i] = IF i <= 1 THEN <<n>>[i] ELSE t[i - 1]
  BY <1>2, <1>3, ConcatProperties
<1>5. Len(s) = k /\ DOMAIN s = 1..k /\ s[1] = n /\ \A i \in 2..k : s[i] = nodes[i - 1]
  <2> HIDE DEF s
  <2>1. 1 + (k - 1) = k /\ 1 \in 1..k
    OBVIOUS
  <2>2. Len(s) = k /\ DOMAIN s = 1..k /\ s[1] = n
    BY <1>3, <1>4, <2>1
  <2>3. ASSUME NEW i \in 2..k  PROVE s[i] = nodes[i - 1]
    <3>1. i \in 1..k /\ ~ (i <= 1) /\ i - 1 \in 1..(k - 1)
      OBVIOUS
    <3> QED  BY <1>2, <1>4, <2>1, <3>1
  <2> QED  BY <2>2, <2>3
<1>6. Distinct(s)
  <2> HIDE DEF s
  <2>1. \A i, j \in 1..k : s[i] = s[j] => i = j
    <3> SUFFICES ASSUME NEW i \in 1..k, NEW j \in 1..k, s[i] = s[j]  PROVE i = j
      OBVIOUS
    <3>1. CASE i = 1 /\ j = 1
      BY <3>1
    <3>2. CASE i # 1 /\ j = 1
      BY <1>1, <1>5, <3>2
    <3>3. CASE i = 1 /\ j # 1
      BY <1>1, <1>5, <3>3
    <3>4. CASE i # 1 /\ j # 1
      <4>1. i - 1 \in 1..k /\ j - 1 \in 1..k /\ nodes[i - 1] = nodes[j - 1]
        BY <1>5, <3>4
      <4>2. i - 1 = j - 1
        BY <4>1 DEF Distinct
      <4> QED  BY <4>2
    <3> QED  BY <3>1, <3>2, <3>3, <3>4
  <2> QED  BY <1>5, <2>1 DEF Distinct
<1> QED  BY <1>4, <1>5, <1>6 DEF t

\* InformListener hands an answer to the lookup that waits for it.
LEMMA HandleFacts ==
    ASSUME IInv, NEW msg \in Message, QueryOK(msg), Handle(msg),
           msg.type # "store" \/ (msg.peer = Me /\ (Calm => ~ HasCloser(Me))),
           UNCHANGED <<ops, disturbed>>, net' \subseteq net
    PROVE  /\ LookupOK' /\ Covered' /\ StoresOK' /\ StoredIsFound'
           /\ lookup'.kind = lookup.kind /\ lookup'.certain = lookup.certain
           /\ lookup'.queried = lookup.queried /\ lookup'.arrived \subseteq lookup.arrived \cup {msg}
<1>1. Calm' = Calm
  BY DEF Calm
<1>2. CASE msg.type = "reply" /\ msg.op = ops
  <2>1. /\ holders' = holders
        /\ lookup' = [lookup EXCEPT !.responded = @ \cup {msg.peer}, !.arrived = @ \cup {msg}]
    BY <1>2 DEF Handle
  <2>2. lookup \in LookupState /\ msg.peer \in Other /\ msg.peer \in lookup.queried
    BY <1>2, MessageType DEF IInv, LookupOK, QueryOK
  <2>3. /\ lookup'.kind = lookup.kind /\ lookup'.phase = lookup.phase /\ lookup'.exists = lookup.exists
        /\ lookup'.queried = lookup.queried /\ lookup'.waiting = lookup.waiting
        /\ lookup'.found = lookup.found /\ lookup'.certain = lookup.certain
        /\ lookup'.responded = lookup.responded \cup {msg.peer}
        /\ lookup'.arrived = lookup.arrived \cup {msg}
    BY <2>1, <2>2 DEF LookupState
  <2>4. lookup' \in LookupState
    <3>1. PICK a : a = lookup.responded \cup {msg.peer}
      OBVIOUS
    <3>2. PICK b : b = lookup.arrived \cup {msg}
      OBVIOUS
    <3>3. lookup' = [lookup EXCEPT !.responded = a, !.arrived = b]
      BY <2>1, <3>1, <3>2
    <3>4. a \in SUBSET Other /\ b \in SUBSET Message
      BY <2>2, <3>1, <3>2 DEF LookupState
    <3> QED  BY <2>2, <3>3, <3>4 DEF LookupState
  <2>5. LookupOK'
    BY <1>2, <2>2, <2>3, <2>4 DEF IInv, LookupOK
  <2>6. Covered'
    BY <1>1, <2>3 DEF IInv, Covered, CoveredBy
  <2>7. StoresOK' /\ StoredIsFound'
    BY <1>1, <2>1, <2>3 DEF IInv, StoresOK, StoredIsFound
  <2> QED  BY <2>3, <2>5, <2>6, <2>7
<1>3. CASE ~ (msg.type = "reply" /\ msg.op = ops)
  <2>1. lookup' = lookup /\ holders \subseteq holders' /\ holders' \subseteq holders \cup {Me}
        /\ (msg.type # "store" => holders' = holders)
    BY <1>3 DEF Handle
  <2>2. LookupOK' /\ Covered' /\ StoredIsFound'
    BY <1>1, <2>1 DEF IInv, LookupOK, Covered, StoredIsFound
  <2>3. StoresOK'
    BY <1>1, <2>1, IDAssumption DEF IInv, StoresOK
  <2> QED  BY <2>1, <2>2, <2>3
<1> QED  BY <1>2, <1>3

LEMMA ReceivePreserves ==
    ASSUME IInv, NEW msg \in net, Receive(msg)
    PROVE  IInv'
<1> DEFINE n == msg.peer
           b == BucketOf[n]
<1>1. /\ routine = Idle /\ net' = net \ {msg} /\ Handle(msg)
      /\ msg.type \in ToMe \/ (msg.type = "store" /\ n = Me)
      /\ UNCHANGED <<routine, ops, requests, disturbed>>
  BY DEF Receive
<1>2. msg \in Message /\ QueryOK(msg) /\ ReplyOK(msg)
  BY DEF IInv, MessagesOK
<1>3. msg.type # "store" \/ (n = Me /\ (Calm => ~ HasCloser(Me)))
  BY <1>1 DEF IInv, StoresOK, ToMe
<1>4. /\ LookupOK' /\ Covered' /\ StoresOK' /\ StoredIsFound'
      /\ lookup'.kind = lookup.kind /\ lookup'.certain = lookup.certain
      /\ lookup'.queried = lookup.queried /\ lookup'.arrived \subseteq lookup.arrived \cup {msg}
  BY <1>1, <1>2, <1>3, HandleFacts
<1>5. MessagesOK'
  <2>1. \A m \in net \cup InHand \cup lookup.arrived : QueryOK(m)' /\ ReplyOK(m)'
    BY <1>1, <1>4, MessageStays DEF IInv, MessagesOK
  <2>2. InHand' = InHand
    BY <1>1 DEF InHand
  <2> QED  BY <1>1, <1>4, <2>1, <2>2 DEF IInv, MessagesOK
<1>6. TableOK'
  <2>1. CASE n = Me
    BY <2>1 DEF IInv, TableOK, Receive, Other
  <2>2. CASE n # Me
    <3>1. /\ n \in ToSet(table[b]) \/ Len(table[b]) < BucketSize
          /\ table' = [table EXCEPT ![b] = PutFirst(table[b], n)]
      BY <2>2 DEF Receive
    <3>2. n \in Other /\ b \in Bits
      BY <1>2, <2>2, MessageType, BucketOfType DEF Other
    <3>3. BucketOK(table[b], b) /\ n \in InBucket(b)
      BY <3>2 DEF IInv, TableOK, InBucket
    <3> DEFINE s == PutFirst(table[b], n)
    <3>4. /\ s \in Seq(InBucket(b)) /\ Distinct(s) /\ Len(s) # 0
          /\ Len(s) = IF n \in ToSet(table[b]) THEN Len(table[b]) ELSE Len(table[b]) + 1
      <4>1. \A i, j \in DOMAIN table[b] : table[b][i] = table[b][j] => i = j
        BY <3>3 DEF BucketOK, Distinct
      <4> QED  BY <3>3, <4>1, PutFirstFacts DEF BucketOK, Distinct
    <3>5. Len(table[b]) \in Nat /\ BucketSize \in Nat
      BY <3>3, BoundAssumption DEF BucketOK
    <3> HIDE DEF s
    <3>6. BucketOK(s, b)
      BY <3>1, <3>3, <3>4, <3>5 DEF BucketOK
    <3> QED  BY <3>1, <3>2, <3>4, <3>6, TableUpdate DEF IInv, s
  <2> QED  BY <2>1, <2>2
<1>7. RoutineOK' /\ CountsOK'
  BY <1>1 DEF IInv, RoutineOK, CountsOK
<1> QED  BY <1>4, <1>5, <1>6, <1>7 DEF IInv

LEMMA ReceivePingPreserves ==
    ASSUME IInv, NEW msg \in net, ReceivePing(msg)
    PROVE  IInv'
<1> DEFINE n == msg.peer
           nodes == table[BucketOf[n]]
           new == [type |-> "pingreply", peer |-> nodes[BucketSize]]
<1>1. /\ routine = Idle /\ msg.type \in ToMe /\ n \notin ToSet(nodes) /\ Len(nodes) >= BucketSize
      /\ net' = (net \ {msg}) \cup {new}
      /\ routine' = [at |-> "ping", peer |-> nodes[BucketSize], msg |-> msg]
      /\ UNCHANGED <<table, lookup, ops, requests, holders, disturbed>>
  BY DEF ReceivePing
<1>2. msg \in Message /\ QueryOK(msg) /\ ReplyOK(msg) /\ n \in Other
  BY <1>1, MessageType DEF IInv, MessagesOK, ToMe
<1>3. nodes \in Seq(Other) /\ Len(nodes) = BucketSize /\ nodes[BucketSize] \in Other
  <2>1. nodes \in Seq(Other) /\ BucketOK(nodes, BucketOf[n])
    BY <1>2, BucketOfType DEF IInv, TableOK
  <2>2. Len(nodes) \in Nat /\ BucketSize \in Nat \ {0} /\ Len(nodes) <= BucketSize
    BY <2>1, BoundAssumption DEF BucketOK
  <2>3. Len(nodes) = BucketSize /\ BucketSize \in 1..Len(nodes)
    BY <1>1, <2>2
  <2> QED  BY <2>1, <2>3, ElementOfSeq
<1>4. PICK reply : reply = new
  OBVIOUS
<1>5. reply \in Message /\ reply.type = "pingreply"
  BY <1>3, <1>4 DEF Message
<1> HIDE DEF new
<1>6. TableOK' /\ LookupOK' /\ Covered' /\ StoredIsFound' /\ CountsOK'
  BY <1>1 DEF IInv, TableOK, LookupOK, Covered, Calm, StoredIsFound, CountsOK
<1>7. StoresOK'
  BY <1>1, <1>4, <1>5 DEF IInv, StoresOK, Calm
<1>8. routine'.peer = nodes[BucketSize] /\ routine'.msg = msg
  BY <1>1
<1>9. RoutineOK'
  <2>1. nodes = table'[BucketOf[n]]
    BY <1>1
  <2> QED  BY <1>1, <1>2, <1>3, <1>8, <2>1 DEF RoutineOK
<1>10. MessagesOK'
  <2>1. \A m \in net \cup InHand \cup lookup.arrived : QueryOK(m)' /\ ReplyOK(m)'
    BY <1>1, MessageStays DEF IInv, MessagesOK
  <2>2. QueryOK(reply)' /\ ReplyOK(reply)'
    BY <1>5 DEF QueryOK, ReplyOK
  <2>3. InHand' \subseteq {msg}
    BY <1>8 DEF InHand
  <2> QED  BY <1>1, <1>4, <1>5, <2>1, <2>2, <2>3 DEF IInv, MessagesOK
<1> QED  BY <1>6, <1>7, <1>9, <1>10 DEF IInv

LEMMA PingTimeoutPreserves ==
    ASSUME IInv, PingTimeout
    PROVE  IInv'
<1>1. PICK msg : msg = routine.msg
  OBVIOUS
<1> DEFINE n == msg.peer
           b == BucketOf[n]
           s == <<n>> \o SubSeq(table[b], 1, BucketSize - 1)
<1>2. /\ routine # Idle /\ routine' = Idle /\ Handle(msg)
      /\ table' = [table EXCEPT ![b] = s]
      /\ UNCHANGED <<net, ops, requests, disturbed>>
  BY <1>1 DEF PingTimeout
<1>3. /\ msg \in Message /\ msg.type \in ToMe
      /\ n \notin ToSet(table[b]) /\ Len(table[b]) = BucketSize
  BY <1>1, <1>2 DEF IInv, RoutineOK
<1>4. msg \in InHand /\ QueryOK(msg) /\ ReplyOK(msg)
  BY <1>1, <1>2 DEF IInv, MessagesOK, InHand
<1>5. n \in Other /\ b \in Bits /\ msg.type # "store"
  BY <1>3, MessageType, BucketOfType DEF ToMe
<1>6. /\ LookupOK' /\ Covered' /\ StoresOK' /\ StoredIsFound'
      /\ lookup'.kind = lookup.kind /\ lookup'.certain = lookup.certain
      /\ lookup'.queried = lookup.queried /\ lookup'.arrived \subseteq lookup.arrived \cup {msg}
  <2> HIDE DEF s
  <2>1. net' \subseteq net /\ UNCHANGED <<ops, disturbed>>
    BY <1>2
  <2> QED  BY <1>2, <1>3, <1>4, <1>5, <2>1, HandleFacts
<1>7. MessagesOK'
  <2>1. \A m \in net \cup InHand \cup lookup.arrived : QueryOK(m)' /\ ReplyOK(m)'
    BY <1>2, <1>6, MessageStays DEF IInv, MessagesOK
  <2>2. InHand' = {}
    BY <1>2 DEF InHand
  <2> QED  BY <1>2, <1>4, <1>6, <2>1, <2>2 DEF IInv, MessagesOK
<1>8. TableOK'
  <2>1. BucketOK(table[b], b) /\ n \in InBucket(b)
    BY <1>5 DEF IInv, TableOK, InBucket
  <2>2. BucketSize \in Nat \ {0}
    BY BoundAssumption
  <2>3. s \in Seq(InBucket(b)) /\ Len(s) = BucketSize /\ Distinct(s)
    BY <1>3, <2>1, <2>2, DropLastFacts DEF BucketOK
  <2> HIDE DEF s
  <2>4. BucketOK(s, b) /\ Len(s) # 0
    BY <2>2, <2>3 DEF BucketOK
  <2> QED  BY <1>2, <1>5, <2>4, TableUpdate DEF IInv
<1>9. RoutineOK' /\ CountsOK'
  BY <1>2 DEF IInv, RoutineOK, CountsOK
<1> QED  BY <1>6, <1>7, <1>8, <1>9 DEF IInv

-----------------------------------------------------------------------------
(* The lookup of the client                                                 *)

\* What every step of a running lookup keeps.
LEMMA LookupGoesOn ==
    ASSUME IInv, lookup.phase # "done", NEW r \in LookupState, lookup' = r,
           r.kind = lookup.kind, r.certain = lookup.certain,
           lookup.queried \subseteq r.queried, r.waiting \subseteq r.queried, r.queried \subseteq r.exists,
           r.responded = lookup.responded, r.arrived \subseteq lookup.arrived,
           SendDue(lookup.queried, ops), UNCHANGED <<table, routine, ops, requests, holders>>,
           disturbed' \in BOOLEAN, ~ disturbed' => ~ disturbed,
           Calm' /\ r.kind = "store" /\ r.phase = "done" =>
               \A x \in KClosest(Closest(r), 1) : ~ HasCloser(x)
    PROVE  TableOK' /\ RoutineOK' /\ MessagesOK' /\ LookupOK' /\ StoresOK' /\ CountsOK'
<1>1. TableOK' /\ RoutineOK' /\ CountsOK'
  BY DEF IInv, TableOK, RoutineOK, CountsOK
<1>2. LookupOK'
  BY DEF IInv, LookupOK
<1>3. ops \in 1..MaxOps
  BY BoundAssumption DEF IInv, LookupOK, CountsOK
<1>4. /\ net' \subseteq Message
      /\ \A msg \in net' : msg \notin net =>
            \/ msg.type = "query" /\ msg.op = ops /\ msg.peer \in r.queried
            \/ /\ msg.type = "store" /\ r.kind = "store" /\ r.phase = "done"
               /\ msg.peer \in KClosest(Closest(r), 1)
  BY <1>3, SendDueFacts DEF IInv, MessagesOK
<1>5. Calm' => Calm
  BY DEF Calm
<1>6. StoresOK'
  BY <1>4, <1>5 DEF IInv, StoresOK
<1>7. MessagesOK'
  <2>1. \A msg \in net \cup InHand \cup lookup.arrived : QueryOK(msg)' /\ ReplyOK(msg)'
    BY MessageStays DEF IInv, MessagesOK
  <2>2. \A msg \in net' : msg \notin net => QueryOK(msg)' /\ ReplyOK(msg)'
    BY <1>3, <1>4 DEF QueryOK, ReplyOK
  <2>3. InHand' = InHand
    BY DEF InHand
  <2> QED  BY <1>4, <2>1, <2>2, <2>3 DEF MessagesOK
<1> QED  BY <1>1, <1>2, <1>6, <1>7

LEMMA SelectTimeoutPreserves ==
    ASSUME IInv, SelectTimeout
    PROVE  IInv'
<1>1. PICK r : r = NextPhase(lookup)
  OBVIOUS
<1>2. /\ lookup.phase # "done" /\ lookup' = r /\ SendDue(lookup.queried, ops)
      /\ disturbed' = TRUE /\ UNCHANGED <<table, routine, ops, requests, holders>>
  BY <1>1 DEF SelectTimeout
<1>3. Advances(lookup, r)
  BY <1>1, NextPhaseFacts DEF IInv, LookupOK
<1>4. ~ Calm'
  BY <1>2 DEF Calm
<1>5. /\ r \in LookupState /\ r.kind = lookup.kind /\ r.certain = lookup.certain
      /\ lookup.queried \subseteq r.queried /\ r.waiting \subseteq r.queried /\ r.queried \subseteq r.exists
      /\ r.responded = lookup.responded /\ r.arrived \subseteq lookup.arrived
  BY <1>3 DEF Advances, IInv, LookupOK
<1>6. TableOK' /\ RoutineOK' /\ MessagesOK' /\ LookupOK' /\ StoresOK' /\ CountsOK'
  BY <1>2, <1>4, <1>5, LookupGoesOn
<1>7. Covered' /\ StoredIsFound'
  BY <1>2, <1>4 DEF Covered, StoredIsFound
<1> QED  BY <1>6, <1>7 DEF IInv

\* An answer that is taken leaves its node covered.
LEMMA AnswerTaken ==
    ASSUME IInv, lookup.phase # "done", NEW n \in lookup.waiting, NEW msg \in lookup.arrived,
           msg.peer = n, ~ msg.data
    PROVE  LET taken == [InsertArray(lookup, msg.nodes) EXCEPT !.waiting = @ \ {n}, !.arrived = @ \ {msg}]
           IN  /\ taken \in LookupState
               /\ taken.kind = lookup.kind /\ taken.phase = lookup.phase
               /\ taken.certain = lookup.certain /\ taken.queried = lookup.queried
               /\ taken.responded = lookup.responded
               /\ taken.waiting = lookup.waiting \ {n} /\ taken.arrived \subseteq lookup.arrived
               /\ lookup.exists \subseteq taken.exists
               /\ taken.closer => taken.exists \ lookup.exists # {}
               /\ Calm => \A x \in lookup.queried \ (lookup.waiting \ {n}) : CoveredBy(taken, x)
<1>1. PICK a : a = InsertArray(lookup, msg.nodes)
  OBVIOUS
<1> DEFINE taken == [a EXCEPT !.waiting = @ \ {n}, !.arrived = @ \ {msg}]
<1>2. /\ lookup \in LookupState /\ msg \in Message /\ msg.type = "reply" /\ msg.op = ops
      /\ n \in lookup.responded /\ n \in lookup.queried /\ n \in lookup.exists /\ ReplyOK(msg)
  BY DEF IInv, LookupOK, MessagesOK, LookupState
<1>3. msg.nodes \in Seq(Node) /\ msg.nodes = Answer[n] /\ n \in Other
  BY <1>2, MessageType DEF ReplyOK
<1>4. /\ a \in LookupState
      /\ a.kind = lookup.kind /\ a.phase = lookup.phase /\ a.queried = lookup.queried
      /\ a.responded = lookup.responded /\ a.arrived = lookup.arrived /\ a.waiting = lookup.waiting
      /\ a.certain = lookup.certain
      /\ lookup.exists \subseteq a.exists /\ (a.closer => a.exists \ lookup.exists # {})
      /\ \A m \in ToSet(Answer[n]) \ {Me} : isCloser[n][m] => \E c \in a.exists : isCloser[n][c]
  BY <1>1, <1>2, <1>3, InsertArrayFacts
<1>5. taken \in LookupState
  <2>1. PICK w : w = a.waiting \ {n}
    OBVIOUS
  <2>2. PICK v : v = a.arrived \ {msg}
    OBVIOUS
  <2>3. taken = [a EXCEPT !.waiting = w, !.arrived = v]
    BY <2>1, <2>2
  <2>4. w \in SUBSET Other /\ v \in SUBSET Message
    BY <1>4, <2>1, <2>2 DEF LookupState
  <2> HIDE DEF taken
  <2> QED  BY <1>4, <2>3, <2>4 DEF LookupState
<1>6. /\ taken.kind = a.kind /\ taken.phase = a.phase /\ taken.queried = a.queried
      /\ taken.responded = a.responded /\ taken.certain = a.certain
      /\ taken.exists = a.exists /\ taken.closer = a.closer
      /\ taken.waiting = a.waiting \ {n} /\ taken.arrived = a.arrived \ {msg}
  BY <1>4 DEF LookupState
<1> HIDE DEF taken
<1>7. ASSUME Calm, NEW x \in lookup.queried \ (lookup.waiting \ {n})  PROVE CoveredBy(taken, x)
  <2>1. CASE x = n
    <3>1. HasCloser(n) => \E m \in taken.exists : isCloser[n][m]
      BY <1>3, <1>4, <1>6, <1>7 DEF Calm, Navigable, HasCloser
    <3>2. taken.kind = "value" /\ taken.certain => HasCloser(n)
      BY <1>2, <1>4, <1>6, <1>7 DEF ReplyOK
    <3> QED  BY <1>2, <1>4, <1>6, <2>1, <3>1, <3>2 DEF CoveredBy
  <2>2. CASE x # n
    <3>1. CoveredBy(lookup, x)
      BY <1>7, <2>2 DEF IInv, Covered
    <3> QED  BY <1>4, <1>6, <3>1 DEF CoveredBy
  <2> QED  BY <2>1, <2>2
<1> QED
  <2>1. taken = [InsertArray(lookup, msg.nodes) EXCEPT !.waiting = @ \ {n}, !.arrived = @ \ {msg}]
    BY <1>1 DEF taken
  <2> QED  BY <1>4, <1>5, <1>6, <1>7, <2>1

LEMMA SelectReplyPreserves ==
    ASSUME IInv, NEW n \in lookup.waiting, NEW msg \in lookup.arrived, SelectReply(n, msg)
    PROVE  IInv'
<1>1. PICK taken : taken = [InsertArray(lookup, msg.nodes) EXCEPT !.waiting = @ \ {n},
                                                                  !.arrived = @ \ {msg}]
  OBVIOUS
<1>2. PICK r : r = lookup'
  OBVIOUS
<1>3. /\ lookup.phase # "done" /\ msg.peer = n /\ SendDue(lookup.queried, ops)
      /\ UNCHANGED <<table, routine, ops, requests, holders, disturbed>>
  BY DEF SelectReply
<1>4. /\ msg.data => r = [lookup EXCEPT !.phase = "done", !.found = TRUE]
      /\ ~ msg.data /\ lookup.waiting # {n} => r = taken
      /\ ~ msg.data /\ lookup.waiting = {n} => r = NextPhase(taken)
  <2>1. msg.data \in BOOLEAN
    BY MessageType DEF IInv, LookupOK, LookupState
  <2> QED  BY <1>1, <1>2, <2>1 DEF SelectReply
<1>5. /\ lookup \in LookupState /\ lookup.waiting \subseteq lookup.queried
      /\ lookup.queried \subseteq lookup.exists /\ lookup.responded \subseteq lookup.queried
  BY DEF IInv, LookupOK
<1>6. Calm' = Calm /\ disturbed' \in BOOLEAN /\ (~ disturbed' => ~ disturbed)
  BY <1>3 DEF Calm, IInv, CountsOK
<1>7. CASE msg.data
  <2>1. /\ r \in LookupState /\ r.kind = lookup.kind /\ r.certain = lookup.certain
        /\ r.queried = lookup.queried /\ r.waiting = lookup.waiting /\ r.exists = lookup.exists
        /\ r.responded = lookup.responded /\ r.arrived = lookup.arrived
        /\ r.phase = "done" /\ r.found = TRUE
    BY <1>4, <1>5, <1>7 DEF LookupState
  <2>2. r.kind = "value"
    BY <1>7, <2>1 DEF IInv, LookupOK, MessagesOK, ReplyOK
  <2>3. TableOK' /\ RoutineOK' /\ MessagesOK' /\ LookupOK' /\ StoresOK' /\ CountsOK'
    BY <1>2, <1>3, <1>5, <1>6, <2>1, <2>2, LookupGoesOn
  <2>4. Covered' /\ StoredIsFound'
    BY <1>2, <2>1 DEF Covered, StoredIsFound
  <2> QED  BY <2>3, <2>4 DEF IInv
<1>8. CASE ~ msg.data
  <2>1. /\ taken \in LookupState
        /\ taken.kind = lookup.kind /\ taken.phase = lookup.phase
        /\ taken.certain = lookup.certain /\ taken.queried = lookup.queried
        /\ taken.responded = lookup.responded
        /\ taken.waiting = lookup.waiting \ {n} /\ taken.arrived \subseteq lookup.arrived
        /\ lookup.exists \subseteq taken.exists
        /\ taken.closer => taken.exists \ lookup.exists # {}
        /\ Calm => \A x \in lookup.queried \ (lookup.waiting \ {n}) : CoveredBy(taken, x)
    BY <1>1, <1>3, <1>8, AnswerTaken
  <2>2. CASE lookup.waiting # {n}
    <3>1. r = taken /\ r.phase # "done"
      BY <1>3, <1>4, <1>8, <2>1, <2>2
    <3>2. TableOK' /\ RoutineOK' /\ MessagesOK' /\ LookupOK' /\ StoresOK' /\ CountsOK'
      <4>1. r.waiting \subseteq r.queried /\ r.queried \subseteq r.exists /\ lookup.queried \subseteq r.queried
        BY <1>5, <2>1, <3>1
      <4> QED  BY <1>2, <1>3, <1>6, <2>1, <3>1, <4>1, LookupGoesOn
    <3>3. Covered' /\ StoredIsFound'
      BY <1>2, <1>6, <2>1, <3>1 DEF Covered, StoredIsFound
    <3> QED  BY <3>2, <3>3 DEF IInv
  <2>3. CASE lookup.waiting = {n}
    <3>1. /\ Advances(taken, r)
          /\ taken.closer /\ taken.exists \ taken.queried # {} => r.phase # "done"
          /\ ~ taken.closer /\ r.phase = "done" => Candidates(taken) \subseteq taken.queried
      BY <1>4, <1>5, <1>8, <2>1, <2>3, NextPhaseFacts
    <3>2. /\ r \in LookupState /\ r.kind = lookup.kind /\ r.certain = lookup.certain
          /\ lookup.queried \subseteq r.queried /\ r.waiting \subseteq r.queried /\ r.queried \subseteq r.exists
          /\ r.responded = lookup.responded /\ r.arrived \subseteq lookup.arrived
          /\ r.queried \ r.waiting = lookup.queried /\ r.exists = taken.exists
      BY <1>5, <2>1, <3>1 DEF Advances
    <3>3. Calm => \A x \in lookup.queried : CoveredBy(r, x)
      BY <2>1, <2>3, <3>2 DEF CoveredBy
    \* At the end the closest node of the network was queried.
    <3>4. ASSUME Calm, r.phase = "done"
          PROVE  \E c \in lookup.queried : ~ HasCloser(c) /\ \A x \in KClosest(Closest(r), 1) : x = c
      <4>1. r.waiting = {} /\ r.queried = lookup.queried
        BY <3>1, <3>2, <3>4 DEF Advances
      <4>2. ~ taken.closer
        BY <1>5, <2>1, <3>1, <3>4
      <4>3. Candidates(r) = Candidates(taken) /\ Candidates(r) \subseteq r.queried
        BY <2>1, <3>1, <3>2, <3>4, <4>1, <4>2 DEF Candidates
      <4>4. r.exists # {} /\ r.responded \subseteq r.queried
        BY <1>5, <2>1, <3>2
      <4>5. \A x \in r.queried : x \in r.responded /\ (HasCloser(x) => \E m \in r.exists : isCloser[x][m])
        BY <3>3, <3>4, <4>1 DEF CoveredBy
      <4> QED  BY <3>2, <4>1, <4>3, <4>4, <4>5, EndsAtClosest
    <3>5. TableOK' /\ RoutineOK' /\ MessagesOK' /\ LookupOK' /\ StoresOK' /\ CountsOK'
      <4>1. Calm' /\ r.phase = "done" => \A x \in KClosest(Closest(r), 1) : ~ HasCloser(x)
        BY <1>6, <3>4
      <4> QED  BY <1>2, <1>3, <1>6, <3>2, <4>1, LookupGoesOn
    <3>6. Covered'
      BY <1>2, <1>6, <3>2, <3>3 DEF Covered
    <3>7. StoredIsFound'
      <4>1. ASSUME Calm, r.phase = "done", r.kind = "value", r.certain  PROVE FALSE
        BY <3>3, <3>4, <4>1 DEF CoveredBy
      <4> QED  BY <1>2, <1>6, <4>1 DEF StoredIsFound, Calm
    <3> QED  BY <3>5, <3>6, <3>7 DEF IInv
  <2> QED  BY <2>2, <2>3
<1> QED  BY <1>7, <1>8

-----------------------------------------------------------------------------
(* The start of a lookup                                                    *)

\* Whatever part of a rotation is seen, a bucket keeps its length and holds nodes.
LEMMA ViewType ==
    ASSUME IInv, NEW view \in Views
    PROVE  view \in [Bits -> Seq(Other)] /\ \E i \in Bits : Len(view[i]) # 0
<1>1. TableOK
  BY DEF IInv
<1>2. CASE view = table
  BY <1>1, <1>2 DEF TableOK
<1>3. CASE view \in Dropping
  <2>1. PICK msg : /\ routine # Idle /\ msg = routine.msg
                   /\ view = [table EXCEPT ![BucketOf[msg.peer]] =
                                   SubSeq(table[BucketOf[msg.peer]], 1, BucketSize - 1)]
    BY <1>3 DEF Dropping
  <2>2. msg \in Message /\ msg.type \in ToMe /\ Len(table[BucketOf[msg.peer]]) = BucketSize
    BY <2>1 DEF IInv, RoutineOK
  <2>3. PICK b \in Bits : b = BucketOf[msg.peer]
    BY <2>2, MessageType, BucketOfType DEF ToMe
  <2>4. PICK old \in Seq(Other) : old = table[b] /\ Len(old) = BucketSize
    BY <1>1, <2>2, <2>3 DEF TableOK
  <2>5. PICK cut : cut = SubSeq(old, 1, BucketSize - 1)
    OBVIOUS
  <2>6. cut \in Seq(Other) /\ Len(cut) # 0
    <3>1. BucketSize \in Nat /\ BucketSize > 1
      BY BoundAssumption
    <3> QED  BY <2>4, <2>5, <3>1
  <2>7. view = [table EXCEPT ![b] = cut]
    BY <2>1, <2>3, <2>4, <2>5
  <2> QED  BY <1>1, <2>6, <2>7 DEF TableOK
<1>4. CASE view # table /\ view \notin Dropping
  <2>1. PICK n \in Other : n \in ToSet(table[BucketOf[n]]) /\ view \in Rotating(n)
    BY <1>4 DEF Views
  <2>2. PICK b \in Bits : b = BucketOf[n]
    BY BucketOfType
  <2>3. PICK old \in Seq(Other) : old = table[b] /\ Distinct(old) /\ n \in ToSet(old)
    BY <1>1, <2>1, <2>2 DEF TableOK, BucketOK
  <2>4. PICK put : put = PutFirst(old, n)
    OBVIOUS
  <2>5. put \in Seq(Other) /\ Len(put) = Len(old)
    BY <2>3, <2>4, PutFirstFacts DEF Distinct
  <2>6. PICK done \in SUBSET DOMAIN table[BucketOf[n]] :
            view = [table EXCEPT ![BucketOf[n]] = [j \in DOMAIN table[BucketOf[n]] |->
                       IF j \in done THEN PutFirst(table[BucketOf[n]], n)[j] ELSE table[BucketOf[n]][j]]]
    BY <2>1 DEF Rotating
  <2>7. PICK mixed : mixed = [j \in DOMAIN table[BucketOf[n]] |->
                       IF j \in done THEN PutFirst(table[BucketOf[n]], n)[j] ELSE table[BucketOf[n]][j]]
    OBVIOUS
  <2>8. mixed \in Seq(Other) /\ Len(mixed) = Len(old)
    <3>1. DOMAIN old = 1..Len(old) /\ Len(old) \in Nat
      OBVIOUS
    <3>2. \A j \in 1..Len(old) : old[j] \in Other /\ put[j] \in Other
      BY <2>5, ElementOfSeq
    <3>3. mixed = [j \in DOMAIN old |-> IF j \in done THEN put[j] ELSE old[j]]
      BY <2>2, <2>3, <2>4, <2>7
    <3> QED  BY <3>1, <3>2, <3>3
  <2>9. view = [table EXCEPT ![b] = mixed]
    BY <2>2, <2>6, <2>7
  <2>10. view \in [Bits -> Seq(Other)]
    BY <1>1, <2>8, <2>9 DEF TableOK
  <2>11. \A i \in Bits : Len(view[i]) = Len(table[i])
    BY <1>1, <2>3, <2>8, <2>9 DEF TableOK
  <2> QED  BY <1>1, <2>10, <2>11 DEF TableOK
<1> QED  BY <1>2, <1>3, <1>4

\* A lookup starts with somebody to ask.
LEMMA FirstRound ==
    ASSUME IInv, NEW view \in Views, NEW new \in LookupState, new.exists = {}, new.queried = {}
    PROVE  LET r == LookupRound(InsertArray(new, AlphaClosest(Flat(view), Alpha))) IN
           /\ r \in LookupState /\ r.phase # "done" /\ r.kind = new.kind /\ r.certain = new.certain
           /\ r.responded = new.responded /\ r.arrived = new.arrived /\ r.queried = r.waiting
           /\ r.queried \subseteq r.exists
<1>1. view \in [Bits -> Seq(Other)] /\ \E i \in Bits : Len(view[i]) # 0
  BY ViewType
<1>2. PICK flat \in Seq(Other) : flat = Flat(view) /\ Len(flat) # 0
  BY <1>1, FlatFacts
<1>3. PICK nodes \in Seq(Other) : nodes = AlphaClosest(flat, Alpha) /\ Len(nodes) # 0
  <2>1. Alpha \in Nat \ {0}
    BY BoundAssumption
  <2>2. AlphaClosest(flat, Alpha) \in Seq(Other) /\ Len(AlphaClosest(flat, Alpha)) # 0
    BY <1>2, <2>1, AlphaClosestFacts
  <2> QED  BY <2>2
<1>4. nodes \in Seq(Node) /\ nodes[1] # Me
  <2>1. Len(nodes) \in Nat /\ 1 \in 1..Len(nodes)
    BY <1>3
  <2>2. nodes[1] \in Other
    BY <2>1, ElementOfSeq
  <2> QED  BY <2>2, SeqMonotonic DEF Other
<1>5. PICK l : l = InsertArray(new, nodes)
  OBVIOUS
<1>6. /\ l \in LookupState /\ l.kind = new.kind /\ l.certain = new.certain /\ l.queried = {}
      /\ l.responded = new.responded /\ l.arrived = new.arrived /\ l.exists # {}
  BY <1>3, <1>4, <1>5, InsertArrayFacts
<1>7. Advances(l, LookupRound(l)) /\ LookupRound(l).phase # "done"
  BY <1>6, LookupRoundFacts
<1> QED  BY <1>2, <1>3, <1>5, <1>6, <1>7 DEF Advances

LEMMA StartLookupPreserves ==
    ASSUME IInv, NEW kind \in {"store", "value"}, NEW view \in Views, StartLookup(kind, view)
    PROVE  IInv'
<1>1. PICK certain \in BOOLEAN : certain = (holders # {})
  OBVIOUS
<1>2. PICK new : new = [NoLookup EXCEPT !.kind = kind, !.certain = certain]
  OBVIOUS
<1>3. PICK r : r = lookup'
  OBVIOUS
<1>4. /\ ops + requests < MaxOps /\ ops' = ops + 1 /\ SendDue({}, ops + 1)
      /\ UNCHANGED <<table, routine, requests, holders, disturbed>>
      /\ r = IF kind = "value" /\ Me \in holders THEN [new EXCEPT !.found = TRUE]
             ELSE LookupRound(InsertArray(new, AlphaClosest(Flat(view), Alpha)))
  BY <1>1, <1>2, <1>3 DEF StartLookup
<1>5. /\ new \in LookupState /\ new.kind = kind /\ new.certain = certain /\ new.phase = "done"
      /\ new.exists = {} /\ new.queried = {} /\ new.responded = {} /\ new.arrived = {} /\ new.waiting = {}
  BY <1>2 DEF NoLookup, LookupState
<1>6. /\ r \in LookupState /\ r.kind = kind /\ r.certain = certain /\ r.responded = {} /\ r.arrived = {}
      /\ r.queried = r.waiting /\ r.queried \subseteq r.exists
      /\ r.phase = "done" => r.kind = "value" /\ r.found
  <2>1. CASE kind = "value" /\ Me \in holders
    BY <1>4, <1>5, <2>1 DEF LookupState
  <2>2. CASE ~ (kind = "value" /\ Me \in holders)
    <3>1. r = LookupRound(InsertArray(new, AlphaClosest(Flat(view), Alpha)))
      BY <1>4, <2>2
    <3> QED  BY <1>5, <3>1, FirstRound
  <2> QED  BY <2>1, <2>2
<1>7. ops \in Nat /\ requests \in Nat /\ MaxOps \in Nat /\ ops + 1 \in 1..MaxOps
  BY <1>4, BoundAssumption DEF IInv, CountsOK
<1>8. /\ net' \subseteq Message
      /\ \A msg \in net' : msg \notin net => msg.type = "query" /\ msg.op = ops' /\ msg.peer \in r.queried
  <2>1. net \subseteq Message
    BY DEF IInv, MessagesOK
  <2>2. /\ net' \subseteq Message
        /\ \A msg \in net' : msg \notin net =>
             \/ msg.type = "query" /\ msg.op = ops + 1 /\ msg.peer \in r.queried
             \/ /\ msg.type = "store" /\ r.kind = "store" /\ r.phase = "done"
                /\ msg.peer \in KClosest(Closest(r), 1)
    BY <1>3, <1>4, <1>6, <1>7, <2>1, SendDueFacts
  <2> QED  BY <1>4, <1>6, <2>2
<1>9. TableOK' /\ RoutineOK' /\ CountsOK'
  BY <1>4, <1>7 DEF IInv, TableOK, RoutineOK, CountsOK
<1>10. MessagesOK'
  <2>1. InHand' = InHand /\ InHand \subseteq Message /\ net \subseteq Message
    BY <1>4 DEF InHand, IInv, RoutineOK, MessagesOK
  <2>2. \A msg \in net \cup InHand : QueryOK(msg)' /\ ReplyOK(msg)'
    <3> TAKE msg \in net \cup InHand
    <3>1. msg.type \in {"query", "reply"} => msg.op \in Nat /\ msg.op <= ops
      BY <2>1, <1>7, MessageType DEF IInv, MessagesOK, QueryOK
    <3>2. msg.type \in {"query", "reply"} => msg.op <= ops' /\ msg.op # ops'
      BY <1>4, <1>7, <3>1
    <3> QED  BY <3>2 DEF QueryOK, ReplyOK
  <2>3. \A msg \in net' : msg \notin net => QueryOK(msg)' /\ ReplyOK(msg)'
    BY <1>3, <1>4, <1>7, <1>8 DEF QueryOK, ReplyOK
  <2>4. lookup'.arrived = {}
    BY <1>3, <1>6
  <2> QED  BY <1>8, <2>1, <2>2, <2>3, <2>4 DEF MessagesOK
<1>11. LookupOK'
  BY <1>3, <1>4, <1>6, <1>7 DEF LookupOK
<1>12. Covered' /\ StoredIsFound'
  BY <1>3, <1>6 DEF Covered, StoredIsFound
<1>13. StoresOK'
  <2>1. Calm' = Calm
    BY <1>4 DEF Calm
  <2>2. lookup'.certain => holders' # {}
    BY <1>1, <1>3, <1>4, <1>6
  <2>3. \A msg \in net' : msg.type = "store" => msg \in net
    BY <1>8
  <2> QED  BY <1>4, <2>1, <2>2, <2>3 DEF IInv, StoresOK
<1> QED  BY <1>9, <1>10, <1>11, <1>12, <1>13 DEF IInv

-----------------------------------------------------------------------------
(* The theorems                                                             *)

LEMMA InitIInv == Init => IInv
<1> SUFFICES ASSUME Init  PROVE IInv
  OBVIOUS
<1>1. /\ table \in [Bits -> UNION {InitialBucket(i) : i \in Bits}]
      /\ \A i \in Bits : table[i] \in InitialBucket(i)
      /\ \E i \in Bits : table[i] # <<>>
      /\ routine = Idle /\ net = {} /\ lookup = NoLookup
      /\ ops = 0 /\ requests = 0 /\ holders = {} /\ disturbed = FALSE
  BY DEF Init
<1>2. TableOK
  <2>1. ASSUME NEW i \in Bits  PROVE BucketOK(table[i], i) /\ table[i] \in Seq(Other)
    <3>1. PICK k \in 0..BucketSize : table[i] \in [1..k -> {n \in Heard : BucketOf[n] = i}]
      BY <1>1 DEF InitialBucket
    <3>2. Distinct(table[i])
      BY <1>1 DEF InitialBucket, Distinct
    <3>3. PICK s : s = table[i]
      OBVIOUS
    <3>4. s \in [1..k -> InBucket(i)] /\ k \in Nat /\ BucketSize \in Nat /\ k <= BucketSize
      BY <3>1, <3>3, IDAssumption, BoundAssumption DEF InBucket
    <3>5. s \in Seq(InBucket(i)) /\ Len(s) = k
      BY <3>4
    <3>6. s \in Seq(Other)
      BY <3>5, SeqMonotonic DEF InBucket
    <3> QED  BY <3>2, <3>3, <3>4, <3>5, <3>6 DEF BucketOK
  <2>2. table \in [Bits -> Seq(Other)]
    BY <1>1, <2>1
  <2>3. \E i \in Bits : Len(table[i]) # 0
    <3>1. PICK i \in Bits : table[i] # <<>>
      BY <1>1
    <3>2. table[i] \in Seq(Other)
      BY <2>1
    <3> QED  BY <3>1, <3>2, EmptySeq
  <2> QED  BY <2>1, <2>2, <2>3 DEF TableOK
<1>3. LookupOK
  BY <1>1 DEF LookupOK, LookupState, NoLookup
<1>4. RoutineOK /\ CountsOK
  <2>1. RoutineOK
    BY <1>1 DEF RoutineOK
  <2>2. 0 \in 0..MaxOps
    BY BoundAssumption
  <2> QED  BY <1>1, <2>1, <2>2 DEF CountsOK
<1>5. lookup.arrived = {} /\ lookup.kind = "none" /\ lookup.phase = "done"
  BY <1>1 DEF NoLookup
<1>6. MessagesOK /\ StoresOK
  BY <1>1, <1>5 DEF MessagesOK, InHand, StoresOK
<1>7. Covered /\ StoredIsFound
  BY <1>5 DEF Covered, StoredIsFound
<1> QED  BY <1>2, <1>3, <1>4, <1>6, <1>7 DEF IInv

LEMMA NextIInv == IInv /\ [Next]_vars => IInv'
<1> SUFFICES ASSUME IInv, [Next]_vars  PROVE IInv'
  OBVIOUS
<1>1. CASE PingTimeout
  BY <1>1, PingTimeoutPreserves
<1>2. CASE \E msg \in net : Receive(msg)
  BY <1>2, ReceivePreserves
<1>3. CASE \E msg \in net : ReceivePing(msg)
  BY <1>3, ReceivePingPreserves
<1>4. CASE \E msg \in net : Reply(msg)
  BY <1>4, ReplyPreserves
<1>5. CASE \E msg \in net : ReplyStore(msg)
  BY <1>5, ReplyStorePreserves
<1>6. CASE SelectTimeout
  BY <1>6, SelectTimeoutPreserves
<1>7. CASE \E n \in lookup.waiting, msg \in lookup.arrived : SelectReply(n, msg)
  BY <1>7, SelectReplyPreserves
<1>8. CASE \E kind \in {"store", "value"}, view \in Views : StartLookup(kind, view)
  BY <1>8, StartLookupPreserves
<1>9. CASE \E n \in Other : Request(n)
  BY <1>9, RequestPreserves
<1>10. CASE \E msg \in net : Lose(msg)
  BY <1>10, LosePreserves
<1>11. CASE UNCHANGED vars
  BY <1>11 DEF vars, IInv, TableOK, RoutineOK, MessagesOK, InHand, QueryOK, ReplyOK, Calm,
              LookupOK, Covered, StoresOK, CountsOK, StoredIsFound
<1> QED  BY <1>1, <1>2, <1>3, <1>4, <1>5, <1>6, <1>7, <1>8, <1>9, <1>10, <1>11
         DEF Next, Routine, Remote, Select

\* The invariant holds in every state the bucket table, the message routine and the lookups reach.
THEOREM Invariance == Spec => []IInv
  BY InitIInv, NextIInv, PTL DEF Spec

\* However updateNode, the drop of a silent last node and the lookups interleave, no bucket grows
\* past bucketSize, lists a node twice or holds one of another distance, and the lookup state and
\* the messages are of their types.
THEOREM TypeCorrect == Spec => []TypeOK
<1>1. IInv => TypeOK
  <2> SUFFICES ASSUME IInv  PROVE TypeOK
    OBVIOUS
  <2>1. /\ DOMAIN table = Bits
        /\ \A i \in Bits : /\ table[i] \in Seq({n \in Other : BucketOf[n] = i})
                           /\ Len(table[i]) <= BucketSize
                           /\ Cardinality(ToSet(table[i])) = Len(table[i])
    <3>1. DOMAIN table = Bits
      BY DEF IInv, TableOK
    <3>2. ASSUME NEW i \in Bits
          PROVE  /\ table[i] \in Seq(InBucket(i)) /\ Len(table[i]) <= BucketSize
                 /\ Cardinality(ToSet(table[i])) = Len(table[i])
      <4>1. BucketOK(table[i], i)
        BY DEF IInv, TableOK
      <4> QED  BY <4>1, DistinctCardinality DEF BucketOK, Distinct
    <3> QED  BY <3>1, <3>2 DEF InBucket
  <2>2. routine = Idle \/ (routine.peer \in Other /\ routine.msg \in Message)
    BY DEF IInv, RoutineOK
  <2>3. /\ lookup.kind \in {"none", "store", "value"} /\ lookup.phase \in {"round", "final", "done"}
        /\ lookup.exists \cup lookup.queried \cup lookup.responded \subseteq Other
        /\ lookup.arrived \subseteq Message /\ lookup.waiting \subseteq lookup.queried
        /\ lookup.closer \in BOOLEAN /\ lookup.found \in BOOLEAN /\ lookup.certain \in BOOLEAN
    BY DEF IInv, LookupOK, LookupState
  <2>4. /\ net \subseteq Message /\ disturbed \in BOOLEAN
        /\ ops \in 0..MaxOps /\ requests \in 0..MaxOps /\ holders \subseteq Node
    BY DEF IInv, MessagesOK, CountsOK, StoresOK
  <2> QED  BY <2>1, <2>2, <2>3, <2>4 DEF TypeOK
<1> QED  BY <1>1, Invariance, PTL

\* For every network that can be searched and every table to start from: while nothing is lost or
\* late, StoreInDHT stores the value at the node closest to the key and nowhere else, although
\* InsertArray forgets nodes and the last answer of a round decides whether there is another one.
THEOREM StoredAtClosestHolds == Spec => []StoredAtClosest
<1>1. IInv => StoredAtClosest
  BY DEF IInv, StoresOK, StoredAtClosest, Calm, HasCloser
<1> QED  BY <1>1, Invariance, PTL

\* In such a network LookupValue returns the value if it was stored when the lookup began, whichever
\* bucket the message routine rotates meanwhile and in whatever order the answers come.
THEOREM StoredIsFoundHolds == Spec => []StoredIsFound
<1>1. IInv => StoredIsFound
  BY DEF IInv
<1> QED  BY <1>1, Invariance, PTL
=============================================================================
