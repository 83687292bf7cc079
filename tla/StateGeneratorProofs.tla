------------------------ MODULE StateGeneratorProofs ------------------------
(***************************************************************************)
(* What holds of the states of every benchmark, whatever its axes, their   *)
(* masks and its devices: type configurations are numbered as the          *)
(* instantiations are, and every configuration has its states.             *)
(***************************************************************************)
EXTENDS StateGenerator, FiniteSetTheorems, SequenceTheorems, WellFoundedInduction, TLAPS

-----------------------------------------------------------------------------
(* Numbers and sizes *)

\* A set of numbers that is not empty has a least one.
LEMMA Least ==
  ASSUME NEW P \in SUBSET Nat, P # {}
  PROVE  \E i \in P : \A j \in P : i <= j
  <1>1. PICK R : R = OpToRel(<, Nat)
    OBVIOUS
  <1>2. IsWellFoundedOn(R, Nat)
    BY <1>1, NatLessThanWellFounded
  <1>3. PICK i \in P : \A j \in P : ~ (<<j, i>> \in R)
    BY <1>2, WFMin
  <1>4. \A j \in P : ~ (j < i)
    BY <1>1, <1>3 DEF OpToRel
  <1> QED
    BY <1>4

\* f takes each member of S to one of T of its own, and every one is taken.
OneToOne(f, S, T) ==
  /\ f \in [S -> T]
  /\ \A x, y \in S : f[x] = f[y] => x = y
  /\ \A t \in T : \E x \in S : f[x] = t

LEMMA SameSize ==
  ASSUME NEW S, NEW T, IsFiniteSet(T), NEW f, OneToOne(f, S, T)
  PROVE  IsFiniteSet(S) /\ Cardinality(S) = Cardinality(T)
  <1>1. f \in Injection(S, T)
    BY DEF Injection, IsInjective, OneToOne
  <1>2. f \in Surjection(S, T)
    BY DEF Surjection, OneToOne
  <1> QED
    BY <1>1, <1>2, FS_Injection

\* transform_reduce multiplies from the first size to the last.
Multiplied(sizes, n, p) ==
  p = [k \in 0..n |-> IF k = 0 THEN 1 ELSE p[k - 1] * sizes[k]]

LEMMA ProductOfSizes ==
  ASSUME NEW sizes, NEW n \in Nat, n = Len(sizes)
  PROVE  \E p : Multiplied(sizes, n, p) /\ Product(sizes) = p[n]
  <1>1. ASSUME NEW m \in 0..n
        PROVE  \E p : Multiplied(sizes, m, p)
    <2>1. PICK P : P = {k \in 0..n : ~ \E p : Multiplied(sizes, k, p)}
      OBVIOUS
    <2>2. SUFFICES ASSUME P # {}
                   PROVE  FALSE
      BY <2>1
    <2>3. P \in SUBSET (0..n) /\ P \in SUBSET Nat
      BY <2>1
    <2>4. PICK k \in P : \A j \in P : k <= j
      BY <2>2, <2>3, Least
    <2>5. CASE k = 0
      <3>1. PICK p : p = [i \in 0..0 |-> 1]
        OBVIOUS
      <3>2. p = [i \in 0..0 |-> IF i = 0 THEN 1 ELSE p[i - 1] * sizes[i]]
        <4>1. \A i \in 0..0 : i = 0
          OBVIOUS
        <4> QED
          BY <3>1, <4>1
      <3> QED
        BY <2>1, <2>5, <3>2 DEF Multiplied
    <2>6. CASE k # 0
      <3>1. k \in Nat /\ k - 1 \in 0..n /\ ~ (k <= k - 1)
        BY <2>3, <2>6
      <3>2. k - 1 \notin P
        BY <2>4, <3>1
      <3>3. PICK before : Multiplied(sizes, k - 1, before)
        BY <2>1, <3>1, <3>2
      <3>4. PICK p : p = [i \in 0..k |-> IF i = 0 THEN 1 ELSE before[i - 1] * sizes[i]]
        OBVIOUS
      <3>5. ASSUME NEW i \in 0..(k - 1)
            PROVE  p[i] = before[i]
        <4>1. i \in 0..k
          BY <3>1
        <4> QED
          BY <3>3, <3>4, <4>1 DEF Multiplied
      <3>6. \A i \in 0..k : i # 0 => i - 1 \in 0..(k - 1)
        BY <3>1
      <3>7. \A i \in 0..k : p[i] = IF i = 0 THEN 1 ELSE p[i - 1] * sizes[i]
        BY <3>4, <3>5, <3>6
      <3>8. p = [i \in 0..k |-> IF i = 0 THEN 1 ELSE p[i - 1] * sizes[i]]
        BY <3>4, <3>7
      <3> QED
        BY <2>1, <3>8 DEF Multiplied
    <2> QED
      BY <2>5, <2>6
  <1>2. \E p : Multiplied(sizes, n, p)
    BY <1>1
  <1>3. PICK p : p = CHOOSE q : Multiplied(sizes, n, q)
    OBVIOUS
  <1>4. Multiplied(sizes, n, p)
    BY <1>2, <1>3
  <1>5. Product(sizes) = p[n]
    BY <1>3 DEF Product, Multiplied
  <1> QED
    BY <1>4, <1>5

\* The choices of one value from each of the first k sets
ChoicesTo(sets, k) ==
  {c \in [1..k -> Nat] : \A i \in 1..k : c[i] \in sets[i]}

SizesAre(n, sets, sizes) ==
  /\ Len(sizes) = n
  /\ \A i \in 1..n : sets[i] \in SUBSET Nat /\ IsFiniteSet(sets[i])
  /\ \A i \in 1..n : sizes[i] = Cardinality(sets[i])

\* There are as many as the product of the sizes of the sets.
LEMMA ChoicesCounted ==
  ASSUME NEW n \in Nat, NEW sets, NEW sizes, SizesAre(n, sets, sizes)
  PROVE  /\ IsFiniteSet(ChoicesTo(sets, n))
         /\ Cardinality(ChoicesTo(sets, n)) = Product(sizes)
         /\ Product(sizes) \in Nat
  <1>0. /\ n = Len(sizes)
        /\ \A i \in 1..n : sets[i] \in SUBSET Nat /\ IsFiniteSet(sets[i])
        /\ \A i \in 1..n : sizes[i] = Cardinality(sets[i])
    BY DEF SizesAre
  <1>1. PICK p : Multiplied(sizes, n, p) /\ Product(sizes) = p[n]
    BY <1>0, ProductOfSizes
  <1>2. PICK P : P = {k \in 0..n : ~ (/\ IsFiniteSet(ChoicesTo(sets, k))
                                      /\ Cardinality(ChoicesTo(sets, k)) = p[k])}
    OBVIOUS
  <1>3. ASSUME P # {}
        PROVE  FALSE
    <2>1. P \in SUBSET (0..n) /\ P \in SUBSET Nat
      BY <1>2
    <2>2. PICK k \in P : \A j \in P : k <= j
      BY <1>3, <2>1, Least
    <2>3. CASE k = 0
      <3>1. PICK none : none = [i \in 1..0 |-> 0]
        OBVIOUS
      <3>2. 1..0 = {}
        OBVIOUS
      <3>3. ChoicesTo(sets, 0) = {none}
        BY <3>1, <3>2 DEF ChoicesTo
      <3>4. p[0] = 1
        BY <1>1 DEF Multiplied
      <3> QED
        BY <1>2, <2>3, <3>3, <3>4, FS_Singleton
    <2>4. CASE k # 0
      <3>1. k \in Nat /\ k \in 1..n /\ k - 1 \in 0..n /\ ~ (k <= k - 1)
        BY <2>1, <2>4
      <3>2. k - 1 \notin P
        BY <2>2, <3>1
      <3>3. PICK shorter : shorter = ChoicesTo(sets, k - 1)
        OBVIOUS
      <3>4. IsFiniteSet(shorter) /\ Cardinality(shorter) = p[k - 1]
        BY <1>2, <3>1, <3>2, <3>3
      <3>5. IsFiniteSet(sets[k]) /\ sets[k] \in SUBSET Nat /\ sizes[k] = Cardinality(sets[k])
        BY <1>0, <3>1
      <3>6. PICK pairs : pairs = shorter \X sets[k]
        OBVIOUS
      <3>7. IsFiniteSet(pairs) /\ Cardinality(pairs) = p[k - 1] * sizes[k]
        BY <3>4, <3>5, <3>6, FS_Product
      <3>8. p[k] = p[k - 1] * sizes[k]
        BY <1>1, <3>1 DEF Multiplied
      <3>9. PICK f : f = [c \in ChoicesTo(sets, k) |-> <<[i \in 1..(k - 1) |-> c[i]], c[k]>>]
        OBVIOUS
      <3>10. \A i \in 1..(k - 1) : i \in 1..k
        BY <3>1
      <3>11. k \in 1..k /\ \A i \in 1..k : i \in 1..(k - 1) \/ i = k
        BY <3>1
      <3>12. f \in [ChoicesTo(sets, k) -> pairs]
        <4>1. ASSUME NEW c \in ChoicesTo(sets, k)
              PROVE  <<[i \in 1..(k - 1) |-> c[i]], c[k]>> \in pairs
          <5>1. [i \in 1..(k - 1) |-> c[i]] \in shorter
            BY <3>3, <3>10 DEF ChoicesTo
          <5>2. c[k] \in sets[k]
            BY <3>11 DEF ChoicesTo
          <5> QED
            BY <3>6, <5>1, <5>2
        <4> QED
          BY <3>9, <4>1
      <3>13. ASSUME NEW c \in ChoicesTo(sets, k), NEW d \in ChoicesTo(sets, k), f[c] = f[d]
             PROVE  c = d
        <4>1. PICK cs, ds : /\ cs = [i \in 1..(k - 1) |-> c[i]]
                            /\ ds = [i \in 1..(k - 1) |-> d[i]]
          OBVIOUS
        <4>2. cs = ds /\ c[k] = d[k]
          BY <3>9, <3>13, <4>1
        <4>3. \A i \in 1..(k - 1) : c[i] = d[i]
          BY <4>1, <4>2
        <4>4. \A i \in 1..k : c[i] = d[i]
          BY <3>11, <4>2, <4>3
        <4>5. c \in [1..k -> Nat] /\ d \in [1..k -> Nat]
          BY DEF ChoicesTo
        <4>6. c = [i \in 1..k |-> c[i]] /\ d = [i \in 1..k |-> d[i]]
          BY <4>5
        <4>7. [i \in 1..k |-> c[i]] = [i \in 1..k |-> d[i]]
          BY <4>4
        <4> QED
          BY <4>6, <4>7
      <3>14. ASSUME NEW pair \in pairs
             PROVE  \E c \in ChoicesTo(sets, k) : f[c] = pair
        <4>1. PICK s \in shorter, v \in sets[k] : pair = <<s, v>>
          BY <3>6
        <4>2. PICK c : c = [i \in 1..k |-> IF i = k THEN v ELSE s[i]]
          OBVIOUS
        <4>3. \A i \in 1..(k - 1) : s[i] \in sets[i] /\ s[i] \in Nat
          BY <3>3 DEF ChoicesTo
        <4>4. c \in ChoicesTo(sets, k)
          BY <3>5, <3>11, <4>2, <4>3 DEF ChoicesTo
        <4>5. s = [i \in 1..(k - 1) |-> s[i]]
          BY <3>3 DEF ChoicesTo
        <4>6. c[k] = v /\ \A i \in 1..(k - 1) : c[i] = s[i]
          BY <3>1, <3>10, <3>11, <4>2
        <4>7. f[c] = <<[i \in 1..(k - 1) |-> c[i]], c[k]>>
          BY <3>9, <4>4
        <4> QED
          BY <4>1, <4>4, <4>5, <4>6, <4>7
      <3>15. /\ IsFiniteSet(ChoicesTo(sets, k))
             /\ Cardinality(ChoicesTo(sets, k)) = Cardinality(pairs)
        <4>1. OneToOne(f, ChoicesTo(sets, k), pairs)
          BY <3>12, <3>13, <3>14 DEF OneToOne
        <4> QED
          BY <3>7, <4>1, SameSize
      <3> QED
        BY <1>2, <3>7, <3>8, <3>15
    <2> QED
      BY <2>3, <2>4
  <1>4. n \in 0..n /\ n \notin P
    BY <1>3
  <1> QED
    BY <1>1, <1>2, <1>4, FS_CardinalityType

-----------------------------------------------------------------------------
(* The odometer *)

Below(sizes) == ChoicesTo([i \in 1..Len(sizes) |-> 0..(sizes[i] - 1)], Len(sizes))

\* a comes before b when the last index that differs decides.
Earlier(n, a, b) ==
  \E i \in 1..n : a[i] < b[i] /\ \A j \in 1..n : i < j => a[j] = b[j]

LEMMA BelowSizes ==
  ASSUME NEW sizes \in Seq(Nat), NEW n \in Nat, n = Len(sizes)
  PROVE  /\ \A c : c \in Below(sizes) <=>
                     c \in [1..n -> Nat] /\ \A i \in 1..n : c[i] < sizes[i]
         /\ IsFiniteSet(Below(sizes))
         /\ Cardinality(Below(sizes)) = Product(sizes) /\ Product(sizes) \in Nat
  <1>1. \A i \in 1..n : sizes[i] \in Nat
    OBVIOUS
  <1>2. PICK sets : sets = [i \in 1..n |-> 0..(sizes[i] - 1)]
    OBVIOUS
  <1>3. ASSUME NEW i \in 1..n
        PROVE  /\ sets[i] \in SUBSET Nat /\ IsFiniteSet(sets[i])
               /\ sizes[i] = Cardinality(sets[i])
               /\ \A v \in Nat : v \in sets[i] <=> v < sizes[i]
    <2>1. PICK size \in Nat : size = sizes[i]
      BY <1>1
    <2>2. sets[i] = 0..(size - 1)
      BY <1>2, <2>1
    <2>3. IsFiniteSet(0..(size - 1)) /\ Cardinality(0..(size - 1)) = size
      <3>1. PICK top \in Int : top = size - 1
        OBVIOUS
      <3>2. PICK zero \in Int : zero = 0
        OBVIOUS
      <3>3. IsFiniteSet(zero..top) /\ Cardinality(zero..top) = IF zero > top THEN 0 ELSE top - zero + 1
        BY FS_Interval
      <3> QED
        BY <3>1, <3>2, <3>3
    <2> QED
      BY <2>1, <2>2, <2>3
  <1>4. Below(sizes) = ChoicesTo(sets, n)
    BY <1>2 DEF Below
  <1>5. \A c : c \in Below(sizes) <=>
                 c \in [1..n -> Nat] /\ \A i \in 1..n : c[i] < sizes[i]
    BY <1>3, <1>4 DEF ChoicesTo
  <1>6. SizesAre(n, sets, sizes)
    BY <1>3 DEF SizesAre
  <1>7. /\ IsFiniteSet(ChoicesTo(sets, n))
        /\ Cardinality(ChoicesTo(sets, n)) = Product(sizes)
        /\ Product(sizes) \in Nat
    BY <1>6, ChoicesCounted
  <1> QED
    BY <1>4, <1>5, <1>7

LEMMA LastDifference ==
  ASSUME NEW n \in Nat, NEW a \in [1..n -> Nat], NEW b \in [1..n -> Nat], a # b
  PROVE  \E i \in 1..n : a[i] # b[i] /\ \A j \in 1..n : i < j => a[j] = b[j]
  <1>1. PICK P : P = {k \in 0..n : \A j \in 1..n : k < j => a[j] = b[j]}
    OBVIOUS
  <1>2. P \in SUBSET Nat /\ n \in P
    BY <1>1
  <1>3. PICK k \in P : \A j \in P : k <= j
    BY <1>2, Least
  <1>4. k # 0
    <2>1. \A j \in 1..n : 0 < j
      OBVIOUS
    <2> QED
      BY <1>1, <2>1
  <1>5. k \in 1..n /\ k - 1 \in 0..n /\ ~ (k <= k - 1) /\ \A j \in 1..n : k - 1 < j => j = k \/ k < j
    BY <1>1, <1>4
  <1>6. k - 1 \notin P
    BY <1>3, <1>5
  <1>7. a[k] # b[k]
    BY <1>1, <1>5, <1>6
  <1> QED
    BY <1>1, <1>5, <1>7

LEMMA EarlierIsAnother ==
  ASSUME NEW n \in Nat, NEW a \in [1..n -> Nat], NEW b \in [1..n -> Nat], Earlier(n, a, b)
  PROVE  a # b
  <1>1. PICK i \in 1..n : a[i] < b[i]
    BY DEF Earlier
  <1>2. a[i] \in Nat /\ b[i] \in Nat
    OBVIOUS
  <1> QED
    BY <1>1, <1>2

\* new is idx counted on by one, at index last.
CountsTo(n, sizes, idx, new, last) ==
  /\ idx[last] + 1 < sizes[last]
  /\ \A i \in 1..n : i < last => idx[i] + 1 >= sizes[i]
  /\ new[last] = idx[last] + 1
  /\ \A i \in 1..n : last < i => new[i] = idx[i]
  /\ \A i \in 1..n : i < last => new[i] = 0

\* Nothing lies between an index vector and the one it is counted to.
LEMMA NextIsNext ==
  ASSUME NEW sizes \in Seq(Nat), NEW n \in Nat, n = Len(sizes),
         NEW idx \in Below(sizes), NEW new, NEW last \in 1..n,
         CountsTo(n, sizes, idx, new, last),
         NEW c \in Below(sizes)
  PROVE  Earlier(n, c, new) <=> (Earlier(n, c, idx) \/ c = idx)
  <1>0. \A i \in 1..n : sizes[i] \in Nat
    OBVIOUS
  <1>a. idx \in [1..n -> Nat] /\ c \in [1..n -> Nat] /\ \A i \in 1..n : c[i] < sizes[i]
    BY BelowSizes
  <1>1. /\ idx \in [1..n -> Nat] /\ c \in [1..n -> Nat]
        /\ \A i \in 1..n : c[i] < sizes[i] /\ sizes[i] \in Nat
    BY <1>0, <1>a
  <1>2. \A i \in 1..n : idx[i] \in Nat /\ c[i] \in Nat
    BY <1>1
  <1>3. /\ new[last] = idx[last] + 1
        /\ \A i \in 1..n : last < i => new[i] = idx[i]
        /\ \A i \in 1..n : i < last => new[i] = 0
        /\ \A i \in 1..n : i < last => idx[i] + 1 >= sizes[i]
    BY DEF CountsTo
  <1>4. ASSUME c = idx
        PROVE  Earlier(n, c, new)
    BY <1>2, <1>3, <1>4 DEF Earlier
  <1>5. ASSUME NEW i \in 1..n, c[i] < idx[i], \A j \in 1..n : i < j => c[j] = idx[j]
        PROVE  Earlier(n, c, new)
    <2>1. CASE last < i
      <3>1. \A j \in 1..n : i < j => last < j
        BY <2>1
      <3> QED
        BY <1>3, <1>5, <2>1, <3>1 DEF Earlier
    <2>2. CASE i = last
      <3>1. c[last] < idx[last] /\ \A j \in 1..n : last < j => c[j] = idx[j]
        BY <1>5, <2>2
      <3>2. c[last] < new[last]
        BY <1>2, <1>3, <3>1
      <3>3. \A j \in 1..n : last < j => c[j] = new[j]
        BY <1>3, <3>1
      <3> QED
        BY <3>2, <3>3 DEF Earlier
    <2>3. CASE i < last
      <3>1. \A j \in 1..n : last < j => i < j
        BY <2>3
      <3>2. c[last] = idx[last]
        BY <1>5, <2>3
      <3> QED
        <4>1. c[last] < new[last]
          BY <1>2, <1>3, <3>2
        <4>2. \A j \in 1..n : last < j => c[j] = new[j]
          BY <1>3, <1>5, <3>1
        <4> QED
          BY <4>1, <4>2 DEF Earlier
    <2> QED
      BY <2>1, <2>2, <2>3
  <1>6. c # idx => \E k \in 1..n : c[k] # idx[k] /\ \A j \in 1..n : k < j => c[j] = idx[j]
    <2>1. idx \in [1..n -> Nat]
      BY <1>1
    <2>2. c \in [1..n -> Nat]
      BY <1>1
    <2> QED
      BY <2>1, <2>2, LastDifference
  <1>7. ASSUME NEW i \in 1..n, c[i] < new[i], \A j \in 1..n : i < j => c[j] = new[j], c # idx
        PROVE  Earlier(n, c, idx)
    <2>1. CASE last < i
      <3>1. \A j \in 1..n : i < j => last < j
        BY <2>1
      <3> QED
        BY <1>3, <1>7, <2>1, <3>1 DEF Earlier
    <2>2. CASE i < last
      BY <1>2, <1>3, <1>7, <2>2
    <2>3. CASE i = last
      <3>1. c[last] < idx[last] \/ c[last] = idx[last]
        BY <1>2, <1>3, <1>7, <2>3
      <3>2. \A j \in 1..n : last < j => c[j] = idx[j]
        BY <1>3, <1>7, <2>3
      <3>3. CASE c[last] < idx[last]
        BY <3>2, <3>3 DEF Earlier
      <3>4. CASE c[last] = idx[last]
        <4>1. PICK k \in 1..n : c[k] # idx[k] /\ \A j \in 1..n : k < j => c[j] = idx[j]
          BY <1>7, <1>6
        <4>2. k < last
          BY <3>2, <3>4, <4>1
        <4>3. c[k] < sizes[k] /\ idx[k] + 1 >= sizes[k]
          BY <1>1, <1>3, <4>2
        <4>4. c[k] < idx[k]
          BY <1>1, <1>2, <4>1, <4>3
        <4> QED
          BY <4>1, <4>4 DEF Earlier
      <3> QED
        BY <3>1, <3>3, <3>4
    <2> QED
      BY <2>1, <2>2, <2>3
  <1> QED
    BY <1>4, <1>5, <1>7 DEF Earlier

\* When every index carries, all others came before.
LEMMA LastIsLast ==
  ASSUME NEW sizes \in Seq(Nat), NEW n \in Nat, n = Len(sizes),
         NEW idx \in Below(sizes), \A i \in 1..n : idx[i] + 1 >= sizes[i],
         NEW c \in Below(sizes), c # idx
  PROVE  Earlier(n, c, idx)
  <1>0. \A i \in 1..n : sizes[i] \in Nat
    OBVIOUS
  <1>a. idx \in [1..n -> Nat] /\ c \in [1..n -> Nat] /\ \A i \in 1..n : c[i] < sizes[i]
    BY BelowSizes
  <1>1. /\ idx \in [1..n -> Nat] /\ c \in [1..n -> Nat]
        /\ \A i \in 1..n : c[i] < sizes[i] /\ sizes[i] \in Nat
    BY <1>0, <1>a
  <1>2. PICK k \in 1..n : c[k] # idx[k] /\ \A j \in 1..n : k < j => c[j] = idx[j]
    BY <1>1, LastDifference
  <1>3. c[k] \in Nat /\ idx[k] \in Nat /\ c[k] < sizes[k] /\ idx[k] + 1 >= sizes[k]
    BY <1>1
  <1>4. c[k] < idx[k]
    BY <1>1, <1>2, <1>3
  <1> QED
    BY <1>2, <1>4 DEF Earlier

IndicesOf(entries) == [i \in DOMAIN entries |-> entries[i].index]

\* The entries of an iterator over axes of these sizes
EntriesOf(n, sizes, entries) ==
  /\ DOMAIN entries = 1..n /\ Len(entries) = n
  /\ \A i \in 1..n :
       entries[i] = [size |-> sizes[i], index |-> entries[i].index] /\ entries[i].index \in Nat

\* The iterator has gone through found, which are the index vectors before its
\* own, or all of them.
Counted(sizes, entries, current, total, found) ==
  /\ EntriesOf(Len(sizes), sizes, entries)
  /\ total = Product(sizes)
  /\ found \in Seq(Below(sizes)) /\ current = Len(found)
  /\ \A j, k \in 1..Len(found) : j < k => Earlier(Len(sizes), found[j], found[k])
  /\ current < total =>
       /\ IndicesOf(entries) \in Below(sizes)
       /\ \A c \in Below(sizes) :
            (\E j \in 1..Len(found) : found[j] = c)
              <=> Earlier(Len(sizes), c, IndicesOf(entries))
  /\ current >= total => \A c \in Below(sizes) : \E j \in 1..Len(found) : found[j] = c

\* Vectors that follow each other are as many only if they are all.
LEMMA AllAreFound ==
  ASSUME NEW sizes \in Seq(Nat), NEW found \in Seq(Below(sizes)), NEW m \in Nat, m = Len(found),
         \A j, k \in 1..m : j < k => Earlier(Len(sizes), found[j], found[k])
  PROVE  /\ m <= Product(sizes)
         /\ m >= Product(sizes) => \A c \in Below(sizes) : \E j \in 1..m : found[j] = c
         /\ (\A c \in Below(sizes) : \E j \in 1..m : found[j] = c) => m = Product(sizes)
         /\ Product(sizes) \in Nat
  <1>1. PICK n \in Nat : n = Len(sizes)
    OBVIOUS
  <1>2. PICK B : B = Below(sizes)
    OBVIOUS
  <1>3. /\ IsFiniteSet(B) /\ Cardinality(B) = Product(sizes) /\ Product(sizes) \in Nat
        /\ \A c \in B : c \in [1..n -> Nat]
    BY <1>1, <1>2, BelowSizes
  <1>4. found \in [1..m -> B]
    BY <1>2
  <1>5. ASSUME NEW j \in 1..m, NEW k \in 1..m, found[j] = found[k]
        PROVE  j = k
    <2>1. found[j] \in [1..n -> Nat] /\ found[k] \in [1..n -> Nat]
      BY <1>3, <1>4
    <2>2. ~ Earlier(n, found[j], found[k]) /\ ~ Earlier(n, found[k], found[j])
      BY <1>5, <2>1, EarlierIsAnother
    <2>3. ~ (j < k) /\ ~ (k < j)
      BY <1>1, <2>2
    <2> QED
      BY <2>3
  <1>6. found \in Injection(1..m, B)
    BY <1>4, <1>5 DEF Injection, IsInjective
  <1>7. IsFiniteSet(1..m) /\ Cardinality(1..m) = m
    <2>1. PICK one \in Int : one = 1 /\ m \in Int
      OBVIOUS
    <2>2. IsFiniteSet(one..m) /\ Cardinality(one..m) = IF one > m THEN 0 ELSE m - one + 1
      BY <2>1, FS_Interval
    <2> QED
      BY <2>1, <2>2
  <1>8. /\ m <= Cardinality(B)
        /\ m = Cardinality(B) <=> found \in Surjection(1..m, B)
    BY <1>3, <1>6, <1>7, FS_Injection
  <1>9. found \in Surjection(1..m, B) <=> \A c \in B : \E j \in 1..m : found[j] = c
    BY <1>4 DEF Surjection
  <1> QED
    BY <1>2, <1>3, <1>8, <1>9

LEMMA CountingBegins ==
  ASSUME NEW sizes \in Seq(Nat), NEW entries,
         entries = [i \in DOMAIN sizes |-> [size |-> sizes[i], index |-> 0]]
  PROVE  Counted(sizes, entries, 0, Product(sizes), <<>>)
  <1>1. PICK n \in Nat : n = Len(sizes) /\ DOMAIN sizes = 1..n
    OBVIOUS
  <1>2. PICK B : B = Below(sizes)
    OBVIOUS
  <1>3. PICK none : none = <<>> /\ none \in Seq(B) /\ Len(none) = 0 /\ 1..Len(none) = {}
    <2>1. <<>> \in Seq(B) /\ Len(<<>>) = 0 /\ 1..0 = {}
      OBVIOUS
    <2> QED
      BY <2>1
  <1>4. PICK total \in Nat : /\ total = Product(sizes)
                             /\ 0 >= total => \A c \in B : \E j \in 1..Len(none) : none[j] = c
    <2>1. PICK m \in Nat : m = Len(none) /\ m = 0
      BY <1>3
    <2>2. \A j, k \in 1..m : j < k => Earlier(Len(sizes), none[j], none[k])
      BY <1>3, <2>1
    <2>3. /\ m >= Product(sizes) => \A c \in B : \E j \in 1..m : none[j] = c
          /\ Product(sizes) \in Nat
      BY <1>2, <1>3, <2>1, <2>2, AllAreFound
    <2> QED
      BY <2>1, <2>3
  <1>5. PICK idx : idx = IndicesOf(entries)
    OBVIOUS
  <1>6. /\ DOMAIN entries = 1..n /\ Len(entries) = n
        /\ \A i \in 1..n : entries[i] = [size |-> sizes[i], index |-> 0]
    BY <1>1
  <1>7. idx \in [1..n -> Nat] /\ \A i \in 1..n : idx[i] = 0
    BY <1>5, <1>6 DEF IndicesOf
  <1>8. ASSUME 0 < total
        PROVE  idx \in B /\ \A c \in B : ~ Earlier(n, c, idx)
    <2>1. B # {}
      BY <1>2, <1>4, <1>8, BelowSizes, FS_EmptySet
    <2>2. PICK c : c \in B
      BY <2>1
    <2>3. \A d \in B : d \in [1..n -> Nat] /\ \A i \in 1..n : d[i] < sizes[i]
      BY <1>1, <1>2, BelowSizes
    <2>4. \A i \in 1..n : c[i] \in Nat /\ c[i] < sizes[i] /\ sizes[i] \in Nat
      <3>1. \A i \in 1..n : sizes[i] \in Nat
        BY <1>1
      <3>2. c \in [1..n -> Nat]
        BY <2>2, <2>3
      <3> QED
        BY <2>2, <2>3, <3>1, <3>2
    <2>5. \A i \in 1..n : idx[i] < sizes[i]
      BY <1>7, <2>4
    <2>6. idx \in B
      BY <1>1, <1>2, <1>7, <2>5, BelowSizes
    <2>7. ASSUME NEW d \in B, Earlier(n, d, idx)
          PROVE  FALSE
      <3>1. PICK i \in 1..n : d[i] < idx[i]
        BY <2>7 DEF Earlier
      <3>2. d[i] \in Nat /\ idx[i] = 0
        BY <1>7, <2>3
      <3> QED
        BY <3>1, <3>2
    <2> QED
      BY <2>6, <2>7
  <1>9. \A i \in 1..n : /\ entries[i] = [size |-> sizes[i], index |-> entries[i].index]
                        /\ entries[i].index \in Nat
    BY <1>6
  <1> QED
    BY <1>1, <1>2, <1>3, <1>4, <1>5, <1>6, <1>8, <1>9 DEF Counted, EntriesOf

\* state_iterator::next, on any entries
NextOf(entries) ==
  LET stops == {i \in DOMAIN entries : ~Carries(entries[i])}
      last == IF stops = {} THEN Len(entries) ELSE Min(stops)
  IN [i \in DOMAIN entries |->
        IF i > last THEN entries[i]
        ELSE [entries[i] EXCEPT !.index =
                IF Carries(entries[i]) THEN 0 ELSE @ + 1]]

\* What next does to the indices
LEMMA NextIndicesOf ==
  ASSUME NEW n \in Nat, NEW sizes, \A i \in 1..n : sizes[i] \in Nat,
         NEW entries, EntriesOf(n, sizes, entries),
         NEW new, new = NextOf(entries)
  PROVE  /\ EntriesOf(n, sizes, new)
         /\ \/ \A i \in 1..n : IndicesOf(entries)[i] + 1 >= sizes[i]
            \/ \E last \in 1..n :
                 CountsTo(n, sizes, IndicesOf(entries), IndicesOf(new), last)
  <1>0. /\ DOMAIN entries = 1..n /\ Len(entries) = n
        /\ \A i \in 1..n : /\ entries[i] = [size |-> sizes[i], index |-> entries[i].index]
                           /\ entries[i].index \in Nat
    BY DEF EntriesOf
  <1>1. \A i \in 1..n : Carries(entries[i]) <=> entries[i].index + 1 >= sizes[i]
    BY <1>0 DEF Carries
  <1>2. PICK stops : stops = {i \in 1..n : ~ Carries(entries[i])}
    OBVIOUS
  <1>3. PICK last : last = IF stops = {} THEN Len(entries) ELSE Min(stops)
    OBVIOUS
  <1>4. stops # {} => last \in stops /\ \A i \in stops : last <= i
    <2> SUFFICES ASSUME stops # {}
                 PROVE  last \in stops /\ \A i \in stops : last <= i
      OBVIOUS
    <2>1. stops \in SUBSET Nat
      BY <1>2
    <2>2. \E i \in stops : \A j \in stops : i <= j
      BY <2>1, Least
    <2>3. last = CHOOSE i \in stops : \A j \in stops : i <= j
      BY <1>3 DEF Min
    <2> QED
      BY <2>2, <2>3
  <1>5. last \in Nat
    BY <1>0, <1>2, <1>3, <1>4
  <1>6. new = [i \in 1..n |-> IF i > last THEN entries[i]
                              ELSE [entries[i] EXCEPT !.index =
                                      IF Carries(entries[i]) THEN 0 ELSE @ + 1]]
    BY <1>0, <1>2, <1>3 DEF NextOf
  <1>7. ASSUME NEW i \in 1..n
        PROVE  new[i] = [size |-> sizes[i],
                         index |-> IF last < i THEN entries[i].index
                                   ELSE IF Carries(entries[i]) THEN 0 ELSE entries[i].index + 1]
    <2>1. PICK index \in Nat : entries[i] = [size |-> sizes[i], index |-> index]
      BY <1>0
    <2>2. PICK next : next = IF Carries(entries[i]) THEN 0 ELSE index + 1
      OBVIOUS
    <2>3. entries[i].index = index
      BY <2>1
    <2>4. [entries[i] EXCEPT !.index = IF Carries(entries[i]) THEN 0 ELSE @ + 1]
            = [size |-> sizes[i], index |-> next]
      BY <2>1, <2>2
    <2>5. new[i] = IF last < i THEN entries[i] ELSE [size |-> sizes[i], index |-> next]
      BY <1>5, <1>6, <2>4
    <2> QED
      BY <2>1, <2>2, <2>3, <2>5
  <1>8. DOMAIN new = 1..n /\ Len(new) = n
    BY <1>6
  <1>9. \A i \in 1..n : /\ new[i].index = IF last < i THEN entries[i].index
                                          ELSE IF Carries(entries[i]) THEN 0 ELSE entries[i].index + 1
                        /\ new[i] = [size |-> sizes[i], index |-> new[i].index]
                        /\ new[i].index \in Nat
    <2> TAKE i \in 1..n
    <2>1. PICK index : index = IF last < i THEN entries[i].index
                               ELSE IF Carries(entries[i]) THEN 0 ELSE entries[i].index + 1
      OBVIOUS
    <2>2. new[i] = [size |-> sizes[i], index |-> index]
      BY <1>7, <2>1
    <2>3. new[i].index = index
      BY <2>2
    <2>4. index \in Nat
      BY <1>0, <2>1
    <2> QED
      BY <2>1, <2>2, <2>3, <2>4
  <1>i. PICK idx, next : idx = IndicesOf(entries) /\ next = IndicesOf(new)
    OBVIOUS
  <1>j. \A i \in 1..n : idx[i] = entries[i].index /\ next[i] = new[i].index
    BY <1>0, <1>8, <1>i DEF IndicesOf
  <1>e. EntriesOf(n, sizes, new)
    BY <1>8, <1>9 DEF EntriesOf
  <1>10. CASE stops = {}
    <2>1. \A i \in 1..n : idx[i] + 1 >= sizes[i]
      BY <1>1, <1>2, <1>10, <1>j
    <2> QED
      BY <1>e, <1>i, <2>1
  <1>11. CASE stops # {}
    <2>1. last \in 1..n /\ ~ Carries(entries[last])
      BY <1>2, <1>4, <1>11
    <2>2. \A i \in 1..n : i < last => Carries(entries[i])
      BY <1>2, <1>4, <1>5, <1>11
    <2>3. entries[last].index + 1 < sizes[last]
      <3>1. entries[last].index \in Nat /\ sizes[last] \in Nat
        BY <1>0, <2>1
      <3>2. ~ (entries[last].index + 1 >= sizes[last])
        BY <1>1, <2>1
      <3> QED
        BY <3>1, <3>2
    <2>4. \A i \in 1..n : i < last => entries[i].index + 1 >= sizes[i]
      BY <1>1, <2>2
    <2>5. \A i \in 1..n : new[i].index = IF last < i THEN entries[i].index
                                         ELSE IF i = last THEN entries[i].index + 1 ELSE 0
      <3> TAKE i \in 1..n
      <3>1. new[i].index = IF last < i THEN entries[i].index
                           ELSE IF Carries(entries[i]) THEN 0 ELSE entries[i].index + 1
        BY <1>9
      <3>2. i < last \/ i = last \/ last < i
        BY <1>5
      <3>3. CASE i < last
        BY <1>5, <2>2, <3>1, <3>3
      <3>4. CASE i = last
        BY <1>5, <2>1, <3>1, <3>4
      <3>5. CASE last < i
        BY <1>5, <3>1, <3>5
      <3> QED
        BY <3>2, <3>3, <3>4, <3>5
    <2>6. next[last] = idx[last] + 1 /\ idx[last] + 1 < sizes[last]
      BY <1>j, <2>1, <2>3, <2>5
    <2>7. \A i \in 1..n : last < i => next[i] = idx[i]
      BY <1>j, <2>5
    <2>8. \A i \in 1..n : i < last => next[i] = 0 /\ idx[i] + 1 >= sizes[i]
      BY <1>5, <1>j, <2>4, <2>5
    <2>9. CountsTo(n, sizes, idx, next, last)
      BY <2>6, <2>7, <2>8 DEF CountsTo
    <2> QED
      BY <1>e, <1>i, <2>1, <2>9
  <1> QED
    BY <1>10, <1>11

LEMMA AppendedTo ==
  ASSUME NEW B, NEW found \in Seq(B), NEW idx \in B
  PROVE  /\ Append(found, idx) \in Seq(B)
         /\ Len(Append(found, idx)) = Len(found) + 1
         /\ Append(found, idx)[Len(found) + 1] = idx
         /\ \A j \in 1..Len(found) : Append(found, idx)[j] = found[j]
  BY AppendProperties

\* Each step adds the iterator's indices to those it has gone through.
LEMMA CountingGoesOn ==
  ASSUME NEW sizes \in Seq(Nat), NEW entries, NEW current, NEW total, NEW found,
         Counted(sizes, entries, current, total, found), current < total,
         NEW new, new = NextOf(entries)
  PROVE  /\ IndicesOf(entries) \in Below(sizes)
         /\ Counted(sizes, new, current + 1, total, Append(found, IndicesOf(entries)))
  <1>1. PICK n \in Nat : n = Len(sizes)
    OBVIOUS
  <1>2. PICK B : B = Below(sizes)
    OBVIOUS
  <1>3. PICK idx : idx = IndicesOf(entries)
    OBVIOUS
  <1>4. PICK m \in Nat : m = Len(found) /\ m = current
    BY DEF Counted
  <1>e. EntriesOf(n, sizes, entries)
    BY <1>1 DEF Counted
  <1>5. /\ DOMAIN entries = 1..n /\ Len(entries) = n
        /\ \A i \in 1..n : /\ entries[i] = [size |-> sizes[i], index |-> entries[i].index]
                           /\ entries[i].index \in Nat
    BY <1>e DEF EntriesOf
  <1>6. /\ total = Product(sizes) /\ found \in Seq(B)
        /\ \A j, k \in 1..m : j < k => Earlier(n, found[j], found[k])
        /\ idx \in B
        /\ \A c \in B : (\E j \in 1..m : found[j] = c) <=> Earlier(n, c, idx)
    BY <1>1, <1>2, <1>3, <1>4 DEF Counted
  <1>7. \A i \in 1..n : idx[i] = entries[i].index
    BY <1>3, <1>5 DEF IndicesOf
  <1>8. \A i \in 1..n : sizes[i] \in Nat
    BY <1>1
  <1>n. EntriesOf(n, sizes, new)
    BY <1>e, <1>8, NextIndicesOf
  <1>9. /\ DOMAIN new = 1..n /\ Len(new) = n
        /\ \A i \in 1..n : /\ new[i] = [size |-> sizes[i], index |-> new[i].index]
                           /\ new[i].index \in Nat
    BY <1>n DEF EntriesOf
  <1>10. PICK more : more = Append(found, idx)
    OBVIOUS
  <1>11. /\ more \in Seq(B) /\ Len(more) = m + 1 /\ more[m + 1] = idx
         /\ \A j \in 1..m : more[j] = found[j]
    <2>1. found \in Seq(B)
      BY <1>6
    <2>2. idx \in B
      BY <1>6
    <2>3. /\ Append(found, idx) \in Seq(B)
          /\ Len(Append(found, idx)) = Len(found) + 1
          /\ Append(found, idx)[Len(found) + 1] = idx
          /\ \A j \in 1..Len(found) : Append(found, idx)[j] = found[j]
      BY <2>1, <2>2, AppendedTo
    <2> QED
      BY <1>4, <1>10, <2>3
  <1>12. \A j \in 1..(m + 1) : j \in 1..m \/ j = m + 1
    OBVIOUS
  <1>13. ASSUME NEW j \in 1..(m + 1), NEW k \in 1..(m + 1), j < k
         PROVE  Earlier(n, more[j], more[k])
    <2>1. j \in 1..m
      BY <1>13
    <2>2. CASE k \in 1..m
      BY <1>6, <1>11, <1>13, <2>1, <2>2
    <2>3. CASE k = m + 1
      <3>1. found[j] \in B
        <4>1. found \in Seq(B) /\ m = Len(found)
          BY <1>4, <1>6
        <4>2. found \in [1..m -> B]
          BY <4>1, LenProperties
        <4> QED
          BY <2>1, <4>2
      <3> QED
        BY <1>6, <1>11, <2>1, <2>3, <3>1
    <2> QED
      BY <1>12, <2>2, <2>3
  <1>14. \A c \in B : (\E j \in 1..(m + 1) : more[j] = c) <=> (Earlier(n, c, idx) \/ c = idx)
    <2> TAKE c \in B
    <2>1. (\E j \in 1..(m + 1) : more[j] = c) <=> ((\E j \in 1..m : found[j] = c) \/ c = idx)
      <3>1. \A j \in 1..m : j \in 1..(m + 1)
        OBVIOUS
      <3>2. m + 1 \in 1..(m + 1)
        OBVIOUS
      <3> QED
        BY <1>11, <1>12, <3>1, <3>2
    <2> QED
      BY <1>6, <2>1
  <1>15. PICK size \in Nat : /\ size = Product(sizes)
                             /\ m + 1 >= size => \A c \in B : \E j \in 1..(m + 1) : more[j] = c
                             /\ (\A c \in B : \E j \in 1..(m + 1) : more[j] = c) => m + 1 = size
    <2>1. PICK l \in Nat : l = Len(more) /\ l = m + 1
      BY <1>11
    <2>2. \A j, k \in 1..l : j < k => Earlier(Len(sizes), more[j], more[k])
      BY <1>1, <1>13, <2>1
    <2>3. /\ l >= Product(sizes) => \A c \in Below(sizes) : \E j \in 1..l : more[j] = c
          /\ (\A c \in Below(sizes) : \E j \in 1..l : more[j] = c) => l = Product(sizes)
          /\ Product(sizes) \in Nat
      BY <1>2, <1>11, <2>1, <2>2, AllAreFound
    <2> QED
      BY <1>2, <2>1, <2>3
  <1>16. PICK next : next = IndicesOf(new)
    OBVIOUS
  <1>17. DOMAIN next = 1..n /\ next = [i \in 1..n |-> new[i].index]
    BY <1>9, <1>16 DEF IndicesOf
  <1>18. ASSUME m + 1 < total
         PROVE  next \in B /\ \A c \in B : Earlier(n, c, next) <=> (Earlier(n, c, idx) \/ c = idx)
    <2>1. ~ \A i \in 1..n : idx[i] + 1 >= sizes[i]
      <3> SUFFICES ASSUME \A i \in 1..n : idx[i] + 1 >= sizes[i]
                   PROVE  FALSE
        OBVIOUS
      <3>1. \A c \in B : c # idx => Earlier(n, c, idx)
        BY <1>1, <1>2, <1>6, LastIsLast
      <3>2. m + 1 = size
        BY <1>14, <1>15, <3>1
      <3> QED
        BY <1>6, <1>15, <1>18, <3>2
    <2>2. PICK last \in 1..n : CountsTo(n, sizes, idx, next, last)
      <3>1. \/ \A i \in 1..n : idx[i] + 1 >= sizes[i]
            \/ \E last \in 1..n : CountsTo(n, sizes, idx, next, last)
        BY <1>3, <1>e, <1>8, <1>16, NextIndicesOf
      <3> QED
        BY <2>1, <3>1
    <2>5. \A c \in B : Earlier(n, c, next) <=> (Earlier(n, c, idx) \/ c = idx)
      <3>1. idx \in Below(sizes)
        BY <1>2, <1>6
      <3> QED
        BY <1>1, <1>2, <2>2, <3>1, NextIsNext
    <2>6. idx \in [1..n -> Nat] /\ \A i \in 1..n : idx[i] < sizes[i]
      BY <1>1, <1>2, <1>6, BelowSizes
    <2>7. ASSUME NEW i \in 1..n
          PROVE  next[i] \in Nat /\ next[i] < sizes[i]
      <3>1. idx[i] \in Nat /\ idx[i] < sizes[i] /\ sizes[i] \in Nat
        BY <1>8, <2>6
      <3>2. CASE last < i
        BY <2>2, <3>1, <3>2 DEF CountsTo
      <3>3. CASE i = last
        BY <2>2, <3>1, <3>3 DEF CountsTo
      <3>4. CASE i < last
        BY <2>2, <3>1, <3>4 DEF CountsTo
      <3> QED
        BY <3>2, <3>3, <3>4
    <2>8. next \in [1..n -> Nat]
      BY <1>17, <2>7
    <2>9. next \in B
      BY <1>1, <1>2, <2>7, <2>8, BelowSizes
    <2> QED
      BY <2>5, <2>9
  <1>19. PICK l \in Nat : l = m + 1 /\ l = current + 1 /\ l = Len(more)
    BY <1>4, <1>11
  <1>20. l < total =>
           /\ IndicesOf(new) \in Below(sizes)
           /\ \A c \in Below(sizes) : (\E j \in 1..l : more[j] = c)
                                        <=> Earlier(Len(sizes), c, IndicesOf(new))
    BY <1>1, <1>2, <1>14, <1>16, <1>18, <1>19
  <1>21. l >= total => \A c \in Below(sizes) : \E j \in 1..l : more[j] = c
    BY <1>2, <1>6, <1>15, <1>19
  <1>22. Counted(sizes, new, l, total, more)
    BY <1>1, <1>2, <1>6, <1>n, <1>11, <1>13, <1>19, <1>20, <1>21 DEF Counted
  <1> QED
    BY <1>2, <1>3, <1>6, <1>10, <1>19, <1>22

-----------------------------------------------------------------------------
(* The axes of a benchmark *)

SizesOf(axes) == [i \in DOMAIN axes |-> axes[i].size]

LEMMA SequenceOf ==
  ASSUME NEW S, NEW n \in Nat, NEW f, DOMAIN f = 1..n, f = [i \in 1..n |-> f[i]],
         \A i \in 1..n : f[i] \in S
  PROVE  f \in Seq(S) /\ Len(f) = n
  <1>1. f \in [1..n -> S]
    OBVIOUS
  <1> QED
    BY <1>1, SeqDef

LEMMA SizesOfAxes ==
  ASSUME NEW axes \in Seq(AxisType)
  PROVE  /\ SizesOf(axes) \in Seq(Nat) /\ Len(SizesOf(axes)) = Len(axes)
         /\ DOMAIN axes = 1..Len(axes) /\ Len(axes) \in Nat
         /\ \A i \in 1..Len(axes) : axes[i].size \in Nat /\ SizesOf(axes)[i] = axes[i].size
  <1>1. PICK n \in Nat : n = Len(axes) /\ DOMAIN axes = 1..n
    BY LenProperties
  <1>2. PICK sizes : sizes = SizesOf(axes)
    OBVIOUS
  <1>3. sizes = [i \in 1..n |-> axes[i].size]
    BY <1>1, <1>2 DEF SizesOf
  <1>4. \A i \in 1..n : axes[i].size \in Nat
    <2> TAKE i \in 1..n
    <2>1. axes[i] \in AxisType
      BY <1>1, ElementOfSeq
    <2> QED
      BY <2>1 DEF AxisType
  <1>5. /\ DOMAIN sizes = 1..n /\ \A i \in 1..n : sizes[i] = axes[i].size /\ sizes[i] \in Nat
        /\ sizes = [i \in 1..n |-> sizes[i]]
    BY <1>3, <1>4
  <1>6. sizes \in Seq(Nat) /\ Len(sizes) = n
    BY <1>5, SequenceOf
  <1> QED
    BY <1>1, <1>2, <1>4, <1>5, <1>6

LEMMA ReverseOf ==
  ASSUME NEW S, NEW seq \in Seq(S), NEW n \in Nat, n = Len(seq)
  PROVE  /\ Reverse(seq) \in Seq(S) /\ Len(Reverse(seq)) = n
         /\ DOMAIN seq = 1..n /\ DOMAIN Reverse(seq) = 1..n
         /\ \A i \in 1..n : /\ n + 1 - i \in 1..n
                            /\ Reverse(seq)[i] = seq[n + 1 - i]
                            /\ Reverse(seq)[n + 1 - i] = seq[i]
  <1>1. DOMAIN seq = 1..n /\ \A i \in 1..n : seq[i] \in S
    BY LenProperties, ElementOfSeq
  <1>2. PICK r : r = Reverse(seq)
    OBVIOUS
  <1>3. r = [i \in 1..n |-> seq[(n - i) + 1]]
    BY <1>2 DEF Reverse
  <1>4. \A i \in 1..n : n + 1 - i \in 1..n /\ (n - i) + 1 = n + 1 - i /\ n + 1 - (n + 1 - i) = i
    OBVIOUS
  <1>5. DOMAIN r = 1..n /\ r = [i \in 1..n |-> r[i]]
    BY <1>3
  <1>6. \A i \in 1..n : r[i] = seq[n + 1 - i]
    BY <1>3, <1>4
  <1>7. \A i \in 1..n : r[i] \in S
    BY <1>1, <1>4, <1>6
  <1>8. \A i \in 1..n : r[n + 1 - i] = seq[i]
    <2> TAKE i \in 1..n
    <2>1. PICK k \in 1..n : k = n + 1 - i
      BY <1>4
    <2>2. r[k] = seq[n + 1 - k]
      BY <1>6
    <2>3. n + 1 - k = i
      BY <2>1
    <2> QED
      BY <2>1, <2>2, <2>3
  <1>9. r \in Seq(S) /\ Len(r) = n
    BY <1>5, <1>7, SequenceOf
  <1> QED
    BY <1>1, <1>2, <1>4, <1>5, <1>6, <1>8, <1>9

LEMMA BenchmarkFacts ==
  ASSUME NEW b \in Benchmarks
  PROVE  /\ b.type_axes \in Seq(AxisType)
         /\ b.other_axes \in Seq(AxisType)
         /\ b.devices \in Seq(Nat)
         /\ Reverse(b.type_axes) \in Seq(AxisType)
         /\ \A i \in 1..Len(b.type_axes) :
              b.type_axes[i].active \subseteq 0..(b.type_axes[i].size - 1)
         /\ \A i \in 1..Len(b.other_axes) :
              b.other_axes[i].active = 0..(b.other_axes[i].size - 1)
  <1>1. /\ b.type_axes \in Seq(AxisType)
        /\ b.other_axes \in Seq(AxisType)
        /\ b.devices \in Seq(Nat)
    BY BenchmarkAssumption DEF BenchmarkType
  <1>2. Reverse(b.type_axes) \in Seq(AxisType)
    BY <1>1, ReverseOf, LenProperties
  <1>3. \A a \in Range(b.type_axes) : a.active \subseteq 0..(a.size - 1)
    BY BenchmarkAssumption
  <1>4. \A a \in Range(b.other_axes) : a.active = 0..(a.size - 1)
    BY BenchmarkAssumption
  <1>5. \A i \in 1..Len(b.type_axes) : b.type_axes[i] \in Range(b.type_axes)
    BY <1>1, LenProperties DEF Range
  <1>6. \A i \in 1..Len(b.other_axes) : b.other_axes[i] \in Range(b.other_axes)
    BY <1>1, LenProperties DEF Range
  <1> QED
    BY <1>1, <1>2, <1>3, <1>4, <1>5, <1>6

-----------------------------------------------------------------------------
(* The configurations that are built *)

TypeConfigType == [config : Seq(Nat), active_mask : BOOLEAN]

Active(axes, config) == \A i \in DOMAIN config : config[i] \in axes[i].active

LEMMA MaskOf ==
  ASSUME NEW axes, NEW config \in Seq(Nat), NEW type_config,
         type_config = [config |-> config, active_mask |-> Active(axes, config)]
  PROVE  /\ type_config \in TypeConfigType /\ type_config.config = config
         /\ IsMasked(type_config) <=> ~ Active(axes, config)
  <1>1. Active(axes, config) \in BOOLEAN
    BY Zenon DEF Active
  <1>2. type_config \in [config : Seq(Nat), active_mask : BOOLEAN]
    BY <1>1, SMT
  <1>3. type_config.config = config /\ type_config.active_mask = Active(axes, config)
    BY <1>1, SMT
  <1> QED
    BY <1>2, <1>3 DEF TypeConfigType, IsMasked

\* The type configuration for these indices of the sorted axes
TypeConfigFor(axes, indices, type_config) ==
  /\ type_config.config = Reverse(indices)
  /\ IsMasked(type_config) <=> ~ Active(axes, Reverse(indices))

TypesFound(axes, configs, types) ==
  /\ types \in Seq(Below(SizesOf(Reverse(axes))))
  /\ configs \in Seq(TypeConfigType) /\ Len(configs) = Len(types)
  /\ \A k \in 1..Len(types) : TypeConfigFor(axes, types[k], configs[k])

\* All of them, each after the ones before it
Complete(sizes, found) ==
  /\ found \in Seq(Below(sizes)) /\ Len(found) = Product(sizes)
  /\ \A j, k \in 1..Len(found) : j < k => Earlier(Len(sizes), found[j], found[k])
  /\ \A c \in Below(sizes) : \E j \in 1..Len(found) : found[j] = c

LEMMA CountingEnds ==
  ASSUME NEW sizes \in Seq(Nat), NEW entries, NEW current, NEW total, NEW found,
         Counted(sizes, entries, current, total, found), ~ (current < total)
  PROVE  Complete(sizes, found)
  <1>1. PICK m \in Nat : m = Len(found) /\ m = current
    BY DEF Counted
  <1>2. /\ total = Product(sizes) /\ found \in Seq(Below(sizes))
        /\ \A j, k \in 1..m : j < k => Earlier(Len(sizes), found[j], found[k])
    BY <1>1 DEF Counted
  <1>3. Product(sizes) \in Nat
    BY BelowSizes
  <1>4. m >= total
    BY <1>1, <1>2, <1>3
  <1>5. \A c \in Below(sizes) : \E j \in 1..m : found[j] = c
    BY <1>1, <1>4 DEF Counted
  <1>6. m = Product(sizes)
    BY <1>1, <1>2, <1>5, AllAreFound
  <1> QED
    BY <1>1, <1>2, <1>5, <1>6 DEF Complete

LEMMA IndicesAreSequences ==
  ASSUME NEW sizes \in Seq(Nat), NEW n \in Nat, n = Len(sizes), NEW c \in Below(sizes)
  PROVE  c \in Seq(Nat) /\ Len(c) = n /\ c \in [1..n -> Nat] /\ \A i \in 1..n : c[i] < sizes[i]
  <1>1. c \in [1..n -> Nat] /\ \A i \in 1..n : c[i] < sizes[i]
    BY BelowSizes
  <1>2. DOMAIN c = 1..n /\ c = [i \in 1..n |-> c[i]] /\ \A i \in 1..n : c[i] \in Nat
    BY <1>1
  <1> QED
    BY <1>1, <1>2, SequenceOf

LEMMA NewTypeConfig ==
  ASSUME NEW axes \in Seq(AxisType), NEW configs, NEW types, TypesFound(axes, configs, types),
         NEW indices \in Below(SizesOf(Reverse(axes))), NEW r, r = Reverse(indices),
         NEW type_config,
         type_config = [config |-> r, active_mask |-> Active(axes, r)]
  PROVE  TypesFound(axes, Append(configs, type_config), Append(types, indices))
  <1>1. PICK n \in Nat : n = Len(axes)
    BY LenProperties
  <1>2. PICK sizes : sizes = SizesOf(Reverse(axes))
    OBVIOUS
  <1>3. sizes \in Seq(Nat) /\ Len(sizes) = n
    BY <1>1, <1>2, ReverseOf, SizesOfAxes
  <1>4. indices \in Seq(Nat) /\ Len(indices) = n
    BY <1>1, <1>2, <1>3, IndicesAreSequences
  <1>5. r \in Seq(Nat) /\ DOMAIN r = 1..n
    BY <1>1, <1>4, ReverseOf
  <1>6. type_config = [config |-> r, active_mask |-> Active(axes, r)]
    OBVIOUS
  <1>7. /\ type_config \in TypeConfigType /\ type_config.config = r
        /\ IsMasked(type_config) <=> ~ Active(axes, r)
    BY <1>5, <1>6, MaskOf
  <1>10. TypeConfigFor(axes, indices, type_config)
    BY <1>7 DEF TypeConfigFor
  <1>11. /\ types \in Seq(Below(sizes))
         /\ configs \in Seq(TypeConfigType) /\ Len(configs) = Len(types)
         /\ \A k \in 1..Len(types) : TypeConfigFor(axes, types[k], configs[k])
    BY <1>2 DEF TypesFound
  <1>12. PICK m \in Nat : m = Len(types) /\ m = Len(configs)
    BY <1>11, LenProperties
  <1>13. PICK moreTypes : moreTypes = Append(types, indices)
    OBVIOUS
  <1>14. PICK moreConfigs : moreConfigs = Append(configs, type_config)
    OBVIOUS
  <1>15. /\ moreTypes \in Seq(Below(sizes)) /\ Len(moreTypes) = m + 1
         /\ moreTypes[m + 1] = indices
         /\ \A j \in 1..m : moreTypes[j] = types[j]
    <2>1. indices \in Below(sizes)
      BY <1>2
    <2>2. types \in Seq(Below(sizes))
      BY <1>11
    <2> QED
      <3>1. /\ Append(types, indices) \in Seq(Below(sizes))
            /\ Len(Append(types, indices)) = Len(types) + 1
            /\ Append(types, indices)[Len(types) + 1] = indices
            /\ \A j \in 1..Len(types) : Append(types, indices)[j] = types[j]
        BY <2>1, <2>2, AppendedTo
      <3> QED
        BY <1>12, <1>13, <3>1
  <1>16. /\ moreConfigs \in Seq(TypeConfigType) /\ Len(moreConfigs) = m + 1
         /\ moreConfigs[m + 1] = type_config
         /\ \A j \in 1..m : moreConfigs[j] = configs[j]
    <2>1. configs \in Seq(TypeConfigType)
      BY <1>11
    <2> QED
      BY <1>7, <1>12, <1>14, <2>1, AppendedTo
  <1>17. ASSUME NEW k \in 1..(m + 1)
         PROVE  TypeConfigFor(axes, moreTypes[k], moreConfigs[k])
    <2>1. k \in 1..m \/ k = m + 1
      OBVIOUS
    <2>2. CASE k \in 1..m
      BY <1>11, <1>12, <1>15, <1>16, <2>2
    <2>3. CASE k = m + 1
      BY <1>10, <1>15, <1>16, <2>3
    <2> QED
      BY <2>1, <2>2, <2>3
  <1> QED
    BY <1>2, <1>13, <1>14, <1>15, <1>16, <1>17 DEF TypesFound

-----------------------------------------------------------------------------
(* The states that are added *)

\* The state of device x[1], type configuration x[2] and other configuration x[3]
StateOf(configs, others, devs, x) ==
  [config |-> configs[x[2]].config \o others[x[3]],
   device |-> devs[x[1]], type_config_index |-> x[2] - 1]

\* The states that are to be there after k type configurations of device d
Due(configs, others, devs, d, k) ==
  {x \in (1..Len(devs)) \X (1..Len(configs)) \X (1..Len(others)) :
     /\ ~ IsMasked(configs[x[2]])
     /\ x[1] < d \/ (x[1] = d /\ x[2] <= k)}

\* Each of them is at one place, and there is nothing else.
Placed(configs, others, devs, due, at, sts) ==
  /\ at \in [due -> 1..Len(sts)]
  /\ \A x, y \in due : at[x] = at[y] => x = y
  /\ \A j \in 1..Len(sts) : \E x \in due : at[x] = j
  /\ \A x \in due : sts[at[x]] = StateOf(configs, others, devs, x)

\* The states of type configuration k of device d
Added(d, k, w) == {<<d, k, i>> : i \in 1..w}

WithAdded(due, d, k, w) == due \cup Added(d, k, w)

\* The states of one more type configuration follow the others.
LEMMA MorePlaced ==
  ASSUME NEW configs, NEW others, NEW devs, NEW S, NEW due, NEW at, NEW sts \in Seq(S),
         Placed(configs, others, devs, due, at, sts),
         NEW d, NEW k, NEW w \in Nat, NEW block \in Seq(S), Len(block) = w,
         \A i \in 1..w : /\ block[i] = StateOf(configs, others, devs, <<d, k, i>>)
                         /\ <<d, k, i>> \notin due,
         NEW more, more = WithAdded(due, d, k, w)
  PROVE  \E at2 : Placed(configs, others, devs, more, at2, sts \o block)
  <1>1. PICK m \in Nat : m = Len(sts)
    BY LenProperties
  <1>2. PICK all : all = sts \o block
    OBVIOUS
  <1>3. /\ Len(all) = m + w
        /\ \A i \in 1..(m + w) : all[i] = IF i <= m THEN sts[i] ELSE block[i - m]
    BY <1>1, <1>2, ConcatProperties
  <1>4. /\ at \in [due -> 1..m]
        /\ \A x, y \in due : at[x] = at[y] => x = y
        /\ \A j \in 1..m : \E x \in due : at[x] = j
        /\ \A x \in due : sts[at[x]] = StateOf(configs, others, devs, x)
    BY <1>1 DEF Placed
  <1>5. PICK at2 : at2 = [x \in more |-> IF x \in due THEN at[x] ELSE m + x[3]]
    OBVIOUS
  <1>d. \A x \in due : x \in more
    BY DEF WithAdded
  <1>6. \A x \in due : x \in more /\ at2[x] = at[x] /\ at[x] \in 1..m /\ at[x] \in 1..(m + w) /\ at[x] <= m
    <2> TAKE x \in due
    <2>1. x \in more /\ at2[x] = at[x]
      BY <1>5, <1>d
    <2>2. at[x] \in 1..m
      BY <1>4
    <2> QED
      BY <2>1, <2>2
  <1>7. \A i \in 1..w : /\ <<d, k, i>> \in more /\ at2[<<d, k, i>>] = m + i
                        /\ m + i \in 1..(m + w) /\ ~ (m + i <= m) /\ (m + i) - m = i
    <2> TAKE i \in 1..w
    <2>1. PICK x : x = <<d, k, i>>
      OBVIOUS
    <2>2. x \in more /\ x \notin due /\ x[3] = i
      BY <2>1 DEF Added, WithAdded
    <2>3. at2[x] = m + i
      BY <1>5, <2>2
    <2> QED
      BY <2>1, <2>2, <2>3
  <1>8. \A x \in more : x \in due \/ \E i \in 1..w : x = <<d, k, i>>
    BY DEF Added, WithAdded
  <1>9. at2 \in [more -> 1..(m + w)]
    <2>1. \A x \in more : at2[x] \in 1..(m + w)
      BY <1>6, <1>7, <1>8
    <2>2. at2 = [x \in more |-> at2[x]]
      BY <1>5
    <2> QED
      BY <2>1, <2>2
  <1>10. ASSUME NEW x \in more, NEW y \in more, at2[x] = at2[y]
         PROVE  x = y
    <2>1. CASE x \in due /\ y \in due
      BY <1>4, <1>6, <1>10, <2>1
    <2>2. CASE x \in due /\ y \notin due
      BY <1>6, <1>7, <1>8, <1>10, <2>2
    <2>3. CASE x \notin due /\ y \in due
      BY <1>6, <1>7, <1>8, <1>10, <2>3
    <2>4. CASE x \notin due /\ y \notin due
      <3>1. PICK i \in 1..w : x = <<d, k, i>>
        BY <1>8, <2>4
      <3>2. PICK j \in 1..w : y = <<d, k, j>>
        BY <1>8, <2>4
      <3>3. m + i = m + j
        BY <1>7, <1>10, <3>1, <3>2
      <3>4. i = j
        BY <3>3
      <3> QED
        BY <3>1, <3>2, <3>4
    <2> QED
      BY <2>1, <2>2, <2>3, <2>4
  <1>11. ASSUME NEW j \in 1..(m + w)
         PROVE  \E x \in more : at2[x] = j
    <2>1. CASE j <= m
      <3>1. j \in 1..m
        BY <2>1
      <3>2. PICK x \in due : at[x] = j
        BY <1>4, <3>1
      <3> QED
        BY <1>6, <3>2
    <2>2. CASE ~ (j <= m)
      <3>1. PICK i \in 1..w : m + i = j
        <4>1. j - m \in 1..w /\ m + (j - m) = j
          BY <2>2
        <4> QED
          BY <4>1
      <3> QED
        BY <1>7, <3>1
    <2> QED
      BY <2>1, <2>2
  <1>12. ASSUME NEW x \in more
         PROVE  all[at2[x]] = StateOf(configs, others, devs, x)
    <2>1. CASE x \in due
      BY <1>3, <1>4, <1>6, <2>1
    <2>2. CASE x \notin due
      <3>1. PICK i \in 1..w : x = <<d, k, i>>
        BY <1>8, <2>2
      <3>2. all[m + i] = block[i]
        BY <1>3, <1>7
      <3> QED
        BY <1>7, <3>1, <3>2
    <2> QED
      BY <2>1, <2>2
  <1>13. Placed(configs, others, devs, more, at2, all)
    BY <1>3, <1>9, <1>10, <1>11, <1>12 DEF Placed
  <1> QED
    BY <1>2, <1>13

LEMMA DueNone ==
  ASSUME NEW configs, NEW others, NEW devs
  PROVE  Due(configs, others, devs, 1, 0) = {}
  <1>1. \A i \in 1..Len(devs) : ~ (i < 1)
    OBVIOUS
  <1>2. \A i \in 1..Len(configs) : ~ (i <= 0)
    OBVIOUS
  <1>3. \A x \in (1..Len(devs)) \X (1..Len(configs)) \X (1..Len(others)) :
          x[1] \in 1..Len(devs) /\ x[2] \in 1..Len(configs)
    OBVIOUS
  <1> QED
    BY <1>1, <1>2, <1>3 DEF Due

\* k is the type configuration after the first j, for device d, and active.
AtActive(configs, devs, d, j, k) ==
  /\ d \in 1..Len(devs) /\ j \in Nat /\ k = j + 1
  /\ Len(configs) \in Nat /\ k \in 1..Len(configs) /\ ~ IsMasked(configs[k])

LEMMA DueMore ==
  ASSUME NEW configs, NEW others, NEW devs, NEW d, NEW j, NEW k, AtActive(configs, devs, d, j, k)
  PROVE  /\ Due(configs, others, devs, d, k)
              = WithAdded(Due(configs, others, devs, d, j), d, k, Len(others))
         /\ \A i \in 1..Len(others) : <<d, k, i>> \notin Due(configs, others, devs, d, j)
  <1>a. /\ d \in 1..Len(devs) /\ j \in Nat /\ k = j + 1
        /\ Len(configs) \in Nat /\ k \in 1..Len(configs) /\ ~ IsMasked(configs[k])
    BY DEF AtActive
  <1>1. PICK all : all = (1..Len(devs)) \X (1..Len(configs)) \X (1..Len(others))
    OBVIOUS
  <1>2. \A i \in 1..Len(others) :
          /\ <<d, k, i>> \in all
          /\ <<d, k, i>>[1] = d /\ <<d, k, i>>[2] = k
    BY <1>1, <1>a
  <1>3. ASSUME NEW x \in all
        PROVE  /\ x[1] \in 1..Len(devs) /\ x[2] \in 1..Len(configs) /\ x[3] \in 1..Len(others)
               /\ x = <<x[1], x[2], x[3]>>
    BY <1>1
  <1>4. \A i \in 1..Len(configs) : i <= k <=> (i <= j \/ i = k)
    <2>1. PICK v \in Nat : v = Len(configs)
      BY <1>a
    <2>2. \A i \in 1..v : i <= k <=> (i <= j \/ i = k)
      BY <1>a
    <2> QED
      BY <2>1, <2>2
  <1>5. ~ (k <= j) /\ ~ (d < d)
    BY <1>a
  <1>6. ASSUME NEW x \in all
        PROVE  (x[1] = d /\ x[2] = k) <=> x \in Added(d, k, Len(others))
    BY <1>2, <1>3 DEF Added
  <1>7. ASSUME NEW x \in all
        PROVE  x \in Due(configs, others, devs, d, k)
                 <=> (x \in Due(configs, others, devs, d, j)
                        \/ x \in Added(d, k, Len(others)))
    <2>1. x \in Due(configs, others, devs, d, k)
            <=> ~ IsMasked(configs[x[2]]) /\ (x[1] < d \/ (x[1] = d /\ x[2] <= k))
      BY <1>1 DEF Due
    <2>2. x \in Due(configs, others, devs, d, j)
            <=> ~ IsMasked(configs[x[2]]) /\ (x[1] < d \/ (x[1] = d /\ x[2] <= j))
      BY <1>1 DEF Due
    <2>3. x[2] <= k <=> (x[2] <= j \/ x[2] = k)
      BY <1>3, <1>4
    <2>4. x[2] = k => ~ IsMasked(configs[x[2]])
      BY <1>a
    <2> QED
      BY <1>6, <2>1, <2>2, <2>3, <2>4
  <1>8. /\ Due(configs, others, devs, d, k) \subseteq all
        /\ Due(configs, others, devs, d, j) \subseteq all
        /\ Added(d, k, Len(others)) \subseteq all
    BY <1>1, <1>2 DEF Due, Added
  <1>9. \A i \in 1..Len(others) : <<d, k, i>> \notin Due(configs, others, devs, d, j)
    BY <1>2, <1>5 DEF Due
  <1> QED
    BY <1>7, <1>8, <1>9 DEF WithAdded

LEMMA DueMasked ==
  ASSUME NEW configs, NEW others, NEW devs, NEW v \in Nat, v = Len(configs),
         NEW d, NEW j \in Nat, NEW k \in 1..v, k = j + 1, IsMasked(configs[k])
  PROVE  Due(configs, others, devs, d, k) = Due(configs, others, devs, d, j)
  <1>1. \A x \in (1..Len(devs)) \X (1..Len(configs)) \X (1..Len(others)) : x[2] \in 1..v
    OBVIOUS
  <1>2. \A i \in 1..v : i <= k <=> (i <= j \/ i = k)
    OBVIOUS
  <1> QED
    BY <1>1, <1>2 DEF Due

LEMMA DueNext ==
  ASSUME NEW configs, NEW others, NEW devs, NEW v \in Nat, v = Len(configs),
         NEW d \in Nat, NEW k \in Nat, k >= v
  PROVE  Due(configs, others, devs, d + 1, 0) = Due(configs, others, devs, d, k)
  <1>1. \A x \in (1..Len(devs)) \X (1..Len(configs)) \X (1..Len(others)) :
          x[1] \in 1..Len(devs) /\ x[2] \in 1..v
    OBVIOUS
  <1>2. \A i \in 1..v : ~ (i <= 0) /\ i <= k
    OBVIOUS
  <1>3. \A i \in 1..Len(devs) : i < d + 1 <=> (i < d \/ i = d)
    OBVIOUS
  <1> QED
    BY <1>1, <1>2, <1>3 DEF Due

AllDue(configs, others, devs) ==
  {x \in (1..Len(devs)) \X (1..Len(configs)) \X (1..Len(others)) :
     ~ IsMasked(configs[x[2]])}

LEMMA DueAll ==
  ASSUME NEW configs, NEW others, NEW devs, NEW u \in Nat, u = Len(devs),
         NEW d \in Nat, NEW k, d > u
  PROVE  Due(configs, others, devs, d, k) = AllDue(configs, others, devs)
  <1>1. \A x \in (1..Len(devs)) \X (1..Len(configs)) \X (1..Len(others)) : x[1] \in 1..u
    OBVIOUS
  <1>2. \A i \in 1..u : i < d
    OBVIOUS
  <1> QED
    BY <1>1, <1>2 DEF Due, AllDue

AllStates(configs, others, devs) ==
  {StateOf(configs, others, devs, x) :
     x \in (1..Len(devs)) \X (1..Len(configs)) \X (1..Len(others))}

\* The states so far are those that are due, each at one place.
Stated(configs, others, devs, d, k, sts) ==
  /\ sts \in Seq(AllStates(configs, others, devs))
  /\ \E at : Placed(configs, others, devs, Due(configs, others, devs, d, k), at, sts)

LEMMA StatingBegins ==
  ASSUME NEW configs, NEW others, NEW devs
  PROVE  Stated(configs, others, devs, 1, 0, <<>>)
  <1>1. PICK S : S = AllStates(configs, others, devs)
    OBVIOUS
  <1>2. PICK none : none = <<>> /\ none \in Seq(S) /\ 1..Len(none) = {}
    <2>1. <<>> \in Seq(S) /\ Len(<<>>) = 0 /\ 1..0 = {}
      OBVIOUS
    <2> QED
      BY <2>1
  <1>3. PICK at : at = [x \in {} |-> 0]
    OBVIOUS
  <1>4. at \in [{} -> 1..Len(none)]
    BY <1>3
  <1>5. Placed(configs, others, devs, {}, at, none)
    BY <1>2, <1>4 DEF Placed
  <1> QED
    BY <1>1, <1>2, <1>5, DueNone DEF Stated

LEMMA StatingGoesOn ==
  ASSUME NEW configs, NEW others, NEW devs, NEW v \in Nat, v = Len(configs),
         NEW w \in Nat, w = Len(others), NEW d \in 1..Len(devs), NEW j \in Nat, NEW sts,
         NEW k \in 1..v, k = j + 1, ~ IsMasked(configs[k]),
         Stated(configs, others, devs, d, j, sts),
         NEW block, block = [i \in 1..w |-> StateOf(configs, others, devs, <<d, k, i>>)]
  PROVE  Stated(configs, others, devs, d, k, sts \o block)
  <1>1. PICK S : S = AllStates(configs, others, devs)
    OBVIOUS
  <1>2. PICK due : due = Due(configs, others, devs, d, j)
    OBVIOUS
  <1>3. PICK at : Placed(configs, others, devs, due, at, sts)
    BY <1>2 DEF Stated
  <1>4. sts \in Seq(S)
    BY <1>1 DEF Stated
  <1>5. \A i \in 1..w : block[i] = StateOf(configs, others, devs, <<d, k, i>>) /\ block[i] \in S
    <2> TAKE i \in 1..w
    <2>1. <<d, k, i>> \in (1..Len(devs)) \X (1..Len(configs)) \X (1..Len(others))
      OBVIOUS
    <2>2. StateOf(configs, others, devs, <<d, k, i>>) \in S
      BY <1>1, <2>1 DEF AllStates
    <2> QED
      BY <2>2
  <1>6. block \in Seq(S) /\ Len(block) = w
    <2>1. DOMAIN block = 1..w /\ block = [i \in 1..w |-> block[i]]
      OBVIOUS
    <2> QED
      BY <1>5, <2>1, SequenceOf
  <1>7. PICK more : more = WithAdded(due, d, k, w)
    OBVIOUS
  <1>8. more = Due(configs, others, devs, d, k) /\ \A i \in 1..w : <<d, k, i>> \notin due
    <2>4. AtActive(configs, devs, d, j, k)
      BY DEF AtActive
    <2>2. Due(configs, others, devs, d, k)
              = WithAdded(Due(configs, others, devs, d, j), d, k, Len(others))
      BY <2>4, DueMore
    <2>3. \A i \in 1..w : <<d, k, i>> \notin Due(configs, others, devs, d, j)
      BY <2>4, DueMore
    <2> QED
      BY <1>2, <1>7, <2>2, <2>3
  <1>9. \E at2 : Placed(configs, others, devs, more, at2, sts \o block)
    <2>1. block \in Seq(S)
      BY <1>6
    <2>2. \A i \in 1..w : /\ block[i] = StateOf(configs, others, devs, <<d, k, i>>)
                           /\ <<d, k, i>> \notin due
      BY <1>5, <1>8
    <2> QED
      BY <1>3, <1>4, <1>6, <1>7, <2>1, <2>2, MorePlaced
  <1>10. sts \o block \in Seq(S)
    BY <1>4, <1>6, ConcatProperties
  <1> QED
    BY <1>1, <1>8, <1>9, <1>10 DEF Stated

-----------------------------------------------------------------------------
(* The invariant *)

TypeSizes(b) == SizesOf(Reverse(b.type_axes))

OtherSizes(b) == SizesOf(b.other_axes)

DevicesOf(b) == IF b.devices = <<>> THEN <<NoDevice>> ELSE b.devices

\* Every configuration before the iterator is built, and no other.
Building(b, phase, entries, current, total, configs, others) ==
  /\ phase \in {"begin", "type_axis_configs", "non_type_axis_configs", "states", "created"}
  /\ phase = "begin" => configs = <<>> /\ others = <<>>
  /\ phase = "type_axis_configs" =>
       /\ others = <<>>
       /\ \E types : /\ TypesFound(b.type_axes, configs, types)
                     /\ Counted(TypeSizes(b), entries, current, total, types)
  /\ phase \in {"non_type_axis_configs", "states", "created"} =>
       \E types : TypesFound(b.type_axes, configs, types) /\ Complete(TypeSizes(b), types)
  /\ phase = "non_type_axis_configs" => Counted(OtherSizes(b), entries, current, total, others)
  /\ phase \in {"states", "created"} => Complete(OtherSizes(b), others)

\* And every state of what comes before the current type configuration
Stating(b, phase, configs, others, d, k, sts) ==
  /\ d \in Nat \ {0} /\ k \in Nat
  /\ phase \notin {"states", "created"} => d = 1 /\ k = 0 /\ sts = <<>>
  /\ phase \in {"states", "created"} => Stated(configs, others, DevicesOf(b), d, k, sts)
  /\ phase = "created" => d > Len(DevicesOf(b))

IInv ==
  /\ bench \in Benchmarks
  /\ Building(bench, pc, m_indices, m_current, m_total,
              m_type_axis_configs, m_non_type_axis_configs)
  /\ Stating(bench, pc, m_type_axis_configs, m_non_type_axis_configs,
             device, type_config_index, m_states)

LEMMA SizesOfBenchmark ==
  ASSUME NEW b \in Benchmarks
  PROVE  /\ TypeSizes(b) \in Seq(Nat) /\ Len(TypeSizes(b)) = Len(b.type_axes)
         /\ OtherSizes(b) \in Seq(Nat) /\ Len(OtherSizes(b)) = Len(b.other_axes)
  <1>1. b.type_axes \in Seq(AxisType) /\ b.other_axes \in Seq(AxisType)
    BY BenchmarkFacts
  <1>2. Reverse(b.type_axes) \in Seq(AxisType) /\ Len(Reverse(b.type_axes)) = Len(b.type_axes)
    BY <1>1, ReverseOf, LenProperties
  <1> QED
    BY <1>1, <1>2, SizesOfAxes DEF TypeSizes, OtherSizes

LEMMA DevicesAreSome ==
  ASSUME NEW b \in Benchmarks
  PROVE  DevicesOf(b) \in Seq(Int) /\ Len(DevicesOf(b)) \in Nat
  <1>1. b.devices \in Seq(Nat)
    BY BenchmarkFacts
  <1>2. b.devices \in Seq(Int)
    BY <1>1
  <1>3. <<NoDevice>> \in Seq(Int)
    BY DEF NoDevice
  <1>4. DevicesOf(b) \in Seq(Int)
    BY <1>2, <1>3 DEF DevicesOf
  <1> QED
    BY <1>4, LenProperties

\* InitIterator on these axes
LEMMA IteratorBegins ==
  ASSUME NEW axes \in Seq(AxisType), NEW entries, NEW total,
         entries = [i \in DOMAIN axes |-> [size |-> axes[i].size, index |-> 0]],
         total = Product([i \in DOMAIN axes |-> axes[i].size])
  PROVE  Counted(SizesOf(axes), entries, 0, total, <<>>)
  <1>1. PICK sizes : sizes = SizesOf(axes)
    OBVIOUS
  <1>2. sizes = [i \in DOMAIN axes |-> axes[i].size]
    BY <1>1 DEF SizesOf
  <1>3. DOMAIN sizes = DOMAIN axes /\ \A i \in DOMAIN axes : sizes[i] = axes[i].size
    BY <1>2
  <1>4. sizes \in Seq(Nat)
    BY <1>1, SizesOfAxes
  <1>5. entries = [i \in DOMAIN sizes |-> [size |-> sizes[i], index |-> 0]]
    BY <1>3
  <1>6. total = Product(sizes)
    BY <1>2
  <1> QED
    BY <1>1, <1>4, <1>5, <1>6, CountingBegins

\* BuildTypeAxisConfig
LEMMA TypeConfigBuilt ==
  ASSUME NEW b \in Benchmarks, NEW entries, NEW current, NEW total, NEW configs, NEW types,
         TypesFound(b.type_axes, configs, types),
         Counted(TypeSizes(b), entries, current, total, types), current < total,
         NEW r, r = Reverse(IndicesOf(entries)),
         NEW type_config,
         type_config = [config |-> r, active_mask |-> Active(b.type_axes, r)]
  PROVE  \E more : /\ TypesFound(b.type_axes, Append(configs, type_config), more)
                   /\ Counted(TypeSizes(b), NextOf(entries), current + 1, total, more)
  <1>1. PICK axes, sizes : axes = b.type_axes /\ sizes = TypeSizes(b)
    OBVIOUS
  <1>2. axes \in Seq(AxisType) /\ sizes \in Seq(Nat) /\ sizes = SizesOf(Reverse(axes))
    BY <1>1, BenchmarkFacts, SizesOfBenchmark DEF TypeSizes
  <1>3. PICK indices : indices = IndicesOf(entries)
    OBVIOUS
  <1>4. PICK new : new = NextOf(entries)
    OBVIOUS
  <1>5. indices \in Below(sizes) /\ Counted(sizes, new, current + 1, total, Append(types, indices))
    <2>1. Counted(sizes, entries, current, total, types)
      BY <1>1
    <2> QED
      BY <1>2, <1>3, <1>4, <2>1, CountingGoesOn
  <1>6. TypesFound(axes, Append(configs, type_config), Append(types, indices))
    <2>1. TypesFound(axes, configs, types)
      BY <1>1
    <2>2. indices \in Below(SizesOf(Reverse(axes)))
      BY <1>2, <1>5
    <2>3. r = Reverse(indices) /\ type_config = [config |-> r, active_mask |-> Active(axes, r)]
      BY <1>1, <1>3
    <2> QED
      BY <1>2, <2>1, <2>2, <2>3, NewTypeConfig
  <1> QED
    BY <1>1, <1>4, <1>5, <1>6

LEMMA InvInit == Init => IInv
  <1> SUFFICES ASSUME Init
               PROVE  IInv
    OBVIOUS
  <1>1. Building(bench, pc, m_indices, m_current, m_total,
                 m_type_axis_configs, m_non_type_axis_configs)
    BY DEF Init, Building
  <1>2. Stating(bench, pc, m_type_axis_configs, m_non_type_axis_configs,
                device, type_config_index, m_states)
    BY DEF Init, Stating
  <1> QED
    BY <1>1, <1>2 DEF Init, IInv

LEMMA BeginKeeps == IInv /\ Begin => IInv'
  <1> SUFFICES ASSUME IInv, Begin
               PROVE  IInv'
    OBVIOUS
  <1>1. bench \in Benchmarks /\ bench' = bench
    BY DEF IInv, Begin
  <1>2. PICK axes : axes = Reverse(bench.type_axes)
    OBVIOUS
  <1>3. axes \in Seq(AxisType)
    BY <1>1, <1>2, BenchmarkFacts
  <1>4. PICK entries, total : entries = m_indices' /\ total = m_total'
    OBVIOUS
  <1>5. Counted(SizesOf(axes), entries, 0, total, <<>>)
    <2>1. entries = [i \in DOMAIN axes |-> [size |-> axes[i].size, index |-> 0]]
      BY <1>2, <1>4 DEF Begin, InitIterator, SortTypeAxes
    <2>2. total = Product([i \in DOMAIN axes |-> axes[i].size])
      BY <1>2, <1>4 DEF Begin, InitIterator, SortTypeAxes
    <2> QED
      BY <1>3, <2>1, <2>2, IteratorBegins
  <1>6. m_type_axis_configs = <<>> /\ m_non_type_axis_configs = <<>> /\ pc = "begin"
    BY DEF IInv, Building, Begin
  <1>7. TypesFound(bench.type_axes, <<>>, <<>>)
    <2>1. <<>> \in Seq(TypeConfigType) /\ <<>> \in Seq(Below(SizesOf(axes))) /\ Len(<<>>) = 0 /\ 1..0 = {}
      OBVIOUS
    <2> QED
      BY <1>2, <2>1 DEF TypesFound
  <1>8. /\ pc' = "type_axis_configs" /\ m_current' = 0
        /\ m_type_axis_configs' = <<>> /\ m_non_type_axis_configs' = <<>>
        /\ device' = device /\ type_config_index' = type_config_index /\ m_states' = m_states
    BY <1>6 DEF Begin, InitIterator, built, states
  <1>9. Building(bench, "type_axis_configs", entries, 0, total, <<>>, <<>>)
    BY <1>2, <1>5, <1>7 DEF Building, TypeSizes
  <1>10. Stating(bench, "type_axis_configs", <<>>, <<>>, device, type_config_index, m_states)
    BY <1>6 DEF IInv, Stating
  <1> QED
    BY <1>1, <1>4, <1>8, <1>9, <1>10 DEF IInv

LEMMA BuildTypeAxisConfigKeeps == IInv /\ BuildTypeAxisConfig => IInv'
  <1> SUFFICES ASSUME IInv, BuildTypeAxisConfig
               PROVE  IInv'
    OBVIOUS
  <1>1. bench \in Benchmarks /\ bench' = bench /\ pc = "type_axis_configs" /\ pc' = pc
    BY DEF IInv, BuildTypeAxisConfig
  <1>2. PICK types : /\ TypesFound(bench.type_axes, m_type_axis_configs, types)
                     /\ Counted(TypeSizes(bench), m_indices, m_current, m_total, types)
    BY <1>1 DEF IInv, Building
  <1>3. PICK r : r = Reverse(IndicesOf(m_indices))
    OBVIOUS
  <1>4. PICK type_config : type_config = [config |-> r, active_mask |-> Active(bench.type_axes, r)]
    OBVIOUS
  <1>5. PICK configs : configs = Append(m_type_axis_configs, type_config)
    OBVIOUS
  <1>6. m_type_axis_configs' = configs
    BY <1>3, <1>4, <1>5 DEF BuildTypeAxisConfig, SortTypeAxes, Indices, IndicesOf, Active
  <1>7. PICK entries : entries = NextOf(m_indices)
    OBVIOUS
  <1>8. m_indices' = entries /\ m_current' = m_current + 1 /\ m_total' = m_total /\ m_current < m_total
    BY <1>7 DEF BuildTypeAxisConfig, NextIteration, NextIndices, NextOf, iter_valid
  <1>9. \E more : /\ TypesFound(bench.type_axes, configs, more)
                  /\ Counted(TypeSizes(bench), entries, m_current + 1, m_total, more)
    BY <1>1, <1>2, <1>3, <1>4, <1>5, <1>7, <1>8, TypeConfigBuilt
  <1>10. m_non_type_axis_configs = <<>>
    BY <1>1 DEF IInv, Building
  <1>11. /\ m_non_type_axis_configs' = <<>>
         /\ device' = device /\ type_config_index' = type_config_index /\ m_states' = m_states
    BY <1>10 DEF BuildTypeAxisConfig, states
  <1>12. Building(bench, "type_axis_configs", entries, m_current + 1, m_total, configs, <<>>)
    BY <1>9 DEF Building
  <1>13. Stating(bench, "type_axis_configs", configs, <<>>, device, type_config_index, m_states)
    BY <1>1 DEF IInv, Stating
  <1> QED
    BY <1>1, <1>6, <1>8, <1>11, <1>12, <1>13 DEF IInv

LEMMA TypeAxisConfigsBuiltKeeps == IInv /\ TypeAxisConfigsBuilt => IInv'
  <1> SUFFICES ASSUME IInv, TypeAxisConfigsBuilt
               PROVE  IInv'
    OBVIOUS
  <1>1. bench \in Benchmarks /\ bench' = bench /\ pc = "type_axis_configs"
    BY DEF IInv, TypeAxisConfigsBuilt
  <1>2. PICK types : /\ TypesFound(bench.type_axes, m_type_axis_configs, types)
                     /\ Counted(TypeSizes(bench), m_indices, m_current, m_total, types)
    BY <1>1 DEF IInv, Building
  <1>3. Complete(TypeSizes(bench), types)
    <2>1. ~ (m_current < m_total)
      BY DEF TypeAxisConfigsBuilt, iter_valid
    <2>2. TypeSizes(bench) \in Seq(Nat)
      BY <1>1, SizesOfBenchmark
    <2> QED
      BY <1>2, <2>1, <2>2, CountingEnds
  <1>4. PICK axes : axes = bench.other_axes
    OBVIOUS
  <1>5. axes \in Seq(AxisType)
    BY <1>1, <1>4, BenchmarkFacts
  <1>6. PICK entries, total : entries = m_indices' /\ total = m_total'
    OBVIOUS
  <1>7. Counted(SizesOf(axes), entries, 0, total, <<>>)
    <2>1. entries = [i \in DOMAIN axes |-> [size |-> axes[i].size, index |-> 0]]
      BY <1>4, <1>6 DEF TypeAxisConfigsBuilt, InitIterator
    <2>2. total = Product([i \in DOMAIN axes |-> axes[i].size])
      BY <1>4, <1>6 DEF TypeAxisConfigsBuilt, InitIterator
    <2> QED
      BY <1>5, <2>1, <2>2, IteratorBegins
  <1>8. m_non_type_axis_configs = <<>>
    BY <1>1 DEF IInv, Building
  <1>9. /\ pc' = "non_type_axis_configs" /\ m_current' = 0
        /\ m_type_axis_configs' = m_type_axis_configs /\ m_non_type_axis_configs' = <<>>
        /\ device' = device /\ type_config_index' = type_config_index /\ m_states' = m_states
    BY <1>8 DEF TypeAxisConfigsBuilt, InitIterator, built, states
  <1>10. Building(bench, "non_type_axis_configs", entries, 0, total, m_type_axis_configs, <<>>)
    BY <1>2, <1>3, <1>4, <1>7 DEF Building, OtherSizes
  <1>11. Stating(bench, "non_type_axis_configs", m_type_axis_configs, <<>>,
                 device, type_config_index, m_states)
    BY <1>1 DEF IInv, Stating
  <1> QED
    BY <1>1, <1>6, <1>9, <1>10, <1>11 DEF IInv

LEMMA BuildNonTypeAxisConfigKeeps == IInv /\ BuildNonTypeAxisConfig => IInv'
  <1> SUFFICES ASSUME IInv, BuildNonTypeAxisConfig
               PROVE  IInv'
    OBVIOUS
  <1>1. bench \in Benchmarks /\ bench' = bench /\ pc = "non_type_axis_configs" /\ pc' = pc
    BY DEF IInv, BuildNonTypeAxisConfig
  <1>2. /\ Counted(OtherSizes(bench), m_indices, m_current, m_total, m_non_type_axis_configs)
        /\ \E types : /\ TypesFound(bench.type_axes, m_type_axis_configs, types)
                      /\ Complete(TypeSizes(bench), types)
    BY <1>1 DEF IInv, Building
  <1>3. PICK others : others = Append(m_non_type_axis_configs, IndicesOf(m_indices))
    OBVIOUS
  <1>4. PICK entries : entries = NextOf(m_indices)
    OBVIOUS
  <1>5. m_indices' = entries /\ m_current' = m_current + 1 /\ m_total' = m_total /\ m_current < m_total
    BY <1>4 DEF BuildNonTypeAxisConfig, NextIteration, NextIndices, NextOf, iter_valid
  <1>6. Counted(OtherSizes(bench), entries, m_current + 1, m_total, others)
    <2>1. OtherSizes(bench) \in Seq(Nat)
      BY <1>1, SizesOfBenchmark
    <2> QED
      BY <1>2, <1>3, <1>4, <1>5, <2>1, CountingGoesOn
  <1>7. /\ m_non_type_axis_configs' = others /\ m_type_axis_configs' = m_type_axis_configs
        /\ device' = device /\ type_config_index' = type_config_index /\ m_states' = m_states
    BY <1>3 DEF BuildNonTypeAxisConfig, Indices, IndicesOf, states
  <1>8. Building(bench, "non_type_axis_configs", entries, m_current + 1, m_total,
                 m_type_axis_configs, others)
    BY <1>2, <1>6 DEF Building
  <1>9. Stating(bench, "non_type_axis_configs", m_type_axis_configs, others,
                device, type_config_index, m_states)
    BY <1>1 DEF IInv, Stating
  <1> QED
    BY <1>1, <1>5, <1>7, <1>8, <1>9 DEF IInv

LEMMA NonTypeAxisConfigsBuiltKeeps == IInv /\ NonTypeAxisConfigsBuilt => IInv'
  <1> SUFFICES ASSUME IInv, NonTypeAxisConfigsBuilt
               PROVE  IInv'
    OBVIOUS
  <1>1. /\ bench \in Benchmarks /\ bench' = bench
        /\ pc = "non_type_axis_configs" /\ pc' = "states"
    BY DEF IInv, NonTypeAxisConfigsBuilt
  <1>2. /\ Counted(OtherSizes(bench), m_indices, m_current, m_total, m_non_type_axis_configs)
        /\ \E types : /\ TypesFound(bench.type_axes, m_type_axis_configs, types)
                      /\ Complete(TypeSizes(bench), types)
    BY <1>1 DEF IInv, Building
  <1>3. Complete(OtherSizes(bench), m_non_type_axis_configs)
    <2>1. ~ (m_current < m_total)
      BY DEF NonTypeAxisConfigsBuilt, iter_valid
    <2>2. OtherSizes(bench) \in Seq(Nat)
      BY <1>1, SizesOfBenchmark
    <2> QED
      BY <1>2, <2>1, <2>2, CountingEnds
  <1>4. /\ m_indices' = m_indices /\ m_current' = m_current /\ m_total' = m_total
        /\ m_type_axis_configs' = m_type_axis_configs
        /\ m_non_type_axis_configs' = m_non_type_axis_configs
        /\ device' = device /\ type_config_index' = type_config_index /\ m_states' = m_states
    BY DEF NonTypeAxisConfigsBuilt, iterator, built, states
  <1>5. device = 1 /\ type_config_index = 0 /\ m_states = <<>>
    BY <1>1 DEF IInv, Stating
  <1>6. Building(bench, "states", m_indices, m_current, m_total,
                 m_type_axis_configs, m_non_type_axis_configs)
    BY <1>2, <1>3 DEF Building
  <1>7. Stating(bench, "states", m_type_axis_configs, m_non_type_axis_configs, 1, 0, <<>>)
    BY StatingBegins DEF Stating
  <1> QED
    BY <1>1, <1>4, <1>5, <1>6, <1>7 DEF IInv

\* While the states are added, nothing else changes.
LEMMA StatesAdded ==
  ASSUME IInv, pc = "states", pc' \in {"states", "created"},
         UNCHANGED <<bench, iterator, built>>,
         Stating(bench, pc', m_type_axis_configs, m_non_type_axis_configs,
                 device', type_config_index', m_states')
  PROVE  IInv'
  <1>1. /\ bench' = bench
        /\ m_indices' = m_indices /\ m_current' = m_current /\ m_total' = m_total
        /\ m_type_axis_configs' = m_type_axis_configs
        /\ m_non_type_axis_configs' = m_non_type_axis_configs
    BY DEF iterator, built
  <1>2. PICK phase : phase = pc' /\ phase \in {"states", "created"}
    OBVIOUS
  <1>3. Building(bench, phase, m_indices, m_current, m_total,
                 m_type_axis_configs, m_non_type_axis_configs)
    BY <1>2 DEF IInv, Building
  <1> QED
    BY <1>1, <1>2, <1>3 DEF IInv

\* What is known of the sequences then
LEMMA ConfigsAreSequences ==
  ASSUME IInv, pc \in {"states", "created"}
  PROVE  /\ Len(m_type_axis_configs) \in Nat /\ Len(m_non_type_axis_configs) \in Nat
         /\ DOMAIN m_non_type_axis_configs = 1..Len(m_non_type_axis_configs)
         /\ Devices = DevicesOf(bench) /\ Len(Devices) \in Nat
  <1>1. PICK types : TypesFound(bench.type_axes, m_type_axis_configs, types)
    BY DEF IInv, Building
  <1>2. m_type_axis_configs \in Seq(TypeConfigType)
    BY <1>1 DEF TypesFound
  <1>3. m_non_type_axis_configs \in Seq(Below(OtherSizes(bench)))
    BY DEF IInv, Building, Complete
  <1>4. Devices = DevicesOf(bench)
    BY DEF Devices, DevicesOf
  <1>5. Len(Devices) \in Nat
    BY <1>4, DevicesAreSome DEF IInv
  <1> QED
    BY <1>2, <1>3, <1>4, <1>5, LenProperties

LEMMA AddStatesKeeps == IInv /\ AddStates => IInv'
  <1> SUFFICES ASSUME IInv, AddStates
               PROVE  IInv'
    OBVIOUS
  <1>1. /\ pc = "states" /\ pc' = "states" /\ bench' = bench
        /\ UNCHANGED <<bench, iterator, built>>
        /\ device <= Len(Devices) /\ type_config_index < Len(m_type_axis_configs)
        /\ device' = device /\ type_config_index' = type_config_index + 1
        /\ m_states' = m_states \o StatesOfTypeConfig
        /\ ~ IsMasked(m_type_axis_configs[type_config_index + 1])
    BY DEF AddStates, AtTypeConfig, TypeConfig
  <1>2. PICK configs, others, devs :
          configs = m_type_axis_configs /\ others = m_non_type_axis_configs /\ devs = Devices
    OBVIOUS
  <1>3. PICK v \in Nat, w \in Nat : v = Len(configs) /\ w = Len(others) /\ DOMAIN others = 1..w
    BY <1>1, <1>2, ConfigsAreSequences
  <1>4. Len(devs) \in Nat /\ devs = DevicesOf(bench)
    BY <1>1, <1>2, ConfigsAreSequences
  <1>5. /\ device \in Nat \ {0} /\ type_config_index \in Nat
        /\ Stated(configs, others, devs, device, type_config_index, m_states)
    BY <1>1, <1>2, <1>4 DEF IInv, Stating
  <1>6. PICK j \in Nat, d \in 1..Len(devs) : j = type_config_index /\ d = device
    BY <1>1, <1>2, <1>4, <1>5
  <1>7. PICK k \in 1..v : k = j + 1
    BY <1>1, <1>2, <1>3, <1>6
  <1>8. PICK block : block = StatesOfTypeConfig
    OBVIOUS
  <1>9. block = [i \in 1..w |-> StateOf(configs, others, devs, <<d, k, i>>)]
    <2>1. block = [i \in 1..w |-> [config |-> configs[k].config \o others[i],
                                   device |-> devs[d], type_config_index |-> j]]
      BY <1>2, <1>3, <1>6, <1>7, <1>8 DEF StatesOfTypeConfig, TypeConfig
    <2>2. k - 1 = j
      BY <1>7
    <2>3. \A i \in 1..w : StateOf(configs, others, devs, <<d, k, i>>)
                            = [config |-> configs[k].config \o others[i],
                               device |-> devs[d], type_config_index |-> j]
      BY <2>2 DEF StateOf
    <2> QED
      BY <2>1, <2>3
  <1>10. Stated(configs, others, devs, d, k, m_states \o block)
    <2>1. ~ IsMasked(configs[k])
      BY <1>1, <1>2, <1>6, <1>7
    <2>2. Stated(configs, others, devs, d, j, m_states)
      BY <1>5, <1>6
    <2> QED
      BY <1>3, <1>7, <1>9, <2>1, <2>2, StatingGoesOn
  <1>11. Stating(bench, "states", configs, others, d, k, m_states \o block)
    BY <1>4, <1>5, <1>6, <1>10 DEF Stating
  <1>12. Stating(bench, pc', m_type_axis_configs, m_non_type_axis_configs,
                 device', type_config_index', m_states')
    BY <1>1, <1>2, <1>6, <1>7, <1>8, <1>11
  <1> QED
    BY <1>1, <1>12, StatesAdded

LEMMA SkipMaskedKeeps == IInv /\ SkipMasked => IInv'
  <1> SUFFICES ASSUME IInv, SkipMasked
               PROVE  IInv'
    OBVIOUS
  <1>1. /\ pc = "states" /\ pc' = "states" /\ bench' = bench
        /\ UNCHANGED <<bench, iterator, built>>
        /\ type_config_index < Len(m_type_axis_configs)
        /\ device' = device /\ type_config_index' = type_config_index + 1
        /\ m_states' = m_states
        /\ IsMasked(m_type_axis_configs[type_config_index + 1])
    BY DEF SkipMasked, AtTypeConfig, TypeConfig
  <1>2. PICK configs, others, devs :
          configs = m_type_axis_configs /\ others = m_non_type_axis_configs /\ devs = DevicesOf(bench)
    OBVIOUS
  <1>3. PICK v \in Nat : v = Len(configs)
    BY <1>1, <1>2, ConfigsAreSequences
  <1>4. /\ device \in Nat \ {0} /\ type_config_index \in Nat
        /\ Stated(configs, others, devs, device, type_config_index, m_states)
    BY <1>1, <1>2 DEF IInv, Stating
  <1>5. PICK j \in Nat : j = type_config_index
    BY <1>4
  <1>6. PICK k \in 1..v : k = j + 1
    BY <1>1, <1>2, <1>3, <1>5
  <1>7. IsMasked(configs[k])
    BY <1>1, <1>2, <1>5, <1>6
  <1>8. Due(configs, others, devs, device, k) = Due(configs, others, devs, device, j)
    BY <1>3, <1>6, <1>7, DueMasked
  <1>9. Stated(configs, others, devs, device, k, m_states)
    BY <1>4, <1>5, <1>8 DEF Stated
  <1>10. Stating(bench, "states", configs, others, device, k, m_states)
    BY <1>2, <1>4, <1>9 DEF Stating
  <1>11. Stating(bench, pc', m_type_axis_configs, m_non_type_axis_configs,
                 device', type_config_index', m_states')
    BY <1>1, <1>2, <1>5, <1>6, <1>10
  <1> QED
    BY <1>1, <1>11, StatesAdded

LEMMA NextDeviceKeeps == IInv /\ NextDevice => IInv'
  <1> SUFFICES ASSUME IInv, NextDevice
               PROVE  IInv'
    OBVIOUS
  <1>1. /\ pc = "states" /\ pc' = "states" /\ bench' = bench
        /\ UNCHANGED <<bench, iterator, built>>
        /\ type_config_index >= Len(m_type_axis_configs)
        /\ device' = device + 1 /\ type_config_index' = 0
        /\ m_states' = m_states
    BY DEF NextDevice
  <1>2. PICK configs, others, devs :
          configs = m_type_axis_configs /\ others = m_non_type_axis_configs /\ devs = DevicesOf(bench)
    OBVIOUS
  <1>3. PICK v \in Nat : v = Len(configs)
    BY <1>1, <1>2, ConfigsAreSequences
  <1>4. /\ device \in Nat \ {0} /\ type_config_index \in Nat
        /\ Stated(configs, others, devs, device, type_config_index, m_states)
    BY <1>1, <1>2 DEF IInv, Stating
  <1>5. PICK d \in Nat, k \in Nat : d = device /\ k = type_config_index /\ k >= v
    BY <1>1, <1>2, <1>3, <1>4
  <1>6. Due(configs, others, devs, d + 1, 0) = Due(configs, others, devs, d, k)
    BY <1>3, <1>5, DueNext
  <1>7. Stated(configs, others, devs, d + 1, 0, m_states)
    BY <1>4, <1>5, <1>6 DEF Stated
  <1>8. Stating(bench, "states", configs, others, d + 1, 0, m_states)
    BY <1>2, <1>7 DEF Stating
  <1>9. Stating(bench, pc', m_type_axis_configs, m_non_type_axis_configs,
                device', type_config_index', m_states')
    BY <1>1, <1>2, <1>5, <1>8
  <1> QED
    BY <1>1, <1>9, StatesAdded

LEMMA FinishKeeps == IInv /\ Finish => IInv'
  <1> SUFFICES ASSUME IInv, Finish
               PROVE  IInv'
    OBVIOUS
  <1>1. /\ pc = "states" /\ pc' = "created" /\ device > Len(Devices)
        /\ UNCHANGED <<bench, iterator, built>>
        /\ device' = device /\ type_config_index' = type_config_index /\ m_states' = m_states
    BY DEF Finish, states
  <1>2. Devices = DevicesOf(bench)
    BY DEF Devices, DevicesOf
  <1>3. Stating(bench, "created", m_type_axis_configs, m_non_type_axis_configs,
                device, type_config_index, m_states)
    BY <1>1, <1>2 DEF IInv, Stating
  <1>4. Stating(bench, pc', m_type_axis_configs, m_non_type_axis_configs,
                device', type_config_index', m_states')
    BY <1>1, <1>3
  <1> QED
    BY <1>1, <1>4, StatesAdded

\* Whatever is done next, what is built is what comes before the iterator, and
\* the states are those of what comes before the current type configuration.
LEMMA InvNext == IInv /\ [Next]_vars => IInv'
  <1> SUFFICES ASSUME IInv, [Next]_vars
               PROVE  IInv'
    OBVIOUS
  <1>1. CASE Begin
    BY <1>1, BeginKeeps
  <1>2. CASE BuildTypeAxisConfig
    BY <1>2, BuildTypeAxisConfigKeeps
  <1>3. CASE TypeAxisConfigsBuilt
    BY <1>3, TypeAxisConfigsBuiltKeeps
  <1>4. CASE BuildNonTypeAxisConfig
    BY <1>4, BuildNonTypeAxisConfigKeeps
  <1>5. CASE NonTypeAxisConfigsBuilt
    BY <1>5, NonTypeAxisConfigsBuiltKeeps
  <1>6. CASE AddStates
    BY <1>6, AddStatesKeeps
  <1>7. CASE SkipMasked
    BY <1>7, SkipMaskedKeeps
  <1>8. CASE NextDevice
    BY <1>8, NextDeviceKeeps
  <1>9. CASE Finish
    BY <1>9, FinishKeeps
  <1>10. CASE UNCHANGED vars
    BY <1>10 DEF IInv, vars, iterator, built, states
  <1> QED
    BY <1>1, <1>2, <1>3, <1>4, <1>5, <1>6, <1>7, <1>8, <1>9, <1>10 DEF Next, Step, Created

-----------------------------------------------------------------------------
(* Type configurations and instantiations *)

\* The other end of 1..n
LEMMA OtherEnd ==
  ASSUME NEW n \in Nat, NEW i \in 1..n
  PROVE  n + 1 - i \in 1..n /\ n + 1 - (n + 1 - i) = i
  OBVIOUS

LEMMA TurnedRound ==
  ASSUME NEW n \in Nat, NEW a \in [1..n -> Nat]
  PROVE  \E c \in [1..n -> Nat] : \A i \in 1..n : c[i] = a[n + 1 - i] /\ c[n + 1 - i] = a[i]
  <1>1. PICK c : c = [i \in 1..n |-> a[n + 1 - i]]
    OBVIOUS
  <1>2. \A i \in 1..n : c[i] = a[n + 1 - i] /\ c[i] \in Nat
    BY <1>1, OtherEnd
  <1>3. c \in [1..n -> Nat]
    <2>1. c = [i \in 1..n |-> c[i]]
      BY <1>1
    <2> QED
      BY <1>2, <2>1
  <1>4. \A i \in 1..n : c[n + 1 - i] = a[i]
    <2> TAKE i \in 1..n
    <2>1. PICK k \in 1..n : k = n + 1 - i /\ n + 1 - k = i
      BY OtherEnd
    <2> QED
      BY <1>2, <2>1
  <1> QED
    BY <1>2, <1>3, <1>4

\* The order of the factors makes no difference.
LEMMA ProductTurnedRound ==
  ASSUME NEW sizes \in Seq(Nat), NEW back \in Seq(Nat), NEW n \in Nat,
         n = Len(sizes), n = Len(back), \A i \in 1..n : back[i] = sizes[n + 1 - i]
  PROVE  Product(back) = Product(sizes)
  <1>1. PICK S, T : S = Below(back) /\ T = Below(sizes)
    OBVIOUS
  <1>2. /\ \A c : c \in S <=> c \in [1..n -> Nat] /\ \A i \in 1..n : c[i] < back[i]
        /\ Cardinality(S) = Product(back)
    BY <1>1, BelowSizes
  <1>3. /\ \A c : c \in T <=> c \in [1..n -> Nat] /\ \A i \in 1..n : c[i] < sizes[i]
        /\ IsFiniteSet(T) /\ Cardinality(T) = Product(sizes)
    BY <1>1, BelowSizes
  <1>4. PICK f : f = [c \in S |-> [i \in 1..n |-> c[n + 1 - i]]]
    OBVIOUS
  <1>5. ASSUME NEW c \in S
        PROVE  /\ f[c] \in [1..n -> Nat]
               /\ \A i \in 1..n : f[c][i] = c[n + 1 - i] /\ f[c][n + 1 - i] = c[i]
    <2>1. c \in [1..n -> Nat]
      BY <1>2
    <2>2. f[c] = [i \in 1..n |-> c[n + 1 - i]]
      BY <1>4
    <2>3. \A i \in 1..n : f[c][i] = c[n + 1 - i] /\ c[n + 1 - i] \in Nat
      BY <2>1, <2>2, OtherEnd
    <2>4. f[c] \in [1..n -> Nat]
      BY <2>2, <2>3
    <2>5. \A i \in 1..n : f[c][n + 1 - i] = c[i]
      <3> TAKE i \in 1..n
      <3>1. PICK k \in 1..n : k = n + 1 - i /\ n + 1 - k = i
        BY OtherEnd
      <3> QED
        BY <2>3, <3>1
    <2> QED
      BY <2>3, <2>4, <2>5
  <1>6. \A i \in 1..n : sizes[i] = back[n + 1 - i] /\ n + 1 - i \in 1..n
    <2> TAKE i \in 1..n
    <2>1. PICK k \in 1..n : k = n + 1 - i /\ n + 1 - k = i
      BY OtherEnd
    <2> QED
      BY <2>1
  <1>7. f \in [S -> T]
    <2>1. ASSUME NEW c \in S
          PROVE  f[c] \in T
      <3>1. \A i \in 1..n : c[n + 1 - i] < back[n + 1 - i]
        BY <1>2, <1>6
      <3>2. \A i \in 1..n : f[c][i] < sizes[i]
        BY <1>5, <1>6, <3>1
      <3> QED
        BY <1>3, <1>5, <3>2
    <2> QED
      BY <1>4, <2>1
  <1>8. ASSUME NEW c \in S, NEW d \in S, f[c] = f[d]
        PROVE  c = d
    <2>1. \A i \in 1..n : c[i] = d[i]
      <3>1. \A i \in 1..n : f[c][n + 1 - i] = c[i]
        BY <1>5
      <3>2. \A i \in 1..n : f[d][n + 1 - i] = d[i]
        BY <1>5
      <3> QED
        BY <1>8, <3>1, <3>2
    <2>2. c \in [1..n -> Nat] /\ d \in [1..n -> Nat]
      BY <1>2
    <2> QED
      BY <2>1, <2>2
  <1>9. ASSUME NEW t \in T
        PROVE  \E c \in S : f[c] = t
    <2>1. t \in [1..n -> Nat] /\ \A i \in 1..n : t[i] < sizes[i]
      BY <1>3
    <2>2. PICK c \in [1..n -> Nat] : \A i \in 1..n : c[i] = t[n + 1 - i] /\ c[n + 1 - i] = t[i]
      BY <2>1, TurnedRound
    <2>3. \A i \in 1..n : c[i] < back[i]
      <3> TAKE i \in 1..n
      <3>1. n + 1 - i \in 1..n
        BY OtherEnd
      <3>2. t[n + 1 - i] < sizes[n + 1 - i]
        BY <2>1, <3>1
      <3> QED
        BY <2>2, <3>2
    <2>4. c \in S
      BY <1>2, <2>3
    <2>5. \A i \in 1..n : f[c][i] = t[i]
      BY <1>5, <2>2, <2>4
    <2>6. f[c] \in [1..n -> Nat]
      BY <1>5, <2>4
    <2>7. f[c] = t
      BY <2>1, <2>5, <2>6
    <2> QED
      BY <2>4, <2>7
  <1>10. IsFiniteSet(T)
    BY <1>3
  <1>11. Cardinality(S) = Cardinality(T)
    <2>1. OneToOne(f, S, T)
      BY <1>7, <1>8, <1>9 DEF OneToOne
    <2> QED
      BY <1>10, <2>1, SameSize
  <1> QED
    BY <1>2, <1>3, <1>11

\* The sorted axes are the axes the other way round.
LEMMA EarlierPrecedes ==
  ASSUME NEW n \in Nat, NEW a \in Seq(Nat), NEW b \in Seq(Nat), Len(a) = n, Len(b) = n,
         Earlier(n, a, b)
  PROVE  Precedes(Reverse(a), Reverse(b))
  <1>1. PICK i \in 1..n : a[i] < b[i] /\ \A j \in 1..n : i < j => a[j] = b[j]
    BY DEF Earlier
  <1>2. PICK ra, rb : ra = Reverse(a) /\ rb = Reverse(b)
    OBVIOUS
  <1>3. /\ DOMAIN ra = 1..n
        /\ \A k \in 1..n : ra[k] = a[n + 1 - k] /\ ra[n + 1 - k] = a[k]
        /\ \A k \in 1..n : rb[k] = b[n + 1 - k] /\ rb[n + 1 - k] = b[k]
    BY <1>2, ReverseOf
  <1>4. PICK k \in 1..n : k = n + 1 - i
    BY OtherEnd
  <1>5. ra[k] < rb[k]
    BY <1>1, <1>3, <1>4
  <1>6. ASSUME NEW j \in 1..(k - 1)
        PROVE  ra[j] = rb[j]
    <2>1. j \in 1..n /\ n + 1 - j \in 1..n /\ i < n + 1 - j
      BY <1>4
    <2> QED
      BY <1>1, <1>3, <2>1
  <1> QED
    BY <1>2, <1>3, <1>5, <1>6 DEF Precedes

\* Each type configuration comes where the one before it leads to.
LEMMA TypesInOrder ==
  ASSUME NEW b \in Benchmarks, NEW configs, NEW types, TypesFound(b.type_axes, configs, types),
         \A j, k \in 1..Len(types) :
           j < k => Earlier(Len(TypeSizes(b)), types[j], types[k])
  PROVE  \A j, k \in DOMAIN configs : j < k => Precedes(configs[j].config, configs[k].config)
  <1>1. PICK sizes, n : sizes = TypeSizes(b) /\ n = Len(sizes)
    OBVIOUS
  <1>2. sizes \in Seq(Nat) /\ n \in Nat
    BY <1>1, SizesOfBenchmark, LenProperties
  <1>3. /\ types \in Seq(Below(sizes)) /\ configs \in Seq(TypeConfigType)
        /\ Len(configs) = Len(types)
        /\ \A k \in 1..Len(types) : configs[k].config = Reverse(types[k])
    BY <1>1 DEF TypesFound, TypeSizes, TypeConfigFor
  <1>4. PICK m \in Nat : m = Len(types) /\ DOMAIN configs = 1..m
    BY <1>3, LenProperties
  <1>5. \A k \in 1..m : types[k] \in Seq(Nat) /\ Len(types[k]) = n
    <2> TAKE k \in 1..m
    <2>1. types[k] \in Below(sizes)
      BY <1>3, <1>4, ElementOfSeq
    <2> QED
      BY <1>1, <1>2, <2>1, IndicesAreSequences
  <1>6. ASSUME NEW j \in 1..m, NEW k \in 1..m, j < k
        PROVE  Precedes(configs[j].config, configs[k].config)
    <2>1. Earlier(n, types[j], types[k])
      BY <1>1, <1>4, <1>6
    <2>2. types[j] \in Seq(Nat) /\ types[k] \in Seq(Nat) /\ Len(types[j]) = n /\ Len(types[k]) = n
      BY <1>5
    <2>3. Precedes(Reverse(types[j]), Reverse(types[k]))
      BY <1>2, <2>1, <2>2, EarlierPrecedes
    <2> QED
      BY <1>3, <1>4, <2>3
  <1> QED
    BY <1>4, <1>6

LEMMA TypeConfigsCounted ==
  ASSUME NEW b \in Benchmarks, NEW configs, NEW types, TypesFound(b.type_axes, configs, types),
         Complete(TypeSizes(b), types)
  PROVE  Len(configs) = Product([i \in DOMAIN b.type_axes |-> b.type_axes[i].size])
  <1>1. PICK axes : axes = b.type_axes
    OBVIOUS
  <1>2. axes \in Seq(AxisType)
    BY <1>1, BenchmarkFacts
  <1>3. PICK n \in Nat : n = Len(axes) /\ DOMAIN axes = 1..n
    BY <1>2, LenProperties
  <1>4. PICK back : back = Reverse(axes)
    OBVIOUS
  <1>5. back \in Seq(AxisType) /\ Len(back) = n /\ \A i \in 1..n : back[i] = axes[n + 1 - i]
    BY <1>2, <1>3, <1>4, ReverseOf
  <1>6. PICK sizes, backSizes : sizes = SizesOf(axes) /\ backSizes = SizesOf(back)
    OBVIOUS
  <1>7. /\ sizes \in Seq(Nat) /\ Len(sizes) = n
        /\ \A i \in 1..n : sizes[i] = axes[i].size
    BY <1>2, <1>3, <1>6, SizesOfAxes
  <1>8. /\ backSizes \in Seq(Nat) /\ Len(backSizes) = n
        /\ \A i \in 1..n : backSizes[i] = back[i].size
    BY <1>5, <1>6, SizesOfAxes
  <1>9. \A i \in 1..n : backSizes[i] = sizes[n + 1 - i]
    <2> TAKE i \in 1..n
    <2>1. n + 1 - i \in 1..n
      BY OtherEnd
    <2> QED
      BY <1>5, <1>7, <1>8, <2>1
  <1>10. Product(backSizes) = Product(sizes)
    BY <1>7, <1>8, <1>9, ProductTurnedRound
  <1>11. Len(configs) = Product(backSizes)
    BY <1>1, <1>4, <1>6 DEF TypesFound, Complete, TypeSizes
  <1>12. sizes = [i \in DOMAIN b.type_axes |-> b.type_axes[i].size]
    BY <1>1, <1>6 DEF SizesOf
  <1> QED
    BY <1>10, <1>11, <1>12

LEMMA InvNumbering == IInv => TypeConfigsMatchInstantiations
  <1> SUFFICES ASSUME IInv
               PROVE  TypeConfigsMatchInstantiations
    OBVIOUS
  <1>1. bench \in Benchmarks
    BY DEF IInv
  <1>2. CASE pc = "begin"
    <2>1. m_type_axis_configs = <<>>
      BY <1>2 DEF IInv, Building
    <2>2. DOMAIN m_type_axis_configs = {}
      BY <2>1
    <2> QED
      BY <1>2, <2>2 DEF TypeConfigsMatchInstantiations
  <1>3. CASE pc = "type_axis_configs"
    <2>1. PICK types : /\ TypesFound(bench.type_axes, m_type_axis_configs, types)
                       /\ Counted(TypeSizes(bench), m_indices, m_current, m_total, types)
      BY <1>3 DEF IInv, Building
    <2>2. \A j, k \in 1..Len(types) :
            j < k => Earlier(Len(TypeSizes(bench)), types[j], types[k])
      BY <2>1 DEF Counted
    <2>3. \A j, k \in DOMAIN m_type_axis_configs :
            j < k => Precedes(m_type_axis_configs[j].config, m_type_axis_configs[k].config)
      BY <1>1, <2>1, <2>2, TypesInOrder
    <2> QED
      BY <1>3, <2>3 DEF TypeConfigsMatchInstantiations
  <1>4. CASE pc \in {"non_type_axis_configs", "states", "created"}
    <2>1. PICK types : /\ TypesFound(bench.type_axes, m_type_axis_configs, types)
                       /\ Complete(TypeSizes(bench), types)
      BY <1>4 DEF IInv, Building
    <2>2. \A j, k \in 1..Len(types) :
            j < k => Earlier(Len(TypeSizes(bench)), types[j], types[k])
      BY <2>1 DEF Complete
    <2>3. \A j, k \in DOMAIN m_type_axis_configs :
            j < k => Precedes(m_type_axis_configs[j].config, m_type_axis_configs[k].config)
      BY <1>1, <2>1, <2>2, TypesInOrder
    <2>4. Len(m_type_axis_configs)
            = Product([i \in DOMAIN bench.type_axes |-> bench.type_axes[i].size])
      BY <1>1, <2>1, TypeConfigsCounted
    <2> QED
      BY <2>3, <2>4 DEF TypeConfigsMatchInstantiations
  <1>5. pc \in {"begin", "type_axis_configs", "non_type_axis_configs", "states", "created"}
    BY DEF IInv, Building
  <1> QED
    BY <1>2, <1>3, <1>4, <1>5

\* The number of a type configuration is that of its instantiation: they are
\* built in the order of the cartesian product of the type lists, whose last
\* varies fastest, and there are as many (state_generator.cxx,
\* build_axis_configs; type_list.cuh, cartesian_product).
THEOREM NumberedAsInstantiated == Spec => []TypeConfigsMatchInstantiations
  <1>1. Init => IInv
    BY InvInit
  <1>2. IInv /\ [Next]_vars => IInv'
    BY InvNext
  <1>3. IInv => TypeConfigsMatchInstantiations
    BY InvNumbering
  <1> QED
    BY <1>1, <1>2, <1>3, PTL DEF Spec

-----------------------------------------------------------------------------
(* Configurations and states *)

\* Over the members of K, list has each member of C once.
ListsOnce(K, list, C) ==
  /\ \A k \in K : list[k] \in C
  /\ \A j, k \in K : list[j] = list[k] => j = k
  /\ \A c \in C : \E k \in K : list[k] = c

LEMMA ListedSize ==
  ASSUME NEW K, NEW list, NEW C, ListsOnce(K, list, C), IsFiniteSet(C)
  PROVE  IsFiniteSet(K) /\ Cardinality(K) = Cardinality(C)
  <1>1. PICK f : f = [k \in K |-> list[k]]
    OBVIOUS
  <1>2. OneToOne(f, K, C)
    BY <1>1 DEF OneToOne, ListsOnce
  <1> QED
    BY <1>2, SameSize

\* Vectors in order are each there once.
LEMMA CompleteListsOnce ==
  ASSUME NEW sizes \in Seq(Nat), NEW found, Complete(sizes, found)
  PROVE  ListsOnce(1..Len(found), found, Below(sizes))
  <1>1. PICK n, B : n = Len(sizes) /\ n \in Nat /\ B = Below(sizes)
    BY LenProperties
  <1>2. /\ found \in Seq(B)
        /\ \A j, k \in 1..Len(found) : j < k => Earlier(n, found[j], found[k])
        /\ \A c \in B : \E j \in 1..Len(found) : found[j] = c
    BY <1>1 DEF Complete
  <1>3. PICK m \in Nat : m = Len(found)
    BY <1>2, LenProperties
  <1>4. \A j \in 1..m : found[j] \in B
    BY <1>2, <1>3, ElementOfSeq
  <1>5. \A c \in B : c \in [1..n -> Nat]
    BY <1>1, BelowSizes
  <1>6. ASSUME NEW j \in 1..m, NEW k \in 1..m, found[j] = found[k]
        PROVE  j = k
    <2>1. found[j] \in [1..n -> Nat] /\ found[k] \in [1..n -> Nat]
      BY <1>4, <1>5
    <2>2. ~ Earlier(n, found[j], found[k]) /\ ~ Earlier(n, found[k], found[j])
      BY <1>1, <1>6, <2>1, EarlierIsAnother
    <2>3. ~ (j < k) /\ ~ (k < j)
      BY <1>2, <1>3, <2>2
    <2> QED
      BY <2>3
  <1> QED
    BY <1>1, <1>2, <1>3, <1>4, <1>6 DEF ListsOnce

ActiveSets(axes) == [i \in DOMAIN axes |-> axes[i].active]

\* The choices of active values
ActiveChoices(axes) == ChoicesTo(ActiveSets(axes), Len(axes))

LEMMA ChoicesAre ==
  ASSUME NEW axes \in Seq(AxisType), NEW n \in Nat, n = Len(axes)
  PROVE  \A c : c \in ActiveChoices(axes) <=>
                  c \in [1..n -> Nat] /\ \A i \in 1..n : c[i] \in axes[i].active
  <1>1. DOMAIN axes = 1..n
    BY LenProperties
  <1>2. \A i \in 1..n : ActiveSets(axes)[i] = axes[i].active
    BY <1>1 DEF ActiveSets
  <1> QED
    BY <1>2 DEF ActiveChoices, ChoicesTo

LEMMA ChoicesAreMany ==
  ASSUME NEW axes \in Seq(AxisType),
         \A i \in 1..Len(axes) : axes[i].active \subseteq 0..(axes[i].size - 1)
  PROVE  /\ IsFiniteSet(ActiveChoices(axes))
         /\ Cardinality(ActiveChoices(axes))
              = Product([i \in DOMAIN axes |-> Cardinality(axes[i].active)])
         /\ Product([i \in DOMAIN axes |-> Cardinality(axes[i].active)]) \in Nat
  <1>1. PICK n \in Nat : n = Len(axes) /\ DOMAIN axes = 1..n
    BY LenProperties
  <1>2. PICK sets, counts : /\ sets = ActiveSets(axes)
                            /\ counts = [i \in DOMAIN axes |-> Cardinality(axes[i].active)]
    OBVIOUS
  <1>3. ASSUME NEW i \in 1..n
        PROVE  /\ sets[i] = axes[i].active /\ sets[i] \in SUBSET Nat /\ IsFiniteSet(sets[i])
               /\ counts[i] = Cardinality(sets[i])
    <2>1. sets[i] = axes[i].active
      BY <1>1, <1>2 DEF ActiveSets
    <2>2. PICK size \in Nat : size = axes[i].size
      BY <1>1, SizesOfAxes
    <2>3. sets[i] \subseteq 0..(size - 1)
      BY <1>1, <2>1, <2>2
    <2>4. IsFiniteSet(0..(size - 1))
      <3>1. PICK zero \in Int, top \in Int : zero = 0 /\ top = size - 1
        OBVIOUS
      <3>2. IsFiniteSet(zero..top)
        BY FS_Interval
      <3> QED
        BY <3>1, <3>2
    <2>5. IsFiniteSet(sets[i])
      BY <2>3, <2>4, FS_Subset
    <2>6. counts[i] = Cardinality(sets[i])
      BY <1>1, <1>2, <2>1
    <2> QED
      BY <2>1, <2>3, <2>5, <2>6
  <1>4. Len(counts) = n
    <2>1. counts = [i \in 1..n |-> Cardinality(axes[i].active)]
      BY <1>1, <1>2
    <2> QED
      BY <2>1
  <1>5. /\ IsFiniteSet(ChoicesTo(sets, n))
        /\ Cardinality(ChoicesTo(sets, n)) = Product(counts)
        /\ Product(counts) \in Nat
    <2>1. SizesAre(n, sets, counts)
      BY <1>3, <1>4 DEF SizesAre
    <2> QED
      BY <2>1, ChoicesCounted
  <1>6. ActiveChoices(axes) = ChoicesTo(sets, n)
    BY <1>1, <1>2 DEF ActiveChoices
  <1> QED
    BY <1>2, <1>5, <1>6

\* The type configurations that are not masked are the choices of active types.
LEMMA TypesListed ==
  ASSUME NEW b \in Benchmarks, NEW configs, NEW types, TypesFound(b.type_axes, configs, types),
         Complete(TypeSizes(b), types), NEW v, v = Len(configs),
         NEW K, K = {k \in 1..v : ~ IsMasked(configs[k])},
         NEW list, list = [k \in 1..v |-> configs[k].config]
  PROVE  v \in Nat /\ ListsOnce(K, list, ActiveChoices(b.type_axes))
  <1>1. PICK axes, back, sizes :
          axes = b.type_axes /\ back = Reverse(axes) /\ sizes = TypeSizes(b)
    OBVIOUS
  <1>2. axes \in Seq(AxisType) /\ back \in Seq(AxisType) /\ sizes = SizesOf(back)
    BY <1>1, BenchmarkFacts DEF TypeSizes
  <1>3. PICK n \in Nat : n = Len(axes) /\ n = Len(sizes)
    BY <1>1, <1>2, SizesOfBenchmark, LenProperties
  <1>4. sizes \in Seq(Nat) /\ \A i \in 1..n : sizes[i] = axes[n + 1 - i].size
    <2>1. Len(back) = n /\ \A i \in 1..n : back[i] = axes[n + 1 - i]
      BY <1>1, <1>2, <1>3, ReverseOf
    <2>2. sizes \in Seq(Nat) /\ \A i \in 1..n : sizes[i] = back[i].size
      BY <1>2, <2>1, SizesOfAxes
    <2> QED
      BY <2>1, <2>2
  <1>5. /\ types \in Seq(Below(sizes)) /\ Len(types) = v
        /\ \A k \in 1..v : /\ configs[k].config = Reverse(types[k])
                           /\ IsMasked(configs[k]) <=> ~ Active(axes, Reverse(types[k]))
    BY <1>1 DEF TypesFound, TypeConfigFor, TypeSizes
  <1>6. v \in Nat
    BY <1>5, LenProperties
  <1>7. ListsOnce(1..v, types, Below(sizes))
    <2>1. Complete(sizes, types)
      BY <1>1
    <2> QED
      BY <1>4, <1>5, <2>1, CompleteListsOnce
  <1>8. ASSUME NEW k \in 1..v
        PROVE  /\ types[k] \in [1..n -> Nat]
               /\ list[k] \in [1..n -> Nat]
               /\ \A i \in 1..n : /\ list[k][i] = types[k][n + 1 - i]
                                  /\ list[k][n + 1 - i] = types[k][i]
               /\ IsMasked(configs[k]) <=> ~ \A i \in 1..n : list[k][i] \in axes[i].active
    <2>1. types[k] \in Below(sizes)
      BY <1>7 DEF ListsOnce
    <2>2. types[k] \in Seq(Nat) /\ Len(types[k]) = n /\ types[k] \in [1..n -> Nat]
      BY <1>3, <1>4, <2>1, IndicesAreSequences
    <2>3. PICK r : r = Reverse(types[k])
      OBVIOUS
    <2>4. /\ r \in Seq(Nat) /\ Len(r) = n /\ DOMAIN r = 1..n
          /\ \A i \in 1..n : r[i] = types[k][n + 1 - i] /\ r[n + 1 - i] = types[k][i]
      BY <2>2, <2>3, ReverseOf
    <2>5. r \in [1..n -> Nat]
      BY <2>4, LenProperties
    <2>6. list[k] = r
      BY <1>5, <2>3
    <2>7. IsMasked(configs[k]) <=> ~ \A i \in 1..n : r[i] \in axes[i].active
      BY <1>5, <2>3, <2>4 DEF Active
    <2> QED
      BY <2>2, <2>4, <2>5, <2>6, <2>7
  <1>9. \A c : c \in ActiveChoices(axes) <=>
                 c \in [1..n -> Nat] /\ \A i \in 1..n : c[i] \in axes[i].active
    BY <1>2, <1>3, ChoicesAre
  <1>10. ASSUME NEW k \in K
         PROVE  list[k] \in ActiveChoices(axes)
    <2>1. k \in 1..v /\ ~ IsMasked(configs[k])
      OBVIOUS
    <2> QED
      BY <1>8, <1>9, <2>1
  <1>11. ASSUME NEW j \in K, NEW k \in K, list[j] = list[k]
         PROVE  j = k
    <2>1. j \in 1..v /\ k \in 1..v
      OBVIOUS
    <2>2. \A i \in 1..n : list[j][n + 1 - i] = types[j][i]
      BY <1>8, <2>1
    <2>3. \A i \in 1..n : list[k][n + 1 - i] = types[k][i]
      BY <1>8, <2>1
    <2>4. \A i \in 1..n : types[j][i] = types[k][i]
      BY <1>11, <2>2, <2>3
    <2>5. types[j] \in [1..n -> Nat] /\ types[k] \in [1..n -> Nat]
      BY <1>8, <2>1
    <2>6. types[j] = types[k]
      BY <2>4, <2>5
    <2> QED
      BY <1>7, <2>1, <2>6 DEF ListsOnce
  <1>12. ASSUME NEW c \in ActiveChoices(axes)
         PROVE  \E k \in K : list[k] = c
    <2>1. c \in [1..n -> Nat] /\ \A i \in 1..n : c[i] \in axes[i].active
      BY <1>9
    <2>2. PICK t \in [1..n -> Nat] : \A i \in 1..n : t[i] = c[n + 1 - i] /\ t[n + 1 - i] = c[i]
      BY <2>1, TurnedRound
    <2>3. \A i \in 1..n : t[i] < sizes[i]
      <3> TAKE i \in 1..n
      <3>1. PICK k \in 1..n : k = n + 1 - i
        BY OtherEnd
      <3>2. axes[k].active \subseteq 0..(axes[k].size - 1)
        BY <1>1, <1>3, BenchmarkFacts
      <3>3. c[k] \in 0..(axes[k].size - 1)
        BY <2>1, <3>2
      <3>4. axes[k].size \in Nat
        BY <1>2, <1>3, SizesOfAxes
      <3>5. c[k] < axes[k].size
        BY <3>3, <3>4
      <3> QED
        BY <1>4, <2>2, <3>1, <3>5
    <2>4. t \in Below(sizes)
      BY <1>3, <1>4, <2>3, BelowSizes
    <2>5. PICK k \in 1..v : types[k] = t
      BY <1>7, <2>4 DEF ListsOnce
    <2>6. \A i \in 1..n : list[k][i] = c[i]
      <3> TAKE i \in 1..n
      <3>1. list[k][i] = types[k][n + 1 - i]
        BY <1>8
      <3> QED
        BY <2>2, <2>5, <3>1
    <2>7. list[k] = c
      <3>1. list[k] \in [1..n -> Nat]
        BY <1>8
      <3> QED
        BY <2>1, <2>6, <3>1
    <2>8. ~ IsMasked(configs[k])
      BY <1>8, <2>1, <2>6
    <2> QED
      BY <2>5, <2>7, <2>8
  <1> QED
    BY <1>1, <1>6, <1>10, <1>11, <1>12 DEF ListsOnce

LEMMA OthersListed ==
  ASSUME NEW b \in Benchmarks, NEW others, Complete(OtherSizes(b), others)
  PROVE  /\ Len(others) \in Nat /\ DOMAIN others = 1..Len(others)
         /\ ListsOnce(1..Len(others), others, ActiveChoices(b.other_axes))
  <1>1. PICK axes, sizes, n : axes = b.other_axes /\ sizes = OtherSizes(b) /\ n = Len(sizes)
    OBVIOUS
  <1>2. axes \in Seq(AxisType) /\ sizes = SizesOf(axes) /\ sizes \in Seq(Nat)
    BY <1>1, BenchmarkFacts, SizesOfBenchmark DEF OtherSizes
  <1>3. n \in Nat /\ n = Len(axes) /\ \A i \in 1..n : axes[i].size \in Nat /\ sizes[i] = axes[i].size
    BY <1>1, <1>2, SizesOfAxes
  <1>4. \A c : c \in Below(sizes) <=>
                 c \in [1..n -> Nat] /\ \A i \in 1..n : c[i] < sizes[i]
    BY <1>1, <1>2, <1>3, BelowSizes
  <1>5. \A c : c \in ActiveChoices(axes) <=>
                 c \in [1..n -> Nat] /\ \A i \in 1..n : c[i] \in axes[i].active
    BY <1>2, <1>3, ChoicesAre
  <1>6. \A i \in 1..n : axes[i].active = 0..(axes[i].size - 1)
    BY <1>1, <1>3, BenchmarkFacts
  <1>7. \A i \in 1..n : \A e \in Nat : e < sizes[i] <=> e \in axes[i].active
    <2> TAKE i \in 1..n
    <2> TAKE e \in Nat
    <2>1. PICK size \in Nat : size = axes[i].size /\ sizes[i] = size
      BY <1>3
    <2>2. axes[i].active = 0..(size - 1)
      BY <1>6, <2>1
    <2> QED
      BY <2>1, <2>2
  <1>8. \A c : c \in Below(sizes) <=> c \in ActiveChoices(axes)
    <2> TAKE c
    <2>1. ASSUME c \in [1..n -> Nat]
          PROVE  (\A i \in 1..n : c[i] < sizes[i]) <=> (\A i \in 1..n : c[i] \in axes[i].active)
      BY <1>7, <2>1
    <2> QED
      BY <1>4, <1>5, <2>1
  <1>9. Below(sizes) = ActiveChoices(axes)
    BY <1>8
  <1>10. ListsOnce(1..Len(others), others, Below(sizes))
    BY <1>1, <1>2, CompleteListsOnce
  <1>11. others \in Seq(Below(sizes))
    BY <1>1 DEF Complete
  <1> QED
    BY <1>1, <1>9, <1>10, <1>11, LenProperties

Joined(a, b) == a \o b

\* The members of C are those of A joined with those of B, each in one way.
JoinOnce(A, B, C) ==
  /\ \A a \in A, b \in B : Joined(a, b) \in C
  /\ \A a, c \in A : \A b, d \in B : Joined(a, b) = Joined(c, d) => a = c /\ b = d
  /\ \A c \in C : \E a \in A, b \in B : c = Joined(a, b)

\* Every choice on all axes is one of the first axes' followed by one of the others'.
LEMMA ChoicesJoined ==
  ASSUME NEW first \in Seq(AxisType), NEW second \in Seq(AxisType),
         NEW axes, axes = first \o second,
         NEW A, NEW B, NEW C, A = ActiveChoices(first), B = ActiveChoices(second),
         C = ActiveChoices(axes)
  PROVE  JoinOnce(A, B, C)
  <1>1. PICK n \in Nat, p \in Nat : n = Len(first) /\ p = Len(second)
    BY LenProperties
  <1>2. /\ axes \in Seq(AxisType) /\ Len(axes) = n + p
        /\ \A i \in 1..(n + p) : axes[i] = IF i <= n THEN first[i] ELSE second[i - n]
    BY <1>1, ConcatProperties
  <1>3. PICK q \in Nat : q = n + p
    OBVIOUS
  <1>4. \A c : c \in A <=> c \in [1..n -> Nat] /\ \A i \in 1..n : c[i] \in first[i].active
    BY <1>1, ChoicesAre
  <1>5. \A c : c \in B <=> c \in [1..p -> Nat] /\ \A i \in 1..p : c[i] \in second[i].active
    BY <1>1, ChoicesAre
  <1>6. \A c : c \in C <=> c \in [1..q -> Nat] /\ \A i \in 1..q : c[i] \in axes[i].active
    BY <1>2, <1>3, ChoicesAre
  <1>7. \A i \in 1..n : i \in 1..q /\ i <= n
    BY <1>3
  <1>8. \A i \in 1..p : n + i \in 1..q /\ ~ (n + i <= n) /\ (n + i) - n = i
    BY <1>3
  <1>9. \A i \in 1..q : (i \in 1..n /\ i <= n) \/ (i - n \in 1..p /\ ~ (i <= n) /\ n + (i - n) = i)
    BY <1>3
  <1>10. ASSUME NEW a \in A, NEW b \in B
         PROVE  /\ a \o b \in [1..q -> Nat]
                /\ \A i \in 1..q : (a \o b)[i] = IF i <= n THEN a[i] ELSE b[i - n]
    <2>1. a \in Seq(Nat) /\ Len(a) = n
      <3>1. a \in [1..n -> Nat]
        BY <1>4
      <3>2. DOMAIN a = 1..n /\ a = [i \in 1..n |-> a[i]] /\ \A i \in 1..n : a[i] \in Nat
        BY <3>1
      <3> QED
        BY <3>2, SequenceOf
    <2>2. b \in Seq(Nat) /\ Len(b) = p
      <3>1. b \in [1..p -> Nat]
        BY <1>5
      <3>2. DOMAIN b = 1..p /\ b = [i \in 1..p |-> b[i]] /\ \A i \in 1..p : b[i] \in Nat
        BY <3>1
      <3> QED
        BY <3>2, SequenceOf
    <2>3. PICK ab : ab = a \o b
      OBVIOUS
    <2>4. /\ ab \in Seq(Nat) /\ Len(ab) = q
          /\ \A i \in 1..q : ab[i] = IF i <= n THEN a[i] ELSE b[i - n]
      BY <1>3, <2>1, <2>2, <2>3, ConcatProperties
    <2>5. ab \in [1..q -> Nat]
      BY <2>4, LenProperties
    <2> QED
      BY <2>3, <2>4, <2>5
  <1>11. ASSUME NEW a \in A, NEW b \in B
         PROVE  a \o b \in C
    <2>1. PICK ab : ab = a \o b
      OBVIOUS
    <2>2. ab \in [1..q -> Nat] /\ \A i \in 1..q : ab[i] = IF i <= n THEN a[i] ELSE b[i - n]
      BY <1>10, <2>1
    <2>3. ASSUME NEW i \in 1..q
          PROVE  ab[i] \in axes[i].active
      <3>1. CASE i \in 1..n /\ i <= n
        <4>1. ab[i] = a[i] /\ axes[i] = first[i]
          BY <1>2, <1>3, <2>2, <3>1
        <4>2. a[i] \in first[i].active
          BY <1>4, <3>1
        <4> QED
          BY <4>1, <4>2
      <3>2. CASE i - n \in 1..p /\ ~ (i <= n)
        <4>1. ab[i] = b[i - n] /\ axes[i] = second[i - n]
          BY <1>2, <1>3, <2>2, <3>2
        <4>2. b[i - n] \in second[i - n].active
          BY <1>5, <3>2
        <4> QED
          BY <4>1, <4>2
      <3> QED
        BY <1>9, <3>1, <3>2
    <2> QED
      BY <1>6, <2>1, <2>2, <2>3
  <1>12. ASSUME NEW a \in A, NEW c \in A, NEW b \in B, NEW d \in B, a \o b = c \o d
         PROVE  a = c /\ b = d
    <2>1. PICK ab : ab = a \o b /\ ab = c \o d
      BY <1>12
    <2>2. \A i \in 1..q : ab[i] = IF i <= n THEN a[i] ELSE b[i - n]
      <3>1. \A i \in 1..q : (a \o b)[i] = IF i <= n THEN a[i] ELSE b[i - n]
        BY <1>10
      <3> QED
        BY <2>1, <3>1
    <2>3. \A i \in 1..q : ab[i] = IF i <= n THEN c[i] ELSE d[i - n]
      <3>1. \A i \in 1..q : (c \o d)[i] = IF i <= n THEN c[i] ELSE d[i - n]
        BY <1>10
      <3> QED
        BY <2>1, <3>1
    <2>4. \A i \in 1..n : a[i] = c[i]
      BY <1>7, <2>2, <2>3
    <2>5. \A i \in 1..p : b[i] = d[i]
      <3> TAKE i \in 1..p
      <3>1. PICK j \in 1..q : j = n + i /\ ~ (j <= n) /\ j - n = i
        BY <1>8
      <3>2. ab[j] = b[i] /\ ab[j] = d[i]
        BY <2>2, <2>3, <3>1
      <3> QED
        BY <3>2
    <2>6. a \in [1..n -> Nat] /\ c \in [1..n -> Nat]
      BY <1>4
    <2>7. b \in [1..p -> Nat] /\ d \in [1..p -> Nat]
      BY <1>5
    <2>8. a = c
      BY <2>4, <2>6
    <2>9. b = d
      BY <2>5, <2>7
    <2> QED
      BY <2>8, <2>9
  <1>13. ASSUME NEW c \in C
         PROVE  \E a \in A, b \in B : c = a \o b
    <2>1. c \in [1..q -> Nat] /\ \A i \in 1..q : c[i] \in axes[i].active
      BY <1>6
    <2>2. PICK a, b : a = [i \in 1..n |-> c[i]] /\ b = [i \in 1..p |-> c[n + i]]
      OBVIOUS
    <2>3. a \in A
      <3>1. ASSUME NEW i \in 1..n
            PROVE  a[i] \in Nat /\ a[i] \in first[i].active
        <4>1. i \in 1..q /\ a[i] = c[i] /\ axes[i] = first[i]
          BY <1>2, <1>3, <1>7, <2>2
        <4> QED
          BY <2>1, <4>1
      <3>2. a \in [1..n -> Nat]
        BY <2>2, <3>1
      <3> QED
        BY <1>4, <3>1, <3>2
    <2>4. b \in B
      <3>1. ASSUME NEW i \in 1..p
            PROVE  b[i] \in Nat /\ b[i] \in second[i].active
        <4>1. PICK j \in 1..q : j = n + i /\ ~ (j <= n) /\ j - n = i
          BY <1>8
        <4>2. b[i] = c[j] /\ axes[j] = second[i]
          BY <1>2, <1>3, <2>2, <4>1
        <4> QED
          BY <2>1, <4>2
      <3>2. b \in [1..p -> Nat]
        BY <2>2, <3>1
      <3> QED
        BY <1>5, <3>1, <3>2
    <2>5. PICK ab : ab = a \o b
      OBVIOUS
    <2>6. ab \in [1..q -> Nat] /\ \A i \in 1..q : ab[i] = IF i <= n THEN a[i] ELSE b[i - n]
      BY <1>10, <2>3, <2>4, <2>5
    <2>7. \A i \in 1..q : ab[i] = c[i]
      <3> TAKE i \in 1..q
      <3>1. CASE i \in 1..n /\ i <= n
        BY <2>2, <2>6, <3>1
      <3>2. CASE i - n \in 1..p /\ ~ (i <= n) /\ n + (i - n) = i
        <4>1. PICK j \in 1..p : j = i - n /\ n + j = i
          BY <3>2
        <4>2. ab[i] = b[j] /\ b[j] = c[n + j]
          BY <2>2, <2>6, <3>2, <4>1
        <4> QED
          BY <4>1, <4>2
      <3> QED
        BY <1>9, <3>1, <3>2
    <2>8. ab = c
      BY <2>1, <2>6, <2>7
    <2> QED
      BY <2>3, <2>4, <2>5, <2>8
  <1> QED
    BY <1>11, <1>12, <1>13 DEF JoinOnce, Joined

\* Each pair of a type configuration and another is a choice of C of its own.
PairsOnce(K, list, W, others, C) ==
  /\ \A k \in K, i \in W : Joined(list[k], others[i]) \in C
  /\ \A j, k \in K : \A h, i \in W : Joined(list[j], others[h]) = Joined(list[k], others[i]) => j = k /\ h = i
  /\ \A c \in C : \E k \in K, i \in W : c = Joined(list[k], others[i])

LEMMA ListsPaired ==
  ASSUME NEW K, NEW list, NEW W, NEW others, NEW A, NEW B, NEW C,
         ListsOnce(K, list, A), ListsOnce(W, others, B),
         JoinOnce(A, B, C)
  PROVE  PairsOnce(K, list, W, others, C)
  <1>1. \A k \in K : list[k] \in A
    BY DEF ListsOnce
  <1>2. \A i \in W : others[i] \in B
    BY DEF ListsOnce
  <1>3. \A k \in K, i \in W : Joined(list[k], others[i]) \in C
    BY <1>1, <1>2 DEF JoinOnce
  <1>4. ASSUME NEW j \in K, NEW k \in K, NEW h \in W, NEW i \in W,
               Joined(list[j], others[h]) = Joined(list[k], others[i])
        PROVE  j = k /\ h = i
    <2>1. list[j] = list[k] /\ others[h] = others[i]
      <3>1. PICK a \in A, c \in A : a = list[j] /\ c = list[k]
        BY <1>1
      <3>2. PICK b \in B, d \in B : b = others[h] /\ d = others[i]
        BY <1>2
      <3>3. Joined(a, b) = Joined(c, d)
        BY <1>4, <3>1, <3>2
      <3>4. a = c /\ b = d
        BY <3>3 DEF JoinOnce
      <3> QED
        BY <3>1, <3>2, <3>4
    <2>2. j = k
      BY <2>1 DEF ListsOnce
    <2>3. h = i
      BY <2>1 DEF ListsOnce
    <2> QED
      BY <2>2, <2>3
  <1>5. ASSUME NEW c \in C
        PROVE  \E k \in K, i \in W : c = Joined(list[k], others[i])
    <2>1. PICK a \in A, b \in B : c = Joined(a, b)
      BY DEF JoinOnce
    <2>2. PICK k \in K : list[k] = a
      BY DEF ListsOnce
    <2>3. PICK i \in W : others[i] = b
      BY DEF ListsOnce
    <2> QED
      BY <2>1, <2>2, <2>3
  <1> QED
    BY <1>3, <1>4, <1>5 DEF PairsOnce

Triples(D, K, W) == D \X K \X W

\* The state at each place is that of the triple put there.
Generates(all, at, list, others, devs, G, generated) ==
  /\ OneToOne(at, all, G)
  /\ DOMAIN generated = G
  /\ \A x \in all : generated[at[x]] = <<Joined(list[x[2]], others[x[3]]), devs[x[1]]>>

LEMMA GeneratedAre ==
  ASSUME NEW D, NEW K, NEW W, NEW all, all = Triples(D, K, W), NEW at, NEW list, NEW others,
         NEW devs, DOMAIN devs = D, NEW G, NEW generated, NEW C,
         Generates(all, at, list, others, devs, G, generated),
         PairsOnce(K, list, W, others, C)
  PROVE  Range(generated) = C \X Range(devs)
  <1>1. /\ at \in [all -> G] /\ DOMAIN generated = G
        /\ \A j \in G : \E x \in all : at[x] = j
        /\ \A x \in all : generated[at[x]] = <<Joined(list[x[2]], others[x[3]]), devs[x[1]]>>
    BY DEF Generates, OneToOne
  <1>2. ASSUME NEW j \in G
        PROVE  generated[j] \in C \X Range(devs)
    <2>1. PICK x \in all : at[x] = j
      BY <1>1
    <2>2. x[1] \in D /\ x[2] \in K /\ x[3] \in W
      BY DEF Triples
    <2>3. devs[x[1]] \in Range(devs)
      BY <2>2 DEF Range
    <2>4. Joined(list[x[2]], others[x[3]]) \in C
      BY <2>2 DEF PairsOnce
    <2>5. generated[j] = <<Joined(list[x[2]], others[x[3]]), devs[x[1]]>>
      BY <1>1, <2>1
    <2>6. PICK c \in C, dev \in Range(devs) : c = Joined(list[x[2]], others[x[3]]) /\ dev = devs[x[1]]
      BY <2>3, <2>4
    <2>7. generated[j] = <<c, dev>>
      BY <2>5, <2>6
    <2> QED
      BY <2>7
  <1>3. ASSUME NEW c \in C, NEW dev \in Range(devs)
        PROVE  \E j \in G : generated[j] = <<c, dev>>
    <2>1. PICK d \in D : devs[d] = dev
      BY DEF Range
    <2>2. PICK k \in K, i \in W : c = Joined(list[k], others[i])
      BY DEF PairsOnce
    <2>3. PICK x : x = <<d, k, i>>
      OBVIOUS
    <2>4. x \in all /\ x[1] = d /\ x[2] = k /\ x[3] = i
      BY <2>3 DEF Triples
    <2>5. generated[at[x]] = <<c, dev>>
      BY <1>1, <2>1, <2>2, <2>4
    <2>6. at[x] \in G
      BY <1>1, <2>4
    <2> QED
      BY <2>5, <2>6
  <1>4. \A s \in Range(generated) : s \in C \X Range(devs)
    BY <1>1, <1>2 DEF Range
  <1>5. ASSUME NEW s \in C \X Range(devs)
        PROVE  s \in Range(generated)
    <2>1. PICK c \in C, dev \in Range(devs) : s = <<c, dev>>
      OBVIOUS
    <2>2. PICK j \in G : generated[j] = <<c, dev>>
      BY <1>3
    <2> QED
      BY <1>1, <2>1, <2>2 DEF Range
  <1> QED
    BY <1>4, <1>5

LEMMA GeneratedTimes ==
  ASSUME NEW D, NEW K, NEW W, NEW all, all = Triples(D, K, W), NEW at, NEW list, NEW others,
         NEW devs, DOMAIN devs = D, NEW G, IsFiniteSet(G), NEW generated, NEW C,
         Generates(all, at, list, others, devs, G, generated),
         PairsOnce(K, list, W, others, C),
         NEW s \in Range(generated)
  PROVE  Occurrences(generated, s) = Occurrences(devs, s[2])
  <1>1. /\ at \in [all -> G] /\ DOMAIN generated = G
        /\ \A j \in G : \E x \in all : at[x] = j
        /\ \A x, y \in all : at[x] = at[y] => x = y
        /\ \A x \in all : generated[at[x]] = <<Joined(list[x[2]], others[x[3]]), devs[x[1]]>>
    BY DEF Generates, OneToOne
  <1>2. PICK j0 \in G : generated[j0] = s
    BY <1>1 DEF Range
  <1>3. PICK x0 \in all : at[x0] = j0
    BY <1>1
  <1>4. PICK k \in K, i \in W : k = x0[2] /\ i = x0[3]
    BY DEF Triples
  <1>5. PICK c, dev : c = Joined(list[k], others[i]) /\ dev = devs[x0[1]]
    OBVIOUS
  <1>6. s = <<c, dev>>
    BY <1>1, <1>2, <1>3, <1>4, <1>5
  <1>7. s[2] = dev
    BY <1>6
  <1>8. PICK S, T : S = {d \in D : devs[d] = dev} /\ T = {j \in G : generated[j] = s}
    OBVIOUS
  <1>9. PICK f : f = [d \in S |-> at[<<d, k, i>>]]
    OBVIOUS
  <1>10. ASSUME NEW d \in S
         PROVE  /\ <<d, k, i>> \in all /\ f[d] = at[<<d, k, i>>] /\ f[d] \in T
    <2>1. PICK x : x = <<d, k, i>>
      OBVIOUS
    <2>2. x \in all /\ x[1] = d /\ x[2] = k /\ x[3] = i /\ devs[d] = dev
      BY <1>8, <2>1 DEF Triples
    <2>3. f[d] = at[x] /\ at[x] \in G
      BY <1>1, <1>9, <2>1, <2>2
    <2>4. generated[at[x]] = s
      BY <1>1, <1>5, <1>6, <2>2
    <2> QED
      BY <1>8, <2>1, <2>2, <2>3, <2>4
  <1>11. ASSUME NEW d \in S, NEW e \in S, f[d] = f[e]
         PROVE  d = e
    <2>1. PICK x \in all, y \in all : x = <<d, k, i>> /\ y = <<e, k, i>>
      BY <1>10
    <2>2. f[d] = at[x] /\ f[e] = at[y]
      BY <1>10, <2>1
    <2>3. x = y
      <3>1. at[x] = at[y]
        BY <1>11, <2>2
      <3>2. \A z, t \in all : at[z] = at[t] => z = t
        BY <1>1
      <3> QED
        BY <3>1, <3>2
    <2> QED
      BY <2>1, <2>3
  <1>12. ASSUME NEW j \in T
         PROVE  \E d \in S : f[d] = j
    <2>1. j \in G /\ generated[j] = s
      BY <1>8
    <2>2. PICK x \in all : at[x] = j
      BY <1>1, <2>1
    <2>3. x[1] \in D /\ x[2] \in K /\ x[3] \in W /\ x = <<x[1], x[2], x[3]>>
      BY DEF Triples
    <2>4. <<Joined(list[x[2]], others[x[3]]), devs[x[1]]>> = <<c, dev>>
      BY <1>1, <1>6, <2>1, <2>2
    <2>5. Joined(list[x[2]], others[x[3]]) = Joined(list[k], others[i]) /\ devs[x[1]] = dev
      BY <1>5, <2>4
    <2>6. x[2] = k /\ x[3] = i
      <3>1. PICK h \in K, l \in W : h = x[2] /\ l = x[3]
        BY <2>3
      <3>2. Joined(list[h], others[l]) = Joined(list[k], others[i])
        BY <2>5, <3>1
      <3>3. h = k /\ l = i
        BY <3>2 DEF PairsOnce
      <3> QED
        BY <3>1, <3>3
    <2>7. x[1] \in S
      BY <1>8, <2>3, <2>5
    <2>8. x = <<x[1], k, i>>
      BY <2>3, <2>6
    <2>9. f[x[1]] = j
      BY <1>10, <2>2, <2>7, <2>8
    <2> QED
      BY <2>7, <2>9
  <1>13. OneToOne(f, S, T)
    <2>1. f \in [S -> T]
      BY <1>9, <1>10
    <2> QED
      BY <1>11, <1>12, <2>1 DEF OneToOne
  <1>14. IsFiniteSet(T)
    <2>1. T \subseteq G
      BY <1>8
    <2> QED
      BY <2>1, FS_Subset
  <1>15. Cardinality(S) = Cardinality(T)
    BY <1>13, <1>14, SameSize
  <1>16. Occurrences(generated, s) = Cardinality(T)
    BY <1>1, <1>8 DEF Occurrences
  <1>17. Occurrences(devs, s[2]) = Cardinality(S)
    BY <1>7, <1>8 DEF Occurrences
  <1> QED
    BY <1>15, <1>16, <1>17

\* As many triples as the product of the three
LEMMA TriplesCounted ==
  ASSUME NEW D, NEW K, NEW W, IsFiniteSet(D), IsFiniteSet(K), IsFiniteSet(W),
         NEW d \in Nat, NEW k \in Nat, NEW w \in Nat,
         d = Cardinality(D), k = Cardinality(K), w = Cardinality(W)
  PROVE  IsFiniteSet(Triples(D, K, W)) /\ Cardinality(Triples(D, K, W)) = (k * w) * d
  <1>1. PICK P : P = K \X W
    OBVIOUS
  <1>2. IsFiniteSet(P) /\ Cardinality(P) = k * w
    BY <1>1, FS_Product
  <1>3. PICK Q : Q = P \X D
    OBVIOUS
  <1>4. IsFiniteSet(Q) /\ Cardinality(Q) = (k * w) * d
    BY <1>2, <1>3, FS_Product
  <1>5. PICK R : R = D \X K \X W
    OBVIOUS
  <1>6. PICK f : f = [x \in R |-> <<<<x[2], x[3]>>, x[1]>>]
    OBVIOUS
  <1>7. \A x \in R : x[1] \in D /\ x[2] \in K /\ x[3] \in W /\ x = <<x[1], x[2], x[3]>>
    BY <1>5
  <1>8. f \in [R -> Q]
    BY <1>1, <1>3, <1>6, <1>7
  <1>9. ASSUME NEW x \in R, NEW y \in R, f[x] = f[y]
        PROVE  x = y
    <2>1. <<<<x[2], x[3]>>, x[1]>> = <<<<y[2], y[3]>>, y[1]>>
      BY <1>6, <1>9
    <2>2. x[1] = y[1] /\ x[2] = y[2] /\ x[3] = y[3]
      BY <2>1
    <2> QED
      BY <1>7, <2>2
  <1>10. ASSUME NEW q \in Q
         PROVE  \E x \in R : f[x] = q
    <2>1. PICK p \in P, a \in D : q = <<p, a>>
      BY <1>3
    <2>2. PICK b \in K, c \in W : p = <<b, c>>
      BY <1>1
    <2>3. PICK x : x = <<a, b, c>>
      OBVIOUS
    <2>4. x \in R /\ x[1] = a /\ x[2] = b /\ x[3] = c
      BY <1>5, <2>3
    <2>5. f[x] = <<<<b, c>>, a>>
      BY <1>6, <2>4
    <2> QED
      BY <2>1, <2>2, <2>4, <2>5
  <1>11. OneToOne(f, R, Q)
    BY <1>8, <1>9, <1>10 DEF OneToOne
  <1>12. IsFiniteSet(R) /\ Cardinality(R) = Cardinality(Q)
    BY <1>4, <1>11, SameSize
  <1> QED
    BY <1>4, <1>5, <1>12 DEF Triples

LEMMA UpTo ==
  ASSUME NEW n \in Nat
  PROVE  IsFiniteSet(1..n) /\ Cardinality(1..n) = n
  <1>1. PICK one \in Int : one = 1 /\ n \in Int
    OBVIOUS
  <1>2. IsFiniteSet(one..n) /\ Cardinality(one..n) = IF one > n THEN 0 ELSE n - one + 1
    BY <1>1, FS_Interval
  <1> QED
    BY <1>1, <1>2

\* The choices as the property says them
LEMMA ChoicesOfValues ==
  ASSUME NEW axes \in Seq(AxisType), NEW values,
         values = UNION {axes[i].active : i \in DOMAIN axes}
  PROVE  {c \in [DOMAIN axes -> values] : \A i \in DOMAIN axes : c[i] \in axes[i].active}
           = ActiveChoices(axes)
  <1>1. PICK n \in Nat : n = Len(axes) /\ DOMAIN axes = 1..n
    BY LenProperties
  <1>2. PICK S : S = {c \in [1..n -> values] : \A i \in 1..n : c[i] \in axes[i].active}
    OBVIOUS
  <1>3. \A c : c \in ActiveChoices(axes) <=>
                 c \in [1..n -> Nat] /\ \A i \in 1..n : c[i] \in axes[i].active
    BY <1>1, ChoicesAre
  <1>4. \A i \in 1..n : axes[i].active \subseteq Nat /\ axes[i].active \subseteq values
    <2> TAKE i \in 1..n
    <2>1. axes[i] \in AxisType
      BY <1>1, ElementOfSeq
    <2>2. axes[i].active \subseteq Nat
      BY <2>1 DEF AxisType
    <2>3. axes[i].active \subseteq values
      BY <1>1
    <2> QED
      BY <2>2, <2>3
  <1>5. ASSUME NEW c \in S
        PROVE  c \in ActiveChoices(axes)
    <2>1. c \in [1..n -> values] /\ \A i \in 1..n : c[i] \in axes[i].active
      BY <1>2
    <2>2. \A i \in 1..n : c[i] \in Nat
      BY <1>4, <2>1
    <2>3. c \in [1..n -> Nat]
      BY <2>1, <2>2
    <2> QED
      BY <1>3, <2>1, <2>3
  <1>6. ASSUME NEW c \in ActiveChoices(axes)
        PROVE  c \in S
    <2>1. c \in [1..n -> Nat] /\ \A i \in 1..n : c[i] \in axes[i].active
      BY <1>3
    <2>2. \A i \in 1..n : c[i] \in values
      BY <1>4, <2>1
    <2>3. c \in [1..n -> values]
      BY <2>1, <2>2
    <2> QED
      BY <1>2, <2>1, <2>3
  <1>7. S = ActiveChoices(axes)
    BY <1>5, <1>6
  <1> QED
    BY <1>1, <1>2, <1>7

\* The states at their places
LEMMA PlacedGenerate ==
  ASSUME NEW configs, NEW others, NEW devs, NEW all, NEW at, NEW sts,
         Placed(configs, others, devs, all, at, sts),
         NEW m \in Nat, m = Len(sts), DOMAIN sts = 1..m,
         NEW v, NEW list, list = [k \in 1..v |-> configs[k].config],
         \A x \in all : x[2] \in 1..v,
         NEW generated, generated = [i \in DOMAIN sts |-> <<sts[i].config, sts[i].device>>]
  PROVE  Generates(all, at, list, others, devs, 1..m, generated)
  <1>1. /\ at \in [all -> 1..m]
        /\ \A x, y \in all : at[x] = at[y] => x = y
        /\ \A j \in 1..m : \E x \in all : at[x] = j
        /\ \A x \in all : sts[at[x]] = StateOf(configs, others, devs, x)
    BY DEF Placed
  <1>2. OneToOne(at, all, 1..m)
    BY <1>1 DEF OneToOne
  <1>3. DOMAIN generated = 1..m
    OBVIOUS
  <1>4. ASSUME NEW x \in all
        PROVE  generated[at[x]] = <<Joined(list[x[2]], others[x[3]]), devs[x[1]]>>
    <2>1. PICK i \in 1..m : i = at[x]
      BY <1>1
    <2>2. generated[i] = <<sts[i].config, sts[i].device>>
      OBVIOUS
    <2>3. sts[i] = StateOf(configs, others, devs, x)
      BY <1>1, <2>1
    <2>4. PICK config, dev, index :
            /\ config = configs[x[2]].config \o others[x[3]]
            /\ dev = devs[x[1]] /\ index = x[2] - 1
      OBVIOUS
    <2>5. sts[i] = [config |-> config, device |-> dev, type_config_index |-> index]
      BY <2>3, <2>4 DEF StateOf
    <2>6. sts[i].config = config /\ sts[i].device = dev
      BY <2>5
    <2>7. config = Joined(list[x[2]], others[x[3]])
      BY <2>4 DEF Joined
    <2> QED
      BY <2>1, <2>2, <2>4, <2>6, <2>7
  <1> QED
    BY <1>2, <1>3, <1>4 DEF Generates

LEMMA InvStates == IInv => EveryConfigurationHasItsState
  <1> SUFFICES ASSUME IInv, pc = "created"
               PROVE  EveryConfigurationHasItsState
    BY DEF EveryConfigurationHasItsState
  <1>1. PICK b \in Benchmarks : b = bench
    BY DEF IInv
  <1>2. PICK configs, others, devs, sts :
          configs = m_type_axis_configs /\ others = m_non_type_axis_configs
            /\ devs = Devices /\ sts = m_states
    OBVIOUS
  <1>3. devs = DevicesOf(b)
    BY <1>1, <1>2 DEF Devices, DevicesOf
  <1>4. PICK u \in Nat : u = Len(devs) /\ DOMAIN devs = 1..u
    BY <1>3, DevicesAreSome, LenProperties
  <1>5. PICK types : TypesFound(b.type_axes, configs, types) /\ Complete(TypeSizes(b), types)
    BY <1>1, <1>2 DEF IInv, Building
  <1>6. Complete(OtherSizes(b), others)
    BY <1>1, <1>2 DEF IInv, Building
  <1>7. /\ Stated(configs, others, devs, device, type_config_index, sts)
        /\ device \in Nat /\ device > u
    BY <1>1, <1>2, <1>3, <1>4 DEF IInv, Stating
  <1>8. PICK v, K, list : /\ v = Len(configs)
                          /\ K = {k \in 1..v : ~ IsMasked(configs[k])}
                          /\ list = [k \in 1..v |-> configs[k].config]
    OBVIOUS
  <1>9. v \in Nat /\ ListsOnce(K, list, ActiveChoices(b.type_axes))
    BY <1>5, <1>8, TypesListed
  <1>10. PICK w : w = Len(others)
    OBVIOUS
  <1>11. /\ w \in Nat /\ DOMAIN others = 1..w
         /\ ListsOnce(1..w, others, ActiveChoices(b.other_axes))
    BY <1>6, <1>10, OthersListed
  <1>12. PICK axes, C : axes = b.type_axes \o b.other_axes /\ C = ActiveChoices(axes)
    OBVIOUS
  <1>13. PICK m \in Nat : m = Len(sts) /\ DOMAIN sts = 1..m
    <2>1. sts \in Seq(AllStates(configs, others, devs))
      BY <1>7 DEF Stated
    <2> QED
      BY <2>1, LenProperties
  <1>14. PICK D, W, G, all : D = 1..u /\ W = 1..w /\ G = 1..m /\ all = Triples(D, K, W)
    OBVIOUS
  <1>15. PairsOnce(K, list, W, others, C)
    <2>1. PICK A, B : A = ActiveChoices(b.type_axes) /\ B = ActiveChoices(b.other_axes)
      OBVIOUS
    <2>2. b.type_axes \in Seq(AxisType) /\ b.other_axes \in Seq(AxisType)
      BY BenchmarkFacts
    <2>3. JoinOnce(A, B, C)
      BY <1>12, <2>1, <2>2, ChoicesJoined
    <2> QED
      BY <1>9, <1>11, <1>14, <2>1, <2>3, ListsPaired
  <1>16. Due(configs, others, devs, device, type_config_index) = all
    <2>1. Due(configs, others, devs, device, type_config_index)
            = AllDue(configs, others, devs)
      BY <1>4, <1>7, DueAll
    <2>2. AllDue(configs, others, devs) = all
      BY <1>4, <1>8, <1>10, <1>14 DEF AllDue, Triples
    <2> QED
      BY <2>1, <2>2
  <1>17. PICK at : Placed(configs, others, devs, all, at, sts)
    BY <1>7, <1>16 DEF Stated
  <1>18. PICK generated : generated = [i \in DOMAIN sts |-> <<sts[i].config, sts[i].device>>]
    OBVIOUS
  <1>19. Generates(all, at, list, others, devs, G, generated)
    <2>1. \A x \in all : x[2] \in 1..v
      BY <1>8, <1>14 DEF Triples
    <2> QED
      BY <1>8, <1>13, <1>14, <1>17, <1>18, <2>1, PlacedGenerate
  <1>20. Range(generated) = C \X Range(devs)
    BY <1>4, <1>14, <1>15, <1>19, GeneratedAre
  <1>21. IsFiniteSet(G) /\ Cardinality(G) = m
    BY <1>14, UpTo
  <1>22. \A s \in Range(generated) : Occurrences(generated, s) = Occurrences(devs, s[2])
    <2> TAKE s \in Range(generated)
    <2> QED
      BY <1>4, <1>14, <1>15, <1>19, <1>21, GeneratedTimes
  <1>23. PICK k : k = Product([i \in DOMAIN b.type_axes |-> Cardinality(b.type_axes[i].active)])
    OBVIOUS
  <1>24. IsFiniteSet(K) /\ Cardinality(K) = k /\ k \in Nat
    <2>1. b.type_axes \in Seq(AxisType)
      BY BenchmarkFacts
    <2>2. \A i \in 1..Len(b.type_axes) :
            b.type_axes[i].active \subseteq 0..(b.type_axes[i].size - 1)
      BY BenchmarkFacts
    <2>3. PICK A : A = ActiveChoices(b.type_axes)
      OBVIOUS
    <2>4. IsFiniteSet(A) /\ Cardinality(A) = k /\ k \in Nat
      BY <1>23, <2>1, <2>2, <2>3, ChoicesAreMany
    <2> QED
      BY <1>9, <2>3, <2>4, ListedSize
  <1>25. w = Product([i \in DOMAIN b.other_axes |-> b.other_axes[i].size])
    <2>1. w = Product(OtherSizes(b))
      BY <1>6, <1>10 DEF Complete
    <2>2. OtherSizes(b) = [i \in DOMAIN b.other_axes |-> b.other_axes[i].size]
      BY DEF OtherSizes, SizesOf
    <2> QED
      BY <2>1, <2>2
  <1>26. m = (k * w) * u
    <2>1. IsFiniteSet(D) /\ Cardinality(D) = u
      BY <1>14, UpTo
    <2>2. IsFiniteSet(W) /\ Cardinality(W) = w
      BY <1>11, <1>14, UpTo
    <2>3. IsFiniteSet(all) /\ Cardinality(all) = (k * w) * u
      BY <1>11, <1>14, <1>24, <2>1, <2>2, TriplesCounted
    <2>4. OneToOne(at, all, G)
      BY <1>19 DEF Generates
    <2>5. Cardinality(all) = Cardinality(G)
      BY <1>21, <2>4, SameSize
    <2> QED
      BY <1>21, <2>3, <2>5
  <1>27. Len(m_states) = get_config_count
    BY <1>1, <1>2, <1>4, <1>13, <1>23, <1>25, <1>26 DEF get_config_count
  <1>28. axes \in Seq(AxisType) /\ axes = Axes
    <2>1. b.type_axes \in Seq(AxisType) /\ b.other_axes \in Seq(AxisType)
      BY BenchmarkFacts
    <2> QED
      BY <1>1, <1>12, <2>1, ConcatProperties DEF Axes
  <1>29. PICK values : values = UNION {Axes[i].active : i \in DOMAIN Axes}
    OBVIOUS
  <1>30. {c \in [DOMAIN Axes -> values] : \A i \in DOMAIN Axes : c[i] \in Axes[i].active} = C
    BY <1>12, <1>28, <1>29, ChoicesOfValues
  <1>31. generated = [i \in DOMAIN m_states |-> <<m_states[i].config, m_states[i].device>>]
    BY <1>2, <1>18
  <1>32. devs = Devices
    BY <1>2
  <1> QED
    BY <1>20, <1>22, <1>27, <1>29, <1>30, <1>31, <1>32 DEF EveryConfigurationHasItsState

\* Every choice of active values on every device has as many states as the
\* device is listed, nothing else has any, and get_config_count announces them
\* all (state_generator.cxx, build_states and add_states_for_device;
\* benchmark_base.cxx, get_config_count).
THEOREM EveryConfigurationRuns == Spec => []EveryConfigurationHasItsState
  <1>1. Init => IInv
    BY InvInit
  <1>2. IInv /\ [Next]_vars => IInv'
    BY InvNext
  <1>3. IInv => EveryConfigurationHasItsState
    BY InvStates
  <1> QED
    BY <1>1, <1>2, <1>3, PTL DEF Spec
=============================================================================
