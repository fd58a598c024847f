-------------------------- MODULE PoolSelectProofs --------------------------
(***************************************************************************)
(* Proofs about PoolSelect, for any number of pools, quotas and bounds: the*)
(* rotation gives every pool exactly its quota, and the balance strategy   *)
(* divides the work evenly.                                                *)
(***************************************************************************)
EXTENDS PoolSelect, FiniteSetTheorems, TLAPS

(* Induction over an interval, and functions defined by recursion over it. *)
(* The principles of the library take an operator, so both are stated with *)
(* a set and a function, and proved from the order of the naturals.        *)
LEMMA LeastNat ==
  ASSUME NEW T \in SUBSET Nat, T # {}
  PROVE  \E x \in T : \A y \in T : x <= y
<1> DEFINE R == OpToRel(<, Nat)
<1>1. \E x \in T : \A y \in T : <<y, x>> \notin R
  BY NatLessThanWellFounded, WFMin
<1>2. R = {ss \in Nat \X Nat : ss[1] < ss[2]}
  BY DEF OpToRel
<1> HIDE DEF R
<1>3. ASSUME NEW x \in T, NEW y \in T, <<y, x>> \notin R PROVE x <= y
  BY <1>2, <1>3
<1> QED
  BY <1>1, <1>3

LEMMA IntervalInduction ==
  ASSUME NEW lo \in Int, NEW hi \in Int, NEW A,
         lo \in A, \A n \in lo + 1 .. hi : n - 1 \in A => n \in A
  PROVE  \A n \in lo .. hi : n \in A
<1> DEFINE Bad == {k \in Nat : \E m \in lo .. hi : m \notin A /\ k = m - lo}
<1>1. Bad = {}
  <2> SUFFICES ASSUME Bad # {} PROVE FALSE
    OBVIOUS
  <2>1. PICK k \in Bad : \A j \in Bad : k <= j
    BY LeastNat
  <2>2. PICK m \in lo .. hi : m \notin A /\ k = m - lo
    BY <2>1
  <2>3. m # lo
    BY <2>2
  <2>4. m - 1 \in lo .. hi /\ m - 1 \notin A /\ m - 1 - lo \in Nat
    BY <2>2, <2>3
  <2>5. m - 1 - lo \in Bad
    BY <2>4
  <2> QED
    BY <2>1, <2>2, <2>5
<1>2. ASSUME NEW n \in lo .. hi, n \notin A PROVE FALSE
  <2>1. n - lo \in Bad
    BY <1>2
  <2> QED
    BY <1>1, <2>1
<1> QED
  BY <1>2

(* first and next, and the function they define. *)
Recurs(g, lo, hi, first, next) ==
  g = [n \in lo .. hi |-> IF n = lo THEN first ELSE next[<<n, g[n - 1]>>]]

LEMMA RecursionExists ==
  ASSUME NEW lo \in Int, NEW hi \in Int, lo <= hi, NEW first, NEW next
  PROVE  \E g : Recurs(g, lo, hi, first, next)
<1> DEFINE A == {m \in lo .. hi : \E g : Recurs(g, lo, m, first, next)}
<1>1. lo \in A
  <2> DEFINE g == [n \in lo .. lo |-> first]
  <2>1. Recurs(g, lo, lo, first, next)
    BY DEF Recurs
  <2> QED
    BY <2>1
<1>2. ASSUME NEW m \in lo + 1 .. hi, m - 1 \in A PROVE m \in A
  <2>1. PICK g : Recurs(g, lo, m - 1, first, next)
    BY <1>2
  <2> DEFINE h == [n \in lo .. m |-> IF n = m THEN next[<<m, g[m - 1]>>] ELSE g[n]]
  <2>2. ASSUME NEW n \in lo .. m
        PROVE  h[n] = IF n = lo THEN first ELSE next[<<n, h[n - 1]>>]
    <3>1. CASE n = m
      BY <3>1
    <3>2. CASE n # m
      <4>1. n \in lo .. m - 1
        BY <3>2
      <4>2. g[n] = IF n = lo THEN first ELSE next[<<n, g[n - 1]>>]
        BY <2>1, <4>1 DEF Recurs
      <4> QED
        BY <3>2, <4>1, <4>2
    <3> QED
      BY <3>1, <3>2
  <2>3. Recurs(h, lo, m, first, next)
    <3> HIDE DEF h
    <3>1. h = [n \in lo .. m |-> h[n]]
      BY DEF h
    <3> QED
      BY <2>2, <3>1 DEF Recurs
  <2> QED
    BY <2>3
<1>3. hi \in A
  <2> HIDE DEF A
  <2>1. \A n \in lo .. hi : n \in A
    BY <1>1, <1>2, IntervalInduction
  <2> QED
    BY <2>1
<1> QED
  BY <1>3

LEMMA PowerOf2 ==
  ASSUME NEW n \in Nat
  PROVE  2 ^ n \in Nat \ {0}
<1>1. IsFiniteSet(1 .. n) /\ Cardinality(1 .. n) = n
  BY FS_Interval
<1>2. IsFiniteSet(SUBSET (1 .. n)) /\ Cardinality(SUBSET (1 .. n)) = 2 ^ n
  BY <1>1, FS_SUBSET
<1>3. Cardinality(SUBSET (1 .. n)) \in Nat /\ Cardinality(SUBSET (1 .. n)) # 0
  <2>1. SUBSET (1 .. n) # {}
    OBVIOUS
  <2> QED
    BY <1>2, <2>1, FS_EmptySet, FS_CardinalityType
<1> QED
  BY <1>2, <1>3

(* The last number that the loop of adjust_quota_gcd comes to: 1 at worst. *)
LEMMA DownToType ==
  ASSUME NEW d \in Nat \ {0}, NEW n \in Nat
  PROVE  DownTo(d, n) \in 1 .. d
<1> DEFINE T == {k \in Nat : k < d /\ Divides(d - k, n)}
<1>1. T # {}
  <2>1. d - 1 \in Nat /\ d - 1 < d /\ d - (d - 1) = 1
    OBVIOUS
  <2>2. Divides(1, n)
    BY DEF Divides
  <2>3. d - 1 \in T
    BY <2>1, <2>2
  <2> QED
    BY <2>3
<1>2. PICK k \in T : \A j \in T : k <= j
  BY <1>1, LeastNat
<1> DEFINE e == d - k
<1>3. e \in 1 .. d /\ Divides(e, n)
  BY <1>2
<1>4. ASSUME NEW f \in e + 1 .. d, Divides(f, n) PROVE FALSE
  <2>1. PICK j \in Nat : j = d - f
    OBVIOUS
  <2>2. d - j = f
    BY <2>1
  <2>3. j < d /\ j < k
    BY <1>2, <1>3, <2>1
  <2>4. j \in T
    BY <1>4, <2>2, <2>3
  <2> QED
    BY <1>2, <2>3, <2>4
<1>5. \E x \in 1 .. d : Divides(x, n) /\ \A f \in x + 1 .. d : ~Divides(f, n)
  BY <1>3, <1>4
<1> QED
  BY <1>5 DEF DownTo

(* The divisor is positive, whatever the quotas are. *)
LEMMA QuotaGcdType ==
  ASSUME NEW q \in [PoolNo -> Nat]
  PROVE  QuotaGcd(q) \in Nat \ {0}
<1> DEFINE Low == {q[p] : p \in {r \in PoolNo : q[r] > 0 /\ \A o \in PoolNo : q[o] > 0 => q[r] <= q[o]}}
           last == Pools - 1
           first == CHOOSE l \in Low : TRUE
           next == [x \in (0 .. last) \X (Nat \ {0}) |-> IF q[x[1]] = 0 THEN x[2] ELSE DownTo(x[2], q[x[1]])]
           Step(g) == g = [p \in -1 .. last |->
                             IF p = -1 THEN first
                             ELSE IF q[p] = 0 THEN g[p - 1] ELSE DownTo(g[p - 1], q[p])]
<1>0. Pools \in Nat \ {0} /\ last \in Nat /\ PoolNo = 0 .. last
  BY SelectAssumption DEF PoolNo
<1>1. CASE Low = {}
  BY <1>1 DEF QuotaGcd
<1>2. CASE Low # {}
  <2>1. first \in Nat \ {0}
    <3>1. first \in Low
      BY <1>2
    <3> QED
      BY <3>1
  <2>2. ASSUME NEW p \in 0 .. last, NEW d \in Nat \ {0}
        PROVE  /\ next[<<p, d>>] = IF q[p] = 0 THEN d ELSE DownTo(d, q[p])
               /\ next[<<p, d>>] \in Nat \ {0}
    <3>1. next[<<p, d>>] = IF q[p] = 0 THEN d ELSE DownTo(d, q[p])
      OBVIOUS
    <3>2. q[p] \in Nat
      BY <1>0
    <3>3. DownTo(d, q[p]) \in 1 .. d
      BY <3>2, DownToType
    <3> QED
      BY <3>1, <3>3
  <2>9. -1 \in Int /\ last \in Int /\ -1 <= last /\ -1 \in -1 .. last /\ last \in -1 .. last
    BY <1>0
  <2>10. ASSUME NEW n \in -1 + 1 .. last
         PROVE  n \in 0 .. last /\ n \in -1 .. last /\ n # -1 /\ n - 1 \in -1 .. last /\ q[n] \in Nat
    BY <1>0
  <2> HIDE DEF first, next, last
  <2>3. \E g : Step(g)
    <3>1. PICK g : Recurs(g, -1, last, first, next)
      BY <2>9, RecursionExists
    <3>2. \A n \in -1 .. last : g[n] = IF n = -1 THEN first ELSE next[<<n, g[n - 1]>>]
      BY <3>1 DEF Recurs
    <3> DEFINE A == {n \in -1 .. last : g[n] \in Nat \ {0}}
    <3>3. -1 \in A
      BY <2>1, <2>9, <3>2
    <3>4. ASSUME NEW n \in -1 + 1 .. last, n - 1 \in A PROVE n \in A
      <4>1. g[n] = next[<<n, g[n - 1]>>] /\ g[n - 1] \in Nat \ {0}
        BY <2>10, <3>2, <3>4
      <4> QED
        BY <2>2, <2>10, <4>1
    <3>5. \A n \in -1 .. last : n \in A
      <4> HIDE DEF A
      <4> QED
        BY <2>9, <3>3, <3>4, IntervalInduction
    <3>6. ASSUME NEW n \in -1 .. last
          PROVE  g[n] = IF n = -1 THEN first
                        ELSE IF q[n] = 0 THEN g[n - 1] ELSE DownTo(g[n - 1], q[n])
      <4>1. CASE n = -1
        BY <3>2, <4>1
      <4>2. CASE n # -1
        <5>1. n \in 0 .. last /\ n - 1 \in -1 .. last
          BY <4>2, <1>0
        <5>2. g[n - 1] \in Nat \ {0}
          BY <3>5, <5>1
        <5> QED
          BY <2>2, <3>2, <4>2, <5>1, <5>2
      <4> QED
        BY <4>1, <4>2
    <3>7. g = [n \in -1 .. last |-> g[n]]
      BY <3>1 DEF Recurs
    <3> QED
      BY <3>6, <3>7
  <2> DEFINE step == CHOOSE g : Step(g)
  <2>4. Step(step)
    <3> HIDE DEF Step
    <3> QED
      BY <2>3
  <2>5. QuotaGcd(q) = step[last]
    BY <1>2 DEF QuotaGcd, first, last
  <2> HIDE DEF step
  <2> DEFINE A == {n \in -1 .. last : step[n] \in Nat \ {0}}
  <2>6. -1 \in A
    BY <2>1, <2>4, <2>9
  <2>7. ASSUME NEW n \in -1 + 1 .. last, n - 1 \in A PROVE n \in A
    <3>1. n \in 0 .. last /\ step[n - 1] \in Nat \ {0} /\ q[n] \in Nat
      BY <2>7, <2>10
    <3>2. step[n] = IF q[n] = 0 THEN step[n - 1] ELSE DownTo(step[n - 1], q[n])
      BY <2>4, <2>7, <2>10
    <3>3. DownTo(step[n - 1], q[n]) \in 1 .. step[n - 1]
      BY <3>1, DownToType
    <3> QED
      BY <2>7, <2>10, <3>1, <3>2, <3>3
  <2>8. last \in A
    <3> HIDE DEF A
    <3>1. \A n \in -1 .. last : n \in A
      BY <2>9, <2>6, <2>7, IntervalInduction
    <3> QED
      BY <2>9, <3>1
  <2> QED
    BY <2>5, <2>8
<1> QED
  BY <1>1, <1>2

(* C's arithmetic stays in the integers. *)
LEMMA RescaleType ==
  ASSUME NEW used \in Int, NEW from \in Nat \ {0}, NEW to \in Nat \ {0}
  PROVE  Rescale(used, from, to) \in Int
<1>1. 2 ^ LongBits \in Nat \ {0} /\ 2 ^ IntBits \in Nat \ {0} /\ 2 ^ (IntBits - 1) \in Nat \ {0}
  BY SelectAssumption, PowerOf2
<1>2. ASSUME NEW x \in Int PROVE Unsigned(x) \in Nat
  BY <1>1 DEF Unsigned
<1>3. ASSUME NEW x \in Int PROVE Signed(x) \in Int
  <2> DEFINE y == x % (2 ^ IntBits)
  <2>1. y \in Int
    BY <1>1
  <2> HIDE DEF y
  <2>2. Signed(x) = IF y < 2 ^ (IntBits - 1) THEN y ELSE y - 2 ^ IntBits
    BY DEF Signed, y
  <2> QED
    BY <1>1, <2>1, <2>2
<1> DEFINE a == Unsigned(used * from)
           b == Signed(a)
           c == Unsigned(b)
<1>4. used * from \in Int
  OBVIOUS
<1>5. a \in Nat
  BY <1>2, <1>4
<1>6. b \in Int
  BY <1>3, <1>5
<1>7. c \in Nat
  BY <1>2, <1>6
<1> HIDE DEF c
<1>8. c \div to \in Int
  BY <1>7
<1>9. Signed(c \div to) \in Int
  BY <1>3, <1>8
<1> QED
  BY <1>9 DEF Rescale, c

LEMMA AdjustedType ==
  ASSUME NEW q \in [PoolNo -> Nat]
  PROVE  Adjusted(q) \in [PoolNo -> Nat]
<1>1. QuotaGcd(q) \in Nat \ {0}
  BY QuotaGcdType
<1>2. ASSUME NEW p \in PoolNo PROVE q[p] \div QuotaGcd(q) \in Nat
  BY <1>1
<1> QED
  BY <1>2 DEF Adjusted

LEMMA FollowingType ==
  ASSUME NEW p \in PoolNo
  PROVE  Following(p) \in PoolNo
<1>1. Pools \in Nat \ {0} /\ p + 1 \in Int
  BY SelectAssumption DEF PoolNo
<1>2. (p + 1) % Pools \in 0 .. Pools - 1
  BY <1>1
<1> QED
  BY <1>2 DEF Following, PoolNo

LEMMA Plus1Type ==
  ASSUME NEW n \in Int
  PROVE  Plus1(n, MaxUsed) \in Int /\ Plus1(n, MaxUsed) >= n
BY SelectBounds DEF Plus1

(* The states of the loop of select_pool. *)
Turns == [found : BOOLEAN, rot : PoolNo, used : [PoolNo -> Int]]

LEMMA VisitType ==
  ASSUME NEW s \in Turns
  PROVE  Visit(s) \in Turns
<1> DEFINE p == s.rot
           used == [s.used EXCEPT ![p] = Plus1(@, MaxUsed)]
           rest == IF s.used[p] < quotaGcd[p] /\ failOnly THEN [used EXCEPT ![0] = @ - 1] ELSE used
<1>1. p \in PoolNo /\ s.used \in [PoolNo -> Int] /\ s.found \in BOOLEAN /\ 0 \in PoolNo
  BY SelectAssumption DEF Turns, PoolNo
<1>2. Plus1(s.used[p], MaxUsed) \in Int
  BY <1>1, Plus1Type
<1>3. used \in [PoolNo -> Int]
  BY <1>1, <1>2
<1>4. rest \in [PoolNo -> Int]
  BY <1>1, <1>3
<1>5. Following(p) \in PoolNo
  BY <1>1, FollowingType
<1>6. [s EXCEPT !.found = TRUE, !.used = used] \in Turns
  BY <1>1, <1>3 DEF Turns
<1>7. [found |-> FALSE, rot |-> Following(p), used |-> rest] \in Turns
  BY <1>4, <1>5 DEF Turns
<1>8. \/ Visit(s) = s
      \/ Visit(s) = [s EXCEPT !.found = TRUE, !.used = used]
      \/ Visit(s) = [found |-> FALSE, rot |-> Following(p), used |-> rest]
  BY DEF Visit
<1> HIDE DEF used, rest, p
<1> QED
  BY <1>6, <1>7, <1>8

(* What every turn of the loop preserves holds at its end. *)
LEMMA RotationKeeps ==
  ASSUME NEW A, NEW start \in A, \A s \in A : Visit(s) \in A
  PROVE  \A s \in Rotation(start) : s \in A
<1> DEFINE next == [x \in (0 .. Pools) \X SUBSET A |-> {Visit(s) : s \in x[2]}]
           Loop(g) == g = [n \in 0 .. Pools |-> IF n = 0 THEN {start} ELSE {Visit(s) : s \in g[n - 1]}]
<1>1. /\ 0 \in Int /\ Pools \in Int /\ 0 <= Pools /\ 0 \in 0 .. Pools /\ Pools \in 0 .. Pools
      /\ \A n \in 0 + 1 .. Pools : n \in 0 .. Pools /\ n - 1 \in 0 .. Pools /\ n # 0
  BY SelectAssumption
<1>2. {start} \in SUBSET A
  OBVIOUS
<1>3. ASSUME NEW n \in 0 .. Pools, NEW B \in SUBSET A
      PROVE  next[<<n, B>>] = {Visit(s) : s \in B} /\ next[<<n, B>>] \in SUBSET A
  <2>1. next[<<n, B>>] = {Visit(s) : s \in B}
    OBVIOUS
  <2>2. {Visit(s) : s \in B} \in SUBSET A
    OBVIOUS
  <2> QED
    BY <2>1, <2>2
<1> HIDE DEF next
<1>4. \E g : Loop(g)
  <2>1. PICK g : Recurs(g, 0, Pools, {start}, next)
    BY <1>1, RecursionExists
  <2>2. \A n \in 0 .. Pools : g[n] = IF n = 0 THEN {start} ELSE next[<<n, g[n - 1]>>]
    BY <2>1 DEF Recurs
  <2> DEFINE C == {n \in 0 .. Pools : g[n] \in SUBSET A}
  <2>3. 0 \in C
    BY <1>1, <1>2, <2>2
  <2>4. ASSUME NEW n \in 0 + 1 .. Pools, n - 1 \in C PROVE n \in C
    <3>1. g[n] = next[<<n, g[n - 1]>>] /\ g[n - 1] \in SUBSET A
      BY <1>1, <2>2, <2>4
    <3> QED
      BY <1>1, <1>3, <3>1
  <2>5. \A n \in 0 .. Pools : n \in C
    <3> HIDE DEF C
    <3> QED
      BY <1>1, <2>3, <2>4, IntervalInduction
  <2>6. ASSUME NEW n \in 0 .. Pools
        PROVE  g[n] = IF n = 0 THEN {start} ELSE {Visit(s) : s \in g[n - 1]}
    <3>1. CASE n = 0
      BY <2>2, <3>1
    <3>2. CASE n # 0
      <4>1. n \in 0 + 1 .. Pools
        BY <1>1, <3>2
      <4>2. n - 1 \in 0 .. Pools
        BY <1>1, <4>1
      <4>3. g[n - 1] \in SUBSET A
        BY <2>5, <4>2
      <4>4. next[<<n, g[n - 1]>>] = {Visit(s) : s \in g[n - 1]}
        BY <1>3, <4>3
      <4> QED
        BY <2>2, <3>2, <4>4
    <3> QED
      BY <3>1, <3>2
  <2>7. g = [n \in 0 .. Pools |-> g[n]]
    BY <2>1 DEF Recurs
  <2> QED
    BY <2>6, <2>7
<1> DEFINE turn == CHOOSE g : Loop(g)
<1>5. Loop(turn)
  <2> HIDE DEF Loop
  <2> QED
    BY <1>4
<1>6. Rotation(start) = turn[Pools]
  BY DEF Rotation
<1> HIDE DEF turn
<1> DEFINE C == {n \in 0 .. Pools : turn[n] \in SUBSET A}
<1>7. 0 \in C
  BY <1>1, <1>2, <1>5
<1>8. ASSUME NEW n \in 0 + 1 .. Pools, n - 1 \in C PROVE n \in C
  <2>1. turn[n] = {Visit(s) : s \in turn[n - 1]} /\ turn[n - 1] \in SUBSET A
    BY <1>1, <1>5, <1>8
  <2>2. {Visit(s) : s \in turn[n - 1]} \in SUBSET A
    BY <2>1
  <2> QED
    BY <1>1, <1>8, <2>1, <2>2
<1>9. \A n \in 0 .. Pools : n \in C
  <2> HIDE DEF C
  <2> QED
    BY <1>1, <1>7, <1>8, IntervalInduction
<1> QED
  BY <1>1, <1>6, <1>9

(***************************************************************************)
(* The inductive invariant.                                                *)
(***************************************************************************)
SelectTypes ==
  /\ strategy \in Strategies /\ failOnly \in BOOLEAN
  /\ quota \in [PoolNo -> Nat] /\ quotaGcd \in [PoolNo -> Nat] /\ globalGcd \in Nat \ {0}
  /\ quotaUsed \in [PoolNo -> Int] /\ given \in [PoolNo -> Int] /\ shares \in [PoolNo -> Nat]
  /\ rotating \in PoolNo /\ cp \in PoolNo /\ chosen \in PoolNo
  /\ workable \in SUBSET PoolNo /\ steady \in SUBSET workable

(* A pool has got as many works as are counted, until it has used up its   *)
(* quota; from then on its turns are counted and it gets nothing.          *)
Settled(got, used, share) == (used <= share => got = used) /\ (used >= share => got = share)

(* Of a pool that has been workable since the quotas were given out; the   *)
(* first one gets the rest of the others if opt_fail_only is set.          *)
GivenByQuota ==
  \A p \in steady : (failOnly /\ p = 0) \/ Settled(given[p], quotaUsed[p], quotaGcd[p])

SelectInv == SelectTypes /\ GivenByQuota /\ BalanceIsEven

LEMMA SelectInitInv ==
  ASSUME SelectInit
  PROVE  SelectInv
<1>1. Pools \in Nat \ {0} /\ 0 \in PoolNo
  BY SelectAssumption DEF PoolNo
<1>2. quota \in [PoolNo -> Nat]
  BY SelectAssumption DEF SelectInit, PoolNo
<1>3. globalGcd \in Nat \ {0} /\ quotaGcd \in [PoolNo -> Nat]
  BY <1>2, QuotaGcdType, AdjustedType DEF SelectInit
<1>4. SelectTypes
  BY <1>1, <1>2, <1>3, SelectAssumption DEF SelectInit, SelectTypes
<1>5. GivenByQuota
  BY <1>3 DEF SelectInit, GivenByQuota, Settled
<1>6. BalanceIsEven
  BY DEF SelectInit, BalanceIsEven
<1> QED
  BY <1>4, <1>5, <1>6 DEF SelectInv

LEMMA SetQuotaStep ==
  ASSUME SelectInv, SetQuota
  PROVE  SelectInv'
<1>1. quota' \in [PoolNo -> Nat]
  BY SelectAssumption DEF SelectInv, SelectTypes, SetQuota
<1>2. globalGcd' \in Nat \ {0} /\ quotaGcd' \in [PoolNo -> Nat]
  BY <1>1, QuotaGcdType, AdjustedType DEF SetQuota
<1>3. ASSUME NEW p \in PoolNo PROVE Rescale(quotaUsed[p], globalGcd, globalGcd') \in Int
  BY <1>2, RescaleType DEF SelectInv, SelectTypes
<1>4. quotaUsed' \in [PoolNo -> Int]
  BY <1>3 DEF SetQuota
<1>5. SelectTypes'
  BY <1>1, <1>2, <1>4 DEF SelectInv, SelectTypes, SetQuota
<1> QED
  BY <1>5 DEF SelectInv, SetQuota, GivenByQuota, BalanceIsEven

LEMMA DiscardWorkStep ==
  ASSUME SelectInv, NEW p \in PoolNo, DiscardWork(p)
  PROVE  SelectInv'
<1>1. SelectTypes'
  BY DEF SelectInv, SelectTypes, DiscardWork, quotaVars
<1>2. GivenByQuota'
  BY DEF SelectInv, SelectTypes, DiscardWork, quotaVars, GivenByQuota, Settled
<1>3. BalanceIsEven'
  BY DEF SelectInv, DiscardWork, BalanceIsEven
<1> QED
  BY <1>1, <1>2, <1>3 DEF SelectInv

LEMMA PoolStopsStep ==
  ASSUME SelectInv, NEW p \in PoolNo, PoolStops(p)
  PROVE  SelectInv'
<1>1. SelectTypes'
  BY DEF SelectInv, SelectTypes, PoolStops, quotaVars, useVars
<1>2. GivenByQuota'
  BY DEF SelectInv, PoolStops, quotaVars, useVars, GivenByQuota, Settled
<1>3. BalanceIsEven'
  BY DEF SelectInv, PoolStops, useVars, BalanceIsEven
<1> QED
  BY <1>1, <1>2, <1>3 DEF SelectInv

LEMMA PoolStartsStep ==
  ASSUME SelectInv, NEW p \in PoolNo, PoolStarts(p)
  PROVE  SelectInv'
<1>1. SelectTypes'
  BY DEF SelectInv, SelectTypes, PoolStarts, quotaVars, useVars, historyVars
<1>2. GivenByQuota'
  BY DEF SelectInv, PoolStarts, quotaVars, useVars, historyVars, GivenByQuota, Settled
<1>3. BalanceIsEven'
  BY DEF SelectInv, PoolStarts, useVars, historyVars, BalanceIsEven
<1> QED
  BY <1>1, <1>2, <1>3 DEF SelectInv

LEMMA SwitchToStep ==
  ASSUME SelectInv, NEW p \in PoolNo, SwitchTo(p)
  PROVE  SelectInv'
<1>1. SelectTypes'
  BY DEF SelectInv, SelectTypes, SwitchTo, quotaVars, useVars, historyVars
<1>2. GivenByQuota'
  BY DEF SelectInv, SwitchTo, quotaVars, useVars, historyVars, GivenByQuota, Settled
<1>3. BalanceIsEven'
  BY DEF SelectInv, SwitchTo, useVars, historyVars, BalanceIsEven
<1> QED
  BY <1>1, <1>2, <1>3 DEF SelectInv

LEMMA RollingSharesStep ==
  ASSUME SelectInv, RollingShares
  PROVE  SelectInv'
<1>1. shares' \in [PoolNo -> Nat]
  <2>1. MaxShares \in Nat
    BY SelectBounds
  <2>2. PICK n \in 0 .. MaxShares : shares' = [shares EXCEPT ![0] = n]
    BY DEF RollingShares
  <2>3. n \in Nat /\ shares \in [PoolNo -> Nat]
    BY <2>1 DEF SelectInv, SelectTypes
  <2> QED
    BY <2>2, <2>3
<1>2. SelectTypes'
  BY <1>1 DEF SelectInv, SelectTypes, RollingShares, quotaVars
<1> QED
  BY <1>2 DEF SelectInv, RollingShares, GivenByQuota, BalanceIsEven

(* The pool with the fewest shares gets the work: it had no more than any  *)
(* other pool that works.                                                  *)
LEMMA BalanceStep ==
  ASSUME SelectInv, Balance
  PROVE  SelectInv'
<1> DEFINE Pool == workable \cup {cp}
<1>1. /\ shares \in [PoolNo -> Nat] /\ Pool \in SUBSET PoolNo /\ Pool # {} /\ steady \in SUBSET Pool
      /\ PoolNo \in SUBSET Nat
  BY SelectAssumption DEF SelectInv, SelectTypes, PoolNo
<1>2. Lowest # {}
  <2> DEFINE T == {shares[p] : p \in Pool}
  <2>1. T \in SUBSET Nat /\ T # {}
    BY <1>1
  <2>2. PICK x \in T : \A y \in T : x <= y
    <3> HIDE DEF T
    <3> QED
      BY <2>1, LeastNat
  <2>3. PICK p \in Pool : shares[p] = x
    BY <2>2
  <2>4. \A o \in Pool : shares[p] <= shares[o]
    BY <2>2, <2>3
  <2> QED
    BY <2>3, <2>4 DEF Lowest
<1>3. Lowest \in SUBSET Pool /\ Lowest \in SUBSET Nat
  BY <1>1 DEF Lowest
<1>4. \E p \in Lowest : \A o \in Lowest : p <= o
  BY <1>2, <1>3, LeastNat
<1>5. (CHOOSE p \in Lowest : \A o \in Lowest : p <= o) \in Lowest
  BY <1>4
<1>6. PICK c \in Lowest : chosen' = c
  BY <1>5 DEF Balance
<1>7. c \in PoolNo /\ \A o \in steady : shares[c] <= shares[o]
  BY <1>1, <1>6 DEF Lowest
<1>8. shares' = [shares EXCEPT ![c] = @ + 1]
  BY <1>6 DEF Balance
<1>9. shares' \in [PoolNo -> Nat]
  BY <1>1, <1>7, <1>8
<1>10. SelectTypes'
  BY <1>6, <1>7, <1>9 DEF SelectInv, SelectTypes, Balance, quotaVars, historyVars
<1>11. GivenByQuota'
  BY DEF SelectInv, Balance, quotaVars, historyVars, GivenByQuota, Settled
<1>12. BalanceIsEven'
  <2> SUFFICES ASSUME NEW p \in steady, NEW q \in steady PROVE shares'[p] <= shares'[q] + 1
    BY DEF Balance, historyVars, BalanceIsEven
  <2>1. shares[p] <= shares[q] + 1
    BY DEF SelectInv, Balance, BalanceIsEven
  <2>2. /\ shares[p] \in Nat /\ shares[q] \in Nat /\ shares[c] \in Nat
        /\ shares'[p] = IF p = c THEN shares[p] + 1 ELSE shares[p]
        /\ shares'[q] = IF q = c THEN shares[q] + 1 ELSE shares[q]
    BY <1>1, <1>7, <1>8
  <2>3. shares[c] <= shares[q]
    BY <1>7
  <2> QED
    BY <2>1, <2>2, <2>3
<1> QED
  BY <1>10, <1>11, <1>12 DEF SelectInv

(* The loop of select_pool, after some turns: with what the pools had got  *)
(* before it, and the pools that have been workable since the quotas were  *)
(* given out.                                                              *)
Got(before, s, p) == IF s.found /\ p = s.rot THEN Plus1(before[p], MaxUsed) ELSE before[p]
Counted(before, round, s) ==
  \A p \in round : (failOnly /\ p = 0) \/ Settled(Got(before, s, p), s.used[p], quotaGcd[p])

LEMMA VisitCounts ==
  ASSUME SelectTypes, NEW before \in [PoolNo -> Int], NEW round \in SUBSET workable,
         NEW s \in Turns, Counted(before, round, s)
  PROVE  Counted(before, round, Visit(s))
<1> DEFINE v == Visit(s)
           p == s.rot
           left == s.used[p] < quotaGcd[p]
           used == [s.used EXCEPT ![p] = Plus1(@, MaxUsed)]
           rest == IF left /\ failOnly THEN [used EXCEPT ![0] = @ - 1] ELSE used
<1> SUFFICES ASSUME NEW o \in round, ~(failOnly /\ o = 0)
             PROVE  Settled(Got(before, v, o), v.used[o], quotaGcd[o])
  BY DEF Counted
<1>1. /\ p \in PoolNo /\ o \in PoolNo /\ 0 \in PoolNo /\ s.used \in [PoolNo -> Int] /\ s.found \in BOOLEAN
      /\ s.used[o] \in Int /\ before[o] \in Int /\ quotaGcd[o] \in Nat
      /\ MaxUsed \in Nat /\ failOnly \in BOOLEAN
  <2>1. 0 \in PoolNo
    BY SelectAssumption DEF PoolNo
  <2>2. MaxUsed \in Nat
    BY SelectBounds
  <2>3. o \in PoolNo /\ quotaGcd \in [PoolNo -> Nat] /\ failOnly \in BOOLEAN
    BY DEF SelectTypes
  <2>4. p \in PoolNo /\ s.used \in [PoolNo -> Int] /\ s.found \in BOOLEAN
    BY DEF Turns
  <2> QED
    BY <2>1, <2>2, <2>3, <2>4
<1>2. Settled(Got(before, s, o), s.used[o], quotaGcd[o])
  BY DEF Counted
<1>3. CASE s.found
  <2>1. v = s
    BY <1>3 DEF Visit
  <2> QED
    BY <1>2, <2>1
<1>4. CASE ~s.found /\ left /\ p \in workable
  <2>1. v = [s EXCEPT !.found = TRUE, !.used = used]
    BY <1>4 DEF Visit
  <2>2. v.found = TRUE /\ v.rot = p /\ v.used = used
    BY <2>1 DEF Turns
  <2>3. CASE o = p
    <3>1. before[o] = s.used[o] /\ s.used[o] < quotaGcd[o]
      BY <1>1, <1>2, <1>4, <2>3 DEF Settled, Got
    <3>2. v.used[o] = Plus1(s.used[o], MaxUsed)
      BY <1>1, <2>2, <2>3
    <3>3. Got(before, v, o) = Plus1(before[o], MaxUsed)
      BY <2>2, <2>3 DEF Got
    <3> QED
      BY <1>1, <3>1, <3>2, <3>3 DEF Settled, Plus1
  <2>4. CASE o # p
    <3>1. v.used[o] = s.used[o]
      BY <1>1, <2>2, <2>4
    <3>2. Got(before, v, o) = Got(before, s, o)
      BY <1>4, <2>2, <2>4 DEF Got
    <3> QED
      BY <1>2, <3>1, <3>2
  <2> QED
    BY <2>3, <2>4
<1>5. CASE ~s.found /\ ~(left /\ p \in workable)
  <2>1. v = [found |-> FALSE, rot |-> Following(p), used |-> rest]
    BY <1>5 DEF Visit
  <2>2. v.found = FALSE /\ v.used = rest
    BY <2>1
  <2>3. Got(before, v, o) = before[o] /\ Got(before, s, o) = before[o]
    BY <1>5, <2>2 DEF Got
  <2>4. CASE o = p
    <3>1. ~left
      BY <1>5, <2>4
    <3>2. v.used[o] = Plus1(s.used[o], MaxUsed)
      BY <1>1, <2>2, <2>4, <3>1
    <3>3. Plus1(s.used[o], MaxUsed) \in Int /\ Plus1(s.used[o], MaxUsed) >= s.used[o]
      BY <1>1, Plus1Type
    <3>4. s.used[o] >= quotaGcd[o]
      BY <1>1, <2>4, <3>1
    <3> QED
      BY <1>1, <1>2, <2>3, <3>2, <3>3, <3>4 DEF Settled
  <2>5. CASE o # p
    <3>1. used[o] = s.used[o] /\ used \in [PoolNo -> Int]
      BY <1>1, <2>5, Plus1Type
    <3>2. v.used[o] = s.used[o]
      BY <1>1, <2>2, <3>1
    <3> QED
      BY <1>2, <2>3, <3>2
  <2> QED
    BY <2>4, <2>5
<1> QED
  BY <1>3, <1>4, <1>5

LEMMA LoadBalanceStep ==
  ASSUME SelectInv, LoadBalance
  PROVE  SelectInv'
<1> DEFINE none == [p \in PoolNo |-> 0]
           used == IF Exhausted THEN none ELSE quotaUsed
           before == IF Exhausted THEN none ELSE given
           first == IF Exhausted THEN Following(rotating) ELSE rotating
           round == IF Exhausted THEN workable ELSE steady
           start == [found |-> FALSE, rot |-> first, used |-> used]
           A == {s \in Turns : Counted(before, round, s)}
<1>1. /\ SelectTypes /\ none \in [PoolNo -> Int]
      /\ used \in [PoolNo -> Int] /\ before \in [PoolNo -> Int]
      /\ first \in PoolNo /\ round \in SUBSET workable /\ workable \in SUBSET PoolNo
  BY FollowingType DEF SelectInv, SelectTypes
<1>2. PICK s \in Rotation(start) :
        /\ quotaUsed' = s.used /\ rotating' = s.rot
        /\ IF s.found THEN chosen' = s.rot ELSE chosen' \in Fallback
        /\ given' = IF s.found THEN [before EXCEPT ![s.rot] = Plus1(@, MaxUsed)] ELSE before
  BY DEF LoadBalance
<1>3. start \in A
  <2>1. start \in Turns
    BY <1>1 DEF Turns
  <2>2. ASSUME NEW p \in round, ~(failOnly /\ p = 0)
        PROVE  Settled(before[p], used[p], quotaGcd[p])
    <3>1. quotaGcd[p] \in Nat /\ p \in PoolNo
      BY <1>1 DEF SelectTypes
    <3>2. CASE Exhausted
      BY <3>1, <3>2 DEF Settled
    <3>3. CASE ~Exhausted
      BY <2>2, <3>3 DEF SelectInv, GivenByQuota
    <3> QED
      BY <3>2, <3>3
  <2>3. ASSUME NEW p \in round PROVE Got(before, start, p) = before[p] /\ start.used = used
    BY DEF Got
  <2> HIDE DEF start, before, used, round
  <2>4. Counted(before, round, start)
    BY <2>2, <2>3 DEF Counted
  <2> QED
    BY <2>1, <2>4
<1>4. ASSUME NEW t \in A PROVE Visit(t) \in A
  BY <1>1, <1>4, VisitType, VisitCounts
<1>5. s \in Turns /\ Counted(before, round, s)
  <2>1. \A t \in Rotation(start) : t \in A
    <3> HIDE DEF A, start
    <3> QED
      BY <1>3, <1>4, RotationKeeps
  <2> QED
    BY <1>2, <2>1
<1>6. steady' = round /\ UNCHANGED <<strategy, failOnly, quota, quotaGcd, globalGcd, shares, cp, workable>>
  BY DEF LoadBalance, quotaVars
<1> HIDE DEF used, before, first, round, start
<1>7. s.found \in BOOLEAN /\ s.rot \in PoolNo /\ s.used \in [PoolNo -> Int]
  BY <1>5 DEF Turns
<1>8. given' \in [PoolNo -> Int] /\ \A p \in PoolNo : given'[p] = Got(before, s, p)
  BY <1>1, <1>2, <1>7, Plus1Type DEF Got
<1>9. chosen' \in PoolNo
  BY <1>2, <1>7 DEF Fallback
<1>10. SelectTypes'
  BY <1>1, <1>2, <1>6, <1>7, <1>8, <1>9 DEF SelectTypes
<1>11. GivenByQuota'
  BY <1>1, <1>2, <1>5, <1>6, <1>8 DEF GivenByQuota, Counted
<1>12. BalanceIsEven'
  BY <1>6 DEF LoadBalance, BalanceIsEven
<1> QED
  BY <1>10, <1>11, <1>12 DEF SelectInv

LEMMA SelectInvInductive ==
  ASSUME SelectInv, [SelectNext]_selectVars
  PROVE  SelectInv'
<1>1. CASE SelectNext
  BY <1>1, LoadBalanceStep, BalanceStep, SetQuotaStep, RollingSharesStep, DiscardWorkStep,
     PoolStopsStep, PoolStartsStep, SwitchToStep DEF SelectNext, SelectPool
<1>2. CASE UNCHANGED selectVars
  <2>1. UNCHANGED <<strategy, failOnly, quota, quotaGcd, globalGcd, quotaUsed, rotating, shares, chosen,
                    cp, workable, given, steady>>
    BY <1>2 DEF selectVars, quotaVars, useVars, historyVars
  <2> QED
    BY <2>1 DEF SelectInv, SelectTypes, GivenByQuota, Settled, BalanceIsEven
<1> QED
  BY <1>1, <1>2

LEMMA SelectInvariant == SelectSpec => []SelectInv
BY SelectInitInv, SelectInvInductive, PTL DEF SelectSpec

(* With the balance strategy the pools that work all the time share the    *)
(* work evenly, to one work: the pool select_balanced takes has no more    *)
(* shares than any other workable one.                                     *)
THEOREM WorkIsBalanced == SelectSpec => []BalanceIsEven
<1>1. SelectInv => BalanceIsEven
  BY DEF SelectInv
<1> QED
  BY <1>1, SelectInvariant, PTL

(* The rotation of select_pool divides the work exactly: when the quotas   *)
(* are given out again, every pool that could work all the time has got    *)
(* its quota, neither more nor less, however many pools there are,         *)
(* whatever the quotas are and wherever the rotation stood.                *)
THEOREM RotationIsExact == SelectSpec => RoundIsExact
<1>1. ASSUME SelectInv
      PROVE  LoadBalance /\ Exhausted =>
               \A p \in steady : given[p] = quotaGcd[p] \/ (failOnly /\ p = 0)
  BY <1>1 DEF SelectInv, SelectTypes, GivenByQuota, Settled, Exhausted
<1> QED
  BY <1>1, SelectInvariant, PTL DEF RoundIsExact, SelectSpec
=============================================================================
