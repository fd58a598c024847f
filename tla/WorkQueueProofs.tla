-------------------------- MODULE WorkQueueProofs --------------------------
(***************************************************************************)
(* Proofs about WorkQueue, for any threads, pools and bounds: no thread    *)
(* sleeps on staged work, main and the mining threads never wait for each  *)
(* other, the counter of masters is never too low, and a change between    *)
(* local pools leaves at most one work of the last one.                    *)
(***************************************************************************)
EXTENDS WorkQueue, FiniteSetTheorems, TLAPS

(* Both are inductive together with the types of what they compare: a      *)
(* thread that falls asleep has found nothing staged and wakes main; main  *)
(* falls asleep when more than max_staged works, so at least one, are      *)
(* staged, and then no thread sleeps.                                      *)
ControlOK ==
  /\ tpc \in [Miner -> {"pop", "asleep", "woken", "busy"}]
  /\ max \in Nat /\ queue \in Nat

IInv == ControlOK /\ NobodySleepsOnWork /\ SchedulerHearsMiners

(* Of no work no part is left but none. *)
LEMMA EmptyStaysEmpty ==
  ASSUME staged = EmptyBag
  PROVE  /\ \A S : Staged(S) = EmptyBag
         /\ BagToSet(staged) = {}
         /\ Size = 0
<1>1. (\A S : Staged(S) = EmptyBag) /\ BagToSet(staged) = {}
  BY DEF EmptyBag, SetToBag, BagToSet, Staged
<1>2. Size = 0
  BY DEF Size, BagCardinality, EmptyBag, SetToBag
<1> QED
  BY <1>1, <1>2

LEMMA AgedEmpty ==
  ASSUME staged = EmptyBag, NEW S, Age(S)
  PROVE  staged' = EmptyBag
BY DEF Age, Staged, EmptyBag, SetToBag, BagToSet, BagOfAll, (+)

(* A step that puts nobody to sleep, and stages nothing where there was    *)
(* nothing.                                                                *)
QuietStep ==
  /\ \A t \in Miner : tpc'[t] = "asleep" => tpc[t] = "asleep"
  /\ mpc' = "asleep" => mpc = "asleep"
  /\ staged = EmptyBag => staged' = EmptyBag

LEMMA QuietStepKeeps == IInv /\ ControlOK' /\ QuietStep => IInv'
BY DEF IInv, QuietStep, NobodySleepsOnWork, SchedulerHearsMiners, Asleep

(* hash_push may stage what it likes: it wakes every sleeper. *)
LEMMA PushKeeps ==
  ASSUME ControlOK, NEW w, HashPush(w), UNCHANGED <<max, queue>>
  PROVE  IInv'
<1>1. Asleep' = {} /\ tpc' \in [Miner -> {"pop", "asleep", "woken", "busy"}]
  BY DEF HashPush, Woken, Asleep, ControlOK
<1> QED
  BY <1>1 DEF IInv, ControlOK, NobodySleepsOnWork, SchedulerHearsMiners

(* The steps by which main and the threads wait for each other, and the    *)
(* steps of everybody else, keep the invariant.                            *)
LEMMA StepKeepsIInv == IInv /\ [Next]_vars => IInv'
<1> SUFFICES ASSUME IInv, [Next]_vars PROVE IInv'
  OBVIOUS
<1> USE DEF tableVars, poolVars, mainVars, lpVars, boundVars, GwsSignal
<1>1. ASSUME NEW t \in Miner, Sleep(t) PROVE IInv'
  BY <1>1 DEF Sleep, IInv, ControlOK, NobodySleepsOnWork, SchedulerHearsMiners, Asleep
<1>2. ASSUME NEW t \in Miner, Timeout(t) PROVE IInv'
  <2>1. ControlOK' /\ QuietStep
    BY <1>2 DEF Timeout, IInv, ControlOK, QuietStep
  <2> QED
    BY <2>1, QuietStepKeeps
<1>3. ASSUME NEW t \in Miner, Pop(t) PROVE IInv'
  <2>1. ControlOK' /\ QuietStep
    BY <1>3 DEF Pop, Woken, IInv, ControlOK, QuietStep
  <2> QED
    BY <2>1, QuietStepKeeps
<1>4. ASSUME NEW t \in Miner, Finish(t) PROVE IInv'
  <2>1. ControlOK' /\ QuietStep
    BY <1>4 DEF Finish, IInv, ControlOK, QuietStep
  <2> QED
    BY <2>1, QuietStepKeeps
<1>5. CASE Limit
  <2>1. Cardinality(Miner) \in Nat
    BY WorkAssumption, FS_CardinalityType
  <2>2. ControlOK' /\ QuietStep
    BY <1>5, <2>1 DEF Limit, IInv, ControlOK, QuietStep
  <2> QED
    BY <2>2, QuietStepKeeps
<1>6. CASE Test
  <2>1. ControlOK'
    BY <1>6 DEF Test, IInv, ControlOK
  <2>2. CASE Size > max
    <3>1. staged # EmptyBag
      BY <2>2, EmptyStaysEmpty DEF IInv, ControlOK
    <3> QED
      BY <1>6, <2>1, <3>1 DEF Test, IInv, NobodySleepsOnWork, SchedulerHearsMiners, Asleep
  <2>3. CASE ~(Size > max)
    <3>1. QuietStep
      BY <1>6, <2>3 DEF Test, QuietStep
    <3> QED
      BY <2>1, <3>1, QuietStepKeeps
  <2> QED
    BY <2>2, <2>3
<1>7. CASE MainTimeout \/ Woke \/ Select \/ Generate \/ CloneAvailable \/ GetUpstream \/ Reselect
  <2>1. ControlOK'
    BY <1>7 DEF MainTimeout, Woke, Select, Generate, CloneAvailable, GetUpstream, Reselect,
                IInv, ControlOK
  <2>2. QuietStep
    BY <1>7 DEF MainTimeout, Woke, Select, Generate, CloneAvailable, GetUpstream, Reselect,
                QuietStep
  <2> QED
    BY <2>1, <2>2, QuietStepKeeps
<1>8. CASE Drop
  <2>1. ControlOK' /\ QuietStep
    BY <1>8 DEF Drop, Woken, IInv, ControlOK, QuietStep
  <2> QED
    BY <2>1, QuietStepKeeps
<1>9. CASE Stage
  BY <1>9, PushKeeps DEF Stage, IInv
<1>10. CASE LongPoll
  <2>1. ControlOK' /\ QuietStep
    BY <1>10 DEF LongPoll, IInv, ControlOK, QuietStep
  <2> QED
    BY <2>1, QuietStepKeeps
<1>11. CASE LPClone \/ LPStage \/ PoolTest
  BY <1>11, PushKeeps DEF LPClone, LPStage, PoolTest, IInv
<1>12. CASE LPLast
  <2>1. CASE cloned
    BY <1>12, <2>1, PushKeeps DEF LPLast, IInv
  <2>2. CASE ~cloned
    <3>1. ControlOK' /\ QuietStep
      BY <1>12, <2>2 DEF LPLast, IInv, ControlOK, QuietStep
    <3> QED
      BY <3>1, QuietStepKeeps
  <2> QED
    BY <2>1, <2>2
<1>13. ASSUME NEW p \in Pool, SwitchPools(p) \/ Clear(p) \/ Disconnect(p) \/ Resume(p) PROVE IInv'
  <2>1. ControlOK'
    BY <1>13 DEF SwitchPools, Clear, Disconnect, Resume, IInv, ControlOK
  <2>2. QuietStep
    BY <1>13, EmptyStaysEmpty
    DEF SwitchPools, Clear, Disconnect, Resume, ClearPoolWork, QuietStep
  <2> QED
    BY <2>1, <2>2, QuietStepKeeps
<1>14. CASE GetStale
  <2>1. ControlOK'
    BY <1>14 DEF GetStale, IInv, ControlOK
  <2>2. staged = EmptyBag => staged' = EmptyBag
    BY <1>14, EmptyStaysEmpty, AgedEmpty DEF GetStale
  <2>3. QuietStep
    BY <1>14, <2>2 DEF GetStale, QuietStep
  <2> QED
    BY <2>1, <2>3, QuietStepKeeps
<1>15. CASE DiscardStale
  <2>1. ControlOK' /\ QuietStep
    BY <1>15, EmptyStaysEmpty DEF DiscardStale, IInv, ControlOK, QuietStep
  <2> QED
    BY <2>1, QuietStepKeeps
<1>16. CASE UNCHANGED vars
  <2>1. ControlOK' /\ QuietStep
    BY <1>16 DEF vars, IInv, ControlOK, QuietStep
  <2> QED
    BY <2>1, QuietStepKeeps
<1> QED
  BY <1>1, <1>2, <1>3, <1>4, <1>5, <1>6, <1>7, <1>8, <1>9, <1>10, <1>11, <1>12, <1>13, <1>14,
     <1>15, <1>16
  DEF Next, MinerStep, MainStep

LEMMA IInvHolds == Spec => []IInv
<1>1. Init => IInv
  BY BoundAssumption
  DEF Init, IInv, ControlOK, NobodySleepsOnWork, SchedulerHearsMiners, Asleep
<1> QED
  BY <1>1, StepKeepsIInv, PTL DEF Spec

(* No mining thread sleeps in hash_pop while work is staged. *)
THEOREM WorkWakesMiners == Spec => []NobodySleepsOnWork
<1>1. IInv => NobodySleepsOnWork
  BY DEF IInv
<1> QED
  BY <1>1, IInvHolds, PTL

(* main never waits for room while a mining thread waits for work. *)
THEOREM MinersWakeMain == Spec => []SchedulerHearsMiners
<1>1. IInv => SchedulerHearsMiners
  BY DEF IInv
<1> QED
  BY <1>1, IInvHolds, PTL

----------------------------------------------------------------------------
(* How many works of a kind are staged.  Bags counts by recursion over the *)
(* elements, here it is shown to count tokens, so that the theorems about  *)
(* cardinalities apply: a step adds a token, removes one, or maps them.    *)

(* One token for every copy of every w in S. *)
Tokens(f, S) == UNION {{w} \X (1 .. f[w]) : w \in S}

(* The recursion by which the standard module Bags counts. *)
SumStep(f, S, g) ==
  LET elt == CHOOSE e \in S : TRUE
  IN  IF S = {} THEN 0 ELSE f[elt] + g[S \ {elt}]
Sums(f, g) == g = [S \in SUBSET DOMAIN f |-> SumStep(f, S, g)]

(* A work has as many tokens as copies, so finitely many works have        *)
(* finitely many, and the tokens of two works are different.               *)
LEMMA CopiesOfOne ==
  ASSUME NEW w, NEW k \in Nat
  PROVE  IsFiniteSet({w} \X (1 .. k)) /\ Cardinality({w} \X (1 .. k)) = k
<1>1. IsFiniteSet(1 .. k) /\ Cardinality(1 .. k) = k
  BY FS_Interval
<1> DEFINE copy == [i \in 1 .. k |-> <<w, i>>]
<1>2. copy \in Bijection(1 .. k, {w} \X (1 .. k))
  <2>1. copy \in [1 .. k -> {w} \X (1 .. k)] /\ IsInjective(copy)
    BY DEF IsInjective
  <2>2. \A c \in {w} \X (1 .. k) : \E i \in 1 .. k : copy[i] = c
    OBVIOUS
  <2> QED
    BY <2>1, <2>2 DEF Bijection, Injection, Surjection
<1> QED
  BY <1>1, <1>2, FS_Bijection DEF ExistsBijection

LEMMA TokensFinite ==
  ASSUME NEW f, NEW S, IsFiniteSet(S), \A w \in S : f[w] \in Nat
  PROVE  IsFiniteSet(Tokens(f, S))
<1> DEFINE tok == [w \in S |-> {w} \X (1 .. f[w])]
           T == {{w} \X (1 .. f[w]) : w \in S}
<1>1. tok \in Surjection(S, T)
  BY DEF Surjection
<1>2. IsFiniteSet(T)
  BY <1>1, FS_Surjection
<1>3. ASSUME NEW w \in S PROVE IsFiniteSet({w} \X (1 .. f[w]))
  BY CopiesOfOne
<1> QED
  BY <1>2, <1>3, FS_UNION DEF Tokens

LEMMA TokensStep ==
  ASSUME NEW f, NEW S, IsFiniteSet(S), \A w \in S : f[w] \in Nat, NEW e \in S
  PROVE  Cardinality(Tokens(f, S)) = f[e] + Cardinality(Tokens(f, S \ {e}))
<1> DEFINE A == {e} \X (1 .. f[e])
           B == Tokens(f, S \ {e})
<1>1. Tokens(f, S) = A \cup B
  BY DEF Tokens
<1>2. A \cap B = {}
  BY DEF Tokens
<1>3. IsFiniteSet(A) /\ Cardinality(A) = f[e]
  BY CopiesOfOne
<1>4. IsFiniteSet(B)
  <2>1. IsFiniteSet(S \ {e})
    BY FS_RemoveElement
  <2> QED
    BY <2>1, TokensFinite
<1> HIDE DEF A, B
<1>5. Cardinality(A \cup B) = Cardinality(A) + Cardinality(B) - Cardinality(A \cap B)
  BY <1>3, <1>4, FS_Union
<1>6. Cardinality(A \cap B) = 0 /\ Cardinality(B) \in Nat
  BY <1>2, <1>4, FS_EmptySet, FS_CardinalityType
<1> QED
  BY <1>1, <1>3, <1>5, <1>6 DEF B

(* There is such a function, and on finite sets it counts the tokens: the  *)
(* smallest set where it did not would be one element larger than a set    *)
(* where it does.                                                          *)
LEMMA SumIsTokens ==
  ASSUME NEW f, IsFiniteSet(DOMAIN f), \A w \in DOMAIN f : f[w] \in Nat
  PROVE  BagCardinality(f) = Cardinality(Tokens(f, DOMAIN f))
<1> DEFINE D == DOMAIN f
           card == [S \in SUBSET D |-> Cardinality(Tokens(f, S))]
           h == CHOOSE g : Sums(f, g)
<1>0. ASSUME NEW S \in SUBSET D, S # {}
      PROVE  /\ (CHOOSE e \in S : TRUE) \in S
             /\ card[S] = f[CHOOSE e \in S : TRUE] + card[S \ {CHOOSE e \in S : TRUE}]
  <2> DEFINE e == CHOOSE e \in S : TRUE
  <2>1. e \in S /\ S \ {e} \in SUBSET D
    BY <1>0
  <2>2. IsFiniteSet(S)
    BY FS_Subset
  <2> HIDE DEF e
  <2>3. Cardinality(Tokens(f, S)) = f[e] + Cardinality(Tokens(f, S \ {e}))
    BY <2>1, <2>2, TokensStep
  <2>4. card[S] = f[e] + card[S \ {e}]
    BY <2>1, <2>3
  <2> QED
    BY <2>1, <2>4 DEF e
<1>1. card[{}] = 0
  BY FS_EmptySet DEF Tokens
<1>2. Sums(f, card)
  <2> SUFFICES ASSUME NEW S \in SUBSET D PROVE card[S] = SumStep(f, S, card)
    BY DEF Sums
  <2> HIDE DEF card
  <2> QED
    BY <1>0, <1>1 DEF SumStep
<1>3. Sums(f, h)
  BY <1>2
<1> HIDE DEF h, card
<1>4. \A S \in SUBSET D : h[S] = SumStep(f, S, h)
  BY <1>3 DEF Sums
<1>5. \A S \in SUBSET D : h[S] = card[S]
  <2> DEFINE Bad == {S \in SUBSET D : h[S] # card[S]}
             R == StrictSubsetOrdering(D)
  <2>1. SUFFICES ASSUME Bad # {} PROVE FALSE
    OBVIOUS
  <2>2. IsWellFoundedOn(R, SUBSET D)
    BY FS_StrictSubsetOrderingWellFounded, FS_FiniteSubsetsOfFinite
  <2> HIDE DEF R
  <2>3. PICK S \in Bad : \A T \in Bad : <<T, S>> \notin R
    BY <2>1, <2>2, WFMin
  <2> DEFINE e == CHOOSE e \in S : TRUE
  <2>4. CASE S = {}
    BY <1>1, <1>4, <2>3, <2>4 DEF SumStep
  <2>5. CASE S # {}
    <3>1. e \in S /\ card[S] = f[e] + card[S \ {e}] /\ h[S] = f[e] + h[S \ {e}]
      BY <1>0, <1>4, <2>3, <2>5 DEF SumStep
    <3> HIDE DEF e
    <3>2. S \ {e} \in SUBSET D /\ <<S \ {e}, S>> \in R
      BY <3>1 DEF R, StrictSubsetOrdering
    <3>3. h[S \ {e}] = card[S \ {e}]
      BY <2>3, <3>2
    <3> QED
      BY <2>3, <3>1, <3>3
  <2> QED
    BY <2>4, <2>5
<1>6. BagCardinality(f) = h[D]
  BY DEF BagCardinality, Sums, SumStep, h
<1> QED
  BY <1>5, <1>6 DEF card

(* A bag of finitely many works, and how many of them are in S. *)
FiniteBag(B) == IsABag(B) /\ IsFiniteSet(DOMAIN B)
Part(B, S) == [w \in DOMAIN B \cap S |-> B[w]]
Copies(B, S) == Tokens(B, DOMAIN B \cap S)
Count(B, S) == Cardinality(Copies(B, S))

LEMMA CountType ==
  ASSUME NEW B, FiniteBag(B), NEW S
  PROVE  /\ IsFiniteSet(Copies(B, S)) /\ Count(B, S) \in Nat
         /\ BagCardinality(Part(B, S)) = Count(B, S)
<1>1. IsFiniteSet(DOMAIN B \cap S) /\ \A w \in DOMAIN B \cap S : B[w] \in Nat
  BY FS_Intersection DEF FiniteBag, IsABag
<1>2. IsFiniteSet(Copies(B, S))
  BY <1>1, TokensFinite DEF Copies
<1>3. BagCardinality(Part(B, S)) = Cardinality(Tokens(Part(B, S), DOMAIN B \cap S))
  <2>1. DOMAIN Part(B, S) = DOMAIN B \cap S /\ \A w \in DOMAIN B \cap S : Part(B, S)[w] = B[w]
    BY DEF Part
  <2> QED
    BY <1>1, <2>1, SumIsTokens
<1>4. Tokens(Part(B, S), DOMAIN B \cap S) = Copies(B, S)
  BY DEF Tokens, Part, Copies
<1> QED
  BY <1>2, <1>3, <1>4, FS_CardinalityType DEF Count

LEMMA IsToken ==
  ASSUME NEW f, NEW S, NEW x
  PROVE  x \in Tokens(f, S) <=> \E w \in S : \E i \in 1 .. f[w] : x = <<w, i>>
BY DEF Tokens

(* What is counted in a part is counted in the whole. *)
LEMMA CountPart ==
  ASSUME NEW B, FiniteBag(B), NEW S, NEW T
  PROVE  /\ FiniteBag(Part(B, T))
         /\ Count(Part(B, T), S) = Count(B, S \cap T)
         /\ Count(B, S \cap T) <= Count(B, S)
<1>1. FiniteBag(Part(B, T))
  BY FS_Intersection DEF FiniteBag, IsABag, Part
<1>2. Copies(Part(B, T), S) = Copies(B, S \cap T)
  <2>1. /\ DOMAIN Part(B, T) \cap S = DOMAIN B \cap (S \cap T)
        /\ \A w \in DOMAIN B \cap (S \cap T) : Part(B, T)[w] = B[w]
    BY DEF Part
  <2> QED
    BY <2>1 DEF Copies, Tokens
<1>3. Copies(B, S \cap T) \in SUBSET Copies(B, S)
  BY DEF Copies, Tokens
<1> QED
  BY <1>1, <1>2, <1>3, CountType, FS_Subset DEF Count

(* One more copy, and one less; and one work for another of its kind. *)
LEMMA CountAdd ==
  ASSUME NEW B, FiniteBag(B), NEW w, NEW S
  PROVE  LET C == B (+) SetToBag({w})
         IN  /\ FiniteBag(C) /\ DOMAIN C = DOMAIN B \cup {w}
             /\ Count(C, S) = IF w \in S THEN Count(B, S) + 1 ELSE Count(B, S)
<1> DEFINE C == B (+) SetToBag({w})
           k == IF w \in DOMAIN B THEN B[w] ELSE 0
<1>1. /\ DOMAIN C = DOMAIN B \cup {w} /\ C[w] = k + 1 /\ k \in Nat
      /\ \A v \in DOMAIN B \ {w} : C[v] = B[v]
      /\ \A v \in DOMAIN B : B[v] \in Nat /\ B[v] > 0
  BY DEF FiniteBag, IsABag, SetToBag, (+)
<1>2. FiniteBag(C)
  <2>1. IsFiniteSet(DOMAIN C)
    BY <1>1, FS_AddElement DEF FiniteBag
  <2>2. C = [v \in DOMAIN C |-> C[v]]
    BY DEF SetToBag, (+)
  <2> HIDE DEF C
  <2> QED
    BY <1>1, <2>1, <2>2 DEF FiniteBag, IsABag
<1> HIDE DEF C
<1>3. CASE w \notin S
  <2>1. Copies(C, S) = Copies(B, S)
    BY <1>1, <1>3 DEF Copies, Tokens
  <2> QED
    BY <1>1, <1>2, <1>3, <2>1 DEF Count, C
<1>4. CASE w \in S
  <2>1. <<w, k + 1>> \notin Copies(B, S)
    BY <1>1 DEF Copies, Tokens
  <2>2. Copies(C, S) = Copies(B, S) \cup {<<w, k + 1>>}
    <3>1. ASSUME NEW x PROVE x \in Copies(C, S) <=> x \in Copies(B, S) \/ x = <<w, k + 1>>
      <4>1. ASSUME NEW v, v # w, NEW i
            PROVE  <<v, i>> \in Copies(C, S) <=> <<v, i>> \in Copies(B, S)
        BY <1>1, <4>1 DEF Copies, Tokens
      <4>2. ASSUME NEW i
            PROVE  <<w, i>> \in Copies(C, S) <=> i \in 1 .. (k + 1)
        BY <1>1, <1>4 DEF Copies, Tokens
      <4>3. ASSUME NEW i
            PROVE  <<w, i>> \in Copies(B, S) <=> i \in 1 .. k
        BY <1>1, <1>4 DEF Copies, Tokens
      <4>4. (x \in Copies(C, S) \/ x \in Copies(B, S)) => \E v, i : x = <<v, i>>
        BY DEF Copies, Tokens
      <4>5. \A i : i \in 1 .. (k + 1) <=> i \in 1 .. k \/ i = k + 1
        BY <1>1
      <4> QED
        BY <4>1, <4>2, <4>3, <4>4, <4>5
    <3> QED
      BY <3>1
  <2>3. IsFiniteSet(Copies(B, S))
    BY CountType
  <2>4. Cardinality(Copies(B, S) \cup {<<w, k + 1>>}) = Cardinality(Copies(B, S)) + 1
    BY <2>1, <2>3, FS_AddElement
  <2>5. Count(C, S) = Count(B, S) + 1
    BY <2>2, <2>4 DEF Count
  <2> QED
    BY <1>1, <1>2, <1>4, <2>5 DEF C
<1> QED
  BY <1>3, <1>4

LEMMA CountTake ==
  ASSUME NEW B, FiniteBag(B), NEW w \in DOMAIN B, NEW S
  PROVE  LET C == B (-) SetToBag({w})
         IN  /\ FiniteBag(C) /\ DOMAIN C \subseteq DOMAIN B
             /\ Count(C, S) = IF w \in S THEN Count(B, S) - 1 ELSE Count(B, S)
<1> DEFINE C == B (-) SetToBag({w})
           k == B[w]
<1>1. /\ DOMAIN C = IF k = 1 THEN DOMAIN B \ {w} ELSE DOMAIN B
      /\ w \in DOMAIN C => C[w] = k - 1
      /\ \A v \in DOMAIN B \ {w} : C[v] = B[v]
      /\ \A v \in DOMAIN B : B[v] \in Nat /\ B[v] > 0
      /\ k \in Nat /\ k > 0
  <2>1. \A v \in DOMAIN B : B[v] \in Nat /\ B[v] > 0
    BY DEF FiniteBag, IsABag
  <2> QED
    BY <2>1 DEF SetToBag, (-)
<1>2. FiniteBag(C)
  <2>1. IsFiniteSet(DOMAIN C)
    BY <1>1, FS_RemoveElement DEF FiniteBag
  <2>2. C = [v \in DOMAIN C |-> C[v]]
    BY DEF SetToBag, (-)
  <2> HIDE DEF C
  <2> QED
    BY <1>1, <2>1, <2>2 DEF FiniteBag, IsABag
<1> HIDE DEF C
<1>3. CASE w \notin S
  <2>1. Copies(C, S) = Copies(B, S)
    BY <1>1, <1>3 DEF Copies, Tokens
  <2> QED
    BY <1>1, <1>2, <1>3, <2>1 DEF Count, C
<1>4. CASE w \in S
  <2>1. Copies(C, S) = Copies(B, S) \ {<<w, k>>} /\ <<w, k>> \in Copies(B, S)
    <3>1. ASSUME NEW x PROVE x \in Copies(C, S) <=> x \in Copies(B, S) /\ x # <<w, k>>
      <4>1. ASSUME NEW v, v # w, NEW i
            PROVE  <<v, i>> \in Copies(C, S) <=> <<v, i>> \in Copies(B, S)
        BY <1>1, <4>1 DEF Copies, Tokens
      <4>2. ASSUME NEW i
            PROVE  <<w, i>> \in Copies(C, S) <=> i \in 1 .. (k - 1)
        BY <1>1, <1>4 DEF Copies, Tokens
      <4>3. ASSUME NEW i
            PROVE  <<w, i>> \in Copies(B, S) <=> i \in 1 .. k
        BY <1>1, <1>4 DEF Copies, Tokens
      <4>4. (x \in Copies(C, S) \/ x \in Copies(B, S)) => \E v, i : x = <<v, i>>
        BY DEF Copies, Tokens
      <4>5. \A i : i \in 1 .. (k - 1) <=> i \in 1 .. k /\ i # k
        BY <1>1
      <4> QED
        BY <4>1, <4>2, <4>3, <4>4, <4>5
    <3>2. <<w, k>> \in Copies(B, S)
      BY <1>1, <1>4 DEF Copies, Tokens
    <3> QED
      BY <3>1, <3>2
  <2>2. IsFiniteSet(Copies(B, S))
    BY CountType
  <2>3. Cardinality(Copies(B, S) \ {<<w, k>>}) = Cardinality(Copies(B, S)) - 1
    BY <2>1, <2>2, FS_RemoveElement
  <2>4. Count(C, S) = Count(B, S) - 1
    BY <2>1, <2>3 DEF Count
  <2> QED
    BY <1>1, <1>2, <1>4, <2>4 DEF C
<1> QED
  BY <1>3, <1>4

LEMMA CountSwap ==
  ASSUME NEW B, FiniteBag(B), NEW w \in DOMAIN B, NEW v, NEW S, v \in S <=> w \in S
  PROVE  LET C == (B (-) SetToBag({w})) (+) SetToBag({v})
         IN  /\ FiniteBag(C) /\ DOMAIN C \subseteq DOMAIN B \cup {v}
             /\ Count(C, S) <= Count(B, S)
<1>1. PICK A : A = B (-) SetToBag({w})
  OBVIOUS
<1>2. /\ FiniteBag(A) /\ DOMAIN A \subseteq DOMAIN B
      /\ Count(A, S) = IF w \in S THEN Count(B, S) - 1 ELSE Count(B, S)
  BY <1>1, CountTake
<1>3. PICK C : C = A (+) SetToBag({v})
  OBVIOUS
<1>4. /\ FiniteBag(C) /\ DOMAIN C = DOMAIN A \cup {v}
      /\ Count(C, S) = IF v \in S THEN Count(A, S) + 1 ELSE Count(A, S)
  BY <1>2, <1>3, CountAdd
<1>5. Count(B, S) \in Nat
  BY CountType
<1>6. Count(C, S) <= Count(B, S)
  BY <1>2, <1>4, <1>5
<1> QED
  BY <1>1, <1>2, <1>3, <1>4, <1>6

(* How BagOfAll counts the works that become the same. *)
LEMMA AgedCounts ==
  ASSUME NEW B
  PROVE  BagOfAll(Aged, B) =
           [e \in {Aged(d) : d \in DOMAIN B} |->
              BagCardinality([d \in DOMAIN B |-> IF Aged(d) = e THEN B[d] ELSE 0])]
BY Zenon DEF BagOfAll, BagCardinality, BagToSet

(* Works that are counted together do not become more when some get stale, *)
(* though two of them may become the same element of the bag.              *)
LEMMA CountAge ==
  ASSUME NEW B, FiniteBag(B), DOMAIN B \subseteq Item, NEW S, NEW T,
         \A w \in Item : (Aged(w) \in S <=> w \in S) /\ (Aged(w) \in T => w \in T)
  PROVE  LET C == Part(B, Item \ S) (+) BagOfAll(Aged, Part(B, S))
         IN  /\ FiniteBag(C) /\ DOMAIN C \subseteq Item
             /\ Count(C, T) <= Count(B, T)
<1> DEFINE C == Part(B, Item \ S) (+) BagOfAll(Aged, Part(B, S))
           D == DOMAIN B \cap S
           Image == {Aged(d) : d \in D}
           pre(e) == [d \in D |-> IF Aged(d) = e THEN B[d] ELSE 0]
           Made(e) == Tokens(pre(e), D)
<1>1. /\ IsFiniteSet(D) /\ \A w \in DOMAIN B : B[w] \in Nat /\ B[w] > 0
      /\ D \subseteq Item /\ DOMAIN Part(B, S) = D /\ \A d \in D : Part(B, S)[d] = B[d]
  BY FS_Intersection DEF FiniteBag, IsABag, Part
<1>2. \A w \in Item : Aged(w) \in Item
  BY DEF Aged, Item
<1>3. IsFiniteSet(Image)
  <2> DEFINE f == [d \in D |-> Aged(d)]
  <2>1. f \in Surjection(D, Image)
    BY DEF Surjection
  <2> QED
    BY <1>1, <2>1, FS_Surjection
<1>4. ASSUME NEW e PROVE /\ BagCardinality(pre(e)) = Cardinality(Made(e))
                         /\ IsFiniteSet(Made(e))
  <2>1. DOMAIN pre(e) = D /\ \A d \in D : pre(e)[d] \in Nat
    BY <1>1
  <2> QED
    BY <1>1, <2>1, SumIsTokens, TokensFinite
<1>5. BagOfAll(Aged, Part(B, S)) = [e \in Image |-> Cardinality(Made(e))]
  <2>1. BagOfAll(Aged, Part(B, S)) = [e \in Image |-> BagCardinality(pre(e))]
    <3>1. \A e : pre(e) = [d \in DOMAIN Part(B, S) |-> IF Aged(d) = e THEN Part(B, S)[d] ELSE 0]
      BY <1>1
    <3>2. Image = {Aged(d) : d \in DOMAIN Part(B, S)}
      BY <1>1
    <3> DEFINE G == BagOfAll(Aged, Part(B, S))
               made(e) == [d \in DOMAIN Part(B, S) |-> IF Aged(d) = e THEN Part(B, S)[d] ELSE 0]
    <3>3. G = [e \in {Aged(d) : d \in DOMAIN Part(B, S)} |-> BagCardinality(made(e))]
      BY AgedCounts
    <3>4. \A e : made(e) = pre(e)
      BY <3>1
    <3> HIDE DEF pre, Image, made, G
    <3> QED
      BY <3>2, <3>3, <3>4 DEF G
  <2> QED
    BY <1>4, <2>1
<1>6. ASSUME NEW d \in D PROVE <<d, 1>> \in Made(Aged(d))
  <2>1. pre(Aged(d))[d] = B[d]
    OBVIOUS
  <2> QED
    BY <1>1, <2>1, IsToken
<1>7. ASSUME NEW e, NEW x \in Made(e)
      PROVE  \E d \in D : \E i \in 1 .. B[d] : x = <<d, i>> /\ Aged(d) = e
  <2>1. PICK d \in D : \E i \in 1 .. pre(e)[d] : x = <<d, i>>
    BY IsToken
  <2> QED
    BY <2>1
<1> HIDE DEF Made
<1>8. ASSUME NEW e \in Image PROVE Cardinality(Made(e)) \in Nat /\ Cardinality(Made(e)) > 0
  <2>1. Made(e) # {}
    BY <1>6
  <2> QED
    <3>1. IsFiniteSet(Made(e)) /\ Cardinality(Made(e)) # 0
      BY <1>4, <2>1, FS_EmptySet
    <3>2. Cardinality(Made(e)) \in Nat
      BY <3>1, FS_CardinalityType
    <3> QED
      BY <3>1, <3>2
<1>9. /\ DOMAIN C = (DOMAIN B \ S) \cup Image
      /\ (DOMAIN B \ S) \cap Image = {}
      /\ \A e \in DOMAIN B \ S : C[e] = B[e]
      /\ \A e \in Image : C[e] = Cardinality(Made(e))
      /\ C = [e \in DOMAIN C |-> C[e]]
  <2>1. DOMAIN Part(B, Item \ S) = DOMAIN B \ S
        /\ \A e \in DOMAIN B \ S : Part(B, Item \ S)[e] = B[e]
    BY DEF Part
  <2>2. Image \subseteq S
    BY <1>1
  <2> HIDE DEF Image
  <2> QED
    BY <1>1, <1>5, <1>8, <2>1, <2>2 DEF (+)
<1> HIDE DEF C
<1>10. FiniteBag(C) /\ DOMAIN C \subseteq Item
  <2>1. IsFiniteSet(DOMAIN B \ S)
    BY FS_Difference DEF FiniteBag
  <2>2. IsFiniteSet(DOMAIN C)
    <3>1. IsFiniteSet((DOMAIN B \ S) \cup Image)
      BY <1>3, <2>1, FS_Union
    <3> QED
      BY <1>9, <3>1
  <2>3. Image \subseteq Item
    BY <1>1, <1>2
  <2>4. \A e \in DOMAIN C : C[e] \in Nat /\ C[e] > 0
    BY <1>1, <1>8, <1>9
  <2> QED
    BY <1>9, <2>2, <2>3, <2>4 DEF FiniteBag, IsABag
<1>11. Count(C, T) <= Count(B, T)
  <2> DEFINE h == [e \in Image |-> CHOOSE g : g \in Bijection(1 .. C[e], Made(e))]
             old == [x \in Copies(C, T) |-> IF x[1] \in Image THEN h[x[1]][x[2]] ELSE x]
  <2>1. ASSUME NEW e \in Image PROVE h[e] \in Bijection(1 .. C[e], Made(e))
    <3>1. IsFiniteSet(Made(e)) /\ C[e] = Cardinality(Made(e))
      BY <1>4, <1>9
    <3>2. ExistsBijection(1 .. C[e], Made(e))
      BY <3>1, FS_CardinalityType
    <3>3. \E g : g \in Bijection(1 .. C[e], Made(e))
      BY <3>2 DEF ExistsBijection
    <3> QED
      BY <3>3
  <2>2. ASSUME NEW x \in Copies(C, T)
        PROVE  \E e \in DOMAIN C \cap T : \E i \in 1 .. C[e] : x = <<e, i>>
    BY IsToken DEF Copies
  <2> HIDE DEF h
  <2>3. ASSUME NEW x \in Copies(C, T), x[1] \in Image
        PROVE  /\ old[x] \in Copies(B, T)
               /\ old[x][1] \in D /\ Aged(old[x][1]) = x[1]
    <3>1. PICK e \in DOMAIN C \cap T : \E i \in 1 .. C[e] : x = <<e, i>>
      BY <2>2
    <3>2. PICK i \in 1 .. C[e] : x = <<e, i>>
      BY <3>1
    <3>3. e \in Image /\ old[x] = h[e][i]
      BY <2>3, <3>2
    <3>4. h[e][i] \in Made(e)
      BY <2>1, <3>3 DEF Bijection, Injection
    <3>5. PICK d \in D : \E j \in 1 .. B[d] : old[x] = <<d, j>> /\ Aged(d) = e
      BY <1>7, <3>3, <3>4
    <3>6. d \in DOMAIN B \cap T
      BY <1>1, <3>5
    <3>7. old[x] \in Copies(B, T)
      BY <3>5, <3>6, IsToken DEF Copies
    <3> HIDE DEF old
    <3> QED
      BY <3>2, <3>5, <3>7
  <2>4. ASSUME NEW x \in Copies(C, T), x[1] \notin Image
        PROVE  old[x] = x /\ x \in Copies(B, T) /\ x[1] \notin D
    <3>1. PICK e \in DOMAIN C \cap T : \E i \in 1 .. C[e] : x = <<e, i>>
      BY <2>2
    <3>2. e \in DOMAIN B \ S /\ C[e] = B[e] /\ x[1] = e
      BY <1>9, <2>4, <3>1
    <3>3. x \in Copies(B, T)
      BY <3>1, <3>2, IsToken DEF Copies
    <3> QED
      BY <2>4, <3>2, <3>3
  <2>5. ASSUME NEW x \in Copies(C, T), NEW y \in Copies(C, T), old[x] = old[y]
        PROVE  x = y
    <3>1. CASE x[1] \in Image /\ y[1] \in Image
      <4>1. x[1] = y[1]
        BY <2>3, <2>5, <3>1
      <4>2. PICK e \in DOMAIN C \cap T : \E i, j \in 1 .. C[e] : x = <<e, i>> /\ y = <<e, j>>
        BY <2>2, <4>1
      <4>5. PICK i \in 1 .. C[e], j \in 1 .. C[e] : x = <<e, i>> /\ y = <<e, j>>
        BY <4>2
      <4>3. h[e][i] = h[e][j] /\ e \in Image
        BY <2>5, <3>1, <4>5
      <4>4. IsInjective(h[e]) /\ DOMAIN h[e] = 1 .. C[e]
        BY <2>1, <4>3 DEF Bijection, Injection
      <4> QED
        BY <4>5, <4>3, <4>4 DEF IsInjective
    <3>2. CASE x[1] \notin Image /\ y[1] \notin Image
      BY <2>4, <2>5, <3>2
    <3> HIDE DEF old
    <3> QED
      BY <2>3, <2>4, <2>5, <3>1, <3>2
  <2>6. DOMAIN old = Copies(C, T) /\ old \in [Copies(C, T) -> Copies(B, T)]
    BY <2>3, <2>4
  <2> HIDE DEF old
  <2>7. old \in Injection(Copies(C, T), Copies(B, T))
    BY <2>5, <2>6 DEF Injection, IsInjective
  <2>8. IsFiniteSet(Copies(B, T))
    BY CountType
  <2> QED
    BY <2>7, <2>8, FS_Injection DEF Count
<1> QED
  BY <1>10, <1>11 DEF C

----------------------------------------------------------------------------
(* What the works are, and where main and the longpoll_thread have one.    *)
WorkTypes ==
  /\ FiniteBag(staged) /\ DOMAIN staged \subseteq Item
  /\ local \subseteq Pool /\ cur \in Pool /\ up \subseteq Pool
  /\ rollable \in Int /\ downs \in Nat
  /\ mpc \in {"test", "asleep", "woken", "make", "gen"} => pool \in Pool
  /\ mpc = "stage" => item \in Item
  /\ lpc # "idle" => lpItem \in Item

(* main has a work of pool p in hand, or is about to make one. *)
InHand(p) == IF (mpc = "gen" /\ pool = p) \/ (mpc = "stage" /\ item.pool = p) THEN 1 ELSE 0
Total(p) == Count(staged, Of(p)) + InHand(p)

CountsMasters == rollable >= Count(staged, Masters)

(* As long as local pools stay connected main makes work for the current   *)
(* pool only, so of any other one that is not to be cleared there is at    *)
(* most the work main had in hand, staged or not.                          *)
LastWorkInv ==
  local = Pool /\ downs = 0 =>
    /\ up = Pool /\ ~lagging /\ lpc = "idle"
    /\ \A p \in Pool \ ({cur} \cup clearing) : Total(p) <= 1

WInv == WorkTypes /\ CountsMasters /\ LastWorkInv

(* The sets the invariant counts do not tell a work from its stale self. *)
LEMMA AgedKeeps ==
  \A w \in Item : /\ Aged(w) \in Item /\ Aged(w).pool = w.pool
                  /\ (Aged(w) \in Masters <=> w \in Masters)
                  /\ \A p : Aged(w) \in Of(p) <=> w \in Of(p)
BY DEF Item, Aged, Masters, Of

(* A step of main or of a mining thread that leaves the pools alone.       *)
LEMMA CalmKeeps ==
  ASSUME WInv, WorkTypes', UNCHANGED <<local, downs, cur, clearing, lpc>>,
         local = Pool /\ downs = 0 /\ up = Pool => up' = Pool /\ (lagging' => lagging)
            /\ \A p \in Pool : p # cur => Total(p)' <= Total(p)
  PROVE  LastWorkInv'
<1> SUFFICES ASSUME local = Pool, downs = 0
             PROVE  /\ up' = Pool /\ ~lagging' /\ lpc' = "idle"
                    /\ \A p \in Pool \ ({cur} \cup clearing) : Total(p)' <= 1
  BY DEF LastWorkInv
<1>1. /\ up = Pool /\ ~lagging /\ lpc = "idle"
      /\ \A p \in Pool \ ({cur} \cup clearing) : Total(p) <= 1
  BY DEF WInv, LastWorkInv
<1>2. \A p : Total(p) \in Nat /\ Total(p)' \in Nat
  BY CountType DEF WInv, WorkTypes, Total, InHand
<1> HIDE DEF Total
<1> QED
  BY <1>1, <1>2

(* hash_push, and what hash_pop takes. *)
LEMMA PushCounts ==
  ASSUME WInv, NEW w \in Item, HashPush(w)
  PROVE  /\ FiniteBag(staged') /\ DOMAIN staged' \subseteq Item
         /\ rollable' \in Int /\ CountsMasters'
         /\ \A p : Count(staged', Of(p)) = IF w.pool = p THEN Count(staged, Of(p)) + 1
                                            ELSE Count(staged, Of(p))
<1>1. staged' = staged (+) SetToBag({w})
  BY DEF HashPush
<1>2. ASSUME NEW S
      PROVE  /\ FiniteBag(staged') /\ DOMAIN staged' = DOMAIN staged \cup {w}
             /\ Count(staged', S) = IF w \in S THEN Count(staged, S) + 1 ELSE Count(staged, S)
  BY <1>1, CountAdd DEF WInv, WorkTypes
<1>3. FiniteBag(staged') /\ DOMAIN staged' \subseteq Item
  BY <1>2 DEF WInv, WorkTypes
<1>4. rollable' \in Int /\ CountsMasters'
  <2>1. Count(staged, Masters) \in Nat
    BY CountType DEF WInv, WorkTypes
  <2>2. Count(staged', Masters) = IF w \in Masters THEN Count(staged, Masters) + 1 ELSE Count(staged, Masters)
    BY <1>2
  <2> QED
    BY <2>1, <2>2 DEF HashPush, CountsMasters, WInv, WorkTypes
<1> QED
  BY <1>2, <1>3, <1>4 DEF Of

LEMMA TakeCounts ==
  ASSUME WInv, NEW w \in Poppable, Take(w)
  PROVE  /\ FiniteBag(staged') /\ DOMAIN staged' \subseteq Item
         /\ rollable' \in Int /\ CountsMasters'
         /\ \A p : Count(staged', Of(p)) <= Count(staged, Of(p))
<1>1. staged' = staged (-) SetToBag({w}) /\ w \in DOMAIN staged
  BY DEF Take, Poppable, BagToSet
<1>2. FiniteBag(staged') /\ DOMAIN staged' \subseteq Item
  BY <1>1, CountTake DEF WInv, WorkTypes
<1>3. \A S : Count(staged', S) = IF w \in S THEN Count(staged, S) - 1 ELSE Count(staged, S)
  BY <1>1, CountTake DEF WInv, WorkTypes
<1>4. \A S : Count(staged, S) \in Nat
  BY CountType DEF WInv, WorkTypes
<1>5. rollable' \in Int /\ CountsMasters'
  BY <1>3, <1>4 DEF Take, CountsMasters, WInv, WorkTypes
<1> QED
  BY <1>2, <1>3, <1>4, <1>5

(* discard_stale and clear_pool_work. *)
LEMMA PartCounts ==
  ASSUME WInv, NEW S, staged' = Staged(S), UNCHANGED rollable
  PROVE  /\ FiniteBag(staged') /\ DOMAIN staged' \subseteq Item
         /\ CountsMasters'
         /\ \A T : Count(staged', T) = Count(staged, T \cap S) /\ Count(staged', T) <= Count(staged, T)
<1>1. staged' = Part(staged, S)
  BY DEF Staged, BagToSet, Part
<1>2. FiniteBag(staged') /\ DOMAIN staged' \subseteq Item
  BY <1>1, CountPart DEF WInv, WorkTypes, Part
<1>3. \A T : Count(staged', T) = Count(staged, T \cap S) /\ Count(staged', T) <= Count(staged, T)
  BY <1>1, CountPart DEF WInv, WorkTypes
<1>4. CountsMasters'
  <2>1. Count(staged, Masters) \in Nat /\ Count(staged', Masters) \in Nat
    BY <1>2, CountType DEF WInv, WorkTypes
  <2> QED
    BY <1>3, <2>1 DEF CountsMasters, WInv, WorkTypes
<1> QED
  BY <1>2, <1>3, <1>4

(* A new block, a new job, or the age of one work. *)
LEMMA AgeCounts ==
  ASSUME WInv, UNCHANGED rollable,
         \/ \E S \in {Item} \cup {Of(p) : p \in Pool} : Age(S)
         \/ \E w \in BagToSet(staged) :
              staged' = (staged (-) SetToBag({w})) (+) SetToBag({Aged(w)})
  PROVE  /\ FiniteBag(staged') /\ DOMAIN staged' \subseteq Item
         /\ CountsMasters'
         /\ \A p : Count(staged', Of(p)) <= Count(staged, Of(p))
<1> DEFINE Kept(T) == \A w \in Item : Aged(w) \in T <=> w \in T
<1>1. Kept(Masters) /\ Kept(Item) /\ \A p : Kept(Of(p))
  BY AgedKeeps
<1> HIDE DEF Kept
<1>2. /\ FiniteBag(staged') /\ DOMAIN staged' \subseteq Item
      /\ \A T : Kept(T) => Count(staged', T) <= Count(staged, T)
  <2>1. ASSUME NEW S \in {Item} \cup {Of(p) : p \in Pool}, Age(S)
        PROVE  /\ FiniteBag(staged') /\ DOMAIN staged' \subseteq Item
               /\ \A T : Kept(T) => Count(staged', T) <= Count(staged, T)
    <3>1. staged' = Part(staged, Item \ S) (+) BagOfAll(Aged, Part(staged, S))
      BY <2>1 DEF Age, Staged, Part, BagToSet
    <3>2. Kept(S)
      BY <1>1, <2>1
    <3>3. ASSUME NEW T, Kept(T)
          PROVE  /\ FiniteBag(staged') /\ DOMAIN staged' \subseteq Item
                 /\ Count(staged', T) <= Count(staged, T)
      BY <3>1, <3>2, <3>3, CountAge DEF Kept, WInv, WorkTypes
    <3> QED
      BY <1>1, <3>3
  <2>2. ASSUME NEW w \in BagToSet(staged),
               staged' = (staged (-) SetToBag({w})) (+) SetToBag({Aged(w)})
        PROVE  /\ FiniteBag(staged') /\ DOMAIN staged' \subseteq Item
               /\ \A T : Kept(T) => Count(staged', T) <= Count(staged, T)
    <3>1. w \in DOMAIN staged /\ w \in Item /\ Aged(w) \in Item
      BY AgedKeeps DEF BagToSet, WInv, WorkTypes
    <3>2. ASSUME NEW T, Kept(T)
          PROVE  /\ FiniteBag(staged') /\ DOMAIN staged' \subseteq Item
                 /\ Count(staged', T) <= Count(staged, T)
      <4>1. Aged(w) \in T <=> w \in T
        BY <3>1, <3>2 DEF Kept
      <4>2. FiniteBag(staged) /\ DOMAIN staged \subseteq Item
        BY DEF WInv, WorkTypes
      <4>3. PICK v : v = Aged(w)
        OBVIOUS
      <4>4. PICK C : C = (staged (-) SetToBag({w})) (+) SetToBag({v})
        OBVIOUS
      <4>5. /\ FiniteBag(C) /\ DOMAIN C \subseteq DOMAIN staged \cup {v}
            /\ Count(C, T) <= Count(staged, T)
        BY <3>1, <4>1, <4>2, <4>3, <4>4, CountSwap
      <4>6. staged' = C
        BY <2>2, <4>3, <4>4
      <4> QED
        BY <3>1, <4>2, <4>3, <4>5, <4>6
    <3> QED
      BY <1>1, <3>2
  <2> QED
    BY <2>1, <2>2
<1>3. Count(staged, Masters) \in Nat /\ Count(staged', Masters) \in Nat
  BY <1>2, CountType DEF WInv, WorkTypes
<1> QED
  BY <1>1, <1>2, <1>3 DEF CountsMasters, WInv, WorkTypes

(* Every step keeps the invariant: main's, those of the threads, of the    *)
(* pools, and whatever makes work stale or throws it away.                 *)
LEMMA WStep == WInv /\ [Next]_vars => WInv'
<1> SUFFICES ASSUME WInv, [Next]_vars PROVE WInv'
  OBVIOUS
<1> USE DEF tableVars, poolVars, mainVars, lpVars, boundVars, GwsSignal
<1>0. /\ WorkTypes /\ CountsMasters /\ LastWorkInv
      /\ \A p : Count(staged, Of(p)) \in Nat
  BY CountType DEF WInv, WorkTypes
<1>1. ASSUME NEW t \in Miner, Sleep(t) \/ Timeout(t) \/ Finish(t) PROVE WInv'
  <2>1. UNCHANGED <<staged, rollable, local, cur, up, clearing, downs, lpc, lagging, pool, item, lpItem>>
        /\ (mpc' = mpc \/ (mpc = "asleep" /\ mpc' = "woken"))
    BY <1>1 DEF Sleep, Timeout, Finish
  <2>2. WorkTypes' /\ CountsMasters'
    BY <1>0, <2>1 DEF WorkTypes, CountsMasters
  <2>3. LastWorkInv'
    BY <1>0, <2>1 DEF LastWorkInv, Total, InHand
  <2> QED
    BY <2>2, <2>3 DEF WInv
<1>2. ASSUME NEW t \in Miner, Pop(t) PROVE WInv'
  <2>1. PICK w \in Poppable : Take(w)
    BY <1>2 DEF Pop
  <2>2. UNCHANGED <<local, cur, up, clearing, downs, lpc, lagging, pool, item, lpItem>>
        /\ (mpc' = mpc \/ (mpc = "asleep" /\ mpc' = "woken"))
    BY <1>2 DEF Pop
  <2>3. WorkTypes' /\ CountsMasters'
    BY <1>0, <2>1, <2>2, TakeCounts DEF WorkTypes
  <2>4. \A p : Total(p)' <= Total(p)
    <3>1. \A p : InHand(p)' = InHand(p) /\ InHand(p) \in Nat
      BY <2>2 DEF InHand
    <3>2. \A p : Count(staged', Of(p)) <= Count(staged, Of(p)) /\ Count(staged', Of(p)) \in Nat
      BY <2>1, <2>3, TakeCounts, CountType DEF WorkTypes
    <3> QED
      BY <1>0, <3>1, <3>2 DEF Total
  <2> QED
    BY <2>2, <2>3, <2>4, CalmKeeps DEF WInv
<1>3. CASE Limit \/ Test \/ MainTimeout \/ Woke \/ Select \/ Reselect
  <2>1. UNCHANGED <<staged, rollable, local, cur, up, clearing, downs, lpc, item, lpItem>>
    BY <1>3 DEF Limit, Test, MainTimeout, Woke, Select, Reselect
  <2>2. WorkTypes'
    <3>1. Selectable \subseteq Pool
      BY <1>0 DEF Selectable, WorkTypes
    <3> QED
      BY <1>0, <1>3, <2>1, <3>1 DEF WorkTypes, Limit, Test, MainTimeout, Woke, Select, Reselect
  <2>3. LastWorkInv'
    <3> SUFFICES ASSUME local = Pool, downs = 0
                 PROVE  ~lagging' /\ \A p \in Pool : p # cur => Total(p)' = Total(p)
      BY <1>0, <2>1 DEF LastWorkInv
    <3>1. up = Pool /\ ~lagging
      BY <1>0 DEF LastWorkInv
    <3>2. ~lagging'
      BY <1>0, <1>3, <3>1
      DEF WorkTypes, Limit, Test, MainTimeout, Woke, Select, Reselect
    <3> DEFINE Same == \A p \in Pool : p # cur => InHand(p)' = InHand(p)
    <3>3. ASSUME Select PROVE Same
      BY <3>1, <3>3 DEF Select, InHand
    <3>4. ASSUME Limit \/ Test \/ MainTimeout \/ Woke PROVE Same
      BY <3>4 DEF Limit, Test, MainTimeout, Woke, InHand
    <3>5. ~Reselect
      BY <1>0, <3>1 DEF Reselect, WorkTypes
    <3>6. Same
      BY <1>3, <3>3, <3>4, <3>5
    <3> QED
      BY <2>1, <3>2, <3>6 DEF Total
  <2> QED
    BY <1>0, <2>1, <2>2, <2>3 DEF WInv, CountsMasters
<1>4. CASE Drop
  <2>1. UNCHANGED <<local, cur, up, clearing, downs, lpc, item, lpItem>>
        /\ mpc = "drop" /\ mpc' = "limit" /\ ~lagging'
    BY <1>4 DEF Drop
  <2>2. /\ FiniteBag(staged') /\ DOMAIN staged' \subseteq Item
        /\ rollable' \in Int /\ CountsMasters'
        /\ \A p : Count(staged', Of(p)) <= Count(staged, Of(p))
    <3>1. CASE staged = EmptyBag
      BY <1>0, <1>4, <3>1 DEF Drop, WorkTypes, CountsMasters
    <3>2. CASE staged # EmptyBag
      <4>1. PICK w \in Poppable : Take(w)
        BY <1>4, <3>2 DEF Drop
      <4> QED
        BY <4>1, TakeCounts
    <3> QED
      BY <3>1, <3>2
  <2>3. WorkTypes'
    BY <1>0, <2>1, <2>2 DEF WorkTypes
  <2>4. \A p : Total(p)' <= Total(p)
    <3>1. \A p : InHand(p)' = 0 /\ InHand(p) = 0
      BY <2>1 DEF InHand
    <3>2. \A p : Count(staged', Of(p)) \in Nat
      BY <2>3, CountType DEF WorkTypes
    <3> QED
      BY <1>0, <2>2, <3>1, <3>2 DEF Total
  <2> QED
    BY <2>1, <2>2, <2>3, <2>4, CalmKeeps DEF WInv
<1>5. CASE Generate \/ CloneAvailable \/ GetUpstream
  <2>1. UNCHANGED <<staged, rollable, local, cur, up, clearing, downs, lpc, lagging, lpItem>>
        /\ mpc = "gen" /\ mpc' = "stage" /\ pool \in Pool
    BY <1>0, <1>5 DEF Generate, CloneAvailable, GetUpstream, WorkTypes
  <2>2. item' \in Item /\ (pool \in local => item'.pool = pool)
    <3>1. CASE Generate
      BY <2>1, <3>1 DEF Generate, Item, Kind
    <3>2. CASE CloneAvailable
      BY <1>0, <2>1, <3>2 DEF CloneAvailable, CloneOf, BagToSet, WorkTypes, Item, Kind
    <3>3. CASE GetUpstream
      BY <2>1, <3>3 DEF GetUpstream, Item, Kind
    <3> QED
      BY <1>5, <3>1, <3>2, <3>3
  <2>3. WorkTypes'
    BY <1>0, <2>1, <2>2 DEF WorkTypes
  <2>4. LastWorkInv'
    <3> SUFFICES ASSUME local = Pool, downs = 0
                 PROVE  \A p : Total(p)' = Total(p)
      BY <1>0, <2>1 DEF LastWorkInv
    <3>1. \A p : InHand(p)' = InHand(p)
      BY <2>1, <2>2 DEF InHand
    <3> QED
      BY <2>1, <3>1 DEF Total
  <2> QED
    BY <1>0, <2>1, <2>3, <2>4 DEF WInv, CountsMasters
<1>6. CASE Stage
  <2>1. UNCHANGED <<local, cur, up, clearing, downs, lpc, lagging, lpItem>>
        /\ mpc = "stage" /\ mpc' = "limit" /\ item \in Item /\ HashPush(item)
    BY <1>0, <1>6 DEF Stage, WorkTypes
  <2>2. /\ FiniteBag(staged') /\ DOMAIN staged' \subseteq Item
        /\ rollable' \in Int /\ CountsMasters'
        /\ \A p : Count(staged', Of(p)) = IF item.pool = p THEN Count(staged, Of(p)) + 1
                                           ELSE Count(staged, Of(p))
    BY <2>1, PushCounts
  <2>3. WorkTypes'
    BY <1>0, <2>1, <2>2 DEF WorkTypes
  <2>4. \A p : Total(p)' <= Total(p)
    <3>1. \A p : InHand(p)' = 0 /\ InHand(p) = IF item.pool = p THEN 1 ELSE 0
      BY <2>1 DEF InHand
    <3> QED
      BY <1>0, <2>2, <3>1 DEF Total
  <2> QED
    BY <2>1, <2>2, <2>3, <2>4, CalmKeeps DEF WInv
<1>7. CASE LongPoll \/ LPClone \/ LPLast \/ LPStage \/ PoolTest
  <2>1. UNCHANGED <<local, cur, up, clearing, downs, mpc, lagging, pool, item>>
    BY <1>7 DEF LongPoll, LPClone, LPLast, LPStage, PoolTest
  <2>2. WorkTypes' /\ CountsMasters'
    <3>1. CASE LongPoll
      BY <1>0, <2>1, <3>1 DEF LongPoll, WorkTypes, CountsMasters, Item, Kind
    <3>2. ASSUME NEW w \in Item, HashPush(w), lpc' # "idle" => lpItem' \in Item
          PROVE  WorkTypes' /\ CountsMasters'
      BY <1>0, <2>1, <3>2, PushCounts DEF WorkTypes
    <3>3. lpc # "idle" => lpItem \in Item /\ CloneOf(lpItem) \in Item
      BY <1>0 DEF WorkTypes, CloneOf, Item, Kind
    <3>4. CASE LPClone
      BY <3>2, <3>3, <3>4 DEF LPClone
    <3>5. CASE LPLast
      <4>1. CASE cloned
        BY <3>2, <3>3, <3>5, <4>1 DEF LPLast
      <4>2. CASE ~cloned
        BY <1>0, <2>1, <3>5, <4>2 DEF LPLast, WorkTypes, CountsMasters
      <4> QED
        BY <4>1, <4>2
    <3>6. CASE LPStage
      BY <3>2, <3>3, <3>6 DEF LPStage
    <3>7. CASE PoolTest
      <4>1. PICK p \in Pool, k \in {"plain", "master"} :
              HashPush([pool |-> p, kind |-> k, stale |-> FALSE])
        BY <3>7 DEF PoolTest
      <4>2. [pool |-> p, kind |-> k, stale |-> FALSE] \in Item
        BY DEF Item, Kind
      <4>3. lpc' # "idle" => lpItem' \in Item
        BY <1>0, <3>7 DEF PoolTest, WorkTypes
      <4> QED
        BY <3>2, <4>1, <4>2, <4>3
    <3> QED
      BY <1>7, <3>1, <3>4, <3>5, <3>6, <3>7
  <2>3. LastWorkInv'
    <3> SUFFICES ASSUME local = Pool, downs = 0 PROVE FALSE
      BY <2>1 DEF LastWorkInv
    <3>1. lpc = "idle" /\ Pool \ local = {}
      BY <1>0 DEF LastWorkInv
    <3> QED
      BY <1>7, <3>1 DEF LongPoll, LPClone, LPLast, LPStage, PoolTest
  <2> QED
    BY <2>2, <2>3 DEF WInv
<1>8. ASSUME NEW p \in Pool, SwitchPools(p) PROVE WInv'
  <2>1. /\ UNCHANGED <<staged, rollable, local, up, downs, mpc, lagging, pool, item, lpc, lpItem>>
        /\ cur' = p /\ clearing' = IF p \in local THEN clearing \cup {cur} ELSE clearing
    BY <1>8 DEF SwitchPools
  <2>2. WorkTypes' /\ CountsMasters'
    BY <1>0, <2>1 DEF WorkTypes, CountsMasters
  <2>3. LastWorkInv'
    <3>1. \A q : Total(q)' = Total(q)
      BY <2>1 DEF Total, InHand
    <3> HIDE DEF Total
    <3> QED
      BY <1>0, <2>1, <3>1 DEF LastWorkInv
  <2> QED
    BY <2>2, <2>3 DEF WInv
<1>9. ASSUME NEW p \in Pool, Clear(p) PROVE WInv'
  <2>1. /\ UNCHANGED <<rollable, local, cur, up, downs, mpc, lagging, pool, item, lpc, lpItem>>
        /\ clearing' = clearing \ {p} /\ staged' = Staged(Item \ Of(p))
    BY <1>9 DEF Clear, ClearPoolWork
  <2>2. /\ FiniteBag(staged') /\ DOMAIN staged' \subseteq Item /\ CountsMasters'
        /\ \A T : Count(staged', T) = Count(staged, T \cap (Item \ Of(p)))
                  /\ Count(staged', T) <= Count(staged, T)
    BY <2>1, PartCounts
  <2>3. WorkTypes'
    BY <1>0, <2>1, <2>2 DEF WorkTypes
  <2>4. Count(staged', Of(p)) = 0
    <3>1. Of(p) \cap (Item \ Of(p)) = {}
      OBVIOUS
    <3>2. Copies(staged, {}) = {}
      BY DEF Copies, Tokens
    <3>3. Count(staged, {}) = 0
      BY <3>2, FS_EmptySet DEF Count
    <3> QED
      BY <2>2, <3>1, <3>3
  <2>5. \A q : /\ InHand(q)' = InHand(q) /\ InHand(q) \in 0 .. 1
               /\ Count(staged', Of(q)) \in Nat
    BY <2>1, <2>3, CountType DEF InHand, WorkTypes
  <2>6. \A q : Total(q)' <= Total(q) /\ Total(p)' <= 1
               /\ Total(q) \in Nat /\ Total(q)' \in Nat
    BY <1>0, <2>2, <2>4, <2>5 DEF Total
  <2>7. LastWorkInv'
    <3> SUFFICES ASSUME local = Pool, downs = 0
                 PROVE  \A q \in Pool \ ({cur} \cup clearing') : Total(q)' <= 1
      BY <1>0, <2>1 DEF LastWorkInv
    <3>1. \A q \in Pool \ ({cur} \cup clearing) : Total(q) <= 1
      BY <1>0 DEF LastWorkInv
    <3> HIDE DEF Total
    <3> QED
      BY <2>1, <2>6, <3>1
  <2> QED
    BY <2>2, <2>3, <2>7 DEF WInv
<1>10. ASSUME NEW p \in Pool, Disconnect(p) PROVE WInv'
  <2>1. /\ UNCHANGED <<rollable, local, cur, mpc, pool, lpc, lpItem>>
        /\ downs' = downs + 1 /\ up' = up \ {p}
        /\ staged' = Staged(Item \ Of(p)) \/ staged' = staged
        /\ item' = Aged(item) \/ item' = item
    BY <1>10 DEF Disconnect, ClearPoolWork, AgeItem
  <2>2. FiniteBag(staged') /\ DOMAIN staged' \subseteq Item /\ CountsMasters'
    BY <1>0, <2>1, PartCounts DEF WorkTypes, CountsMasters
  <2>3. WorkTypes'
    BY <1>0, <2>1, <2>2, AgedKeeps DEF WorkTypes
  <2>4. LastWorkInv'
    BY <1>0, <2>1 DEF LastWorkInv, WorkTypes
  <2> QED
    BY <2>2, <2>3, <2>4 DEF WInv
<1>11. ASSUME NEW p \in Pool, Resume(p) PROVE WInv'
  <2>1. /\ UNCHANGED <<staged, rollable, local, cur, clearing, downs, mpc, lagging, pool, item,
                       lpc, lpItem>>
        /\ up' = up \cup {p}
    BY <1>11 DEF Resume
  <2>2. WorkTypes' /\ CountsMasters'
    BY <1>0, <2>1 DEF WorkTypes, CountsMasters
  <2>3. LastWorkInv'
    BY <1>0, <2>1 DEF LastWorkInv, Total, InHand
  <2> QED
    BY <2>2, <2>3 DEF WInv
<1>12. CASE GetStale
  <2>1. /\ UNCHANGED <<rollable, local, cur, up, clearing, downs, mpc, lagging, pool, lpc, lpItem>>
        /\ item' = Aged(item) \/ item' = item
        /\ \/ \E S \in {Item} \cup {Of(p) : p \in Pool} : Age(S)
           \/ \E w \in BagToSet(staged) :
                staged' = (staged (-) SetToBag({w})) (+) SetToBag({Aged(w)})
    BY <1>0, <1>12 DEF GetStale, AgeItem, WorkTypes
  <2>2. /\ FiniteBag(staged') /\ DOMAIN staged' \subseteq Item /\ CountsMasters'
        /\ \A p : Count(staged', Of(p)) <= Count(staged, Of(p))
    BY <2>1, AgeCounts
  <2>3. WorkTypes'
    BY <1>0, <2>1, <2>2, AgedKeeps DEF WorkTypes
  <2>4. \A p : Total(p)' <= Total(p)
    <3>1. mpc = "stage" => item'.pool = item.pool
      BY <1>0, <2>1, AgedKeeps DEF WorkTypes
    <3>2. \A p : InHand(p)' = InHand(p) /\ InHand(p) \in Nat
      BY <2>1, <3>1 DEF InHand
    <3>3. \A p : Count(staged', Of(p)) \in Nat
      BY <2>3, CountType DEF WorkTypes
    <3> QED
      BY <1>0, <2>2, <3>2, <3>3 DEF Total
  <2> QED
    BY <2>1, <2>2, <2>3, <2>4, CalmKeeps DEF WInv
<1>13. CASE DiscardStale
  <2>1. /\ UNCHANGED <<rollable, local, cur, up, clearing, downs, lagging, pool, item, lpc, lpItem>>
        /\ staged' = Staged(Item \ Stale)
        /\ (mpc' = mpc \/ (mpc = "asleep" /\ mpc' = "woken"))
    BY <1>13 DEF DiscardStale
  <2>2. /\ FiniteBag(staged') /\ DOMAIN staged' \subseteq Item /\ CountsMasters'
        /\ \A T : Count(staged', T) <= Count(staged, T)
    BY <2>1, PartCounts
  <2>3. WorkTypes'
    BY <1>0, <2>1, <2>2 DEF WorkTypes
  <2>4. \A p : Total(p)' <= Total(p)
    <3>1. \A p : InHand(p)' = InHand(p) /\ InHand(p) \in Nat
      BY <2>1 DEF InHand
    <3>2. \A p : Count(staged', Of(p)) \in Nat
      BY <2>3, CountType DEF WorkTypes
    <3> QED
      BY <1>0, <2>2, <3>1, <3>2 DEF Total
  <2> QED
    BY <2>1, <2>2, <2>3, <2>4, CalmKeeps DEF WInv
<1>14. CASE UNCHANGED vars
  BY <1>14 DEF vars, WInv, WorkTypes, CountsMasters, LastWorkInv, Total, InHand
<1> QED
  BY <1>1, <1>2, <1>3, <1>4, <1>5, <1>6, <1>7, <1>8, <1>9, <1>10, <1>11, <1>12, <1>13, <1>14
  DEF Next, MinerStep, MainStep

LEMMA WInvHolds == Spec => []WInv
<1>1. ASSUME Init PROVE WInv
  <2>1. FiniteBag(EmptyBag) /\ DOMAIN EmptyBag = {}
    BY FS_EmptySet DEF FiniteBag, IsABag, EmptyBag, SetToBag
  <2>2. \A S : Count(EmptyBag, S) = 0
    BY <2>1, FS_EmptySet DEF Count, Copies, Tokens
  <2>3. WorkTypes /\ CountsMasters
    BY <1>1, <2>1, <2>2, WorkAssumption DEF Init, WorkTypes, CountsMasters
  <2>4. LastWorkInv
    BY <1>1, <2>2 DEF Init, LastWorkInv, Total, InHand
  <2> QED
    BY <2>3, <2>4 DEF WInv
<1> QED
  BY <1>1, WStep, PTL DEF Spec

(* hash_pop finds a work that is no master whenever it looks for one: the  *)
(* counter staged_rollable is never below the number of staged masters.    *)
THEOREM CounterIsHigh == Spec => []CounterCoversMasters
<1>1. WInv => CounterCoversMasters
  <2>1. Staged(Masters) = Part(staged, Masters)
    BY DEF Staged, Part, BagToSet
  <2> QED
    BY <2>1, CountType DEF WInv, WorkTypes, CountsMasters, CounterCoversMasters
<1> QED
  BY <1>1, WInvHolds, PTL

(* Between local pools that stay connected a change of pool leaves at most *)
(* one work of each pool that is not the current one.                      *)
THEOREM OneWorkIsLeft == Spec => []LastPoolLeavesOneWork
<1>1. WInv => LastPoolLeavesOneWork
  <2> SUFFICES ASSUME WInv, local = Pool, downs = 0, clearing = {}, NEW p \in Pool \ {cur}
               PROVE  BagCardinality(Staged(Of(p))) <= 1
    BY DEF LastPoolLeavesOneWork
  <2>1. Staged(Of(p)) = Part(staged, Of(p))
    BY DEF Staged, Part, BagToSet
  <2>2. BagCardinality(Staged(Of(p))) = Count(staged, Of(p)) /\ Count(staged, Of(p)) \in Nat
    BY <2>1, CountType DEF WInv, WorkTypes
  <2>3. Total(p) <= 1 /\ InHand(p) \in Nat
    BY DEF WInv, LastWorkInv, InHand
  <2> QED
    BY <2>2, <2>3 DEF Total
<1> QED
  BY <1>1, WInvHolds, PTL
=============================================================================
