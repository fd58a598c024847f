------------------------- MODULE PoolManagerProofs -------------------------
(* The pool table of PoolManager is sound for any pools, scenes and        *)
(* commands, and with a failover strategy the miner moves to the best pool. *)
EXTENDS PoolManager, FiniteSetTheorems, TLAPS

TableTypes ==
  /\ pools \in [Slots -> Pool \cup {NoPool}] /\ total \in 1..Cardinality(Pool)
  /\ prio \in [Pool -> Nat] /\ poolNo \in [Pool -> Slots] /\ removed \in [Pool -> BOOLEAN]

(* The first n places of the array, each with a pool of its own. *)
FirstPools(n) == {pools[i] : i \in 0..n - 1}
NumbersTo(n) ==
  \A i \in 0..n - 1 : pools[i] \in Pool /\ poolNo[pools[i]] = i /\ ~removed[pools[i]]

(* No two pools of S have the same priority, and all are below n. *)
OrderedTo(S, n) == \A p \in S : prio[p] < n /\ \A q \in S : prio[p] = prio[q] => p = q

(* poolpriority between its two loops: the pools it lists have the first   *)
(* priorities, and the others the places they had among themselves.        *)
Appending ==
  \E n \in 1..total :
    /\ oparg \in [1..n -> 0..total - 1] /\ Len(oparg) = n
    /\ \A k \in 1..n : prio[pools[oparg[k]]] = k - 1
    /\ OrderedTo({pools[i] : i \in (0..total - 1) \ {oparg[k] : k \in 1..n}}, total)

(* The commands that hold a pool, and those that remove it. *)
Removing == {"removeSwitch", "removeTest", "disable", "boost", "replace"}
Holding == Removing \cup {"select", "enableTest", "disableTest"}

Arguments ==
  /\ opc \in Holding => oparg[1] \in Listed
  /\ opc \in Removing \cup {"count"} => total > 1
Numbering == NumbersTo(IF opc = "count" THEN total - 1 ELSE total)
Order ==
  /\ opc = "replace" => OrderedTo(Listed \ {oparg[1]}, total - 1)
  /\ opc = "count" => OrderedTo(FirstPools(total - 1), total - 1)
  /\ opc = "append" => Appending
  /\ opc \notin {"replace", "count", "append"} => OrderedTo(Listed, total)

TableInv == TableTypes /\ Arguments /\ Numbering /\ Order

LEMMA PoolCount == IsFiniteSet(Pool) /\ Cardinality(Pool) \in Nat
BY PoolManagerAssumption, FS_CardinalityType DEF PoolManagerAssumption

(* n places with a pool each: n pools, all different. *)
LEMMA FirstPoolsCount ==
  ASSUME TableTypes, NEW n \in Nat, n <= Cardinality(Pool), NumbersTo(n)
  PROVE  IsFiniteSet(FirstPools(n)) /\ Cardinality(FirstPools(n)) = n
<1> DEFINE f == [i \in 0..n - 1 |-> pools[i]]
<1>1. f \in Injection(0..n - 1, FirstPools(n))
  BY DEF FirstPools, NumbersTo, Injection, IsInjective
<1>2. f \in Surjection(0..n - 1, FirstPools(n))
  BY DEF FirstPools, Surjection
<1>3. IsFiniteSet(0..n - 1) /\ Cardinality(0..n - 1) = n
  BY FS_Interval
<1> QED BY <1>1, <1>2, <1>3, FS_Surjection

(* Then priorities below n that differ are all the numbers below n. *)
LEMMA OrderIsPermutation ==
  ASSUME TableTypes, NumbersTo(total), OrderedTo(Listed, total)
  PROVE  PrioritiesArePermutation
<1>1. Listed = FirstPools(total) /\ total \in Nat /\ Listed \subseteq Pool
  BY PoolCount DEF Listed, FirstPools, TableTypes, NumbersTo
<1>2. IsFiniteSet(Listed) /\ Cardinality(Listed) = total
  BY <1>1, FirstPoolsCount, PoolCount DEF TableTypes
<1> DEFINE g == [p \in Listed |-> prio[p]]
<1>3. g \in Injection(Listed, 0..total - 1)
  <2>1. \A p \in Listed : prio[p] \in 0..total - 1
    BY <1>1 DEF TableTypes, OrderedTo
  <2> QED BY <2>1 DEF OrderedTo, Injection, IsInjective
<1>4. IsFiniteSet(0..total - 1) /\ Cardinality(0..total - 1) = total
  BY <1>1, FS_Interval
<1>5. g \in Surjection(Listed, 0..total - 1)
  BY <1>2, <1>3, <1>4, FS_Injection
<1>6. \A k \in 0..total - 1 : \E p \in Listed : prio[p] = k
  BY <1>5 DEF Surjection
<1> QED
  BY <1>3, <1>6 DEF PrioritiesArePermutation, Injection

LEMMA InvIsSound == TableInv => PoolTableIsSound
<1> SUFFICES ASSUME TableInv, ~Rewriting PROVE PrioritiesArePermutation /\ NumbersAreIndexes
  BY DEF PoolTableIsSound
<1>1. NumbersTo(total) /\ OrderedTo(Listed, total)
  BY DEF TableInv, Numbering, Order, Rewriting
<1>2. NumbersAreIndexes
  BY <1>1, PoolManagerAssumption DEF NumbersTo, NumbersAreIndexes, PoolManagerAssumption
<1> QED BY <1>1, <1>2, OrderIsPermutation DEF TableInv

LEMMA InitInv == Init => TableInv
<1> SUFFICES ASSUME Init PROVE TableInv
  OBVIOUS
<1> DEFINE n == Len(InitPools)
           At(p) == CHOOSE i \in 1..n : InitPools[i] = p
<1>1. n \in Nat /\ n >= 1 /\ \A i \in 1..n : InitPools[i] \in Pool
  BY PoolManagerAssumption DEF PoolManagerAssumption
<1>2. n <= Cardinality(Pool)
  <2> DEFINE f == [i \in 1..n |-> InitPools[i]]
  <2>1. f \in Injection(1..n, Pool)
    BY <1>1, PoolManagerAssumption DEF PoolManagerAssumption, Injection, IsInjective
  <2>2. Cardinality(1..n) = n
    BY <1>1, FS_Interval
  <2> QED BY <2>1, <2>2, PoolCount, FS_Injection
<1>3. total = n /\ opc = "ready"
  BY DEF Init
<1>4. \A i \in 0..n - 1 : pools[i] = InitPools[i + 1]
  BY <1>1, <1>2, PoolCount DEF Init, Slots
<1>5. \A i \in 1..n : At(InitPools[i]) = i
  BY PoolManagerAssumption DEF PoolManagerAssumption
<1>6. \A i \in 0..n - 1 : /\ pools[i] \in Pool /\ prio[pools[i]] = i /\ poolNo[pools[i]] = i
                          /\ removed[pools[i]] = FALSE
  <2> SUFFICES ASSUME NEW i \in 0..n - 1
               PROVE  /\ pools[i] \in Pool /\ prio[pools[i]] = i /\ poolNo[pools[i]] = i
                      /\ removed[pools[i]] = FALSE
    OBVIOUS
  <2>1. i + 1 \in 1..n /\ pools[i] = InitPools[i + 1]
    BY <1>1, <1>4
  <2>2. At(InitPools[i + 1]) = i + 1
    BY <1>5, <2>1
  <2>3. prio[InitPools[i + 1]] = (At(InitPools[i + 1])) - 1
    BY <1>1, <2>1 DEF Init
  <2>4. poolNo = prio /\ removed = [p \in Pool |-> FALSE]
    BY DEF Init
  <2> HIDE DEF n, At
  <2>5. prio[pools[i]] = i
    BY <1>1, <2>1, <2>2, <2>3
  <2> QED BY <1>1, <2>1, <2>4, <2>5
<1>7. TableTypes
  <2>1. \A p \in Pool : prio[p] \in 0..n - 1
    <3> SUFFICES ASSUME NEW p \in Pool PROVE prio[p] \in 0..n - 1
      OBVIOUS
    <3>1. CASE \E i \in 1..n : InitPools[i] = p
      <4>1. At(p) \in 1..n
        BY <3>1
      <4> QED BY <1>1, <3>1, <4>1 DEF Init
    <3>2. CASE ~\E i \in 1..n : InitPools[i] = p
      BY <1>1, <3>2 DEF Init
    <3> QED BY <3>1, <3>2
  <2>2. prio \in [Pool -> 0..n - 1]
    BY <2>1 DEF Init
  <2>3. pools \in [Slots -> Pool \cup {NoPool}]
    <3>1. \A i \in Slots : pools[i] \in Pool \cup {NoPool}
      BY <1>1 DEF Init, Slots
    <3> QED BY <3>1 DEF Init
  <2> QED BY <1>1, <1>2, <1>3, <2>2, <2>3, PoolCount DEF Init, TableTypes, Slots
<1>8. NumbersTo(total) /\ OrderedTo(Listed, total)
  BY <1>1, <1>3, <1>6 DEF NumbersTo, OrderedTo, Listed
<1> QED
  BY <1>3, <1>7, <1>8 DEF TableInv, Arguments, Numbering, Order, Removing, Holding

(* A switch without a selected pool leaves the priorities alone. *)
LEMMA NobodySelected == Prioritised(NoPool) = prio
BY DEF Prioritised

(* Steps that touch neither the table nor the command. *)
LEMMA SameTable ==
  ASSUME TableInv, UNCHANGED <<tableVars, opc, oparg>>
  PROVE  TableInv'
BY DEF TableInv, tableVars, TableTypes, Arguments, Numbering, Order, NumbersTo, OrderedTo, Appending,
       FirstPools, Listed

LEMMA OthersLeaveTable ==
  ASSUME NEW p \in Pool, WatchStep \/ RotatePeriod \/ PoolStep(p) \/ PoolEvent(p) \/ Age(p)
  PROVE  UNCHANGED <<tableVars, opc, oparg>>
BY NobodySelected
DEF WatchStep, WPool, WFailover, WRotate, WIdle, WSwitchPools, UnchangedByWatch, SwitchPools,
    RotatePeriod, Age, PoolStep, PTest, PFirst, PEnable, PReject, PTestCurrent, PSwitchPools,
    PoolEvent, PoolDied, StratumResumed, ShareAccepted, ShareRejected, tableVars, opVars

LEMMA OthersKeepTable ==
  ASSUME TableInv, NEW p \in Pool,
         WatchStep \/ RotatePeriod \/ PoolStep(p) \/ PoolEvent(p) \/ Age(p)
  PROVE  TableInv'
BY OthersLeaveTable, SameTable

(* A step that goes from one sound point of a command to another. *)
LEMMA SoundTable ==
  ASSUME TableInv, UNCHANGED tableVars,
         opc \notin {"replace", "count", "append"}, opc' \notin {"replace", "count", "append"},
         opc' \in Holding => oparg'[1] \in Listed, opc' \in Removing => total > 1
  PROVE  TableInv'
BY DEF TableInv, tableVars, TableTypes, Arguments, Numbering, Order, NumbersTo, OrderedTo, FirstPools,
       Listed, Removing

LEMMA QuietCommands ==
  ASSUME TableInv, NEW p \in Listed, NEW s \in Strategies,
         OpSwitch(p) \/ OpEnable(p) \/ OpDisable(p) \/ OpRemove(p) \/ OpStrategy(s)
  PROVE  TableInv'
<1>1. /\ UNCHANGED tableVars /\ opc = "ready"
      /\ opc' \in {"select", "enableTest", "disableTest", "removeSwitch", "removeTest", "switch"}
      /\ opc' # "switch" => oparg' = <<p>>
      /\ opc' \in {"removeSwitch", "removeTest"} => total > 1
  BY DEF OpSwitch, OpEnable, OpDisable, OpRemove, OpStrategy, Begin, tableVars
<1>2. opc' # "switch" => oparg'[1] = p
  BY <1>1
<1> QED BY <1>1, <1>2, SoundTable DEF Holding, Removing

LEMMA TestInv ==
  ASSUME TableInv, OpTest \/ OpDisableRemoved \/ OpDetails
  PROVE  TableInv'
<1>1. CASE OpTest
  <2>1. /\ UNCHANGED tableVars /\ opc \in {"enableTest", "disableTest", "removeTest", "prioTest"}
        /\ \/ opc' = "ready"
           \/ /\ opc' \in {"select", "switch", "disable"} /\ oparg' = oparg
              /\ opc' = "select" => opc = "enableTest"
              /\ opc' = "disable" => opc = "removeTest"
    BY <1>1 DEF OpTest, OpGoto, OpEnd, tableVars
  <2> QED BY <2>1, SoundTable DEF Holding, Removing, TableInv, Arguments
<1>2. CASE OpDisableRemoved
  <2>1. UNCHANGED tableVars /\ opc = "disable" /\ opc' = "boost" /\ oparg' = oparg
    BY <1>2 DEF OpDisableRemoved, OpGoto, tableVars
  <2> QED BY <2>1, SoundTable DEF Holding, Removing, TableInv, Arguments
<1>3. CASE OpDetails
  <2>1. UNCHANGED tableVars /\ opc = "details" /\ opc' = "ready"
    BY <1>3 DEF OpDetails, OpEnd, tableVars
  <2> QED BY <2>1, SoundTable DEF Holding, Removing
<1> QED BY <1>1, <1>2, <1>3

(* The selected pool gets the first priority, those before it move back.  *)
LEMMA PrioritisedOrder ==
  ASSUME TableTypes, OrderedTo(Listed, total), NEW p \in Listed, p \in Pool, Listed \subseteq Pool
  PROVE  /\ Prioritised(p) \in [Pool -> Nat]
         /\ \A q \in Listed : /\ Prioritised(p)[q] < total
                              /\ \A r \in Listed : Prioritised(p)[q] = Prioritised(p)[r] => q = r
<1>1. p # NoPool
  BY PoolManagerAssumption DEF PoolManagerAssumption
<1>2. total \in Nat /\ total > 0 /\ prio \in [Pool -> Nat]
  BY PoolCount DEF TableTypes
<1>3. Prioritised(p) \in [Pool -> Nat]
  BY <1>1, <1>2 DEF Prioritised
<1>4. \A q \in Listed : Prioritised(p)[q] = IF q = p THEN 0
                                            ELSE IF prio[q] < prio[p] THEN prio[q] + 1 ELSE prio[q]
  BY <1>1 DEF Prioritised
<1>5. \A q, r \in Listed : /\ prio[q] \in Nat /\ prio[q] < total
                           /\ prio[q] = prio[r] => q = r
  BY <1>2 DEF OrderedTo
<1> HIDE DEF Prioritised
<1> QED BY <1>2, <1>3, <1>4, <1>5

LEMMA SwitchInv == ASSUME TableInv, OpSwitchPools PROVE TableInv'
<1>0. TableTypes /\ NumbersTo(total) /\ OrderedTo(Listed, total) /\ Listed \subseteq Pool
  BY DEF TableInv, Numbering, Order, OpSwitchPools, Listed, NumbersTo
<1>1. CASE opc = "select"
  <2>1. oparg[1] \in Listed
    BY <1>1 DEF TableInv, Arguments, Holding
  <2>2. prio' = Prioritised(oparg[1]) /\ opc' = "ready" /\ UNCHANGED <<pools, total, poolNo, removed>>
    BY <1>1 DEF OpSwitchPools, SwitchPools, OpEnd
  <2>3. TableTypes'
    BY <1>0, <2>1, <2>2, PrioritisedOrder DEF TableTypes
  <2>4. OrderedTo(Listed, total)'
    BY <1>0, <2>1, <2>2, PrioritisedOrder DEF OrderedTo, Listed
  <2>5. NumbersTo(total)'
    BY <1>0, <2>2 DEF NumbersTo
  <2> QED
    BY <2>2, <2>3, <2>4, <2>5 DEF TableInv, Arguments, Numbering, Order, Holding, Removing
<1>2. CASE opc # "select"
  <2>1. /\ UNCHANGED tableVars /\ opc \in {"switch", "removeSwitch"}
        /\ opc' = "ready" \/ (opc = "removeSwitch" /\ opc' = "removeTest" /\ oparg' = oparg)
    BY <1>2, NobodySelected DEF OpSwitchPools, SwitchPools, OpEnd, OpGoto, tableVars
  <2> QED BY <2>1, SoundTable DEF Holding, Removing, TableInv, Arguments
<1> QED BY <1>1, <1>2

LEMMA BoostInv == ASSUME TableInv, OpBoost PROVE TableInv'
<1> DEFINE p == oparg[1]
<1>0. /\ opc = "boost" /\ opc' = "replace" /\ UNCHANGED <<oparg, pools, total, poolNo, removed>>
      /\ TableTypes /\ NumbersTo(total) /\ OrderedTo(Listed, total) /\ total > 1
      /\ p \in Listed /\ Listed \subseteq Pool
  BY DEF OpBoost, OpGoto, TableInv, Arguments, Numbering, Order, Holding, Removing, Listed, NumbersTo
<1>1. prio' = [q \in Pool |-> IF q \in Listed /\ prio[q] > prio[p] THEN prio[q] - 1 ELSE prio[q]]
  BY DEF OpBoost
<1>2. total \in Nat /\ prio \in [Pool -> Nat]
  BY <1>0, PoolCount DEF TableTypes
<1>3. prio' \in [Pool -> Nat]
  BY <1>0, <1>1, <1>2
<1>4. \A q, r \in Listed : /\ prio[q] \in Nat /\ prio[q] < total /\ (prio[q] = prio[r] => q = r)
                           /\ prio'[q] = IF prio[q] > prio[p] THEN prio[q] - 1 ELSE prio[q]
  BY <1>0, <1>1, <1>2 DEF OrderedTo
<1> HIDE DEF p
<1>5. \A q \in Listed \ {p} : /\ prio'[q] < total - 1
                              /\ \A r \in Listed \ {p} : prio'[q] = prio'[r] => q = r
  BY <1>0, <1>2, <1>4
<1>6. OrderedTo(Listed \ {oparg[1]}, total - 1)'
  BY <1>0, <1>5 DEF OrderedTo, Listed, p
<1>7. TableTypes' /\ NumbersTo(total)'
  BY <1>0, <1>3 DEF TableTypes, NumbersTo
<1>8. oparg[1]' \in Listed'
  BY <1>0 DEF Listed, p
<1> QED
  BY <1>0, <1>6, <1>7, <1>8 DEF TableInv, Arguments, Numbering, Order, Holding, Removing

(* The last pool takes the place of the removed one. *)
LEMMA ReplaceInv == ASSUME TableInv, OpReplace PROVE TableInv'
<1> DEFINE p == oparg[1]
           last == pools[total - 1]
<1>0. /\ opc = "replace" /\ opc' = "count" /\ UNCHANGED <<oparg, total, prio>>
      /\ TableTypes /\ NumbersTo(total) /\ OrderedTo(Listed \ {p}, total - 1) /\ total > 1
      /\ p \in Listed
  BY DEF OpReplace, OpGoto, TableInv, Arguments, Numbering, Order, Holding, Removing
<1>1. /\ total \in Nat /\ total <= Cardinality(Pool) /\ Cardinality(Pool) \in Nat
      /\ p \in Pool /\ last \in Pool
      /\ poolNo[p] \in 0..total - 1 /\ pools[poolNo[p]] = p /\ poolNo[last] = total - 1
  BY <1>0, PoolCount DEF TableTypes, NumbersTo, Listed
<1>2. /\ removed' = [removed EXCEPT ![p] = TRUE]
      /\ \/ /\ poolNo[p] < total - 1 /\ pools' = [pools EXCEPT ![poolNo[p]] = last]
            /\ poolNo' = [poolNo EXCEPT ![last] = poolNo[p], ![p] = total]
         \/ poolNo[p] = total - 1 /\ pools' = pools /\ poolNo' = [poolNo EXCEPT ![p] = total]
  BY <1>1 DEF OpReplace
<1> HIDE DEF p, last
<1>3. TableTypes'
  <2>1. total \in Slots /\ poolNo[p] \in Slots
    BY <1>1 DEF Slots
  <2>2. poolNo' \in [Pool -> Slots]
    BY <1>0, <1>1, <1>2, <2>1 DEF TableTypes
  <2>3. pools' \in [Slots -> Pool \cup {NoPool}]
    BY <1>0, <1>1, <1>2, <2>1 DEF TableTypes
  <2> QED BY <1>0, <1>1, <1>2, <2>2, <2>3 DEF TableTypes
<1>4. \A i \in 0..total - 2 : /\ pools'[i] \in Listed \ {p}
                              /\ poolNo'[pools'[i]] = i /\ ~removed'[pools'[i]]
  <2> SUFFICES ASSUME NEW i \in 0..total - 2
               PROVE  pools'[i] \in Listed \ {p} /\ poolNo'[pools'[i]] = i /\ ~removed'[pools'[i]]
    OBVIOUS
  <2>1. /\ pools[i] \in Pool /\ poolNo[pools[i]] = i /\ ~removed[pools[i]]
        /\ i \in Slots /\ poolNo[p] \in Slots /\ pools[i] \in Listed /\ last \in Listed /\ ~removed[last]
    BY <1>0, <1>1 DEF NumbersTo, Slots, Listed, last
  <2>2. poolNo \in [Pool -> Slots] /\ removed \in [Pool -> BOOLEAN] /\ pools \in [Slots -> Pool \cup {NoPool}]
    BY <1>0 DEF TableTypes
  <2>3. CASE poolNo[p] = i
    BY <1>1, <1>2, <2>1, <2>2, <2>3
  <2>4. CASE poolNo[p] # i
    BY <1>1, <1>2, <2>1, <2>2, <2>4
  <2> QED BY <2>3, <2>4
<1>5. NumbersTo(total - 1)'
  BY <1>0, <1>1, <1>4 DEF NumbersTo, Listed
<1>6. FirstPools(total - 1)' \subseteq Listed \ {p}
  BY <1>0, <1>1, <1>4 DEF FirstPools
<1>7. OrderedTo(FirstPools(total - 1), total - 1)'
  BY <1>0, <1>6 DEF OrderedTo
<1> QED
  BY <1>0, <1>3, <1>5, <1>7 DEF TableInv, Arguments, Numbering, Order, Holding, Removing

LEMMA CountInv == ASSUME TableInv, OpCount PROVE TableInv'
<1>1. /\ opc = "count" /\ opc' = "ready" /\ UNCHANGED <<pools, prio, poolNo, removed>>
      /\ total' = total - 1 /\ total > 1 /\ total \in Nat
      /\ TableTypes /\ NumbersTo(total - 1) /\ OrderedTo(FirstPools(total - 1), total - 1)
  BY PoolCount DEF OpCount, OpEnd, TableInv, Arguments, Numbering, Order, TableTypes
<1>2. TableTypes' /\ NumbersTo(total)' /\ OrderedTo(Listed, total)'
  BY <1>1, PoolCount DEF TableTypes, NumbersTo, OrderedTo, FirstPools, Listed
<1> QED
  BY <1>1, <1>2 DEF TableInv, Arguments, Numbering, Order, Holding, Removing

(* A new pool finds a place: the others are different pools, and not it.   *)
LEMMA AddInv == ASSUME TableInv, NEW p \in Pool, OpAdd(p) PROVE TableInv'
<1>1. /\ opc = "ready" /\ opc' = "details" /\ total' = total + 1 /\ p \notin Listed /\ ~removed[p]
      /\ pools' = [pools EXCEPT ![total] = p] /\ poolNo' = [poolNo EXCEPT ![p] = total]
      /\ prio' = [prio EXCEPT ![p] = total] /\ removed' = removed
  BY DEF OpAdd, Begin
<1>2. /\ TableTypes /\ NumbersTo(total) /\ OrderedTo(Listed, total)
      /\ total \in Nat /\ total <= Cardinality(Pool) /\ total >= 1 /\ Cardinality(Pool) \in Nat
  BY <1>1, PoolCount DEF TableInv, Numbering, Order, TableTypes
<1>3. total + 1 <= Cardinality(Pool)
  <2>1. Listed = FirstPools(total) /\ Listed \subseteq Pool
    BY <1>2 DEF Listed, FirstPools, NumbersTo
  <2>2. IsFiniteSet(Listed) /\ Cardinality(Listed) = total
    BY <1>2, <2>1, FirstPoolsCount
  <2>3. Cardinality(Listed \cup {p}) = total + 1
    BY <1>1, <2>2, FS_AddElement
  <2>4. Listed \cup {p} \in SUBSET Pool
    BY <2>1
  <2> QED BY <2>3, <2>4, PoolCount, FS_Subset
<1>4. TableTypes'
  BY <1>1, <1>2, <1>3 DEF TableTypes, Slots
<1>5. pools'[total] = p /\ \A i \in 0..total - 1 : pools'[i] = pools[i] /\ pools[i] \in Listed
  BY <1>1, <1>2 DEF TableTypes, Slots, Listed
<1>6. \A q \in Listed : q # p /\ q \in Pool /\ prio'[q] = prio[q] /\ poolNo'[q] = poolNo[q]
  BY <1>1, <1>2 DEF TableTypes, Listed, NumbersTo
<1>7. prio'[p] = total /\ poolNo'[p] = total /\ removed'[p] = FALSE
  BY <1>1, <1>2 DEF TableTypes
<1>8. NumbersTo(total)'
  <2> SUFFICES ASSUME NEW i \in 0..total
               PROVE  pools'[i] \in Pool /\ poolNo'[pools'[i]] = i /\ ~removed'[pools'[i]]
    BY <1>1, <1>2 DEF NumbersTo
  <2>1. CASE i = total
    BY <1>5, <1>7, <2>1
  <2>2. CASE i \in 0..total - 1
    BY <1>1, <1>2, <1>5, <1>6, <2>2 DEF NumbersTo
  <2> QED BY <1>2, <2>1, <2>2
<1>9. Listed' = Listed \cup {p}
  <2>1. Listed' = {pools'[i] : i \in 0..total}
    BY <1>1, <1>2 DEF Listed
  <2>2. \A i \in 0..total : i = total \/ i \in 0..total - 1
    BY <1>2
  <2>3. total \in 0..total /\ \A i \in 0..total - 1 : i \in 0..total
    BY <1>2
  <2> QED BY <1>5, <2>1, <2>2, <2>3 DEF Listed
<1>10. OrderedTo(Listed, total)'
  <2>1. \A q \in Listed : prio[q] < total /\ prio[q] \in Nat
    BY <1>2, <1>6 DEF OrderedTo, TableTypes
  <2> QED BY <1>1, <1>2, <1>6, <1>7, <1>9, <2>1 DEF OrderedTo
<1> QED
  BY <1>1, <1>4, <1>8, <1>10 DEF TableInv, Arguments, Numbering, Order, Holding, Removing

(* The pools that poolpriority lists are all different. *)
LEMMA PriorityInv ==
  ASSUME TableInv, NEW n \in 1..total, NEW nos \in [1..n -> 0..total - 1], IsInjective(nos),
         OpPriority(nos)
  PROVE  TableInv'
<1>0. /\ opc = "ready" /\ opc' = "append" /\ oparg' = nos /\ UNCHANGED <<pools, total, poolNo, removed>>
      /\ TableTypes /\ NumbersTo(total) /\ OrderedTo(Listed, total)
      /\ total \in Nat /\ n \in Nat /\ n >= 1
  BY PoolCount DEF OpPriority, Begin, TableInv, Numbering, Order, TableTypes
<1>1. Len(nos) = n
  BY <1>0
<1> DEFINE K(p) == CHOOSE k \in 1..n : pools[nos[k]] = p
<1>2. prio' = [p \in Pool |-> IF \E k \in 1..n : pools[nos[k]] = p THEN K(p) - 1 ELSE prio[p]]
  BY <1>1 DEF OpPriority
<1>3. \A i, j \in 0..total - 1 : pools[i] \in Pool /\ (pools[i] = pools[j] => i = j)
  BY <1>0 DEF NumbersTo
<1>4. \A k \in 1..n : /\ nos[k] \in 0..total - 1
                      /\ \A l \in 1..n : pools[nos[k]] = pools[nos[l]] => k = l
  BY <1>3 DEF IsInjective
<1>5. \A p : (\E k \in 1..n : pools[nos[k]] = p) => K(p) \in 1..n /\ pools[nos[K(p)]] = p
  OBVIOUS
<1>6. \A k \in 1..n : K(pools[nos[k]]) = k
  BY <1>4, <1>5
<1> HIDE DEF K
<1>7. \A k \in 1..n : prio'[pools[nos[k]]] = k - 1
  BY <1>2, <1>3, <1>4, <1>6
<1>8. \A i \in (0..total - 1) \ {nos[k] : k \in 1..n} : prio'[pools[i]] = prio[pools[i]]
  BY <1>2, <1>3, <1>4
<1>9. OrderedTo({pools[i] : i \in (0..total - 1) \ {oparg[k] : k \in 1..n}}, total)'
  <2> DEFINE rest == (0..total - 1) \ {nos[k] : k \in 1..n}
             S == {pools[i] : i \in rest}
  <2>1. \A p \in S : p \in Listed /\ prio'[p] = prio[p]
    BY <1>8 DEF Listed
  <2> HIDE DEF S
  <2>2. \A p \in S : prio'[p] < total /\ \A q \in S : prio'[p] = prio'[q] => p = q
    BY <1>0, <2>1 DEF OrderedTo
  <2>3. {pools[i] : i \in (0..total - 1) \ {oparg[k] : k \in 1..n}}' = S
    BY <1>0 DEF S
  <2> QED BY <1>0, <2>2, <2>3 DEF OrderedTo
<1>10. Appending'
  BY <1>0, <1>1, <1>7, <1>9 DEF Appending
<1>11. prio' \in [Pool -> Nat]
  <2>1. prio \in [Pool -> Nat]
    BY <1>0 DEF TableTypes
  <2> QED BY <1>0, <1>2, <1>5, <2>1
<1> QED
  BY <1>0, <1>10, <1>11 DEF TableInv, TableTypes, Arguments, Numbering, NumbersTo, Order, Holding, Removing

(* The others follow: the place of each is the number of those before it. *)
LEMMA AppendInv == ASSUME TableInv, OpAppend PROVE TableInv'
<1>0. /\ opc = "append" /\ opc' = "prioTest" /\ UNCHANGED <<pools, total, poolNo, removed>>
      /\ TableTypes /\ NumbersTo(total) /\ Appending
      /\ total \in Nat /\ prio \in [Pool -> Nat]
  BY PoolCount DEF OpAppend, OpGoto, TableInv, Numbering, Order, TableTypes
<1>1. PICK n \in 1..total :
        /\ oparg \in [1..n -> 0..total - 1] /\ Len(oparg) = n
        /\ \A k \in 1..n : prio[pools[oparg[k]]] = k - 1
        /\ OrderedTo({pools[i] : i \in (0..total - 1) \ {oparg[k] : k \in 1..n}}, total)
  BY <1>0 DEF Appending
<1> DEFINE listed == {oparg[k] : k \in 1..n}
           others == (0..total - 1) \ listed
           Pr(i) == prio[pools[i]]
           Before(i) == {j \in others : Pr(j) < Pr(i)}
           Place(i) == n + Cardinality(Before(i))
<1>2. /\ n \in Nat /\ n >= 1 /\ n <= total
      /\ \A i, j \in 0..total - 1 : pools[i] \in Pool /\ Pr(i) \in Nat /\ (pools[i] = pools[j] => i = j)
  BY <1>0 DEF NumbersTo
<1>3. \A i, j \in others : Pr(i) < total /\ (Pr(i) = Pr(j) => i = j)
  <2> SUFFICES ASSUME NEW i \in others, NEW j \in others
               PROVE  Pr(i) < total /\ (Pr(i) = Pr(j) => i = j)
    OBVIOUS
  <2> DEFINE S == {pools[k] : k \in others}
  <2>1. OrderedTo(S, total)
    BY <1>1
  <2>2. pools[i] \in S /\ pools[j] \in S /\ i \in 0..total - 1 /\ j \in 0..total - 1
    OBVIOUS
  <2> HIDE DEF S, others
  <2>3. Pr(i) < total /\ (Pr(i) = Pr(j) => pools[i] = pools[j])
    BY <2>1, <2>2 DEF OrderedTo
  <2> QED BY <1>2, <2>2, <2>3
<1>4. others = {i \in others : /\ Pr(i) < total
                               /\ \A j \in (0..i - 1) \ listed : Pr(j) # Pr(i)}
  BY <1>0, <1>3
<1>5. prio' = [p \in Pool |-> IF \E i \in others : pools[i] = p
                              THEN Place(CHOOSE i \in others : pools[i] = p) ELSE prio[p]]
  BY <1>1, <1>4 DEF OpAppend
<1>6. IsFiniteSet(others) /\ Cardinality(others) = total - n
  <2>1. oparg \in Injection(1..n, listed)
    <3>1. \A k, l \in 1..n : oparg[k] = oparg[l] => k - 1 = l - 1
      BY <1>1
    <3>2. \A k, l \in 1..n : oparg[k] = oparg[l] => k = l
      BY <1>2, <3>1
    <3>3. DOMAIN oparg = 1..n /\ oparg \in [1..n -> listed]
      BY <1>1
    <3> QED BY <3>2, <3>3 DEF Injection, IsInjective
  <2>2. oparg \in Surjection(1..n, listed)
    BY <1>1 DEF Surjection
  <2>3. /\ IsFiniteSet(1..n) /\ Cardinality(1..n) = n
        /\ IsFiniteSet(0..total - 1) /\ Cardinality(0..total - 1) = total
    BY <1>0, <1>2, FS_Interval
  <2>4. IsFiniteSet(listed) /\ Cardinality(listed) = n
    BY <2>1, <2>2, <2>3, FS_Surjection
  <2>5. IsFiniteSet(others)
    BY <2>3, FS_Subset
  <2>6. listed \cup others = 0..total - 1 /\ listed \cap others = {}
    BY <1>1
  <2>7. Cardinality(0..total - 1) = n + Cardinality(others) - Cardinality({})
    BY <2>4, <2>5, <2>6, FS_Union
  <2> QED BY <2>3, <2>5, <2>7, FS_EmptySet, FS_CardinalityType
<1> HIDE DEF listed, others, Pr
<1>7. \A i \in others : Cardinality(Before(i)) \in Nat /\ Cardinality(Before(i)) < total - n
  <2> SUFFICES ASSUME NEW i \in others
               PROVE  Cardinality(Before(i)) \in Nat /\ Cardinality(Before(i)) < total - n
    OBVIOUS
  <2>1. Before(i) \in SUBSET (others \ {i})
    BY <1>2 DEF others
  <2>2. IsFiniteSet(others \ {i}) /\ Cardinality(others \ {i}) = total - n - 1
    BY <1>6, FS_RemoveElement
  <2> QED BY <1>0, <1>2, <2>1, <2>2, FS_Subset, FS_CardinalityType
<1>8. \A i, j \in others : Pr(i) < Pr(j) => Cardinality(Before(i)) < Cardinality(Before(j))
  <2> SUFFICES ASSUME NEW i \in others, NEW j \in others, Pr(i) < Pr(j)
               PROVE  Cardinality(Before(i)) < Cardinality(Before(j))
    OBVIOUS
  <2>1. \A k \in others : Pr(k) \in Nat
    BY <1>2 DEF others
  <2>2. Before(i) \cup {i} \in SUBSET Before(j) /\ i \notin Before(i)
    BY <2>1
  <2>3. IsFiniteSet(Before(i)) /\ IsFiniteSet(Before(j))
    BY <1>6, FS_Subset
  <2>4. Cardinality(Before(i) \cup {i}) = Cardinality(Before(i)) + 1
    BY <2>2, <2>3, FS_AddElement
  <2>5. Cardinality(Before(i) \cup {i}) <= Cardinality(Before(j))
    BY <2>2, <2>3, FS_Subset
  <2> QED BY <1>7, <2>4, <2>5
<1> HIDE DEF Before
<1>9. /\ \A i \in others : Place(i) \in n..total - 1
      /\ \A i, j \in others : Place(i) = Place(j) => i = j
  <2>1. \A i \in others : Place(i) \in n..total - 1
    BY <1>0, <1>2, <1>7
  <2>2. \A i, j \in others : i # j => Pr(i) < Pr(j) \/ Pr(j) < Pr(i)
    BY <1>2, <1>3 DEF others
  <2> QED BY <1>2, <1>7, <1>8, <2>1, <2>2
<1> HIDE DEF Place
<1>10. \A i \in others : /\ (CHOOSE j \in others : pools[j] = pools[i]) = i
                         /\ prio'[pools[i]] = Place(i)
  BY <1>2, <1>5 DEF others
<1>11. \A k \in 1..n : prio'[pools[oparg[k]]] = k - 1
  BY <1>1, <1>2, <1>5 DEF others, listed
<1>12. \A i \in 0..total - 1 : i \in others \/ \E k \in 1..n : i = oparg[k]
  BY DEF others, listed
<1>13. \A i, j \in 0..total - 1 : prio'[pools[i]] < total /\ (prio'[pools[i]] = prio'[pools[j]] => i = j)
  <2> SUFFICES ASSUME NEW i \in 0..total - 1, NEW j \in 0..total - 1
               PROVE  prio'[pools[i]] < total /\ (prio'[pools[i]] = prio'[pools[j]] => i = j)
    OBVIOUS
  <2>1. \A h \in others : prio'[pools[h]] \in n..total - 1
    BY <1>9, <1>10
  <2>2. CASE i \in others /\ j \in others
    BY <1>0, <1>2, <1>9, <1>10, <2>1, <2>2
  <2>3. CASE i \in others /\ j \notin others
    <3>1. PICK k \in 1..n : j = oparg[k]
      BY <1>12, <2>3
    <3> QED BY <1>0, <1>2, <1>11, <2>1, <2>3, <3>1
  <2>4. CASE i \notin others /\ j \in others
    <3>1. PICK k \in 1..n : i = oparg[k]
      BY <1>12, <2>4
    <3> QED BY <1>0, <1>2, <1>11, <2>1, <2>4, <3>1
  <2>5. CASE i \notin others /\ j \notin others
    <3>1. PICK k \in 1..n : i = oparg[k]
      BY <1>12, <2>5
    <3>2. PICK l \in 1..n : j = oparg[l]
      BY <1>12, <2>5
    <3> QED BY <1>0, <1>2, <1>11, <3>1, <3>2
  <2> QED BY <2>2, <2>3, <2>4, <2>5
<1>14. OrderedTo(Listed, total)'
  BY <1>0, <1>13 DEF OrderedTo, Listed
<1>15. prio' \in [Pool -> Nat]
  <2>1. \A p \in Pool : prio'[p] \in Nat
    <3> SUFFICES ASSUME NEW p \in Pool PROVE prio'[p] \in Nat
      OBVIOUS
    <3>1. CASE \E i \in others : pools[i] = p
      BY <1>2, <1>9, <1>10, <3>1
    <3>2. CASE ~\E i \in others : pools[i] = p
      BY <1>0, <1>5, <3>2
    <3> QED BY <3>1, <3>2
  <2> QED BY <1>5, <2>1
<1> QED
  BY <1>0, <1>14, <1>15 DEF TableInv, TableTypes, Arguments, Numbering, NumbersTo, Order, Holding, Removing

LEMMA StepInv == TableInv /\ [Next]_vars => TableInv'
<1> SUFFICES ASSUME TableInv, [Next]_vars PROVE TableInv'
  OBVIOUS
<1>1. CASE UNCHANGED vars
  BY <1>1, SameTable DEF vars, opVars
<1>2. CASE Command
  <2>1. ASSUME NEW p \in Listed, OpSwitch(p) \/ OpEnable(p) \/ OpDisable(p) \/ OpRemove(p)
        PROVE  TableInv'
    <3>1. InitStrategy \in Strategies
      BY PoolManagerAssumption DEF PoolManagerAssumption
    <3> QED BY <2>1, <3>1, QuietCommands
  <2>2. ASSUME NEW s \in Strategies, OpStrategy(s) PROVE TableInv'
    <3>1. pools[0] \in Listed
      BY PoolCount DEF TableInv, TableTypes, Listed
    <3> QED BY <2>2, <3>1, QuietCommands
  <2>3. ASSUME NEW p \in Pool, OpAdd(p) PROVE TableInv'
    BY <2>3, AddInv
  <2>4. ASSUME NEW n \in 1..total, NEW nos \in [1..n -> 0..total - 1], IsInjective(nos), OpPriority(nos)
        PROVE  TableInv'
    BY <2>4, PriorityInv
  <2> QED BY <1>2, <2>1, <2>2, <2>3, <2>4 DEF Command
<1>3. CASE OperatorStep
  BY <1>3, TestInv, SwitchInv, BoostInv, ReplaceInv, CountInv, AppendInv DEF OperatorStep
<1>4. ASSUME NEW p \in Pool, PoolStep(p) \/ PoolEvent(p) \/ Age(p) PROVE TableInv'
  BY <1>4, OthersKeepTable
<1>5. CASE WatchStep \/ RotatePeriod
  <2>1. Pool # {}
    BY PoolManagerAssumption DEF PoolManagerAssumption
  <2> QED BY <1>5, <2>1, OthersKeepTable
<1> QED BY <1>1, <1>2, <1>3, <1>4, <1>5 DEF Next, Step

LEMMA TableAlways == Spec => []TableInv
BY InitInv, StepInv, PTL DEF Spec

(* Between the commands the priorities are a permutation and the numbers   *)
(* are indexes: remove_pool, poolpriority and add_pool, with any switch    *)
(* between their steps.                                                    *)
THEOREM PoolTableStaysSound == Spec => []PoolTableIsSound
BY TableAlways, InvIsSound, PTL

----------------------------------------------------------------------------
(* The choice of __switch_pools.                                           *)

(* The intervals 0..x, x in S, are finite sets: one of them is least.      *)
LEMMA LeastOf ==
  ASSUME NEW S \in SUBSET Nat, S # {}
  PROVE  Min(S) \in S /\ \A y \in S : Min(S) <= y
<1> DEFINE T == {0..x : x \in S}
<1>1. T \subseteq FiniteSubsetsOf(Nat) /\ T # {}
  <2>1. \A x \in S : x \in Int /\ 0 \in Int /\ 0..x \in SUBSET Nat
    OBVIOUS
  <2>2. \A x \in S : IsFiniteSet(0..x)
    BY <2>1, FS_Interval
  <2> QED BY <2>1, <2>2 DEF FiniteSubsetsOf
<1>2. PICK t \in T : \A u \in T : ~(<<u, t>> \in StrictSubsetOrdering(Nat))
  BY <1>1, FS_StrictSubsetOrderingWellFounded, WFMin
<1>3. PICK x \in S : t = 0..x
  OBVIOUS
<1>4. \A y \in S : x <= y
  <2> SUFFICES ASSUME NEW y \in S, y < x PROVE FALSE
    OBVIOUS
  <2>1. x \in Nat /\ y \in Nat
    OBVIOUS
  <2>2. 0..y \subseteq 0..x /\ x \in 0..x /\ x \notin 0..y
    BY <2>1
  <2>3. 0..y \in T /\ 0..y \in SUBSET Nat /\ 0..x \in SUBSET Nat
    BY <2>1
  <2>4. <<0..y, t>> \in StrictSubsetOrdering(Nat)
    BY <1>3, <2>2, <2>3 DEF StrictSubsetOrdering
  <2> QED BY <1>2, <2>3, <2>4
<1> QED BY <1>4 DEF Min

LEMMA MasterIsBest ==
  ASSUME TableInv, TableTypes', OrderedTo(Listed, total)', NumbersTo(total),
         UNCHANGED <<pools, total, poolNo, removed, state, idle>>,
         currentpool \in Listed, currentpool' = pools[MasterNo(prio')], currentpool' # currentpool
  PROVE  Usable(currentpool') /\ \A p \in Listed : Usable(p) => prio'[currentpool'] <= prio'[p]
<1>0. /\ total \in Nat /\ total >= 1 /\ prio' \in [Pool -> Nat]
      /\ \A i \in 0..total - 1 : pools[i] \in Listed /\ pools[i] \in Pool /\ poolNo[pools[i]] = i
      /\ \A p \in Listed : p \in Pool /\ poolNo[p] \in 0..total - 1 /\ pools[poolNo[p]] = p
  BY PoolCount DEF TableTypes, NumbersTo, Listed, TableInv
<1>1. \A k \in 0..total - 1 : \E p \in Listed : prio'[p] = k
  <2>1. NumbersTo(total)'
    BY DEF NumbersTo
  <2>2. PrioritiesArePermutation'
    BY <2>1, OrderIsPermutation, PTL
  <2> QED BY <2>2 DEF PrioritiesArePermutation, Listed
<1>2. \A p, q \in Listed : prio'[p] \in 0..total - 1 /\ (prio'[p] = prio'[q] => p = q)
  BY <1>0 DEF OrderedTo, Listed
<1> DEFINE At(k) == PriorityPool(prio', k)
<1>3. \A k \in 0..total - 1 : At(k) \in Listed /\ prio'[At(k)] = k
  <2> SUFFICES ASSUME NEW k \in 0..total - 1 PROVE At(k) \in Listed /\ prio'[At(k)] = k
    OBVIOUS
  <2> DEFINE found == {i \in 0..total - 1 : prio'[pools[i]] = k}
  <2>1. found # {} /\ found \in SUBSET Nat
    BY <1>0, <1>1
  <2>2. Min(found) \in found
    BY <2>1, LeastOf
  <2> QED BY <1>0, <2>1, <2>2 DEF PriorityPool
<1> HIDE DEF At
<1> DEFINE usable == {i \in 0..total - 1 : Usable(At(i))}
<1>4. MasterNo(prio') = IF usable = {} THEN poolNo[currentpool] ELSE poolNo[At(Min(usable))]
  BY DEF MasterNo, At
<1>5. usable # {}
  BY <1>0, <1>4
<1>6. Min(usable) \in usable /\ \A i \in usable : Min(usable) <= i
  BY <1>0, <1>5, LeastOf
<1>7. currentpool' = At(Min(usable))
  BY <1>0, <1>3, <1>4, <1>5, <1>6
<1>8. ASSUME NEW p \in Listed, Usable(p) PROVE prio'[p] \in usable
  <2>1. prio'[p] \in 0..total - 1 /\ At(prio'[p]) = p
    BY <1>2, <1>3
  <2> QED BY <1>8, <2>1
<1> QED BY <1>3, <1>6, <1>7, <1>8

(* Who moves to another pool while a pool is mined goes by __switch_pools. *)
LEMMA MoveIsBest ==
  ASSUME TableInv, [Next]_vars,
         poolsActive, strategy \in MasterStrategies, ~Rewriting, currentpool \in Listed,
         currentpool' # currentpool
  PROVE  Usable(currentpool') /\ \A p \in Listed : Usable(p) => prio'[currentpool'] <= prio'[p]
<1>1. \E selected :
        /\ SwitchPools(selected)
        /\ UNCHANGED <<pools, total, poolNo, removed, state, idle, strategy>>
        /\ opc' \in {opc, "ready", "removeTest"}
  <2>1. ~UNCHANGED vars
    BY DEF vars
  <2>2. ~Command
    BY DEF Command, OpSwitch, OpEnable, OpDisable, OpRemove, OpStrategy, OpAdd, OpPriority
  <2>3. CASE OperatorStep
    <3>1. OpSwitchPools
      BY <2>3 DEF OperatorStep, OpTest, OpDisableRemoved, OpBoost, OpReplace, OpCount, OpAppend, OpDetails
    <3> QED BY <3>1 DEF OpSwitchPools, OpEnd, OpGoto
  <2>4. CASE WatchStep
    <3>1. WSwitchPools
      BY <2>4 DEF WatchStep, WPool, WFailover, WRotate, WIdle
    <3> QED BY <3>1 DEF WSwitchPools, UnchangedByWatch, opVars
  <2>5. ~RotatePeriod
    BY DEF RotatePeriod
  <2>6. ASSUME NEW p \in Pool PROVE ~PoolEvent(p) /\ ~Age(p)
    BY DEF PoolEvent, PoolDied, StratumResumed, ShareAccepted, ShareRejected, Age
  <2>7. ASSUME NEW p \in Pool, PoolStep(p)
        PROVE  PSwitchPools(p)
    BY <2>7 DEF PoolStep, PTest, PFirst, PEnable, PReject, PTestCurrent
  <2>8. CASE \E p \in Pool : PoolStep(p)
    BY <2>7, <2>8 DEF PSwitchPools, opVars
  <2> QED BY <2>1, <2>2, <2>3, <2>4, <2>5, <2>6, <2>8 DEF Next, Step
<1>2. TableInv'
  BY StepInv
<1>3. TableTypes' /\ OrderedTo(Listed, total)' /\ NumbersTo(total)
  BY <1>1, <1>2 DEF TableInv, Numbering, Order, Rewriting
<1>4. currentpool' = pools[MasterNo(prio')]
  BY <1>1 DEF SwitchPools
<1> QED BY <1>1, <1>3, <1>4, MasterIsBest

(* With a failover strategy, whoever moves from a listed pool to another   *)
(* moves to the usable pool with the first priority, also when the         *)
(* priorities change in the same switch.                                   *)
THEOREM FailoverMovesToBest == Spec => MovesToBestPool
<1>1. TableInv /\ [Next]_vars =>
        [/\ poolsActive /\ strategy \in MasterStrategies /\ ~Rewriting
         /\ currentpool \in Listed /\ currentpool' # currentpool
         => /\ Usable(currentpool')
            /\ \A p \in Listed : Usable(p) => prio'[currentpool'] <= prio'[p]]_vars
  BY MoveIsBest
<1> QED BY <1>1, TableAlways, PTL DEF Spec, MovesToBestPool
----------------------------------------------------------------------------
(* Type correctness.                                                       *)

(* Besides the types: every place below total has a pool, also while the   *)
(* last is counted off, and watchpool_thread stays within the array.       *)
TypeInv ==
  /\ TypeOK
  /\ \A i \in 0..total - 1 : pools[i] \in Pool
  /\ wpc \in {"failover", "failoverSwitch"} => wi < Cardinality(Pool)

OpLabels == {"ready", "select", "enableTest", "disableTest", "removeSwitch", "removeTest", "disable",
             "boost", "replace", "count", "append", "prioTest", "switch", "details"}
PoolLabels == {"none", "testing", "first", "firstSwitch", "run", "test", "switch", "enable", "reject"}

LEMMA InitTypes == Init => TypeInv
<1> SUFFICES ASSUME Init PROVE TypeInv
  OBVIOUS
<1>1. TableInv
  BY InitInv
<1>2. NumbersTo(total) /\ TableTypes
  BY <1>1 DEF TableInv, Numbering, Init
<1>3. scene \in Scenes /\ scene \in Scene
  BY PoolManagerAssumption DEF Init, PoolManagerAssumption
<1>4. InitPools[1] \in Pool /\ RejectLimit \in Nat /\ InitStrategy \in Strategies
  BY PoolManagerAssumption DEF PoolManagerAssumption
<1>5. state \in [Pool -> States] /\ scene.ops \in Nat
  BY <1>3 DEF Init, Scene
<1>6. idle \in [Pool -> BOOLEAN] /\ ppc \in [Pool -> {"testing", "none"}]
  BY DEF Init
<1>7. TypeOK
  <2>1. <<>> \in Seq(Pool) /\ aged \in [Pool -> BOOLEAN] /\ seqRejects \in [Pool -> 0..RejectLimit + 1]
    BY <1>4 DEF Init
  <2>2. opc = "ready" /\ oparg = <<>> /\ ops = 0 /\ wpc = "off" /\ wi = 0 /\ wpool = NoPool
    BY DEF Init
  <2>3. /\ currentpool \in Pool /\ poolsActive = FALSE /\ strategy \in Strategies /\ enabledPools = 0
        /\ rotateDue = FALSE
    BY <1>4 DEF Init
  <2>4. /\ opc \in OpLabels /\ oparg \in Seq(Pool) \cup Seq(Nat) /\ ops \in 0..scene.ops
        /\ wi \in 0..Cardinality(Pool) /\ wpool \in Pool \cup {NoPool} /\ ppc \in [Pool -> PoolLabels]
    BY <1>5, <1>6, <2>1, <2>2, PoolCount DEF OpLabels, PoolLabels
  <2>5. rotateDue \in BOOLEAN /\ poolsActive \in BOOLEAN
    BY <2>3
  <2>6. /\ enabledPools \in Int /\ currentpool \in Pool \cup {NoPool}
        /\ wpc \in {"off", "pool", "failover", "failoverSwitch", "rotate", "rotateSwitch", "idle",
                    "idleSwitch"}
    BY <2>2, <2>3
  <2> QED BY <1>2, <1>3, <1>5, <1>6, <2>1, <2>3, <2>4, <2>5, <2>6 DEF TypeOK, TableTypes, OpLabels, PoolLabels
<1> QED BY <1>2, <1>7 DEF TypeInv, NumbersTo, Init

(* __switch_pools reads no wild number.                                    *)
LEMMA SwitchTypes ==
  ASSUME TypeInv, currentpool \in Pool, NEW selected \in Pool \cup {NoPool}, SwitchPools(selected)
  PROVE  currentpool' \in Pool \cup {NoPool}
<1>1. /\ total \in Nat /\ total >= 1 /\ total <= Cardinality(Pool) /\ Cardinality(Pool) \in Nat
      /\ poolNo \in [Pool -> Slots] /\ pools \in [Slots -> Pool \cup {NoPool}]
      /\ \A i \in 0..total - 1 : pools[i] \in Pool
  BY PoolCount DEF TypeInv, TypeOK
<1>2. MasterNo(prio') \in Slots
  <2> DEFINE usable == {i \in 0..total - 1 : Usable(PriorityPool(prio', i))}
  <2>1. MasterNo(prio') = IF usable = {} THEN poolNo[currentpool]
                          ELSE poolNo[PriorityPool(prio', Min(usable))]
    BY DEF MasterNo
  <2>2. usable # {} => Min(usable) \in 0..total - 1
    <3>1. usable \in SUBSET Nat /\ usable \subseteq 0..total - 1
      BY <1>1
    <3> QED BY <3>1, LeastOf
  <2> HIDE DEF usable
  <2>3. \A k \in 0..total - 1 : PriorityPool(prio', k) \in Pool
    <3> SUFFICES ASSUME NEW k \in 0..total - 1 PROVE PriorityPool(prio', k) \in Pool
      OBVIOUS
    <3> DEFINE found == {i \in 0..total - 1 : prio'[pools[i]] = k}
    <3>1. PriorityPool(prio', k) = IF found # {} THEN pools[Min(found)] ELSE pools[k]
      BY DEF PriorityPool
    <3>2. found # {} => Min(found) \in 0..total - 1
      <4>1. found \in SUBSET Nat /\ found \subseteq 0..total - 1
        BY <1>1
      <4> QED BY <4>1, LeastOf
    <3> HIDE DEF found
    <3> QED BY <1>1, <3>1, <3>2
  <2> QED BY <1>1, <2>1, <2>2, <2>3
<1>3. NextNo(selected) \in Slots
  <2> DEFINE no == poolNo[currentpool]
             Nth(k) == IF no >= total THEN k - 1 ELSE (no + k) % total
             usable == {k \in 1..total - 1 : Usable(pools[Nth(k)])}
  <2>1. NextNo(selected) = IF selected # NoPool /\ ~idle[selected] THEN poolNo[selected]
                           ELSE IF usable = {} THEN no ELSE Nth(Min(usable))
    BY DEF NextNo
  <2>2. usable # {} => Min(usable) \in 1..total - 1
    <3>1. usable \in SUBSET Nat /\ usable \subseteq 1..total - 1
      BY <1>1
    <3> QED BY <3>1, LeastOf
  <2> HIDE DEF usable
  <2>3. no \in Slots /\ (selected # NoPool => poolNo[selected] \in Slots)
    BY <1>1
  <2>4. \A k \in 1..total - 1 : Nth(k) \in Slots
    BY <1>1, <2>3 DEF Slots
  <2> HIDE DEF no, Nth
  <2> QED BY <2>1, <2>2, <2>3, <2>4
<1> QED BY <1>1, <1>2, <1>3 DEF SwitchPools

(* What TypeOK says of one variable or two, as facts to cite. *)
LEMMA TypeFacts ==
  ASSUME TypeInv
  PROVE  /\ scene \in Scenes /\ scene.ops \in Nat /\ state \in [Pool -> States]
         /\ idle \in [Pool -> BOOLEAN] /\ aged \in [Pool -> BOOLEAN]
         /\ seqRejects \in [Pool -> 0..RejectLimit + 1] /\ RejectLimit \in Nat
         /\ enabledPools \in Int /\ opc \in OpLabels /\ oparg \in Seq(Pool) \cup Seq(Nat)
         /\ ops \in 0..scene.ops /\ ppc \in [Pool -> PoolLabels]
         /\ wi \in 0..Cardinality(Pool) /\ Cardinality(Pool) \in Nat /\ wpool \in Pool \cup {NoPool}
         /\ total \in 1..Cardinality(Pool) /\ \A i \in 0..total - 1 : pools[i] \in Pool
         /\ wpc \in {"failover", "failoverSwitch"} => wi < Cardinality(Pool)
BY PoolManagerAssumption, PoolCount
DEF TypeInv, TypeOK, OpLabels, PoolLabels, PoolManagerAssumption, Scene

LEMMA StateTypes ==
  ASSUME TypeInv, NEW p, NEW s \in States, EnablePool(p) \/ LeaveEnabled(p, s) \/ SetState(p, s)
  PROVE  state' \in [Pool -> States] /\ enabledPools' \in Int
<1>1. state \in [Pool -> States] /\ enabledPools \in Int
  BY TypeFacts
<1>2. enabledPools' \in Int
  BY <1>1 DEF EnablePool, LeaveEnabled, SetState
<1>3. PICK t \in States : state' = [state EXCEPT ![p] = t]
  BY DEF EnablePool, LeaveEnabled, SetState, States
<1>4. state' \in [Pool -> States]
  BY <1>1, <1>3
<1> QED BY <1>2, <1>4

(* The console's own variables, and the states it sets. *)
LEMMA CommandTypes ==
  ASSUME TypeInv, UNCHANGED scene, Command
  PROVE  /\ opc' \in OpLabels /\ oparg' \in Seq(Pool) \cup Seq(Nat) /\ ops' \in 0..scene'.ops
         /\ state' \in [Pool -> States] /\ enabledPools' \in Int /\ strategy' \in Strategies
         /\ UNCHANGED <<idle, seqRejects, timeVars, currentpool, poolsActive, watchVars, ppc>>
<1>0. /\ scene.ops \in Nat /\ \A p \in Listed : p \in Pool
      /\ state \in [Pool -> States] /\ enabledPools \in Int /\ strategy \in Strategies
      /\ ops \in 0..scene.ops
  BY TypeFacts DEF Listed, TypeInv, TypeOK
<1>1. ASSUME NEW p \in Pool, NEW s \in {"enabled", "disabled"}, SetState(p, s)
      PROVE  state' \in [Pool -> States] /\ enabledPools' \in Int
  BY <1>1, StateTypes DEF States
<1>2. ASSUME NEW c, NEW arg, NEW label, Begin(c, arg, label)
      PROVE  opc' = label /\ oparg' = arg /\ ops' \in 0..scene'.ops
  BY <1>0, <1>2 DEF Begin
<1>3. ASSUME NEW p \in Listed, OpSwitch(p) \/ OpEnable(p) \/ OpDisable(p) \/ OpRemove(p)
      PROVE  /\ opc' \in OpLabels /\ oparg' = <<p>> /\ ops' \in 0..scene'.ops
             /\ state' \in [Pool -> States] /\ enabledPools' \in Int /\ strategy' \in Strategies
             /\ UNCHANGED <<idle, seqRejects, timeVars, currentpool, poolsActive, watchVars, ppc>>
  <2>1. CASE OpSwitch(p)
    BY <1>0, <1>1, <1>2, <2>1 DEF OpSwitch, OpLabels
  <2>2. CASE OpEnable(p)
    BY <1>0, <1>1, <1>2, <2>2 DEF OpEnable, OpLabels
  <2>3. CASE OpDisable(p)
    BY <1>0, <1>1, <1>2, <2>3 DEF OpDisable, OpLabels
  <2>4. CASE OpRemove(p)
    BY <1>0, <1>2, <2>4 DEF OpRemove, OpLabels
  <2> QED BY <1>3, <2>1, <2>2, <2>3, <2>4
<1>4. \A p \in Listed : <<p>> \in Seq(Pool)
  BY <1>0
<1>5. <<>> \in Seq(Pool)
  OBVIOUS
<1>6. ASSUME NEW s \in Strategies, OpStrategy(s)
      PROVE  /\ opc' \in OpLabels /\ oparg' = <<>> /\ ops' \in 0..scene'.ops
             /\ state' \in [Pool -> States] /\ enabledPools' \in Int /\ strategy' \in Strategies
             /\ UNCHANGED <<idle, seqRejects, timeVars, currentpool, poolsActive, watchVars, ppc>>
  BY <1>0, <1>2, <1>6 DEF OpStrategy, OpLabels
<1>7. ASSUME NEW p \in Pool, OpAdd(p)
      PROVE  /\ opc' \in OpLabels /\ oparg' \in Seq(Pool) /\ ops' \in 0..scene'.ops
             /\ state' \in [Pool -> States] /\ enabledPools' \in Int /\ strategy' \in Strategies
             /\ UNCHANGED <<idle, seqRejects, timeVars, currentpool, poolsActive, watchVars, ppc>>
  <2>1. <<p>> \in Seq(Pool)
    OBVIOUS
  <2> QED BY <1>0, <1>2, <1>7, <2>1 DEF OpAdd, OpLabels, States
<1>8. ASSUME NEW n \in 1..total, NEW nos \in [1..n -> 0..total - 1], OpPriority(nos)
      PROVE  /\ opc' \in OpLabels /\ oparg' \in Seq(Nat) /\ ops' \in 0..scene'.ops
             /\ state' \in [Pool -> States] /\ enabledPools' \in Int /\ strategy' \in Strategies
             /\ UNCHANGED <<idle, seqRejects, timeVars, currentpool, poolsActive, watchVars, ppc>>
  <2>1. n \in Nat /\ 0..total - 1 \subseteq Nat
    BY TypeFacts
  <2>2. nos \in Seq(Nat)
    BY <2>1
  <2> QED BY <1>0, <1>2, <1>8, <2>2 DEF OpPriority, OpLabels
<1> QED BY <1>3, <1>4, <1>5, <1>6, <1>7, <1>8 DEF Command

LEMMA OperatorTypes ==
  ASSUME TypeInv, OperatorStep
  PROVE  /\ opc' \in OpLabels /\ oparg' \in Seq(Pool) \cup Seq(Nat) /\ ops' = ops
         /\ state' \in [Pool -> States] /\ enabledPools' \in Int /\ idle' \in [Pool -> BOOLEAN]
         /\ ppc' \in [Pool -> PoolLabels]
         /\ UNCHANGED <<seqRejects, timeVars, poolsActive, strategy, watchVars>>
<1>0. /\ state \in [Pool -> States] /\ enabledPools \in Int /\ idle \in [Pool -> BOOLEAN]
      /\ oparg \in Seq(Pool) \cup Seq(Nat) /\ ppc \in [Pool -> PoolLabels] /\ <<>> \in Seq(Pool)
  BY TypeFacts
<1>1. opc' \in OpLabels /\ oparg' \in {oparg, <<>>} /\ ops' = ops
  BY DEF OperatorStep, OpTest, OpSwitchPools, OpDisableRemoved, OpBoost, OpReplace, OpCount, OpAppend,
         OpDetails, OpGoto, OpEnd, OpLabels
<1>2. UNCHANGED <<seqRejects, timeVars, poolsActive, strategy, watchVars>>
  BY DEF OperatorStep, OpTest, OpSwitchPools, OpDisableRemoved, OpBoost, OpReplace, OpCount, OpAppend,
         OpDetails
<1>3. CASE OpDisableRemoved
  <2>1. state' \in [Pool -> States] /\ enabledPools' \in Int
    <3>1. SetState(oparg[1], "disabled") /\ "disabled" \in States
      BY <1>3 DEF OpDisableRemoved, States
    <3> QED BY <3>1, StateTypes
  <2> QED BY <1>0, <1>1, <1>2, <1>3, <2>1 DEF OpDisableRemoved
<1>4. CASE OpDetails
  <2>1. idle' \in [Pool -> BOOLEAN]
    BY <1>0, <1>4 DEF OpDetails
  <2>2. ppc' \in [Pool -> PoolLabels]
    BY <1>0, <1>4 DEF OpDetails, PoolLabels
  <2>3. state' \in [Pool -> States] /\ enabledPools' \in Int
    <3>1. EnablePool(oparg[1]) /\ "enabled" \in States
      BY <1>4 DEF OpDetails, States
    <3> QED BY <3>1, StateTypes
  <2> QED BY <1>0, <1>1, <1>2, <2>1, <2>2, <2>3
<1>5. CASE ~OpDisableRemoved /\ ~OpDetails
  <2>1. UNCHANGED <<state, enabledPools, idle, ppc>>
    BY <1>5 DEF OperatorStep, OpTest, OpSwitchPools, OpBoost, OpReplace, OpCount, OpAppend
  <2> QED BY <1>0, <1>1, <1>2, <2>1
<1> QED BY <1>3, <1>4, <1>5

(* The pools' threads and watchpool_thread. *)
LEMMA ThreadTypes ==
  ASSUME TypeInv, NEW q \in Pool, WatchStep \/ RotatePeriod \/ PoolStep(q) \/ PoolEvent(q) \/ Age(q)
  PROVE  /\ state' \in [Pool -> States] /\ enabledPools' \in Int /\ seqRejects' \in [Pool -> 0..RejectLimit + 1]
         /\ idle' \in [Pool -> BOOLEAN] /\ aged' \in [Pool -> BOOLEAN]
         /\ rotateDue' \in BOOLEAN /\ poolsActive' \in BOOLEAN
         /\ wpc' \in {"off", "pool", "failover", "failoverSwitch", "rotate", "rotateSwitch", "idle", "idleSwitch"}
         /\ wi' \in 0..Cardinality(Pool) /\ wpool' \in Pool \cup {NoPool} /\ ppc' \in [Pool -> PoolLabels]
         /\ wpc' \in {"failover", "failoverSwitch"} => wi' < Cardinality(Pool)
         /\ UNCHANGED <<strategy, opVars>>
<1>0. /\ wpc \in {"off", "pool", "failover", "failoverSwitch", "rotate", "rotateSwitch", "idle", "idleSwitch"}
      /\ rotateDue \in BOOLEAN /\ poolsActive \in BOOLEAN
  BY DEF TypeInv, TypeOK
<1>1. UNCHANGED <<strategy, opVars>>
  BY DEF WatchStep, WPool, WFailover, WRotate, WIdle, WSwitchPools, UnchangedByWatch, RotatePeriod, Age,
         PoolStep, PTest, PFirst, PEnable, PReject, PTestCurrent, PSwitchPools,
         PoolEvent, PoolDied, StratumResumed, ShareAccepted, ShareRejected
<1>2. CASE WatchStep
  <2>1. UNCHANGED <<state, enabledPools, seqRejects, poolsActive, ppc>>
    BY <1>2 DEF WatchStep, WPool, WFailover, WRotate, WIdle, WSwitchPools, UnchangedByWatch
  <2>2. idle' \in [Pool -> BOOLEAN] /\ aged' \in [Pool -> BOOLEAN]
    BY <1>2, TypeFacts DEF WatchStep, WPool, WFailover, WRotate, WIdle, WSwitchPools, timeVars
  <2>3. rotateDue' \in BOOLEAN
    BY <1>0, <1>2 DEF WatchStep, WPool, WFailover, WRotate, WIdle, WSwitchPools, timeVars
  <2>4. /\ wpc' \in {"off", "pool", "failover", "failoverSwitch", "rotate", "rotateSwitch", "idle", "idleSwitch"}
        /\ wi' \in 0..Cardinality(Pool)
        /\ wpc' \in {"failover", "failoverSwitch"} => wi' < Cardinality(Pool)
    BY <1>2, TypeFacts DEF WatchStep, WPool, WFailover, WRotate, WIdle, WSwitchPools
  <2>5. wpool' \in Pool \cup {NoPool}
    BY <1>2, TypeFacts DEF WatchStep, WPool, WFailover, WRotate, WIdle, WSwitchPools
  <2> QED BY <1>0, <1>1, <2>1, <2>2, <2>3, <2>4, <2>5, TypeFacts
<1>3. CASE RotatePeriod \/ Age(q)
  <2>1. UNCHANGED <<state, enabledPools, seqRejects, poolsActive, idle, watchVars, ppc>>
    BY <1>3 DEF RotatePeriod, Age
  <2>2. rotateDue' \in BOOLEAN /\ aged' \in [Pool -> BOOLEAN]
    BY <1>0, <1>3, TypeFacts DEF RotatePeriod, Age
  <2> QED BY <1>0, <1>1, <2>1, <2>2, TypeFacts DEF watchVars
<1>4. CASE PoolStep(q) \/ PoolEvent(q)
  <2>1. UNCHANGED <<rotateDue, wi, wpool>> /\ poolsActive' \in BOOLEAN /\ wpc' \in {wpc, "pool"}
    BY <1>0, <1>4
    DEF PoolStep, PTest, PFirst, PEnable, PReject, PTestCurrent, PSwitchPools, PoolEvent, PoolDied,
        StratumResumed, ShareAccepted, ShareRejected, timeVars, watchVars
  <2>2. state' \in [Pool -> States] /\ enabledPools' \in Int
    <3>1. CASE PEnable(q) \/ PReject(q)
      BY <3>1, StateTypes, TypeFacts DEF PEnable, PReject, States
    <3>2. CASE ~PEnable(q) /\ ~PReject(q)
      <4>1. UNCHANGED <<state, enabledPools>>
        BY <1>4, <3>2
        DEF PoolStep, PTest, PFirst, PTestCurrent, PSwitchPools, PoolEvent, PoolDied,
            StratumResumed, ShareAccepted, ShareRejected
      <4> QED BY <4>1, TypeFacts
    <3> QED BY <3>1, <3>2
  <2>3. idle' \in [Pool -> BOOLEAN] /\ aged' \in [Pool -> BOOLEAN]
    BY <1>4, TypeFacts
    DEF PoolStep, PTest, PFirst, PEnable, PReject, PTestCurrent, PSwitchPools, PoolEvent, PoolDied,
        StratumResumed, ShareAccepted, ShareRejected, timeVars
  <2>4. ppc' \in [Pool -> PoolLabels]
    BY <1>4, TypeFacts
    DEF PoolStep, PTest, PFirst, PEnable, PReject, PTestCurrent, PSwitchPools, PoolEvent, PoolDied,
        StratumResumed, ShareAccepted, ShareRejected, PGoto, PoolLabels
  <2>5. seqRejects' \in [Pool -> 0..RejectLimit + 1]
    <3>1. ASSUME NEW stale, ShareRejected(q, stale) PROVE seqRejects' \in [Pool -> 0..RejectLimit + 1]
      <4> DEFINE n == seqRejects[q] + 1
                 least == Min({n, RejectLimit + 1})
      <4>1. n \in 0..RejectLimit + 2 /\ n \in Nat /\ RejectLimit + 1 \in Nat
        BY TypeFacts
      <4>2. least \in {n, RejectLimit + 1} /\ least <= RejectLimit + 1
        BY <4>1, LeastOf
      <4>3. least \in 0..RejectLimit + 1
        BY <4>1, <4>2
      <4>4. seqRejects' = [seqRejects EXCEPT ![q] = least]
        BY <3>1 DEF ShareRejected
      <4> HIDE DEF least
      <4> QED BY <4>3, <4>4, TypeFacts
    <3>2. CASE ShareAccepted(q) \/ PReject(q)
      BY <3>2, TypeFacts DEF ShareAccepted, PReject
    <3>3. CASE PoolDied(q) \/ StratumResumed(q) \/ (PoolStep(q) /\ ~PReject(q))
      <4>1. seqRejects' = seqRejects
        BY <3>3
        DEF PoolStep, PTest, PFirst, PEnable, PTestCurrent, PSwitchPools, PoolDied, StratumResumed
      <4> QED BY <4>1, TypeFacts
    <3> QED BY <1>4, <3>1, <3>2, <3>3 DEF PoolEvent
  <2> QED BY <1>0, <1>1, <2>1, <2>2, <2>3, <2>4, <2>5, TypeFacts
<1> QED BY <1>2, <1>3, <1>4

LEMMA ChoiceTypes ==
  ASSUME TypeInv, TableInv, currentpool \in Pool, NEW q \in Pool,
         OperatorStep \/ WatchStep \/ RotatePeriod \/ PoolStep(q) \/ PoolEvent(q) \/ Age(q)
  PROVE  currentpool' \in Pool \cup {NoPool}
<1>1. ASSUME \E selected \in Pool \cup {NoPool} : SwitchPools(selected)
      PROVE  currentpool' \in Pool \cup {NoPool}
  BY <1>1, SwitchTypes
<1>2. CASE OpSwitchPools
  <2>1. opc = "select" => oparg[1] \in Pool
    BY TypeFacts DEF TableInv, Arguments, Holding, Listed
  <2> QED BY <1>1, <1>2, <2>1 DEF OpSwitchPools
<1>3. CASE WSwitchPools \/ PSwitchPools(q)
  BY <1>1, <1>3 DEF WSwitchPools, PSwitchPools
<1>4. CASE PFirst(q)
  BY <1>4 DEF PFirst
<1>5. CASE ~OpSwitchPools /\ ~WSwitchPools /\ ~PSwitchPools(q) /\ ~PFirst(q)
  <2>1. currentpool' = currentpool
    BY <1>5
    DEF OperatorStep, OpTest, OpDisableRemoved, OpBoost, OpReplace, OpCount, OpAppend, OpDetails,
        WatchStep, WPool, WFailover, WRotate, WIdle, RotatePeriod, Age, PoolStep, PTest, PEnable, PReject,
        PTestCurrent, PoolEvent, PoolDied, StratumResumed, ShareAccepted, ShareRejected, timeVars
  <2> QED BY <2>1
<1> QED BY <1>2, <1>3, <1>4, <1>5

(* Only remove_pool counts a pool off, after the last one took its place.  *)
LEMMA PlacesAreFull ==
  ASSUME TypeInv, TableInv, TableInv', Command \/ OperatorStep
  PROVE  \A i \in 0..total' - 1 : pools'[i] \in Pool
<1>1. CASE opc' # "count"
  BY <1>1 DEF TableInv, Numbering, NumbersTo
<1>2. CASE opc' = "count"
  <2>1. OpReplace
    <3>1. ~Command
      BY <1>2
      DEF Command, OpSwitch, OpEnable, OpDisable, OpRemove, OpStrategy, OpAdd, OpPriority, Begin
    <3>2. OperatorStep
      BY <3>1
    <3> QED
      BY <1>2, <3>2
      DEF OperatorStep, OpTest, OpSwitchPools, OpDisableRemoved, OpBoost, OpCount, OpAppend, OpDetails,
          OpGoto, OpEnd
  <2>2. pools \in [Slots -> Pool \cup {NoPool}] /\ pools[total - 1] \in Pool /\ total' = total
    BY <2>1, TypeFacts DEF OpReplace, TypeInv, TypeOK
  <2>3. pools' = pools \/ \E n : pools' = [pools EXCEPT ![n] = pools[total - 1]]
    BY <2>1 DEF OpReplace
  <2>4. \A i \in 0..total - 1 : i \in Slots /\ pools[i] \in Pool
    BY TypeFacts DEF Slots
  <2> QED BY <2>2, <2>3, <2>4
<1> QED BY <1>1, <1>2

LEMMA StepTypes == TypeInv /\ TableInv /\ [Next]_vars => TypeInv'
<1> SUFFICES ASSUME TypeInv, TableInv, [Next]_vars PROVE TypeInv'
  OBVIOUS
<1>1. CASE UNCHANGED vars
  <2>1. UNCHANGED <<scene, pools, total, prio, poolNo, removed, state, idle, seqRejects, aged>>
    BY <1>1 DEF vars, tableVars, timeVars
  <2>2. UNCHANGED <<rotateDue, currentpool, poolsActive, strategy, enabledPools, opc, oparg, ops>>
    BY <1>1 DEF vars, timeVars, opVars
  <2>3. UNCHANGED <<wpc, wi, wpool, ppc>>
    BY <1>1 DEF vars, watchVars
  <2>4. TypeOK'
    BY <2>1, <2>2, <2>3 DEF TypeInv, TypeOK
  <2> QED BY <2>1, <2>3, <2>4 DEF TypeInv
<1>2. CASE Next
  <2>1. TableInv' /\ TableTypes'
    BY StepInv DEF TableInv
  <2>2. /\ UNCHANGED scene /\ currentpool \in Pool
        /\ \/ Command \/ OperatorStep
           \/ \E q \in Pool : WatchStep \/ RotatePeriod \/ PoolStep(q) \/ PoolEvent(q) \/ Age(q)
    <3>1. currentpool \in Pool \cup {NoPool} /\ InitPools[1] \in Pool
      BY PoolManagerAssumption DEF TypeInv, TypeOK, PoolManagerAssumption
    <3> QED BY <1>2, <3>1 DEF Next, Step, Crashed
  <2>3. /\ scene' \in Scenes /\ scene'.ops = scene.ops
        /\ idle \in [Pool -> BOOLEAN] /\ aged \in [Pool -> BOOLEAN] /\ poolsActive \in BOOLEAN
        /\ rotateDue \in BOOLEAN /\ strategy \in Strategies
        /\ wpc \in {"off", "pool", "failover", "failoverSwitch", "rotate", "rotateSwitch", "idle", "idleSwitch"}
    BY <2>2 DEF TypeInv, TypeOK
  <2> USE DEF TypeInv, TypeOK, TableTypes, OpLabels, PoolLabels, timeVars, watchVars, opVars
  <2>4. CASE Command
    <3>1. \A i \in 0..total' - 1 : pools'[i] \in Pool
      BY <2>1, <2>4, PlacesAreFull
    <3> QED BY <2>1, <2>2, <2>3, <2>4, <3>1, CommandTypes, TypeFacts
  <2>5. CASE OperatorStep
    <3>1. \A i \in 0..total' - 1 : pools'[i] \in Pool
      BY <2>1, <2>5, PlacesAreFull
    <3>2. currentpool' \in Pool \cup {NoPool}
      BY <2>2, <2>5, ChoiceTypes
    <3> QED BY <2>1, <2>2, <2>3, <2>5, <3>1, <3>2, OperatorTypes, TypeFacts
  <2>6. ASSUME NEW q \in Pool, WatchStep \/ RotatePeriod \/ PoolStep(q) \/ PoolEvent(q) \/ Age(q)
        PROVE  TypeInv'
    <3>1. \A i \in 0..total' - 1 : pools'[i] \in Pool
      BY <2>6, OthersLeaveTable, TypeFacts DEF tableVars
    <3>2. currentpool' \in Pool \cup {NoPool}
      BY <2>2, <2>6, ChoiceTypes
    <3> QED BY <2>1, <2>2, <2>3, <2>6, <3>1, <3>2, ThreadTypes, TypeFacts
  <2> QED BY <2>2, <2>4, <2>5, <2>6
<1> QED BY <1>1, <1>2

(* The pool table, the flags, the commands and the control of every thread *)
(* keep their types; currentpool is a pool, or a wild pointer was read.    *)
THEOREM PoolTypesCorrect == Spec => []TypeOK
<1>1. TypeInv => TypeOK
  BY DEF TypeInv
<1>2. Init /\ [][Next]_vars => []TypeInv
  BY InitTypes, StepTypes, TableAlways, PTL DEF Spec
<1> QED BY <1>1, <1>2, PTL DEF Spec
=============================================================================
