------------------------- MODULE AlgoSwitchProofs -------------------------
(* Proofs about AlgoSwitch, for any threads, devices, pools and settings.  *)
EXTENDS AlgoSwitch, FiniteSetTheorems, TLAPS

(* What TypeOK says but the bounds of the counters. *)
ThreadTypes ==
  /\ pc \in [Thread -> Places]
  /\ work \in [Thread -> Pool] /\ poolNo \in [Thread -> Pool]
  /\ n \in Nat /\ restart \in BOOLEAN
SwitchTypes ==
  /\ config \in Build
  /\ kernel \in [Thread -> Build \cup {None}]
  /\ options \in SUBSET Options
DeviceTypes ==
  /\ deven \in SUBSET Device /\ sick \in SUBSET Device
  /\ sem \in [Thread -> Nat]
BoundTypes ==
  /\ cur \in Pool /\ late \in Pool \cup {None}
  /\ switches \in Nat /\ commands \in Nat
Types == scene \in Scenes /\ ThreadTypes /\ SwitchTypes /\ DeviceTypes /\ BoundTypes

LEMMA UnchangedTypes ==
  /\ SwitchTypes /\ UNCHANGED switchVars => SwitchTypes'
  /\ DeviceTypes /\ UNCHANGED devVars => DeviceTypes'
  /\ BoundTypes /\ UNCHANGED boundVars => BoundTypes'
BY DEF SwitchTypes, switchVars, DeviceTypes, devVars, BoundTypes, boundVars

LEMMA BuildTypes ==
  /\ \A p \in Pool : BuildOf(p) \in Build
  /\ \A c \in Build, p \in Pool :
       /\ [algorithm |-> Settings[p].algorithm, tune |-> c.tune] \in Build
       /\ [algorithm |-> c.algorithm, tune |-> Settings[p].tune] \in Build
BY DEF BuildOf, Build, Algorithms, Tunings

LEMMA CompareTypes == \A p, q \in Pool : Compare(p, q) \in SUBSET Options
BY DEF Compare, Options

LEMMA TypesInit == Init => Types
<1> SUFFICES ASSUME Init PROVE Types
  OBVIOUS
<1> USE DEF Init
<1>1. scene \in Scenes /\ cur \in Pool
  BY SceneAssumption DEF Scene
<1>2. ThreadTypes
  BY <1>1 DEF ThreadTypes, All, Begin, Places, Switching
<1>3. SwitchTypes
  BY <1>1, BuildTypes DEF SwitchTypes, All
<1>4. DeviceTypes
  BY <1>1, SettingsAssumption DEF DeviceTypes, All
<1> QED
  BY <1>1, <1>2, <1>3, <1>4 DEF Types, BoundTypes

LEMMA TypesKept == Types /\ [Next]_vars => Types'
<1> SUFFICES ASSUME Types, [Next]_vars PROVE Types'
  OBVIOUS
<1> USE ThreadAssumption, SettingsAssumption, SceneAssumption DEF Types
<1>1. ASSUME NEW t \in Thread, Step(Pop(t)) PROVE Types'
  <2>1. ThreadTypes' /\ DeviceTypes' /\ BoundTypes'
    BY <1>1 DEF Step, Pop, Goto, ThreadTypes, DeviceTypes, BoundTypes, Places, Switching
  <2> QED
    BY <1>1, <2>1, UnchangedTypes DEF Step, Pop
<1>2. ASSUME NEW t \in Thread, Step(Prepare(t)) PROVE Types'
  <2>1. CASE EnterNothing(t)
    <3>1. ThreadTypes'
      BY <2>1 DEF EnterNothing, Goto, All, ThreadTypes, Places, Switching
    <3>2. SwitchTypes'
      BY <2>1 DEF EnterNothing, SwitchTypes
    <3> QED
      BY <1>2, <2>1, <3>1, <3>2, UnchangedTypes DEF Step, EnterNothing
  <2>2. CASE EnterBarrier(t)
    <3>1. ThreadTypes'
      BY <2>2 DEF EnterBarrier, Goto, ThreadTypes, Places, Switching
    <3>2. Wanted(t) \in SUBSET Options
      BY CompareTypes DEF Wanted, ThreadTypes
    <3>3. SwitchTypes'
      BY <2>2, <3>2 DEF EnterBarrier, SwitchTypes
    <3> QED
      BY <1>2, <2>2, <3>1, <3>3, UnchangedTypes DEF Step, EnterBarrier
  <2>3. CASE Count(t) \/ NotLast(t) \/ Last(t) \/ Clear(t) \/ Wait(t)
    <3>1. ThreadTypes'
      BY <2>3 DEF Count, NotLast, Last, Clear, Wait, Goto, ThreadTypes, Places, Switching
    <3> QED
      BY <1>2, <2>3, <3>1, UnchangedTypes DEF Step, Count, NotLast, Last, Clear, Wait
  <2>4. CASE Shutdown(t)
    <3>1. ThreadTypes' /\ SwitchTypes'
      BY <2>4 DEF Shutdown, Goto, All, ThreadTypes, SwitchTypes, Places, Switching
    <3> QED
      BY <1>2, <2>4, <3>1, UnchangedTypes DEF Step, Shutdown
  <2>5. CASE Apply(t)
    <3>1. ThreadTypes'
      BY <2>5 DEF Apply, Goto, All, ThreadTypes, Places, Switching
    <3>2. Applied(t) \in Build
      <4>1. work[t] \in Pool /\ config \in Build
        BY DEF ThreadTypes, SwitchTypes
      <4>2. config = [algorithm |-> config.algorithm, tune |-> config.tune]
        BY <4>1 DEF Build
      <4> QED
        BY <4>1, <4>2, BuildTypes DEF Applied, BuildOf
    <3>3. SwitchTypes'
      BY <2>5, <3>2 DEF Apply, All, SwitchTypes
    <3> QED
      BY <1>2, <2>5, <3>1, <3>3, UnchangedTypes DEF Step, Apply
  <2>6. CASE HardReset(t)
    <3>1. ThreadTypes' /\ DeviceTypes'
      BY <2>6 DEF HardReset, Goto, ThreadTypes, DeviceTypes, Places, Switching
    <3> QED
      BY <1>2, <2>6, <3>1, UnchangedTypes DEF Step, HardReset
  <2> QED
    BY <1>2, <2>1, <2>2, <2>3, <2>4, <2>5, <2>6 DEF Step, Prepare
<1>3. ASSUME NEW t \in Thread, Step(Hash(t)) PROVE Types'
  <2>1. ThreadTypes'
    BY <1>3 DEF Step, Hash, Start, Finish, Park, Wake, Goto, ThreadTypes, Places, Switching
  <2>2. DeviceTypes'
    BY <1>3 DEF Step, Hash, Start, Finish, Park, Wake, DeviceTypes
  <2> QED
    BY <1>3, <2>1, <2>2, UnchangedTypes DEF Step, Hash, Start, Finish, Park, Wake
<1>4. ASSUME NEW t \in Thread, Step(Kill(t)) PROVE Types'
  <2>1. ThreadTypes'
    BY <1>4 DEF Step, Kill, Goto, ThreadTypes, Places, Switching
  <2> QED
    BY <1>4, <2>1, UnchangedTypes DEF Step, Kill
<1>5. ASSUME Step(RestartThreads) PROVE Types'
  <2>1. ThreadTypes' /\ SwitchTypes' /\ DeviceTypes'
    BY <1>5 DEF Step, RestartThreads, All, Begin, ThreadTypes, SwitchTypes, DeviceTypes, BoundTypes,
         Places, Switching
  <2> QED
    BY <1>5, <2>1, UnchangedTypes DEF Step, RestartThreads
<1>6. ASSUME NEW p \in Pool, Step(SwitchPools(p)) PROVE Types'
  <2>1. ThreadTypes'
    BY <1>6 DEF Step, SwitchPools, ThreadTypes
  <2>2. BoundTypes'
    BY <1>6 DEF Step, SwitchPools, BoundTypes
  <2> QED
    BY <1>6, <2>1, <2>2, UnchangedTypes DEF Step, SwitchPools
<1>7. ASSUME NEW d \in Device, Step(gpudisable(d)) \/ Step(gpuenable(d)) \/ Step(Sicken(d))
      PROVE  Types'
  <2>1. ThreadTypes'
    BY <1>7 DEF Step, gpudisable, gpuenable, Sicken, ThreadTypes
  <2>2. DeviceTypes'
    BY <1>7 DEF Step, gpudisable, gpuenable, Sicken, DeviceTypes, devVars
  <2>3. BoundTypes'
    BY <1>7 DEF Step, gpudisable, gpuenable, Sicken, BoundTypes, boundVars
  <2> QED
    BY <1>7, <2>1, <2>2, <2>3, UnchangedTypes DEF Step, gpudisable, gpuenable, Sicken
<1>8. CASE UNCHANGED vars
  BY <1>8, UnchangedTypes DEF vars, ThreadTypes
<1> QED
  BY <1>1, <1>2, <1>3, <1>4, <1>5, <1>6, <1>7, <1>8 DEF Next

LEMMA TypesInvariant == Spec => []Types
BY TypesInit, TypesKept, PTL DEF Spec

----------------------------------------------------------------------------
(* No thread of an enabled device sleeps on its semaphore without a post   *)
(* on the way, in every scene: whatever gpuenable, gpudisable, mt_disable  *)
(* and the restart of the threads do to each other.                        *)
THEOREM PostsReachThreads == Spec => []EnabledThreadsWake
<1> USE ThreadAssumption
<1>1. Init => EnabledThreadsWake
  BY DEF Init, EnabledThreadsWake, Begin
<1>2. Types /\ EnabledThreadsWake /\ [Next]_vars => EnabledThreadsWake'
  <2> SUFFICES ASSUME Types, EnabledThreadsWake, [Next]_vars,
                      NEW t \in Thread, ~restart', DeviceOf[t] \in deven',
                      pc'[t] \in {"parked", "asleep"}
               PROVE  sem'[t] > 0
    BY DEF EnabledThreadsWake
  <2> USE DEF Types, ThreadTypes, DeviceTypes
  <2>1. CASE UNCHANGED <<sem, deven, restart>> /\ pc'[t] = pc[t]
    BY <2>1 DEF EnabledThreadsWake
  <2>2. ASSUME NEW u \in Thread, Step(Pop(u)) \/ Step(Kill(u))
        PROVE  UNCHANGED <<sem, deven, restart>> /\ pc'[t] = pc[t]
    BY <2>2 DEF Step, Pop, Kill, Goto, devVars
  <2>3. ASSUME NEW u \in Thread, Step(Prepare(u)), ~HardReset(u)
        PROVE  UNCHANGED <<sem, deven, restart>> /\ pc'[t] = pc[t]
    BY <2>3 DEF Step, Prepare, EnterNothing, EnterBarrier, Count, NotLast, Last, Shutdown, Apply,
         Clear, Wait, Goto, devVars
  <2>4. ASSUME NEW u \in Thread, HardReset(u) PROVE FALSE
    BY <2>4 DEF HardReset
  <2>5. ASSUME NEW u \in Thread, Step(Hash(u)) PROVE sem'[t] > 0
    BY <2>5 DEF Step, Hash, Start, Finish, Park, Wake, Goto, EnabledThreadsWake
  <2>6. ASSUME Step(RestartThreads) PROVE FALSE
    BY <2>6 DEF Step, RestartThreads, Begin
  <2>7. ASSUME NEW p \in Pool, Step(SwitchPools(p))
        PROVE  UNCHANGED <<sem, deven, restart>> /\ pc'[t] = pc[t]
    BY <2>7 DEF Step, SwitchPools, devVars
  <2>8. ASSUME NEW d \in Device, Step(gpudisable(d)) \/ Step(gpuenable(d)) \/ Step(Sicken(d))
        PROVE  sem'[t] > 0
    BY <2>8 DEF Step, gpudisable, gpuenable, Sicken, EnabledThreadsWake
  <2>9. ASSUME UNCHANGED vars PROVE UNCHANGED <<sem, deven, restart>> /\ pc'[t] = pc[t]
    BY <2>9 DEF vars, devVars
  <2> QED
    BY <2>1, <2>2, <2>3, <2>4, <2>5, <2>6, <2>7, <2>8, <2>9 DEF Next
<1> QED
  BY <1>1, <1>2, TypesInvariant, PTL DEF Spec

----------------------------------------------------------------------------
(* No device is disabled, enabled or sick; the pool changes at any time.   *)
Undisturbed == scene.maxCommands = 0 /\ ~scene.maySicken

Mining == {t \in Thread : DeviceOf[t] \in deven}
(* Threads that wait for the last one, or have exited to be started anew.  *)
Halted == {"wait", "blocked", "exited"}
Counted == {t \in Thread : pc[t] \in Halted \cup {"check", "shutdown", "apply", "clear", "hard"}}

NobodySick == sick = {} /\ \A t \in Thread : sem[t] = 0
(* The threads of the devices that are not enabled sleep.  During a        *)
(* restart all the others have halted.                                     *)
WhoRuns ==
  IF restart THEN n > 0 /\ "hard" \in options /\ \A t \in Thread : pc[t] \in Halted \cup {"asleep"}
  ELSE \A t \in Thread : pc[t] # "parked" /\ (pc[t] = "asleep" <=> t \notin Mining)
(* One thread has algo_switch_lock.                                        *)
LockExcludes == \A t, u \in Thread : pc[t] \in Switching /\ pc[u] \in Switching => t = u
(* algo_switch_n counts threads that have halted, or are about to.  There  *)
(* may be more: those that a barrier has let go and that did not yet look. *)
CountsHalted == n <= Cardinality(Counted)
(* While one thread changes the settings all the others have halted.       *)
OthersHalt ==
  \A t \in Thread : pc[t] \in {"shutdown", "apply", "clear", "hard"} =>
    n > 0 /\ \A u \in Thread \ {t} : pc[u] \in Halted \cup {"asleep"}
(* What is done is what the options say, and they do not change meanwhile. *)
DoesAsTold ==
  \A t \in Thread :
    /\ pc[t] = "check" => n > 0
    /\ pc[t] \in {"exited", "hard"} => "hard" \in options /\ n > 0
    /\ pc[t] = "clear" => "hard" \notin options
    /\ pc[t] = "shutdown" => "soft" \in options
(* The contexts are released only between the shutdown and the rebuild.    *)
ReleasedInApply ==
  \A t \in Thread : kernel[t] = None => "soft" \in options /\ \E u \in Thread : pc[u] = "apply"

BarrierInv ==
  /\ NobodySick /\ WhoRuns /\ LockExcludes /\ CountsHalted /\ OthersHalt /\ DoesAsTold
  /\ ReleasedInApply

LEMMA CountedIsFinite ==
  /\ Cardinality(Counted) \in Nat /\ Cardinality(Counted') \in Nat
  /\ Counted \subseteq Counted' => Cardinality(Counted) <= Cardinality(Counted')
  /\ \A t \in Thread : Counted' = Counted \cup {t} /\ t \notin Counted
       => Cardinality(Counted') = Cardinality(Counted) + 1
<1>1. Counted \in SUBSET Thread /\ Counted' \in SUBSET Thread
  BY DEF Counted
<1>2. IsFiniteSet(Counted) /\ IsFiniteSet(Counted')
  BY <1>1, ThreadAssumption, FS_Subset
<1>3. Cardinality(Counted) \in Nat /\ Cardinality(Counted') \in Nat
  BY <1>2, FS_CardinalityType
<1>4. Counted \subseteq Counted' => Cardinality(Counted) <= Cardinality(Counted')
  BY <1>2, FS_Subset
<1>5. ASSUME NEW t \in Thread, Counted' = Counted \cup {t}, t \notin Counted
      PROVE  Cardinality(Counted') = Cardinality(Counted) + 1
  BY <1>2, <1>5, FS_AddElement
<1> QED
  BY <1>3, <1>4, <1>5

(* The barrier opens only when all the others that mine have halted: no    *)
(* fewer have than threads mine, and none but those can have.              *)
LEMMA LastFindsHalted ==
  ASSUME Types, sick = {}, \A u \in Thread : pc[u] = "asleep" <=> u \notin Mining,
         LockExcludes, CountsHalted, OthersHalt, NEW t \in Thread, Last(t)
  PROVE  \A u \in Thread \ {t} : pc[u] \in Halted \cup {"asleep"}
<1> USE DEF Types, ThreadTypes
<1>1. pc[t] = "check" /\ n >= Active
  BY DEF Last
<1>2. Active = Cardinality(Mining)
  <2>1. {u \in Thread : DeviceOf[u] \in deven \ sick} = Mining
    BY DEF Mining
  <2> QED
    BY <2>1 DEF Active
<1>3. Counted \in SUBSET Mining
  BY <1>1 DEF Counted, Halted
<1>4. IsFiniteSet(Mining) /\ Cardinality(Mining) \in Nat
  <2>1. Mining \in SUBSET Thread
    BY DEF Mining
  <2> QED
    BY <2>1, ThreadAssumption, FS_Subset, FS_CardinalityType
<1>5. Counted = Mining
  <2>1. Cardinality(Counted) <= Cardinality(Mining)
    BY <1>3, <1>4, FS_Subset
  <2>2. Cardinality(Counted) = Cardinality(Mining)
    BY <1>1, <1>2, <1>4, <2>1, CountedIsFinite DEF CountsHalted
  <2> QED
    BY <1>3, <1>4, <2>2, FS_Subset
<1>6. ASSUME NEW u \in Thread \ {t}, pc[u] # "asleep" PROVE pc[u] \in Halted
  <2>1. u \in Counted
    BY <1>5, <1>6
  <2>2. pc[u] \notin {"check", "shutdown", "apply"}
    BY <1>1, <1>6 DEF LockExcludes, Switching
  <2>3. pc[u] \notin {"clear", "hard"}
    BY <1>1, <1>6 DEF OthersHalt, Halted
  <2> QED
    BY <2>1, <2>2, <2>3 DEF Counted
<1> QED
  BY <1>6

(* A step that changes neither the devices nor the settings, and takes     *)
(* thread t from one place outside of the barrier to another.              *)
LEMMA OutsideSteps ==
  ASSUME Types, BarrierInv, NEW t \in Thread, NEW l \in {"prepare", "start", "hash", "pop"},
         pc' = [pc EXCEPT ![t] = l], pc[t] \in {"pop", "start", "hash"},
         UNCHANGED <<deven, sem, restart, n, switchVars>>, sick' \subseteq sick
  PROVE  BarrierInv'
<1> USE DEF Types, ThreadTypes, BarrierInv
<1>1. Mining' = Mining /\ ~restart
  BY DEF Mining, WhoRuns, Halted
<1>2. NobodySick' /\ WhoRuns'
  BY <1>1 DEF NobodySick, WhoRuns
<1>3. LockExcludes'
  BY DEF LockExcludes, Switching
<1>4. CountsHalted'
  <2>1. Counted' = Counted
    BY DEF Counted, Halted
  <2> QED
    BY <2>1 DEF CountsHalted
<1>5. OthersHalt'
  BY DEF OthersHalt, Halted
<1>6. DoesAsTold' /\ ReleasedInApply'
  BY DEF DoesAsTold, ReleasedInApply, switchVars
<1> QED
  BY <1>2, <1>3, <1>4, <1>5, <1>6

LEMMA PrepareKeeps ==
  ASSUME Types, Types', BarrierInv, NEW t \in Thread, Prepare(t), UNCHANGED scene
  PROVE  BarrierInv'
<1> USE DEF Types, ThreadTypes, SwitchTypes, BarrierInv
<1>1. CASE HardReset(t)
  <2>1. /\ pc[t] = "hard" /\ pc' = [pc EXCEPT ![t] = "exited"] /\ restart'
        /\ UNCHANGED <<n, options, kernel, sick, sem>>
    BY <1>1 DEF HardReset, Goto, switchVars
  <2>2. /\ n > 0 /\ "hard" \in options
        /\ \A u \in Thread : pc'[u] \in Halted \cup {"asleep"} /\ pc[u] \notin Switching
    BY <2>1 DEF OthersHalt, DoesAsTold, Halted, Switching
  <2>3. Counted' = Counted
    BY <2>1 DEF Counted, Halted
  <2> QED
    BY <2>1, <2>2, <2>3 DEF NobodySick, WhoRuns, LockExcludes, CountsHalted, OthersHalt, DoesAsTold,
       ReleasedInApply, Halted, Switching
<1>2. CASE ~HardReset(t)
  <2>1. UNCHANGED <<deven, sick, sem, restart>> /\ Mining' = Mining /\ NobodySick'
    BY <1>2 DEF Prepare, EnterNothing, EnterBarrier, Count, NotLast, Last, Shutdown, Apply, Clear,
       Wait, devVars, Mining, NobodySick
  <2>2. CASE EnterNothing(t) \/ EnterBarrier(t)
    <3>1. /\ pc[t] = "prepare" /\ \E l \in {"start", "count"} : pc' = [pc EXCEPT ![t] = l]
          /\ \A u \in Thread : pc[u] \notin Switching
          /\ n > 0 => options' = options
          /\ UNCHANGED <<n, kernel>>
      BY <2>2 DEF EnterNothing, EnterBarrier, Free, Goto
    <3>2. ~restart /\ \A u \in Thread : pc[u] \notin {"clear", "hard"}
      BY <3>1 DEF WhoRuns, OthersHalt, Halted
    <3>3. WhoRuns' /\ LockExcludes' /\ OthersHalt'
      BY <2>1, <3>1, <3>2 DEF WhoRuns, LockExcludes, OthersHalt, Switching
    <3>4. CountsHalted'
      <4>1. Counted' = Counted
        BY <3>1 DEF Counted, Halted
      <4> QED
        BY <3>1, <4>1 DEF CountsHalted
    <3>5. DoesAsTold'
      BY <3>1, <3>2 DEF DoesAsTold, Switching
    <3>6. ReleasedInApply'
      BY <3>1 DEF ReleasedInApply, Switching
    <3> QED
      BY <2>1, <3>3, <3>4, <3>5, <3>6
  <2>3. CASE Count(t)
    <3>1. /\ pc[t] = "count" /\ pc' = [pc EXCEPT ![t] = "check"] /\ n' = n + 1
          /\ UNCHANGED <<options, kernel>>
      BY <2>3 DEF Count, Goto, switchVars
    <3>2. ~restart /\ \A u \in Thread : pc[u] \notin {"clear", "hard"}
      BY <3>1 DEF WhoRuns, OthersHalt, Halted
    <3>3. WhoRuns' /\ LockExcludes' /\ OthersHalt' /\ DoesAsTold'
      BY <2>1, <3>1, <3>2 DEF WhoRuns, LockExcludes, OthersHalt, DoesAsTold, Halted, Switching
    <3>4. CountsHalted'
      <4>1. Counted' = Counted \cup {t} /\ t \notin Counted
        BY <3>1 DEF Counted, Halted
      <4>2. Cardinality(Counted') = Cardinality(Counted) + 1 /\ Cardinality(Counted) \in Nat
        BY <4>1, CountedIsFinite
      <4> QED
        BY <3>1, <4>2 DEF CountsHalted
    <3>5. ReleasedInApply'
      BY <3>1 DEF ReleasedInApply
    <3> QED
      BY <2>1, <3>3, <3>4, <3>5
  <2>4. CASE NotLast(t)
    <3>1. /\ pc[t] = "check" /\ UNCHANGED <<n, options, kernel>>
          /\ pc' = [pc EXCEPT ![t] = IF "hard" \in options THEN "exited" ELSE "wait"]
      BY <2>4 DEF NotLast, Goto, switchVars
    <3>2. ~restart /\ n > 0 /\ \A u \in Thread : pc[u] \notin {"clear", "hard"}
      BY <3>1 DEF WhoRuns, OthersHalt, DoesAsTold, Halted
    <3>3. WhoRuns' /\ LockExcludes' /\ OthersHalt' /\ DoesAsTold'
      BY <2>1, <3>1, <3>2 DEF WhoRuns, LockExcludes, OthersHalt, DoesAsTold, Halted, Switching
    <3>4. CountsHalted'
      <4>1. Counted' = Counted
        BY <3>1 DEF Counted, Halted
      <4> QED
        BY <3>1, <4>1 DEF CountsHalted
    <3>5. ReleasedInApply'
      BY <3>1 DEF ReleasedInApply
    <3> QED
      BY <2>1, <3>3, <3>4, <3>5
  <2>5. CASE Last(t)
    <3>1. /\ pc[t] = "check" /\ UNCHANGED <<n, options, kernel>>
          /\ pc' = [pc EXCEPT ![t] = IF "soft" \in options THEN "shutdown" ELSE "apply"]
      BY <2>5 DEF Last, Goto, switchVars
    <3>2. ~restart /\ n > 0 /\ \A u \in Thread : pc[u] = "asleep" <=> u \notin Mining
      BY <3>1 DEF WhoRuns, DoesAsTold, Halted
    <3>3. \A u \in Thread \ {t} : pc[u] \in Halted \cup {"asleep"}
      BY <2>5, <3>2, LastFindsHalted DEF NobodySick
    <3>4. WhoRuns' /\ LockExcludes' /\ OthersHalt' /\ DoesAsTold'
      BY <2>1, <3>1, <3>2, <3>3 DEF WhoRuns, LockExcludes, OthersHalt, DoesAsTold, Halted, Switching
    <3>5. CountsHalted'
      <4>1. Counted' = Counted
        BY <3>1 DEF Counted, Halted
      <4> QED
        BY <3>1, <4>1 DEF CountsHalted
    <3>6. ReleasedInApply'
      BY <3>1 DEF ReleasedInApply
    <3> QED
      BY <2>1, <3>4, <3>5, <3>6
  <2>6. CASE Shutdown(t)
    <3>1. /\ pc[t] = "shutdown" /\ pc' = [pc EXCEPT ![t] = "apply"]
          /\ UNCHANGED <<n, options>> /\ "soft" \in options
      BY <2>6 DEF Shutdown, Goto, DoesAsTold
    <3>2. ~restart /\ n > 0 /\ \A u \in Thread \ {t} : pc[u] \in Halted \cup {"asleep"}
      BY <3>1 DEF WhoRuns, OthersHalt, Halted
    <3>3. WhoRuns' /\ LockExcludes' /\ OthersHalt' /\ DoesAsTold'
      BY <2>1, <3>1, <3>2 DEF WhoRuns, LockExcludes, OthersHalt, DoesAsTold, Halted, Switching
    <3>4. CountsHalted'
      <4>1. Counted' = Counted
        BY <3>1 DEF Counted, Halted
      <4> QED
        BY <3>1, <4>1 DEF CountsHalted
    <3>5. ReleasedInApply'
      BY <3>1 DEF ReleasedInApply
    <3> QED
      BY <2>1, <3>3, <3>4, <3>5
  <2>7. CASE Apply(t)
    <3>1. /\ pc[t] = "apply" /\ UNCHANGED <<n, options>>
          /\ pc' = [pc EXCEPT ![t] = IF "hard" \in options THEN "hard" ELSE "clear"]
          /\ kernel' = IF "soft" \in options THEN All(config') ELSE kernel
      BY <2>7 DEF Apply, Goto
    <3>2. ~restart /\ n > 0
      BY <3>1 DEF WhoRuns, OthersHalt, Halted
    <3>3. WhoRuns' /\ LockExcludes' /\ OthersHalt' /\ DoesAsTold'
      BY <2>1, <3>1, <3>2 DEF WhoRuns, LockExcludes, OthersHalt, DoesAsTold, Switching
    <3>4. CountsHalted'
      <4>1. Counted' = Counted
        BY <3>1 DEF Counted, Halted
      <4> QED
        BY <3>1, <4>1 DEF CountsHalted
    <3>5. ReleasedInApply'
      <4>1. config' # None
        BY NoneAssumption
      <4>2. \A u \in Thread : kernel'[u] # None
        BY <3>1, <4>1 DEF All, ReleasedInApply
      <4> QED
        BY <4>2 DEF ReleasedInApply
    <3> QED
      BY <2>1, <3>3, <3>4, <3>5
  <2>8. CASE Clear(t)
    <3>1. /\ pc[t] = "clear" /\ n' = 0 /\ UNCHANGED <<options, kernel>>
          /\ \A u \in Thread : pc'[u] = IF u = t THEN "start"
                                        ELSE IF pc[u] = "blocked" THEN "wait" ELSE pc[u]
      BY <2>8 DEF Clear, switchVars
    <3>2. /\ ~restart /\ "hard" \notin options
          /\ \A u \in Thread : pc'[u] \in {"start", "wait", "asleep"}
          /\ \A u \in Thread : pc[u] # "apply"
      BY <3>1 DEF WhoRuns, OthersHalt, DoesAsTold, Halted
    <3>3. WhoRuns' /\ LockExcludes' /\ OthersHalt' /\ DoesAsTold'
      BY <2>1, <3>1, <3>2 DEF WhoRuns, LockExcludes, OthersHalt, DoesAsTold, Switching
    <3>4. CountsHalted'
      BY <3>1, CountedIsFinite DEF CountsHalted
    <3>5. ReleasedInApply'
      BY <3>1, <3>2 DEF ReleasedInApply
    <3> QED
      BY <2>1, <3>3, <3>4, <3>5
  <2>9. CASE Wait(t)
    <3>1. /\ pc[t] = "wait" /\ UNCHANGED <<n, options, kernel>>
          /\ pc' = [pc EXCEPT ![t] = IF n > 0 THEN "blocked" ELSE "start"]
      BY <2>9 DEF Wait, Goto, switchVars
    <3>2. WhoRuns' /\ LockExcludes' /\ OthersHalt' /\ DoesAsTold'
      BY <2>1, <3>1 DEF WhoRuns, LockExcludes, OthersHalt, DoesAsTold, Halted, Switching
    <3>3. CountsHalted'
      <4>1. n > 0 => Counted' = Counted
        BY <3>1 DEF Counted, Halted
      <4> QED
        BY <3>1, <4>1, CountedIsFinite DEF CountsHalted
    <3>4. ReleasedInApply'
      BY <3>1 DEF ReleasedInApply
    <3> QED
      BY <2>1, <3>2, <3>3, <3>4
  <2> QED
    BY <1>2, <2>2, <2>3, <2>4, <2>5, <2>6, <2>7, <2>8, <2>9 DEF Prepare
<1> QED
  BY <1>1, <1>2

LEMMA HashKeeps ==
  ASSUME Types, BarrierInv, NEW t \in Thread, Hash(t)
  PROVE  BarrierInv'
<1> USE DEF Types, ThreadTypes, DeviceTypes, BarrierInv
<1>1. CASE Start(t)
  BY <1>1, OutsideSteps DEF Start, Goto
<1>2. CASE Finish(t)
  <2>1. ~restart
    BY <1>2 DEF Finish, WhoRuns, Halted
  <2>2. deven' = deven /\ pc' = [pc EXCEPT ![t] = "pop"]
    BY <1>2, <2>1 DEF Finish, Goto
  <2> QED
    BY <1>2, <2>2, OutsideSteps DEF Finish
<1>3. ~Park(t) /\ ~Wake(t)
  BY DEF Park, Wake, NobodySick, WhoRuns, Mining, Halted
<1> QED
  BY <1>1, <1>2, <1>3 DEF Hash

LEMMA RestartKeeps ==
  ASSUME Types, BarrierInv, Step(RestartThreads) \/ \E t \in Thread : Step(Kill(t))
  PROVE  BarrierInv'
<1> USE DEF Types, ThreadTypes, SwitchTypes, DeviceTypes, BarrierInv
<1>1. CASE Step(RestartThreads)
  <2>1. /\ n' = 0 /\ ~restart' /\ sick' = {} /\ sem' = All(0) /\ deven' = deven
        /\ kernel' = All(config)
        /\ \A t \in Thread : pc'[t] = IF DeviceOf[t] \in deven THEN "pop" ELSE "asleep"
    BY <1>1 DEF Step, RestartThreads, Begin
  <2>2. CountsHalted'
    BY <2>1, CountedIsFinite DEF CountsHalted
  <2>3. ReleasedInApply'
    BY <2>1, NoneAssumption DEF ReleasedInApply, All
  <2> QED
    BY <2>1, <2>2, <2>3 DEF NobodySick, WhoRuns, LockExcludes, OthersHalt, DoesAsTold, All, Mining,
       Switching
<1>2. ASSUME NEW t \in Thread, Step(Kill(t)) PROVE BarrierInv'
  <2>1. /\ restart /\ pc[t] \in {"blocked", "asleep"} /\ pc' = [pc EXCEPT ![t] = "exited"]
        /\ UNCHANGED <<n, restart, options, kernel, deven, sick, sem>>
    BY <1>2 DEF Step, Kill, Goto, WhoRuns, Halted, switchVars, devVars
  <2>2. CountsHalted'
    <3>1. Counted \subseteq Counted'
      BY <2>1 DEF Counted, Halted
    <3> QED
      BY <2>1, <3>1, CountedIsFinite DEF CountsHalted
  <2> QED
    BY <2>1, <2>2 DEF NobodySick, WhoRuns, LockExcludes, OthersHalt, DoesAsTold, ReleasedInApply,
       Halted, Switching
<1> QED
  BY <1>1, <1>2

LEMMA BarrierKept ==
  ASSUME Types, Undisturbed => BarrierInv, [Next]_vars
  PROVE  (Undisturbed => BarrierInv)'
<1> USE DEF Types, ThreadTypes, DeviceTypes
<1>1. scene' = scene
  BY DEF Next, Step, vars
<1>2. SUFFICES ASSUME Undisturbed, BarrierInv PROVE BarrierInv'
  BY <1>1 DEF Undisturbed
<1>3. Types'
  BY TypesKept
<1>4. CASE UNCHANGED <<pc, n, restart, switchVars, devVars>>
  <2>1. Mining' = Mining /\ Counted' = Counted
    BY <1>4 DEF Mining, Counted, devVars
  <2> QED
    BY <1>2, <1>4, <2>1 DEF BarrierInv, NobodySick, WhoRuns, LockExcludes, CountsHalted, OthersHalt,
       DoesAsTold, ReleasedInApply, devVars, switchVars
<1>5. ASSUME NEW t \in Thread, Step(Pop(t)) PROVE BarrierInv'
  BY <1>2, <1>5, OutsideSteps DEF Step, Pop, Goto
<1>6. ASSUME NEW t \in Thread, Step(Prepare(t)) PROVE BarrierInv'
  BY <1>2, <1>3, <1>6, PrepareKeeps DEF Step
<1>7. ASSUME NEW t \in Thread, Step(Hash(t)) PROVE BarrierInv'
  BY <1>2, <1>7, HashKeeps DEF Step
<1>8. ASSUME NEW t \in Thread, Step(Kill(t)) PROVE BarrierInv'
  BY <1>2, <1>8, RestartKeeps
<1>9. ASSUME Step(RestartThreads) PROVE BarrierInv'
  BY <1>2, <1>9, RestartKeeps
<1>10. ASSUME NEW p \in Pool, Step(SwitchPools(p)) PROVE BarrierInv'
  BY <1>4, <1>10 DEF Step, SwitchPools
<1>11. ASSUME NEW d \in Device, Step(gpudisable(d)) \/ Step(gpuenable(d)) \/ Step(Sicken(d))
       PROVE  FALSE
  BY <1>2, <1>11 DEF Step, gpudisable, gpuenable, Sicken, Undisturbed, BoundTypes
<1>12. CASE UNCHANGED vars
  BY <1>4, <1>12 DEF vars
<1> QED
  BY <1>5, <1>6, <1>7, <1>8, <1>9, <1>10, <1>11, <1>12 DEF Next

LEMMA BarrierInvHolds == Spec => [](Undisturbed => BarrierInv)
<1>1. Init => (Undisturbed => BarrierInv)
  <2> SUFFICES ASSUME Init PROVE BarrierInv
    OBVIOUS
  <2> USE DEF Init
  <2>1. \A t \in Thread : pc[t] = IF t \in Mining THEN "pop" ELSE "asleep"
    BY DEF Begin, Mining
  <2>2. NobodySick /\ WhoRuns /\ LockExcludes /\ OthersHalt /\ DoesAsTold
    BY <2>1 DEF NobodySick, WhoRuns, LockExcludes, OthersHalt, DoesAsTold, Switching, All
  <2>3. CountsHalted
    BY CountedIsFinite DEF CountsHalted
  <2>4. ReleasedInApply
    BY TypesInit, NoneAssumption DEF ReleasedInApply, All, Types, SwitchTypes
  <2> QED
    BY <2>2, <2>3, <2>4 DEF BarrierInv
<1>2. Types /\ (Undisturbed => BarrierInv) /\ [Next]_vars => (Undisturbed => BarrierInv)'
  BY BarrierKept
<1> QED
  BY <1>1, <1>2, TypesInvariant, PTL DEF Spec

(* The barrier holds: while no device is disabled, enabled or sick, no     *)
(* thread hashes with an OpenCL context that another one has shut down,    *)
(* however often and whenever the pool changes, on the same devices or on  *)
(* others.                                                                 *)
THEOREM BarrierHolds == Spec => []NoReleasedKernelUndisturbed
<1>1. (Undisturbed => BarrierInv) => NoReleasedKernelUndisturbed
  <2> SUFFICES ASSUME Undisturbed, BarrierInv, NEW t \in Thread, pc[t] = "hash"
               PROVE  kernel[t] # None
    BY DEF Undisturbed, NoReleasedKernelUndisturbed, NoReleasedKernel
  <2>1. \A u \in Thread : pc[u] # "apply"
    BY DEF BarrierInv, OthersHalt, Halted
  <2> QED
    BY <2>1 DEF BarrierInv, ReleasedInApply
<1> QED
  BY <1>1, BarrierInvHolds, PTL

(* Nor can any thread ask for a restart while one is running: whoever is   *)
(* not its cause has halted, and algo_switch_n stays above 0 until all of  *)
(* them are gone.                                                          *)
THEOREM RestartsDoNotOverlap ==
  ASSUME \A sc \in Scenes : sc.maxCommands = 0 /\ ~sc.maySicken
  PROVE  Spec => []OneRestart
<1>1. Types => Undisturbed
  BY DEF Types, Undisturbed
<1>2. BarrierInv => OneRestart
  BY DEF BarrierInv, WhoRuns, Halted, OneRestart
<1> QED
  BY <1>1, <1>2, BarrierInvHolds, TypesInvariant, PTL

----------------------------------------------------------------------------
(* A new algorithm or tuning comes with a reset (compare_pool_settings).   *)
ChangesReset == {"algo", "tune"} \cap options # {} => {"soft", "hard"} \cap options # {}

(* The contexts are built for the configuration, or a thread is on its way *)
(* to rebuild them: in a soft change, or in a restart of all the threads.  *)
ContextsFit ==
  \/ kernel = All(config)
  \/ restart
  \/ \E t \in Thread : pc[t] = "hard"
  \/ "soft" \in options /\ \E t \in Thread : pc[t] = "apply"

\* Contexts are shut down only in a soft change.
ShutdownIsSoft == \A t \in Thread : pc[t] = "shutdown" => "soft" \in options

ContextInv == ChangesReset /\ ContextsFit /\ ShutdownIsSoft

LEMMA CompareResets ==
  ASSUME NEW p \in Pool, NEW q \in Pool, {"algo", "tune"} \cap Compare(p, q) # {}
  PROVE  {"soft", "hard"} \cap Compare(p, q) # {}
BY DEF Compare

LEMMA AppliesNothing ==
  ASSUME Types, NEW t \in Thread, {"algo", "tune"} \cap options = {}
  PROVE  Applied(t) = config
<1>1. config \in Build
  BY DEF Types, SwitchTypes
<1>2. config = [algorithm |-> config.algorithm, tune |-> config.tune]
  BY <1>1 DEF Build
<1> QED
  BY <1>2 DEF Applied

(* It needs neither the lock nor the count: it holds in every scene.       *)
LEMMA PrepareKeepsContexts ==
  ASSUME Types, ContextInv, NEW t \in Thread, Prepare(t)
  PROVE  ContextInv'
<1> USE DEF Types, ThreadTypes, ContextInv
<1>1. CASE EnterNothing(t) \/ EnterBarrier(t)
  <2>1. /\ UNCHANGED <<config, kernel, restart>> /\ pc[t] = "prepare"
        /\ \E l \in {"start", "count"} : pc' = [pc EXCEPT ![t] = l]
        /\ \A u \in Thread : pc[u] \notin {"shutdown", "apply"}
        /\ options' = IF n = 0 THEN Wanted(t) ELSE options
    BY <1>1 DEF EnterNothing, EnterBarrier, Free, Switching, Goto
  <2>2. {"algo", "tune"} \cap Wanted(t) # {} => {"soft", "hard"} \cap Wanted(t) # {}
    BY CompareResets DEF Wanted
  <2> QED
    BY <2>1, <2>2 DEF ChangesReset, ContextsFit, ShutdownIsSoft, All
<1>2. CASE Count(t) \/ NotLast(t) \/ Last(t) \/ Clear(t) \/ Wait(t)
  <2>1. UNCHANGED <<config, kernel, options, restart>>
    BY <1>2 DEF Count, NotLast, Last, Clear, Wait, switchVars
  <2>2. \A u \in Thread : pc[u] \in {"apply", "hard"} => pc'[u] = pc[u]
    BY <1>2 DEF Count, NotLast, Last, Clear, Wait, Goto
  <2>3. ShutdownIsSoft'
    BY <1>2, <2>1 DEF Count, NotLast, Last, Clear, Wait, Goto, ShutdownIsSoft
  <2> QED
    BY <2>1, <2>2, <2>3 DEF ChangesReset, ContextsFit, All
<1>3. CASE Shutdown(t)
  <2>1. "soft" \in options
    BY <1>3 DEF Shutdown, ShutdownIsSoft
  <2> QED
    BY <1>3, <2>1 DEF Shutdown, Goto, ChangesReset, ContextsFit, ShutdownIsSoft
<1>4. CASE Apply(t)
  <2>1. /\ pc[t] = "apply" /\ options' = options /\ restart' = restart /\ config' = Applied(t)
        /\ kernel' = IF "soft" \in options THEN All(config') ELSE kernel
        /\ pc' = [pc EXCEPT ![t] = IF "hard" \in options THEN "hard" ELSE "clear"]
    BY <1>4 DEF Apply, Goto
  <2>2. CASE "soft" \in options
    BY <2>1, <2>2 DEF ChangesReset, ContextsFit, ShutdownIsSoft, All
  <2>3. CASE "hard" \in options
    BY <2>1, <2>3 DEF ChangesReset, ContextsFit, ShutdownIsSoft
  <2>4. CASE {"soft", "hard"} \cap options = {}
    <3>1. config' = config /\ kernel' = kernel
      BY <2>1, <2>4, AppliesNothing DEF ChangesReset
    <3> QED
      BY <2>1, <2>4, <3>1 DEF ChangesReset, ContextsFit, ShutdownIsSoft, All
  <2> QED
    BY <2>2, <2>3, <2>4
<1>5. CASE HardReset(t)
  BY <1>5 DEF HardReset, Goto, switchVars, ChangesReset, ContextsFit, ShutdownIsSoft
<1> QED
  BY <1>1, <1>2, <1>3, <1>4, <1>5 DEF Prepare

LEMMA ContextsKept ==
  ASSUME Types, ContextInv, [Next]_vars
  PROVE  ContextInv'
<1> USE DEF Types, ThreadTypes, ContextInv
<1>1. ASSUME UNCHANGED <<config, kernel, options, restart>>,
             \A u \in Thread : /\ pc[u] \in {"apply", "hard"} => pc'[u] = pc[u]
                               /\ pc'[u] = "shutdown" => pc[u] = "shutdown"
      PROVE  ContextInv'
  BY <1>1 DEF ChangesReset, ContextsFit, ShutdownIsSoft, All
<1>2. ASSUME NEW t \in Thread, Step(Pop(t)) \/ Step(Hash(t)) \/ Step(Kill(t))
      PROVE  ContextInv'
  BY <1>1, <1>2 DEF Step, Pop, Hash, Start, Finish, Park, Wake, Kill, Goto, switchVars
<1>3. ASSUME NEW t \in Thread, Step(Prepare(t)) PROVE ContextInv'
  BY <1>3, PrepareKeepsContexts DEF Step
<1>4. ASSUME Step(RestartThreads) PROVE ContextInv'
  BY <1>4 DEF Step, RestartThreads, Begin, ChangesReset, ContextsFit, ShutdownIsSoft, All
<1>5. ASSUME NEW p \in Pool, Step(SwitchPools(p)) PROVE ContextInv'
  BY <1>1, <1>5 DEF Step, SwitchPools, switchVars
<1>6. ASSUME NEW d \in Device, Step(gpudisable(d)) \/ Step(gpuenable(d)) \/ Step(Sicken(d))
      PROVE  ContextInv'
  BY <1>1, <1>6 DEF Step, gpudisable, gpuenable, Sicken, switchVars
<1>7. CASE UNCHANGED vars
  BY <1>1, <1>7 DEF vars, switchVars
<1> QED
  BY <1>2, <1>3, <1>4, <1>5, <1>6, <1>7 DEF Next

LEMMA ContextInvHolds == Spec => []ContextInv
<1>1. Init => ContextInv
  BY DEF Init, Begin, ContextInv, ChangesReset, ContextsFit, ShutdownIsSoft
<1>2. Types /\ ContextInv /\ [Next]_vars => ContextInv'
  BY ContextsKept
<1> QED
  BY <1>1, <1>2, TypesInvariant, PTL DEF Spec

(* A thread that hashes has a context built for the algorithm and tuning   *)
(* its device is set to, whenever and however often the pool changes, for  *)
(* any threads, devices, pools and settings, as long as no device is       *)
(* disabled, enabled or sick: every change of the settings brings a reset, *)
(* and the barrier lets no thread hash before it.                          *)
THEOREM ContextsFollowConfig == Spec => []ContextsAreConfigured
<1>1. ContextInv /\ (Undisturbed => BarrierInv) => ContextsAreConfigured
  <2> SUFFICES ASSUME ContextInv, Undisturbed, BarrierInv, NEW t \in Thread, pc[t] = "hash"
               PROVE  kernel[t] = config
    BY DEF Undisturbed, ContextsAreConfigured
  <2>1. ~restart
    BY DEF BarrierInv, WhoRuns, Halted
  <2>2. \A u \in Thread : pc[u] \notin {"hard", "apply"}
    BY DEF BarrierInv, OthersHalt, Halted
  <2> QED
    BY <2>1, <2>2 DEF ContextInv, ContextsFit, All
<1> QED
  BY <1>1, ContextInvHolds, BarrierInvHolds, PTL
=============================================================================
