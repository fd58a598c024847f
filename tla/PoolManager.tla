---------------------------- MODULE PoolManager ----------------------------
(***************************************************************************)
(* Which pool is mined.                                                    *)
(*                                                                         *)
(* The array pools[0..total_pools-1] holds the pools in order of their     *)
(* number; a pool's prio says how much the operator prefers it.            *)
(* __switch_pools chooses currentpool under control_lock.  Everybody else  *)
(* writes what it reads without that lock: the consoles (the API thread    *)
(* and the curses thread) the states, the priorities and the array, each   *)
(* pool's receive thread the flag idle and, by share_result, the state,    *)
(* watchpool_thread the flag idle.  A critical section is one step here;   *)
(* between a test and the act it decides there is always a step.  Loops    *)
(* over the pools that only write priorities are one step.                 *)
(*                                                                         *)
(* What follows the choice (clear_pool_work of the last pool, the wake-up  *)
(* of the threads that wait for a current pool) changes nothing here.      *)
(***************************************************************************)
EXTENDS Integers, Sequences, FiniteSets, FiniteSetsExt, Functions

CONSTANTS
  Pool,         \* every pool the configuration or an operator adds
  InitPools,    \* the configured pools, in order
  InitStrategy, \* the configured pool_strategy
  Scenes,       \* bound: what else is configured, and what may happen; see scene
  RejectLimit,  \* bound: for the 10 rejected shares in a row that are tolerated
  NoPool        \* no pool; the uninitialised end of the array

States == {"enabled", "disabled", "rejecting"}
MasterStrategies == {"failover", "loadbalance", "balance"}
Strategies == MasterStrategies \cup {"roundrobin", "rotate"}

(* state: the "state" of the configuration; disableRejecting:              *)
(* opt_disable_pool; console: the thread that takes commands; commands,    *)
(* ops: which of them the operator uses, one at a time, and how many;      *)
(* events: what the pools do.                                              *)
Scene == [state : [Pool -> States], disableRejecting : BOOLEAN, console : {"api", "curses"},
          commands : SUBSET {"switch", "enable", "disable", "priority", "strategy", "remove",
                             "add"},
          ops : Nat, events : SUBSET {"died", "resumed", "accepted", "rejected"}]

ASSUME PoolManagerAssumption ==
  /\ \A sc \in Scenes : sc \in Scene
  /\ IsFiniteSet(Pool) /\ NoPool \notin Pool
  /\ InitPools \in Seq(Pool) /\ InitPools # <<>>
  /\ \A i, j \in 1..Len(InitPools) : InitPools[i] = InitPools[j] => i = j
  /\ InitStrategy \in Strategies
  /\ RejectLimit \in Nat

Slots == 0..Cardinality(Pool)

VARIABLES
  scene,        \* never changes
  pools,        \* [Slots -> Pool \cup {NoPool}]
  total,        \* total_pools
  prio, poolNo, state, idle, removed,   \* the fields of every struct pool
  seqRejects,   \* [Pool -> Nat]: pool->seq_rejects
  aged,         \* [Pool -> BOOLEAN]: tv_idle is long enough ago
  currentpool,  \* NoPool: a wild pointer was read, and the program crashed
  poolsActive,  \* pools_active: a pool has answered, the miner runs
  strategy,     \* pool_strategy
  enabledPools, \* enabled_pools
  rotateDue,    \* the time of the current pool is over (POOL_ROTATE)
  opc, oparg, ops,  \* the command: control, pools; commands so far
  wpc, wi, wpool,   \* watchpool_thread: control, i, pool
  ppc           \* [Pool -> ...]: the pool's test thread, then its receive thread

tableVars == <<pools, total, prio, poolNo, removed>>
timeVars  == <<aged, rotateDue>>
opVars    == <<opc, oparg, ops>>
watchVars == <<wpc, wi, wpool>>
vars == <<scene, tableVars, state, idle, seqRejects, timeVars, currentpool, poolsActive, strategy,
          enabledPools, opVars, watchVars, ppc>>

Init ==
  LET n == Len(InitPools)
      At(p) == CHOOSE i \in 1..n : InitPools[i] = p
      Configured(p) == \E i \in 1..n : InitPools[i] = p IN
  /\ pools = [i \in Slots |-> IF i < n THEN InitPools[i + 1] ELSE NoPool]
  /\ total = n
  /\ prio = [p \in Pool |-> IF Configured(p) THEN At(p) - 1 ELSE 0]
  /\ poolNo = prio
  /\ removed = [p \in Pool |-> FALSE]
  /\ scene \in Scenes
  /\ state = scene.state
  /\ idle = [p \in Pool |-> Configured(p)]
  /\ seqRejects = [p \in Pool |-> 0]
  /\ aged = [p \in Pool |-> TRUE]   \* tv_idle.tv_sec = ~0UL
  /\ currentpool = InitPools[1]
  /\ poolsActive = FALSE
  /\ strategy = InitStrategy
  /\ enabledPools = 0
  /\ rotateDue = FALSE
  /\ opc = "ready" /\ oparg = <<>> /\ ops = 0
  /\ wpc = "off" /\ wi = 0 /\ wpool = NoPool
  /\ ppc = [p \in Pool |-> IF Configured(p) THEN "testing" ELSE "none"]

Listed == {pools[i] : i \in 0..total - 1}

----------------------------------------------------------------------------
(* __switch_pools.                                                         *)

Usable(p) == state[p] = "enabled" /\ ~idle[p]

(* The pool of a priority; "WTF No pool %d found!" if there is none.       *)
PriorityPool(pr, choice) ==
  LET found == {i \in 0..total - 1 : pr[pools[i]] = choice} IN
  IF found # {} THEN pools[Min(found)] ELSE pools[choice]

(* A pool that is selected gets the first priority. *)
Prioritised(selected) ==
  IF selected = NoPool THEN prio
  ELSE [p \in Pool |-> IF p = selected THEN 0
                       ELSE IF p \in Listed /\ prio[p] < prio[selected] THEN prio[p] + 1
                       ELSE prio[p]]

(* Mutant: the first usable pool in the order of the array. *)
MutMasterNo(pr) ==
  LET usable == {i \in 0..total - 1 : Usable(pools[i])} IN
  IF usable = {} THEN poolNo[currentpool] ELSE Min(usable)

(* The number of the first usable pool, in order of priority ...           *)
MasterNo(pr) ==
  LET usable == {i \in 0..total - 1 : Usable(PriorityPool(pr, i))} IN
  IF usable = {} THEN poolNo[currentpool] ELSE poolNo[PriorityPool(pr, Min(usable))]

(* Mutant: the search for the next pool does not wrap round. *)
MutNextNo(selected) ==
  LET no == poolNo[currentpool]
      usable == {k \in 1..total - 1 : no + k < total /\ Usable(pools[no + k])} IN
  IF selected # NoPool /\ ~idle[selected] THEN poolNo[selected]
  ELSE IF usable = {} THEN no ELSE no + Min(usable)

(* ... or of the next one in the array.                                    *)
NextNo(selected) ==
  LET no == poolNo[currentpool]
      Nth(k) == IF no >= total THEN k - 1 ELSE (no + k) % total
      usable == {k \in 1..total - 1 : Usable(pools[Nth(k)])} IN
  IF selected # NoPool /\ ~idle[selected] THEN poolNo[selected]
  ELSE IF usable = {} THEN no ELSE Nth(Min(usable))

SwitchPools(selected) ==
  /\ prio' = Prioritised(selected)
  /\ currentpool' = pools[IF strategy \in MasterStrategies THEN MasterNo(prio')
                          ELSE NextNo(selected)]

EnablePool(p) ==
  /\ enabledPools' = IF state[p] # "enabled" THEN enabledPools + 1 ELSE enabledPools
  /\ state' = [state EXCEPT ![p] = "enabled"]
LeaveEnabled(p, s) ==   \* disable_pool, reject_pool
  /\ enabledPools' = IF state[p] = "enabled" THEN enabledPools - 1 ELSE enabledPools
  /\ state' = [state EXCEPT ![p] = s]

----------------------------------------------------------------------------
(* The consoles.                                                           *)

(* A command begins: its first assignments, then control goes to label.    *)
Begin(command, arg, label) ==
  /\ poolsActive /\ opc = "ready" /\ command \in scene.commands
  /\ ops < scene.ops /\ ops' = ops + 1
  /\ opc' = label /\ oparg' = arg

OpGoto(label) == opc' = label /\ UNCHANGED <<oparg, ops>>
OpEnd == opc' = "ready" /\ oparg' = <<>> /\ UNCHANGED ops

(* The curses console counts the enabled pools, the API only sets the state. *)
SetState(p, s) ==
  IF scene.console = "api"
  THEN state' = [state EXCEPT ![p] = s] /\ UNCHANGED enabledPools
  ELSE IF s = "enabled" THEN EnablePool(p) ELSE LeaveEnabled(p, s)

OpSwitch(p) ==
  /\ Begin("switch", <<p>>, "select")
  /\ SetState(p, "enabled")
  /\ UNCHANGED <<tableVars, idle, seqRejects, timeVars, currentpool, poolsActive, strategy,
                 watchVars, ppc>>

OpEnable(p) ==
  /\ scene.console = "api" => state[p] # "enabled"
  /\ Begin("enable", <<p>>, "enableTest")
  /\ SetState(p, "enabled")
  /\ UNCHANGED <<tableVars, idle, seqRejects, timeVars, currentpool, poolsActive, strategy,
                 watchVars, ppc>>

OpDisable(p) ==
  /\ scene.console = "api" => state[p] # "disabled"
  /\ Begin("disable", <<p>>, "disableTest")
  /\ SetState(p, "disabled")
  /\ UNCHANGED <<tableVars, idle, seqRejects, timeVars, currentpool, poolsActive, strategy,
                 watchVars, ppc>>

(* poolpriority: the pools it lists, by number, get the first priorities.  *)
OpPriority(nos) ==
  /\ scene.console = "api" /\ Begin("priority", nos, "append")
  /\ prio' = [p \in Pool |->
                IF \E k \in 1..Len(nos) : pools[nos[k]] = p
                THEN (CHOOSE k \in 1..Len(nos) : pools[nos[k]] = p) - 1
                ELSE prio[p]]
  /\ UNCHANGED <<pools, total, poolNo, removed, state, idle, seqRejects, timeVars, currentpool,
                 poolsActive, strategy, enabledPools, watchVars, ppc>>

OpStrategy(s) ==
  /\ Begin("strategy", <<>>, "switch")
  /\ strategy' = s
  /\ UNCHANGED <<tableVars, state, idle, seqRejects, timeVars, currentpool, poolsActive,
                 enabledPools, watchVars, ppc>>

OpRemove(p) ==
  /\ total > 1
  /\ Begin("remove", <<p>>, IF p = currentpool THEN "removeSwitch" ELSE "removeTest")
  /\ UNCHANGED <<tableVars, state, idle, seqRejects, timeVars, currentpool, poolsActive,
                 strategy, enabledPools, watchVars, ppc>>

(* add_pool: until add_pool_details goes on, the pool looks alive.         *)
OpAdd(p) ==
  /\ ppc[p] = "none" /\ p \notin Listed /\ ~removed[p]
  /\ Begin("add", <<p>>, "details")
  /\ pools' = [pools EXCEPT ![total] = p]
  /\ poolNo' = [poolNo EXCEPT ![p] = total]
  /\ prio' = [prio EXCEPT ![p] = total]
  /\ total' = total + 1
  /\ state' = [state EXCEPT ![p] = "enabled"]
  /\ UNCHANGED <<removed, idle, seqRejects, timeVars, currentpool, poolsActive, strategy,
                 enabledPools, watchVars, ppc>>

Command ==
  \/ \E p \in Listed : OpSwitch(p) \/ OpEnable(p) \/ OpDisable(p) \/ OpRemove(p)
  \/ \E s \in Strategies : OpStrategy(s)
  \/ \E p \in Pool : OpAdd(p)
  \/ \E n \in 1..total : \E nos \in [1..n -> 0..total - 1] :
       IsInjective(nos) /\ OpPriority(nos)

(* The tests of currentpool, and the switches they decide.                 *)
OpTest ==
  LET p == oparg[1] IN
  /\ \/ opc = "enableTest" /\ IF prio[p] < prio[currentpool] THEN OpGoto("select") ELSE OpEnd
     \/ opc = "disableTest" /\ IF p = currentpool THEN OpGoto("switch") ELSE OpEnd
     \/ opc = "removeTest" /\ IF p = currentpool THEN OpEnd ELSE OpGoto("disable")
     \/ opc = "prioTest" /\ IF prio[currentpool] # 0 THEN OpGoto("switch") ELSE OpEnd
  /\ UNCHANGED <<tableVars, state, idle, seqRejects, timeVars, currentpool, poolsActive,
                 strategy, enabledPools, watchVars, ppc>>

OpSwitchPools ==
  /\ \/ opc = "select" /\ SwitchPools(oparg[1]) /\ OpEnd
     \/ opc = "switch" /\ SwitchPools(NoPool) /\ OpEnd
     \/ opc = "removeSwitch" /\ SwitchPools(NoPool) /\ OpGoto("removeTest")
  /\ UNCHANGED <<pools, total, poolNo, removed, state, idle, seqRejects, timeVars, poolsActive,
                 strategy, enabledPools, watchVars, ppc>>

OpDisableRemoved ==
  /\ opc = "disable"
  /\ SetState(oparg[1], "disabled")
  /\ OpGoto("boost")
  /\ UNCHANGED <<tableVars, idle, seqRejects, timeVars, currentpool, poolsActive, strategy,
                 watchVars, ppc>>

(* Mutant: the pool right behind the removed one is not boosted. *)
MutOpBoost ==
  /\ opc = "boost" /\ OpGoto("replace")
  /\ prio' = [p \in Pool |-> IF p \in Listed /\ prio[p] > prio[oparg[1]] + 1 THEN prio[p] - 1
                             ELSE prio[p]]
  /\ UNCHANGED <<pools, total, poolNo, removed, state, idle, seqRejects, timeVars, currentpool,
                 poolsActive, strategy, enabledPools, watchVars, ppc>>

(* remove_pool: "Boost priority of any lower prio than this one" ...       *)
OpBoost ==
  /\ opc = "boost" /\ OpGoto("replace")
  /\ prio' = [p \in Pool |-> IF p \in Listed /\ prio[p] > prio[oparg[1]] THEN prio[p] - 1
                             ELSE prio[p]]
  /\ UNCHANGED <<pools, total, poolNo, removed, state, idle, seqRejects, timeVars, currentpool,
                 poolsActive, strategy, enabledPools, watchVars, ppc>>

(* Mutant: the pool that takes the place keeps its number. *)
MutOpReplace ==
  LET p == oparg[1] IN
  /\ opc = "replace" /\ OpGoto("count")
  /\ pools' = IF poolNo[p] < total - 1 THEN [pools EXCEPT ![poolNo[p]] = pools[total - 1]]
              ELSE pools
  /\ poolNo' = [poolNo EXCEPT ![p] = total]
  /\ removed' = [removed EXCEPT ![p] = TRUE]
  /\ UNCHANGED <<total, prio, state, idle, seqRejects, timeVars, currentpool, poolsActive,
                 strategy, enabledPools, watchVars, ppc>>

(* ... "Swap the last pool for this one" and "Give it an invalid number"   *)
(* (four writes, one step here: the properties of the table are about what *)
(* the command leaves behind)                                              *)
OpReplace ==
  LET p == oparg[1]
      last == pools[total - 1] IN
  /\ opc = "replace" /\ OpGoto("count")
  /\ IF poolNo[p] < total - 1
     THEN /\ pools' = [pools EXCEPT ![poolNo[p]] = last]
          /\ poolNo' = [poolNo EXCEPT ![last] = poolNo[p], ![p] = total]
     ELSE /\ poolNo' = [poolNo EXCEPT ![p] = total]
          /\ UNCHANGED pools
  /\ removed' = [removed EXCEPT ![p] = TRUE]
  /\ UNCHANGED <<total, prio, state, idle, seqRejects, timeVars, currentpool, poolsActive,
                 strategy, enabledPools, watchVars, ppc>>

OpCount ==
  /\ opc = "count" /\ OpEnd
  /\ total' = total - 1
  /\ UNCHANGED <<pools, prio, poolNo, removed, state, idle, seqRejects, timeVars, currentpool,
                 poolsActive, strategy, enabledPools, watchVars, ppc>>

(* poolpriority: "In priority order, cycle through the unchanged pools and *)
(* append them"; of two that share a priority only the first is found.     *)
OpAppend ==
  LET listed == {oparg[k] : k \in 1..Len(oparg)}
      found == {i \in (0..total - 1) \ listed :
                  /\ prio[pools[i]] < total
                  /\ \A j \in (0..i - 1) \ listed : prio[pools[j]] # prio[pools[i]]}
      Place(i) == Len(oparg) + Cardinality({j \in found : prio[pools[j]] < prio[pools[i]]}) IN
  /\ opc = "append" /\ OpGoto("prioTest")
  /\ prio' = [p \in Pool |-> IF \E i \in found : pools[i] = p
                             THEN Place(CHOOSE i \in found : pools[i] = p) ELSE prio[p]]
  /\ UNCHANGED <<pools, total, poolNo, removed, state, idle, seqRejects, timeVars, currentpool,
                 poolsActive, strategy, enabledPools, watchVars, ppc>>

(* add_pool_details: the new pool is dead until its test thread has probed it. *)
OpDetails ==
  LET p == oparg[1] IN
  /\ opc = "details" /\ OpEnd
  /\ idle' = [idle EXCEPT ![p] = TRUE]
  /\ EnablePool(p)
  /\ ppc' = [ppc EXCEPT ![p] = "testing"]
  /\ UNCHANGED <<tableVars, seqRejects, timeVars, currentpool, poolsActive, strategy, watchVars>>

OperatorStep ==
  \/ OpTest \/ OpSwitchPools \/ OpDisableRemoved \/ OpBoost \/ OpReplace \/ OpCount
  \/ OpAppend \/ OpDetails

----------------------------------------------------------------------------
(* A pool's threads: test_pool_thread once, then stratum_rthread.          *)

PGoto(p, label) == ppc' = [ppc EXCEPT ![p] = label]

(* pool_active, and the flag idle. *)
PTest(p) ==
  /\ ppc[p] = "testing"
  /\ \/ idle' = [idle EXCEPT ![p] = FALSE] /\ PGoto(p, "first")
     \/ PGoto(p, "run") /\ UNCHANGED idle   \* pool_died of a pool that is idle
  /\ UNCHANGED <<tableVars, state, seqRejects, timeVars, currentpool, poolsActive, strategy,
                 enabledPools, opVars, watchVars>>

(* The first pool that is alive is mined at once. *)
PFirst(p) ==
  /\ ppc[p] = "first"
  /\ currentpool' = IF poolsActive THEN currentpool ELSE p
  /\ poolsActive' = TRUE
  /\ wpc' = IF wpc = "off" THEN "pool" ELSE wpc   \* main starts watchpool_thread
  /\ PGoto(p, "firstSwitch")
  /\ UNCHANGED <<tableVars, state, idle, seqRejects, timeVars, strategy, enabledPools, opVars,
                 wi, wpool>>

(* pool_died, pool_failed.  Whether the pool was removed is tested only at *)
(* the head of the thread's loop, so a removed pool dies and resumes, too. *)
PoolDied(p) ==
  /\ "died" \in scene.events /\ ppc[p] = "run" /\ ~idle[p]
  /\ idle' = [idle EXCEPT ![p] = TRUE]
  /\ aged' = [aged EXCEPT ![p] = FALSE]
  /\ PGoto(p, "test")
  /\ UNCHANGED <<tableVars, state, seqRejects, rotateDue, currentpool, poolsActive, strategy,
                 enabledPools, opVars, watchVars>>

(* stratum_resumed. *)
StratumResumed(p) ==
  /\ "resumed" \in scene.events /\ ppc[p] = "run" /\ poolsActive /\ idle[p]
  /\ idle' = [idle EXCEPT ![p] = FALSE]
  /\ UNCHANGED <<tableVars, state, seqRejects, timeVars, currentpool, poolsActive, strategy,
                 enabledPools, opVars, watchVars, ppc>>

(* share_result: an accepted share; a rejecting pool is re-enabled.        *)
ShareAccepted(p) ==
  /\ "accepted" \in scene.events /\ ppc[p] = "run" /\ poolsActive /\ ~removed[p]
  /\ seqRejects' = [seqRejects EXCEPT ![p] = 0]
  /\ PGoto(p, IF state[p] = "rejecting" THEN "enable" ELSE "run")
  /\ UNCHANGED <<tableVars, state, idle, timeVars, currentpool, poolsActive, strategy,
                 enabledPools, opVars, watchVars>>

PEnable(p) ==
  /\ ppc[p] = "enable" /\ PGoto(p, "switch")
  /\ EnablePool(p)
  /\ UNCHANGED <<tableVars, idle, seqRejects, timeVars, currentpool, poolsActive, strategy,
                 opVars, watchVars>>

(* A rejected share: the pool is disabled after more than RejectLimit in a  *)
(* row (10, and utility * 3), unless the share is stale or the pool the     *)
(* only one enabled.  Beyond the limit the count is of no interest.         *)
ShareRejected(p, stale) ==
  LET n == seqRejects[p] + 1 IN
  /\ "rejected" \in scene.events /\ ppc[p] = "run" /\ poolsActive /\ ~removed[p]
  /\ seqRejects' = [seqRejects EXCEPT ![p] = Min({n, RejectLimit + 1})]
  /\ PGoto(p, IF n > RejectLimit /\ ~stale /\ scene.disableRejecting /\ enabledPools > 1
              THEN "reject" ELSE "run")
  /\ UNCHANGED <<tableVars, state, idle, timeVars, currentpool, poolsActive, strategy,
                 enabledPools, opVars, watchVars>>

PReject(p) ==
  /\ ppc[p] = "reject" /\ PGoto(p, "test")
  /\ LeaveEnabled(p, "rejecting")
  /\ seqRejects' = [seqRejects EXCEPT ![p] = 0]
  /\ UNCHANGED <<tableVars, idle, timeVars, currentpool, poolsActive, strategy, opVars,
                 watchVars>>

PTestCurrent(p) ==
  /\ ppc[p] = "test" /\ PGoto(p, IF p = currentpool THEN "switch" ELSE "run")
  /\ UNCHANGED <<tableVars, state, idle, seqRejects, timeVars, currentpool, poolsActive,
                 strategy, enabledPools, opVars, watchVars>>

PSwitchPools(p) ==
  /\ ppc[p] \in {"switch", "firstSwitch"} /\ PGoto(p, "run")
  /\ SwitchPools(NoPool)
  /\ UNCHANGED <<pools, total, poolNo, removed, state, idle, seqRejects, timeVars, poolsActive,
                 strategy, enabledPools, opVars, watchVars>>

PoolStep(p) ==
  PTest(p) \/ PFirst(p) \/ PEnable(p) \/ PReject(p) \/ PTestCurrent(p) \/ PSwitchPools(p)
PoolEvent(p) ==
  \/ PoolDied(p) \/ StratumResumed(p) \/ ShareAccepted(p)
  \/ \E stale \in BOOLEAN : ShareRejected(p, stale)

----------------------------------------------------------------------------
(* watchpool_thread, and the time it measures.                             *)

UnchangedByWatch == UNCHANGED <<pools, total, poolNo, removed, state, seqRejects, poolsActive,
                                strategy, enabledPools, opVars, ppc>>

(* One pool of the loop: a disabled one is skipped, a test thread joined,  *)
(* an idle one tested again after 30 seconds.                              *)
WPool ==
  /\ wpc = "pool"
  /\ \/ /\ wi >= total
        /\ wpc' = "rotate" /\ UNCHANGED <<wi, wpool, idle, aged>>
     \/ /\ wi < total /\ state[pools[wi]] = "disabled"
        /\ wi' = wi + 1 /\ UNCHANGED <<wpc, wpool, idle, aged>>
     \/ LET p == pools[wi] IN
        /\ wi < total /\ state[p] # "disabled"
        /\ ppc[p] \notin {"testing", "first", "firstSwitch"}
        /\ wpool' = p /\ wpc' = "failover" /\ UNCHANGED wi
        /\ IF idle[p] /\ aged[p]
           THEN /\ aged' = [aged EXCEPT ![p] = FALSE]
                /\ \E alive \in BOOLEAN : idle' = [idle EXCEPT ![p] = ~alive]
           ELSE UNCHANGED <<idle, aged>>
  /\ UnchangedByWatch /\ UNCHANGED <<prio, rotateDue, currentpool>>

(* Mutant: a recovered pool is left waiting. *)
MutWFailover ==
  /\ wpc = "failover"
  /\ wpc' = "pool" /\ wi' = wi + 1 /\ wpool' = NoPool
  /\ UnchangedByWatch /\ UNCHANGED <<prio, idle, timeVars, currentpool>>

(* Back to a better pool that has been alive for opt_fail_switch_delay.    *)
WFailover ==
  /\ wpc = "failover"
  /\ IF /\ ~idle[wpool] /\ prio[wpool] < prio[currentpool]
        /\ strategy = "failover" /\ aged[wpool]
     THEN wpc' = "failoverSwitch" /\ UNCHANGED wi
     ELSE wpc' = "pool" /\ wi' = wi + 1
  /\ wpool' = NoPool
  /\ UnchangedByWatch /\ UNCHANGED <<prio, idle, timeVars, currentpool>>

WRotate ==
  /\ wpc = "rotate"
  /\ IF strategy = "rotate" /\ rotateDue
     THEN wpc' = "rotateSwitch" /\ rotateDue' = FALSE
     ELSE wpc' = "idle" /\ UNCHANGED rotateDue
  /\ UnchangedByWatch /\ UNCHANGED <<prio, wi, wpool, idle, aged, currentpool>>

(* Mutant: the current pool's own idle flag is not looked at. *)
MutWIdle ==
  /\ wpc = "idle"
  /\ wpc' = "pool" /\ wi' = 0
  /\ UnchangedByWatch /\ UNCHANGED <<prio, wpool, idle, timeVars, currentpool>>

(* "if the current pool is dead/idle switch pool"; then sleep and go round. *)
WIdle ==
  /\ wpc = "idle"
  /\ wpc' = IF idle[currentpool] THEN "idleSwitch" ELSE "pool"
  /\ wi' = 0
  /\ UnchangedByWatch /\ UNCHANGED <<prio, wpool, idle, timeVars, currentpool>>

WSwitchPools ==
  /\ \/ wpc = "failoverSwitch" /\ wpc' = "pool" /\ wi' = wi + 1
     \/ wpc = "rotateSwitch" /\ wpc' = "idle" /\ UNCHANGED wi
     \/ wpc = "idleSwitch" /\ wpc' = "pool" /\ UNCHANGED wi
  /\ SwitchPools(NoPool)
  /\ UnchangedByWatch /\ UNCHANGED <<wpool, idle, timeVars>>

WatchStep == WPool \/ WFailover \/ WRotate \/ WIdle \/ WSwitchPools

Age(p) ==
  /\ poolsActive /\ ~aged[p] /\ aged' = [aged EXCEPT ![p] = TRUE]
  /\ UNCHANGED <<tableVars, state, idle, seqRejects, rotateDue, currentpool, poolsActive,
                 strategy, enabledPools, opVars, watchVars, ppc>>
RotatePeriod ==
  /\ strategy = "rotate" /\ ~rotateDue /\ rotateDue' = TRUE
  /\ UNCHANGED <<tableVars, state, idle, seqRejects, aged, currentpool, poolsActive,
                 strategy, enabledPools, opVars, watchVars, ppc>>

----------------------------------------------------------------------------
Crashed == currentpool = NoPool

Step(A) == ~Crashed /\ UNCHANGED scene /\ A

Next ==
  \/ Step(Command) \/ Step(OperatorStep) \/ Step(WatchStep) \/ Step(RotatePeriod)
  \/ \E p \in Pool : Step(PoolStep(p)) \/ Step(PoolEvent(p)) \/ Step(Age(p))

Spec == Init /\ [][Next]_vars

(* The threads run and time passes; the operator, the pools and the        *)
(* network do as they please.                                              *)
Fairness ==
  /\ WF_vars(Step(WatchStep)) /\ WF_vars(Step(OperatorStep)) /\ WF_vars(Step(RotatePeriod))
  /\ \A p \in Pool : WF_vars(Step(PoolStep(p))) /\ WF_vars(Step(Age(p)))
FairSpec == Spec /\ Fairness

----------------------------------------------------------------------------
(* What must hold.                                                         *)

(* Type correctness of the pool table, the flags and every thread's        *)
(* control.                                                                *)
TypeOK ==
  /\ scene \in Scenes /\ pools \in [Slots -> Pool \cup {NoPool}] /\ total \in 1..Cardinality(Pool)
  /\ prio \in [Pool -> Nat] /\ poolNo \in [Pool -> Slots]
  /\ removed \in [Pool -> BOOLEAN] /\ state \in [Pool -> States]
  /\ idle \in [Pool -> BOOLEAN] /\ aged \in [Pool -> BOOLEAN]
  /\ seqRejects \in [Pool -> 0..RejectLimit + 1]
  /\ currentpool \in Pool \cup {NoPool} /\ poolsActive \in BOOLEAN
  /\ strategy \in Strategies /\ enabledPools \in Int /\ rotateDue \in BOOLEAN
  /\ opc \in {"ready", "select", "enableTest", "disableTest", "removeSwitch", "removeTest",
              "disable", "boost", "replace", "count", "append", "prioTest", "switch", "details"}
  /\ oparg \in Seq(Pool) \cup Seq(Nat) /\ ops \in 0..scene.ops
  /\ wpc \in {"off", "pool", "failover", "failoverSwitch", "rotate", "rotateSwitch", "idle",
              "idleSwitch"}
  /\ wi \in 0..Cardinality(Pool) /\ wpool \in Pool \cup {NoPool}
  /\ ppc \in [Pool -> {"none", "testing", "first", "firstSwitch", "run", "test", "switch",
                      "enable", "reject"}]

(* The commands that rewrite the table in several steps. *)
Rewriting == opc \in {"boost", "replace", "count", "append"}

PrioritiesArePermutation == {prio[p] : p \in Listed} = 0..total - 1
NumbersAreIndexes ==
  \A i \in 0..total - 1 : pools[i] # NoPool /\ poolNo[pools[i]] = i /\ ~removed[pools[i]]

(* Between the commands the pool table is sound, whatever is switched,     *)
(* prioritised, removed or added: the priorities of the listed pools are a *)
(* permutation of 0..total_pools-1, so that each pool has its own place in *)
(* the order, a pool's number is its index in the array, and no removed    *)
(* pool is listed.                                                         *)
PoolTableIsSound == ~Rewriting => PrioritiesArePermutation /\ NumbersAreIndexes

(* With a failover strategy, whoever moves from a listed pool to another   *)
(* moves to the usable pool that the operator prefers.  It is about moves  *)
(* outside of the commands that are rewriting the table: what one finds    *)
(* within remove_pool or poolpriority is PriorityPoolFound.                *)
MovesToBestPool ==
  [][/\ poolsActive /\ strategy \in MasterStrategies /\ ~Rewriting
     /\ currentpool \in Listed /\ currentpool' # currentpool
     => /\ Usable(currentpool')
        /\ \A p \in Listed : Usable(p) => prio'[currentpool'] <= prio'[p]]_vars

(* README: "moving away from the 1st to the 2nd": while some pool stays    *)
(* usable the miner does not stay on a pool that is idle.                  *)
LeavesIdlePool ==
  (\E p \in Pool : <>[](p \in Listed /\ Usable(p))) => []<>(~idle[currentpool])

(* README: "If any of the earlier pools recover, it will move back to the  *)
(* higher priority ones": the first pool is mined again once it stays      *)
(* usable.                                                                 *)
FailsBack ==
  \A p \in Pool :
    <>[](strategy = "failover" /\ p \in Listed /\ prio[p] = 0 /\ Usable(p))
    => <>[](currentpool = p)

(* README: "This strategy moves at user-defined intervals from one active  *)
(* pool to the next": with rotate every pool that stays usable has its turn. *)
RotateVisitsAll ==
  \A p \in Pool :
    <>[](strategy = "rotate" /\ p \in Listed /\ Usable(p)) => []<>(currentpool = p)

----------------------------------------------------------------------------
(* What the documentation, a message or an assertion says and the code     *)
(* refutes.                                                                *)

(* "Cannot remove active pool": the current pool has not been removed.     *)
RemovedPoolIsNotCurrent == ~Crashed => ~removed[currentpool]

(* priority_pool: "WTF No pool %d found!" is unlikely.  The switch that is *)
(* about to happen finds every priority it looks for.                      *)
Switching ==
  \/ opc \in {"select", "switch", "removeSwitch"}
  \/ wpc \in {"failoverSwitch", "rotateSwitch", "idleSwitch"}
  \/ \E p \in Pool : ppc[p] \in {"switch", "firstSwitch"}
PriorityPoolFound ==
  Switching /\ strategy \in MasterStrategies /\ (\A p \in Listed : ~Usable(p)) =>
    \A i \in 0..total - 1 : \E p \in Listed : prio[p] = i

(* Round robin "only moves from one pool to the next when the current one  *)
(* falls idle and makes no attempt to move otherwise".                     *)
RoundRobinStays ==
  [][poolsActive /\ strategy = "roundrobin" /\ opc = "ready" /\ Usable(currentpool)
     => currentpool' = currentpool]_vars

(* disable-rejecting: "Automatically disable a pool that continually       *)
(* reject shares": while another enabled pool is there, a pool that has    *)
(* rejected more than RejectLimit shares in a row is disabled.             *)
ContinualRejectsDisable ==
  [][\A p \in Pool :
       /\ scene.disableRejecting /\ seqRejects[p] >= RejectLimit /\ ShareRejected(p, FALSE)
       /\ state[p] = "enabled" /\ \E q \in Listed \ {p} : state[q] = "enabled"
       => ppc'[p] = "reject"]_vars

(* README on pools one does not "want automatically enabled at start up":  *)
(* a pool whose state is "disabled" is not mined for ever while another    *)
(* one is usable.                                                          *)
DisabledPoolIsLeft ==
  (\E p \in Pool : <>[](p \in Listed /\ Usable(p))) => []<>(state[currentpool] # "disabled")
=============================================================================
