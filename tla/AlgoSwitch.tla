----------------------------- MODULE AlgoSwitch -----------------------------
(***************************************************************************)
(* How the mining threads change algorithm when the pool changes           *)
(* (sgminer.c: get_work_prepare_thread, get_work, hash_sole_work,          *)
(* restart_mining_threads).  Every thread takes work of the current pool,  *)
(* or the one item that main staged for the last pool after                *)
(* clear_pool_work had emptied the queue; a thread whose work wants other  *)
(* settings enters a barrier built from the counter algo_switch_n and the  *)
(* condition algo_switch_wait_cond, and the last one in changes the        *)
(* settings for all.  A "soft" change rebuilds the OpenCL contexts in      *)
(* place; a "hard" one (other devices) lets every thread exit and starts   *)
(* new ones from restart_mining_threads.                                   *)
(*                                                                         *)
(* Left out: the pause of a scheduled stop, reinit of a sick device, the   *)
(* number of threads a device has (gpu_threads), and mining_thr_lock.      *)
(***************************************************************************)
EXTENDS Naturals, FiniteSets

CONSTANTS
    Thread,      \* mining_thr
    Device,      \* devices
    DeviceOf,    \* thr->cgpu
    Pool,        \* pools
    Settings,    \* of each pool: [algorithm, tune, clock, devices]
    Scenes,      \* bound: what is configured and what may happen; see scene
    None         \* no OpenCL context; no pool

\* pools: the configured ones; mode: opt_switchmode, SWITCH_OFF excluded; calm:
\* the pool changes only when every thread mines the current one, and no work of the
\* last one is left; maySicken: the watchdog may find a device sick; maxSwitch,
\* maxCommands: changes of the current pool, gpuenable and gpudisable commands.
Scene == [pools : (SUBSET Pool) \ {{}}, mode : {"algo", "pool"}, calm : BOOLEAN,
          maySicken : BOOLEAN, maxSwitch : Nat, maxCommands : Nat]

ASSUME ThreadAssumption == IsFiniteSet(Thread) /\ DeviceOf \in [Thread -> Device]
ASSUME SettingsAssumption ==
    \A p \in Pool : /\ DOMAIN Settings[p] = {"algorithm", "tune", "clock", "devices"}
                    /\ Settings[p].devices \in (SUBSET Device) \ {{}}
ASSUME SceneAssumption == \A sc \in Scenes : sc \in Scene

VARIABLES
    scene,      \* never changes
    cur,        \* current_pool()
    late,       \* the pool of the item staged after the queue was cleared, or None
    pc,         \* where each mining thread is
    work,       \* work->pool of the work each thread holds
    poolNo,     \* thr->pool_no
    config,     \* cgpu->algorithm and the tuning set by apply_switcher_options
    kernel,     \* clStates[thr]: the configuration its context was built for
    options,    \* pool_switch_options
    n,          \* algo_switch_n
    deven,      \* devices with deven = DEV_ENABLED
    sick,       \* devices with status LIFE_SICK or LIFE_DEAD
    sem,        \* thr->sem
    restart,    \* restart_mining_threads is running
    switches,   \* changes of the current pool so far
    commands    \* device commands so far

switchVars == <<config, kernel, options>>
devVars == <<deven, sick, sem>>
boundVars == <<cur, late, switches, commands>>
vars == <<scene, pc, work, poolNo, n, restart, switchVars, devVars, boundVars>>

Algorithms == {Settings[p].algorithm : p \in Pool}
Tunings == {Settings[p].tune : p \in Pool}
Build == [algorithm : Algorithms, tune : Tunings]
BuildOf(p) == [algorithm |-> Settings[p].algorithm, tune |-> Settings[p].tune]

ASSUME NoneAssumption == None \notin Build

\* The threads that hold algo_switch_lock.
Switching == {"count", "check", "shutdown", "apply"}
Places == Switching \cup {"asleep", "pop", "prepare", "hard", "clear", "wait", "blocked",
                          "start", "hash", "parked", "exited"}
Options == {"algo", "tune", "clock", "devices", "soft", "hard"}

TypeOK ==
    /\ scene \in Scenes
    /\ cur \in scene.pools
    /\ late \in Pool \cup {None}
    /\ pc \in [Thread -> Places]
    /\ work \in [Thread -> Pool]
    /\ poolNo \in [Thread -> Pool]
    /\ config \in Build
    /\ kernel \in [Thread -> Build \cup {None}]
    /\ options \in SUBSET Options
    /\ n \in 0 .. Cardinality(Thread)
    /\ deven \in SUBSET Device
    /\ sick \in SUBSET Device
    /\ sem \in [Thread -> 0 .. scene.maxCommands + 1]
    /\ restart \in BOOLEAN
    /\ switches \in 0 .. scene.maxSwitch
    /\ commands \in 0 .. scene.maxCommands

ThreadsOf(d) == {t \in Thread : DeviceOf[t] = d}
First(d) == CHOOSE t \in ThreadsOf(d) : TRUE
All(v) == [t \in Thread |-> v]
Goto(t, place) == pc' = [pc EXCEPT ![t] = place]
Free(lockers) == \A u \in Thread : pc[u] \notin lockers

-----------------------------------------------------------------------------
\* New mining threads: those of an enabled device are posted, the others sleep.
Begin(enabled) == [t \in Thread |-> IF DeviceOf[t] \in enabled THEN "pop" ELSE "asleep"]

Init ==
    /\ scene \in Scenes
    /\ cur \in scene.pools
    /\ late = None
    /\ config = BuildOf(cur)
    /\ kernel = All(config)
    /\ poolNo = All(cur)
    /\ work = All(cur)
    /\ options = {}
    /\ n = 0
    /\ deven = Settings[cur].devices
    /\ sick = {}
    /\ sem = All(0)
    /\ pc = Begin(deven)
    /\ restart = FALSE
    /\ switches = 0
    /\ commands = 0

-----------------------------------------------------------------------------
(* compare_pool_settings: what differs, and the reset it takes.            *)
Compare(old, new) ==
    LET differs(f) == Settings[old][f] # Settings[new][f]
        algo == {o \in {"algo"} : differs("algorithm")}
        tune == {o \in {"tune"} : differs("tune")}
        clock == {o \in {"clock"} : differs("clock")}
        devices == {o \in {"devices"} : differs("devices")}
        reset == IF devices # {} THEN {"hard"} ELSE {o \in {"soft"} : algo \cup tune # {}}
    IN  algo \cup tune \cup clock \cup devices \cup reset

\* The options the first thread at the barrier settles on.
Wanted(t) ==
    IF \/ scene.mode = "algo" /\ Settings[work[t]].algorithm = config.algorithm
       \/ scene.mode = "pool" /\ work[t] = poolNo[t]
    THEN {} ELSE Compare(poolNo[t], work[t])

\* Mutant: counts the active devices, not their threads.
MutActive == Cardinality(deven \ sick)

\* Threads the barrier waits for: not those of a disabled, sick or dead device.
Active == Cardinality({t \in Thread : DeviceOf[t] \in deven \ sick})

-----------------------------------------------------------------------------
(* get_work takes the next work item and reports the thread as waiting.    *)
Pop(t) ==
    /\ pc[t] = "pop"
    /\ \/ work' = [work EXCEPT ![t] = cur] /\ UNCHANGED late
       \/ late # None /\ work' = [work EXCEPT ![t] = late] /\ late' = None
    /\ sick' = sick \ {DeviceOf[t]}
    /\ Goto(t, "prepare")
    /\ UNCHANGED <<poolNo, n, restart, deven, sem, switchVars, cur, switches, commands>>

(* get_work_prepare_thread takes algo_switch_lock.  With nobody at the     *)
(* barrier it settles the options, and returns if there is nothing to do.  *)
EnterNothing(t) ==
    /\ pc[t] = "prepare" /\ Free(Switching)
    /\ n = 0 /\ Wanted(t) = {}
    /\ options' = {}
    /\ poolNo' = IF scene.mode = "pool" /\ work[t] # poolNo[t] THEN All(work[t]) ELSE poolNo
    /\ Goto(t, "start")
    /\ UNCHANGED <<work, n, restart, config, kernel, devVars, boundVars>>

EnterBarrier(t) ==
    /\ pc[t] = "prepare" /\ Free(Switching)
    /\ n = 0 => Wanted(t) # {}
    /\ options' = IF n = 0 THEN Wanted(t) ELSE options
    /\ Goto(t, "count")
    /\ UNCHANGED <<work, poolNo, n, restart, config, kernel, devVars, boundVars>>

Count(t) ==
    /\ pc[t] = "count"
    /\ n' = n + 1
    /\ Goto(t, "check")
    /\ UNCHANGED <<work, poolNo, restart, switchVars, devVars, boundVars>>

\* A thread that is not the last waits, or exits if a hard reset is coming.
NotLast(t) ==
    /\ pc[t] = "check" /\ n < Active
    /\ Goto(t, IF "hard" \in options THEN "exited" ELSE "wait")
    /\ UNCHANGED <<work, poolNo, n, restart, switchVars, devVars, boundVars>>

\* Mutant: opens the barrier one thread early.
MutLast(t) ==
    /\ pc[t] = "check" /\ n + 1 >= Active
    /\ Goto(t, IF "soft" \in options THEN "shutdown" ELSE "apply")
    /\ UNCHANGED <<work, poolNo, n, restart, switchVars, devVars, boundVars>>

Last(t) ==
    /\ pc[t] = "check" /\ n >= Active
    /\ Goto(t, IF "soft" \in options THEN "shutdown" ELSE "apply")
    /\ UNCHANGED <<work, poolNo, n, restart, switchVars, devVars, boundVars>>

\* thread_shutdown for every thread.
Shutdown(t) ==
    /\ pc[t] = "shutdown"
    /\ kernel' = All(None)
    /\ Goto(t, "apply")
    /\ UNCHANGED <<work, poolNo, n, restart, config, options, devVars, boundVars>>

\* Mutant: tuning only with a new algorithm.
MutAppliedNoTune(t) ==
    [algorithm |-> IF "algo" \in options THEN Settings[work[t]].algorithm ELSE config.algorithm,
     tune      |-> IF "algo" \in options THEN Settings[work[t]].tune ELSE config.tune]

(* apply_switcher_options with the pool of this thread's work, but with    *)
(* the options of the first thread; then the lock is released.             *)
Applied(t) ==
    [algorithm |-> IF "algo" \in options THEN Settings[work[t]].algorithm ELSE config.algorithm,
     tune      |-> IF "tune" \in options THEN Settings[work[t]].tune ELSE config.tune]

\* Mutant: a new tuning alone leaves the context as it was.
MutApply(t) ==
    /\ pc[t] = "apply"
    /\ poolNo' = All(work[t])
    /\ config' = Applied(t)
    /\ kernel' = IF {"soft", "algo"} \subseteq options THEN All(config') ELSE kernel
    /\ Goto(t, IF "hard" \in options THEN "hard" ELSE "clear")
    /\ UNCHANGED <<work, n, restart, options, devVars, boundVars>>

Apply(t) ==
    /\ pc[t] = "apply"
    /\ poolNo' = All(work[t])
    /\ config' = Applied(t)
    /\ kernel' = IF "soft" \in options THEN All(config') ELSE kernel
    /\ Goto(t, IF "hard" \in options THEN "hard" ELSE "clear")
    /\ UNCHANGED <<work, n, restart, options, devVars, boundVars>>

\* The barrier opens: the count is cleared and the waiters are signalled.
Clear(t) ==
    /\ pc[t] = "clear"
    /\ n' = 0
    /\ pc' = [u \in Thread |-> CASE u = t -> "start"
                                 [] u # t /\ pc[u] = "blocked" -> "wait"
                                 [] OTHER -> pc[u]]
    /\ UNCHANGED <<work, poolNo, restart, switchVars, devVars, boundVars>>

\* The waiter tests algo_switch_n, before it blocks and whenever it wakes.
Wait(t) ==
    /\ pc[t] = "wait"
    /\ Goto(t, IF n > 0 THEN "blocked" ELSE "start")
    /\ UNCHANGED <<work, poolNo, n, restart, switchVars, devVars, boundVars>>

\* Mutant: the devices of the new pool are not enabled.
MutHardReset(t) ==
    /\ pc[t] = "hard"
    /\ restart' = TRUE
    /\ Goto(t, "exited")
    /\ UNCHANGED <<work, poolNo, n, devVars, switchVars, boundVars>>

\* enable_devices, and the thread that restarts all mining threads.
HardReset(t) ==
    /\ pc[t] = "hard"
    /\ deven' = IF "devices" \in options THEN Settings[work[t]].devices ELSE deven
    /\ restart' = TRUE
    /\ Goto(t, "exited")
    /\ UNCHANGED <<work, poolNo, n, sick, sem, switchVars, boundVars>>

-----------------------------------------------------------------------------
(* hash_sole_work: prepare_work sets the thread's pool, then it hashes.    *)
Start(t) ==
    /\ pc[t] = "start"
    /\ poolNo' = [poolNo EXCEPT ![t] = work[t]]
    /\ sick' = sick \ {DeviceOf[t]}
    /\ Goto(t, "hash")
    /\ UNCHANGED <<work, n, restart, deven, sem, switchVars, boundVars>>

(* The work is done or abandoned; a thread told to shut down disables its  *)
(* device on the way out.                                                  *)
Finish(t) ==
    /\ pc[t] = "hash"
    /\ sick' = sick \ {DeviceOf[t]}
    /\ deven' = IF restart THEN deven \ {DeviceOf[t]} ELSE deven
    /\ Goto(t, IF restart THEN "exited" ELSE "pop")
    /\ UNCHANGED <<work, poolNo, n, restart, sem, switchVars, boundVars>>

\* mt_disable: the thread of a disabled device waits on its semaphore ...
Park(t) ==
    /\ pc[t] = "hash" /\ DeviceOf[t] \notin deven
    /\ sick' = sick \ {DeviceOf[t]}
    /\ Goto(t, "parked")
    /\ UNCHANGED <<work, poolNo, n, restart, deven, sem, switchVars, boundVars>>

\* ... and goes on with the work it had; a thread that never ran takes work.
Wake(t) ==
    /\ pc[t] \in {"parked", "asleep"} /\ sem[t] > 0
    /\ sem' = [sem EXCEPT ![t] = @ - 1]
    /\ Goto(t, IF pc[t] = "parked" THEN "hash" ELSE "pop")
    /\ UNCHANGED <<work, poolNo, n, restart, deven, sick, switchVars, boundVars>>

-----------------------------------------------------------------------------
(* restart_mining_threads: cancel and join every thread, then start anew.  *)
Kill(t) ==
    /\ restart
    /\ pc[t] \in {"pop", "blocked", "parked", "asleep", "hash"}
    /\ Goto(t, "exited")
    /\ UNCHANGED <<work, poolNo, n, restart, switchVars, devVars, boundVars>>

RestartThreads ==
    /\ restart
    /\ \A t \in Thread : pc[t] = "exited"
    /\ n' = 0
    /\ poolNo' = All(cur)
    /\ kernel' = All(config)
    /\ sick' = {}
    /\ sem' = All(0)
    /\ pc' = Begin(deven)
    /\ restart' = FALSE
    /\ UNCHANGED <<work, config, options, deven, boundVars>>

-----------------------------------------------------------------------------
(* The rest of the program: the pool manager, the API and the watchdog.    *)
MinesCurrent(t) ==
    \/ pc[t] = "hash" /\ work[t] = cur
    \/ pc[t] \in {"parked", "asleep"}

SwitchPools(p) ==
    /\ switches < scene.maxSwitch /\ p \in scene.pools \ {cur}
    /\ scene.calm => ~restart /\ \A t \in Thread : MinesCurrent(t)
    /\ cur' = p
    /\ late' \in IF scene.calm THEN {None} ELSE {None, cur}
    /\ switches' = switches + 1
    /\ UNCHANGED <<pc, work, poolNo, n, restart, commands, switchVars, devVars>>

gpudisable(d) ==
    /\ commands < scene.maxCommands /\ d \in deven
    /\ deven' = deven \ {d}
    /\ commands' = commands + 1
    /\ UNCHANGED <<pc, work, poolNo, n, restart, sick, sem, cur, late, switches, switchVars>>

\* Mutant: posts only the first thread of the device.
Mutgpuenable(d) ==
    /\ commands < scene.maxCommands /\ d \notin deven \cup sick
    /\ deven' = deven \cup {d}
    /\ sem' = [sem EXCEPT ![First(d)] = @ + 1]
    /\ commands' = commands + 1
    /\ UNCHANGED <<pc, work, poolNo, n, restart, sick, cur, late, switches, switchVars>>

gpuenable(d) ==
    /\ commands < scene.maxCommands /\ d \notin deven \cup sick
    /\ deven' = deven \cup {d}
    /\ sem' = [t \in Thread |-> IF DeviceOf[t] = d THEN sem[t] + 1 ELSE sem[t]]
    /\ commands' = commands + 1
    /\ UNCHANGED <<pc, work, poolNo, n, restart, sick, cur, late, switches, switchVars>>

\* The watchdog looks at the first thread of the device, unless it waits for work.
Sicken(d) ==
    /\ scene.maySicken /\ d \in deven \ sick
    /\ pc[First(d)] = "hash"
    /\ sick' = sick \cup {d}
    /\ UNCHANGED <<pc, work, poolNo, n, restart, deven, sem, switchVars, boundVars>>

-----------------------------------------------------------------------------
Prepare(t) ==
    \/ EnterNothing(t) \/ EnterBarrier(t) \/ Count(t) \/ NotLast(t) \/ Last(t)
    \/ Shutdown(t) \/ Apply(t) \/ Clear(t) \/ Wait(t) \/ HardReset(t)

Hash(t) == Start(t) \/ Finish(t) \/ Park(t) \/ Wake(t)

Step(A) == UNCHANGED scene /\ A

Next ==
    \/ \E t \in Thread : Step(Pop(t)) \/ Step(Prepare(t)) \/ Step(Hash(t)) \/ Step(Kill(t))
    \/ Step(RestartThreads)
    \/ \E p \in Pool : Step(SwitchPools(p))
    \/ \E d \in Device : Step(gpudisable(d)) \/ Step(gpuenable(d)) \/ Step(Sicken(d))

(* Every thread runs: pools give work, a scan returns and work is bounded  *)
(* by opt_scantime.  Nobody has to send a command or change the pool.      *)
Fairness ==
    /\ \A t \in Thread : WF_vars(Step(Pop(t) \/ Prepare(t) \/ Hash(t))) /\ WF_vars(Step(Kill(t)))
    /\ WF_vars(Step(RestartThreads))

Spec == Init /\ [][Next]_vars /\ Fairness

-----------------------------------------------------------------------------
(* A thread never hashes with an OpenCL context that was shut down: the    *)
(* barrier really holds every thread while the contexts are rebuilt.       *)
NoReleasedKernel == \A t \in Thread : pc[t] = "hash" => kernel[t] # None

(* ... as long as no device is disabled, enabled or sick.                  *)
NoReleasedKernelUndisturbed ==
    scene.maxCommands = 0 /\ ~scene.maySicken => NoReleasedKernel

(* A thread that hashes has a context built for the algorithm and tuning   *)
(* its device is set to, whenever and however often the pool changes: the  *)
(* options come from the first thread at the barrier and the settings from *)
(* the pool of the last one, but no change of the settings is left without *)
(* its reset, soft or hard, and no thread is let go before it.  (As long   *)
(* as no device is disabled, enabled or sick.  Whether the settings are    *)
(* those of the thread's work is another matter: KernelMatchesWork.)       *)
ContextsAreConfigured ==
    scene.maxCommands = 0 /\ ~scene.maySicken =>
        \A t \in Thread : pc[t] = "hash" => kernel[t] = config

(* A thread hashes the work of a pool with that pool's algorithm and, when *)
(* switching on every pool change, with its tuning.  (In calm scenes only: *)
(* with works of two pools at the barrier it is false, see MismatchEnds.)  *)
KernelMatchesWork ==
    \A t \in Thread : pc[t] = "hash" /\ kernel[t] # None =>
        /\ kernel[t].algorithm = Settings[work[t]].algorithm
        /\ scene.mode = "pool" => kernel[t].tune = Settings[work[t]].tune

(* While restart_mining_threads runs, no thread can ask for another one:   *)
(* as long as all are counted, that is, and no device is disabled on the   *)
(* way to a hard reset (then it is false: DisableInHard of MCAlgoSwitch).  *)
OneRestart == restart => \A t \in Thread : pc[t] \notin {"hard", "count", "check"}

(* No thread of an enabled device sleeps on its semaphore without a post   *)
(* on the way, whatever the order of gpudisable, gpuenable, mt_disable and *)
(* a restart (which posts the threads of the devices it finds enabled).    *)
EnabledThreadsWake ==
    \A t \in Thread : ~restart /\ DeviceOf[t] \in deven /\ pc[t] \in {"parked", "asleep"} => sem[t] > 0

(* A thread that waits at the barrier gets to hash again.                  *)
WaitsEnd == \A t \in Thread : pc[t] \in {"wait", "blocked"} ~> pc[t] \notin {"wait", "blocked"}

(* After a switch every device of the new pool mines it.                   *)
SwitchCompletes ==
    \A p \in Pool : \A t \in Thread :
        (cur = p /\ DeviceOf[t] \in Settings[p].devices)
            ~> (cur # p \/ (pc[t] = "hash" /\ work[t] = p))

(* Once the pool no longer changes, every thread mines with its algorithm. *)
MismatchEnds ==
    \A t \in Thread : <>[](pc[t] = "hash" =>
        kernel[t] # None /\ kernel[t].algorithm = Settings[work[t]].algorithm)
=============================================================================
