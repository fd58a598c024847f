# A TLA+ model of sgminer

sgminer mines cryptocurrencies with GPUs for one or several pools. Its core is
a multi-threaded C program of about 20 000 lines (`sgminer.c`, `util.c`,
`api.c`, `driver-opencl.c`): some threads take work from pools, one thread per
GPU context hashes it, others send the shares that are found, and the operator
changes the pools and the devices while all of that runs. The hashing is
sequential and well tested by every accepted share. What is hard is what the
threads do to each other, and that is what these modules are about.

Contents: [the system](#1-the-system), [the structure](#2-the-structure),
[the modules](#3-the-modules), [the runs](#4-the-runs), [bounds](#5-bounds),
[fairness](#6-fairness), [proofs](#7-proofs),
[disagreements with the code](#8-where-code-and-documentation-disagree),
[what is left out](#9-what-is-not-modelled).

To check a module: `tlc -config <Run>.cfg <Module>.tla` with the community
modules on the path; `tlapm <Module>Proofs.tla` for the proofs. `PROJECT.json`
lists the components, the runs, a mutant of the code for every property, the
source lines of every definition, the hazards and the theorems.

## 1. The system

### Threads

| thread | how many | code | what it does |
|---|---|---|---|
| main | 1 | `main`, sgminer.c | reads the configuration, probes the pools, then stages work for ever |
| mining thread | per GPU context | `miner_thread`, `hash_sole_work` | takes staged work, switches the algorithm when the work's pool wants it, hashes |
| stratum receiver | per stratum pool | `stratum_rthread` | reads the pool's lines, reconnects |
| stratum sender | per stratum pool | `stratum_sthread` | sends shares, retries them |
| getwork sender | one, plus one per batch | `getwork_thread`, `submit_work_thread` | HTTP requests through a pool of curl handles |
| long poll | per such pool | `longpoll_thread` | waits for a new block |
| pool test | per pool, at the start and when added | `test_pool_thread` | finds out whether the pool answers |
| watchpool | 1 | `watchpool_thread` | revives idle pools, changes to better ones |
| watchdog | 1 | `watchdog_thread` | finds sick and dead devices |
| API | 1 | `api` | commands of the operator over a socket |
| curses | 1 | `input_thread` | commands of the operator on the console |
| device restart | 1 | `reinit_gpu` | restarts one device |
| thread restart | one at a time, detached | `restart_mining_threads_thread` | a hard reset: all mining threads are cancelled and started anew |

They share memory under some twenty locks. The ones that matter here:
`control_lock` (which pool is mined), `stgd_lock` (staged work), `data_lock` of
each pool (the session and the current job), `sshare_lock` (shares that wait
for an answer), `stratum_lock` of each pool (its socket), `algo_switch_lock`
and `mining_thr_lock` (the devices' threads), `ch_lock` (the block). Several
of them are *cglocks*, readers-writer locks the program builds itself.

### Components

For each: its state, its operations, whom it meets, what is hard, what makes
it correct.

**Stratum share submission** (`sgminer.c` 5200-5760, `util.c` 1740-2620).
State: the queue `stratum_q` of each pool, the hash table `stratum_shares`,
`pool->sshares`, the id counter `swork_id`, the socket with `stratum_active`
and the session (`nonce1`, `sessionid`). Operations: submit a share; send,
retry or give it up; handle an answer; notice a broken connection, clear what
is lost, reconnect, resume the session; suspend an unneeded connection. The
two threads of the pool meet in the table and on the socket; `cnx_needed`
reads the counter. Hard: an answer may come before the sender has recorded the
share, connections break between any two steps, and a session may or may not
survive. Correct: a share is settled at most once, it is never in two places
or nowhere, none stays in the table of a dead connection, the counter agrees
with the table, and retries end.

**cglock** (`miner.h` 880-1130). State: a mutex and a rwlock. Operations: read,
intermediate and write mode, upgrades and downgrades. Everybody uses it.
Correct: the modes exclude each other, a downgrade lets no writer in between,
a writer is not starved.

**Pool management** (`sgminer.c` 530-1080, 2870-2990, 4060-4236, 7740-8250;
`api.c` 1960-2310). State: the array of pools, its length, their numbers,
priorities, states and idle flags, the current pool, the strategy. Operations:
the commands of two consoles, deaths and resurrections, rejects,
`watchpool_thread`. Only the choice itself is made under a lock. Hard: all
threads test and act in separate steps on fields others write. Correct:
priorities and numbers stay permutations, the miner moves to the best usable
pool, leaves a dead one, comes back, visits all when it rotates.

**Algorithm switcher** (`sgminer.c` 6720-7080, 8560-8700; `api.c` 1700-1850;
`driver-opencl.c`). State: a barrier (a counter under a mutex with a condition
variable), the options chosen by the first thread to arrive, the algorithm and
the tuning of the devices, which devices are enabled or sick, the semaphore of
each thread. Operations: arrive, wait, open the barrier, rebuild the OpenCL
contexts or restart all threads, park and wake the threads of a device. Hard:
the barrier is reused, devices leave and join while threads wait at it, and
what is compared is the pool of the last work and not what the device runs.
Correct: nobody hashes on a released context or on one that was built for other
settings than those of its device, every thread hashes the work of a pool with the
algorithm of that pool, waits end.

**Stratum work generation** (`util.c` 1505-1734, `sgminer.c` 6112-6253). State:
`pool->swork`, the coinbase, `nonce2`, `n2size`, `next_diff`. Operations:
`mining.notify`, `mining.set_difficulty`, `mining.set_extranonce`, a new
subscription, generation of work. Hard: a work takes its coinbase from the last
`mining.notify` and `nonce1` and `n2size` from the pool as it is now, and what makes a
work stale are two flags and the job id. Correct: what is mined is of the session that
stands and of the newest job, as hard as that job, not made of two extranonces, and no
two works of a job are equal.

**Staged work** (`sgminer.c` 3818-3880, 4239-4257, 4491-4530, 5360-5377,
5951-6011, 9150-9272). State: the hash table `staged_work` with its count of
rollable works, the condition variables `gws_cond` (the scheduler) and `getq`
(the mining threads). Operations: stage, pop, clone, discard stale work, clear
a pool's work. Correct: miners that want work get it, the counter agrees with
the table.

**Block detection** (`sgminer.c` 4300-4480). State: the table of the last six
blocks, `new_blocks`, `work_block`, the current block. Operations:
`test_work_current`, called by every stratum receiver for a clean job and by
main for every work it stages. Hard: lookup, insertion and the two counters
are in separate critical sections or in none. Correct: shares of an old block
are stale, whoever found the new one.

**Quota and balance** (`sgminer.c` 480-525, 3250-3370, 7760-7780; `api.c`
2151-2191). State: `quota`, `quota_gcd`, `quota_used` of each pool, the
rotating pool, the shares of the balance strategy. Operations: `select_pool`, a
change of a quota, `discard_work`. Correct: the work is divided in the ratio of
the quotas, and no usable pool starves.

**Curl pool** (`sgminer.c` 3610-3670, 7712-7740). State: `curls`, `curlring`,
the waiters on `cr_cond`. Operations: take a handle or wait for one, give it
back, reap old ones. Correct: no handle is lost, none is made beyond the limit,
and everybody who waits gets one.

**Watchdog and device restart** (`sgminer.c` 5080-5135, 7230-7470, 7840-8010,
8579-8713; `driver-opencl.c` 840-870, 1060-1176; `api.c` 1736-1842). State:
`deven`, `status`, `shutdown` of each GPU; `sem`, `getwork`, `pause`, `last` of
its thread; the queue of `reinit_gpu`; `mining_thr_lock`. Operations: the
thread reports and scans, the watchdog judges, `reinit_gpu` kills and starts a
thread, the operator enables, disables and restarts, a schedule pauses all, a
hard restart replaces all threads. Nearly all flags are read and written
without a lock. Hard: devices hang, fail or never come back from `initCl` at
any step. Correct: only a hanging thread is called sick, a device that is
enabled mines, a hard restart gets its lock.

**Thread queues** (`tq_*`), **long polling** (7540-7700), **helpers**
(`cgsem_*`, `cg_completion_timeout`): modelled as far as the modules above use
them.

**API server**: the commands that change pools or devices are actions of the
modules above; the socket, the access groups and the reports are input and
output. **Configuration, events, logging**: input and output. **GPU clocks
and fans** (`adl.c`): a control loop over a vendor library. **Algorithms,
hash functions, kernels, vendored code**: pure computation or not of this
project.

### What the repository tests

Nothing automatically: there is no test suite. Its documentation is the README
and `doc/`, and comments in the code. The expectations in these modules come
from there and from what the code is evidently built to do.

## 2. The structure

A module per component, written so that it can be proved about: constants with
named assumptions, an action per operation, invariants as conjunctions of
named parts, no RECURSIVE operator.

| modules | abstract specification | theorems |
|---|---|---|
| StratumShares, MCStratumShares, StratumSharesProofs | ShareLedger | types; SharesHaveOnePlace; SuspendedHasNoShares; UntrackedWasCleared; SsharesCountsTable; refinement |
| CGLock, PartsProofs | LockModes | types; exclusion; refinement |
| StratumWork, StratumWorkProofs | – | FreshIsCurrent; MixedWorkIsDropped; SdiffCoversJob; NoDuplicateWork |
| WorkQueue, MCWorkQueue, WorkQueueProofs | – | NobodySleepsOnWork; SchedulerHearsMiners; CounterCoversMasters; LastPoolLeavesOneWork |
| Devices, DevicesProofs | – | SickIsHung |
| CurlPool, PartsProofs | – | types; HandlesAreSound |
| PoolManager, MCPoolManager, PoolManagerProofs | – | types; PoolTableIsSound; MovesToBestPool |
| AlgoSwitch, MCAlgoSwitch, AlgoSwitchProofs | – | EnabledThreadsWake; NoReleasedKernelUndisturbed; ContextsAreConfigured; OneRestart |
| PoolSelect, MCPoolSelect, PoolSelectProofs | – | RoundIsExact; BalanceIsEven |
| BlockTest, PartsProofs | – | OldBlockIsStale |

Components meet in the modules where one of them is the environment of the
other, and nowhere else. `LastPoolLeavesOneWork` of WorkQueue is what AlgoSwitch
supposes of the staged work (`late`); BlockTest makes the works StratumWork
calls stale; Devices gives AlgoSwitch the devices that are disabled or sick.
The products of these models are out of TLC's reach. `MCParts` is no
composition in this sense: CGLock, BlockTest, PoolSelect and CurlPool share no
state, and one run checks them side by side.

Runs use two or three threads or pools, enough for two actors to race and one
to watch, and one budget for each kind of disturbance.

## 3. The modules

Each module has a comment at its head on what it models and leaves out, the
state as commented VARIABLES with the C names, an action per critical section
or unlocked step, and its properties at the end. `MC*` modules hold instances
for TLC, `*Proofs` modules hold proofs. Definitions called `Mut*` are not part
of any specification: each is a definition of the module with a plausible bug,
and breaks a property named in `PROJECT.json`.

**StratumShares.** Per pool, the control points of `stratum_sthread` (`spc`)
and `stratum_rthread` (`rpc`), the socket as seen from here (`active`) and in
truth (`sock`), the session (`nonce1` names the connection that opened it), the
requests the pool owes an answer and the answers on their way; globally the
table, the ids and `sshare_lock`. `SHead` to `SDone` are the sender's steps:
it pops, takes an id under the lock, sends, records the share, or sleeps and
compares the session. `RHead` to `RAuthTimeout` are the receiver's: idle
suspension, `wait_lpcurrent`, a line read and dispatched (`RResponse` removes
the share from the table, `RShareResult` accounts for it), a lost connection,
and `restart_stratum` step by step, from each of its callers (`mode`). The pool
answers in any order, with any verdict, or dies; it may resume a session or
not. `ShareLedger` is what the two promise together: a share is settled once.

**CGLock.** A mutex and a rwlock; every `cg_*` function is one action with a
disjunct per pthread call, so that threads interleave between the calls.
`LockModes` is the lock as its users see it: each thread has a mode, one action
changes one thread's mode, and only to one that is compatible with the others.

**PoolManager.** The array `pools` with `total`, the fields of each pool, and
three kinds of processes: a console (`opc`; every `Op*` action is a step of a
command), `watchpool_thread` (`wpc`, the `W*` actions), and each pool's own
thread (`ppc`, the `P*` actions): first `test_pool_thread`, later the receiver,
which answers shares and reports a dead pool. `SwitchPools` is
`__switch_pools` under `control_lock`: the only critical section. Between any
test and the switch it leads to there is a step. When a priority is not found or
a removed pool's number is used as an index, the C program reads a wild
pointer: the model sets `currentpool` to `NoPool` (`Crashed`) and stops.

**AlgoSwitch.** `pc` of each mining thread from `Pop` (`get_work`) through the
barrier of `get_work_prepare_thread` (`EnterBarrier`, `Count`, `NotLast` or
`Last`, `Shutdown`, `Apply`, `Clear`, `Wait`) to hashing (`Start`, `Finish`) and
parking (`Park`, `Wake`: `mt_disable`). `HardReset`, `Kill` and
`RestartThreads` are a hard reset. `config` is what the device structures say,
`kernel` what each OpenCL context was built for, `poolNo` what the next
comparison is made with. `late` is one work of the last pool: `clear_pool_work`
empties the staged work at a change of pool, and main may have one more work of
the old pool in hand. That it is one at most is `LastPoolLeavesOneWork` of
WorkQueue, checked and proved there.

**WorkQueue.** `staged` is a bag of works, `rollable` is `staged_rollable`.
`hash_push`, `hash_pop`, `discard_stale` and `clear_pool_work` are a step each;
main's loop is cut where it holds no lock (`Limit` reads the counter and the
limits, `Test` is under the lock, `Select` to `Stage` make and stage one work).
`tpc` of a mining thread is asleep in the wait of `hash_pop`, woken, busy with
a work, or about to pop; a signal wakes one sleeper, a broadcast all. A long
poll stages a work and as many clones of it as are missing (`LPClone`,
`LPLast`, `LPStage`).

**StratumWork.** One stratum pool, its connection with the lines that were not
read, the receiver (`rpc`) and main (`mpc`). `ParseNotify`, `ParseDiff`,
`ParseExtranonce` and `Generate` hold `data_lock` and are a step each;
`Restart` to `AuthOK` are `initiate_stratum` and `auth_stratum`, cut where they
wait for the pool. `active` and `notify` are read and written with no lock. The
pool sends any job, difficulty or extranonce in any order, a line that does not
parse, and `client.reconnect`; the connection fails at any time, also in the
hands of the sender (`SendFails`). A work is the job and difficulty it was made of
and two extranonces: `ext`, which `parse_notify` has built into the coinbase, and
`nonce1`, the pool's own when the work was made; `nonce2` counts the works of a
job. `AuthLine` and `AuthReconnect` are what `auth_stratum` reads before its
answer, be it a `client.reconnect`. A job has an `id`, the job_id, and `StaleWork`
compares nothing else of it. With `UniqueIds` no two jobs have the same one; without
it the pool counts them anew in each session.

**BlockTest.** `test_work_current` in five steps, for each stratum receiver and
main: look the block up, insert it, read `work_block`, write it, go on. A block
is older than another when its number is smaller.

**PoolSelect.** `select_pool` is one step of main: `Rotation` is its loop over
the pools, as a function of the number of visits, `Fallback` what follows when
all quotas are used up, `Balance` the other strategy. `quotaUsed` is an `int`,
multiplied as an unsigned `long` when the quotas change: `Rescale` has the
widths. The other actions are what happens between two selections.

**CurlPool.** `curls`, the length of the ring and how many in it are old, and
for each user where it is in `pop_curl_entry`. The limit is read once by each
caller and may change.

**Devices.** For each GPU the flags named above, where its thread is (`miner`:
`new`, starting, waiting for work, hashing, asleep, hung, gone) and the age of
its last report. The watchdog looks at a device (`Judge`) and acts on what it
saw (`Act`), perhaps later; `reinit` is where `reinit_gpu` is, `hard` where a
hard restart is; both are cut where they take and leave `mining_thr_lock`.
`leaked` says that a path returned with the read lock. `ghost` is a thread that
was given up in the driver and may come back.

*Scenes.* PoolManager and AlgoSwitch have many kinds of disturbance, and all
of them at once are too many for TLC. The rigid variable `scene` (chosen at the
start, never changed) says what is configured and what may happen; a run names
a set of scenes, so that one run covers several combinations, each of which is
small. In WorkQueue, `local` (which pools make their work locally) plays this
part. The theorems hold for any scenes.

## 4. The runs

| run | module, cfg | shows |
|---|---|---|
| `shares` | MCStratumShares, StratumShares | no share is lost, in two places or settled twice; the counter is exact; a suspended pool has no shares; no answer comes before its record; ShareLedger is implemented |
| `shares_live` | StratumSharesLive | retries end: every share is sent, settled, or its pool is removed |
| `parts` | MCParts, Parts | CGLock: exclusion, LockModes is implemented, a writer is not starved. BlockTest: shares of an old block are stale. PoolSelect: a round divides the work exactly, the last pool is served, the balance is even to one. CurlPool: handles are neither lost nor too many, who waits is served. No deadlock |
| `pools` | MCPoolManager, Pools | priorities and numbers stay permutations under any three commands; a switch goes to the best usable pool |
| `pools_live` | PoolsLive | the miner leaves an idle pool, comes back to the first, rotates through all |
| `algo_disturbed` | MCAlgoSwitch, AlgoDisturbed | whenever the pool changes, nobody hashes while contexts are rebuilt, nor with a context that is not built for the settings of its device; threads of enabled devices wake up |
| `algo_settled` | AlgoSettled | if each change of pool finds the last one complete: work is hashed with the algorithm and tuning of its pool, one restart at a time, every change completes, no deadlock |
| `work_queue` | MCWorkQueue, WorkQueue | the counter covers the masters, so that `hash_pop` finds what it looks for; nobody sleeps on work; main and the miners never wait for each other; one late work at most |
| `work_live` | WorkQueueLive | the miners do not all starve, without any timeout |
| `jobs` | StratumWork | the work that is mined is of the session that stands and as hard as its job, work of two extranonces is gone after the next job, a `nonce2` is used once; the newest job is mined |
| `devices` | Devices | only a thread that hangs is judged sick; a device that is wanted comes to hash; a hard restart gets its lock |
| `quota_gcd` | MCPoolSelect, QuotaGcd | a counterexample, section 8 |

Deadlock is checked in `parts` (where the parts whose bound may be reached
stutter), `algo_settled` and WorkQueue. It is not in the others, where the
system may really stop in the model: StratumShares when all shares are settled
and the pools are removed, PoolManager when it has crashed, `algo_disturbed`
when the operator has disabled every device, StratumWork and Devices when a
lock is lost (section 8) and no event is left.

## 5. Bounds

Each bound is a named constant or a field of `scene`.

- StratumShares: one pool, two shares, two connections (`MaxConn`), a retry
  window of two sleeps for 120 s of them (`Window`). One reconnection is what
  separates a session from the next; two shares are one in the table and one in
  the sender's hands, and they are symmetric. Pools share only `sshare_lock`
  and the id counter. For liveness, one share and an operator
  (`Administered`).
- CGLock: three threads: a reader, a writer, and one that upgrades.
- PoolManager: two configured pools and a third that is added (two for
  liveness), three commands that rewrite the table, or one command with pools
  that die and reject; one command at a time. `RejectLimit` is 0 for the 10
  rejects in a row.
- AlgoSwitch: three threads on two devices, two or three changes of pool
  (`maxSwitch`), three device commands (`maxCommands`), four pools that differ
  in algorithm, tuning and clocks, or devices. Two changes are enough for the
  barrier to be entered with works of two pools, and for a change during a restart. Works are in hand or the pool's;
  the queue is not modelled, see `late`.
- WorkQueue: two mining threads, two pools (both local, one local; for
  liveness, one or none), an `opt_queue` of 1 that grows to 2
  (0 for liveness), two events
  (`MaxEvents`) out of: work gets stale, the pool changes, a pool stops, a long
  poll answers, a pool test succeeds. Two events are a long poll during a change
  of pool, or a pool lost after a new block.
- StratumWork: two jobs, two sessions, two extranonces, two difficulties, one
  other message, two unread lines; `nonce2` is counted to 1, where a second work
  would repeat the first. Two of each are an old and a new one, in any order.
  Of the pool it is assumed that it uses no job_id twice (`UniqueIds`), not even in
  another session, that it sends a job again only as it was and without `clean_jobs`
  (`Resends`), and that it gives no extranonce it has replaced. Section 8 has what
  happens when it uses a job_id twice, or sends a job again with `clean_jobs`.
- BlockTest: three blocks and jobs of one pool, a table of one block instead of
  six: with three blocks the oldest is dropped twice, as the seventh would be.
- PoolSelect: three pools, quotas 0 to 3, an `int` of 4 bits and a `long` of 6
  (the product of a small negative and a gcd wraps, as at 32 and 64), two
  changes; `quotaUsed` is counted to 4, `shares` to 3.
- CurlPool: three users, limits 0, 1 and 2. At limit 0 handles are still made
  when none exists.
- Devices: one GPU, one waiting restart, two events (restarts asked for, pauses,
  hard restarts). The GPUs meet in `mining_thr_lock` and the reinit thread only:
  what a second GPU adds is delay, and two GPUs are 60 times as many states.

## 6. Fairness

Weak fairness of each thread's own steps, because they are threads of a
preemptive system and each step ends: a lock is held for a bounded time (the
actions that hold one go on), a socket has timeouts, a scan is bounded by
`opt_scantime`. Nothing is assumed of the network, the pools, the operator, or
timeouts that only repair a lost wake-up.

- StratumShares: each pool's two threads (`SThread`; `RLoop` or
  `RestartStratum`). The pool need not answer.
- CGLock: a thread that has called a function goes on, and one that holds the
  lock gives it back. Nobody has to call. In `parts` each part has its own
  fairness.
- PoolSelect: main selects again and again.
- CurlPool: a user goes on, one that holds a handle pushes it. `RequestsAreServed`
  supposes that new requests stop: `pthread_cond_signal` promises no order.
- PoolManager: the watch thread, the pools' threads, the steps of a command
  that has begun, and time (an idle pool's `tv_idle` gets old, the rotation
  period ends). `FailsBack` and the others have the pool stay usable as a
  hypothesis.
- AlgoSwitch: each mining thread, its cancellation, and the restart thread.
- WorkQueue: the mining threads, main, a long poll that has begun.
  `NotAllStarve` supposes that the timeouts stop at some time: main throws a
  work away when it has waited two seconds with too much staged, and a miner
  that does not run for two seconds after it was woken, again and again, loses
  every work to it.
- StratumWork: main, a mining thread that gets a work, and the receiver while it
  has a connection: it reads, parses and tests jobs. Not what the pool sends, nor
  that a reconnection comes to an end.
- Devices: a mining thread that is not in the driver, the time a report gets old
  (`LastAges`), the watchdog's look at each device (strong: `reinit_gpu` and hard
  restarts keep it waiting for moments) and its act, the steps of `reinit_gpu`,
  and those of a hard restart (strong: the readers of `mining_thr_lock` leave
  moments in which nobody has it). Nothing of the driver: a scan may hang,
  `initCl` may never return.

## 7. Proofs

`tlapm` checks these for every value of the constants that meets the named
assumptions. Every safety property a passing run checks is among them but
`KernelMatchesWork`, which is true only if every change of pool finds the last one
complete (nothing in the code sees to that; `AlgoSticks.cfg`, section 8). Where a
theorem has a hypothesis of its own, it is named below, with what happens without it.

**CGLock** (`PartsProofs`; no assumption but a `NoThread` that is no thread).
The inductive invariant `IInv` ties the two locks to the control of the
threads: the mutex is held by exactly the threads whose `pc` says so
(`MutexIsHeld`), the readers and the writer of the rwlock likewise, and the
rwlock excludes. `Exclusion` alone is not inductive: it speaks of the modes and
not of who holds the mutex. `LocksMatchControl` is `IInv`, `CGLockExcludes`
follows from it, and `CGLockImplementsModes` maps each step to one of LockModes
or a stutter: a step changes one thread's mode, and `IInv'` says that the mode
is compatible with the others.

**StratumShares** (`StratumSharesProofs`; from `StratumAssumption`).
`TypeCorrect` says that every step of both threads keeps the types of the
session, the queue, the table and the control. `SuspendedIsClear` is about the
order of the idle suspension: while a pool waits in `wait_lpcurrent` it is
inactive, none of its shares is in the table, and none can get there. By itself
this is not inductive. The strengthening says that a sender holds shares of its
own pool only, that it holds `sshare_lock` while it adds one, and that the pool is
inactive from the moment it suspends, before it clears: a send between the two
fails, and an add that was already under way has to finish before the clear can
have the lock.

`OnePlace` is about ownership: a share is in its pool's queue, with its sender,
in the table or with a receiver, in one of them while its fate is open and in
none afterwards. `PlaceInv` says which places exclude each other, that the
queue has no share twice (the head must not be in the rest when it is popped),
and where in their loops the threads hold a share, so that none is overwritten.
The ids play no part, so it holds when they collide and an answer takes the
wrong share. `ImplementsLedger` follows: whoever settles has the share in one
of the places, so its fate is open. `UntrackedIsLate` adds that a
request the pool owes an answer for, or has answered, was sent (`WasSent`): its
share is in the table, on its way into it under `sshare_lock`, or out of it, and
its id changes no more. An answer is looked up under the lock, so nothing is
on its way then. `OnePoolCounts` needs `OnePlace` (the share added is not in the
table) and a single pool: with two, `parse_stratum_response` subtracts the share
it finds from the pool that answered, which is the wrong one when ids collide.

**WorkQueue** (`WorkQueueProofs`; from `WorkAssumption` and
`BoundAssumption`). `WorkWakesMiners` and `MinersWakeMain`: no thread sleeps on
staged work, and main and the threads never wait for each other. They are
inductive together (with `max \in Nat`): a thread that falls asleep has found
nothing staged and wakes main; main falls asleep only when more than
`max_staged` works are staged, so at least one, and then no thread sleeps;
whoever stages wakes every thread; and whoever throws work away stages none.
That is why `clear_pool_work`, which signals nobody, leaves main and the threads
safe.

`CounterIsHigh` and `OneWorkIsLeft` are about numbers of works in a bag, a sum
over its elements. `SumIsTokens` turns the sum into a cardinality: of the set of
pairs of a work and a number up to its count. From there on adding, taking and
ageing works (`CountAdd`, `CountTake`, `CountSwap`, `CountPart`, `CountAge`) are
facts about finite sets. `CounterIsHigh`: the counter is incremented with every
master that is staged, and decremented only with one that is taken
(`CountsMasters`); the paths that throw masters away leave it too high, which
`WorkMasters.cfg` (section 8) is about. `OneWorkIsLeft`: of every pool that is
neither the current one nor about to be cleared there is at most one work, staged
or in main's hands (`LastWorkInv`). Main takes up work of the current pool only,
and it has one work in hand, so a change of pool makes the one it has the only one
once the staged ones are cleared.

**CurlPool** (`PartsProofs`; from `CurlAssumption`). `CurlHandlesAreSound`:
the handles are those in the ring and those in use, and nobody waits beside a
free one. The second half needs the first: a thread goes to sleep when the ring is empty
and `curls` is at its limit, and only the sum says that then somebody holds a
handle. It also needs that a signalled thread is no waiter before it has
looked.

**Devices** (`DevicesProofs`; no assumption). `OnlyHungIsSick`, for any number
of GPUs and under every fault: whom the watchdog judges sick hangs or is being
replaced. The invariant `Reported` is about the order of four unlocked writes:
a thread that is neither hung nor replaced either says `getwork` or has a
fresh `last`. The judgement is one look at `getwork`, `status` and `last`; what
is done later on it is `Act`, of which nothing is promised.

**StratumWork** (`StratumWorkProofs`; from `StratumWorkAssumption`).
`FreshWorkIsCurrent`, `MixedWorkIsGone` and `FreshWorkIsHard` follow from
one invariant, `WorkInv`, and the hypothesis that the pool uses no job_id twice
(`UniqueIds`): `stale_work` compares nothing else of the job, so only then is a work
with the job_id of the current job of that job (`SameJobFresh`). Without it all
three are false (section 8). The difficulty is that what the receiver knows lags
behind what is in force at the pool by the lines nobody has read.
`Socket` closes the gap: reading all of them (`Replays`, along a history whose
existence is claimed) takes what the receiver knows (`Knows`: extranonce,
difficulty, job) to what is in force at the pool, and each job is read in the
state it was sent in (`Fits`). `Connection` is about the order of a suspension:
a suspended connection is closed and empty, and `stratum_notify` is false unless
a send has just failed. From the two, `JobSound` and `WorksSound`: the job in
hand and the coinbase of every work made from it have the session, extranonce and
difficulty it was sent with. The other extranonce of a work, the pool's own at the
time, lies between that of the coinbase and the present one; so it equals the
coinbase's again when the present one does, which is `MixedWorkIsGone`. Before the
next `mining.notify` it does not (section 8). `WorkIsNew` has another hypothesis, that
the pool resends no job with `clean_jobs` set, and does without `UniqueIds`;
`WorkResent.cfg` (section 8) shows that it is needed.

**PoolManager** (`PoolManagerProofs`; from `PoolManagerAssumption`).
`PoolTableStaysSound`: whatever commands do in their steps, and whoever switches
between them, the table is sound when they are done. Within a command it is
not, so the invariant `TableInv` says for each point of `remove_pool` and
`poolpriority` what holds instead: after the boost, that the pools but
the removed one are in order below `total_pools - 1`; after the swap, that the
first `total_pools - 1` places are numbered; between the two loops of
`poolpriority`, that the pools it lists have the first places and the others
have the order among themselves they had before. The place the second loop gives a pool is
the number of those before it, so the last step counts sets. "Below n and all
different" is what the steps preserve; that all numbers below n are then taken
is one counting argument at the end (`OrderIsPermutation`).
`FailoverMovesToBest`: `__switch_pools` finds a pool for every priority, because
the priorities are a permutation, and the first one that is usable is the best.
It speaks of the steps outside of those commands only; `PoolsPriority.cfg`
(section 8) is what happens within. `PoolTypesCorrect` adds that every array
index stays in range.

**AlgoSwitch** (`AlgoSwitchProofs`; from `ThreadAssumption`,
`SettingsAssumption`, `SceneAssumption` and `NoneAssumption`).
`PostsReachThreads`, in every scene: a thread of an enabled device that sleeps on
its semaphore has a post to wake it, whatever `gpuenable`, `gpudisable`,
`mt_disable` and the restart of the threads do to each other. It is inductive
with the types.
`BarrierHolds`: no thread hashes with a context that another has shut down,
however often and whenever the pool changes, be the reset soft or hard.
`RestartsDoNotOverlap`: nor can a thread ask for a restart of the mining threads
while one is running. Both suppose that no device is disabled, enabled or sick:
the first in the property itself (`NoReleasedKernelUndisturbed`), the second as a hypothesis.
Otherwise the count of the devices is not the number of threads that will arrive
(`AlgoDisabled.cfg`, section 8). `BarrierInv` says that one thread holds
`algo_switch_lock` (`LockExcludes`), that `algo_switch_n` is no more than the
threads that have halted or are about to (`CountsHalted`: at most, since released
waiters may not have looked yet), that while one changes the settings or restarts
the threads all the others have halted (`OthersHalt`, `WhoRuns`), and that the options
of a reset stay those it was begun with (`DoesAsTold`). The step that needs an argument is the
last thread's: the counter has reached the number of threads that mine, at
least as many have halted, and none but those can have, so by counting all of
them have (`LastFindsHalted`).

`ContextsFollowConfig` needs the same hypothesis (in `ContextsAreConfigured`), and none
on when or how often the pool changes: a thread that hashes has a context built for
what its device is set to. Works of two pools at the barrier make that a question, since the
options come from the first thread and the settings from the work of the last one.
`ContextInv` holds in every scene: options that change algorithm or tuning bring a reset
(`ChangesReset`), and contexts and settings agree unless a reset is on its way
(`ContextsFit`): a soft one between shutdown and rebuilding, a hard one until the threads
are started anew. `BarrierInv` then says that no thread hashes meanwhile. That the
settings are those of the *work* is not promised: with works of two pools at the barrier
it is false.

**BlockTest** (`PartsProofs`; from `BtAssumption`). `OldBlocksStayStale` is
about the race for `work_block`, which two threads increment without a lock: with
one pool (`OnePool`), so that its stratum thread and main are the two that test,
and a table that keeps at least one block (the code keeps six). An increment
can be lost when both have read the same number. The invariant `BlockInv` says why
no work gets a number back: a work's number is at most `work_block` and lower if its
block is over (`NumbersOK`, `OldIsLower`); between the read and the write of
one thread the other counts at most one block (`CountsOnce`), since a block that
is in the table is not counted again, and the block the pool's thread has in hand
stays in the table (`StaysKnown`). That last part is false of a table that keeps
no block. With two pools the property itself is false: `BlockTwoPools.cfg`, section 8.

**PoolSelect** (`PoolSelectProofs`; from `SelectAssumption` and `SelectBounds`).
`RotationIsExact`: when the quotas are given out again, a pool that was workable all
the time has got its quota. The invariant `GivenByQuota` relates what a pool has
got, the use that is counted and its quota: the first two are equal up to the
quota, then the count goes on and the pool gets nothing. `RotationKeeps` carries
a set of states through the loop of `select_pool`, and `VisitCounts` is one turn of
it: the use of a pool is counted whether it gets the work or not, but
a pool that is workable and has quota left always gets it, so it is never
charged for nothing. `WorkIsBalanced`: `select_balanced` takes a pool that
has no more shares than any other workable one. `SelectTypes` rests on
`QuotaGcdType`: the divisor is positive, although it need not divide the quotas
(`QuotaGcd.cfg`, section 8).

*Induction.* The library states induction for an operator, which these provers
cannot instantiate. So it is stated for sets here, and proved from the order of the
naturals or of the finite sets: `LeastNat`, `IntervalInduction` and
`RecursionExists` of PoolSelectProofs are about numbers and the functions defined
by recursion over them, `SumIsTokens` of WorkQueueProofs takes a smallest set for
which it would be false.

Only model-checked: liveness, which this prover does not do (no fairness, no
ENABLED); and the counterexamples of section 8.

## 8. Where code and documentation disagree

Each of these is a TLC counterexample to what a comment, a message or the
documentation says. The first is a run of the project (`PROJECT.json`,
findings); each of the others has a configuration that reproduces it
(`tlc -config <cfg> <module>`, the module is the one the name begins with, with
its MC module where there is one).

- **The common divisor of the quotas** (`QuotaGcd.cfg`, `GcdDividesQuotas`).
  `adjust_quota_gcd` passes the pools once and lowers the number until it
  divides the quota at hand; quotas 4 and 6 give 3, which does not divide 4
  (sgminer.c:511), and the work goes 1 to 2 (sgminer.c:487, "greatest common
  denominator").
- **A share on a dead connection** (`SharesLost.cfg`, `LostSharesAreDiscarded`).
  After a silence of 90 s, `stratum_rthread` clears the pool's shares
  (sgminer.c:5526) before `restart_stratum` suspends the connection (5531); a
  share sent in between stays in the table of a connection that has no session
  to resume. sgminer.c:5522: "all tracked submitted shares are lost and we will
  leak the memory if we don't discard their records."
- **disable-rejecting never disables** (`PoolsReject.cfg`,
  `ContinualRejectsDisable`). The guard wants `enabled_pools > 1`
  (sgminer.c:2948), but `enable_pool` counts a pool only if its state was not
  `POOL_ENABLED`, the zero a new pool has.
- **A disabled GPU holds up the others** (`AlgoDisabled.cfg`, `WaitsEnd`). The
  active threads are counted on arrival at the barrier; a device disabled later
  never arrives, and nobody counts again (sgminer.c:6792: "if we only check
  total threads, we may wait for ever on a disabled GPU").
- `SharesReconnect.cfg`: `client.reconnect` drops the connection without
  discarding its shares (util.c:1772).
- `SharesAuth.cfg`: a share retried before the authorisation is answered first,
  and that answer is taken for the authorisation's (util.c:1991, "anything left
  should be auth").
- `SharesResend.cfg`: the session is compared before the sleep of five seconds
  and may be another one when the share is sent again (sgminer.c:5706-5714).
- `SharesIds.cfg`: `initiate_stratum` increments `swork_id` without
  `sshare_lock` (util.c:2484), so that two shares may have one id
  (sgminer.c:5646, "Give the stratum share a unique id"). With two pools and
  three shares (`TwoPools`) `SsharesCountsTable` fails, too: an answer of one
  pool takes a share of the other out of the table, and `pool->sshares` of the
  wrong one goes down (sgminer.c:5284). TLC finds it by simulation.
- `PoolsRemoved.cfg`: a switch between `removepool`'s test and the removal makes
  the removed pool the current one (api.c:2259; api.c:175, "Cannot remove active
  pool").
- `PoolsPriority.cfg`: a switch during `remove_pool` looks for a priority that no
  pool has (sgminer.c:991; 4089, "WTF No pool %d found!").
- `PoolsRoundRobin.cfg`: with round robin, a pool's test thread moves the miner
  off a healthy pool (sgminer.c:8187; README.md:295, "makes no attempt to move
  otherwise").
- `PoolsDisabled.cfg`: a disabled pool that is the first to answer at the start is
  mined for ever (sgminer.c:8175; README.md:365).
- `AlgoReused.cfg`: the barrier is entered anew before a signalled waiter has
  tested the counter; it goes back to sleep and the barrier never fills
  (sgminer.c:7060).
- `AlgoDisabled.cfg` with `INVARIANTS NoReleasedKernel`: a device disabled while
  its thread hashes is not counted, and its context is shut down under it
  (sgminer.c:6819).
- `AlgoSticks.cfg`: after two quick changes the threads mine one pool with the
  algorithm of another for good, because the comparison is made with the number
  of the last work's pool (sgminer.c:6764).
- `AlgoDisabled.cfg` with `Scenes <- DisableInHard` and `INVARIANTS OneRestart`: with a
  device disabled on the way to a hard reset, a thread that was not counted enters the
  barrier behind the one that restarts all of them, `algo_switch_lock` being free and
  `algo_switch_n` not yet 0 (sgminer.c:6992), and may be the last again.
- `AlgoSticks.cfg` with `Scenes <- RestartTwice`: the same when the pool changes during a restart of the
  threads (sgminer.c:8653).
- `WorkMasters.cfg`: `discard_stale` and `clear_pool_work` do not count the
  masters they throw away; `hash_pop` then gives out a master though there is a
  clone (sgminer.c:5987, "Find clone work if possible, to allow masters to be
  reused").
- `QuotaFailOnly.cfg`: with `opt_fail_only` and a dead first pool, load balancing
  gives every leftover quota to that pool, the quotas are never given out again
  and one other pool gets all the work (sgminer.c:3350; README.md:313-316, "the
  quota ratios between the rest of the pools").
- `BlockTwoPools.cfg`: two pools that find a block each at the same time count
  `work_block` once (sgminer.c:4422), and the share of an old block passes.
- `WorkResent.cfg`: a pool that sends a job again, with `clean_jobs`, has
  `nonce2` start at 0 again (util.c:1585), and the same work is done twice.
- `StratumWork.cfg` with `INVARIANTS FreshIsUnmixed`: `mining.set_extranonce` replaces
  `nonce1` and `n2size` (util.c:1719-1729) but not the coinbase, which has the old `nonce1`
  and room for the old `n2size`. Until the next notify `gen_stratum_work` takes
  the one from the pool and the other from the coinbase (sgminer.c:6125, 6128, 6211):
  the work is mined with the old extranonce and submitted for the new one, and a larger
  `n2size` overwrites the end of the coinbase. `MixedWorkIsDropped` is what is
  left: the next job ends it, also for work that was staged or in main's hands.
- `WorkResent.cfg` with `UniqueIds = FALSE` and `INVARIANTS FreshIsCurrent`,
  `MixedWorkIsDropped` or `SdiffCoversJob`: `stale_work` compares the job_id and two flags
  (sgminer.c:4003-4017); a pool that gives the first job of a new session the job_id
  of one of the old session gets work of the old one, with its extranonce and
  difficulty, which main had in hand when the connection was lost.
- `DevicesWedged.cfg`: while a wedged GPU is in `initCl`, `reinit_gpu` has the
  read lock of `mining_thr_lock`, and a hard restart, which wants the write
  lock, waits for ever (driver-opencl.c:1139; 1067, "unable to harm other
  GPUs").
- `DevicesEnabled.cfg`: a device whose thread failed keeps its `shutdown` flag
  (sgminer.c:7375), one that was disabled during a scheduled pause its `pause`:
  it is enabled again, or restarted, and never mines.
- `DevicesOverlap.cfg`: `reinit_gpu` gives the lock up between the kill and the
  new thread (driver-opencl.c:1117); a hard restart in between starts a second
  thread on the same `thr_info`.

Three more are exceptions that properties of Devices name (`leaked`): `gpuenable`
(api.c:1773) and the console's enable (driver-opencl.c:862) of a device that is
not well, and a failed `initCl` (driver-opencl.c:1142), return with
`mining_thr_lock` read-locked. `watchpool_thread` resets `intervals` in its loop
over the pools (sgminer.c:7777), so that only the first pool's shares are
averaged; PoolSelect has it so. `parse_notify` returns with `data_lock`
write-locked when the header does not decode (util.c:1612): StratumWork has that
as `locked`.

## 9. What is not modelled

Listed with the reason in `PROJECT.json`, under components. Of the modelled
parts:

- PoolManager has the strategies that divide work as names only (PoolSelect has
  what they do, for pools that come and go), and one operator at a time: two are
  what a comment in `api.c` (2087) admits to be unsafe.
- AlgoSwitch has no scheduled pauses, no restart of a single device and no
  `mining_thr_lock` (Devices has all three, and in turn no barrier and one
  thread per GPU); no changed number of threads per device; no kernels that
  fail to build.
- Devices: a created thread starts before `reinit_gpu` takes the next GPU and
  within two minutes; the minute between two attempts is left out; `opt_restart`
  is on; the ADL activity that keeps a device alive is left out; the watchdog's
  reads of one device are one look.
- StratumWork has one pool, and leaves which block a job is of to BlockTest. What it
  assumes of the pool is in section 5.
- StratumShares sets `stratum_active` in the step of the answer to `mining.subscribe`
  (util.c:2571 comes a moment later, without a lock; no share can be sent before), and
  leaves out the lines `auth_stratum` takes before its answer, a nested
  `client.reconnect` among them (util.c:1991-2000); StratumWork has both.
- BlockTest inserts a block and counts it in `new_blocks` in one step (sgminer.c:4385-4420);
  the counter that decides what is stale is `work_block`, in two.
- PoolManager makes the four writes of `remove_pool`'s swap (sgminer.c:998-1005) one
  step. `PoolTableIsSound` and `MovesToBestPool` do not speak of the time within the command;
  `PriorityPoolFound` does (`PoolsPriority.cfg`). A removed pool's receiver may die and
  resume again and again, where the code leaves its loop the next time round (5478).
- WorkQueue has no mining thread that is cancelled while it waits in `hash_pop`.
- Long polls of GBT pools, and the HTTP part of all of them.

Configuration, events, logging, clocks and fans are input and output.
Out of a model checker's reach or no behaviour of this program: hashing,
kernels, device libraries, formats on the wire.
