----------------------------- MODULE WorkQueue -----------------------------
(***************************************************************************)
(* The staged work: main generates work and stages it, the mining threads  *)
(* pop it, long polls and pool tests add to it, a new block and a change   *)
(* of pool throw it away.  hash_push, hash_pop, discard_stale and          *)
(* clear_pool_work hold stgd_lock and are one step each; the mining        *)
(* threads wait for work on getq->cond, main for room on gws_cond.         *)
(*                                                                         *)
(* A work is a master (work_rollable: not a clone, with a rolltime), a     *)
(* clone, or plain.  The counter staged_rollable is meant to be the number *)
(* of staged masters.  A work is stale after a new block, with another job *)
(* of its stratum pool, or when it has expired.  staged is a bag: in which *)
(* order the hash table is sorted depends on the seconds of tv_staged.     *)
(*                                                                         *)
(* Left out: opt_fail_only, strategies that share work among pools, the    *)
(* long poll of a GBT pool, and getq->frozen, which nothing sets.          *)
(***************************************************************************)
EXTENDS Integers, FiniteSets, Bags

CONSTANTS
  Miner,      \* the mining threads
  Pool,
  LocalSets,  \* the possible values of local, below
  OptQueue,   \* opt_queue at the start
  MaxQueue, MaxEvents,   \* bounds: see BoundAssumption
  None

ASSUME WorkAssumption == LocalSets \subseteq SUBSET Pool /\ IsFiniteSet(Miner)
(* How far main increases opt_queue; how many events there are: work that  *)
(* gets stale, changes of the current pool, pools that stop, works of long *)
(* polls and of pool tests.                                                *)
ASSUME BoundAssumption ==
  OptQueue \in Nat /\ MaxQueue \in Nat /\ OptQueue <= MaxQueue /\ MaxEvents \in Nat

Kind == {"plain", "master", "clone"}
Item == [pool : Pool, kind : Kind, stale : BOOLEAN]
Nothing == [pool |-> None, kind |-> "plain", stale |-> FALSE]

VARIABLES
  local,     \* the pools with pool_localgen (stratum, GBT); it never changes
  staged,    \* staged_work
  rollable,  \* staged_rollable
  queue,     \* opt_queue
  cur,       \* current_pool()
  up,        \* the pools that give work
  clearing,  \* last_pool of the switches that have not yet cleared its work
  events, downs,                        \* how many so far, how many of them Disconnect
  mpc, max, lagging, pool, item,        \* main and its locals, reset when they are dead
  tpc,                                  \* the mining threads
  lpc, lpItem, mrs, cloned              \* a longpoll_thread in convert_to_work

tableVars == <<staged, rollable>>
poolVars == <<local, cur, up, clearing>>
mainVars == <<mpc, max, lagging, pool, item, queue>>
lpVars == <<lpc, lpItem, mrs, cloned>>
boundVars == <<events, downs>>
vars == <<tableVars, poolVars, mainVars, tpc, lpVars, boundVars>>

Init ==
  /\ local \in LocalSets
  /\ staged = EmptyBag /\ rollable = 0
  /\ queue = OptQueue
  /\ cur \in Pool /\ up = Pool /\ clearing = {}
  /\ events = 0 /\ downs = 0
  /\ mpc = "limit" /\ max = 0 /\ lagging = FALSE /\ pool = None /\ item = Nothing
  /\ tpc = [t \in Miner |-> "pop"]
  /\ lpc = "idle" /\ lpItem = Nothing /\ mrs = 0 /\ cloned = FALSE

(* The staged works that are in S. *)
Staged(S) == [w \in BagToSet(staged) \cap S |-> staged[w]]
Size == BagCardinality(staged)
Masters == {w \in Item : w.kind = "master"}
Of(p) == {w \in Item : w.pool = p}
Stale == {w \in Item : w.stale}

(* One more event. *)
Event == events < MaxEvents /\ events' = events + 1

----------------------------------------------------------------------------
(* The condition variables. *)
Asleep == {t \in Miner : tpc[t] = "asleep"}
Woken(S) == [t \in Miner |-> IF t \in S THEN "woken" ELSE tpc[t]]
(* pthread_cond_signal: one of the sleepers, if there is any. *)
OneOf(S) == IF S = {} THEN {{}} ELSE {{s} : s \in S}
GwsSignal == mpc' = IF mpc = "asleep" THEN "woken" ELSE mpc

----------------------------------------------------------------------------
(* Operations on the staged work. *)

(* Mutant: one waiter is signalled, whether or not it finds the work. *)
MutHashPush(w) ==
  /\ staged' = staged (+) SetToBag({w})
  /\ rollable' = IF w \in Masters THEN rollable + 1 ELSE rollable
  /\ \E S \in OneOf(Asleep) : tpc' = Woken(S)

(* hash_push: "pthread_cond_broadcast(&getq->cond)". *)
HashPush(w) ==
  /\ staged' = staged (+) SetToBag({w})
  /\ rollable' = IF w \in Masters THEN rollable + 1 ELSE rollable
  /\ tpc' = Woken(Asleep)

(* hash_pop: not a master if the counter says that there is another work. *)
Poppable == BagToSet(staged) \ (IF Size > rollable THEN Masters ELSE {})

(* Mutant: the counter goes down for every work. *)
MutTakeAny(w) ==
  /\ staged' = staged (-) SetToBag({w})
  /\ rollable' = IF rollable = 0 THEN 0 ELSE rollable - 1

Take(w) ==
  /\ staged' = staged (-) SetToBag({w})
  /\ rollable' = IF w \in Masters THEN rollable - 1 ELSE rollable

ClearPoolWork(p) == staged' = Staged(Item \ Of(p)) /\ UNCHANGED rollable

----------------------------------------------------------------------------
(* A mining thread: get_work. *)

(* Mutant: main is not told that a thread waits. *)
MutSleep(t) ==
  /\ tpc[t] \in {"pop", "woken"} /\ staged = EmptyBag
  /\ tpc' = [tpc EXCEPT ![t] = "asleep"]
  /\ UNCHANGED <<tableVars, poolVars, mainVars, lpVars, boundVars>>

(* hash_pop finds nothing: gws_cond is signalled and the thread waits. *)
Sleep(t) ==
  /\ tpc[t] \in {"pop", "woken"} /\ staged = EmptyBag
  /\ tpc' = [tpc EXCEPT ![t] = "asleep"]
  /\ GwsSignal
  /\ UNCHANGED <<tableVars, poolVars, max, lagging, pool, item, queue, lpVars, boundVars>>

(* Ten seconds are over. *)
Timeout(t) ==
  /\ tpc[t] = "asleep"
  /\ tpc' = [tpc EXCEPT ![t] = "woken"]
  /\ UNCHANGED <<tableVars, poolVars, mainVars, lpVars, boundVars>>

(* hash_pop finds work.  Stale work is discarded and the thread pops again. *)
Pop(t) ==
  /\ tpc[t] \in {"pop", "woken"} /\ staged # EmptyBag
  /\ \E w \in Poppable, S \in OneOf(Asleep) :
       /\ Take(w)
       /\ tpc' = [Woken(S) EXCEPT ![t] = IF w.stale THEN "pop" ELSE "busy"]
  /\ GwsSignal
  /\ UNCHANGED <<poolVars, max, lagging, pool, item, queue, lpVars, boundVars>>

Finish(t) ==
  /\ tpc[t] = "busy"
  /\ tpc' = [tpc EXCEPT ![t] = "pop"]
  /\ UNCHANGED <<tableVars, poolVars, mainVars, lpVars, boundVars>>

MinerStep(t) == Sleep(t) \/ Pop(t) \/ Finish(t)

----------------------------------------------------------------------------
(* main, the getwork scheduler. *)

(* cp, max_staged and staged_rollable are read without the lock. *)
Limit ==
  /\ mpc = "limit" /\ mpc' = "test"
  /\ pool' = cur
  /\ max' = IF cur \notin local /\ rollable = 0 THEN queue + Cardinality(Miner) ELSE queue
  /\ UNCHANGED <<tableVars, poolVars, lagging, item, queue, tpc, lpVars, boundVars>>

(* Under stgd_lock: too much is staged and main waits, or it makes work. *)
Test ==
  /\ mpc = "test"
  /\ lagging' = (pool \notin local /\ staged = EmptyBag)
  /\ IF Size > max THEN mpc' = "asleep" /\ UNCHANGED max ELSE mpc' = "make" /\ max' = 0
  /\ UNCHANGED <<tableVars, poolVars, pool, item, queue, tpc, lpVars, boundVars>>

(* Two seconds are over. *)
MainTimeout ==
  /\ mpc = "asleep" /\ mpc' = "woken"
  /\ UNCHANGED <<tableVars, poolVars, max, lagging, pool, item, queue, tpc, lpVars, boundVars>>

Woke ==
  /\ mpc = "woken"
  /\ mpc' = (IF Size > max THEN "drop" ELSE "make") /\ max' = 0
  /\ UNCHANGED <<tableVars, poolVars, lagging, pool, item, queue, tpc, lpVars, boundVars>>

(* hash_pop(false): still too much, one work is discarded. *)
Drop ==
  /\ mpc = "drop" /\ mpc' = "limit" /\ lagging' = FALSE /\ pool' = None
  /\ IF staged = EmptyBag THEN UNCHANGED <<tableVars, tpc>>
     ELSE \E w \in Poppable, S \in OneOf(Asleep) : Take(w) /\ tpc' = Woken(S)
  /\ UNCHANGED <<poolVars, max, item, queue, lpVars, boundVars>>

(* select_pool(true): a usable pool, or the current one if there is none. *)
Selectable == IF up = {} THEN {cur} ELSE up

(* For a pool that starts to lag the queue is made longer; any usable pool *)
(* may help.                                                               *)
Select ==
  /\ mpc = "make" /\ mpc' = "gen"
  /\ queue' \in {queue} \cup (IF lagging /\ queue < MaxQueue THEN {queue + 1} ELSE {})
  /\ pool' \in (IF lagging THEN Selectable ELSE {cur}) /\ lagging' = FALSE
  /\ UNCHANGED <<tableVars, poolVars, max, item, tpc, lpVars, boundVars>>

(* can_roll and should_roll, less the age of the work and its 7000 rolls. *)
CanRoll(w) == w.kind = "master" /\ ~w.stale /\ w.pool = cur
CloneOf(i) == [pool |-> i.pool, kind |-> "clone", stale |-> FALSE]

(* gen_stratum_work or gen_gbt_work. *)
Generate ==
  /\ mpc = "gen" /\ pool \in local \cap up /\ mpc' = "stage" /\ pool' = None
  /\ item' = [pool |-> pool, kind |-> "plain", stale |-> FALSE]
  /\ UNCHANGED <<tableVars, poolVars, max, lagging, queue, tpc, lpVars, boundVars>>

(* clone_available, which looks only if the counter says so.  The work it  *)
(* finds may be too old to roll: then main goes on to GetUpstream.         *)
CloneAvailable ==
  /\ mpc = "gen" /\ pool \notin local /\ rollable > 0 /\ mpc' = "stage" /\ pool' = None
  /\ \E w \in BagToSet(staged) : CanRoll(w) /\ item' = CloneOf(w)
  /\ UNCHANGED <<tableVars, poolVars, max, lagging, queue, tpc, lpVars, boundVars>>

(* get_upstream_work: the pool says whether the work may be rolled. *)
GetUpstream ==
  /\ mpc = "gen" /\ pool \in up \ local /\ mpc' = "stage" /\ pool' = None
  /\ \E k \in {"plain", "master"} : item' = [pool |-> pool, kind |-> k, stale |-> FALSE]
  /\ UNCHANGED <<tableVars, poolVars, max, lagging, queue, tpc, lpVars, boundVars>>

(* The pool gives nothing: another one is tried, after five seconds. *)
Reselect ==
  /\ mpc = "gen" /\ pool \notin up
  /\ pool' \in Selectable
  /\ UNCHANGED <<tableVars, poolVars, mpc, max, lagging, item, queue, tpc, lpVars, boundVars>>

Stage ==
  /\ mpc = "stage" /\ mpc' = "limit"
  /\ HashPush(item) /\ item' = Nothing
  /\ UNCHANGED <<poolVars, max, lagging, pool, queue, lpVars, boundVars>>

MainStep == Limit \/ Test \/ Woke \/ Drop \/ Select \/ Generate \/ CloneAvailable \/ GetUpstream
            \/ Reselect \/ Stage

----------------------------------------------------------------------------
(* A longpoll_thread: convert_to_work. *)

(* An answer: clone_work counts how many works are missing. *)
LongPoll ==
  /\ lpc = "idle"
  /\ \E p \in Pool \ local, k \in {"plain", "master"} :
       lpItem' = [pool |-> p, kind |-> k, stale |-> FALSE]
  /\ lpc' = "clone" /\ mrs' = Cardinality(Miner) + queue - Size /\ cloned' = FALSE
  /\ Event
  /\ UNCHANGED <<tableVars, poolVars, mainVars, tpc, downs>>

LPClone ==
  /\ lpc = "clone" /\ mrs > 0 /\ CanRoll(lpItem)
  /\ HashPush(CloneOf(lpItem))
  /\ mrs' = mrs - 1 /\ cloned' = TRUE
  /\ UNCHANGED <<poolVars, mainVars, lpc, lpItem, boundVars>>

(* No more clones: the master is staged, and the last clone after it.  The *)
(* work may have become too old in between, as in CloneAvailable.          *)
LPLast ==
  /\ lpc = "clone"
  /\ lpc' = "stage" /\ mrs' = 0 /\ cloned' = FALSE
  /\ IF cloned THEN HashPush(lpItem) /\ lpItem' = CloneOf(lpItem)
     ELSE UNCHANGED <<tableVars, tpc, lpItem>>
  /\ UNCHANGED <<poolVars, mainVars, boundVars>>

LPStage ==
  /\ lpc = "stage" /\ lpc' = "idle"
  /\ HashPush(lpItem) /\ lpItem' = Nothing
  /\ UNCHANGED <<poolVars, mainVars, mrs, cloned, boundVars>>

(* test_pool stages the work that proves a pool alive. *)
PoolTest ==
  /\ Event
  /\ \E p \in Pool \ local, k \in {"plain", "master"} :
       HashPush([pool |-> p, kind |-> k, stale |-> FALSE])
  /\ UNCHANGED <<poolVars, mainVars, lpVars, downs>>

----------------------------------------------------------------------------
(* Changes of pool, lost connections, stale work. *)

(* __switch_pools: the work of the last pool is cleared later on. *)
SwitchPools(p) ==
  /\ p # cur /\ Event
  /\ cur' = p
  /\ clearing' = IF p \in local THEN clearing \cup {cur} ELSE clearing
  /\ UNCHANGED <<tableVars, local, up, mainVars, tpc, lpVars, downs>>

(* Mutant: the work of the new pool is cleared. *)
MutClear(p) ==
  /\ p \in clearing /\ clearing' = clearing \ {p}
  /\ ClearPoolWork(cur)
  /\ UNCHANGED <<local, cur, up, mainVars, tpc, lpVars, boundVars>>

Clear(p) ==
  /\ p \in clearing /\ clearing' = clearing \ {p}
  /\ ClearPoolWork(p)
  /\ UNCHANGED <<local, cur, up, mainVars, tpc, lpVars, boundVars>>

Aged(w) == [w EXCEPT !.stale = TRUE]
(* staged, with the works in S stale. *)
Age(S) == staged' = Staged(Item \ S) (+) BagOfAll(Aged, Staged(S))

(* A work in hand is stale with its job; stage_work gives it the new block. *)
AgeItem(p) == item' = IF item.pool = p /\ p \in local THEN Aged(item) ELSE item

(* A pool stops.  With a stratum connection its work goes with it. *)
Disconnect(p) ==
  /\ p \in up /\ Event /\ downs' = downs + 1
  /\ up' = up \ {p}
  /\ IF p \in local THEN ClearPoolWork(p) ELSE UNCHANGED tableVars
  /\ AgeItem(p)
  /\ UNCHANGED <<local, cur, clearing, mpc, max, lagging, pool, queue, tpc, lpVars>>

Resume(p) ==
  /\ p \notin up /\ up' = up \cup {p}
  /\ UNCHANGED <<tableVars, local, cur, clearing, mainVars, tpc, lpVars, boundVars>>

(* Works get stale: all with a new block, those of a pool with a new job,  *)
(* one by its age.                                                         *)
GetStale ==
  /\ Event
  /\ \/ Age(Item) /\ UNCHANGED item
     \/ \E p \in local : Age(Of(p)) /\ AgeItem(p)
     \/ /\ \E w \in BagToSet(staged) : staged' = (staged (-) SetToBag({w})) (+) SetToBag({Aged(w)})
        /\ UNCHANGED item
  /\ UNCHANGED <<rollable, poolVars, mpc, max, lagging, pool, queue, tpc, lpVars,
                 downs>>

(* discard_stale, called by restart_threads and by the watchdog. *)
DiscardStale ==
  /\ BagToSet(staged) \cap Stale # {}
  /\ staged' = Staged(Item \ Stale)
  /\ GwsSignal
  /\ UNCHANGED <<rollable, poolVars, max, lagging, pool, item, queue, tpc, lpVars,
                 boundVars>>

Next ==
  \/ \E t \in Miner : MinerStep(t) \/ Timeout(t)
  \/ MainStep \/ MainTimeout
  \/ LongPoll \/ LPClone \/ LPLast \/ LPStage \/ PoolTest
  \/ \E p \in Pool : SwitchPools(p) \/ Clear(p) \/ Disconnect(p) \/ Resume(p)
  \/ GetStale \/ DiscardStale

(* The threads run; no timeout is needed, and no pool has to come back.    *)
Spec ==
  /\ Init /\ [][Next]_vars
  /\ \A t \in Miner : WF_vars(MinerStep(t))
  /\ WF_vars(MainStep)
  /\ WF_vars(LPClone \/ LPLast \/ LPStage)

----------------------------------------------------------------------------
(* The variables have their types, and the counter is never negative. *)
TypeOK ==
  /\ local \in LocalSets
  /\ IsABag(staged) /\ BagToSet(staged) \subseteq Item
  /\ rollable \in Nat
  /\ queue \in OptQueue..MaxQueue
  /\ cur \in Pool /\ up \subseteq Pool /\ clearing \subseteq Pool
  /\ events \in 0..MaxEvents /\ downs \in 0..events
  /\ mpc \in {"limit", "test", "asleep", "woken", "drop", "make", "gen", "stage"}
  /\ max \in Nat /\ lagging \in BOOLEAN /\ pool \in Pool \cup {None}
  /\ item \in Item \cup {Nothing}
  /\ tpc \in [Miner -> {"pop", "asleep", "woken", "busy"}]
  /\ lpc \in {"idle", "clone", "stage"} /\ lpItem \in Item \cup {Nothing}
  /\ mrs \in Int /\ cloned \in BOOLEAN

(* hash_pop finds a work that is no master whenever it looks for one: the  *)
(* counter is not below the number of staged masters.  Otherwise it would  *)
(* take the null pointer at the end of its loop for a work.                *)
CounterCoversMasters == rollable >= BagCardinality(Staged(Masters))

(* No mining thread sleeps in hash_pop while there is work: whoever stages *)
(* work, in any number and from any thread, wakes the threads.             *)
NobodySleepsOnWork == staged # EmptyBag => Asleep = {}

(* main and a mining thread never wait for each other: a thread that waits *)
(* for work has woken main.                                                *)
SchedulerHearsMiners == Asleep # {} => mpc # "asleep"

(* Between pools that make their work locally and stay connected, a change *)
(* of pool leaves at most one work of each other pool once the clearing is *)
(* done: the one main had in hand.                                         *)
LastPoolLeavesOneWork ==
  local = Pool /\ downs = 0 /\ clearing = {} =>
    \A p \in Pool \ {cur} : BagCardinality(Staged(Of(p))) <= 1

(* As long as some pool gives work the mining threads do not all starve,   *)
(* though no timeout ends a wait any more.  (When main's timeout does, it  *)
(* may throw away the work before a woken thread gets it.)                 *)
NotAllStarve ==
  <>[](up # {}) /\ <>[][~MainTimeout /\ ~\E t \in Miner : Timeout(t)]_vars =>
    []<>(\E t \in Miner : tpc[t] = "busy")

(* hash_pop, line 5987: "Find clone work if possible, to allow masters to  *)
(* be reused".  Violated: discard_stale and clear_pool_work do not count   *)
(* the masters they throw away.                                            *)
ClonesFirst ==
  [][\A t \in Miner : Pop(t) /\ Staged(Masters)' # Staged(Masters) => BagToSet(staged) \subseteq Masters]_vars
=============================================================================
