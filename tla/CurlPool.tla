------------------------------ MODULE CurlPool ------------------------------
(***************************************************************************)
(* The curl handles of a pool without stratum.  main takes one for every   *)
(* getwork, a submit_work_thread one for its share and keeps it while it   *)
(* tries again.  A handle is recruited when none is free, up to a limit;   *)
(* beyond it the thread waits on cr_cond, until a handle is pushed.        *)
(* watchpool_thread reaps handles nobody has used for 300 seconds.  All    *)
(* this happens under pool_lock.  The limit, (mining_threads + opt_queue)  *)
(* * 2 or 5, is computed once by every thread, and may change.             *)
(***************************************************************************)
EXTENDS Integers, FiniteSets

CONSTANTS
  User,      \* main and the submit_work_threads, as they come one after the other
  Limits     \* the values of the limit
ASSUME CurlAssumption == Limits \subseteq Nat /\ IsFiniteSet(User)

VARIABLES
  curls,     \* pool->curls
  ring,      \* how many handles are in curlring
  unused,    \* how many of them, at its front, nobody has used for long
  limit,     \* what the limit is at present
  curlLimit, \* the curl_limit each user has computed
  upc        \* the users

curlVars == <<curls, ring, unused, limit, curlLimit, upc>>

CurlInit ==
  /\ curls = 0 /\ ring = 0 /\ unused = 0 /\ limit \in Limits
  /\ curlLimit = [u \in User |-> 0] /\ upc = [u \in User |-> "idle"]

Users(at) == {u \in User : upc[u] \in at}
Holders == Users({"holds"})
Waiters == Users({"asleep"})
Move(u, to) == upc' = [upc EXCEPT ![u] = to]
Less1(n) == IF n = 0 THEN 0 ELSE n - 1

ChangeLimit == limit' \in Limits \ {limit} /\ UNCHANGED <<curls, ring, unused, curlLimit, upc>>

(* A share is found, or main needs work. *)
NeedCurl(u) ==
  /\ upc[u] = "idle" /\ Move(u, "pop")
  /\ curlLimit' = [curlLimit EXCEPT ![u] = limit]
  /\ UNCHANGED <<curls, ring, unused, limit>>

(* pop_curl_entry, each time it has the lock. *)
TakeFree(u) ==
  /\ upc[u] \in {"pop", "woken"} /\ ring > 0
  /\ ring' = ring - 1 /\ unused' = Less1(unused)
  /\ Move(u, "holds") /\ UNCHANGED <<curls, limit, curlLimit>>

(* Mutant: the limit is for the handles in the ring. *)
MutRecruit(u) ==
  /\ upc[u] \in {"pop", "woken"} /\ ring = 0 /\ (curls = 0 \/ ring < curlLimit[u])
  /\ curls' = curls + 1
  /\ Move(u, "holds") /\ UNCHANGED <<ring, unused, limit, curlLimit>>

Recruit(u) ==
  /\ upc[u] \in {"pop", "woken"} /\ ring = 0 /\ (curls = 0 \/ curls < curlLimit[u])
  /\ curls' = curls + 1
  /\ Move(u, "holds") /\ UNCHANGED <<ring, unused, limit, curlLimit>>

WaitForCurl(u) ==
  /\ upc[u] \in {"pop", "woken"} /\ ring = 0 /\ curls > 0 /\ curls >= curlLimit[u]
  /\ Move(u, "asleep") /\ UNCHANGED <<curls, ring, unused, limit, curlLimit>>

(* pthread_cond_wait may return for no reason. *)
WakeSpuriously(u) ==
  upc[u] = "asleep" /\ Move(u, "woken") /\ UNCHANGED <<curls, ring, unused, limit, curlLimit>>

(* Mutant: nobody is told. *)
MutPush(u) ==
  /\ upc[u] = "holds" /\ ring' = ring + 1
  /\ Move(u, "idle") /\ curlLimit' = [curlLimit EXCEPT ![u] = 0]
  /\ UNCHANGED <<curls, unused, limit>>

(* push_curl_entry, when the pool has answered, or the share got stale. *)
PushCurlEntry(u) ==
  /\ upc[u] = "holds" /\ ring' = ring + 1
  /\ upc' = [v \in User |-> IF v = u THEN "idle" ELSE IF v \in Waiters THEN "woken" ELSE upc[v]]
  /\ curlLimit' = [curlLimit EXCEPT ![u] = 0]
  /\ UNCHANGED <<curls, unused, limit>>

(* Five minutes without use. *)
Age == unused < ring /\ unused' = unused + 1 /\ UNCHANGED <<curls, ring, limit, curlLimit, upc>>

(* reap_curl: one handle is kept, in the ring or in use. *)
ReapCurl ==
  /\ unused > 0 /\ curls >= 2
  /\ LET reaped == IF unused < curls THEN unused ELSE curls - 1
     IN curls' = curls - reaped /\ ring' = ring - reaped /\ unused' = unused - reaped
  /\ UNCHANGED <<limit, curlLimit, upc>>

PopCurlEntry(u) == TakeFree(u) \/ Recruit(u) \/ WaitForCurl(u)
CurlNext ==
  \/ ChangeLimit \/ Age \/ ReapCurl
  \/ \E u \in User : NeedCurl(u) \/ PopCurlEntry(u) \/ WakeSpuriously(u) \/ PushCurlEntry(u)

(* The threads run; a holder of a handle gives it back in the end, because *)
(* the request fails or succeeds, and a share that is tried again and      *)
(* again gets stale.                                                       *)
CurlFair ==
  \A u \in User : WF_curlVars(PopCurlEntry(u)) /\ WF_curlVars(PushCurlEntry(u))
CurlSpec == CurlInit /\ [][CurlNext]_curlVars /\ CurlFair

----------------------------------------------------------------------------
CurlTypeOK ==
  /\ curls \in Nat /\ ring \in Nat /\ unused \in 0..ring
  /\ limit \in Limits /\ curlLimit \in [User -> Limits \cup {0}]
  /\ upc \in [User -> {"idle", "pop", "asleep", "woken", "holds"}]

HandlesAccounted ==
  /\ curls = ring + Cardinality(Holders)
  /\ curls <= 1 \/ \E l \in Limits : curls <= l

NobodyWaitsBesideAHandle == Waiters # {} => ring = 0 /\ Holders # {}

(* Every handle is in the ring or in use, and there are no more of them    *)
(* than some limit has allowed: reaping, waiting and changes of the limit  *)
(* lose none and make none too many.  And a thread waits only while all    *)
(* handles are in use, so that one of the users will wake it.              *)
HandlesAreSound == HandlesAccounted /\ NobodyWaitsBesideAHandle

(* When no new requests come, each thread that needs a handle gets one.    *)
RequestsAreServed ==
  <>[][\A u \in User : ~NeedCurl(u)]_curlVars => <>[](Users({"pop", "asleep", "woken"}) = {})
=============================================================================
