----------------------------- MODULE PoolSelect -----------------------------
(***************************************************************************)
(* select_pool: how main shares its work among the pools.  With the        *)
(* load-balance strategy (and when the current pool lags) a rotation gives *)
(* each pool quota_gcd works, its quota divided by the common divisor of   *)
(* all quotas; quota_used counts them until no pool has any left.  With    *)
(* the balance strategy the workable pool with the fewest shares gets the  *)
(* work.  main is the only one that selects; quotas are changed by the API *)
(* and the console, discard_work gives works back, watchpool_thread sets   *)
(* the shares, and pools stop and start working at any time.               *)
(*                                                                         *)
(* The pools are 0, 1, ..., in order of priority.  quota_used is an int,   *)
(* the divisor an unsigned long: here of IntBits and LongBits.             *)
(***************************************************************************)
EXTENDS Integers, FiniteSets

CONSTANTS
  Pools,      \* total_pools
  Quotas,     \* the quotas that are set; the first ones, of Init
  FirstQuotas,
  Strategies, \* of "loadbalance" and "balance"
  FailOnly,   \* the values of opt_fail_only
  IntBits, LongBits,
  MaxUsed, MaxShares, MaxChanges    \* bounds: see SelectBounds

ASSUME SelectAssumption ==
  /\ Pools \in Nat \ {0} /\ Quotas \subseteq Nat /\ FirstQuotas \subseteq [0..Pools - 1 -> Quotas]
  /\ Strategies \subseteq {"loadbalance", "balance"} /\ FailOnly \subseteq BOOLEAN
  /\ IntBits \in Nat \ {0} /\ LongBits \in Nat /\ LongBits >= IntBits
(* Where quota_used and shares are no longer counted, and how often quotas *)
(* are changed, works discarded and shares set.                            *)
ASSUME SelectBounds == {MaxUsed, MaxShares, MaxChanges} \subseteq Nat

PoolNo == 0..Pools - 1

VARIABLES
  strategy, failOnly,     \* pool_strategy, opt_fail_only; neither changes
  quota, quotaGcd, quotaUsed, globalGcd,
  rotating,               \* rotating_pool
  cp,                     \* current_pool()
  workable,               \* ~pool_unworkable
  shares,                 \* of the balance strategy
  chosen,                 \* the pool of the last select_pool
  given,                  \* the works each pool got by its quota since the last reset
  steady,                 \* the pools that were workable all the time since, with no work discarded
  changes                 \* how many so far

quotaVars == <<quota, quotaGcd, globalGcd>>
useVars == <<quotaUsed, rotating, shares, chosen>>
historyVars == <<given, steady>>
selectVars == <<strategy, failOnly, quotaVars, useVars, cp, workable, historyVars, changes>>

----------------------------------------------------------------------------
(* adjust_quota_gcd. *)
Divides(d, n) == n % d = 0
(* The last number that "while (quota % gcd) gcd--" comes to. *)
DownTo(d, n) == CHOOSE e \in 1..d : Divides(e, n) /\ \A f \in e + 1..d : ~Divides(f, n)

(* The pools one after the other, each starting from the number of the one *)
(* before it; an earlier pool is not looked at again.                      *)
QuotaGcd(q) ==
  LET Lowest == {q[p] : p \in {r \in PoolNo : q[r] > 0 /\ \A o \in PoolNo : q[o] > 0 => q[r] <= q[o]}}
      step[p \in -1..Pools - 1] ==
        IF p = -1 THEN CHOOSE l \in Lowest : TRUE
        ELSE IF q[p] = 0 THEN step[p - 1] ELSE DownTo(step[p - 1], q[p])
  IN IF Lowest = {} THEN 1 ELSE step[Pools - 1]

(* C's arithmetic: to unsigned long, and to int. *)
Unsigned(x) == x % (2 ^ LongBits)
Signed(x) == LET y == x % (2 ^ IntBits) IN IF y < 2 ^ (IntBits - 1) THEN y ELSE y - 2 ^ IntBits
Rescale(used, from, to) == Signed(Unsigned(Signed(Unsigned(used * from))) \div to)

Adjusted(q) == [p \in PoolNo |-> q[p] \div QuotaGcd(q)]

----------------------------------------------------------------------------
SelectInit ==
  /\ strategy \in Strategies /\ failOnly \in FailOnly
  /\ quota \in FirstQuotas /\ globalGcd = QuotaGcd(quota) /\ quotaGcd = Adjusted(quota)
  /\ quotaUsed = [p \in PoolNo |-> 0] /\ rotating = 0 /\ shares = [p \in PoolNo |-> 0]
  /\ workable = PoolNo /\ cp = 0 /\ chosen = 0
  /\ given = [p \in PoolNo |-> 0] /\ steady = PoolNo
  /\ changes = 0

Change == changes < MaxChanges /\ changes' = changes + 1

(* poolquota, the console; and, with one pool more, add_pool. *)
SetQuota ==
  /\ Change /\ strategy = "loadbalance"
  /\ \E p \in PoolNo : \E n \in Quotas \ {quota[p]} : quota' = [quota EXCEPT ![p] = n]
  /\ globalGcd' = QuotaGcd(quota') /\ quotaGcd' = Adjusted(quota')
  /\ quotaUsed' = [p \in PoolNo |-> Rescale(quotaUsed[p], globalGcd, globalGcd')]
  /\ steady' = {}
  /\ UNCHANGED <<strategy, failOnly, rotating, shares, chosen, cp, workable, given>>

(* discard_work. *)
DiscardWork(p) ==
  /\ Change /\ strategy = "loadbalance" /\ quotaUsed[p] > -MaxUsed
  /\ quotaUsed' = [quotaUsed EXCEPT ![p] = @ - 1] /\ steady' = steady \ {p}
  /\ UNCHANGED <<strategy, failOnly, quotaVars, rotating, shares, chosen, cp, workable, given>>

(* A pool dies, is disabled, loses its connection; or is back. *)
PoolStops(p) ==
  /\ p \in workable /\ Change
  /\ workable' = workable \ {p} /\ steady' = steady \ {p}
  /\ UNCHANGED <<strategy, failOnly, quotaVars, useVars, cp, given>>
PoolStarts(p) ==
  /\ p \notin workable /\ workable' = workable \cup {p}
  /\ UNCHANGED <<strategy, failOnly, quotaVars, useVars, cp, historyVars, changes>>

(* switch_pools, whichever pool it takes. *)
SwitchTo(p) ==
  /\ p # cp /\ Change /\ cp' = p
  /\ UNCHANGED <<strategy, failOnly, quotaVars, useVars, workable, historyVars>>

(* watchpool_thread, every ten minutes: the first pool's turn sets         *)
(* intervals to 0, and the others have to wait for the next ten minutes.   *)
RollingShares ==
  /\ Change /\ strategy = "balance"
  /\ \E n \in 0..MaxShares : shares' = [shares EXCEPT ![0] = n]
  /\ steady' = {}
  /\ UNCHANGED <<strategy, failOnly, quotaVars, quotaUsed, rotating, chosen, cp, workable, given>>

----------------------------------------------------------------------------
(* select_pool. *)
Plus1(n, max) == IF n < max THEN n + 1 ELSE n
Following(p) == (p + 1) % Pools

Exhausted == \A p \in PoolNo : quotaUsed[p] >= quotaGcd[p]

(* Mutants: a pool that cannot be used keeps its quota; the rotation is    *)
(* left with the first work of a pool.                                     *)
MutVisit(s) ==
  LET p == s.rot
      left == s.used[p] < quotaGcd[p]
      used == IF p \in workable THEN [s.used EXCEPT ![p] = Plus1(@, MaxUsed)] ELSE s.used
  IN IF s.found \/ (left /\ p \in workable) THEN [s EXCEPT !.found = TRUE, !.used = IF s.found THEN s.used ELSE used]
     ELSE [found |-> FALSE, rot |-> Following(p), used |-> used]
MutVisitOne(s) ==
  LET p == s.rot
      used == [s.used EXCEPT ![p] = Plus1(@, MaxUsed)]
  IN IF s.found \/ (s.used[p] <= quotaGcd[p] /\ p \in workable)
     THEN [s EXCEPT !.found = TRUE, !.used = IF s.found THEN s.used ELSE used]
     ELSE [found |-> FALSE, rot |-> Following(p), used |-> used]

(* One turn of the loop "tested++ < total_pools": the use of the pool is   *)
(* counted in any case, and with opt_fail_only a pool that cannot use its  *)
(* quota gives it to the pool with the highest priority.                   *)
Visit(s) ==
  LET p == s.rot
      left == s.used[p] < quotaGcd[p]
      used == [s.used EXCEPT ![p] = Plus1(@, MaxUsed)]
  IN IF s.found THEN s
     ELSE IF left /\ p \in workable THEN [s EXCEPT !.found = TRUE, !.used = used]
     ELSE [found |-> FALSE, rot |-> Following(p),
           used |-> IF left /\ failOnly THEN [used EXCEPT ![0] = @ - 1] ELSE used]

(* The outcome of the loop, as a set of one element. *)
Rotation(start) ==
  LET turn[n \in 0..Pools] == IF n = 0 THEN {start} ELSE {Visit(s) : s \in turn[n - 1]} IN turn[Pools]

(* No pool with quota is alive: the first usable one.  A pool may be       *)
(* usable and not workable, when its connection is down.                   *)
Fallback == {p \in PoolNo : \A o \in 0..p - 1 : o \notin workable}

LoadBalance ==
  /\ strategy = "loadbalance"
  /\ LET used == IF Exhausted THEN [p \in PoolNo |-> 0] ELSE quotaUsed
         before == IF Exhausted THEN [p \in PoolNo |-> 0] ELSE given
         first == IF Exhausted THEN Following(rotating) ELSE rotating
     IN \E s \in Rotation([found |-> FALSE, rot |-> first, used |-> used]) :
          /\ quotaUsed' = s.used /\ rotating' = s.rot
          /\ IF s.found THEN chosen' = s.rot ELSE chosen' \in Fallback
          /\ given' = IF s.found THEN [before EXCEPT ![s.rot] = Plus1(@, MaxUsed)] ELSE before
  /\ steady' = IF Exhausted THEN workable ELSE steady
  /\ UNCHANGED <<strategy, failOnly, quotaVars, shares, cp, workable, changes>>

(* Mutant: the current pool gets the work if it has as few shares or fewer *)
(* than one of the others.                                                 *)
MutLowest == {p \in workable \cup {cp} : \E o \in workable : shares[p] <= shares[o]}
(* select_balanced: the current pool if no other one has fewer shares,     *)
(* else the first with the fewest.                                         *)
Lowest == {p \in workable \cup {cp} : \A o \in workable \cup {cp} : shares[p] <= shares[o]}
Balance ==
  /\ strategy = "balance"
  /\ chosen' = (IF cp \in Lowest THEN cp ELSE CHOOSE p \in Lowest : \A o \in Lowest : p <= o)
  /\ shares[chosen'] < MaxShares /\ shares' = [shares EXCEPT ![chosen'] = @ + 1]
  /\ UNCHANGED <<strategy, failOnly, quotaVars, quotaUsed, rotating, cp, workable, historyVars, changes>>

SelectPool == LoadBalance \/ Balance

SelectNext ==
  \/ SelectPool \/ SetQuota \/ RollingShares
  \/ \E p \in PoolNo : DiscardWork(p) \/ PoolStops(p) \/ PoolStarts(p) \/ SwitchTo(p)

(* main goes on to select as long as there is work to do. *)
SelectSpec == SelectInit /\ [][SelectNext]_selectVars /\ WF_selectVars(SelectPool)

----------------------------------------------------------------------------
(* The rotation divides the work exactly: when the quotas are given out    *)
(* again, every pool that could work all the time since the last time has  *)
(* got its quota_gcd works, neither more nor less, whatever the others did *)
(* (with opt_fail_only the first pool gets more).                          *)
RoundIsExact ==
  [][LoadBalance /\ Exhausted =>
       \A p \in steady : given[p] = quotaGcd[p] \/ (failOnly /\ p = 0)]_selectVars

LastPool == Pools - 1

(* The last pool does not starve: if it works and has a quota it gets work *)
(* again and again, even after a change of the quotas that has made a      *)
(* negative quota_used a huge one, and whatever other pools are dead.      *)
(* With opt_fail_only the first pool must work, too: see QuotaIsUsedUp.    *)
PoolsAreServed ==
  <>[](LastPool \in workable /\ quotaGcd[LastPool] > 0 /\ (failOnly => 0 \in workable))
    => []<>(chosen = LastPool \/ strategy # "loadbalance")

(* The pools that work all the time share the work evenly, to one work.    *)
BalanceIsEven ==
  strategy = "balance" => \A p, q \in steady : shares[p] <= shares[q] + 1

(* README.md, line 327, "any arbitrary ratio of quotas", and the comment   *)
(* of adjust_quota_gcd: the number the quotas are divided by divides them. *)
(* Violated with quotas 4 and 6: the number is 3, the works go 1 to 2.     *)
GcdDividesQuotas == \A p \in PoolNo : Divides(globalGcd, quota[p])

(* README.md, line 315: opt_fail_only maintains the "quota ratios between  *)
(* the rest of the pools".  Violated: a first pool that is dead gets back  *)
(* what it cannot use for ever, the quotas are never given out again, and  *)
(* one other pool gets all the work.                                       *)
QuotaIsUsedUp ==
  <>[](LastPool \in workable /\ quotaGcd[LastPool] > 0)
    => []<>(chosen = LastPool \/ strategy # "loadbalance")
=============================================================================
