----------------------------- MODULE LockModes -----------------------------
(***************************************************************************)
(* What a cglock promises: every thread holds it in one mode.  Any number  *)
(* of threads read; one thread at most has the intermediate or the write   *)
(* mode; the intermediate one tolerates readers, the write one nobody.     *)
(* A writer becomes a reader through the intermediate mode, hence without  *)
(* another writer in between.                                              *)
(***************************************************************************)
CONSTANT Thread
VARIABLE hold       \* [Thread -> {"none", "read", "inter", "write"}]

Init == hold = [t \in Thread |-> "none"]

Set(t, m) == hold' = [hold EXCEPT ![t] = m]
Others(t, M) == \A u \in Thread \ {t} : hold[u] \in M

Acquire(t) ==
  /\ hold[t] = "none"
  /\ \/ Others(t, {"none", "read", "inter"}) /\ Set(t, "read")
     \/ Others(t, {"none", "read"}) /\ Set(t, "inter")
Upgrade(t) == hold[t] = "inter" /\ Others(t, {"none"}) /\ Set(t, "write")
Demote(t) == hold[t] = "write" /\ Set(t, "inter")
ReadOn(t) == hold[t] = "inter" /\ Set(t, "read")
Release(t) == hold[t] \in {"read", "inter"} /\ Set(t, "none")

Next == \E t \in Thread : Acquire(t) \/ Upgrade(t) \/ Demote(t) \/ ReadOn(t) \/ Release(t)

Spec == Init /\ [][Next]_hold
=============================================================================
