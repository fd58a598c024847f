---------------------------- MODULE ShareLedger ----------------------------
(***************************************************************************)
(* What the two stratum threads and the submission queue promise together: *)
(* a share that was found is settled at most once, as accepted, rejected   *)
(* or stale, or its work is discarded unsent.  Nothing is said about when. *)
(***************************************************************************)
CONSTANT Share
VARIABLE fate

Outcome == {"accepted", "rejected", "stale", "discarded"}

Init == fate = [s \in Share |-> "none"]

Find(s) ==
  /\ fate[s] = "none"
  /\ \E f \in {"queued", "stale", "discarded"} : fate' = [fate EXCEPT ![s] = f]

(* Several shares may be settled by one step: clear_stratum_shares. *)
SettleAll(S, f) ==
  /\ \A s \in S : fate[s] = "queued"
  /\ fate' = [s \in Share |-> IF s \in S THEN f ELSE fate[s]]

Next ==
  \/ \E s \in Share : Find(s)
  \/ \E S \in SUBSET Share, f \in Outcome : SettleAll(S, f)

Spec == Init /\ [][Next]_fate
=============================================================================
