---------------------------- MODULE MCPoolSelect ----------------------------
(* The first quotas of PoolSelect for TLC. *)
EXTENDS PoolSelect

(* Three pools; a quota may be 0, and a round may be long. *)
MCFirst == {[p \in 0..2 |-> IF p = 1 THEN a ELSE b] : a \in {1, 2}, b \in {0, 1, 3}}

(* The default of all pools, and two different quotas. *)
MCOnes == {[p \in PoolNo |-> 1]}
MCOneTwo == [PoolNo -> {1, 2}]
=============================================================================
