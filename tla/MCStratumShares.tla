-------------------------- MODULE MCStratumShares --------------------------
(* Instances of StratumShares for TLC: who submits which share to whom.    *)
EXTENDS StratumShares, TLC

CONSTANTS s1, s2

OnePool == [s \in Share |-> CHOOSE p \in Pool : TRUE]

(* Two pools: s1 belongs to the first, the rest to the other one. *)
FirstPool == CHOOSE p \in Pool : TRUE
TwoPools == [s \in Share |-> IF s = s1 THEN FirstPool ELSE CHOOSE p \in Pool : p # FirstPool]

OneLong == {s2}

ShareSymmetry == Permutations(Share)
=============================================================================
