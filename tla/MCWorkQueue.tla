---------------------------- MODULE MCWorkQueue ----------------------------
(* WorkQueue for TLC: both pools are local, or one is; or none, in         *)
(* MCNoLocal.                                                              *)
EXTENDS WorkQueue, TLC
CONSTANTS t1, t2, p, q
MCMiner == {t1, t2}
MCPool == {p, q}
MCLocalSets == {{p}, {p, q}}
MCNoLocal == {{}, {p}}
MinerSymmetry == Permutations(MCMiner)
=============================================================================
