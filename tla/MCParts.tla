------------------------------ MODULE MCParts ------------------------------
(***************************************************************************)
(* The small parts of sgminer that share no state, checked side by side:   *)
(* each behaviour is one of one part, and the others stay as they are.     *)
(***************************************************************************)
EXTENDS CGLock, BlockTest, MCPoolSelect, CurlPool

VARIABLE part

partVars == <<vars, btVars, selectVars, curlVars, part>>

(* A part that is not looked at: one of its initial states, in which       *)
(* nothing has to happen.                                                  *)
SelectRests ==
  /\ SelectInit /\ strategy = "balance" /\ ~failOnly /\ \A p \in PoolNo : quota[p] = 1
CurlRests == CurlInit /\ limit = 0

PartsInit ==
  /\ Init /\ BtInit
  /\ \/ part \in {"cglock", "blocks"} /\ SelectRests /\ CurlRests
     \/ part = "select" /\ SelectInit /\ CurlRests
     \/ part = "curls" /\ SelectRests /\ CurlInit

PartsNext ==
  /\ UNCHANGED part
  /\ \/ part = "cglock" /\ Next /\ UNCHANGED <<btVars, selectVars, curlVars>>
     \/ part = "blocks" /\ BtNext /\ UNCHANGED <<vars, selectVars, curlVars>>
     \/ part = "select" /\ SelectNext /\ UNCHANGED <<vars, btVars, curlVars>>
     \/ part = "curls" /\ CurlNext /\ UNCHANGED <<vars, btVars, selectVars>>

(* The bounds of these two may be reached.  The others never stop. *)
Bounded == part \in {"blocks", "select"} /\ UNCHANGED partVars

(* Each part is fair as its own specification says; at rest, cglock and    *)
(* curls have nothing to do.                                               *)
PartsFair ==
  /\ Fairness /\ CurlFair
  /\ WF_selectVars(part = "select" /\ SelectPool)

PartsSpec == PartsInit /\ [][PartsNext \/ Bounded]_partVars /\ PartsFair
=============================================================================
