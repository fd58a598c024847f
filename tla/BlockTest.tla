----------------------------- MODULE BlockTest -----------------------------
(***************************************************************************)
(* test_work_current: who finds a new block first, and how the works of    *)
(* the old one get stale.  stratum_rthread tests one work of every clean   *)
(* job (a long poll), main tests every work that it stages; work_block     *)
(* counts the changes, and a share is stale when its work was staged under *)
(* another number.  block_exists and the insertion hold blk_lock, each for *)
(* itself; work_block and new_blocks are counted without a lock, and       *)
(* "++work_block" is a read and a write.                                   *)
(*                                                                         *)
(* Blocks and jobs are numbered as they come; a work is of the block of    *)
(* its job.  Left out: pool->prev_block, on which nothing but the return   *)
(* value depends, and nobody of these two uses it.                         *)
(***************************************************************************)
EXTENDS Integers, FiniteSets

CONSTANTS
  BtPool,     \* the pools with a stratum connection
  BtCurrent,  \* current_pool(), of which main makes work
  Keep,       \* how many blocks are remembered: 6
  MaxBlock, BtMaxJob      \* bounds on the blocks and the jobs

BtMain == "main"
ASSUME BtAssumption ==
  /\ BtCurrent \in BtPool /\ BtMain \notin BtPool
  /\ {Keep, MaxBlock, BtMaxJob} \subseteq Nat

Finder == BtPool \cup {BtMain}
BtNothing == [pool |-> BtMain, job |-> 0, block |-> 0, number |-> 0]

VARIABLES
  sworkJob, sworkBlock,  \* of each pool: the number and the block of its job
  knownBlocks,      \* the known blocks: hash and block_no
  newBlocks,   \* new_blocks
  workBlock,   \* work_block
  currentBlock,     \* current_block
  btPc, btWork,    \* each finder: where it is, and the work it tests
  btBumped,      \* the work_block it has read
  btTested,      \* the last block a pool's rthread has tested
  btStaged,    \* what main has staged last
  btMined      \* any one of the works that have been mined

btJobVars == <<sworkJob, sworkBlock>>
btBlockVars == <<knownBlocks, newBlocks, workBlock, currentBlock>>
btVars == <<btJobVars, btBlockVars, btPc, btWork, btBumped, btTested, btStaged, btMined>>

BtInit ==
  /\ sworkJob = [p \in BtPool |-> 0] /\ sworkBlock = [p \in BtPool |-> 0]
  /\ knownBlocks = {} /\ newBlocks = 0 /\ workBlock = 0 /\ currentBlock = 0
  /\ btPc = [f \in Finder |-> "idle"] /\ btWork = [f \in Finder |-> BtNothing]
  /\ btBumped = [f \in Finder |-> 0] /\ btTested = [p \in BtPool |-> 0]
  /\ btStaged = BtNothing /\ btMined = BtNothing

BtGoto(f, from, to) == btPc[f] = from /\ btPc' = [btPc EXCEPT ![f] = to]

(* stratum_rthread: a clean notify, of the same block or a later one, and  *)
(* the work made of it; a notify that is not clean is tested by main only. *)
BtNotify(p) ==
  /\ sworkJob[p] < BtMaxJob
  /\ \E b \in sworkBlock[p]..MaxBlock, clean \in BOOLEAN :
       /\ b > 0
       /\ sworkBlock' = [sworkBlock EXCEPT ![p] = b]
       /\ sworkJob' = [sworkJob EXCEPT ![p] = @ + 1]
       /\ IF clean
          THEN /\ BtGoto(p, "idle", "exists")
               /\ btWork' = [btWork EXCEPT ![p] =
                    [pool |-> p, job |-> sworkJob[p] + 1, block |-> b, number |-> workBlock]]
          ELSE btPc[p] = "idle" /\ UNCHANGED <<btPc, btWork>>
  /\ UNCHANGED <<btBlockVars, btBumped, btTested, btStaged, btMined>>

(* main: gen_stratum_work, and later stage_work with the counter of then. *)
MakeWork ==
  /\ sworkJob[BtCurrent] > 0 /\ BtGoto(BtMain, "idle", "stage")
  /\ btWork' = [btWork EXCEPT ![BtMain] =
       [pool |-> BtCurrent, job |-> sworkJob[BtCurrent], block |-> sworkBlock[BtCurrent], number |-> 0]]
  /\ UNCHANGED <<btJobVars, btBlockVars, btBumped, btTested, btStaged, btMined>>
StageWork ==
  /\ BtGoto(BtMain, "stage", "exists")
  /\ btWork' = [btWork EXCEPT ![BtMain].number = workBlock]
  /\ UNCHANGED <<btJobVars, btBlockVars, btBumped, btTested, btStaged, btMined>>

(* Mutant: no long poll counts a block that is known. *)
MutBlockExists(f) ==
  /\ BtGoto(f, "exists", IF \E s \in knownBlocks : s.hash = btWork[f].block THEN "out" ELSE "add")
  /\ UNCHANGED <<btJobVars, btBlockVars, btWork, btBumped, btTested, btStaged, btMined>>

(* A known block is only counted for a long poll. *)
BlockExists(f) ==
  /\ BtGoto(f, "exists", IF \A s \in knownBlocks : s.hash # btWork[f].block THEN "add"
                       ELSE IF f \in BtPool THEN "read" ELSE "out")
  /\ UNCHANGED <<btJobVars, btBlockVars, btWork, btBumped, btTested, btStaged, btMined>>

Oldest(S) == {s \in S : \A r \in S : s.no <= r.no}

(* A new block; the very first one makes nothing stale.  (The unlocked     *)
(* new_blocks++, the insertion under blk_lock, set_curblock and the test   *)
(* for the first block are one step: what races is work_block.)            *)
AddBlock(f) ==
  /\ \E gone \in (IF Cardinality(knownBlocks) > Keep THEN {{s} : s \in Oldest(knownBlocks)} ELSE {{}}) :
       knownBlocks' = (knownBlocks \ gone) \cup {[hash |-> btWork[f].block, no |-> newBlocks]}
  /\ newBlocks' = newBlocks + 1 /\ currentBlock' = btWork[f].block
  /\ BtGoto(f, "add", IF newBlocks' = 1 THEN "out" ELSE "read")
  /\ UNCHANGED <<btJobVars, workBlock, btWork, btBumped, btTested, btStaged, btMined>>

(* "work->work_block = ++work_block", of one or of several threads. *)
ReadNumber(f) ==
  /\ BtGoto(f, "read", "write") /\ btBumped' = [btBumped EXCEPT ![f] = workBlock]
  /\ UNCHANGED <<btJobVars, btBlockVars, btWork, btTested, btStaged, btMined>>
WriteNumber(f) ==
  /\ BtGoto(f, "write", "out")
  /\ workBlock' = btBumped[f] + 1 /\ btWork' = [btWork EXCEPT ![f].number = btBumped[f] + 1]
  /\ btBumped' = [btBumped EXCEPT ![f] = 0]
  /\ UNCHANGED <<btJobVars, knownBlocks, newBlocks, currentBlock, btTested, btStaged, btMined>>

Out(f) ==
  /\ BtGoto(f, "out", "idle") /\ btWork' = [btWork EXCEPT ![f] = BtNothing]
  /\ IF f = BtMain THEN btStaged' = btWork[f] /\ UNCHANGED btTested
     ELSE btTested' = [btTested EXCEPT ![f] = btWork[f].block] /\ UNCHANGED btStaged
  /\ UNCHANGED <<btJobVars, btBlockVars, btBumped, btMined>>

(* get_work: stale_work compares the number and the job. *)
Mine ==
  /\ btStaged.job > 0 /\ btStaged.job = sworkJob[btStaged.pool] /\ btStaged.number = workBlock
  /\ btMined' = btStaged /\ btStaged' = BtNothing
  /\ UNCHANGED <<btJobVars, btBlockVars, btPc, btWork, btBumped, btTested>>

BtNext ==
  \/ \E p \in BtPool : BtNotify(p)
  \/ MakeWork \/ StageWork \/ Mine
  \/ \E f \in Finder : BlockExists(f) \/ AddBlock(f) \/ ReadNumber(f) \/ WriteNumber(f) \/ Out(f)
BtSpec == BtInit /\ [][BtNext]_btVars

----------------------------------------------------------------------------
(* A share is of a block that is over: its pool has sent a later one with  *)
(* a clean job, and its stratum_rthread is done with it.  Then the share   *)
(* is stale, whoever counted the block and in whatever order; no work of   *)
(* the old block comes back to life.                                       *)
OldBlockIsStale ==
  btMined # BtNothing /\ btMined.block < btTested[btMined.pool] => btMined.number # workBlock
=============================================================================
