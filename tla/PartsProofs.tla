----------------------------- MODULE PartsProofs -----------------------------
(***************************************************************************)
(* Proofs about three small parts of sgminer that share no state:          *)
(* CGLock, for any set of threads; BlockTest, for one pool and any number  *)
(* of jobs and blocks; CurlPool, for any users and limits.                 *)
(***************************************************************************)
EXTENDS CGLock, BlockTest, CurlPool, FiniteSetTheorems, TLAPS

----------------------------------------------------------------------------
(* CGLock. *)

(* The inductive invariant: the mutex, the readers and the writer are      *)
(* exactly the threads whose control says so, and the rwlock excludes.     *)
WithMutex == {"rlock", "rdown", "inter", "wlock", "write", "down", "wdown"}
MutexIsHeld == \A t \in Thread : pc[t] \in WithMutex <=> mutex = t
ReadersAreIn == \A t \in Thread : pc[t] \in {"rdown", "read"} <=> t \in readers
WriterIsIn == \A t \in Thread : pc[t] = "write" <=> writer = t
RWExclude == writer # NoThread => readers = {}

IInv == TypeOK /\ MutexIsHeld /\ ReadersAreIn /\ WriterIsIn /\ RWExclude

LEMMA StepKeepsIInv ==
  ASSUME IInv, NEW t \in Thread, Step(t)
  PROVE  IInv'
<1> USE NoThreadAssumption DEF IInv, TypeOK, PC, Goto
<1>0. TypeOK'
  BY DEF Step, RLock, ILock, ULock, WLock, DWLock, DWILock, DLock, RUnlock, RUWLock, WUnlock,
         TakeMutex, MutexLock, MutexUnlock, RdLock, RdUnlock, WrLock, WrUnlock
<1>1. MutexIsHeld'
  BY DEF MutexIsHeld, WithMutex,
         Step, RLock, ILock, ULock, WLock, DWLock, DWILock, DLock, RUnlock, RUWLock, WUnlock,
         TakeMutex, MutexLock, MutexUnlock, RdLock, RdUnlock, WrLock, WrUnlock
<1>2. ReadersAreIn'
  BY DEF ReadersAreIn,
         Step, RLock, ILock, ULock, WLock, DWLock, DWILock, DLock, RUnlock, RUWLock, WUnlock,
         TakeMutex, MutexLock, MutexUnlock, RdLock, RdUnlock, WrLock, WrUnlock
<1>3. WriterIsIn'
  BY DEF WriterIsIn,
         Step, RLock, ILock, ULock, WLock, DWLock, DWILock, DLock, RUnlock, RUWLock, WUnlock,
         TakeMutex, MutexLock, MutexUnlock, RdLock, RdUnlock, WrLock, WrUnlock
<1>4. RWExclude'
  BY DEF RWExclude,
         Step, RLock, ILock, ULock, WLock, DWLock, DWILock, DLock, RUnlock, RUWLock, WUnlock,
         TakeMutex, MutexLock, MutexUnlock, RdLock, RdUnlock, WrLock, WrUnlock
<1> QED
  BY <1>0, <1>1, <1>2, <1>3, <1>4

(* The invariant holds in every state. *)
THEOREM LocksMatchControl == Spec => []IInv
<1>1. Init => IInv
  BY NoThreadAssumption
  DEF Init, IInv, TypeOK, PC, MutexIsHeld, WithMutex, ReadersAreIn, WriterIsIn, RWExclude
<1>2. IInv /\ [Next]_vars => IInv'
  <2> SUFFICES ASSUME IInv, [Next]_vars PROVE IInv'
    OBVIOUS
  <2>1. CASE Next
    BY <2>1, StepKeepsIInv DEF Next
  <2>2. CASE UNCHANGED vars
    BY <2>2 DEF vars, IInv, TypeOK, MutexIsHeld, ReadersAreIn, WriterIsIn, RWExclude
  <2> QED
    BY <2>1, <2>2
<1> QED
  BY <1>1, <1>2, PTL DEF Spec

LEMMA IInvExcludes == IInv => Exclusion
BY NoThreadAssumption
DEF IInv, TypeOK, PC, MutexIsHeld, WithMutex, ReadersAreIn, WriterIsIn, RWExclude, Exclusion,
    Hold, ModeAt

(* Writers exclude every other holder, intermediate holders exclude each   *)
(* other, for any number of threads.                                       *)
THEOREM CGLockExcludes == Spec => []Exclusion
BY LocksMatchControl, IInvExcludes, PTL

(* The lock implements the modes it promises: every call of the two locks  *)
(* changes the modes of LockModes by one legal step or not at all.         *)
THEOREM CGLockImplementsModes == Spec => ModesSpec
<1> USE NoThreadAssumption
<1>1. Init => Modes!Init
  BY DEF Init, Modes!Init, Hold, ModeAt
<1>2. IInv /\ [Next]_vars => [Modes!Next]_Hold
  <2> SUFFICES ASSUME IInv, [Next]_vars PROVE [Modes!Next]_Hold
    OBVIOUS
  <2>1. CASE UNCHANGED vars
    BY <2>1 DEF vars, Hold
  <2>2. ASSUME NEW t \in Thread, Step(t) PROVE [Modes!Next]_Hold
    <3> USE DEF IInv, TypeOK, PC, Goto
    <3>0. Exclusion
      BY IInvExcludes
    <3>1. ASSUME NEW from \in PC, NEW to \in PC, Goto(t, from, to)
          PROVE  Hold' = [Hold EXCEPT ![t] = ModeAt(to)] /\ Hold[t] = ModeAt(from)
      BY <3>1 DEF Hold
    <3>2. CASE RLock(t)
      <4>1. CASE TakeMutex(t, "out", "rlock")
        BY <4>1, <3>1 DEF TakeMutex, Hold, ModeAt
      <4>2. CASE RdLock(t) /\ Goto(t, "rlock", "rdown")
        <5>1. Modes!Acquire(t)
          BY <4>2, <3>1 DEF RdLock, Modes!Acquire, Modes!Others, Modes!Set, Hold, ModeAt,
                            WriterIsIn
        <5> QED
          BY <5>1 DEF Modes!Next
      <4>3. CASE Goto(t, "rdown", "read")
        BY <4>3, <3>1 DEF Hold, ModeAt
      <4> QED
        BY <3>2, <4>1, <4>2, <4>3 DEF RLock
    <3>3. ASSUME NEW from \in {"out", "ruw"}, NEW to \in {"inter", "wlock"},
                 TakeMutex(t, from, to)
          PROVE  [Modes!Next]_Hold
      <4>1. Modes!Acquire(t)
        BY <3>1, <3>3 DEF TakeMutex, MutexLock, Modes!Acquire, Modes!Others, Modes!Set, Hold,
                          ModeAt, MutexIsHeld, WithMutex
      <4> QED
        BY <4>1 DEF Modes!Next
    <3>4. CASE Goto(t, "inter", "wlock") \/ Goto(t, "inter", "down")
      BY <3>4, <3>1 DEF Hold, ModeAt
    <3>5. CASE WrLock(t) /\ Goto(t, "wlock", "write")
      <4>1. Modes!Upgrade(t)
        BY <3>0, <3>1, <3>5 DEF WrLock, Modes!Upgrade, Modes!Others, Modes!Set, Hold, ModeAt,
                                ReadersAreIn, Exclusion
      <4> QED
        BY <4>1 DEF Modes!Next
    <3>6. ASSUME NEW to \in {"down", "inter", "wdown"}, Goto(t, "write", to)
          PROVE  [Modes!Next]_Hold
      <4>1. Modes!Demote(t)
        BY <3>1, <3>6 DEF Modes!Demote, Modes!Set, ModeAt
      <4> QED
        BY <4>1 DEF Modes!Next
    <3>7. CASE Goto(t, "down", "rdown")
      <4>1. Modes!ReadOn(t)
        BY <3>1, <3>7 DEF Modes!ReadOn, Modes!Set, ModeAt
      <4> QED
        BY <4>1 DEF Modes!Next
    <3>8. CASE Goto(t, "read", "out") \/ Goto(t, "read", "ruw") \/ Goto(t, "wdown", "out")
      <4>1. Modes!Release(t)
        BY <3>1, <3>8 DEF Modes!Release, Modes!Set, ModeAt
      <4> QED
        BY <4>1 DEF Modes!Next
    <3> QED
      <4> HIDE DEF Goto
      <4> QED
        BY <2>2, <3>2, <3>3, <3>4, <3>5, <3>6, <3>7, <3>8
        DEF Step, ILock, ULock, WLock, DWLock, DWILock, DLock, RUnlock, RUWLock, WUnlock
  <2> QED
    BY <2>1, <2>2 DEF Next
<1> QED
  BY <1>1, <1>2, LocksMatchControl, PTL DEF Spec, ModesSpec, Modes!Spec

----------------------------------------------------------------------------
(* BlockTest. *)

(* No other pool: its stratum_rthread and main are the two that test.      *)
OnePool == BtPool = {BtCurrent} /\ Keep >= 1

Newest == newBlocks - 1
Hashes == {s.hash : s \in knownBlocks}
At(f, places) == btPc[f] \in places
Job == sworkJob[BtCurrent]
Block == sworkBlock[BtCurrent]

(* A work of the pool, of the block of its job. *)
IsWork(w) ==
  /\ w.pool = BtCurrent /\ w.job \in 1 .. Job /\ w.block \in 0 .. Block
  /\ w.job = Job => w.block = Block

WorksOK ==
  /\ Job \in Nat /\ Block \in Nat
  /\ btPc[BtMain] # "idle" => IsWork(btWork[BtMain])
  /\ btPc[BtCurrent] # "idle" => btWork[BtCurrent].block = Block
  /\ btTested[BtCurrent] \in 0 .. Block
  /\ btStaged # BtNothing => IsWork(btStaged)
  /\ btMined # BtNothing => btMined.pool = BtCurrent /\ btMined.block \in 0 .. Block

KnownOK ==
  /\ IsFiniteSet(knownBlocks) /\ newBlocks \in Nat
  /\ \A s \in knownBlocks : s.no \in 0 .. Newest /\ s.hash \in 0 .. Block
  /\ \A s, r \in knownBlocks : s.no = r.no => s = r
  /\ newBlocks = 0 =>
       /\ btStaged = BtNothing /\ btMined = BtNothing
       /\ \A f \in Finder : ~At(f, {"read", "write", "out"})

(* The block the pool's test is about to count is not forgotten: main adds *)
(* at most the one it had in hand.                                         *)
StaysKnown ==
  /\ At(BtMain, {"stage", "exists", "add"}) /\ btWork[BtMain].block < Block /\ Block \in Hashes =>
       \E s \in knownBlocks : s.no = Newest /\ s.hash = Block
  /\ At(BtCurrent, {"read", "write"}) => Block \in Hashes

(* So main counts at most one block between the pool's two steps. *)
CountsOnce ==
  At(BtCurrent, {"write"}) =>
    LET k == btBumped[BtCurrent] IN
      /\ workBlock <= k + 1
      /\ At(BtMain, {"write"}) => btBumped[BtMain] <= k
      /\ At(BtMain, {"add", "read"}) => workBlock <= k
      /\ At(BtMain, {"stage", "exists"}) => workBlock <= k \/ btWork[BtMain].block = Block

NumbersOK ==
  /\ workBlock \in Nat
  /\ \A f \in Finder : btBumped[f] \in Nat
  /\ At(BtMain, {"exists", "add", "read", "out"}) => btWork[BtMain].number <= workBlock
  /\ btStaged # BtNothing => btStaged.number <= workBlock
  /\ btMined # BtNothing => btMined.number <= workBlock
  /\ At(BtMain, {"write"}) =>
       /\ btBumped[BtMain] <= workBlock
       /\ btStaged # BtNothing => btStaged.number <= btBumped[BtMain]
       /\ btMined # BtNothing => btMined.number <= btBumped[BtMain]

OldIsLower ==
  btMined # BtNothing =>
    /\ At(BtCurrent, {"write"}) /\ btMined.block < Block => btMined.number <= btBumped[BtCurrent]
    /\ At(BtCurrent, {"out"}) /\ btMined.block < Block => btMined.number < workBlock
    /\ btMined.block < btTested[BtCurrent] => btMined.number < workBlock

BlockInv == WorksOK /\ KnownOK /\ StaysKnown /\ CountsOnce /\ NumbersOK /\ OldIsLower

BtItem == [pool : Finder, job : Nat, block : Nat, number : Nat]
BtTypes ==
  /\ sworkJob \in [BtPool -> Nat] /\ sworkBlock \in [BtPool -> Nat]
  /\ newBlocks \in Nat /\ workBlock \in Nat
  /\ btPc \in [Finder -> {"idle", "stage", "exists", "add", "read", "write", "out"}]
  /\ btWork \in [Finder -> BtItem] /\ btBumped \in [Finder -> Nat]
  /\ btTested \in [BtPool -> Nat]
  /\ btStaged \in BtItem /\ btMined \in BtItem

LEMMA BtTypesStep ==
  ASSUME BtTypes, [BtNext]_btVars
  PROVE  BtTypes'
<1> USE BtAssumption DEF BtTypes, btJobVars, btBlockVars, BtGoto, Finder
<1>1. BtNothing \in BtItem
  BY DEF BtNothing, BtItem
<1>2. ASSUME NEW p \in BtPool, BtNotify(p) PROVE BtTypes'
  BY <1>2 DEF BtNotify, BtItem
<1>3. CASE MakeWork
  BY <1>3 DEF MakeWork, BtItem
<1>4. CASE StageWork
  BY <1>4 DEF StageWork, BtItem
<1>5. CASE Mine
  BY <1>1, <1>5 DEF Mine
<1>6. ASSUME NEW f \in Finder, BlockExists(f) \/ AddBlock(f) \/ ReadNumber(f) PROVE BtTypes'
  BY <1>6 DEF BlockExists, AddBlock, ReadNumber
<1>7. ASSUME NEW f \in Finder, WriteNumber(f) PROVE BtTypes'
  BY <1>7 DEF WriteNumber, BtItem
<1>8. ASSUME NEW f \in Finder, Out(f) PROVE BtTypes'
  <2>1. CASE f = BtMain
    BY <1>1, <1>8, <2>1 DEF Out
  <2>2. CASE f # BtMain
    BY <1>1, <1>8, <2>2 DEF Out, BtItem
  <2> QED
    BY <2>1, <2>2
<1>9. CASE UNCHANGED btVars
  BY <1>9 DEF btVars
<1> QED
  BY <1>2, <1>3, <1>4, <1>5, <1>6, <1>7, <1>8, <1>9 DEF BtNext

LEMMA TwoFinders ==
  OnePool => Finder = {BtCurrent, BtMain} /\ BtCurrent # BtMain
BY BtAssumption DEF OnePool, Finder

(* The block of a new job is the old one or a later one, and nobody counts *)
(* for the pool while it is idle.                                          *)
LEMMA NotifyKeeps ==
  ASSUME OnePool, BtTypes, BlockInv, NEW p \in BtPool, BtNotify(p)
  PROVE  BlockInv'
<1> USE BtAssumption, TwoFinders DEF BtTypes, BlockInv, At, Job, Block, Newest
<1>1. PICK b \in Block .. MaxBlock, clean \in BOOLEAN :
        /\ Block' = b /\ Job' = Job + 1 /\ b > 0
        /\ btPc[BtCurrent] = "idle"
        /\ IF clean
           THEN /\ btPc'[BtCurrent] = "exists" /\ btWork'[BtCurrent].block = b
           ELSE btPc' = btPc /\ btWork' = btWork
        /\ btPc'[BtMain] = btPc[BtMain] /\ btWork'[BtMain] = btWork[BtMain]
  BY DEF BtNotify, BtGoto, OnePool
<1>2. UNCHANGED <<knownBlocks, newBlocks, workBlock, btBumped, btTested, btStaged, btMined>>
  BY DEF BtNotify, btBlockVars
<1>3. \A w : IsWork(w) => IsWork(w)'
  BY <1>1 DEF IsWork, WorksOK
<1>4. WorksOK'
  BY <1>1, <1>2, <1>3 DEF WorksOK
<1>5. KnownOK'
  BY <1>1, <1>2 DEF KnownOK, WorksOK
<1>6. StaysKnown'
  BY <1>1, <1>2 DEF StaysKnown, KnownOK, Hashes, WorksOK
<1>7. CountsOnce' /\ NumbersOK'
  BY <1>1, <1>2 DEF CountsOnce, NumbersOK
<1>8. OldIsLower'
  BY <1>1, <1>2 DEF OldIsLower
<1> QED
  BY <1>4, <1>5, <1>6, <1>7, <1>8

LEMMA MakeKeeps ==
  ASSUME OnePool, BtTypes, BlockInv, MakeWork \/ StageWork
  PROVE  BlockInv'
<1> USE BtAssumption, TwoFinders DEF BtTypes, BlockInv, At, Job, Block, Newest
<1>1. /\ UNCHANGED <<sworkJob, sworkBlock, knownBlocks, newBlocks, workBlock, btBumped, btTested,
                     btStaged, btMined>>
      /\ btPc'[BtCurrent] = btPc[BtCurrent] /\ btWork'[BtCurrent] = btWork[BtCurrent]
      /\ \/ /\ btPc[BtMain] = "idle" /\ btPc'[BtMain] = "stage" /\ IsWork(btWork'[BtMain])
            /\ btWork'[BtMain].block = Block
         \/ /\ btPc[BtMain] = "stage" /\ btPc'[BtMain] = "exists" /\ IsWork(btWork'[BtMain])
            /\ btWork'[BtMain].number = workBlock /\ btWork'[BtMain].block = btWork[BtMain].block
  BY DEF MakeWork, StageWork, BtGoto, btJobVars, btBlockVars, WorksOK, IsWork, BtItem
<1>2. WorksOK'
  BY <1>1 DEF WorksOK, IsWork
<1>3. KnownOK'
  BY <1>1 DEF KnownOK
<1>4. StaysKnown'
  BY <1>1 DEF StaysKnown, Hashes
<1>5. CountsOnce' /\ NumbersOK' /\ OldIsLower'
  BY <1>1 DEF CountsOnce, NumbersOK, OldIsLower
<1> QED
  BY <1>2, <1>3, <1>4, <1>5

LEMMA MineKeeps ==
  ASSUME OnePool, BtTypes, BlockInv, Mine
  PROVE  BlockInv'
<1> USE BtAssumption, TwoFinders DEF BtTypes, BlockInv, At, Job, Block, Newest
<1>1. /\ UNCHANGED <<sworkJob, sworkBlock, knownBlocks, newBlocks, workBlock, btPc, btWork, btBumped,
                     btTested>>
      /\ btStaged # BtNothing /\ btMined' = btStaged /\ btStaged' = BtNothing
      /\ btStaged.number = workBlock /\ btStaged.block = Block
  BY DEF Mine, btJobVars, btBlockVars, WorksOK, IsWork, BtNothing
<1>2. WorksOK' /\ KnownOK' /\ StaysKnown' /\ CountsOnce'
  BY <1>1 DEF WorksOK, IsWork, KnownOK, StaysKnown, Hashes, CountsOnce
<1>3. NumbersOK' /\ OldIsLower'
  BY <1>1 DEF NumbersOK, OldIsLower, WorksOK
<1> QED
  BY <1>2, <1>3

LEMMA ExistsKeeps ==
  ASSUME OnePool, BtTypes, BlockInv, NEW f \in Finder, BlockExists(f)
  PROVE  BlockInv'
<1> USE BtAssumption, TwoFinders DEF BtTypes, BlockInv, At, Job, Block, Newest
<1>1. /\ UNCHANGED <<sworkJob, sworkBlock, knownBlocks, newBlocks, workBlock, btWork, btBumped,
                     btTested, btStaged, btMined>>
      /\ btPc[f] = "exists"
      /\ btPc'[f] = IF btWork[f].block \notin Hashes THEN "add"
                    ELSE IF f = BtCurrent THEN "read" ELSE "out"
      /\ \A g \in Finder : g # f => btPc'[g] = btPc[g]
  BY DEF BlockExists, BtGoto, btJobVars, btBlockVars, Hashes, OnePool
<1>2. btPc'[f] # "add" => newBlocks > 0
  BY <1>1 DEF KnownOK, Hashes
<1>3. WorksOK' /\ KnownOK'
  BY <1>1, <1>2 DEF WorksOK, IsWork, KnownOK
<1>4. StaysKnown'
  BY <1>1 DEF StaysKnown, Hashes, WorksOK
<1>5. CountsOnce'
  BY <1>1 DEF CountsOnce, StaysKnown
<1>6. NumbersOK' /\ OldIsLower'
  BY <1>1 DEF NumbersOK, OldIsLower
<1> QED
  BY <1>3, <1>4, <1>5, <1>6

LEMMA AddKeeps ==
  ASSUME OnePool, BtTypes, BlockInv, NEW f \in Finder, AddBlock(f)
  PROVE  BlockInv'
<1> USE BtAssumption, TwoFinders DEF BtTypes, BlockInv, At, Job, Block, Newest
<1> DEFINE new == [hash |-> btWork[f].block, no |-> newBlocks]
<1>1. PICK gone \in IF Cardinality(knownBlocks) > Keep THEN {{s} : s \in Oldest(knownBlocks)} ELSE {{}} :
        knownBlocks' = (knownBlocks \ gone) \cup {new}
  BY DEF AddBlock
<1>2. /\ UNCHANGED <<sworkJob, sworkBlock, workBlock, btWork, btBumped, btTested, btStaged, btMined>>
      /\ newBlocks' = newBlocks + 1
      /\ btPc[f] = "add" /\ btPc'[f] = IF newBlocks = 0 THEN "out" ELSE "read"
      /\ \A g \in Finder : g # f => btPc'[g] = btPc[g]
  BY DEF AddBlock, BtGoto, btJobVars
<1>3. new \in knownBlocks' /\ \A s \in knownBlocks' : s \in knownBlocks \/ s = new
  BY <1>1
<1>4. btWork[f].block \in 0 .. Block
  BY <1>2 DEF WorksOK, IsWork
<1>5. IsFiniteSet(knownBlocks')
  <2>1. IsFiniteSet(knownBlocks \ gone)
    BY FS_Difference DEF KnownOK
  <2> QED
    BY <1>1, <2>1, FS_AddElement
<1>6. WorksOK'
  BY <1>2 DEF WorksOK, IsWork
<1>7. KnownOK'
  BY <1>2, <1>3, <1>4, <1>5 DEF KnownOK
<1>8. ASSUME NEW s \in knownBlocks, s.no = newBlocks - 1 PROVE s \in knownBlocks'
  <2> SUFFICES ASSUME Cardinality(knownBlocks) > Keep PROVE s \notin Oldest(knownBlocks)
    BY <1>1
  <2>1. knownBlocks # {s}
    <3>1. knownBlocks = {s} => Cardinality(knownBlocks) = 1
      BY FS_Singleton, Zenon
    <3> QED
      BY <3>1 DEF OnePool
  <2>2. PICK r \in knownBlocks : r # s
    BY <2>1
  <2> QED
    BY <1>8, <2>2 DEF Oldest, KnownOK
<1>9. StaysKnown'
  <2>1. CASE f = BtCurrent
    <3>1. new.hash = Block
      BY <1>2, <2>1 DEF WorksOK
    <3> QED
      BY <1>2, <1>3, <2>1, <3>1 DEF StaysKnown, Hashes
  <2>2. CASE f = BtMain
    <3>1. CASE btWork[BtMain].block = Block
      BY <1>2, <1>3, <2>2, <3>1 DEF StaysKnown, Hashes
    <3>2. CASE btWork[BtMain].block # Block
      <4>1. btWork[BtMain].block < Block
        BY <1>4, <2>2, <3>2 DEF WorksOK
      <4> QED
        BY <1>2, <1>8, <2>2, <4>1 DEF StaysKnown, Hashes
    <3> QED
      BY <3>1, <3>2
  <2> QED
    BY <2>1, <2>2
<1>10. CountsOnce' /\ NumbersOK'
  BY <1>2 DEF CountsOnce, NumbersOK
<1>11. OldIsLower'
  BY <1>2 DEF OldIsLower, KnownOK
<1> QED
  BY <1>6, <1>7, <1>9, <1>10, <1>11

LEMMA CountKeeps ==
  ASSUME OnePool, BtTypes, BlockInv, NEW f \in Finder, ReadNumber(f) \/ WriteNumber(f)
  PROVE  BlockInv'
<1> USE BtAssumption, TwoFinders DEF BtTypes, BlockInv, At, Job, Block, Newest
<1>1. /\ UNCHANGED <<sworkJob, sworkBlock, knownBlocks, newBlocks, btTested, btStaged, btMined>>
      /\ \A g \in Finder : g # f =>
           btPc'[g] = btPc[g] /\ btWork'[g] = btWork[g] /\ btBumped'[g] = btBumped[g]
  BY DEF ReadNumber, WriteNumber, BtGoto, btJobVars, btBlockVars
<1>2. CASE ReadNumber(f)
  <2>1. /\ UNCHANGED <<workBlock, btWork>>
        /\ btPc[f] = "read" /\ btPc'[f] = "write" /\ btBumped'[f] = workBlock
    BY <1>2 DEF ReadNumber, BtGoto, btBlockVars
  <2>2. WorksOK' /\ KnownOK' /\ StaysKnown'
    BY <1>1, <2>1 DEF WorksOK, IsWork, KnownOK, StaysKnown, Hashes
  <2>3. CountsOnce' /\ NumbersOK' /\ OldIsLower'
    BY <1>1, <2>1 DEF CountsOnce, NumbersOK, OldIsLower
  <2> QED
    BY <2>2, <2>3
<1>3. CASE WriteNumber(f)
  <2>1. /\ btPc[f] = "write" /\ btPc'[f] = "out" /\ btBumped'[f] = 0
        /\ workBlock' = btBumped[f] + 1
        /\ btWork'[f] = [btWork[f] EXCEPT !.number = btBumped[f] + 1]
    BY <1>3 DEF WriteNumber, BtGoto
  <2>2. /\ btWork'[f].number = workBlock' /\ btWork'[f].block = btWork[f].block
        /\ btWork'[f].job = btWork[f].job /\ btWork'[f].pool = btWork[f].pool
    BY <2>1 DEF BtItem
  <2>3. WorksOK' /\ KnownOK' /\ StaysKnown'
    BY <1>1, <2>1, <2>2 DEF WorksOK, IsWork, KnownOK, StaysKnown, Hashes
  <2>4. CASE f = BtCurrent
    <3>1. workBlock <= workBlock'
      BY <2>1, <2>4 DEF CountsOnce
    <3>2. CountsOnce' /\ OldIsLower'
      BY <1>1, <2>1, <2>2, <2>4, <3>1 DEF CountsOnce, NumbersOK, OldIsLower, BtItem
    <3>3. NumbersOK'
      BY <1>1, <2>1, <2>2, <2>4, <3>1 DEF NumbersOK, BtItem
    <3> QED
      BY <2>3, <3>2, <3>3
  <2>5. CASE f = BtMain
    <3>1. CountsOnce'
      BY <1>1, <2>1, <2>2, <2>5 DEF CountsOnce
    <3>2. NumbersOK'
      BY <1>1, <2>1, <2>2, <2>5 DEF NumbersOK, BtItem
    <3>3. OldIsLower'
      BY <1>1, <2>1, <2>2, <2>5 DEF NumbersOK, OldIsLower, BtItem
    <3> QED
      BY <2>3, <3>1, <3>2, <3>3
  <2> QED
    BY <2>4, <2>5
<1> QED
  BY <1>2, <1>3

LEMMA OutKeeps ==
  ASSUME OnePool, BtTypes, BlockInv, NEW f \in Finder, Out(f)
  PROVE  BlockInv'
<1> USE BtAssumption, TwoFinders DEF BtTypes, BlockInv, At, Job, Block, Newest
<1>1. /\ UNCHANGED <<sworkJob, sworkBlock, knownBlocks, newBlocks, workBlock, btBumped, btMined>>
      /\ btPc[f] = "out" /\ btPc'[f] = "idle"
      /\ \A g \in Finder : g # f => btPc'[g] = btPc[g] /\ btWork'[g] = btWork[g]
      /\ IF f = BtMain THEN btStaged' = btWork[BtMain] /\ btTested' = btTested
         ELSE btTested'[BtCurrent] = btWork[BtCurrent].block /\ btStaged' = btStaged
  BY DEF Out, BtGoto, btJobVars, btBlockVars
<1>2. WorksOK'
  BY <1>1 DEF WorksOK, IsWork
<1>3. KnownOK'
  BY <1>1 DEF KnownOK
<1>4. StaysKnown' /\ CountsOnce'
  BY <1>1 DEF StaysKnown, Hashes, CountsOnce
<1>5. NumbersOK'
  BY <1>1 DEF NumbersOK
<1>6. OldIsLower'
  BY <1>1 DEF OldIsLower, WorksOK
<1> QED
  BY <1>2, <1>3, <1>4, <1>5, <1>6

LEMMA BlockInvHolds ==
  ASSUME OnePool
  PROVE  BtSpec => [](BtTypes /\ BlockInv)
<1>1. ASSUME BtInit PROVE BtTypes /\ BlockInv
  <2> USE <1>1, BtAssumption, TwoFinders DEF BtInit
  <2>1. BtTypes
    BY DEF BtTypes, BtItem, BtNothing, Finder
  <2>2. WorksOK /\ KnownOK
    BY FS_EmptySet DEF WorksOK, KnownOK, Job, Block, At, Newest
  <2>3. StaysKnown /\ CountsOnce /\ NumbersOK /\ OldIsLower
    BY DEF StaysKnown, CountsOnce, NumbersOK, OldIsLower, At
  <2> QED
    BY <2>1, <2>2, <2>3 DEF BlockInv
<1>2. BtTypes /\ BlockInv /\ [BtNext]_btVars => (BtTypes /\ BlockInv)'
  <2> SUFFICES ASSUME BtTypes, BlockInv, [BtNext]_btVars PROVE (BtTypes /\ BlockInv)'
    OBVIOUS
  <2>1. BtTypes'
    BY BtTypesStep
  <2>2. CASE UNCHANGED btVars
    <3>1. UNCHANGED <<sworkJob, sworkBlock, knownBlocks, newBlocks, workBlock, btPc, btWork, btBumped,
                      btTested, btStaged, btMined>>
      BY <2>2 DEF btVars, btJobVars, btBlockVars
    <3> QED
      BY <2>1, <3>1
      DEF BlockInv, WorksOK, IsWork, KnownOK, StaysKnown, CountsOnce, NumbersOK, OldIsLower,
          At, Job, Block, Newest, Hashes
  <2> QED
    BY <2>1, <2>2, NotifyKeeps, MakeKeeps, MineKeeps, ExistsKeeps, AddKeeps, CountKeeps, OutKeeps
    DEF BtNext
<1> QED
  BY <1>1, <1>2, PTL DEF BtSpec

(* With one pool no work of a block comes back to life once the pool has   *)
(* tested a later one, for any number of blocks and jobs and any number of *)
(* remembered blocks but none, although work_block is counted by two       *)
(* threads without a lock.                                                 *)
THEOREM OldBlocksStayStale ==
  ASSUME OnePool
  PROVE  BtSpec => []OldBlockIsStale
<1>1. BtTypes /\ BlockInv => OldBlockIsStale
  <2> SUFFICES ASSUME BtTypes, BlockInv, btMined # BtNothing, btMined.block < btTested[btMined.pool]
               PROVE  btMined.number # workBlock
    BY DEF OldBlockIsStale
  <2>1. btMined.pool = BtCurrent
    BY DEF BlockInv, WorksOK
  <2> QED
    BY <2>1 DEF BlockInv, OldIsLower, BtTypes, BtItem
<1> QED
  BY <1>1, BlockInvHolds, PTL

----------------------------------------------------------------------------
(* CurlPool. *)

(* The handles are sound with the types of what they are counted from. *)
CurlInv == CurlTypeOK /\ HandlesAreSound

USE DEF Users, Holders, Waiters, Move, CurlTypeOK

(* The number of the holders when one user moves. *)
LEMMA HolderMoves ==
  ASSUME NEW u \in User, CurlTypeOK, NEW to, Move(u, to)
  PROVE  /\ IsFiniteSet(Holders) /\ Cardinality(Holders) \in Nat
         /\ upc[u] # "holds" /\ to = "holds" => Cardinality(Holders') = Cardinality(Holders) + 1
         /\ upc[u] # "holds" /\ to # "holds" => Holders' = Holders
<1>1. IsFiniteSet(Holders)
  BY CurlAssumption, FS_Subset
<1>2. Cardinality(Holders) \in Nat
  BY <1>1, FS_CardinalityType
<1>3. ASSUME upc[u] # "holds", to = "holds" PROVE Cardinality(Holders') = Cardinality(Holders) + 1
  <2>1. Holders' = Holders \cup {u} /\ u \notin Holders
    BY <1>3
  <2> QED BY <1>1, <2>1, FS_AddElement
<1>4. ASSUME upc[u] # "holds", to # "holds" PROVE Holders' = Holders
  BY <1>4
<1> QED BY <1>1, <1>2, <1>3, <1>4

(* The initial state is one of the invariant. *)
LEMMA CurlInitInv == CurlInit => CurlInv
<1> SUFFICES ASSUME CurlInit PROVE CurlInv
  OBVIOUS
<1>1. Holders = {} /\ Waiters = {}
  BY DEF CurlInit
<1>2. CurlTypeOK
  BY CurlAssumption DEF CurlInit
<1> QED
  BY <1>1, <1>2, FS_EmptySet
  DEF CurlInit, CurlInv, HandlesAreSound, HandlesAccounted, NobodyWaitsBesideAHandle

(* Every step keeps it: a handle moves between the ring and its users, is  *)
(* made below the limit of the one who makes it, or reaped off the ring.   *)
LEMMA CurlStepInv == CurlInv /\ [CurlNext]_curlVars => CurlInv'
<1> SUFFICES ASSUME CurlInv, [CurlNext]_curlVars PROVE CurlInv'
  OBVIOUS
<1> USE CurlAssumption DEF CurlInv, HandlesAreSound, HandlesAccounted, NobodyWaitsBesideAHandle
<1>1. CASE ChangeLimit
  <2>1. Holders' = Holders /\ Waiters' = Waiters
    BY <1>1 DEF ChangeLimit
  <2> QED BY <1>1, <2>1 DEF ChangeLimit
<1>2. CASE Age
  <2>1. Holders' = Holders /\ Waiters' = Waiters
    BY <1>2 DEF Age
  <2> QED BY <1>2, <2>1 DEF Age
<1>3. CASE ReapCurl
  <2>1. Holders' = Holders /\ Waiters' = Waiters
    BY <1>3 DEF ReapCurl
  <2> DEFINE reaped == IF unused < curls THEN unused ELSE curls - 1
  <2>2. /\ reaped \in Nat /\ reaped <= unused /\ reaped < curls
        /\ curls' = curls - reaped /\ ring' = ring - reaped /\ unused' = unused - reaped
    BY <1>3 DEF ReapCurl
  <2> HIDE DEF reaped
  <2>3. Waiters = {} /\ ring > 0
    BY <1>3 DEF ReapCurl
  <2>4. CurlTypeOK'
    BY <1>3, <2>2 DEF ReapCurl
  <2>5. curls' = ring' + Cardinality(Holders')
    <3>1. Cardinality(Holders) \in Nat
      BY FS_Subset, FS_CardinalityType
    <3>2. curls \in Nat /\ ring \in Nat /\ curls = ring + Cardinality(Holders)
      OBVIOUS
    <3>3. Cardinality(Holders') = Cardinality(Holders)
      BY <2>1
    <3> HIDE DEF Holders
    <3> QED BY <2>2, <3>1, <3>2, <3>3
  <2>6. curls' <= 1 \/ \E l \in Limits' : curls' <= l
    <3>1. \A l \in Limits : l \in Nat
      OBVIOUS
    <3>2. Limits' = Limits /\ curls' <= curls
      BY <2>2
    <3>3. curls \in Nat /\ curls' \in Nat
      BY <2>4
    <3> QED BY <3>1, <3>2, <3>3
  <2> QED BY <2>1, <2>3, <2>4, <2>5, <2>6
<1>4. ASSUME NEW u \in User, NeedCurl(u) PROVE CurlInv'
  <2>1. Holders' = Holders /\ Waiters' = Waiters
    BY <1>4 DEF NeedCurl
  <2>2. CurlTypeOK'
    BY <1>4 DEF NeedCurl
  <2> QED BY <1>4, <2>1, <2>2 DEF NeedCurl
<1>5. ASSUME NEW u \in User, TakeFree(u) PROVE CurlInv'
  <2>1. Cardinality(Holders) \in Nat /\ Cardinality(Holders') = Cardinality(Holders) + 1
    BY <1>5, HolderMoves, Move(u, "holds") DEF TakeFree
  <2>2. Waiters = {} /\ Waiters' = {}
    BY <1>5 DEF TakeFree
  <2>3. CurlTypeOK'
    BY <1>5 DEF TakeFree, Less1
  <2> QED BY <1>5, <2>1, <2>2, <2>3 DEF TakeFree
<1>6. ASSUME NEW u \in User, Recruit(u) PROVE CurlInv'
  <2>1. Cardinality(Holders) \in Nat /\ Cardinality(Holders') = Cardinality(Holders) + 1
    BY <1>6, HolderMoves, Move(u, "holds") DEF Recruit
  <2>2. Holders' # {}
    BY <1>6 DEF Recruit
  <2>3. CurlTypeOK'
    BY <1>6 DEF Recruit
  <2>4. curls' <= 1 \/ \E l \in Limits' : curls' <= l
    <3>1. curlLimit[u] \in Nat /\ (curlLimit[u] = 0 \/ curlLimit[u] \in Limits)
      <4>1. curlLimit[u] \in Limits \cup {0}
        OBVIOUS
      <4>2. \A l \in Limits \cup {0} : l \in Nat /\ (l = 0 \/ l \in Limits)
        BY ONLY CurlAssumption
      <4> QED BY ONLY <4>1, <4>2
    <3> QED BY <1>6, <3>1 DEF Recruit
  <2> QED BY <1>6, <2>1, <2>2, <2>3, <2>4 DEF Recruit
<1>7. ASSUME NEW u \in User, WaitForCurl(u) PROVE CurlInv'
  <2>1. Cardinality(Holders) \in Nat /\ Holders' = Holders
    BY <1>7, HolderMoves, Move(u, "asleep") DEF WaitForCurl
  <2>2. Holders # {}
    BY <1>7, <2>1, FS_EmptySet DEF WaitForCurl
  <2>3. CurlTypeOK'
    BY <1>7 DEF WaitForCurl
  <2> QED BY <1>7, <2>1, <2>2, <2>3 DEF WaitForCurl
<1>8. ASSUME NEW u \in User, WakeSpuriously(u) PROVE CurlInv'
  <2>1. Holders' = Holders /\ Waiters' \subseteq Waiters
    BY <1>8 DEF WakeSpuriously
  <2>2. CurlTypeOK'
    BY <1>8 DEF WakeSpuriously
  <2> QED BY <1>8, <2>1, <2>2 DEF WakeSpuriously
<1>9. ASSUME NEW u \in User, PushCurlEntry(u) PROVE CurlInv'
  <2>1. Holders' = Holders \ {u} /\ u \in Holders /\ Waiters' = {}
    BY <1>9 DEF PushCurlEntry
  <2>2. Cardinality(Holders) \in Nat /\ Cardinality(Holders') = Cardinality(Holders) - 1
    <3>1. IsFiniteSet(Holders)
      BY FS_Subset
    <3> QED BY <2>1, <3>1, FS_RemoveElement, FS_CardinalityType
  <2>3. CurlTypeOK'
    BY <1>9 DEF PushCurlEntry
  <2> QED BY <1>9, <2>1, <2>2, <2>3 DEF PushCurlEntry
<1>10. CASE UNCHANGED curlVars
  <2>1. Holders' = Holders /\ Waiters' = Waiters
    BY <1>10 DEF curlVars
  <2> QED BY <1>10, <2>1 DEF curlVars
<1> QED
  BY <1>1, <1>2, <1>3, <1>4, <1>5, <1>6, <1>7, <1>8, <1>9, <1>10 DEF CurlNext, PopCurlEntry

(* The variables have their types: in particular no more handles are old   *)
(* than are in the ring, so that reap_curl takes none that is in use.      *)
THEOREM CurlTypeCorrect == CurlSpec => []CurlTypeOK
<1>1. CurlInv => CurlTypeOK
  BY DEF CurlInv
<1> QED BY <1>1, CurlInitInv, CurlStepInv, PTL DEF CurlSpec

(* No handle is lost, none is made beyond the limit, and nobody waits in   *)
(* pop_curl_entry while a handle is free, for any number of threads that   *)
(* submit and any changes of the limit.                                    *)
THEOREM CurlHandlesAreSound == CurlSpec => []HandlesAreSound
<1>1. CurlInv => HandlesAreSound
  BY DEF CurlInv
<1> QED BY <1>1, CurlInitInv, CurlStepInv, PTL DEF CurlSpec
==============================================================================
