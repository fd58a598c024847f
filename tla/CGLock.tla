------------------------------- MODULE CGLock -------------------------------
(***************************************************************************)
(* cglock (miner.h): a readers-writer lock with an intermediate mode, made *)
(* of a mutex and a pthread rwlock.  A thread takes the mutex first, the   *)
(* rwlock second, and a reader gives the mutex back at once; every         *)
(* function is one thread's calls of the two locks, one step per call.     *)
(*                                                                         *)
(* pc[t] says where a thread stands between two of these calls:            *)
(*   out    holds nothing                                                  *)
(*   rlock  has the mutex, will rd_lock          (_cg_rlock)               *)
(*   rdown  has the mutex and a read lock, will unlock the mutex           *)
(*   read   has a read lock                                                *)
(*   inter  has the mutex                        (_cg_ilock, _cg_dwilock)  *)
(*   wlock  has the mutex, will wr_lock          (_cg_wlock, _cg_ulock)    *)
(*   write  has the mutex and the write lock                               *)
(*   down   has the mutex, will rd_lock          (_cg_dwlock, _cg_dlock)   *)
(*   wdown  has the mutex, will unlock it        (_cg_wunlock)             *)
(*   ruw    holds nothing, will call _cg_wlock   (_cg_ruwlock)             *)
(***************************************************************************)
EXTENDS Naturals

CONSTANTS Thread, NoThread
ASSUME NoThreadAssumption == NoThread \notin Thread

VARIABLES mutex,     \* lock->mutex: its owner, or NoThread
          readers,   \* lock->rwlock: the threads with a read lock
          writer,    \*               the thread with the write lock, or NoThread
          pc

vars == <<mutex, readers, writer, pc>>

PC == {"out", "rlock", "rdown", "read", "inter", "wlock", "write", "down", "wdown", "ruw"}

Init ==
  /\ mutex = NoThread
  /\ readers = {}
  /\ writer = NoThread
  /\ pc = [t \in Thread |-> "out"]

----------------------------------------------------------------------------
(* The calls of the two locks.                                             *)
Goto(t, from, to) == pc[t] = from /\ pc' = [pc EXCEPT ![t] = to]
MutexLock == mutex = NoThread
RdLock(t) == writer = NoThread /\ readers' = readers \cup {t} /\ UNCHANGED <<mutex, writer>>
WrLock(t) == writer = NoThread /\ readers = {} /\ writer' = t /\ UNCHANGED <<mutex, readers>>
MutexUnlock == mutex' = NoThread /\ UNCHANGED <<readers, writer>>
WrUnlock == writer' = NoThread /\ UNCHANGED <<mutex, readers>>
RdUnlock(t) == readers' = readers \ {t} /\ UNCHANGED <<mutex, writer>>

TakeMutex(t, from, to) ==
  MutexLock /\ mutex' = t /\ Goto(t, from, to) /\ UNCHANGED <<readers, writer>>

(* Mutant: a reader does not queue on the mutex. *)
MutRLock(t) ==
  \/ RdLock(t) /\ Goto(t, "out", "read")
  \/ MutexUnlock /\ Goto(t, "rdown", "read")

RLock(t) ==
  \/ TakeMutex(t, "out", "rlock")
  \/ RdLock(t) /\ Goto(t, "rlock", "rdown")
  \/ MutexUnlock /\ Goto(t, "rdown", "read")

ILock(t) == TakeMutex(t, "out", "inter")
(* Mutant: the holder of the mutex does not wait for the readers. *)
MutULock(t) == Goto(t, "inter", "write") /\ writer' = t /\ UNCHANGED <<mutex, readers>>

ULock(t) == Goto(t, "inter", "wlock") /\ UNCHANGED <<mutex, readers, writer>>
WLock(t) ==
  \/ TakeMutex(t, "out", "wlock")
  \/ WrLock(t) /\ Goto(t, "wlock", "write")

(* Mutant: the mutex is released with the write lock, before the read lock. *)
MutDWLock(t) ==
  /\ Goto(t, "write", "ruw")
  /\ writer' = NoThread /\ mutex' = NoThread /\ UNCHANGED readers

DWLock(t) == WrUnlock /\ Goto(t, "write", "down")
DWILock(t) == WrUnlock /\ Goto(t, "write", "inter")
DLock(t) ==
  \/ Goto(t, "inter", "down") /\ UNCHANGED <<mutex, readers, writer>>
  \/ RdLock(t) /\ Goto(t, "down", "rdown")

RUnlock(t) == RdUnlock(t) /\ Goto(t, "read", "out")
RUWLock(t) ==
  \/ RdUnlock(t) /\ Goto(t, "read", "ruw")
  \/ TakeMutex(t, "ruw", "wlock")

WUnlock(t) ==
  \/ WrUnlock /\ Goto(t, "write", "wdown")
  \/ MutexUnlock /\ Goto(t, "wdown", "out")

Step(t) ==
  \/ RLock(t) \/ ILock(t) \/ ULock(t) \/ WLock(t) \/ DWLock(t) \/ DWILock(t) \/ DLock(t)
  \/ RUnlock(t) \/ RUWLock(t) \/ WUnlock(t)

Next == \E t \in Thread : Step(t)
Spec == Init /\ [][Next]_vars

(* A thread that has started a call, or holds the lock, goes on: it does   *)
(* not sleep forever inside (the code never waits for anything under a     *)
(* cglock), but nothing makes it take the lock.                            *)
Fairness == \A t \in Thread : WF_vars(pc[t] # "out" /\ Step(t))
FairSpec == Spec /\ Fairness

----------------------------------------------------------------------------
(* Type correctness: the two locks name threads, and every thread is at    *)
(* one of the points above.                                                *)
TypeOK ==
  /\ mutex \in Thread \cup {NoThread}
  /\ readers \subseteq Thread
  /\ writer \in Thread \cup {NoThread}
  /\ pc \in [Thread -> PC]

(* The mode a thread has the lock in.  Waiting for the write lock with the *)
(* mutex in hand is the intermediate mode; waiting for a read lock, when   *)
(* none was held before, is none.                                          *)
ModeAt(l) ==
  IF l = "write" THEN "write"
  ELSE IF l \in {"inter", "wlock", "down", "wdown"} THEN "inter"
  ELSE IF l \in {"rdown", "read"} THEN "read" ELSE "none"
Hold == [t \in Thread |-> ModeAt(pc[t])]

(* Writers exclude everyone, intermediate holders each other; and in       *)
(* cg_dwlock and cg_dwilock nobody writes between the writing and the      *)
(* reading: the mutex is kept.  (The refinement below.)                    *)
Exclusion ==
  \A t, u \in Thread : t # u =>
    /\ Hold[t] = "write" => Hold[u] = "none"
    /\ Hold[t] = "inter" => Hold[u] \in {"none", "read"}

(* Every step changes the modes as LockModes allows: in particular         *)
(* cg_dwlock turns the writer into a reader with no writer in between.     *)
Modes == INSTANCE LockModes WITH hold <- Hold
ModesSpec == Modes!Spec

(* A thread that waits for the write lock gets it, however many readers    *)
(* come and go: new readers queue on the mutex the writer holds.           *)
WriterGetsIn == \A t \in Thread : pc[t] = "wlock" ~> pc[t] = "write"
=============================================================================
