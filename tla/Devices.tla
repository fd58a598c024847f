------------------------------ MODULE Devices ------------------------------
(***************************************************************************)
(* The devices and those who watch them: the miner thread of each GPU, the *)
(* watchdog that declares it SICK when it has not reported for two minutes *)
(* and DEAD after ten, the reinit_gpu thread the watchdog tells through a  *)
(* thread queue, the operator, the schedule, and the hard restart of all   *)
(* mining threads.  They share the flags of cgpu_info and thr_info, which  *)
(* no lock protects, and mining_thr_lock, which the reinit thread reads    *)
(* for as long as initCl takes.  A GPU has one thread here.                *)
(***************************************************************************)
EXTENDS Integers, Sequences, FiniteSets

CONSTANTS
  Gpu,
  Faults,      \* which of "fails", "initfails", "wedges", "overlap" can happen;
               \* the last: a hard restart while the reinit thread restarts a GPU
  MaxQueue,    \* bounds the thread queue of reinit_gpu
  MaxSem,      \* bounds the posts of a thread's semaphore nobody has taken
  MaxEvents    \* bounds the restarts asked for, the pauses and the hard restarts together

VARIABLES
  deven,       \* cgpu->deven = DEV_ENABLED
  status,      \* cgpu->status
  downing,     \* cgpu->shutdown
  miner,       \* where the thread is
  sem, getwork, paused,  \* thr->sem, thr->getwork, thr->pause
  last,        \* how old thr->last is: 0, over 2 minutes, over 10
  ghost,       \* a thread given up in the driver may come back
  verdict,     \* what the watchdog is about to do with the device it has looked at
  gpurQueue,   \* control_thr[gpur_thr_id].q
  reinit,      \* the reinit_gpu thread: where it is, and with which GPU
  leaked,      \* a read lock of mining_thr_lock was never released, with the device
               \* "stuck" or, by the "api", as it was
  hard,        \* the hard restart
  schedPaused,
  events       \* how many so far

flagVars == <<deven, status, downing>>
thrVars == <<miner, sem, getwork, paused, last, ghost>>
lockVars == <<verdict, leaked>>   \* the watchdog has the read lock for its verdict
restVars == <<gpurQueue, reinit, hard, lockVars>>
schedVars == <<schedPaused, events>>
devVars == <<flagVars, thrVars, restVars, schedVars>>

Event == events < MaxEvents /\ events' = events + 1

(* restart_mining_threads has made the threads; some devices are disabled. *)
DevInit ==
  /\ deven \in [Gpu -> BOOLEAN] /\ status = [g \in Gpu |-> "INIT"]
  /\ downing = [g \in Gpu |-> FALSE]
  /\ miner = [g \in Gpu |-> "new"] /\ sem = [g \in Gpu |-> IF deven[g] THEN 1 ELSE 0]
  /\ getwork = [g \in Gpu |-> FALSE] /\ paused = [g \in Gpu |-> FALSE]
  /\ last = [g \in Gpu |-> 0] /\ ghost = [g \in Gpu |-> FALSE]
  /\ verdict = [g \in Gpu |-> "none"]
  /\ gpurQueue = <<>> /\ reinit = [at |-> "pop"] /\ leaked = {}
  /\ hard = "idle" /\ schedPaused = FALSE /\ events = 0

At(g, from) == miner[g] = from
MinerTo(g, to) == miner' = [miner EXCEPT ![g] = to]
Put(f, g, v) == [f EXCEPT ![g] = v]
Live == {"new", "waits", "ready", "in", "hash", "asleep", "hung"}
Holding == reinit.at \in {"init", "wedged"}

-----------------------------------------------------------------------------
(* The miner thread.                                                       *)

(* thread_reportout: the time, then getwork, then the status; the watchdog *)
(* skips the device from the second on.                                    *)
ReportOut(g) ==
  /\ last' = Put(last, g, 0) /\ getwork' = Put(getwork, g, TRUE)
  /\ status' = Put(status, g, "WELL")

MinerStarts(g) ==
  /\ At(g, "new") /\ ReportOut(g) /\ MinerTo(g, "waits")
  /\ UNCHANGED <<deven, downing, sem, paused, ghost, restVars, schedVars>>

(* It leaves hash_sole_work at once when the device is being shut down. *)
FirstPost(g) ==
  /\ At(g, "waits") /\ sem[g] > 0 /\ sem' = Put(sem, g, sem[g] - 1)
  /\ MinerTo(g, IF downing[g] THEN "gone" ELSE "ready")
  /\ deven' = Put(deven, g, deven[g] /\ ~downing[g])
  /\ UNCHANGED <<status, downing, getwork, paused, last, ghost, restVars, schedVars>>

(* Mutant: the time is not reported. *)
MutReportTime(g) ==
  /\ At(g, "ready") /\ MinerTo(g, "in")
  /\ UNCHANGED <<flagVars, sem, getwork, paused, last, ghost, restVars, schedVars>>

(* thread_reportin, when get_work has returned: the time is set first. *)
ReportTime(g) ==
  /\ At(g, "ready") /\ last' = Put(last, g, 0) /\ MinerTo(g, "in")
  /\ UNCHANGED <<flagVars, sem, getwork, paused, ghost, restVars, schedVars>>

ReportIn(g) ==
  /\ At(g, "in") /\ getwork' = Put(getwork, g, FALSE)
  /\ status' = Put(status, g, "WELL") /\ MinerTo(g, "hash")
  /\ UNCHANGED <<deven, downing, sem, paused, last, ghost, restVars, schedVars>>

(* scanhash returns, and mt_disable puts the thread to sleep if need be. *)
Scanned(g) ==
  /\ miner[g] \in {"hash", "hung"} /\ ReportOut(g)
  /\ MinerTo(g, IF paused[g] \/ ~deven[g] THEN "asleep" ELSE "ready")
  /\ UNCHANGED <<deven, downing, sem, paused, ghost, restVars, schedVars>>

(* scanhash fails: the thread ends. *)
ScanFails(g) ==
  /\ "fails" \in Faults /\ At(g, "hash") /\ ReportOut(g) /\ MinerTo(g, "gone")
  /\ deven' = Put(deven, g, FALSE) /\ downing' = Put(downing, g, TRUE)
  /\ UNCHANGED <<sem, paused, ghost, restVars, schedVars>>

Hangs(g) ==
  /\ At(g, "hash") /\ MinerTo(g, "hung")
  /\ UNCHANGED <<flagVars, sem, getwork, paused, last, ghost, restVars, schedVars>>

Reenabled(g) ==
  /\ At(g, "asleep") /\ sem[g] > 0 /\ sem' = Put(sem, g, sem[g] - 1)
  /\ MinerTo(g, "ready")
  /\ UNCHANGED <<flagVars, getwork, paused, last, ghost, restVars, schedVars>>

(* A cancelled thread comes back from the driver: it reports, and ends. *)
GhostReports(g) ==
  /\ ghost[g] /\ ghost' = Put(ghost, g, FALSE) /\ ReportOut(g)
  /\ UNCHANGED <<deven, downing, miner, sem, paused, restVars, schedVars>>

(* Time passes for a thread that does not report.  One that has just been  *)
(* created does, within two minutes.                                       *)
LastAges(g) ==
  /\ miner[g] \notin {"new", "in", "hash"} /\ last[g] < 2 /\ last' = Put(last, g, last[g] + 1)
  /\ UNCHANGED <<flagVars, miner, sem, getwork, paused, ghost, restVars, schedVars>>

-----------------------------------------------------------------------------
(* The watchdog, at each device.  opt_restart is set and no ADL activity   *)
(* is seen.  That a minute must pass between two attempts is left out.     *)

(* It looks at getwork, status and last, *)
Judge(g) ==
  /\ deven[g] /\ ~getwork[g] /\ Len(gpurQueue) < MaxQueue /\ hard # "write"
  /\ \A h \in Gpu : verdict[h] = "none"
  /\ \E v \in {"well", "sick", "dead", "again"} :
       /\ verdict' = Put(verdict, g, v)
       /\ \/ v = "well" /\ status[g] # "WELL" /\ last[g] = 0
          \/ v = "sick" /\ status[g] = "WELL" /\ last[g] > 0
          \/ v = "dead" /\ status[g] = "SICK" /\ last[g] = 2
          \/ v = "again" /\ <<status[g], last[g]>> \in {<<"SICK", 1>>, <<"DEAD", 1>>, <<"DEAD", 2>>}
  /\ UNCHANGED <<flagVars, thrVars, gpurQueue, reinit, leaked, hard, schedVars>>

(* and acts; by then the thread may have come back. *)
Act(g) ==
  /\ verdict[g] # "none" /\ verdict' = Put(verdict, g, "none")
  /\ status' = Put(status, g, CASE verdict[g] = "well" -> "WELL" [] verdict[g] = "sick" -> "SICK"
                                [] verdict[g] = "dead" -> "DEAD" [] OTHER -> status[g])
  /\ gpurQueue' = IF verdict[g] \in {"sick", "again"} THEN Append(gpurQueue, g) ELSE gpurQueue
  /\ UNCHANGED <<deven, downing, thrVars, reinit, leaked, hard, schedVars>>

(* The hours of the schedule: it stops all threads, and starts those of the *)
(* devices that are not disabled.                                           *)
SchedStops ==
  /\ ~schedPaused /\ Event /\ schedPaused' = TRUE
  /\ paused' = [g \in Gpu |-> TRUE]
  /\ UNCHANGED <<flagVars, miner, sem, getwork, last, ghost, restVars>>

SchedStarts ==
  /\ schedPaused /\ \A g \in Gpu : sem[g] < MaxSem
  /\ schedPaused' = FALSE
  /\ paused' = [g \in Gpu |-> paused[g] /\ ~deven[g]]
  /\ sem' = [g \in Gpu |-> IF deven[g] THEN sem[g] + 1 ELSE sem[g]]
  /\ UNCHANGED <<flagVars, miner, getwork, last, ghost, restVars, events>>

-----------------------------------------------------------------------------
(* reinit_gpu.                                                             *)

(* tq_pop, and the first section: the thread of the GPU is cancelled and   *)
(* joined.  One that is in the driver is given up after 5 seconds.  One    *)
(* that was created has started by then.                                   *)
KillMiner ==
  /\ reinit.at = "pop" /\ gpurQueue # <<>> /\ hard # "write"
  /\ "overlap" \in Faults \/ hard = "idle"
  /\ LET g == Head(gpurQueue) IN
       /\ ~At(g, "new")
       /\ gpurQueue' = Tail(gpurQueue) /\ reinit' = [at |-> "killed", gpu |-> g]
       /\ MinerTo(g, "none") /\ ghost' = Put(ghost, g, ghost[g] \/ At(g, "hung"))
       /\ IF At(g, "hash") THEN ReportOut(g) ELSE UNCHANGED <<last, getwork, status>>
  /\ UNCHANGED <<deven, downing, sem, paused, lockVars, hard, schedVars>>

(* The second section reads the table of the threads again; no lock is     *)
(* held in between.                                                        *)
EnterInit ==
  /\ reinit.at = "killed" /\ hard # "write" /\ reinit' = [reinit EXCEPT !.at = "init"]
  /\ UNCHANGED <<flagVars, thrVars, gpurQueue, lockVars, hard, schedVars>>

InitOk ==
  /\ reinit.at = "init" /\ reinit' = [reinit EXCEPT !.at = "post"]
  /\ MinerTo(reinit.gpu, "new") /\ sem' = Put(sem, reinit.gpu, 0)
  /\ UNCHANGED <<flagVars, getwork, paused, last, ghost, gpurQueue, lockVars, hard, schedVars>>

(* goto select_cgpu, with the read lock. *)
InitFails ==
  /\ "initfails" \in Faults /\ reinit.at = "init"
  /\ reinit' = [at |-> "pop"] /\ leaked' = leaked \cup {"stuck"}
  /\ UNCHANGED <<flagVars, thrVars, gpurQueue, hard, schedVars, verdict>>

InitWedges ==
  /\ "wedges" \in Faults /\ reinit.at = "init" /\ reinit' = [reinit EXCEPT !.at = "wedged"]
  /\ UNCHANGED <<flagVars, thrVars, gpurQueue, lockVars, hard, schedVars>>

(* Mutant: the restarted thread is never told to go on. *)
MutPostMiner ==
  /\ reinit.at = "post" /\ reinit' = [at |-> "pop"]
  /\ UNCHANGED <<flagVars, thrVars, gpurQueue, lockVars, hard, schedVars>>

PostMiner ==
  /\ reinit.at = "post" /\ hard # "write" /\ reinit' = [at |-> "pop"]
  /\ sem' = Put(sem, reinit.gpu, sem[reinit.gpu] + 1)
  /\ UNCHANGED <<flagVars, miner, getwork, paused, last, ghost, gpurQueue, lockVars, hard, schedVars>>

-----------------------------------------------------------------------------
(* The operator.                                                           *)

(* gpuenable; the console sets deven before it looks at the status.  Both  *)
(* go without unlocking when the device is not WELL.                       *)
GpuEnable(g, console) ==
  /\ ~deven[g] /\ sem[g] < MaxSem /\ hard # "write"
  /\ \/ /\ status[g] = "WELL" /\ deven' = Put(deven, g, TRUE)
        /\ sem' = Put(sem, g, sem[g] + 1) /\ UNCHANGED leaked
     \/ /\ status[g] # "WELL" /\ leaked' = leaked \cup {IF console THEN "stuck" ELSE "api"}
        /\ deven' = Put(deven, g, console) /\ UNCHANGED sem
  /\ UNCHANGED <<status, downing, miner, getwork, paused, last, ghost, gpurQueue, reinit, hard, schedVars, verdict>>

GpuDisable(g) ==
  /\ deven[g] /\ deven' = Put(deven, g, FALSE)
  /\ UNCHANGED <<status, downing, thrVars, restVars, schedVars>>

GpuRestart(g) ==
  /\ Len(gpurQueue) < MaxQueue /\ gpurQueue' = Append(gpurQueue, g)
  /\ Event
  /\ UNCHANGED <<flagVars, thrVars, reinit, lockVars, hard, schedPaused>>

-----------------------------------------------------------------------------
(* restart_mining_threads, from the end of a switch of algorithms.         *)

HardBegins ==
  /\ hard = "idle" /\ Event
  /\ "overlap" \in Faults \/ reinit.at \in {"pop", "wedged"}
  /\ hard' = "kill" /\ downing' = [g \in Gpu |-> TRUE]
  /\ UNCHANGED <<deven, status, thrVars, gpurQueue, reinit, lockVars, schedPaused>>

(* kill_mining joins every thread, for as long as it takes.  A thread that *)
(* sees the flag before it is cancelled leaves its device disabled.        *)
KillMining ==
  /\ hard = "kill" /\ \A g \in Gpu : ~At(g, "hung")
  /\ \E seen \in SUBSET {g \in Gpu : miner[g] \in {"ready", "hash"}} :
       deven' = [g \in Gpu |-> deven[g] /\ g \notin seen]
  /\ miner' = [g \in Gpu |-> "none"] /\ downing' = [g \in Gpu |-> FALSE]
  /\ hard' = "lock"
  /\ UNCHANGED <<status, sem, getwork, paused, last, ghost, gpurQueue, reinit, lockVars, schedVars>>

WriteLock ==
  /\ hard = "lock" /\ leaked = {} /\ ~Holding /\ \A g \in Gpu : verdict[g] = "none"
  /\ hard' = "write"
  /\ UNCHANGED <<flagVars, thrVars, gpurQueue, reinit, lockVars, schedVars>>

(* Mutant: the write lock is not released. *)
MutStartThreads ==
  /\ hard = "write" /\ UNCHANGED hard
  /\ status' = [g \in Gpu |-> "INIT"] /\ miner' = [g \in Gpu |-> "new"]
  /\ UNCHANGED <<deven, downing, sem, getwork, paused, last, ghost, gpurQueue, reinit, lockVars, schedVars>>

(* The new thr_infos, and their threads; those given up have no thr_info. *)
StartThreads ==
  /\ hard = "write" /\ hard' = "idle"
  /\ status' = [g \in Gpu |-> "INIT"] /\ miner' = [g \in Gpu |-> "new"]
  /\ sem' = [g \in Gpu |-> IF deven[g] THEN 1 ELSE 0]
  /\ getwork' = [g \in Gpu |-> FALSE] /\ paused' = [g \in Gpu |-> FALSE]
  /\ last' = [g \in Gpu |-> 0] /\ ghost' = [g \in Gpu |-> FALSE]
  /\ UNCHANGED <<deven, downing, gpurQueue, reinit, lockVars, schedVars>>

-----------------------------------------------------------------------------
MinerStep(g) ==
  \/ MinerStarts(g) \/ FirstPost(g) \/ ReportTime(g) \/ ReportIn(g) \/ Reenabled(g)
  \/ At(g, "hash") /\ Scanned(g)
ReinitStep == KillMiner \/ EnterInit \/ InitOk \/ PostMiner
HardStep == KillMining \/ WriteLock \/ StartThreads

DevNext ==
  \/ \E g \in Gpu :
       \/ MinerStarts(g) \/ FirstPost(g) \/ ReportTime(g) \/ ReportIn(g) \/ Reenabled(g)
       \/ Scanned(g) \/ ScanFails(g) \/ Hangs(g) \/ GhostReports(g) \/ LastAges(g)
       \/ Judge(g) \/ Act(g) \/ GpuDisable(g) \/ GpuRestart(g) \/ \E console \in BOOLEAN : GpuEnable(g, console)
  \/ SchedStops \/ SchedStarts
  \/ KillMiner \/ EnterInit \/ InitOk \/ InitFails \/ InitWedges \/ PostMiner
  \/ HardBegins \/ KillMining \/ WriteLock \/ StartThreads

DevFair ==
  /\ \A g \in Gpu : WF_devVars(MinerStep(g)) /\ WF_devVars(LastAges(g))
                  /\ SF_devVars(Judge(g)) /\ WF_devVars(Act(g))
  /\ WF_devVars(ReinitStep) /\ SF_devVars(HardStep)

DevSpec == DevInit /\ [][DevNext]_devVars /\ DevFair

-----------------------------------------------------------------------------
(* The watchdog judges a device SICK only when its thread hangs in the     *)
(* driver or is being replaced: not one that waits for work or sleeps,     *)
(* however long, and not one that has just been given work.  It reads what *)
(* the thread writes with no lock.                                         *)
SickIsHung == [][\A g \in Gpu :
  verdict[g] # "sick" /\ verdict'[g] = "sick" => miner[g] \in {"hung", "none", "new"}]_devVars

(* A thr_info has one thread: nobody starts one beside another.            *)
OneMiner == [][\A g \in Gpu :
  miner[g] # "new" /\ miner'[g] = "new" => miner[g] \notin Live]_devVars

(* A device the operator has not disabled, nor the schedule paused, hashes *)
(* sooner or later: its thread is told to go on, or it is found to hang    *)
(* and replaced.  Not while the reinit thread is wedged or threads are     *)
(* being restarted, nor when the device is shut down, initCl has failed,   *)
(* the console has enabled a device that was not WELL, or a thread that    *)
(* was given up has come back and said that the device waits for work.     *)
Wanted(g) == deven[g] /\ ~paused[g] /\ ~downing[g]
Masked(g) == At(g, "hung") /\ getwork[g]
DeviceMines == \A g \in Gpu :
  Wanted(g) ~> (At(g, "hash") \/ ~Wanted(g) \/ reinit.at = "wedged" \/ leaked \ {"api"} # {} \/ Masked(g) \/ hard # "idle")

(* A hard restart gets mining_thr_lock and starts the new threads, unless  *)
(* a read lock was lost, initCl is stuck with one, or a thread hangs.      *)
RestartGetsIn ==
  (hard # "idle") ~> (hard = "idle" \/ leaked # {} \/ Holding \/ \E g \in Gpu : At(g, "hung"))

-----------------------------------------------------------------------------
(* What does not hold.                                                     *)

(* reinit_gpu: a wedged GPU leaves the thread "unable to harm other GPUs". *)
WedgedGpuIsHarmless == (hard # "idle") ~> (hard = "idle" \/ leaked # {} \/ \E g \in Gpu : At(g, "hung"))

(* A device that is enabled mines, or its operator disables it.            *)
EnabledDeviceMines == \A g \in Gpu :
  deven[g] ~> (At(g, "hash") \/ ~deven[g] \/ schedPaused \/ reinit.at = "wedged" \/ hard # "idle")
=============================================================================
