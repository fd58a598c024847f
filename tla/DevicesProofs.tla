--------------------------- MODULE DevicesProofs ----------------------------
(* The watchdog of Devices takes no waiting thread for one that hangs, for *)
(* any number of GPUs, whatever faults there are and however they come.    *)
EXTENDS Devices, TLAPS

(* Where a thread is that has said it waits for work, or sleeps. *)
Idle == {"waits", "ready", "in", "asleep", "gone"}

DevTypes ==
  /\ miner \in [Gpu -> Live \cup {"gone", "none"}]
  /\ getwork \in [Gpu -> BOOLEAN]
  /\ last \in [Gpu -> 0..2]

(* The order of the two stores in thread_reportin and thread_reportout:    *)
(* getwork is set as long as the thread is not in the driver, and the time *)
(* is fresh by the time getwork is cleared.                                *)
Reported == \A g \in Gpu :
  /\ miner[g] \in Idle => getwork[g]
  /\ miner[g] \in {"in", "hash"} => last[g] = 0

DevInv == DevTypes /\ Reported

USE DEF At, MinerTo, Put, Live, Idle, DevTypes, Reported, DevInv

LEMMA DevInitInv == DevInit => DevInv
BY DEF DevInit

(* The steps of the mining threads. *)
LEMMA MinerInv ==
  ASSUME DevInv, NEW g \in Gpu,
         \/ MinerStarts(g) \/ FirstPost(g) \/ ReportTime(g) \/ ReportIn(g) \/ Reenabled(g)
         \/ Scanned(g) \/ ScanFails(g) \/ Hangs(g) \/ GhostReports(g) \/ LastAges(g)
  PROVE  DevInv'
<1> USE DEF restVars, lockVars, schedVars, flagVars
<1>1. CASE MinerStarts(g)
  BY <1>1 DEF MinerStarts, ReportOut
<1>2. CASE FirstPost(g)
  BY <1>2 DEF FirstPost
<1>3. CASE ReportTime(g)
  BY <1>3 DEF ReportTime
<1>4. CASE ReportIn(g)
  BY <1>4 DEF ReportIn
<1>5. CASE Reenabled(g)
  BY <1>5 DEF Reenabled
<1>6. CASE Scanned(g)
  BY <1>6 DEF Scanned, ReportOut
<1>7. CASE ScanFails(g)
  BY <1>7 DEF ScanFails, ReportOut
<1>8. CASE Hangs(g)
  BY <1>8 DEF Hangs
<1>9. CASE GhostReports(g)
  BY <1>9 DEF GhostReports, ReportOut
<1>10. CASE LastAges(g)
  BY <1>10 DEF LastAges
<1> QED BY <1>1, <1>2, <1>3, <1>4, <1>5, <1>6, <1>7, <1>8, <1>9, <1>10

(* The steps of the watchdog, the operator and the schedule. *)
LEMMA OthersInv ==
  ASSUME DevInv,
         \/ \E g \in Gpu : Judge(g) \/ Act(g) \/ GpuDisable(g) \/ GpuRestart(g) \/ \E console \in BOOLEAN : GpuEnable(g, console)
         \/ SchedStops \/ SchedStarts
  PROVE  DevInv'
<1> USE DEF restVars, lockVars, schedVars, flagVars, thrVars
<1>1. ASSUME NEW g \in Gpu, Judge(g) \/ Act(g) PROVE DevInv'
  BY <1>1 DEF Judge, Act
<1>2. ASSUME NEW g \in Gpu, GpuDisable(g) PROVE DevInv'
  BY <1>2 DEF GpuDisable
<1>3. ASSUME NEW g \in Gpu, GpuRestart(g) PROVE DevInv'
  BY <1>3 DEF GpuRestart
<1>4. ASSUME NEW g \in Gpu, NEW console \in BOOLEAN, GpuEnable(g, console) PROVE DevInv'
  BY <1>4 DEF GpuEnable
<1>5. CASE SchedStops
  BY <1>5 DEF SchedStops
<1>6. CASE SchedStarts
  BY <1>6 DEF SchedStarts
<1> QED BY <1>1, <1>2, <1>3, <1>4, <1>5, <1>6

(* The steps of the two restarts. *)
LEMMA RestartInv ==
  ASSUME DevInv,
         \/ KillMiner \/ EnterInit \/ InitOk \/ InitFails \/ InitWedges \/ PostMiner
         \/ HardBegins \/ KillMining \/ WriteLock \/ StartThreads
  PROVE  DevInv'
<1> USE DEF restVars, lockVars, schedVars, flagVars, thrVars
<1>1. CASE KillMiner
  <2> DEFINE g == Head(gpurQueue)
  <2>1. miner' = [miner EXCEPT ![g] = "none"]
    BY <1>1 DEF KillMiner
  <2>2. \/ ReportOut(g)
        \/ UNCHANGED <<last, getwork>>
    BY <1>1 DEF KillMiner
  <2> HIDE DEF g
  <2>3. \A h \in Gpu : miner'[h] = miner[h] \/ miner'[h] = "none"
    BY <2>1
  <2>4. miner' \in [Gpu -> Live \cup {"gone", "none"}]
    BY <2>1
  <2>5. CASE ReportOut(g)
    <3>1. DevTypes'
      <4>1. getwork' \in [Gpu -> BOOLEAN]
        BY <2>5, Zenon DEF ReportOut
      <4>2. last' \in [Gpu -> 0..2]
        <5>1. last' = [last EXCEPT ![g] = 0] /\ 0 \in 0..2
          BY <2>5 DEF ReportOut
        <5> QED BY <5>1, Zenon
      <4> QED BY <2>4, <4>1, <4>2
    <3>2. \A h \in Gpu : (getwork[h] => getwork'[h]) /\ (last[h] = 0 => last'[h] = 0)
      BY <2>5 DEF ReportOut
    <3>3. Reported'
      BY <2>3, <3>2
    <3> QED BY <3>1, <3>3
  <2>6. CASE UNCHANGED <<last, getwork>>
    BY <2>3, <2>4, <2>6
  <2> QED BY <2>2, <2>5, <2>6
<1>2. CASE EnterInit
  BY <1>2 DEF EnterInit
<1>3. CASE InitOk
  BY <1>3 DEF InitOk
<1>4. CASE InitFails
  BY <1>4 DEF InitFails
<1>5. CASE InitWedges
  BY <1>5 DEF InitWedges
<1>6. CASE PostMiner
  BY <1>6 DEF PostMiner
<1>7. CASE HardBegins
  BY <1>7 DEF HardBegins
<1>8. CASE KillMining
  BY <1>8 DEF KillMining
<1>9. CASE WriteLock
  BY <1>9 DEF WriteLock
<1>10. CASE StartThreads
  BY <1>10 DEF StartThreads
<1> QED BY <1>1, <1>2, <1>3, <1>4, <1>5, <1>6, <1>7, <1>8, <1>9, <1>10

LEMMA DevStepInv == DevInv /\ [DevNext]_devVars => DevInv'
<1> SUFFICES ASSUME DevInv, [DevNext]_devVars PROVE DevInv'
  OBVIOUS
<1>1. CASE UNCHANGED devVars
  BY <1>1 DEF devVars, flagVars, thrVars
<1>2. CASE DevNext
  BY <1>2, MinerInv, OthersInv, RestartInv DEF DevNext
<1> QED BY <1>1, <1>2

(* A verdict comes from Judge alone, which sees a thread that is not       *)
(* waiting and whose time is old.                                          *)
LEMMA SickStep ==
  ASSUME DevInv, [DevNext]_devVars, NEW h \in Gpu, verdict[h] # "sick", verdict'[h] = "sick"
  PROVE  miner[h] \in {"hung", "none", "new"}
<1> USE DEF restVars, lockVars, schedVars
<1>1. ASSUME NEW g \in Gpu, Judge(g) PROVE miner[h] \in {"hung", "none", "new"}
  <2>1. g = h /\ ~getwork[h] /\ last[h] > 0
    BY <1>1 DEF Judge
  <2> QED BY <2>1
<1>2. ASSUME NEW g \in Gpu, Act(g) PROVE FALSE
  BY <1>2 DEF Act
<1>3. CASE UNCHANGED verdict
  BY <1>3
<1>4. CASE \E g \in Gpu :
             \/ MinerStarts(g) \/ FirstPost(g) \/ ReportTime(g) \/ ReportIn(g) \/ Reenabled(g)
             \/ Scanned(g) \/ ScanFails(g) \/ Hangs(g) \/ GhostReports(g) \/ LastAges(g)
  BY <1>3, <1>4 DEF MinerStarts, FirstPost, ReportTime, ReportIn, Reenabled,
                    Scanned, ScanFails, Hangs, GhostReports, LastAges
<1>5. CASE \E g \in Gpu : GpuDisable(g) \/ GpuRestart(g) \/ \E console \in BOOLEAN : GpuEnable(g, console)
  BY <1>3, <1>5 DEF GpuDisable, GpuRestart, GpuEnable
<1>6. CASE SchedStops \/ SchedStarts
  BY <1>3, <1>6 DEF SchedStops, SchedStarts
<1>7. CASE KillMiner \/ EnterInit \/ InitOk \/ InitFails \/ InitWedges \/ PostMiner
  BY <1>3, <1>7 DEF KillMiner, EnterInit, InitOk, InitFails, InitWedges, PostMiner
<1>8. CASE HardBegins \/ KillMining \/ WriteLock \/ StartThreads
  BY <1>3, <1>8 DEF HardBegins, KillMining, WriteLock, StartThreads
<1>9. CASE UNCHANGED devVars
  BY <1>3, <1>9 DEF devVars
<1> QED BY <1>1, <1>2, <1>4, <1>5, <1>6, <1>7, <1>8, <1>9 DEF DevNext

(* The watchdog judges no device SICK whose thread waits for work,       *)
(* sleeps or has just been given work, although it reads getwork and last  *)
(* while that thread writes them: the stores are in the right order.       *)
THEOREM OnlyHungIsSick == DevSpec => SickIsHung
<1>1. DevInv /\ [DevNext]_devVars =>
        [\A g \in Gpu : verdict[g] # "sick" /\ verdict'[g] = "sick"
                          => miner[g] \in {"hung", "none", "new"}]_devVars
  BY SickStep
<1> QED BY <1>1, DevInitInv, DevStepInv, PTL DEF DevSpec, SickIsHung
=============================================================================
