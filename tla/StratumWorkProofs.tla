------------------------- MODULE StratumWorkProofs -------------------------
(* What StratumWork promises of every work that is mined, for all bounds.  *)
EXTENDS StratumWork, TLAPS

Line ==
  [type : {"notify"}, job : Job, clean : BOOLEAN] \cup [type : {"diff"}, diff : Diff]
    \cup [type : {"ext"}, ext : Ext] \cup [type : {"header"}, clean : BOOLEAN]
    \cup [type : {"reconnect", "malformed"}]

Types ==
  /\ open \in BOOLEAN /\ active \in BOOLEAN /\ notify \in BOOLEAN /\ failed \in BOOLEAN
  /\ session \in Nat /\ lines \in Seq(Line)
  /\ ext \in Ext /\ diff \in Diff
  /\ jobs \in Seq([ext : Ext, diff : Diff, session : Nat, id : Job]) /\ Len(jobs) <= MaxJob
  /\ \A j \in 1..Len(jobs) : jobs[j].session <= session /\ (UniqueIds => jobs[j].id = j)
  /\ nonce1 \in Ext \cup {None} /\ coin \in Ext \cup {None}
  /\ nextDiff \in Diff \cup {0} /\ nonce2 \in Nat
  /\ swork \in [job : Job \cup {None}, diff : Diff, clean : BOOLEAN]
  /\ rpc \in {"read", "parse", "gen", "clear", "restart", "connect", "activate", "reset", "auth", "refused"}
  /\ rpc = "parse" => line \in Line

(* A connection that is suspended is closed and has nothing left to read,  *)
(* and unless a send has failed the receiver is on its way to a new one.   *)
(* A session is without an extranonce only until the next one.             *)
Connection ==
  /\ ~active /\ rpc # "activate" => lines = <<>> /\ ~open
  /\ rpc \in {"connect", "activate"} => ~active
  /\ nonce1 = None => rpc = "connect"
  /\ ~active /\ ~failed => ~notify /\ rpc \notin {"parse", "gen", "reset", "auth"}

(* What stratum_rthread has heard from the pool: the extranonce, the       *)
(* difficulty (which a new connection has not reset yet) and the job.      *)
State == [ext : Ext \cup {None}, diff : Diff, job : Nat]
Knows == [ext |-> nonce1,
          diff |-> IF rpc \in {"activate", "reset"} \/ nextDiff = 0 THEN 1 ELSE nextDiff,
          job |-> IF swork.job = None THEN 0 ELSE swork.job]
Hears(s, l) == [ext |-> IF l.type = "ext" THEN l.ext ELSE s.ext,
                diff |-> IF l.type = "diff" THEN l.diff ELSE s.diff,
                job |-> IF l.type = "notify" THEN l.job ELSE IF l.type = "header" THEN 0 ELSE s.job]

(* No job is sent again as a clean one. *)
NoneResent == Resends \subseteq {FALSE}

(* A job is read in the state it was sent in, and after the jobs before;   *)
(* an extranonce is one that was not heard before.                         *)
Fits(s, l) ==
  /\ l.type = "notify" =>
       /\ l.job \in 1..Len(jobs)
       /\ jobs[l.job] = [ext |-> s.ext, diff |-> s.diff, session |-> session, id |-> jobs[l.job].id]
       /\ l.job >= s.job /\ (l.clean /\ NoneResent => l.job > s.job)
  /\ l.type = "ext" => s.ext < l.ext /\ l.ext <= ext

(* Reading all that is on its way takes the thread from what it knows to   *)
(* what is in force at the pool.                                           *)
Replays(h) ==
  /\ h[0] = IF rpc = "parse" THEN Hears(Knows, line) ELSE Knows
  /\ \A i \in 1..Len(lines) : Fits(h[i - 1], lines[i]) /\ h[i] = Hears(h[i - 1], lines[i])
  /\ open => h[Len(lines)].ext = ext /\ h[Len(lines)].diff = diff /\ h[Len(lines)].job <= Len(jobs)
Socket ==
  /\ rpc = "parse" => Fits(Knows, line)
  /\ \E h \in [0..Len(lines) -> State] : Replays(h)

(* The job in swork, and a work, are as the pool has sent that job, and    *)
(* the extranonces they are made of were given out one after the other.    *)
JobSound ==
  /\ notify \/ (mpc = "gen" /\ ~locked) => swork.job # None
  /\ nonce1 # None => nonce1 <= ext
  /\ active /\ notify /\ ~failed => jobs[swork.job].session = session
  /\ swork.job # None =>
       /\ swork.job \in 1..Len(jobs) /\ coin = jobs[swork.job].ext
       /\ coin \in Ext /\ coin <= ext /\ (nonce1 # None => coin <= nonce1)
       /\ jobs[swork.job].session = session =>
            /\ rpc \notin {"activate", "reset"} /\ swork.diff >= jobs[swork.job].diff
            /\ nextDiff = 0 => jobs[swork.job].diff = 1
Sound(w) ==
  /\ w.job \in 1..Len(jobs) /\ w.ext = jobs[w.job].ext
  /\ w.ext \in Ext /\ w.nonce1 \in Ext /\ w.ext <= w.nonce1 /\ w.nonce1 <= ext
  /\ nonce1 # None => w.nonce1 <= nonce1
  /\ jobs[w.job].session = session => w.diff >= jobs[w.job].diff
WorksSound == (\A w \in staged : Sound(w)) /\ (mpc = "stage" /\ ~crashed => Sound(item))

(* nonce2 counts beyond all that were used. *)
NonceUnused == NoneResent /\ nonce2 < MaxNonce => \A n \in made : n \in Nat /\ n < nonce2

WorkInv == Types /\ Connection /\ Socket /\ JobSound /\ WorksSound /\ NonceUnused

-----------------------------------------------------------------------------
LEMMA Bounds ==
  /\ MaxJob \in Nat \ {0} /\ MaxExt \in Nat \ {0} /\ MaxNonce \in Nat \ {0}
  /\ None \notin 1..MaxJob /\ None \notin 1..MaxExt
BY StratumWorkAssumption DEF StratumWorkAssumption

USE Bounds DEF Types, Line, Job, Ext, Diff, State

-----------------------------------------------------------------------------
LEMMA ExtTypes ==
  ASSUME Types
  PROVE  /\ Ext \subseteq Nat /\ ext \in Nat /\ None \notin Ext
         /\ nonce1 # None => nonce1 \in Ext
         /\ Types' => ext' \in Nat
OBVIOUS

LEMMA InitInv == Init => WorkInv
<1> SUFFICES ASSUME Init PROVE WorkInv
  OBVIOUS
<1> USE DEF Init
<1>1. Types
  <2>1. 1 \in Ext /\ 1 \in Diff
    OBVIOUS
  <2>2. lines \in Seq(Line)
    OBVIOUS
  <2>4. jobs \in Seq([ext : Ext, diff : Diff, session : Nat, id : Job])
    <3>1. \A S : <<>> \in Seq(S)
      OBVIOUS
    <3>2. jobs = <<>>
      OBVIOUS
    <3> HIDE DEF Types, Init
    <3> QED BY <3>1, <3>2
  <2>5. Len(jobs) = 0
    OBVIOUS
  <2>3. swork \in [job : Job \cup {None}, diff : Diff, clean : BOOLEAN]
    OBVIOUS
  <2>6. \A j \in 1..Len(jobs) : FALSE
    BY <2>5
  <2>7. rpc # "parse" /\ nextDiff \in Diff \cup {0}
    OBVIOUS
  <2>8. session \in Nat /\ open \in BOOLEAN /\ active \in BOOLEAN /\ notify \in BOOLEAN /\ failed \in BOOLEAN
    OBVIOUS
  <2>9. nonce1 \in Ext \cup {None} /\ coin \in Ext \cup {None} /\ nonce2 \in Nat /\ ext \in Ext /\ diff \in Diff
    BY <2>1
  <2>10. rpc \in {"read", "parse", "gen", "clear", "restart", "connect", "activate", "reset", "auth", "refused"}
    OBVIOUS
  <2> HIDE DEF Line, Init, Ext, Diff, Job
  <2> QED BY <2>2, <2>3, <2>4, <2>5, <2>6, <2>7, <2>8, <2>9, <2>10
<1>2. Socket
  <2>1. Knows = [ext |-> 1, diff |-> 1, job |-> 0]
    BY DEF Knows
  <2>2. Replays([i \in 0..0 |-> Knows])
    BY <2>1 DEF Replays
  <2> QED BY <2>1, <2>2 DEF Socket
<1> QED BY <1>1, <1>2 DEF WorkInv, Connection, JobSound, WorksSound, NonceUnused

-----------------------------------------------------------------------------
(* How the socket changes. *)

LEMMA KnowsType == Types => Knows \in State
BY DEF Knows

LEMMA HearsType == ASSUME NEW s \in State, NEW l \in Line PROVE Hears(s, l) \in State
BY DEF Hears

(* Suspended: nothing is left but the line in hand. *)
LEMMA EmptySocket ==
  ASSUME Types', lines' = <<>>, ~open', (rpc = "parse" => Fits(Knows, line))'
  PROVE  Socket'
<1>1. Knows' \in State
  BY DEF Knows
<1>2. PICK s \in State : s = IF rpc' = "parse" THEN Hears(Knows, line)' ELSE Knows'
  <2>1. CASE rpc' = "parse"
    BY <1>1, <2>1, HearsType
  <2>2. CASE rpc' # "parse"
    BY <1>1, <2>2
  <2> QED BY <2>1, <2>2
<1>3. PICK h \in [0..0 -> State] : h[0] = s
  <2> WITNESS [i \in 0..0 |-> s] \in [0..0 -> State]
  <2> QED OBVIOUS
<1>4. Len(lines') = 0
  OBVIOUS
<1>5. Replays(h)'
  BY <1>2, <1>3, <1>4 DEF Replays
<1> QED BY <1>4, <1>5 DEF Socket

(* The thread knows what it knew, or knows now what the line in hand says. *)
LEMMA SameSocket ==
  ASSUME Types, Socket, UNCHANGED <<open, session, lines, ext, diff, jobs>>,
         rpc' = "parse" => rpc = "parse" /\ UNCHANGED <<line, Knows>>,
         rpc' # "parse" => Knows' = IF rpc = "parse" THEN Hears(Knows, line) ELSE Knows
  PROVE  Socket'
<1>1. PICK h \in [0..Len(lines) -> State] : Replays(h)
  BY DEF Socket
<1>2. \A s, l : Fits(s, l)' <=> Fits(s, l)
  BY DEF Fits
<1>3. Replays(h)'
  BY <1>1, <1>2 DEF Replays, Hears
<1> QED BY <1>1, <1>3 DEF Socket, Fits

(* The next line is taken from the socket. *)
LEMMA ShorterSocket ==
  ASSUME Types, Socket, lines # <<>>, lines' = Tail(lines), UNCHANGED <<open, session, ext, diff, jobs>>,
         rpc # "parse",
         IF rpc' = "parse" THEN line' = Head(lines) /\ Knows' = Knows
                           ELSE Knows' = Hears(Knows, Head(lines))
  PROVE  Socket' /\ Fits(Knows, Head(lines))
<1>1. PICK h \in [0..Len(lines) -> State] : Replays(h)
  BY DEF Socket
<1>2. /\ Len(lines) \in Nat \ {0} /\ Len(lines') = Len(lines) - 1
      /\ Head(lines) = lines[1] /\ \A i \in 1..Len(lines) - 1 : lines'[i] = lines[i + 1]
  OBVIOUS
<1> HIDE DEF Types, Line, State
<1>3. h[0] = Knows /\ Fits(h[0], lines[1]) /\ h[1] = Hears(Knows, lines[1])
  <2>1. 1 \in 1..Len(lines) /\ 1 - 1 = 0
    BY <1>2
  <2>2. Fits(h[0], lines[1]) /\ h[1] = Hears(h[0], lines[1])
    BY <1>1, <2>1 DEF Replays
  <2> QED BY <1>1, <2>2 DEF Replays
<1>4. \A i \in 1..Len(lines) - 1 : Fits(h[i], lines[i + 1]) /\ h[i + 1] = Hears(h[i], lines[i + 1])
  <2> TAKE i \in 1..Len(lines) - 1
  <2>1. i + 1 \in 1..Len(lines) /\ (i + 1) - 1 = i
    BY <1>2
  <2> QED BY <1>1, <2>1 DEF Replays
<1>5. \A s, l : (Fits(s, l)' <=> Fits(s, l)) /\ Hears(s, l)' = Hears(s, l)
  BY DEF Fits, Hears
<1>6. PICK k \in [0..Len(lines') -> State] : \A i \in 0..Len(lines) - 1 : k[i] = h[i + 1]
  <2>1. [i \in 0..Len(lines) - 1 |-> h[i + 1]] \in [0..Len(lines') -> State]
    BY <1>2
  <2> QED BY <1>2, <2>1
<1>7. k[0] = IF rpc' = "parse" THEN Hears(Knows, line)' ELSE Knows'
  <2>1. k[0] = h[1]
    BY <1>2, <1>6
  <2> QED BY <1>2, <1>3, <1>5, <2>1
<1>8. \A i \in 1..Len(lines') : Fits(k[i - 1], lines'[i]) /\ k[i] = Hears(k[i - 1], lines'[i])
  BY <1>2, <1>4, <1>6
<1>9. k[Len(lines')] = h[Len(lines)]
  BY <1>2, <1>6
<1>10. Replays(k)'
  BY <1>1, <1>5, <1>7, <1>8, <1>9 DEF Replays
<1>11. (rpc = "parse" => Fits(Knows, line))'
  BY <1>2, <1>3, <1>5
<1> QED BY <1>2, <1>3, <1>10, <1>11 DEF Socket

HIDE DEF Types, Line, State, Job, Ext, Diff

-----------------------------------------------------------------------------
(* What the pool does to the socket. *)
JobInForce(i) == [ext |-> ext, diff |-> diff, session |-> session, id |-> i]
Sends(l) ==
  /\ l \in Line /\ lines' = Append(lines, l) /\ open /\ UNCHANGED <<open, session>>
  /\ ext' = (IF l.type = "ext" THEN l.ext ELSE ext) /\ (l.type = "ext" => l.ext > ext)
  /\ diff' = (IF l.type = "diff" THEN l.diff ELSE diff)
  /\ \/ l.type = "notify" /\ Len(jobs) < MaxJob /\ l.job = Len(jobs) + 1
          /\ \E i \in Job : jobs' = Append(jobs, JobInForce(i)) /\ (UniqueIds => i = l.job)
     \/ l.type = "notify" /\ UNCHANGED jobs /\ l.job = Len(jobs) /\ jobs # <<>>
          /\ jobs[l.job] = JobInForce(jobs[l.job].id) /\ l.clean \in Resends
     \/ l.type # "notify" /\ UNCHANGED jobs

LEMMA PoolSends ==
  ASSUME Types, Pool
  PROVE  /\ \E l \in Line : Sends(l)
         /\ UNCHANGED <<flagVars, jobVars, rVars, mainVars, workVars>>
<1>0. Len(jobs) \in Nat /\ Len(jobs) <= MaxJob /\ (jobs # <<>> => Len(jobs) >= 1)
  BY DEF Types
<1> USE DEF Sends, JobInForce, Send
<1>1. CASE PoolSendsJob
  <2>1. PICK c \in BOOLEAN : Send(Notify(Len(jobs) + 1, c))
    BY <1>1 DEF PoolSendsJob
  <2>2. Notify(Len(jobs) + 1, c) \in Line
    BY <1>0, <1>1, Bounds DEF PoolSendsJob, Notify, Line, Job
  <2>4. PICK i \in JobId : jobs' = Append(jobs, JobInForce(i))
    BY <1>1 DEF PoolSendsJob
  <2>5. i \in Job /\ (UniqueIds => i = Len(jobs) + 1)
    BY <1>0, <1>1, Bounds DEF JobId, PoolSendsJob, Job
  <2> HIDE DEF JobInForce
  <2>3. Sends(Notify(Len(jobs) + 1, c))
    BY <1>1, <2>1, <2>2, <2>4, <2>5 DEF PoolSendsJob, Notify, Pool
  <2> QED BY <2>2, <2>3 DEF Pool
<1>2. CASE PoolSendsJobAgain
  <2>1. PICK c \in Resends : Send(Notify(Len(jobs), c))
    BY <1>2 DEF PoolSendsJobAgain
  <2>2. Notify(Len(jobs), c) \in Line
    BY <1>0, <1>2, <2>1, Bounds, StratumWorkAssumption DEF PoolSendsJobAgain, Notify, Line, Job, StratumWorkAssumption
  <2>3. Sends(Notify(Len(jobs), c))
    BY <1>2, <2>1, <2>2 DEF PoolSendsJobAgain, Notify, Pool
  <2> QED BY <2>2, <2>3 DEF Pool
<1>3. CASE PoolSetsDifficulty
  <2>1. PICK d \in Diff : diff' = d /\ Send([type |-> "diff", diff |-> d])
    BY <1>3 DEF PoolSetsDifficulty
  <2>2. [type |-> "diff", diff |-> d] \in Line
    BY DEF Line
  <2>3. Sends([type |-> "diff", diff |-> d])
    BY <1>3, <2>1, <2>2 DEF PoolSetsDifficulty, Pool
  <2> QED BY <2>2, <2>3 DEF Pool
<1>4. CASE PoolSetsExtranonce
  <2>1. ext + 1 \in Ext
    BY <1>4, Bounds DEF PoolSetsExtranonce, Types, Ext
  <2>2. [type |-> "ext", ext |-> ext + 1] \in Line
    BY <2>1 DEF Line
  <2>4. ext + 1 > ext
    BY Bounds DEF Types, Ext
  <2>3. Sends([type |-> "ext", ext |-> ext + 1])
    BY <1>4, <2>2, <2>4 DEF PoolSetsExtranonce, Pool
  <2> QED BY <2>2, <2>3 DEF Pool
<1>5. CASE PoolSendsOther
  <2>1. CASE \E t \in {"reconnect", "malformed"} : Send([type |-> t])
    <3>1. PICK t \in {"reconnect", "malformed"} : Send([type |-> t])
      BY <2>1
    <3>2. [type |-> t] \in Line
      BY DEF Line
    <3>3. Sends([type |-> t])
      BY <1>5, <3>1, <3>2 DEF PoolSendsOther, Pool
    <3> QED BY <3>2, <3>3 DEF Pool
  <2>2. CASE \E c \in BOOLEAN : Send([type |-> "header", clean |-> c])
    <3>1. PICK c \in BOOLEAN : Send([type |-> "header", clean |-> c])
      BY <2>2
    <3>2. [type |-> "header", clean |-> c] \in Line
      BY DEF Line
    <3>3. Sends([type |-> "header", clean |-> c])
      BY <1>5, <3>1, <3>2 DEF PoolSendsOther, Pool
    <3> QED BY <3>2, <3>3 DEF Pool
  <2> QED BY <1>5, <2>1, <2>2 DEF PoolSendsOther
<1> QED BY <1>1, <1>2, <1>3, <1>4, <1>5 DEF Pool

LEMMA PoolInv == ASSUME WorkInv, Pool PROVE WorkInv'
<1>1. PICK l \in Line : Sends(l)
  BY PoolSends DEF WorkInv
<1>2. UNCHANGED <<flagVars, jobVars, rVars, mainVars, workVars>>
  BY PoolSends DEF WorkInv
<1> USE DEF flagVars, jobVars, rVars, mainVars, workVars
<1> DEFINE Jobs == [ext : Ext, diff : Diff, session : Nat, id : Job]
<1>3. Types
  BY DEF WorkInv
<1>4. (\A i \in Job : JobInForce(i) \in Jobs) /\ jobs \in Seq(Jobs) /\ Len(jobs) \in Nat
  BY <1>3 DEF Types, JobInForce
<1>5. /\ jobs' \in Seq(Jobs) /\ Len(jobs') \in Nat /\ Len(jobs') >= Len(jobs) /\ Len(jobs') <= MaxJob
      /\ \A j \in 1..Len(jobs) : jobs'[j] = jobs[j]
      /\ \A j \in 1..Len(jobs') : \/ j \in 1..Len(jobs)
                                  \/ jobs'[j] = JobInForce(jobs'[j].id) /\ (UniqueIds => jobs'[j].id = j)
      /\ l.type = "notify" => /\ l.job \in 1..Len(jobs') /\ l.job >= Len(jobs)
                              /\ jobs'[l.job] = JobInForce(jobs'[l.job].id)
  <2>0. \A i : JobInForce(i).id = i
    BY DEF JobInForce
  <2> HIDE DEF Jobs
  <2>1. CASE /\ Len(jobs) < MaxJob /\ l.job = Len(jobs) + 1
             /\ \E i \in Job : jobs' = Append(jobs, JobInForce(i)) /\ (UniqueIds => i = l.job)
    <3>1. PICK i \in Job : jobs' = Append(jobs, JobInForce(i)) /\ (UniqueIds => i = l.job)
      BY <2>1
    <3>2. PICK f \in Jobs : f = JobInForce(i)
      BY <1>4
    <3>3. jobs' = Append(jobs, f) /\ f = JobInForce(f.id) /\ (UniqueIds => f.id = l.job)
      BY <2>0, <3>1, <3>2
    <3> QED BY <1>4, <2>1, <3>3, Bounds
  <2>2. CASE UNCHANGED jobs
    BY <1>1, <1>3, <1>4, <2>2 DEF Sends, Types
  <2> QED BY <1>1, <2>1, <2>2 DEF Sends
<1>6. lines \in Seq(Line) /\ lines' \in Seq(Line) /\ Len(lines') = Len(lines) + 1 /\ Len(lines) \in Nat
  BY <1>1, <1>3 DEF Sends, Types
<1>7. ext' \in Ext /\ diff' \in Diff /\ ext' >= ext /\ session' = session /\ open' = open
  <2>1. ext' \in Ext /\ diff' \in Diff /\ session' = session /\ open' = open
    BY <1>1, <1>3 DEF Sends, Types, Line
  <2>2. ext' >= ext
    BY <1>1, <1>3, <2>1, ExtTypes DEF Sends
  <2> QED BY <2>1, <2>2
<1>8. Types'
  <2>1. \A j \in 1..Len(jobs') : jobs'[j].session <= session' /\ (UniqueIds => jobs'[j].id = j)
    <3> TAKE j \in 1..Len(jobs')
    <3>1. CASE j \in 1..Len(jobs)
      BY <1>3, <1>5, <1>7, <3>1 DEF Types
    <3>2. CASE jobs'[j] = JobInForce(jobs'[j].id) /\ (UniqueIds => jobs'[j].id = j)
      BY <1>3, <1>7, <3>2 DEF Types, JobInForce
    <3> QED BY <1>5, <3>1, <3>2
  <2> QED BY <1>2, <1>3, <1>5, <1>6, <1>7, <2>1 DEF Types
<1>9. Connection'
  BY <1>1, <1>2 DEF WorkInv, Connection, Sends
<1>10. Socket'
  <2>1. PICK h \in [0..Len(lines) -> State] : Replays(h)
    BY DEF WorkInv, Socket
  <2>2. PICK s \in State : s = h[Len(lines)]
    BY <1>6
  <2>3. Hears(s, l) \in State
    BY HearsType
  <2>4. PICK k \in [0..Len(lines') -> State] :
          (\A i \in 0..Len(lines) : k[i] = h[i]) /\ k[Len(lines) + 1] = Hears(s, l)
    <3>1. [i \in 0..Len(lines) + 1 |-> IF i <= Len(lines) THEN h[i] ELSE Hears(s, l)]
            \in [0..Len(lines') -> State]
      BY <1>6, <2>3
    <3> QED BY <1>6, <3>1
  <2>5. ASSUME NEW r, NEW m \in Line, Fits(r, m) PROVE Fits(r, m)'
    <3>1. m.type = "notify" => m.job \in 1..Len(jobs)
      BY <2>5 DEF Fits
    <3>2. m.type = "notify" => m.job \in 1..Len(jobs') /\ jobs'[m.job] = jobs[m.job]
      BY <1>5, <3>1
    <3>3. m.type = "ext" => m.ext <= ext'
      BY <1>3, <1>7, <2>5, ExtTypes DEF Fits, Line
    <3> QED BY <1>7, <2>5, <3>2, <3>3 DEF Fits
  <2>6. \A r, m : Hears(r, m)' = Hears(r, m)
    BY DEF Hears
  <2>7. rpc' = rpc /\ line' = line /\ Knows' = Knows
    BY <1>2 DEF Knows
  <2>8. k[0] = IF rpc' = "parse" THEN Hears(Knows, line)' ELSE Knows'
    <3>1. k[0] = h[0]
      BY <1>6, <2>4
    <3> QED BY <2>1, <2>6, <2>7, <3>1 DEF Replays
  <2>9. s.ext = ext /\ s.diff = diff /\ s.job \in Nat /\ s.job <= Len(jobs)
    BY <1>1, <2>1, <2>2 DEF Sends, Replays, State
  <2>10. Fits(s, l)'
    <3>1. \A i : JobInForce(i) = [ext |-> s.ext, diff |-> s.diff, session |-> session', id |-> i]
      BY <1>1, <2>9 DEF Sends, JobInForce
    <3>2. CASE l.type = "notify" /\ l.job = Len(jobs) + 1
      <4>1. l.job > s.job /\ l.job >= s.job
        BY <1>4, <2>9, <3>2
      <4>2. l.job \in 1..Len(jobs') /\ jobs'[l.job] = JobInForce(jobs'[l.job].id)
        BY <1>5, <3>2
      <4> QED BY <3>1, <3>2, <4>1, <4>2 DEF Fits
    <3>3. CASE l.type = "notify" /\ l.job = Len(jobs) /\ l.clean \in Resends
      <4>1. NoneResent => ~l.clean
        BY <3>3 DEF NoneResent
      <4> QED BY <1>5, <2>9, <3>1, <3>3, <4>1 DEF Fits
    <3>4. CASE l.type # "notify"
      <4>1. l.type = "ext" => l.ext = ext' /\ s.ext < l.ext /\ l.ext <= ext'
        BY <1>1, <1>3, <1>7, <2>9, ExtTypes DEF Sends
      <4> QED BY <3>4, <4>1 DEF Fits
    <3> QED BY <1>1, <3>2, <3>3, <3>4 DEF Sends
  <2>11. ASSUME NEW i \in 1..Len(lines')
         PROVE  Fits(k[i - 1], lines[i])' /\ k[i] = Hears(k[i - 1], lines[i])'
    <3>1. CASE i = Len(lines) + 1
      <4>1. lines'[i] = l /\ k[i] = Hears(s, l) /\ k[i - 1] = s
        BY <1>1, <1>3, <1>6, <2>2, <2>4, <3>1 DEF Sends, Types
      <4> QED BY <2>6, <2>10, <4>1
    <3>2. CASE i \in 1..Len(lines)
      <4>1. lines'[i] = lines[i] /\ k[i] = h[i] /\ k[i - 1] = h[i - 1]
        BY <1>1, <1>6, <2>4, <3>2 DEF Sends
      <4>2. Fits(h[i - 1], lines[i]) /\ h[i] = Hears(h[i - 1], lines[i])
        BY <2>1, <3>2 DEF Replays
      <4>4. lines[i] \in Line
        BY <1>6, <3>2
      <4>3. PICK r, m : r = h[i - 1] /\ m = lines[i] /\ m \in Line
        BY <4>4
      <4> QED BY <2>5, <2>6, <4>1, <4>2, <4>3
    <3> QED BY <1>6, <3>1, <3>2
  <2>12. k[Len(lines')].ext = ext' /\ k[Len(lines')].diff = diff' /\ k[Len(lines')].job <= Len(jobs')
    <3>1. k[Len(lines')] = Hears(s, l)
      BY <1>6, <2>4
    <3>2. Hears(s, l).job <= Len(jobs')
      BY <1>4, <1>5, <2>9 DEF Hears
    <3> QED BY <1>1, <2>9, <3>1, <3>2 DEF Sends, Hears
  <2>13. Replays(k)'
    BY <2>8, <2>11, <2>12 DEF Replays
  <2>14. (rpc = "parse" => Fits(Knows, line))'
    <3> SUFFICES ASSUME rpc = "parse" PROVE Fits(Knows, line)'
      BY <2>7
    <3>1. PICK r, m : r = Knows /\ m = line /\ m \in Line
      BY <1>3 DEF Types
    <3>2. Fits(r, m)
      BY <3>1 DEF WorkInv, Socket
    <3> QED BY <2>5, <2>7, <3>1, <3>2
  <2> QED BY <2>13, <2>14 DEF Socket
<1>11. JobSound' /\ WorksSound' /\ NonceUnused'
  <2>1. JobSound /\ WorksSound /\ NonceUnused
    BY DEF WorkInv
  <2>2. session' = session /\ ext' \in Nat
    BY <1>3, <1>7, <1>8, ExtTypes
  <2>3. JobSound'
    <3>1. Ext \subseteq Nat /\ ext \in Nat /\ (nonce1 # None => nonce1 \in Nat)
      BY <1>3, ExtTypes
    <3>2. \A n \in Nat : n <= ext => n <= ext'
      BY <1>7, <2>2, <3>1
    <3>3. /\ nonce1 # None => nonce1 <= ext'
          /\ swork.job # None => swork.job \in 1..Len(jobs) /\ coin <= ext'
      BY <2>1, <3>1, <3>2 DEF JobSound
    <3>4. swork.job # None => swork.job \in 1..Len(jobs') /\ jobs'[swork.job] = jobs[swork.job]
      BY <1>5, <3>3
    <3> QED BY <1>2, <2>1, <2>2, <3>3, <3>4 DEF JobSound
  <2>5. ASSUME NEW w, Sound(w) PROVE Sound(w)'
    <3>1. Ext \subseteq Nat /\ ext \in Nat
      BY <1>3, ExtTypes
    <3>2. \A n \in Nat : n <= ext => n <= ext'
      BY <1>7, <2>2, <3>1
    <3>4. w.job \in 1..Len(jobs) /\ w.nonce1 \in Ext /\ w.nonce1 <= ext
      BY <2>5 DEF Sound
    <3>5. w.nonce1 <= ext'
      BY <3>1, <3>2, <3>4
    <3>3. w.job \in 1..Len(jobs') /\ jobs'[w.job] = jobs[w.job] /\ w.nonce1 <= ext'
      BY <1>5, <3>4, <3>5
    <3> QED BY <1>2, <2>2, <2>5, <3>3 DEF Sound
  <2>4. WorksSound'
    BY <1>2, <2>1, <2>5 DEF WorksSound
  <2> QED BY <1>2, <2>1, <2>3, <2>4 DEF NonceUnused
<1> QED BY <1>8, <1>9, <1>10, <1>11 DEF WorkInv

-----------------------------------------------------------------------------
(* Parsing a line that fits what the thread knows. *)
LEMMA LineTypes ==
  ASSUME NEW l \in Line
  PROVE  /\ l.type = "notify" => l.job \in Job /\ l.clean \in BOOLEAN
         /\ l.type = "header" => l.clean \in BOOLEAN
         /\ l.type = "diff" => l.diff \in Diff
         /\ l.type = "ext" => l.ext \in Ext
BY DEF Line

LEMMA ParseTypes ==
  ASSUME Types, NEW l \in Line, Parse(l)
  PROVE  /\ notify' \in BOOLEAN /\ failed' \in BOOLEAN /\ active' = active
         /\ nonce1' \in Ext \cup {None} /\ coin' \in Ext \cup {None}
         /\ nextDiff' \in Diff \cup {0} /\ nonce2' \in Nat
         /\ swork' \in [job : Job \cup {None}, diff : Diff, clean : BOOLEAN]
<1>1. Types
  OBVIOUS
<1> USE LineTypes DEF Types
<1>2. CASE l.type = "notify" /\ ParseNotify(l)
  BY <1>2 DEF ParseNotify, Replace, Parse, Diff
<1>3. CASE l.type = "header" /\ ParseHeader(l)
  <2>1. l.clean \in BOOLEAN /\ 0 \in Nat
    BY <1>3
  <2>2. /\ notify' = FALSE /\ UNCHANGED <<active, nonce1, nextDiff, coin, failed>>
        /\ nonce2' = IF l.clean THEN 0 ELSE nonce2
        /\ swork' = [job |-> None, diff |-> IF nextDiff > 0 THEN nextDiff ELSE swork.diff, clean |-> l.clean]
    BY <1>3 DEF ParseHeader, Replace, Parse
  <2>3. (IF nextDiff > 0 THEN nextDiff ELSE swork.diff) \in Diff
    BY DEF Diff
  <2> QED BY <2>1, <2>2, <2>3
<1>4. CASE ParseMalformed
  BY <1>4 DEF ParseMalformed, Parse, jobVars
<1>5. CASE l.type = "diff" /\ ParseDiff(l)
  BY <1>5 DEF ParseDiff, Parse
<1>6. CASE l.type = "ext" /\ ParseExtranonce(l)
  BY <1>6 DEF ParseExtranonce, Parse
<1> QED BY <1>2, <1>3, <1>4, <1>5, <1>6 DEF Parse

LEMMA ParseSound ==
  ASSUME WorkInv, NEW l \in Line, Parse(l), Fits(Knows, l),
         rpc \in {"parse", "auth"}, rpc' \in {"read", "gen", "auth", "refused"},
         UNCHANGED <<ext, jobs, session, mpc, item, crashed, staged>>
  PROVE  /\ Knows' = Hears(Knows, l)
         /\ JobSound' /\ WorksSound' /\ NonceUnused' /\ nonce1' # None
         /\ ~active => failed' = failed
<1>1. Types /\ JobSound /\ NonceUnused /\ WorksSound /\ nonce1 # None
  BY DEF WorkInv, Connection
<1>2. /\ nextDiff \in 0..2 /\ swork.diff \in 1..2 /\ nonce1 \in Ext \cup {None}
      /\ None \notin Job /\ swork = [job |-> swork.job, diff |-> swork.diff, clean |-> swork.clean]
  BY <1>1, Bounds DEF Types, Diff, Job
<1>0. nonce1' # None /\ nonce1' \in Ext /\ nonce1' >= nonce1 /\ nonce1' <= ext
  <2>1. nonce1 \in Ext /\ nonce1 <= ext
    BY <1>1, ExtTypes DEF JobSound
  <2>2. CASE nonce1' = nonce1
    BY <1>1, <2>1, <2>2, ExtTypes
  <2>3. CASE l.type = "ext" /\ nonce1' = l.ext
    BY <1>1, <2>1, <2>3, ExtTypes, LineTypes DEF Fits, Knows
  <2> QED BY <2>2, <2>3 DEF Parse, ParseNotify, ParseHeader, ParseMalformed, ParseDiff, ParseExtranonce, jobVars
<1>3. WorksSound'
  <2>1. ASSUME NEW w, Sound(w) PROVE Sound(w)'
    BY <1>0, <1>1, <2>1, ExtTypes DEF Sound
  <2> QED BY <1>1, <2>1 DEF WorksSound
<1>4. CASE l.type = "notify" /\ ParseNotify(l)
  <2>1. /\ l.job \in Job /\ l.clean \in BOOLEAN /\ l.job # None
        /\ swork'.job = l.job /\ swork'.diff = IF nextDiff > 0 THEN nextDiff ELSE swork.diff
    BY <1>2, <1>4, LineTypes DEF ParseNotify, Replace
  <2>2. /\ l.job \in 1..Len(jobs)
        /\ jobs[l.job].ext = nonce1 /\ jobs[l.job].session = session
        /\ jobs[l.job].diff = IF nextDiff = 0 \/ rpc \in {"activate", "reset"} THEN 1 ELSE nextDiff
        /\ l.clean /\ NoneResent => l.job # swork.job
    <3>1. /\ Knows.ext = nonce1 /\ (l.job = swork.job => Knows.job = l.job)
          /\ Knows.diff = IF nextDiff = 0 \/ rpc \in {"activate", "reset"} THEN 1 ELSE nextDiff
      BY <2>1 DEF Knows
    <3>2. /\ l.job \in 1..Len(jobs)
          /\ jobs[l.job] = [ext |-> Knows.ext, diff |-> Knows.diff, session |-> session, id |-> jobs[l.job].id]
          /\ l.clean /\ NoneResent => l.job > Knows.job
      BY <1>4 DEF Fits
    <3>3. l.clean /\ NoneResent => l.job # swork.job
      <4>1. l.job \in Nat
        BY <2>1, Bounds DEF Job
      <4>2. SUFFICES ASSUME l.clean /\ NoneResent, l.job = swork.job PROVE FALSE
        OBVIOUS
      <4>3. l.job > Knows.job
        BY <3>2, <4>2
      <4>4. Knows.job = l.job
        BY <3>1, <4>2
      <4> QED BY <4>1, <4>3, <4>4
    <3>4. /\ jobs[l.job].ext = Knows.ext /\ jobs[l.job].diff = Knows.diff
          /\ jobs[l.job].session = session
      BY <3>2
    <3> QED BY <3>1, <3>2, <3>3, <3>4
  <2>3. Knows' = Hears(Knows, l)
    BY <1>4, <2>1 DEF Knows, Hears, ParseNotify, Replace
  <2>4. JobSound'
    <3>1. coin' \in Ext /\ coin' <= ext /\ coin' <= nonce1' /\ nonce1' <= ext
      BY <1>0, <1>1, <1>4, ExtTypes DEF ParseNotify
    <3> QED BY <1>2, <1>4, <2>1, <2>2, <3>1 DEF JobSound, ParseNotify, Replace
  <2>5. NonceUnused'
    BY <1>1, <1>4, <2>1, <2>2 DEF NonceUnused, ParseNotify, Replace
  <2>6. ~active => failed' = failed
    <3>1. failed \in BOOLEAN /\ failed' = (failed /\ ~(active /\ jobs[l.job].session = session))
      BY <1>1, <1>4 DEF ParseNotify, Types
    <3> QED BY <3>1, Zenon
  <2> QED BY <1>0, <1>3, <2>3, <2>4, <2>5, <2>6
<1>5. CASE l.type = "header" /\ ParseHeader(l)
  BY <1>1, <1>2, <1>3, <1>5 DEF ParseHeader, Replace, Knows, Hears, JobSound, NonceUnused, Parse
<1>6. CASE l.type = "malformed" /\ ParseMalformed
  BY <1>1, <1>2, <1>3, <1>6 DEF ParseMalformed, jobVars, Knows, Hears, JobSound, NonceUnused, Parse
<1>7. CASE l.type = "diff" /\ ParseDiff(l)
  <2>1. l.diff \in 1..2 /\ swork'.job = swork.job
        /\ swork'.diff = IF nextDiff > 0 THEN swork.diff ELSE l.diff
    BY <1>2, <1>7, LineTypes DEF ParseDiff, Diff
  <2>2. Knows' = Hears(Knows, l)
    BY <1>7, <2>1 DEF ParseDiff, Knows, Hears
  <2>3. JobSound'
    BY <1>1, <1>2, <1>7, <2>1 DEF ParseDiff, JobSound, Parse
  <2> QED BY <1>1, <1>3, <1>7, <2>2, <2>3 DEF ParseDiff, NonceUnused
<1>8. CASE l.type = "ext" /\ ParseExtranonce(l)
  <2>1. JobSound'
    BY <1>0, <1>1, <1>2, <1>8, ExtTypes DEF ParseExtranonce, JobSound, Parse
  <2> QED BY <1>0, <1>1, <1>2, <1>3, <1>8, <2>1 DEF ParseExtranonce, Knows, Hears, NonceUnused, Parse
<1> QED BY <1>4, <1>5, <1>6, <1>7, <1>8 DEF Parse

LEMMA ParseInv == ASSUME WorkInv, ParseLine \/ AuthLine PROVE WorkInv'
<1>1. Types /\ Connection /\ Socket
  BY DEF WorkInv
<1>2. CASE ParseLine
  <2>1. /\ rpc = "parse" /\ Parse(line) /\ rpc' \in {"read", "gen"}
        /\ UNCHANGED <<open, session, lines, staged, ext, diff, jobs, mpc, item, crashed>>
    BY <1>2 DEF ParseLine, connVars, Idle, poolVars, mainVars
  <2>2. line \in Line /\ Fits(Knows, line)
    BY <1>1, <2>1 DEF Types, Socket
  <2>3. Knows' = Hears(Knows, line) /\ JobSound' /\ WorksSound' /\ NonceUnused' /\ nonce1' # None /\ (~active => failed' = failed)
    BY <2>1, <2>2, ParseSound
  <2>4. Types'
    BY <1>1, <2>1, <2>2, ParseTypes DEF Types
  <2>5. Socket'
    BY <1>1, <2>1, <2>3, SameSocket
  <2>6. Connection'
    BY <1>1, <2>1, <2>2, <2>3, ParseTypes DEF Connection
  <2> QED BY <2>3, <2>4, <2>5, <2>6 DEF WorkInv
<1>3. CASE AuthLine
  <2>1. /\ rpc = "auth" /\ lines # <<>> /\ Parse(Head(lines)) /\ rpc' \in {"auth", "refused"} /\ lines' = Tail(lines)
        /\ UNCHANGED <<open, session, staged, ext, diff, jobs, mpc, item, crashed>>
    BY <1>3 DEF AuthLine, Idle, poolVars, mainVars
  <2>2. PICK l \in Line : l = Head(lines)
    BY <1>1, <2>1 DEF Types
  <2>3. Fits(Knows, l)
    <3>1. PICK h \in [0..Len(lines) -> State] : Replays(h)
      BY <1>1 DEF Socket
    <3>2. 1 \in 1..Len(lines) /\ 1 - 1 = 0 /\ lines[1] = l
      BY <1>1, <2>1, <2>2 DEF Types
    <3>3. Fits(h[0], lines[1])
      BY <3>1, <3>2 DEF Replays
    <3> QED BY <2>1, <3>1, <3>2, <3>3 DEF Replays
  <2>4. Knows' = Hears(Knows, l) /\ JobSound' /\ WorksSound' /\ NonceUnused' /\ nonce1' # None /\ (~active => failed' = failed)
    BY <2>1, <2>2, <2>3, ParseSound
  <2>5. Types'
    <3>1. lines' \in Seq(Line)
      BY <1>1, <2>1 DEF Types
    <3> QED BY <1>1, <2>1, <2>2, <3>1, ParseTypes DEF Types
  <2>6. Socket'
    BY <1>1, <2>1, <2>2, <2>4, ShorterSocket
  <2>7. Connection'
    BY <1>1, <2>1, <2>2, <2>4, ParseTypes DEF Connection
  <2> QED BY <2>4, <2>5, <2>6, <2>7 DEF WorkInv
<1> QED BY <1>2, <1>3

-----------------------------------------------------------------------------
(* The connection is suspended, by the thread itself or by a failed send. *)
LEMMA SuspendInv ==
  ASSUME WorkInv, Suspend, UNCHANGED <<ext, diff, jobs, nonce1, nextDiff, coin, nonce2, swork, made, locked, mpc, item, crashed>>,
         \A w \in staged' : w \in staged,
         \/ UNCHANGED <<rpc, line>> /\ failed' = TRUE
         \/ rpc' \in {"read", "clear", "restart", "connect", "refused"} /\ rpc # "connect" /\ UNCHANGED failed
  PROVE  WorkInv'
<1>1. Types /\ JobSound /\ WorksSound /\ NonceUnused /\ Socket
  BY DEF WorkInv
<1> USE DEF Suspend
<1>2. Types'
  <2>1. lines' \in Seq(Line) /\ rpc' \in {"read", "parse", "gen", "clear", "restart", "connect", "activate", "reset", "auth", "refused"}
    BY <1>1 DEF Types
  <2> QED BY <1>1, <2>1 DEF Types
<1>3. Socket'
  <2>1. CASE UNCHANGED <<rpc, line>>
    <3>1. Knows' = Knows
      BY <2>1 DEF Knows
    <3>2. (rpc = "parse" => Fits(Knows, line))'
      BY <1>1, <2>1, <3>1 DEF Socket, Fits
    <3> QED BY <1>2, <3>2, EmptySocket
  <2>2. CASE rpc' # "parse"
    BY <1>2, <2>2, EmptySocket
  <2> QED BY <2>1, <2>2
<1>4. Connection'
  BY DEF WorkInv, Connection
<1>5. JobSound'
  BY <1>1 DEF JobSound
<1>6. WorksSound' /\ NonceUnused'
  BY <1>1 DEF WorksSound, Sound, NonceUnused
<1> QED BY <1>2, <1>3, <1>4, <1>5, <1>6 DEF WorkInv

LEMMA SuspendingInv ==
  ASSUME WorkInv, Suspend, Unneeded \/ ParseReconnect \/ AuthReconnect \/ AuthFails \/ SendFails \/ Restart
  PROVE  WorkInv'
<1> USE DEF jobVars, workVars, rVars, Idle, poolVars, mainVars
<1>1. CASE Unneeded
  BY <1>1, SuspendInv DEF Unneeded, At
<1>2. CASE ParseReconnect
  BY <1>2, SuspendInv DEF ParseReconnect
<1>3. CASE AuthFails
  BY <1>3, SuspendInv DEF AuthFails, At
<1>4. CASE SendFails
  BY <1>4, SuspendInv DEF SendFails
<1>5. CASE Restart
  BY <1>5, SuspendInv DEF Restart, At
<1>6. CASE AuthReconnect
  BY <1>6, SuspendInv DEF AuthReconnect
<1> QED BY <1>1, <1>2, <1>3, <1>4, <1>5, <1>6

(* A client.reconnect in the place of an answer is dropped. *)
LEMMA DropInv ==
  ASSUME WorkInv, AuthReconnect, rpc' = "refused", lines' = Tail(lines), UNCHANGED <<open, session, flagVars, staged>>
  PROVE  WorkInv'
<1>1. Types /\ Connection /\ Socket /\ JobSound /\ WorksSound /\ NonceUnused
  BY DEF WorkInv
<1>2. /\ UNCHANGED <<open, session, active, notify, ext, diff, jobs, mpc, item, crashed, nonce1, nextDiff, coin, nonce2, swork, made, locked, failed, staged>>
      /\ rpc = "auth" /\ rpc' = "refused" /\ lines # <<>> /\ lines' = Tail(lines) /\ Head(lines).type = "reconnect"
  BY DEF AuthReconnect, flagVars, jobVars, Idle, poolVars, mainVars
<1>3. Types'
  <2>1. lines' \in Seq(Line)
    BY <1>1, <1>2 DEF Types
  <2> QED BY <1>1, <1>2, <2>1 DEF Types
<1>4. Socket'
  <2>1. Knows' = Knows
    BY <1>2 DEF Knows
  <2>2. Hears(Knows, Head(lines)) = Knows
    BY <1>2 DEF Hears, Knows
  <2> QED BY <1>1, <1>2, <2>1, <2>2, ShorterSocket
<1>5. Connection'
  BY <1>1, <1>2 DEF Connection
<1>6. JobSound' /\ WorksSound' /\ NonceUnused'
  BY <1>1, <1>2 DEF JobSound, WorksSound, Sound, NonceUnused
<1> QED BY <1>3, <1>4, <1>5, <1>6 DEF WorkInv

(* Steps of stratum_rthread that change neither the connection nor what    *)
(* the thread knows.                                                       *)
LEMMA QuietInv ==
  ASSUME WorkInv,
         \/ Lost \/ Clear \/ IgnoreReconnect \/ AuthOK \/ TestJob \/ ResetDiff
         \/ (Restart \/ AuthFails) /\ UNCHANGED <<connVars, flagVars>>
  PROVE  WorkInv'
<1>1. Types /\ Connection /\ Socket /\ JobSound /\ WorksSound /\ NonceUnused
  BY DEF WorkInv
<1> USE DEF connVars, flagVars, workVars, Idle, poolVars, mainVars
<1>2. CASE \/ Lost \/ Clear \/ IgnoreReconnect \/ AuthOK
           \/ (Restart \/ AuthFails) /\ UNCHANGED <<connVars, flagVars>>
  <2>1. /\ UNCHANGED <<open, session, lines, active, notify, ext, diff, jobs, mpc, item, crashed>>
        /\ UNCHANGED jobVars
        /\ rpc' \in {"read", "restart", "connect"} /\ rpc \notin {"activate", "reset"}
        /\ rpc # "connect" /\ (rpc' = "connect" => ~active)
        /\ rpc' = "read" => rpc \in {"parse", "auth"}
        /\ rpc = "parse" => line.type = "reconnect"
        /\ \A w \in staged' : w \in staged
    BY <1>2 DEF Lost, Clear, IgnoreReconnect, Restart, AuthOK, AuthFails, Suspend, At
  <2> USE DEF jobVars
  <2>2. Types'
    BY <1>1, <2>1 DEF Types
  <2>3. Knows' = Knows
    BY <2>1 DEF Knows
  <2>4. rpc = "parse" => Hears(Knows, line) = Knows
    BY <2>1 DEF Hears, Knows
  <2>5. Socket'
    BY <1>1, <2>1, <2>3, <2>4, SameSocket
  <2>6. Connection'
    BY <1>1, <2>1 DEF Connection
  <2>7. JobSound' /\ WorksSound' /\ NonceUnused'
    BY <1>1, <2>1 DEF JobSound, WorksSound, Sound, NonceUnused
  <2> QED BY <2>2, <2>5, <2>6, <2>7 DEF WorkInv
<1>3. CASE TestJob
  <2>1. /\ UNCHANGED <<open, session, lines, active, notify, ext, diff, jobs, mpc, item, crashed, nonce1, nextDiff, coin, made, locked, failed, line>>
        /\ rpc = "gen" /\ rpc' = "read" /\ swork' = [swork EXCEPT !.clean = FALSE]
        /\ nonce2' = Nonce2After(nonce2) /\ staged' = {}
    BY <1>3 DEF TestJob, At
  <2>2. /\ swork' \in [job : Job \cup {None}, diff : Diff, clean : BOOLEAN]
        /\ swork'.job = swork.job /\ swork'.diff = swork.diff
        /\ nonce2 \in Nat /\ nonce2' \in Nat /\ nonce2' >= nonce2
    <3>1. swork \in [job : Job \cup {None}, diff : Diff, clean : BOOLEAN] /\ nonce2 \in Nat
      BY <1>1 DEF Types
    <3>2. nonce2' \in Nat /\ nonce2' >= nonce2
      BY <2>1, <3>1 DEF Nonce2After
    <3> QED BY <2>1, <3>1, <3>2
  <2>3. Types'
    BY <1>1, <2>1, <2>2 DEF Types
  <2>4. Knows' = Knows
    BY <2>1, <2>2 DEF Knows
  <2>5. Socket'
    BY <1>1, <2>1, <2>4, SameSocket
  <2>6. Connection'
    BY <1>1, <2>1 DEF Connection
  <2>7. JobSound' /\ WorksSound'
    BY <1>1, <2>1, <2>2 DEF JobSound, WorksSound, Sound
  <2>8. NonceUnused'
    BY <1>1, <2>1, <2>2, Bounds DEF NonceUnused, Types
  <2> QED BY <2>3, <2>5, <2>6, <2>7, <2>8 DEF WorkInv
<1>4. CASE ResetDiff
  <2>1. /\ UNCHANGED <<open, session, lines, active, notify, ext, diff, jobs, mpc, item, crashed, nonce1, coin, nonce2, made, locked, failed, line, staged>>
        /\ rpc = "reset" /\ rpc' = "auth" /\ swork' = [swork EXCEPT !.diff = 1] /\ nextDiff' = 0
    BY <1>4 DEF ResetDiff, At
  <2>2. /\ swork' \in [job : Job \cup {None}, diff : Diff, clean : BOOLEAN]
        /\ swork'.job = swork.job /\ swork'.diff = 1
    <3>1. swork \in [job : Job \cup {None}, diff : Diff, clean : BOOLEAN] /\ 1 \in Diff
      BY <1>1 DEF Types, Diff
    <3> QED BY <2>1, <3>1
  <2>3. Types'
    BY <1>1, <2>1, <2>2 DEF Types
  <2>4. Knows' = Knows
    BY <2>1, <2>2 DEF Knows
  <2>5. Socket'
    BY <1>1, <2>1, <2>4, SameSocket
  <2>6. Connection'
    BY <1>1, <2>1 DEF Connection
  <2>7. JobSound' /\ WorksSound' /\ NonceUnused'
    BY <1>1, <2>1, <2>2 DEF JobSound, WorksSound, Sound, NonceUnused
  <2> QED BY <2>3, <2>5, <2>6, <2>7 DEF WorkInv
<1> QED BY <1>2, <1>3, <1>4

LEMMA ReadInv == ASSUME WorkInv, Read PROVE WorkInv'
<1>1. Types /\ Connection /\ Socket /\ JobSound /\ WorksSound /\ NonceUnused
  BY DEF WorkInv
<1>2. /\ UNCHANGED <<open, session, active, notify, ext, diff, jobs, mpc, item, crashed, nonce1, nextDiff, coin, nonce2, swork, made, locked, failed, staged>>
      /\ rpc = "read" /\ rpc' = "parse" /\ lines # <<>> /\ line' = Head(lines) /\ lines' = Tail(lines)
  BY DEF Read, At, flagVars, jobVars, workVars, Idle, poolVars, mainVars
<1>3. Types'
  <2>1. lines' \in Seq(Line) /\ line' \in Line
    BY <1>1, <1>2 DEF Types
  <2> QED BY <1>1, <1>2, <2>1 DEF Types
<1>4. Socket'
  <2>1. Knows' = Knows
    BY <1>2 DEF Knows
  <2> QED BY <1>1, <1>2, <2>1, ShorterSocket
<1>5. Connection'
  BY <1>1, <1>2 DEF Connection
<1>6. JobSound' /\ WorksSound' /\ NonceUnused'
  BY <1>1, <1>2 DEF JobSound, WorksSound, Sound, NonceUnused
<1> QED BY <1>3, <1>4, <1>5, <1>6 DEF WorkInv

LEMMA ConnectInv == ASSUME WorkInv, Subscribe \/ Refused \/ Activate PROVE WorkInv'
<1>1. Types /\ Connection /\ Socket /\ JobSound /\ WorksSound /\ NonceUnused
  BY DEF WorkInv
<1> USE DEF connVars, flagVars, jobVars, rVars, workVars, Idle, poolVars, mainVars
<1>2. CASE Subscribe
  <2>1. /\ UNCHANGED <<lines, jobs, active, notify, nextDiff, coin, nonce2, swork, made, locked, failed, mpc, item, crashed, staged>>
        /\ rpc = "connect" /\ rpc' = "activate" /\ open' = TRUE /\ session' = session + 1
        /\ ext' \in Ext /\ nonce1' = ext' /\ diff' = 1
    BY <1>1, <1>2 DEF Subscribe, At, Types
  <2>2. ~active /\ lines = <<>> /\ ~(active' /\ notify')
    BY <1>1, <2>1 DEF Connection
  <2>3. session \in Nat /\ \A j \in 1..Len(jobs) : jobs[j].session \in Nat /\ jobs[j].session # session'
    <3>1. session \in Nat /\ \A j \in 1..Len(jobs) : jobs[j].session <= session
      BY <1>1 DEF Types
    <3>2. \A j \in 1..Len(jobs) : jobs[j] \in [ext : Ext, diff : Diff, session : Nat, id : Job]
      <4> DEFINE Jobs == [ext : Ext, diff : Diff, session : Nat, id : Job]
      <4>1. jobs \in Seq(Jobs)
        BY <1>1 DEF Types
      <4> HIDE DEF Jobs
      <4>2. \A j \in 1..Len(jobs) : jobs[j] \in Jobs
        BY <4>1
      <4> QED BY <4>2 DEF Jobs
    <3>3. ASSUME NEW j \in 1..Len(jobs) PROVE jobs[j].session \in Nat /\ jobs[j].session # session'
      <4>1. jobs[j].session \in Nat /\ jobs[j].session <= session
        BY <3>1, <3>2
      <4> QED BY <2>1, <3>1, <4>1
    <3> QED BY <3>1, <3>3
  <2>4. Types'
    <3>1. \A j \in 1..Len(jobs') : jobs'[j].session <= session'
      BY <1>1, <2>1, <2>3 DEF Types
    <3> QED BY <1>1, <2>1, <3>1 DEF Types, Diff
  <2>5. Socket'
    <3>1. PICK s \in State : s = Knows'
      <4>1. ASSUME Types' PROVE Knows' \in State
        BY <4>1, Bounds DEF Types, Knows, State, Diff, Job
      <4> QED BY <2>4, <4>1
    <3>2. PICK h \in [0..0 -> State] : h[0] = s
      <4> WITNESS [i \in 0..0 |-> s] \in [0..0 -> State]
      <4> QED OBVIOUS
    <3>3. s.ext = ext' /\ s.diff = diff' /\ s.job <= Len(jobs')
      BY <1>1, <2>1, <3>1 DEF Knows, JobSound, Types
    <3>4. Len(lines') = 0
      BY <2>1, <2>2
    <3>5. Replays(h)'
      BY <2>1, <3>1, <3>2, <3>3, <3>4 DEF Replays
    <3> QED BY <2>1, <3>4, <3>5 DEF Socket
  <2>9. /\ Ext \subseteq Nat /\ None \notin Ext /\ nonce1' # None
        /\ \A n \in Nat : n <= ext => n <= ext'
    <3>1. Ext \subseteq Nat /\ None \notin Ext /\ ext \in Nat
      BY <1>1, ExtTypes
    <3>2. ext' >= ext
      BY <1>2, <3>1 DEF Subscribe
    <3> QED BY <2>1, <3>1, <3>2
  <2>6. Connection'
    BY <1>1, <2>1, <2>2, <2>9 DEF Connection
  <2>7. JobSound'
    <3>1. nonce1' \in Ext /\ nonce1' = ext' /\ nonce1' <= ext'
      BY <2>1, <2>9
    <3>2. swork.job # None => coin \in Ext /\ coin <= ext' /\ coin <= nonce1'
      BY <1>1, <2>9, <3>1 DEF JobSound
    <3> QED BY <1>1, <2>1, <2>2, <2>3, <3>1, <3>2 DEF JobSound
  <2>8. WorksSound' /\ NonceUnused'
    <3>1. ASSUME NEW w, Sound(w) PROVE Sound(w)'
      BY <2>1, <2>3, <2>9, <3>1 DEF Sound
    <3> QED BY <1>1, <2>1, <3>1 DEF WorksSound, NonceUnused
  <2> QED BY <2>4, <2>5, <2>6, <2>7, <2>8 DEF WorkInv
<1>3. CASE Refused
  <2>1. /\ UNCHANGED <<open, session, lines, jobs, active, notify, ext, diff, nextDiff, coin, nonce2, swork, made, locked, failed, mpc, item, crashed, staged>>
        /\ rpc = "connect" /\ rpc' = rpc /\ nonce1' = None
    BY <1>3 DEF Refused
  <2>2. ~active /\ lines = <<>> /\ ~open
    BY <1>1, <2>1 DEF Connection
  <2>3. Types'
    BY <1>1, <2>1 DEF Types
  <2>4. Socket'
    BY <2>1, <2>2, <2>3, EmptySocket
  <2>5. Connection' /\ JobSound' /\ WorksSound' /\ NonceUnused'
    BY <1>1, <2>1 DEF Connection, JobSound, WorksSound, Sound, NonceUnused
  <2> QED BY <2>3, <2>4, <2>5 DEF WorkInv
<1>4. CASE Activate
  <2>1. /\ UNCHANGED <<open, session, lines, jobs, notify, ext, diff, nonce1, nextDiff, coin, nonce2, swork, made, locked, failed, mpc, item, crashed, staged>>
        /\ rpc = "activate" /\ rpc' = "reset" /\ active' = TRUE
    BY <1>4 DEF Activate, At
  <2>2. ~active /\ (~failed => ~notify)
    BY <1>1, <2>1 DEF Connection
  <2>3. Types'
    BY <1>1, <2>1 DEF Types
  <2>4. Socket'
    <3>1. Knows' = Knows
      BY <2>1 DEF Knows
    <3> QED BY <1>1, <2>1, <3>1, SameSocket
  <2>5. Connection' /\ JobSound' /\ WorksSound' /\ NonceUnused'
    BY <1>1, <2>1, <2>2 DEF Connection, JobSound, WorksSound, Sound, NonceUnused
  <2> QED BY <2>3, <2>4, <2>5 DEF WorkInv
<1> QED BY <1>2, <1>3, <1>4

-----------------------------------------------------------------------------
(* main and the mining threads. *)
LEMMA MainInv == ASSUME WorkInv, ~crashed, Main \/ GetWork PROVE WorkInv'
<1>1. Types /\ Connection /\ Socket /\ JobSound /\ WorksSound /\ NonceUnused
  BY DEF WorkInv
<1> USE DEF connVars, flagVars, rVars, poolVars
<1>2. /\ UNCHANGED <<open, session, lines, ext, diff, jobs, active, notify, rpc, line>>
      /\ UNCHANGED <<nonce1, nextDiff, coin, swork, locked, failed>>
  BY DEF Main, UsablePool, Generate, Stage, GetWork, jobVars
<1>3. nonce2' \in Nat
  BY <1>1, Bounds DEF Main, UsablePool, Generate, Stage, GetWork, jobVars, Nonce2After, Types
<1>4. Types'
  BY <1>1, <1>2, <1>3 DEF Types
<1>5. Socket'
  <2>1. Knows' = Knows
    BY <1>2 DEF Knows
  <2> QED BY <1>1, <1>2, <2>1, SameSocket
<1>6. Connection'
  BY <1>1, <1>2 DEF Connection
<1>7. JobSound' /\ WorksSound' /\ NonceUnused'
  <2>1. CASE UsablePool
    BY <1>1, <1>2, <2>1 DEF UsablePool, jobVars, workVars, JobSound, WorksSound, Sound, NonceUnused
  <2>2. CASE Generate
    <3>1. /\ mpc = "gen" /\ ~locked /\ mpc' = "stage" /\ item' = NewWork /\ staged' = staged
          /\ crashed' = (nonce1 = None)
          /\ nonce2' = Nonce2After(nonce2) /\ made' = made \cup {nonce2}
      BY <2>2 DEF Generate, workVars
    <3>2. JobSound'
      BY <1>1, <1>2, <3>1 DEF JobSound
    <3>3. ~crashed' => Sound(item)'
      <4> SUFFICES ASSUME nonce1 # None PROVE Sound(NewWork)
        BY <1>2, <3>1 DEF Sound
      <4>1. /\ swork.job \in 1..Len(jobs) /\ coin = jobs[swork.job].ext /\ coin \in Ext /\ coin <= nonce1
            /\ nonce1 \in Ext /\ nonce1 <= ext
            /\ jobs[swork.job].session = session => swork.diff >= jobs[swork.job].diff
        BY <1>1, <3>1, ExtTypes DEF JobSound
      <4>2. nonce1 <= nonce1
        BY <1>1, <4>1, ExtTypes
      <4> QED BY <4>1, <4>2 DEF Sound, NewWork
    <3>4. WorksSound'
      BY <1>1, <1>2, <3>1, <3>3 DEF WorksSound, Sound
    <3>5. NonceUnused'
      BY <1>1, <3>1, Bounds DEF NonceUnused, Nonce2After, Types
    <3> QED BY <3>2, <3>4, <3>5
  <2>3. CASE Stage
    BY <1>1, <1>2, <2>3 DEF Stage, jobVars, JobSound, WorksSound, Sound, NonceUnused
  <2>4. CASE GetWork
    <3>1. UNCHANGED <<jobVars, mpc, item, crashed>> /\ \A w \in staged' : w \in staged
      BY <2>4 DEF GetWork, mainVars
    <3> QED BY <1>1, <1>2, <3>1 DEF jobVars, JobSound, WorksSound, Sound, NonceUnused
  <2> QED BY <2>1, <2>2, <2>3, <2>4 DEF Main
<1> QED BY <1>4, <1>5, <1>6, <1>7 DEF WorkInv

-----------------------------------------------------------------------------
LEMMA StepInv == WorkInv /\ [Next]_vars => WorkInv'
<1> SUFFICES ASSUME WorkInv, [Next]_vars PROVE WorkInv'
  OBVIOUS
<1>1. CASE UNCHANGED vars
  <2>1. Types /\ Connection /\ Socket /\ JobSound /\ WorksSound /\ NonceUnused
    BY DEF WorkInv
  <2> USE <1>1 DEF vars, connVars, flagVars, jobVars, rVars, workVars, poolVars, mainVars
  <2>2. Types'
    BY <2>1 DEF Types
  <2>3. Socket'
    <3>1. Knows' = Knows
      BY DEF Knows
    <3> QED BY <2>1, <3>1, SameSocket
  <2>4. Connection' /\ JobSound' /\ WorksSound' /\ NonceUnused'
    BY <2>1 DEF Connection, JobSound, WorksSound, Sound, NonceUnused
  <2> QED BY <2>2, <2>3, <2>4 DEF WorkInv
<1>2. CASE Pool
  BY <1>2, PoolInv
<1>3. CASE RThread
  <2>1. CASE Restart \/ AuthFails
    <3>1. Suspend \/ UNCHANGED <<connVars, flagVars>>
      BY <2>1 DEF Restart, AuthFails
    <3> QED BY <2>1, <3>1, SuspendingInv, QuietInv
  <2>2. CASE AuthReconnect
    <3>1. \/ Suspend
          \/ rpc' = "refused" /\ lines' = Tail(lines) /\ UNCHANGED <<open, session, flagVars, staged>>
      BY <2>2 DEF AuthReconnect
    <3> QED BY <2>2, <3>1, SuspendingInv, DropInv
  <2>3. CASE Unneeded \/ ParseReconnect
    BY <2>3, SuspendingInv DEF Unneeded, ParseReconnect
  <2> QED BY <1>3, <2>1, <2>2, <2>3, ParseInv, QuietInv, ReadInv, ConnectInv
          DEF RThread, Connecting, Receiving
<1>4. CASE SendFails
  BY <1>4, SuspendingInv DEF SendFails
<1>5. CASE ~crashed /\ (Main \/ GetWork)
  BY <1>5, MainInv
<1> QED BY <1>1, <1>2, <1>3, <1>4, <1>5 DEF Next

LEMMA WorkAlways == Spec => []WorkInv
BY InitInv, StepInv, PTL DEF Spec

(* What stale_work compares is the job_id. *)
LEMMA SameJobFresh ==
  ASSUME UniqueIds, WorkInv, NEW w \in Fresh
  PROVE  active /\ notify /\ swork.job # None /\ w.job = swork.job
<1>1. w \in staged /\ active /\ notify /\ swork.job # None /\ jobs[w.job].id = jobs[swork.job].id
  BY DEF Fresh, StaleWork, SameJob
<1>2. w.job \in 1..Len(jobs) /\ swork.job \in 1..Len(jobs)
  BY <1>1 DEF WorkInv, WorksSound, Sound, JobSound
<1> QED BY <1>1, <1>2 DEF WorkInv, Types

(* With job_ids that are never used twice, no thread mines for a session   *)
(* that is over, after a new one was made, in whatever order main, the     *)
(* sender and the receiver run.                                            *)
THEOREM FreshWorkIsCurrent == ASSUME UniqueIds PROVE Spec => []FreshIsCurrent
<1>1. WorkInv => FreshIsCurrent
  BY SameJobFresh DEF WorkInv, JobSound, FreshIsCurrent, Fresh, StaleWork
<1> QED BY <1>1, WorkAlways, PTL

(* With job_ids that are never used twice, the coinbase of what is mined   *)
(* has the extranonce its job was sent with, and no work that was made     *)
(* under two extranonces is mined once there is a job of the new one.      *)
THEOREM MixedWorkIsGone == ASSUME UniqueIds PROVE Spec => []MixedWorkIsDropped
<1>1. ASSUME WorkInv, NEW w \in Fresh
      PROVE  w.ext = jobs[w.job].ext /\ (nonce1 = coin => w.nonce1 = w.ext)
  <2>1. Sound(w) /\ JobSound /\ w.job = swork.job /\ swork.job # None
    BY <1>1, SameJobFresh DEF WorkInv, WorksSound, Fresh
  <2>2. ASSUME nonce1 = coin PROVE w.nonce1 = w.ext
    <3>1. coin \in Ext /\ nonce1 # None /\ w.ext = coin /\ w.nonce1 \in Ext
      BY <2>1, <2>2, Bounds DEF JobSound, Sound, Ext
    <3>2. w.ext <= w.nonce1 /\ w.nonce1 <= w.ext
      BY <2>1, <2>2, <3>1 DEF Sound
    <3> QED BY <3>1, <3>2 DEF Ext
  <2> QED BY <2>1, <2>2 DEF Sound
<1>2. WorkInv => MixedWorkIsDropped
  BY <1>1 DEF MixedWorkIsDropped
<1> QED BY <1>2, WorkAlways, PTL

(* With job_ids that are never used twice, no share of fresh work is below *)
(* the difficulty of its job.                                              *)
THEOREM FreshWorkIsHard == ASSUME UniqueIds PROVE Spec => []SdiffCoversJob
<1>1. WorkInv => SdiffCoversJob
  BY SameJobFresh DEF WorkInv, JobSound, WorksSound, Sound, SdiffCoversJob, Fresh, StaleWork
<1> QED BY <1>1, WorkAlways, PTL

(* No work is made twice, by a pool that sends no job again as a clean one *)
(* (WorkResent.cfg shows that the hypothesis is needed).                   *)
THEOREM WorkIsNew == ASSUME Resends \subseteq {FALSE} PROVE Spec => NoDuplicateWork
<1>1. WorkInv /\ [Next]_vars => [mpc = "gen" /\ mpc' = "stage" /\ nonce2 < MaxNonce => nonce2 \notin made]_vars
  <2>1. NoneResent
    BY DEF NoneResent
  <2>2. WorkInv => nonce2 \in Nat /\ (nonce2 < MaxNonce => \A n \in made : n < nonce2)
    BY <2>1 DEF WorkInv, Types, NonceUnused
  <2>3. WorkInv /\ nonce2 < MaxNonce => nonce2 \notin made
    BY <2>2
  <2> QED BY <2>3
<1> QED BY <1>1, WorkAlways, PTL DEF Spec, NoDuplicateWork
=============================================================================
