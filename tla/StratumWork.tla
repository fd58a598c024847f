---------------------------- MODULE StratumWork ----------------------------
(***************************************************************************)
(* How the messages of one stratum pool become work: the pool sends its    *)
(* extranonce, difficulties and jobs down a connection; stratum_rthread    *)
(* reads them and rebuilds the connection when it is lost; main turns the  *)
(* newest job into work, as much as it likes, and the mining threads take  *)
(* the work that is not stale.  pool->data_lock makes parse_notify,        *)
(* parse_diff, parse_extranonce and gen_stratum_work one step each;        *)
(* stratum_active and stratum_notify are read and written without it.      *)
(*                                                                         *)
(* A job is a number, an extranonce (nonce1 and n2size) a number.  A work  *)
(* has the job and difficulty of pool->swork, and two extranonces: the one *)
(* in the coinbase, which parse_notify builds (with nonce2_offset), and    *)
(* the present pool->nonce1 and n2size, with which gen_stratum_work fills  *)
(* in nonce2 and a share is submitted.  parse_extranonce replaces only the *)
(* latter.  (A larger n2size then overwrites the coinbase behind nonce2;   *)
(* that, too, is what a work with two extranonces stands for.)  Works of   *)
(* the same kind differ in their nonce2.  Which block a job is of, and the *)
(* counter work_block, are in BlockTest; here the end of test_work_current *)
(* only drops the work that was staged before.                             *)
(*                                                                         *)
(* What is assumed of the pool: it answers mining.subscribe with the       *)
(* extranonce of the session it resumes or with a new one, never with one  *)
(* it has replaced; it sends a job again only as it was; and, if           *)
(* UniqueIds, no two jobs have the same job_id, not even of two sessions.  *)
(* stale_work compares nothing else, so without that last assumption       *)
(* FreshIsCurrent, MixedWorkIsDropped and SdiffCoversJob are false.        *)
(***************************************************************************)
EXTENDS Integers, Sequences, FiniteSets

CONSTANTS
  Resends,     \* which clean_jobs the pool may send a job again with
  UniqueIds,   \* no two jobs have the same job_id
  MaxJob, MaxSession, MaxExt,     \* bounds on what the pool does
  MaxOther,    \* bound on its messages that are neither a new job nor an extranonce
  MaxLines,    \* bound on what is in the socket
  MaxNonce,    \* nonce2 is counted so far
  None

ASSUME StratumWorkAssumption ==
  /\ Resends \subseteq BOOLEAN /\ UniqueIds \in BOOLEAN
  /\ {MaxJob, MaxSession, MaxExt, MaxOther, MaxLines, MaxNonce} \subseteq Nat \ {0}
  /\ None \notin 1..MaxJob /\ None \notin 1..MaxExt

Diff == 1..2
Job == 1..MaxJob
Ext == 1..MaxExt
Work == [job : Job, ext : Ext, nonce1 : Ext, diff : Diff]

VARIABLES
  open, session, lines,   \* the connection: whether there is one, its number, what was not read
  ext, diff, jobs,        \* the pool: what is in force, and with what each job was sent, and its job_id
  others,                 \* how many other messages it has sent
  active, notify,         \* stratum_active, stratum_notify
  nonce1, nextDiff, coin, nonce2,    \* nonce1, next_diff, nonce1 in the coinbase, nonce2
  swork,                  \* swork: job_id, diff, clean
  made,                   \* the nonce2's main has used with this job and coinbase
  locked, crashed,        \* data_lock is never given back; sgminer is gone
  failed,                 \* a send has failed, and no job of a new session come since
  rpc, line,              \* stratum_rthread, and the line it has read
  mpc, item,              \* main
  staged,                 \* the kinds of staged work
  mined                   \* a mining thread has got work of the job in swork

poolVars == <<ext, diff, jobs, others>>
connVars == <<open, session, lines>>
flagVars == <<active, notify>>
jobVars == <<nonce1, nextDiff, coin, nonce2, swork, made, locked, failed>>
rVars == <<rpc, line>>
mainVars == <<mpc, item, crashed>>
workVars == <<staged, mined>>
vars == <<poolVars, connVars, flagVars, jobVars, rVars, mainVars, workVars>>

(* pool_active has connected to the pool and has heard at most a difficulty. *)
Init ==
  /\ open = TRUE /\ session = 1 /\ lines = <<>>
  /\ ext = 1 /\ diff = 1 /\ jobs = <<>> /\ others = 0
  /\ active = TRUE /\ notify = FALSE
  /\ nonce1 = 1 /\ nextDiff \in {0, 1} /\ coin = None /\ nonce2 = 0
  /\ swork = [job |-> None, diff |-> 1, clean |-> FALSE]
  /\ made = {} /\ locked = FALSE /\ failed = FALSE /\ crashed = FALSE
  /\ rpc = "read" /\ line = None
  /\ mpc = "test" /\ item = None /\ staged = {} /\ mined = FALSE

----------------------------------------------------------------------------
(* The pool.  A job is of the session, and sent with the extranonce and    *)
(* the difficulty that are in force.  A pool whose job_ids are not unique  *)
(* counts them anew in each session.                                       *)
Notify(j, c) == [type |-> "notify", job |-> j, clean |-> c]
Send(l) == Len(lines) < MaxLines /\ lines' = Append(lines, l) /\ UNCHANGED <<open, session>>

JobId ==
  IF UniqueIds THEN {Len(jobs) + 1}
  ELSE {i \in Job : \A j \in 1..Len(jobs) : jobs[j].session = session => jobs[j].id # i}

PoolSendsJob ==
  /\ Len(jobs) < MaxJob
  /\ \E i \in JobId : jobs' = Append(jobs, [ext |-> ext, diff |-> diff, session |-> session, id |-> i])
  /\ \E c \in BOOLEAN : Send(Notify(Len(jobs) + 1, c))
  /\ UNCHANGED <<ext, diff, others>>

Another == others < MaxOther /\ others' = others + 1

(* The last job once more, as it was. *)
PoolSendsJobAgain ==
  /\ jobs # <<>>
  /\ jobs[Len(jobs)] = [ext |-> ext, diff |-> diff, session |-> session, id |-> jobs[Len(jobs)].id]
  /\ \E c \in Resends : Send(Notify(Len(jobs), c))
  /\ Another /\ UNCHANGED <<ext, diff, jobs>>

PoolSetsDifficulty ==
  /\ \E d \in Diff \ {diff} : diff' = d /\ Send([type |-> "diff", diff |-> d])
  /\ Another /\ UNCHANGED <<ext, jobs>>

PoolSetsExtranonce ==
  /\ ext < MaxExt /\ ext' = ext + 1
  /\ Send([type |-> "ext", ext |-> ext + 1])
  /\ UNCHANGED <<diff, jobs, others>>

(* client.reconnect; a notify with a field missing; one with a bad header. *)
PoolSendsOther ==
  /\ \/ \E t \in {"reconnect", "malformed"} : Send([type |-> t])
     \/ \E c \in BOOLEAN : Send([type |-> "header", clean |-> c])
  /\ Another /\ UNCHANGED <<ext, diff, jobs>>

Pool ==
  /\ open
  /\ PoolSendsJob \/ PoolSendsJobAgain \/ PoolSetsDifficulty \/ PoolSetsExtranonce \/ PoolSendsOther
  /\ UNCHANGED <<flagVars, jobVars, rVars, mainVars, workVars>>

----------------------------------------------------------------------------
(* What parse_method makes of a line. *)

(* Mutants: nonce2 starts again with every job; the difficulty of the job  *)
(* before.                                                                 *)
MutReplace(j, c) ==
  /\ swork' = [job |-> j, diff |-> IF nextDiff > 0 THEN nextDiff ELSE swork.diff, clean |-> c]
  /\ nonce2' = 0
MutReplaceDiff(j, c) ==
  /\ swork' = [job |-> j, diff |-> swork.diff, clean |-> c]
  /\ nonce2' = IF c THEN 0 ELSE nonce2

(* The job_id, difficulty and clean flag that replace those in swork, and  *)
(* the nonce2 that belongs to them.                                        *)
Replace(j, c) ==
  /\ swork' = [job |-> j, diff |-> IF nextDiff > 0 THEN nextDiff ELSE swork.diff, clean |-> c]
  /\ nonce2' = IF c THEN 0 ELSE nonce2

ParseNotify(l) ==
  /\ Replace(l.job, l.clean)
  /\ coin' = nonce1
  /\ made' = IF l.job = swork.job /\ nonce1 = coin THEN made ELSE {}
  /\ mined' = (mined /\ l.job = swork.job)
  /\ failed' = (failed /\ ~(active /\ jobs[l.job].session = session))
  /\ notify' = TRUE
  /\ UNCHANGED <<nonce1, nextDiff, locked>>

(* The return under data_lock, when the new job has replaced the old one   *)
(* but for its coinbase; no work is made of it, nor the next notify read.  *)
ParseHeader(l) ==
  /\ Replace(None, l.clean)
  /\ locked' = TRUE /\ notify' = FALSE
  /\ made' = {} /\ mined' = FALSE
  /\ UNCHANGED <<nonce1, nextDiff, coin, failed>>

ParseMalformed == notify' = FALSE /\ UNCHANGED <<jobVars, mined>>

(* The first difficulty of a connection holds for the present job, too. *)
ParseDiff(l) ==
  /\ nextDiff' = l.diff
  /\ swork' = IF nextDiff > 0 THEN swork ELSE [swork EXCEPT !.diff = l.diff]
  /\ UNCHANGED <<nonce1, coin, nonce2, made, locked, notify, mined, failed>>

ParseExtranonce(l) ==
  /\ nonce1' = l.ext
  /\ UNCHANGED <<nextDiff, coin, nonce2, swork, made, locked, notify, mined, failed>>

Parse(l) ==
  /\ \/ l.type = "notify" /\ ParseNotify(l)
     \/ l.type = "header" /\ ParseHeader(l)
     \/ l.type = "malformed" /\ ParseMalformed
     \/ l.type = "diff" /\ ParseDiff(l)
     \/ l.type = "ext" /\ ParseExtranonce(l)
  /\ UNCHANGED active
Fails(l) == l.type \in {"header", "malformed"}

----------------------------------------------------------------------------
(* stratum_rthread. *)
At(from, to) == rpc = from /\ rpc' = to
Idle == UNCHANGED <<poolVars, mainVars>>

(* Mutant: stratum_notify is not reset. *)
MutSuspendFlag == active' = FALSE /\ open' = FALSE /\ lines' = <<>> /\ UNCHANGED <<notify, session>>

(* __suspend_stratum. *)
Suspend == active' = FALSE /\ notify' = FALSE /\ open' = FALSE /\ lines' = <<>> /\ UNCHANGED session

Read ==
  /\ At("read", "parse") /\ lines # <<>>
  /\ line' = Head(lines) /\ lines' = Tail(lines)
  /\ UNCHANGED <<open, session, flagVars, jobVars, workVars>> /\ Idle

(* The pool is gone, or silent for 90 seconds: clear_pool_work. *)
Lost ==
  /\ At("read", "restart") /\ lines = <<>> /\ (open => session < MaxSession)
  /\ staged' = {}
  /\ UNCHANGED <<connVars, flagVars, jobVars, line, mined>> /\ Idle

(* The connection is not needed: suspend_stratum, later clear_pool_work.   *)
(* Where restart_stratum goes on is left to "restart".                     *)
Unneeded ==
  /\ At("read", "clear") /\ lines = <<>> /\ session < MaxSession
  /\ Suspend
  /\ UNCHANGED <<jobVars, line, workVars>> /\ Idle
Clear ==
  /\ At("clear", "restart") /\ staged' = {}
  /\ UNCHANGED <<connVars, flagVars, jobVars, line, mined>> /\ Idle

(* parse_method, and whether the job it leaves has to be tested. *)
ParseLine ==
  /\ rpc = "parse" /\ line.type # "reconnect" /\ ~locked
  /\ Parse(line)
  /\ rpc' = (IF swork'.clean /\ ~Fails(line) THEN "gen" ELSE "read") /\ line' = None
  /\ UNCHANGED <<connVars, staged>> /\ Idle

(* parse_reconnect: it is the thread itself that connects again, and only  *)
(* the failure takes it through Lost.                                      *)
ParseReconnect ==
  /\ rpc = "parse" /\ line.type = "reconnect" /\ session < MaxSession
  /\ Suspend /\ staged' = {}
  /\ rpc' \in {"connect", "read"} /\ line' = None
  /\ UNCHANGED <<jobVars, mined>> /\ Idle
(* opt_disable_client_reconnect, or an address that is none. *)
IgnoreReconnect ==
  /\ At("parse", "read") /\ line.type = "reconnect" /\ line' = None
  /\ UNCHANGED <<connVars, flagVars, jobVars, workVars>> /\ Idle

Restart ==
  /\ At("restart", "connect")
  /\ IF active THEN Suspend ELSE UNCHANGED <<connVars, flagVars>>
  /\ UNCHANGED <<jobVars, line, workVars>> /\ Idle

(* initiate_stratum, to the answer to mining.subscribe: a new session, or  *)
(* the old one, whose difficulty the pool still knows but will not send.   *)
Subscribe ==
  /\ At("connect", "activate") /\ session < MaxSession /\ ~locked
  /\ open' = TRUE /\ session' = session + 1 /\ UNCHANGED lines
  /\ ext' \in {ext} \cup {e \in Ext : e = ext + 1} /\ nonce1' = ext'
  /\ diff' = 1
  /\ UNCHANGED <<jobs, others, flagVars, nextDiff, coin, nonce2, swork, made, locked, failed, line, mainVars, workVars>>

(* The pool knows no session, and is asked for a new one. *)
Refused ==
  /\ rpc = "connect" /\ nonce1 # None /\ nonce1' = None
  /\ UNCHANGED <<connVars, flagVars, nextDiff, coin, nonce2, swork, made, locked, failed, rVars, workVars>>
  /\ Idle

Activate ==
  /\ At("activate", "reset") /\ active' = TRUE
  /\ UNCHANGED <<connVars, notify, jobVars, line, workVars>> /\ Idle

(* next_diff and swork.diff, without data_lock. *)
ResetDiff ==
  /\ At("reset", "auth") /\ nextDiff' = 0 /\ swork' = [swork EXCEPT !.diff = 1]
  /\ UNCHANGED <<connVars, flagVars, nonce1, coin, nonce2, made, locked, failed, line, workVars>> /\ Idle

(* subscribe_extranonce and auth_stratum parse what comes before the       *)
(* answer, and test no job.  The answer is the first line that             *)
(* parse_method does not take: a notify that fails is one, and a refusal.  *)
AuthLine ==
  /\ rpc = "auth" /\ lines # <<>> /\ Head(lines).type # "reconnect" /\ ~locked
  /\ Parse(Head(lines)) /\ lines' = Tail(lines)
  /\ rpc' = (IF Fails(Head(lines)) THEN "refused" ELSE "auth")
  /\ UNCHANGED <<open, session, line, staged>> /\ Idle

(* client.reconnect in the place of an answer: parse_method connects and   *)
(* authorises before the caller reads on, which is still at "auth" then;   *)
(* or does not, and the line is the refusal.                               *)
AuthReconnect ==
  /\ rpc = "auth" /\ lines # <<>> /\ Head(lines).type = "reconnect"
  /\ \/ rpc' = "refused" /\ lines' = Tail(lines) /\ UNCHANGED <<open, session, flagVars, staged>>
     \/ rpc' \in {"connect", "refused"} /\ session < MaxSession /\ Suspend /\ staged' = {}
  /\ UNCHANGED <<jobVars, line, mined>> /\ Idle

AuthOK ==
  /\ At("auth", "read")
  /\ UNCHANGED <<connVars, flagVars, jobVars, line, workVars>> /\ Idle
(* No answer, or a refusal, for which only auth_stratum suspends. *)
AuthFails ==
  /\ rpc \in {"auth", "refused"} /\ rpc' = "restart" /\ session < MaxSession
  /\ Suspend \/ UNCHANGED <<connVars, flagVars>>
  /\ UNCHANGED <<jobVars, line, workVars>> /\ Idle

Nonce2After(n) == IF n < MaxNonce THEN n + 1 ELSE n

(* gen_stratum_work: the coinbase as parse_notify has built it, with the   *)
(* nonce1 and n2size there are now.                                        *)
NewWork == [job |-> swork.job, ext |-> coin, nonce1 |-> nonce1, diff |-> swork.diff]

(* A clean job: one work for test_work_current, which makes all work that  *)
(* was staged before it stale.                                             *)
TestJob ==
  /\ At("gen", "read") /\ ~locked
  /\ swork' = [swork EXCEPT !.clean = FALSE] /\ nonce2' = Nonce2After(nonce2)
  /\ staged' = {}
  /\ UNCHANGED <<connVars, flagVars, nonce1, nextDiff, coin, made, locked, failed, line, mined>> /\ Idle

Connecting == Clear \/ Restart \/ Subscribe \/ Activate \/ ResetDiff \/ AuthLine \/ AuthReconnect \/ AuthOK \/ AuthFails
Receiving == Read \/ ParseLine \/ ParseReconnect \/ IgnoreReconnect \/ TestJob
RThread == Connecting \/ Receiving \/ Lost \/ Unneeded \/ Refused

(* stratum_sthread: a send that fails suspends the connection. *)
SendFails ==
  /\ active /\ session < MaxSession /\ Suspend /\ failed' = TRUE
  /\ UNCHANGED <<nonce1, nextDiff, coin, nonce2, swork, made, locked, rVars, workVars>> /\ Idle

----------------------------------------------------------------------------
(* main, and the mining threads. *)
UsablePool ==
  /\ mpc = "test" /\ active /\ notify
  /\ mpc' = "gen"
  /\ UNCHANGED <<item, crashed, poolVars, connVars, flagVars, jobVars, rVars, workVars>>

(* gen_stratum_work; strdup of a nonce1 that is gone ends the program. *)
Generate ==
  /\ mpc = "gen" /\ mpc' = "stage" /\ ~locked
  /\ crashed' = (nonce1 = None)
  /\ item' = NewWork
  /\ nonce2' = Nonce2After(nonce2) /\ made' = made \cup {nonce2}
  /\ UNCHANGED <<nonce1, nextDiff, coin, swork, locked, failed, poolVars, connVars, flagVars, rVars, workVars>>

Stage ==
  /\ mpc = "stage" /\ mpc' = "test"
  /\ staged' = staged \cup {item} /\ item' = None
  /\ UNCHANGED <<crashed, poolVars, connVars, flagVars, jobVars, rVars, mined>>

Main == UsablePool \/ Generate \/ Stage

SameJob(w) == swork.job # None /\ jobs[w.job].id = jobs[swork.job].id

(* Mutants: work is compared with the extranonce of the next job, too; not *)
(* with the job.                                                           *)
MutStaleWork(w) == ~active \/ ~notify \/ ~SameJob(w) \/ w.ext # nonce1
MutStaleWorkAnyJob(w) == ~active \/ ~notify

(* stale_work, less the counter and the age of the work. *)
StaleWork(w) == ~active \/ ~notify \/ ~SameJob(w)

(* get_work: stale work is discarded, and the next one tried; of other     *)
(* work there may be more of its kind.                                     *)
GetWork ==
  /\ \E w \in staged :
       \/ StaleWork(w) /\ staged' = staged \ {w} /\ UNCHANGED mined
       \/ ~StaleWork(w) /\ staged' \in {staged, staged \ {w}} /\ mined' = (mined \/ w.job = swork.job)
  /\ UNCHANGED <<poolVars, connVars, flagVars, jobVars, rVars, mainVars>>

Next == ~crashed /\ (Pool \/ RThread \/ SendFails \/ Main \/ GetWork)

(* The threads run; the pool need not send anything, nor be reachable.     *)
Spec ==
  /\ Init /\ [][Next]_vars
  /\ WF_vars(Receiving) /\ WF_vars(Main) /\ WF_vars(GetWork)

----------------------------------------------------------------------------
TypeOK ==
  /\ open \in BOOLEAN /\ session \in 1..MaxSession /\ Len(lines) <= MaxLines
  /\ ext \in Ext /\ diff \in Diff /\ Len(jobs) <= MaxJob /\ others \in 0..MaxOther
  /\ {active, notify, locked, failed, crashed} \subseteq BOOLEAN
  /\ nonce1 \in Ext \cup {None} /\ coin \in Ext \cup {None}
  /\ nextDiff \in Diff \cup {0} /\ nonce2 \in 0..MaxNonce /\ made \subseteq 0..MaxNonce
  /\ swork.job \in Job \cup {None} /\ swork.diff \in Diff /\ swork.clean \in BOOLEAN
  /\ rpc \in {"read", "parse", "gen", "clear", "restart", "connect", "activate", "reset", "auth", "refused"}
  /\ mpc \in {"test", "gen", "stage"}
  /\ staged \subseteq Work
  /\ (crashed \/ item \in Work \cup {None}) /\ mined \in BOOLEAN

(* The works that a mining thread may get. *)
Fresh == {w \in staged : ~StaleWork(w)}

(* A work that a mining thread gets is of the connection that stands: no   *)
(* work of a lost session is taken after a new one was made, in whatever   *)
(* order main and the receiving thread run, because stratum_notify stays   *)
(* false until the first job of the new session is there.  (A failed send  *)
(* of stratum_sthread suspends the connection while stratum_rthread may    *)
(* have a notify in hand, which then sets the flag again.)  Of the job_id, *)
(* which is all that is compared besides the flags, it supposes UniqueIds: *)
(* a pool that gives a job of the new session the id of an old one gets    *)
(* the old work that main had in hand when the old session was lost.       *)
FreshIsCurrent == ~failed => \A w \in Fresh : jobs[w.job].session = session

(* The coinbase of what is mined has the extranonce the pool sent the job  *)
(* with, and once coinbase and pool->nonce1 agree again, no work is mined  *)
(* that was made when they did not.  They do not agree from a              *)
(* set_extranonce to the next notify (parse_extranonce leaves the coinbase *)
(* as it is), and a work made then is submitted with an extranonce it does *)
(* not have in its coinbase (FreshIsUnmixed).  What is promised is that    *)
(* this ends with the first job after that, whatever was staged or in      *)
(* main's hands.  (Given UniqueIds.)                                       *)
MixedWorkIsDropped ==
  \A w \in Fresh : w.ext = jobs[w.job].ext /\ (nonce1 = coin => w.nonce1 = w.ext)

(* False: a work mixes two extranonces. *)
FreshIsUnmixed == \A w \in Fresh : w.nonce1 = w.ext

(* The shares of a work are not below the difficulty of its job.  (Given   *)
(* UniqueIds, like FreshIsCurrent.)                                        *)
SdiffCoversJob == ~failed => \A w \in Fresh : w.diff >= jobs[w.job].diff

(* No two works have the same coinbase and the same nonce2: the mining     *)
(* threads never do the same work twice.                                   *)
NoDuplicateWork == [][mpc = "gen" /\ mpc' = "stage" /\ nonce2 < MaxNonce => nonce2 \notin made]_vars

(* The newest job is mined, as long as it stays the newest one and the     *)
(* connection stands, and the program does not end (crashed).              *)
NewJobIsMined ==
  \A j \in Job : (swork.job = j /\ active /\ notify) ~>
      (swork.job # j \/ ~active \/ ~notify \/ mined \/ crashed)
=============================================================================
