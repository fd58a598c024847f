--------------------------- MODULE StratumShares ---------------------------
(***************************************************************************)
(* The life of a share submitted to a stratum pool.                        *)
(*                                                                         *)
(* Every stratum pool has two threads.  stratum_sthread takes found shares *)
(* from the pool's queue, sends them and records them in the global table  *)
(* stratum_shares.  stratum_rthread reads the pool's answers, removes the  *)
(* answered share from the table and accounts for it; it also notices a    *)
(* broken or unneeded connection, throws away what can no longer be        *)
(* answered and reconnects.  The two threads share the socket and the flag *)
(* stratum_active (under stratum_lock), the table and the pool's counter   *)
(* sshares (under sshare_lock) and the message id swork_id.                *)
(*                                                                         *)
(* sshare_lock is held over several steps only by stratum_sthread, so only *)
(* its holds are explicit (sshareLock); the other critical sections are    *)
(* one step that waits for the lock to be free.  stratum_lock is never     *)
(* held over another step of the model.                                    *)
(***************************************************************************)
EXTENDS Integers, Sequences, FiniteSets

CONSTANTS
  Pool,         \* the stratum pools
  Share,        \* the shares the mining threads will find
  PoolOf,       \* [Share -> Pool]: work->pool
  LongNonce2,   \* the shares whose work->nonce2_len exceeds 8
  LowMem,       \* opt_lowmem
  Window,       \* bound: a submission is retried while its age is below this
                \* (120 s in the code, in units of the 5 s sleep)
  MaxConn,      \* bound: connections the network grants a pool
  Administered, \* bound: the pools the operator disables, enables or removes
  NoPool,       \* "sshare_lock is free"
  NoShare       \* "no share"; the authorisation request, where a share's is expected

ASSUME StratumAssumption ==
  /\ IsFiniteSet(Share)
  /\ PoolOf \in [Share -> Pool]
  /\ LongNonce2 \subseteq Share
  /\ LowMem \in BOOLEAN
  /\ Window \in Nat /\ MaxConn \in Nat
  /\ Administered \subseteq Pool
  /\ NoPool \notin Pool
  /\ NoShare \notin Share

VARIABLES
  admin,        \* [Pool -> "enabled" | "disabled" | "removed"]
  sock,         \* [Pool -> "closed" | "up" | "dead"]; dead: the peer is gone, nobody noticed
  active,       \* [Pool -> BOOLEAN]: stratum_active
  conn,         \* [Pool -> Nat]: connections made so far
  nonce1,       \* [Pool -> Nat]: the session's nonce1 (the connection that opened it), 0: NULL
  resumable,    \* [Pool -> BOOLEAN]: sessionid # NULL
  owed,         \* [Pool -> SUBSET (Share \cup {NoShare})]: requests the pool will answer
  replies,      \* [Pool -> Seq]: answers on their way to the miner
  queue,        \* [Pool -> Seq(Share)]: stratum_q
  frozen,       \* [Pool -> BOOLEAN]: stratum_q->frozen
  workNonce1,   \* [Share -> Nat]: work->nonce1
  id,           \* [Share -> Nat]: sshare->id
  sworkId,      \* swork_id
  sshareLock,   \* the pool whose stratum_sthread holds sshare_lock, or NoPool
  stratumShares,\* the shares in the table stratum_shares
  sshares,      \* [Pool -> Int]: pool->sshares
  fate,         \* [Share -> ...]: what the statistics and the allocator know of the share
  guessed,      \* answers accounted for without a share: "untracked"
  spc, sshare, age,              \* stratum_sthread: control, sshare, time since sshare_time
  rpc, mode, noresume, tmpId, answered            \* stratum_rthread, see below

netVars  == <<sock, active, conn, nonce1, resumable, owed, replies>>
tabVars  == <<sshareLock, stratumShares, sshares>>
qVars    == <<queue, frozen, workNonce1>>
sVars    == <<spc, sshare, age>>
rVars    == <<rpc, mode, noresume, tmpId, answered>>
vars     == <<admin, netVars, qVars, id, sworkId, tabVars, fate, guessed, sVars, rVars>>

SPC == {"head", "pop", "id", "try", "failed", "add", "match", "exit"}
RPC == {"head", "idle", "idleClear", "waitlp", "recv", "account", "lost", "restart",
        "subscribe", "subWait", "authorize", "authWait", "down", "exit"}
(* Which of its calls of restart_stratum stratum_rthread is in: after an   *)
(* idle suspension, after a lost connection (and their retries), or in     *)
(* parse_reconnect.                                                        *)
Mode == {"none", "idle", "lost", "idleRetry", "lostRetry", "reconnect"}
Settled == {"accepted", "rejected", "stale", "discarded"}
Request == Share \cup {NoShare}
(* What the answer says is chosen when its line is read. *)
Answer == [to : Request, id : Nat]

Init ==
  /\ admin = [p \in Pool |-> "enabled"]
  /\ sock = [p \in Pool |-> "up"]
  /\ active = [p \in Pool |-> TRUE]
  /\ conn = [p \in Pool |-> 1]
  /\ nonce1 = [p \in Pool |-> 1]
  /\ resumable \in [Pool -> BOOLEAN]
  /\ owed = [p \in Pool |-> {}]
  /\ replies = [p \in Pool |-> <<>>]
  /\ queue = [p \in Pool |-> <<>>]
  /\ frozen = [p \in Pool |-> FALSE]
  /\ workNonce1 = [s \in Share |-> 0]
  /\ id = [s \in Share |-> 0]
  /\ sworkId = 0
  /\ sshareLock = NoPool
  /\ stratumShares = {}
  /\ sshares = [p \in Pool |-> 0]
  /\ fate = [s \in Share |-> "none"]
  /\ guessed = {}
  /\ spc = [p \in Pool |-> "head"]
  /\ sshare = [p \in Pool |-> NoShare]
  /\ age = [p \in Pool |-> 0]
  /\ rpc = [p \in Pool |-> "head"]
  /\ mode = [p \in Pool |-> "none"]
  /\ noresume = [p \in Pool |-> FALSE]
  /\ tmpId = [p \in Pool |-> 0]
  /\ answered = [p \in Pool |-> NoShare]

----------------------------------------------------------------------------
(* Operations both threads call.                                           *)

(* __suspend_stratum: the socket is closed and what it buffered is gone.   *)
SuspendStratum(p) ==
  /\ active' = [active EXCEPT ![p] = FALSE]
  /\ sock' = [sock EXCEPT ![p] = "closed"]
  /\ replies' = [replies EXCEPT ![p] = <<>>]
  /\ UNCHANGED <<conn, nonce1, resumable, owed>>

(* __stratum_send succeeds on a socket whose peer is gone, too: the line   *)
(* is then lost.                                                           *)
Send(p, r) ==
  /\ sock[p] # "closed"
  /\ owed' = [owed EXCEPT ![p] = IF sock[p] = "up" THEN @ \cup {r} ELSE @]
  /\ UNCHANGED <<sock, active, conn, nonce1, resumable, replies>>

Settle(s, f) == fate' = [fate EXCEPT ![s] = f]

(* Mutants: the record stays in the table; the counter is not adjusted. *)
MutClearWithoutDelete(p) ==
  /\ sshareLock = NoPool
  /\ fate' = [s \in Share |-> IF s \in stratumShares /\ PoolOf[s] = p THEN "stale" ELSE fate[s]]
  /\ UNCHANGED tabVars
MutClearWithoutCount(p) ==
  LET cleared == {s \in stratumShares : PoolOf[s] = p} IN
  /\ sshareLock = NoPool
  /\ stratumShares' = stratumShares \ cleared
  /\ fate' = [s \in Share |-> IF s \in cleared THEN "stale" ELSE fate[s]]
  /\ UNCHANGED <<sshareLock, sshares>>

(* clear_stratum_shares: every share of the pool leaves the table as stale *)
ClearStratumShares(p) ==
  LET cleared == {s \in stratumShares : PoolOf[s] = p} IN
  /\ sshareLock = NoPool
  /\ stratumShares' = stratumShares \ cleared
  /\ sshares' = [sshares EXCEPT ![p] = @ - Cardinality(cleared)]
  /\ fate' = [s \in Share |-> IF s \in cleared THEN "stale" ELSE fate[s]]
  /\ UNCHANGED sshareLock

----------------------------------------------------------------------------
(* The rest of the program.                                                *)

(* submit_work_async: a share is judged stale at once, queued for its      *)
(* pool, or discarded when the queue of a removed pool is frozen.  Its     *)
(* work was generated in this or an earlier session of the pool.           *)
SubmitWorkAsync(s) ==
  LET p == PoolOf[s] IN
  /\ fate[s] = "none"
  /\ \/ /\ Settle(s, "stale")
        /\ UNCHANGED <<queue, workNonce1>>
     \/ /\ frozen[p]
        /\ Settle(s, "discarded")
        /\ UNCHANGED <<queue, workNonce1>>
     \/ /\ ~frozen[p]
        /\ Settle(s, "queued")
        /\ queue' = [queue EXCEPT ![p] = Append(@, s)]
        /\ \E n \in 1..conn[p] : workNonce1' = [workNonce1 EXCEPT ![s] = n]
  /\ UNCHANGED <<admin, netVars, frozen, id, sworkId, tabVars, guessed, sVars, rVars>>

(* The API disables, enables or removes the pool. *)
Administer(p) ==
  /\ p \in Administered /\ admin[p] # "removed"
  /\ \E a \in {"enabled", "disabled", "removed"} :
       /\ a = "removed" => admin[p] = "disabled"
       /\ admin' = [admin EXCEPT ![p] = a]
  /\ UNCHANGED <<netVars, qVars, id, sworkId, tabVars, fate, guessed, sVars, rVars>>

(* The pool (external) answers a request it received, in any order, once   *)
(* the connection has its session.                                         *)
PoolAnswers(p) ==
  /\ sock[p] = "up" /\ rpc[p] \notin {"subscribe", "subWait"}
  /\ \E r \in owed[p] :
       /\ owed' = [owed EXCEPT ![p] = @ \ {r}]
       /\ replies' = [replies EXCEPT ![p] = Append(@,
                        [to |-> r, id |-> IF r = NoShare THEN tmpId[p] ELSE id[r]])]
  /\ UNCHANGED <<admin, sock, active, conn, nonce1, resumable, qVars, id, sworkId, tabVars,
                 fate, guessed, sVars, rVars>>

(* The pool (external) or the network goes away. *)
PoolDies(p) ==
  /\ sock[p] = "up"
  /\ sock' = [sock EXCEPT ![p] = "dead"]
  /\ UNCHANGED <<admin, active, conn, nonce1, resumable, owed, replies, qVars, id, sworkId,
                 tabVars, fate, guessed, sVars, rVars>>

----------------------------------------------------------------------------
(* stratum_sthread.                                                        *)

SGoto(p, l) == spc' = [spc EXCEPT ![p] = l]

(* Back to the head of the loop, whose locals start afresh. *)
SDone(p) ==
  /\ sshare' = [sshare EXCEPT ![p] = NoShare]
  /\ age' = [age EXCEPT ![p] = 0]
  /\ SGoto(p, "head")

(* The head of the loop: a removed pool's queue is frozen for good. *)
SHead(p) ==
  /\ spc[p] = "head"
  /\ IF admin[p] = "removed"
     THEN SGoto(p, "exit") /\ frozen' = [frozen EXCEPT ![p] = TRUE]
     ELSE SGoto(p, "pop") /\ UNCHANGED frozen
  /\ UNCHANGED <<admin, netVars, queue, workNonce1, id, sworkId, tabVars, fate, guessed,
                 sshare, age, rVars>>

(* tq_pop, and the check of the nonce2 length. *)
SPop(p) ==
  /\ spc[p] = "pop"
  /\ queue[p] # <<>>
  /\ queue' = [queue EXCEPT ![p] = Tail(@)]
  /\ LET s == Head(queue[p]) IN
       IF s \in LongNonce2
       THEN /\ Settle(s, "discarded")
            /\ SGoto(p, "head")
            /\ UNCHANGED sshare
       ELSE /\ sshare' = [sshare EXCEPT ![p] = s]
            /\ SGoto(p, "id")
            /\ UNCHANGED fate
  /\ UNCHANGED <<admin, netVars, frozen, workNonce1, id, sworkId, tabVars, guessed, age, rVars>>

(* Mutant: the id before the one the counter stands for. *)
MutSId(p) ==
  /\ spc[p] = "id" /\ sshareLock = NoPool
  /\ id' = [id EXCEPT ![sshare[p]] = sworkId - 1]
  /\ sworkId' = sworkId + 1
  /\ SGoto(p, "try")
  /\ UNCHANGED <<admin, netVars, qVars, tabVars, fate, guessed, sshare, age, rVars>>

(* sshare->id = swork_id++ under sshare_lock. *)
SId(p) ==
  /\ spc[p] = "id"
  /\ sshareLock = NoPool
  /\ id' = [id EXCEPT ![sshare[p]] = sworkId]
  /\ sworkId' = sworkId + 1
  /\ SGoto(p, "try")
  /\ UNCHANGED <<admin, netVars, qVars, tabVars, fate, guessed, sshare, age, rVars>>

(* Mutant: sshare_lock is released between the send and HASH_ADD. *)
MutSSend(p) ==
  /\ spc[p] = "try" /\ age[p] < Window
  /\ sshareLock = NoPool
  /\ \/ active[p] /\ Send(p, sshare[p]) /\ SGoto(p, "add")
     \/ ~active[p] /\ SGoto(p, "match") /\ UNCHANGED netVars
  /\ UNCHANGED <<admin, qVars, id, sworkId, tabVars, fate, guessed, sshare, age, rVars>>

(* An attempt of the retry loop: lock, and send if stratum_active. *)
SSend(p) ==
  /\ spc[p] = "try" /\ age[p] < Window
  /\ sshareLock = NoPool
  /\ \/ active[p] /\ Send(p, sshare[p]) /\ sshareLock' = p /\ SGoto(p, "add")
     \/ active[p] /\ sshareLock' = p /\ SGoto(p, "failed") /\ UNCHANGED netVars
     \/ ~active[p] /\ SGoto(p, "match") /\ UNCHANGED <<netVars, sshareLock>>
  /\ UNCHANGED <<admin, qVars, id, sworkId, stratumShares, sshares, fate, guessed, sshare, age,
                 rVars>>

(* The send failed: stratum_send suspends whatever connection there is by  *)
(* now, and sshare_lock is released.                                       *)
SSendFailed(p) ==
  /\ spc[p] = "failed"
  /\ SuspendStratum(p)
  /\ sshareLock' = NoPool
  /\ SGoto(p, "match")
  /\ UNCHANGED <<admin, qVars, id, sworkId, stratumShares, sshares, fate, guessed, sshare, age,
                 rVars>>

(* The send succeeded: the share enters the table before sshare_lock is    *)
(* released.                                                               *)
SAdd(p) ==
  /\ spc[p] = "add"
  /\ stratumShares' = stratumShares \cup {sshare[p]}
  /\ sshares' = [sshares EXCEPT ![p] = @ + 1]
  /\ sshareLock' = NoPool
  /\ SDone(p)
  /\ UNCHANGED <<admin, netVars, qVars, id, sworkId, fate, guessed, rVars>>

(* Not submitted: opt_lowmem, a new session or the end of the two minutes. *)
SGiveUp(p) ==
  /\ \/ spc[p] = "match" /\ (LowMem \/ workNonce1[sshare[p]] # nonce1[p])
     \/ spc[p] = "try" /\ age[p] >= Window
  /\ Settle(sshare[p], "stale")
  /\ SDone(p)
  /\ UNCHANGED <<admin, netVars, qVars, id, sworkId, tabVars, guessed, rVars>>

(* Mutant: the two minutes start afresh with every attempt. *)
MutSSleep(p) ==
  /\ spc[p] = "match"
  /\ ~LowMem /\ nonce1[p] # 0 /\ workNonce1[sshare[p]] = nonce1[p]
  /\ SGoto(p, "try")
  /\ UNCHANGED <<admin, netVars, qVars, id, sworkId, tabVars, fate, guessed, sshare, age, rVars>>

(* The session still matches: sleep and try again. *)
SSleep(p) ==
  /\ spc[p] = "match"
  /\ ~LowMem /\ nonce1[p] # 0 /\ workNonce1[sshare[p]] = nonce1[p]
  /\ \E t \in age[p] + 1 .. Window : age' = [age EXCEPT ![p] = t]
  /\ SGoto(p, "try")
  /\ UNCHANGED <<admin, netVars, qVars, id, sworkId, tabVars, fate, guessed, sshare, rVars>>

SThread(p) ==
  \/ SHead(p) \/ SPop(p) \/ SId(p) \/ SSend(p) \/ SSendFailed(p) \/ SAdd(p) \/ SGiveUp(p)
  \/ SSleep(p)

----------------------------------------------------------------------------
(* stratum_rthread.                                                        *)

RGoto(p, l) == rpc' = [rpc EXCEPT ![p] = l]

(* cnx_needed: shares without an answer keep an enabled pool's connection. *)
(* Its other reasons (strategy, current pool, no work) are left open.      *)
MayIdle(p) == admin[p] # "enabled" \/ sshares[p] = 0

(* The head of the loop: leave, suspend an unneeded connection, or receive. *)
RHead(p) ==
  /\ rpc[p] = "head"
  /\ \/ admin[p] = "removed" /\ RGoto(p, "exit")
     \/ admin[p] # "removed" /\ replies[p] = <<>> /\ MayIdle(p) /\ RGoto(p, "idle")
     \/ admin[p] = "enabled" /\ RGoto(p, "recv")
     \/ admin[p] = "disabled" /\ replies[p] # <<>> /\ RGoto(p, "recv")
  /\ UNCHANGED <<admin, netVars, qVars, id, sworkId, tabVars, fate, guessed, sVars,
                 mode, noresume, tmpId, answered>>

(* Mutant: the shares are cleared while the connection is still active. *)
MutRSuspendIdle(p) ==
  /\ rpc[p] = "idle"
  /\ RGoto(p, "idleClear")
  /\ UNCHANGED <<admin, netVars, qVars, id, sworkId, tabVars, fate, guessed, sVars,
                 mode, noresume, tmpId, answered>>

RSuspendIdle(p) ==
  /\ rpc[p] = "idle"
  /\ SuspendStratum(p)
  /\ RGoto(p, "idleClear")
  /\ UNCHANGED <<admin, qVars, id, sworkId, tabVars, fate, guessed, sVars,
                 mode, noresume, tmpId, answered>>

RClearIdle(p) ==
  /\ rpc[p] = "idleClear"
  /\ ClearStratumShares(p)
  /\ RGoto(p, "waitlp")
  /\ UNCHANGED <<admin, netVars, qVars, id, sworkId, guessed, sVars,
                 mode, noresume, tmpId, answered>>

(* wait_lpcurrent returns: the pool is needed again. *)
RWanted(p) ==
  /\ rpc[p] = "waitlp"
  /\ admin[p] = "enabled"
  /\ RGoto(p, "restart") /\ mode' = [mode EXCEPT ![p] = "idle"]
  /\ UNCHANGED <<admin, netVars, qVars, id, sworkId, tabVars, fate, guessed, sVars,
                 noresume, tmpId, answered>>

(* recv_line returned an answer: parse_stratum_response looks its id up,   *)
(* takes the share out of the table, or counts the answer as untracked.    *)
RResponse(p) ==
  /\ rpc[p] = "recv" /\ sock[p] # "closed" /\ replies[p] # <<>>
  /\ sshareLock = NoPool
  /\ LET a == Head(replies[p])
         found == {s \in stratumShares : id[s] = a.id} IN
     /\ IF found = {}
        THEN /\ guessed' = guessed \cup {a.to}
             /\ RGoto(p, "head")
             /\ UNCHANGED <<stratumShares, sshares, answered>>
        ELSE \E s \in found :
             /\ stratumShares' = stratumShares \ {s}
             /\ sshares' = [sshares EXCEPT ![p] = @ - 1]
             /\ answered' = [answered EXCEPT ![p] = s]
             /\ RGoto(p, "account")
             /\ UNCHANGED guessed
  /\ replies' = [replies EXCEPT ![p] = Tail(@)]
  /\ UNCHANGED <<admin, sock, active, conn, nonce1, resumable, owed, qVars, id, sworkId,
                 sshareLock, fate, sVars, mode, noresume, tmpId>>

(* stratum_share_result, by what the answer says; then the share's work is *)
(* freed.                                                                  *)
RShareResult(p) ==
  /\ rpc[p] = "account"
  /\ \E f \in {"accepted", "rejected"} : Settle(answered[p], f)
  /\ answered' = [answered EXCEPT ![p] = NoShare]
  /\ RGoto(p, "head")
  /\ UNCHANGED <<admin, netVars, qVars, id, sworkId, tabVars, guessed, sVars,
                 mode, noresume, tmpId>>

(* parse_method: client.reconnect suspends and restarts; any other method  *)
(* (mining.notify, mining.set_difficulty ...) leaves the shares alone.     *)
RMethod(p) ==
  /\ rpc[p] = "recv" /\ sock[p] = "up"
  /\ \/ RGoto(p, "head") /\ UNCHANGED <<netVars, mode>>
     \/ /\ SuspendStratum(p)
        /\ RGoto(p, "restart") /\ mode' = [mode EXCEPT ![p] = "reconnect"]
  /\ UNCHANGED <<admin, qVars, id, sworkId, tabVars, fate, guessed, sVars,
                 noresume, tmpId, answered>>

(* Nothing for 90 seconds (the connection stays as it is), or recv_line    *)
(* found the socket closed and suspended it.                               *)
RLost(p) ==
  /\ rpc[p] = "recv" /\ replies[p] = <<>>
  /\ \/ UNCHANGED netVars
     \/ sock[p] # "up" /\ SuspendStratum(p)
  /\ RGoto(p, "lost")
  /\ UNCHANGED <<admin, qVars, id, sworkId, tabVars, fate, guessed, sVars,
                 mode, noresume, tmpId, answered>>

(* "all tracked submitted shares are lost": cleared unless the session may *)
(* be resumed.                                                             *)
RClearLost(p) ==
  /\ rpc[p] = "lost"
  /\ IF ~resumable[p] \/ LowMem
     THEN ClearStratumShares(p)
     ELSE UNCHANGED <<tabVars, fate>>
  /\ RGoto(p, "restart") /\ mode' = [mode EXCEPT ![p] = "lost"]
  /\ UNCHANGED <<admin, netVars, qVars, id, sworkId, guessed, sVars,
                 noresume, tmpId, answered>>

----------------------------------------------------------------------------
(* restart_stratum.                                                        *)

(* It failed: parse_reconnect goes back to the loop; the loop tries once   *)
(* more (pool_died), then every 30 seconds (pool_failed).                  *)
RestartFails(p) ==
  /\ \/ mode[p] = "reconnect" /\ RGoto(p, "head") /\ mode' = [mode EXCEPT ![p] = "none"]
     \/ mode[p] = "idle" /\ RGoto(p, "restart") /\ mode' = [mode EXCEPT ![p] = "idleRetry"]
     \/ mode[p] = "lost" /\ RGoto(p, "restart") /\ mode' = [mode EXCEPT ![p] = "lostRetry"]
     \/ mode[p] \in {"idleRetry", "lostRetry"} /\ RGoto(p, "down") /\ UNCHANGED mode
  /\ noresume' = [noresume EXCEPT ![p] = FALSE]

RDown(p) ==
  /\ rpc[p] = "down"
  /\ RGoto(p, IF admin[p] = "removed" THEN "exit" ELSE "restart")
  /\ UNCHANGED <<admin, netVars, qVars, id, sworkId, tabVars, fate, guessed, sVars,
                 mode, noresume, tmpId, answered>>

(* setup_stratum_socket closes what restart_stratum did not suspend, and   *)
(* connects.  mining.subscribe and mining.authorize take their ids by      *)
(* swork_id++ without sshare_lock: here the read, in the next step the     *)
(* write.                                                                  *)
RConnect(p) ==
  /\ rpc[p] = "restart"
  /\ active' = [active EXCEPT ![p] = FALSE]
  /\ replies' = [replies EXCEPT ![p] = <<>>]
  /\ \/ /\ sock' = [sock EXCEPT ![p] = "closed"]
        /\ RestartFails(p)
        /\ UNCHANGED <<conn, tmpId>>
     \/ /\ conn[p] < MaxConn
        /\ conn' = [conn EXCEPT ![p] = @ + 1]
        /\ sock' = [sock EXCEPT ![p] = "up"]
        /\ tmpId' = [tmpId EXCEPT ![p] = sworkId]
        /\ RGoto(p, "subscribe")
        /\ UNCHANGED <<mode, noresume>>
  /\ UNCHANGED <<admin, nonce1, resumable, owed, qVars, id, sworkId, tabVars, fate, guessed,
                 sVars, answered>>

RSubscribe(p) ==
  /\ rpc[p] = "subscribe"
  /\ sworkId' = tmpId[p] + 1
  /\ RGoto(p, "subWait")
  /\ UNCHANGED <<admin, netVars, qVars, id, tabVars, fate, guessed, sVars,
                 mode, noresume, tmpId, answered>>

(* The answer to mining.subscribe: the old session again, or a new one,    *)
(* with or without a session id.  stratum_active is set without the lock,  *)
(* and a moment after the session: no share can be sent in between.  (The  *)
(* difficulty, which is set next, is in StratumWork.)                      *)
RSubscribed(p) ==
  /\ rpc[p] = "subWait" /\ sock[p] = "up"
  /\ \/ resumable[p] /\ ~noresume[p] /\ UNCHANGED <<nonce1, owed>>
     \/ nonce1' = [nonce1 EXCEPT ![p] = conn[p]] /\ owed' = [owed EXCEPT ![p] = {}]
  /\ \E r \in BOOLEAN : resumable' = [resumable EXCEPT ![p] = r]
  /\ active' = [active EXCEPT ![p] = TRUE]
  /\ noresume' = [noresume EXCEPT ![p] = FALSE]
  /\ tmpId' = [tmpId EXCEPT ![p] = sworkId]
  /\ RGoto(p, "authorize")
  /\ UNCHANGED <<admin, sock, conn, replies, qVars, id, sworkId, tabVars, fate, guessed, sVars,
                 mode, answered>>

(* An answer that is not understood: forget the session and subscribe once *)
(* more on a new connection.                                               *)
RSubscribeAfresh(p) ==
  /\ rpc[p] = "subWait" /\ sock[p] = "up" /\ ~noresume[p]
  /\ nonce1' = [nonce1 EXCEPT ![p] = 0]
  /\ resumable' = [resumable EXCEPT ![p] = FALSE]
  /\ noresume' = [noresume EXCEPT ![p] = TRUE]
  /\ RGoto(p, "restart")
  /\ UNCHANGED <<admin, sock, active, conn, owed, replies, qVars, id, sworkId, tabVars, fate,
                 guessed, sVars, mode, tmpId, answered>>

(* No answer to mining.subscribe, or a second useless one. *)
RSubscribeFails(p) ==
  /\ rpc[p] = "subWait"
  /\ SuspendStratum(p)
  /\ RestartFails(p)
  /\ UNCHANGED <<admin, qVars, id, sworkId, tabVars, fate, guessed, sVars, tmpId, answered>>

(* auth_stratum sends mining.authorize; a failed send suspends. *)
RAuthorize(p) ==
  /\ rpc[p] = "authorize"
  /\ sworkId' = tmpId[p] + 1
  /\ \/ active[p] /\ Send(p, NoShare) /\ RGoto(p, "authWait") /\ UNCHANGED <<mode, noresume>>
     \/ active[p] /\ SuspendStratum(p) /\ RestartFails(p)
     \/ ~active[p] /\ UNCHANGED netVars /\ RestartFails(p)
  /\ UNCHANGED <<admin, qVars, id, tabVars, fate, guessed, sVars, tmpId, answered>>

(* "Parse all data in the queue and anything left should be auth": the     *)
(* first line that is not a method is taken for the answer, good or bad.   *)
(* The methods before it are left out, and with them a client.reconnect,   *)
(* which would make and authorise a connection within this one; they are   *)
(* in StratumWork (AuthLine, AuthReconnect).                               *)
RAuthorized(p) ==
  /\ rpc[p] = "authWait" /\ sock[p] # "closed" /\ replies[p] # <<>>
  /\ \/ /\ replies' = [replies EXCEPT ![p] = Tail(@)]
        /\ RGoto(p, IF mode[p] \in {"idle", "idleRetry"} THEN "recv" ELSE "head")
        /\ mode' = [mode EXCEPT ![p] = "none"]
        /\ UNCHANGED <<sock, active, conn, nonce1, resumable, owed, noresume>>
     \/ SuspendStratum(p) /\ RestartFails(p)
  /\ UNCHANGED <<admin, qVars, id, sworkId, tabVars, fate, guessed, sVars, tmpId, answered>>

(* recv_line gives up in auth_stratum: by a timeout, which leaves          *)
(* stratum_active set, or on a socket it finds closed and suspends.        *)
RAuthTimeout(p) ==
  /\ rpc[p] = "authWait" /\ replies[p] = <<>>
  /\ \/ UNCHANGED netVars
     \/ sock[p] # "up" /\ SuspendStratum(p)
  /\ RestartFails(p)
  /\ UNCHANGED <<admin, qVars, id, sworkId, tabVars, fate, guessed, sVars, tmpId, answered>>

RLoop(p) ==
  \/ RHead(p) \/ RSuspendIdle(p) \/ RClearIdle(p) \/ RWanted(p) \/ RResponse(p)
  \/ RShareResult(p) \/ RMethod(p) \/ RLost(p) \/ RClearLost(p)
RestartStratum(p) ==
  \/ RDown(p) \/ RConnect(p) \/ RSubscribe(p) \/ RSubscribed(p) \/ RSubscribeAfresh(p)
  \/ RSubscribeFails(p) \/ RAuthorize(p) \/ RAuthorized(p) \/ RAuthTimeout(p)

Next ==
  \/ \E s \in Share : SubmitWorkAsync(s)
  \/ \E p \in Pool : \/ Administer(p) \/ PoolAnswers(p) \/ PoolDies(p)
                      \/ SThread(p) \/ RLoop(p) \/ RestartStratum(p)

Spec == Init /\ [][Next]_vars

----------------------------------------------------------------------------
(* What must hold.                                                         *)

(* Type correctness of every variable: the sockets, the queues, the table, *)
(* the two threads' control.                                               *)
NetOK ==
  /\ sock \in [Pool -> {"closed", "up", "dead"}]
  /\ active \in [Pool -> BOOLEAN]
  /\ conn \in [Pool -> Nat] /\ nonce1 \in [Pool -> Nat]
  /\ resumable \in [Pool -> BOOLEAN]
  /\ owed \in [Pool -> SUBSET Request]
  /\ replies \in [Pool -> Seq(Answer)]
QueueOK ==
  /\ queue \in [Pool -> Seq(Share)]
  /\ frozen \in [Pool -> BOOLEAN]
  /\ workNonce1 \in [Share -> Nat]
IdOK == id \in [Share -> Nat] /\ sworkId \in Nat
TableOK ==
  /\ sshareLock \in Pool \cup {NoPool}
  /\ stratumShares \subseteq Share
  /\ sshares \in [Pool -> Int]
FateOK ==
  /\ fate \in [Share -> {"none", "queued"} \cup Settled]
  /\ guessed \subseteq Request
SThreadOK ==
  /\ spc \in [Pool -> SPC]
  /\ sshare \in [Pool -> Request]
  /\ \A p \in Pool : spc[p] \notin {"head", "pop", "exit"} => sshare[p] \in Share
  /\ age \in [Pool -> Nat]
RThreadOK ==
  /\ rpc \in [Pool -> RPC]
  /\ mode \in [Pool -> Mode]
  /\ noresume \in [Pool -> BOOLEAN]
  /\ tmpId \in [Pool -> Nat]
  /\ answered \in [Pool -> Request]
  /\ \A p \in Pool : rpc[p] = "account" => answered[p] \in Share
TypeOK ==
  /\ admin \in [Pool -> {"enabled", "disabled", "removed"}]
  /\ NetOK /\ QueueOK /\ IdOK /\ TableOK /\ FateOK /\ SThreadOK /\ RThreadOK

Queued(p) == {queue[p][i] : i \in 1..Len(queue[p])}

(* A share whose fate is open is in exactly one place: its pool's queue,   *)
(* in the hands of its pool's stratum_sthread, in stratum_shares, or in    *)
(* the hands of one stratum_rthread; a settled share is in none (its work  *)
(* is freed).  Anything else is a leak, a use after free or a double free  *)
(* of sshare->work across the two threads.                                 *)
Places(s) ==
     {<<"queue", p>> : p \in {q \in Pool : s \in Queued(q)}}
  \cup {<<"sending", p>> : p \in {q \in Pool : sshare[q] = s}}
  \cup {<<"table", NoPool>> : t \in stratumShares \cap {s}}
  \cup {<<"answered", p>> : p \in {q \in Pool : answered[q] = s}}

SharesHaveOnePlace ==
  \A s \in Share : Cardinality(Places(s)) = IF fate[s] = "queued" THEN 1 ELSE 0

(* pool->sshares, read without a lock by cnx_needed, is the number of the  *)
(* pool's shares "submitted waiting on response".                          *)
SsharesCountsTable ==
  \A p \in Pool : sshares[p] = Cardinality({s \in stratumShares : PoolOf[s] = p})

NoShareOf(p) == \A s \in stratumShares : PoolOf[s] # p

(* While a suspended pool waits in wait_lpcurrent none of its shares is in *)
(* the table and none can enter it: stratum_rthread suspends before it     *)
(* clears, and stratum_sthread adds a share only in the critical section   *)
(* that sent it on an active connection.                                   *)
SuspendedHasNoShares ==
  \A p \in Pool : rpc[p] = "waitlp" =>
    /\ ~active[p]
    /\ NoShareOf(p)
    /\ spc[p] # "add"

(* An answer is accounted for as "untracked" only when its share has left  *)
(* the table already: however fast the pool answers, stratum_rthread finds *)
(* the share that stratum_sthread sent.                                    *)
UntrackedWasCleared ==
  \A s \in guessed \cap Share : fate[s] \in Settled \/ \E p \in Pool : answered[p] = s

(* Each share is settled at most once: the threads implement ShareLedger.  *)
Ledger == INSTANCE ShareLedger
LedgerSpec == Ledger!Spec

(* Every share found for a pool that is not removed is sent or settled,    *)
(* through any sequence of broken connections: the retries of              *)
(* stratum_sthread end.                                                    *)
SharesLeaveQueue ==
  \A s \in Share : fate[s] = "queued" ~>
    \/ s \in stratumShares \/ fate[s] \in Settled \/ admin[PoolOf[s]] = "removed"
    \/ \E p \in Pool : answered[p] = s

(* The threads run; nothing is assumed of the pools, the network or the    *)
(* operator.                                                               *)
Fairness == \A p \in Pool : WF_vars(SThread(p)) /\ WF_vars(RLoop(p) \/ RestartStratum(p))
FairSpec == Spec /\ Fairness

----------------------------------------------------------------------------
(* What comments of the code say and its behaviours refute.                *)

(* stratum_sthread: "Give the stratum share a unique id".  The ids of the  *)
(* shares in the table are distinct.                                       *)
IdsAreUnique ==
  \A s, t \in stratumShares : id[s] = id[t] => s = t

(* stratum_rthread: "If the socket to our stratum pool disconnects, all    *)
(* tracked submitted shares are lost and we will leak the memory if we     *)
(* don't discard their records."  With no session to resume, the table     *)
(* holds none of the pool's shares once the old socket has been replaced   *)
(* by a new one: after a lost connection ...                               *)
LostSharesAreDiscarded ==
  \A p \in Pool :
    rpc[p] = "subscribe" /\ mode[p] \in {"lost", "lostRetry"} /\ ~resumable[p] => NoShareOf(p)

(* ... and after the client.reconnect of the pool (parse_reconnect).       *)
ReconnectDiscardsShares ==
  \A p \in Pool :
    rpc[p] = "subscribe" /\ mode[p] = "reconnect" /\ ~resumable[p] => NoShareOf(p)

(* auth_stratum: "Parse all data in the queue and anything left should be  *)
(* auth".  The line taken for the answer to mining.authorize is that       *)
(* answer, not the answer to a share.                                      *)
AuthReadsItsAnswer ==
  [][\A p \in Pool : rpc[p] = "authWait" /\ rpc'[p] # "authWait" /\ replies[p] # <<>> =>
       Head(replies[p]).to = NoShare]_vars

(* stratum_sthread: "Try resubmitting for up to 2 minutes if we fail to    *)
(* submit once and the stratum pool nonce1 still matches".  A share is     *)
(* sent again only in the session its work belongs to.                     *)
ResentInSameSession ==
  [][\A p \in Pool : spc[p] = "try" /\ spc'[p] = "add" /\ age[p] > 0 =>
       workNonce1[sshare[p]] = nonce1[p]]_vars
=============================================================================
