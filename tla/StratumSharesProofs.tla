------------------------ MODULE StratumSharesProofs ------------------------
(* Proofs about StratumShares, for any pools, shares and bounds.           *)
EXTENDS StratumShares, FiniteSetTheorems, SequenceTheorems, TLAPS

(* What leaves a group of variables alone leaves their types alone. *)
LEMMA UnchangedTypes ==
  /\ NetOK /\ UNCHANGED netVars => NetOK'
  /\ QueueOK /\ UNCHANGED qVars => QueueOK'
  /\ IdOK /\ UNCHANGED <<id, sworkId>> => IdOK'
  /\ TableOK /\ UNCHANGED tabVars => TableOK'
  /\ FateOK /\ UNCHANGED <<fate, guessed>> => FateOK'
  /\ SThreadOK /\ UNCHANGED sVars => SThreadOK'
  /\ RThreadOK /\ UNCHANGED rVars => RThreadOK'
BY DEF netVars, NetOK, qVars, QueueOK, IdOK, tabVars, TableOK, FateOK, sVars, SThreadOK,
       rVars, RThreadOK

(* stratum_shares holds finitely many shares, so clearing some of them     *)
(* changes pool->sshares by a natural number.                              *)
LEMMA ClearedIsFinite ==
  ASSUME NEW S, S \subseteq Share
  PROVE  Cardinality(S) \in Nat
BY StratumAssumption, FS_Subset, FS_CardinalityType

LEMMA SuspendTypes ==
  ASSUME NetOK, NEW p \in Pool, SuspendStratum(p)
  PROVE  NetOK'
BY DEF NetOK, SuspendStratum

LEMMA SendTypes ==
  ASSUME NetOK, NEW p \in Pool, NEW r \in Request, Send(p, r)
  PROVE  NetOK'
BY DEF NetOK, Send

LEMMA RestartTypes ==
  ASSUME RThreadOK, NEW p \in Pool, RestartFails(p), UNCHANGED answered,
         tmpId' \in [Pool -> Nat]
  PROVE  RThreadOK'
BY DEF RThreadOK, RestartFails, RGoto, RPC, Mode

LEMMA RGotoTypes ==
  ASSUME RThreadOK, NEW p \in Pool, NEW l \in RPC \ {"account"}, RGoto(p, l),
         UNCHANGED <<mode, noresume, tmpId, answered>>
  PROVE  RThreadOK'
BY DEF RThreadOK, RGoto

LEMMA ClearTypes ==
  ASSUME TableOK, FateOK, NEW p \in Pool, ClearStratumShares(p), UNCHANGED guessed
  PROVE  TableOK' /\ FateOK'
<1> DEFINE cleared == {s \in stratumShares : PoolOf[s] = p}
<1>1. sshares[p] - Cardinality(cleared) \in Int
  BY ClearedIsFinite DEF TableOK
<1>2. TableOK'
  BY <1>1 DEF TableOK, ClearStratumShares
<1>3. FateOK'
  BY DEF FateOK, ClearStratumShares, Settled
<1>4. QED
  BY <1>2, <1>3

(* Every step keeps every variable in its type. *)
LEMMA TypeKept == TypeOK /\ [Next]_vars => TypeOK'
<1> SUFFICES ASSUME TypeOK, [Next]_vars PROVE TypeOK'
  OBVIOUS
<1> USE StratumAssumption DEF TypeOK
<1>1. ASSUME NEW s \in Share, SubmitWorkAsync(s) PROVE TypeOK'
  <2>1. QueueOK'
    <3>1. CASE UNCHANGED qVars
      BY <3>1, UnchangedTypes
    <3>2. CASE /\ queue' = [queue EXCEPT ![PoolOf[s]] = Append(@, s)]
               /\ \E n \in 1..conn[PoolOf[s]] : workNonce1' = [workNonce1 EXCEPT ![s] = n]
      <4>1. queue' \in [Pool -> Seq(Share)]
        BY <3>2 DEF QueueOK
      <4>2. workNonce1' \in [Share -> Nat]
        BY <3>2 DEF QueueOK, NetOK
      <4> QED
        BY <1>1, <4>1, <4>2 DEF SubmitWorkAsync, QueueOK
    <3> QED
      BY <1>1, <3>1, <3>2 DEF SubmitWorkAsync, qVars
  <2>2. FateOK'
    BY <1>1 DEF SubmitWorkAsync, Settle, FateOK, Settled, Request
  <2> QED
    BY <1>1, <2>1, <2>2, UnchangedTypes DEF SubmitWorkAsync
<1>2. ASSUME NEW p \in Pool, Administer(p) PROVE TypeOK'
  <2>1. admin' \in [Pool -> {"enabled", "disabled", "removed"}]
    BY <1>2 DEF Administer
  <2> QED
    BY <1>2, <2>1, UnchangedTypes DEF Administer
<1>3. ASSUME NEW p \in Pool, PoolAnswers(p) PROVE TypeOK'
  <2>1. NetOK'
    <3>1. PICK r \in owed[p] :
            /\ owed' = [owed EXCEPT ![p] = @ \ {r}]
            /\ replies' = [replies EXCEPT ![p] = Append(@,
                 [to |-> r, id |-> IF r = NoShare THEN tmpId[p] ELSE id[r]])]
      BY <1>3 DEF PoolAnswers
    <3>2. [to |-> r, id |-> IF r = NoShare THEN tmpId[p] ELSE id[r]] \in Answer
      BY DEF NetOK, IdOK, RThreadOK, Answer, Request
    <3>3. replies' \in [Pool -> Seq(Answer)]
      BY <3>1, <3>2 DEF NetOK
    <3>4. owed' \in [Pool -> SUBSET Request]
      BY <3>1 DEF NetOK
    <3> QED
      BY <1>3, <3>3, <3>4 DEF PoolAnswers, NetOK
  <2> QED
    BY <1>3, <2>1, UnchangedTypes DEF PoolAnswers
<1>4. ASSUME NEW p \in Pool, PoolDies(p) PROVE TypeOK'
  <2>1. NetOK'
    BY <1>4 DEF PoolDies, NetOK, Request, Answer
  <2> QED
    BY <1>4, <2>1, UnchangedTypes DEF PoolDies
<1>5. ASSUME NEW p \in Pool, SHead(p) PROVE TypeOK'
  <2>1. SThreadOK'
    BY <1>5 DEF SHead, SGoto, SThreadOK, SPC, Request
  <2>2. QueueOK'
    BY <1>5 DEF SHead, QueueOK
  <2> QED
    BY <1>5, <2>1, <2>2, UnchangedTypes DEF SHead
<1>6. ASSUME NEW p \in Pool, SPop(p) PROVE TypeOK'
  <2> Head(queue[p]) \in Share /\ Tail(queue[p]) \in Seq(Share)
    BY <1>6 DEF SPop, QueueOK
  <2>1. SThreadOK'
    BY <1>6 DEF SPop, SGoto, SThreadOK, SPC, Request
  <2>2. QueueOK'
    BY <1>6 DEF SPop, QueueOK
  <2>3. FateOK'
    BY <1>6 DEF SPop, Settle, QueueOK, FateOK, Settled, Request
  <2> QED
    BY <1>6, <2>1, <2>2, <2>3, UnchangedTypes DEF SPop
<1>7. ASSUME NEW p \in Pool, SId(p) PROVE TypeOK'
  <2>1. SThreadOK'
    BY <1>7 DEF SId, SGoto, SThreadOK, SPC, Request
  <2>2. IdOK'
    BY <1>7 DEF SId, SThreadOK, IdOK
  <2> QED
    BY <1>7, <2>1, <2>2, UnchangedTypes DEF SId
<1>8. ASSUME NEW p \in Pool, SSend(p) PROVE TypeOK'
  <2>1. SThreadOK'
    BY <1>8 DEF SSend, SGoto, SThreadOK, SPC, Request
  <2>2. NetOK'
    BY <1>8, SendTypes, UnchangedTypes DEF SSend, SThreadOK, Request, SPC
  <2>3. TableOK'
    BY <1>8 DEF SSend, TableOK
  <2> QED
    BY <1>8, <2>1, <2>2, <2>3, UnchangedTypes DEF SSend
<1>9. ASSUME NEW p \in Pool, SSendFailed(p) PROVE TypeOK'
  <2>1. SThreadOK'
    BY <1>9 DEF SSendFailed, SGoto, SThreadOK, SPC, Request
  <2>2. NetOK'
    BY <1>9, SuspendTypes DEF SSendFailed
  <2>3. TableOK'
    BY <1>9 DEF SSendFailed, TableOK
  <2> QED
    BY <1>9, <2>1, <2>2, <2>3, UnchangedTypes DEF SSendFailed
<1>10. ASSUME NEW p \in Pool, SAdd(p) PROVE TypeOK'
  <2>1. SThreadOK'
    BY <1>10 DEF SAdd, SDone, SGoto, SThreadOK, SPC, Request
  <2>2. TableOK'
    BY <1>10 DEF SAdd, SThreadOK, TableOK
  <2> QED
    BY <1>10, <2>1, <2>2, UnchangedTypes DEF SAdd
<1>11. ASSUME NEW p \in Pool, SGiveUp(p) PROVE TypeOK'
  <2>1. SThreadOK'
    BY <1>11 DEF SGiveUp, SDone, SGoto, SThreadOK, SPC, Request
  <2>2. FateOK'
    BY <1>11 DEF SGiveUp, Settle, FateOK, Settled, Request
  <2> QED
    BY <1>11, <2>1, <2>2, UnchangedTypes DEF SGiveUp
<1>12. ASSUME NEW p \in Pool, SSleep(p) PROVE TypeOK'
  <2>1. SThreadOK'
    BY <1>12 DEF SSleep, SGoto, SThreadOK, SPC, Request
  <2> QED
    BY <1>12, <2>1, UnchangedTypes DEF SSleep
<1>13. ASSUME NEW p \in Pool, RHead(p) PROVE TypeOK'
  <2>1. RThreadOK'
    BY <1>13, RGotoTypes DEF RHead, RPC
  <2> QED
    BY <1>13, <2>1, UnchangedTypes DEF RHead
<1>14. ASSUME NEW p \in Pool, RSuspendIdle(p) PROVE TypeOK'
  <2>1. RThreadOK'
    BY <1>14, RGotoTypes DEF RSuspendIdle, RPC
  <2>2. NetOK'
    BY <1>14, SuspendTypes DEF RSuspendIdle
  <2> QED
    BY <1>14, <2>1, <2>2, UnchangedTypes DEF RSuspendIdle
<1>15. ASSUME NEW p \in Pool, RClearIdle(p) PROVE TypeOK'
  <2>1. RThreadOK'
    BY <1>15, RGotoTypes DEF RClearIdle, RPC
  <2>2. TableOK'
    BY <1>15, ClearTypes DEF RClearIdle
  <2>3. FateOK'
    BY <1>15, ClearTypes DEF RClearIdle
  <2> QED
    BY <1>15, <2>1, <2>2, <2>3, UnchangedTypes DEF RClearIdle
<1>16. ASSUME NEW p \in Pool, RWanted(p) PROVE TypeOK'
  <2>1. RThreadOK'
    BY <1>16 DEF RWanted, RGoto, RThreadOK, RPC, Mode, Request
  <2> QED
    BY <1>16, <2>1, UnchangedTypes DEF RWanted
<1>17. ASSUME NEW p \in Pool, RResponse(p) PROVE TypeOK'
  <2> DEFINE a == Head(replies[p])
  <2>0. a \in Answer /\ Tail(replies[p]) \in Seq(Answer)
    BY <1>17 DEF RResponse, NetOK
  <2> USE DEF Answer
  <2>1. RThreadOK'
    <3>1. CASE answered' = answered /\ rpc' = [rpc EXCEPT ![p] = "head"]
      BY <1>17, <3>1 DEF RResponse, RThreadOK, RPC
    <3>2. CASE \E s \in stratumShares : /\ answered' = [answered EXCEPT ![p] = s]
                                        /\ rpc' = [rpc EXCEPT ![p] = "account"]
      BY <1>17, <3>2 DEF RResponse, RThreadOK, RPC, TableOK, Request
    <3> QED
      BY <1>17, <3>1, <3>2 DEF RResponse, RGoto
  <2>2. NetOK'
    <3> HIDE DEF Answer
    <3> QED
      BY <1>17, <2>0 DEF RResponse, NetOK
  <2>3. TableOK'
    BY <1>17 DEF RResponse, TableOK
  <2>4. FateOK'
    BY <1>17, <2>0 DEF RResponse, FateOK
  <2> QED
    BY <1>17, <2>1, <2>2, <2>3, <2>4, UnchangedTypes DEF RResponse
<1>18. ASSUME NEW p \in Pool, RShareResult(p) PROVE TypeOK'
  <2>1. RThreadOK'
    BY <1>18 DEF RShareResult, RGoto, RThreadOK, RPC, Mode, Request
  <2>2. FateOK'
    BY <1>18 DEF RShareResult, Settle, FateOK, Settled, Request
  <2> QED
    BY <1>18, <2>1, <2>2, UnchangedTypes DEF RShareResult
<1>19. ASSUME NEW p \in Pool, RMethod(p) PROVE TypeOK'
  <2>1. RThreadOK'
    BY <1>19 DEF RMethod, RGoto, RThreadOK, RPC, Mode, Request
  <2>2. NetOK'
    BY <1>19, SuspendTypes, UnchangedTypes DEF RMethod
  <2> QED
    BY <1>19, <2>1, <2>2, UnchangedTypes DEF RMethod
<1>20. ASSUME NEW p \in Pool, RLost(p) PROVE TypeOK'
  <2>1. RThreadOK'
    BY <1>20, RGotoTypes DEF RLost, RPC
  <2>2. NetOK'
    BY <1>20, SuspendTypes, UnchangedTypes DEF RLost
  <2> QED
    BY <1>20, <2>1, <2>2, UnchangedTypes DEF RLost
<1>21. ASSUME NEW p \in Pool, RClearLost(p) PROVE TypeOK'
  <2>1. RThreadOK'
    BY <1>21 DEF RClearLost, RGoto, RThreadOK, RPC, Mode, Request
  <2>2. TableOK'
    BY <1>21, ClearTypes, UnchangedTypes DEF RClearLost
  <2>3. FateOK'
    BY <1>21, ClearTypes, UnchangedTypes DEF RClearLost
  <2> QED
    BY <1>21, <2>1, <2>2, <2>3, UnchangedTypes DEF RClearLost
<1>22. ASSUME NEW p \in Pool, RDown(p) PROVE TypeOK'
  <2>1. RThreadOK'
    BY <1>22, RGotoTypes DEF RDown, RPC
  <2> QED
    BY <1>22, <2>1, UnchangedTypes DEF RDown
<1>23. ASSUME NEW p \in Pool, RConnect(p) PROVE TypeOK'
  <2>1. RThreadOK'
    <3>1. tmpId' \in [Pool -> Nat] /\ UNCHANGED answered
      <4>1. tmpId' = tmpId \/ tmpId' = [tmpId EXCEPT ![p] = sworkId]
        BY <1>23 DEF RConnect
      <4>2. tmpId \in [Pool -> Nat] /\ sworkId \in Nat
        BY DEF IdOK, RThreadOK
      <4>3. UNCHANGED answered
        BY <1>23 DEF RConnect
      <4> QED
        BY <4>1, <4>2, <4>3
    <3>2. CASE RestartFails(p)
      BY <3>1, <3>2, RestartTypes
    <3>3. CASE RGoto(p, "subscribe") /\ UNCHANGED <<mode, noresume>>
      BY <3>1, <3>3 DEF RThreadOK, RGoto, RPC
    <3> QED
      BY <1>23, <3>2, <3>3 DEF RConnect
  <2>2. NetOK'
    <3>1. active' \in [Pool -> BOOLEAN] /\ replies' \in [Pool -> Seq(Answer)]
      BY <1>23 DEF RConnect, NetOK
    <3>2. sock' \in [Pool -> {"closed", "up", "dead"}]
      BY <1>23 DEF RConnect, NetOK
    <3>3. conn' \in [Pool -> Nat]
      <4>1. conn' = conn \/ conn' = [conn EXCEPT ![p] = @ + 1]
        BY <1>23 DEF RConnect
      <4>2. conn \in [Pool -> Nat]
        BY DEF NetOK
      <4> QED
        BY <4>1, <4>2
    <3> QED
      BY <1>23, <3>1, <3>2, <3>3 DEF RConnect, NetOK
  <2> QED
    BY <1>23, <2>1, <2>2, UnchangedTypes DEF RConnect
<1>24. ASSUME NEW p \in Pool, RSubscribe(p) PROVE TypeOK'
  <2>1. RThreadOK'
    BY <1>24, RGotoTypes DEF RSubscribe, RPC
  <2>2. IdOK'
    <3>1. tmpId[p] \in Nat
      BY DEF RThreadOK
    <3>2. sworkId' = tmpId[p] + 1 /\ id' = id
      BY <1>24 DEF RSubscribe
    <3> QED
      BY <3>1, <3>2 DEF IdOK
  <2> QED
    BY <1>24, <2>1, <2>2, UnchangedTypes DEF RSubscribe
<1>25. ASSUME NEW p \in Pool, RSubscribed(p) PROVE TypeOK'
  <2>1. RThreadOK'
    BY <1>25 DEF RSubscribed, RGoto, IdOK, RThreadOK, RPC, Mode, Request
  <2>2. NetOK'
    <3>1. nonce1' \in [Pool -> Nat] /\ owed' \in [Pool -> SUBSET Request]
      <4>1. \/ UNCHANGED <<nonce1, owed>>
            \/ nonce1' = [nonce1 EXCEPT ![p] = conn[p]] /\ owed' = [owed EXCEPT ![p] = {}]
        BY <1>25 DEF RSubscribed
      <4> QED
        BY <4>1 DEF NetOK
    <3>2. resumable' \in [Pool -> BOOLEAN] /\ active' \in [Pool -> BOOLEAN]
      BY <1>25 DEF RSubscribed, NetOK
    <3> QED
      BY <1>25, <3>1, <3>2 DEF RSubscribed, NetOK
  <2> QED
    BY <1>25, <2>1, <2>2, UnchangedTypes DEF RSubscribed
<1>26. ASSUME NEW p \in Pool, RSubscribeAfresh(p) PROVE TypeOK'
  <2>1. RThreadOK'
    BY <1>26 DEF RSubscribeAfresh, RGoto, RThreadOK, RPC, Mode, Request
  <2>2. NetOK'
    BY <1>26 DEF RSubscribeAfresh, NetOK, Request, Answer
  <2> QED
    BY <1>26, <2>1, <2>2, UnchangedTypes DEF RSubscribeAfresh
<1>27. ASSUME NEW p \in Pool, RSubscribeFails(p) PROVE TypeOK'
  <2>1. RThreadOK'
    BY <1>27, RestartTypes DEF RSubscribeFails, RThreadOK, RPC, Mode, Request
  <2>2. NetOK'
    BY <1>27, SuspendTypes DEF RSubscribeFails
  <2> QED
    BY <1>27, <2>1, <2>2, UnchangedTypes DEF RSubscribeFails
<1>28. ASSUME NEW p \in Pool, RAuthorize(p) PROVE TypeOK'
  <2>1. RThreadOK'
    <3>1. tmpId' = tmpId /\ answered' = answered
      BY <1>28 DEF RAuthorize
    <3>2. CASE RestartFails(p)
      BY <3>1, <3>2, RestartTypes DEF RThreadOK
    <3>3. CASE RGoto(p, "authWait") /\ UNCHANGED <<mode, noresume>>
      BY <3>1, <3>3, RGotoTypes DEF RPC
    <3> QED
      BY <1>28, <3>2, <3>3 DEF RAuthorize
  <2>2. NetOK'
    BY <1>28, SuspendTypes, SendTypes, UnchangedTypes DEF RAuthorize, Request, SPC
  <2>3. IdOK'
    <3>1. tmpId[p] \in Nat
      BY DEF RThreadOK
    <3>2. sworkId' = tmpId[p] + 1 /\ id' = id
      BY <1>28 DEF RAuthorize
    <3> QED
      BY <3>1, <3>2 DEF IdOK
  <2> QED
    BY <1>28, <2>1, <2>2, <2>3, UnchangedTypes DEF RAuthorize
<1>29. ASSUME NEW p \in Pool, RAuthorized(p) PROVE TypeOK'
  <2>1. RThreadOK'
    <3>1. tmpId' = tmpId /\ answered' = answered
      BY <1>29 DEF RAuthorized
    <3>2. CASE RestartFails(p)
      BY <3>1, <3>2, RestartTypes DEF RThreadOK
    <3>3. CASE /\ \E l \in {"recv", "head"} : rpc' = [rpc EXCEPT ![p] = l]
               /\ mode' = [mode EXCEPT ![p] = "none"]
               /\ noresume' = noresume
      BY <3>1, <3>3 DEF RThreadOK, RPC, Mode
    <3> QED
      BY <1>29, <3>2, <3>3 DEF RAuthorized, RGoto
  <2>2. NetOK'
    <3>1. CASE SuspendStratum(p)
      BY <3>1, SuspendTypes
    <3>2. CASE /\ replies' = [replies EXCEPT ![p] = Tail(@)]
               /\ UNCHANGED <<sock, active, conn, nonce1, resumable, owed>>
      BY <1>29, <3>2 DEF RAuthorized, NetOK
    <3> QED
      BY <1>29, <3>1, <3>2 DEF RAuthorized
  <2> QED
    BY <1>29, <2>1, <2>2, UnchangedTypes DEF RAuthorized
<1>30. ASSUME NEW p \in Pool, RAuthTimeout(p) PROVE TypeOK'
  <2>1. RThreadOK'
    BY <1>30, RestartTypes DEF RAuthTimeout, RThreadOK, RPC, Mode, Request
  <2>2. NetOK'
    BY <1>30, SuspendTypes, UnchangedTypes DEF RAuthTimeout
  <2> QED
    BY <1>30, <2>1, <2>2, UnchangedTypes DEF RAuthTimeout
<1>31. CASE UNCHANGED vars
  BY <1>31, UnchangedTypes DEF vars
<1> QED
  BY <1>1, <1>2, <1>3, <1>4, <1>5, <1>6, <1>7, <1>8, <1>9, <1>10, <1>11, <1>12, <1>13, <1>14, <1>15, <1>16, <1>17, <1>18, <1>19, <1>20, <1>21, <1>22, <1>23, <1>24, <1>25, <1>26, <1>27, <1>28, <1>29, <1>30, <1>31
  DEF Next, SThread, RLoop, RestartStratum

(* Every variable keeps its type: the table, the counters, the sockets and *)
(* the control of both threads.                                            *)
THEOREM TypeCorrect == Spec => []TypeOK
<1>1. Init => TypeOK
  BY StratumAssumption
  DEF Init, TypeOK, NetOK, QueueOK, IdOK, TableOK, FateOK, SThreadOK, RThreadOK,
      SPC, RPC, Mode, Request, Settled
<1>2. QED
  BY <1>1, TypeKept, PTL DEF Spec

----------------------------------------------------------------------------
(* SuspendedHasNoShares is not inductive: that no share enters the table   *)
(* while a pool is suspended rests on who may add one.  A stratum_sthread  *)
(* adds only shares of its own pool, and only while it holds sshare_lock;  *)
(* it got there by sending on an active connection, and only its pool's    *)
(* stratum_rthread sets stratum_active.                                    *)
QueueIsOwn == \A p \in Pool : \A i \in 1..Len(queue[p]) : PoolOf[queue[p][i]] = p
SendsOwn == \A p \in Pool : sshare[p] \in Share => PoolOf[sshare[p]] = p
LockIsHeld == \A p \in Pool : spc[p] \in {"add", "failed"} => sshareLock = p
IdleIsInactive == \A p \in Pool : rpc[p] \in {"idleClear", "waitlp"} => ~active[p]
IdleIsEmpty == \A p \in Pool : rpc[p] = "waitlp" => NoShareOf(p) /\ spc[p] # "add"

IInv == QueueIsOwn /\ SendsOwn /\ LockIsHeld /\ IdleIsInactive /\ IdleIsEmpty

(* A step of anything but a stratum_sthread that suspends no pool and adds *)
(* nothing to the table.                                                   *)
OtherStep ==
  /\ UNCHANGED <<queue, sshare, spc, sshareLock>>
  /\ stratumShares' \subseteq stratumShares
  /\ \A q \in Pool : rpc'[q] \in {"idleClear", "waitlp"} =>
       rpc'[q] = rpc[q] /\ active'[q] = active[q]

LEMMA OtherStepKeeps == IInv /\ OtherStep => IInv'
BY DEF IInv, OtherStep, QueueIsOwn, SendsOwn, LockIsHeld, IdleIsInactive, IdleIsEmpty, NoShareOf

LEMMA SuspensionInvariant == Spec => []IInv
<1> USE StratumAssumption
<1>1. Init => IInv
  BY DEF Init, IInv, QueueIsOwn, SendsOwn, LockIsHeld, IdleIsInactive, IdleIsEmpty
<1>2. TypeOK /\ IInv /\ [Next]_vars => IInv'
  <2> SUFFICES ASSUME TypeOK, IInv, [Next]_vars PROVE IInv'
    OBVIOUS
  <2> USE DEF IInv, TypeOK, netVars, tabVars, qVars, sVars, rVars
  <2>1. ASSUME NEW s \in Share, SubmitWorkAsync(s) PROVE IInv'
    <3>1. QueueIsOwn'
      <4>1. CASE UNCHANGED queue
        BY <4>1 DEF QueueIsOwn
      <4>2. CASE queue' = [queue EXCEPT ![PoolOf[s]] = Append(@, s)]
        <5> SUFFICES ASSUME NEW q \in Pool, NEW i \in 1..Len(queue'[q])
                     PROVE  PoolOf[queue'[q][i]] = q
          BY DEF QueueIsOwn
        <5>1. queue[q] \in Seq(Share)
          BY DEF QueueOK
        <5>2. CASE q = PoolOf[s]
          <6>1. queue'[q] = Append(queue[q], s)
            BY <4>2, <5>2 DEF QueueOK
          <6>2. Len(queue'[q]) = Len(queue[q]) + 1 /\ Len(queue[q]) \in Nat
            BY <5>1, <6>1, LenProperties, AppendProperties
          <6>3. CASE i \in 1..Len(queue[q])
            BY <5>1, <6>1, <6>3, AppendProperties DEF QueueIsOwn
          <6>4. CASE i = Len(queue[q]) + 1
            BY <5>1, <5>2, <6>1, <6>4, AppendProperties
          <6> QED
            BY <6>2, <6>3, <6>4
        <5>3. CASE q # PoolOf[s]
          BY <4>2, <5>3 DEF QueueIsOwn, QueueOK
        <5> QED
          BY <5>2, <5>3
      <4> QED
        BY <2>1, <4>1, <4>2 DEF SubmitWorkAsync
    <3>2. SendsOwn'
      BY <2>1 DEF SubmitWorkAsync, SendsOwn, SThreadOK
    <3>3. LockIsHeld'
      BY <2>1 DEF SubmitWorkAsync, LockIsHeld, SThreadOK
    <3>4. IdleIsInactive'
      BY <2>1 DEF SubmitWorkAsync, IdleIsInactive, NetOK
    <3>5. IdleIsEmpty'
      BY <2>1 DEF SubmitWorkAsync, IdleIsEmpty, IdleIsInactive, NoShareOf, SThreadOK
    <3> QED
      BY <3>1, <3>2, <3>3, <3>4, <3>5
  <2>2. ASSUME NEW p \in Pool, Administer(p) PROVE IInv'
    <3>1. OtherStep
      BY <2>2 DEF Administer, OtherStep, NetOK, RThreadOK
    <3> QED
      BY <3>1, OtherStepKeeps
  <2>3. ASSUME NEW p \in Pool, PoolAnswers(p) PROVE IInv'
    <3>1. OtherStep
      BY <2>3 DEF PoolAnswers, OtherStep, NetOK, RThreadOK
    <3> QED
      BY <3>1, OtherStepKeeps
  <2>4. ASSUME NEW p \in Pool, PoolDies(p) PROVE IInv'
    <3>1. OtherStep
      BY <2>4 DEF PoolDies, OtherStep, NetOK, RThreadOK
    <3> QED
      BY <3>1, OtherStepKeeps
  <2>5. ASSUME NEW p \in Pool, SHead(p) PROVE IInv'
    <3>1. QueueIsOwn'
      BY <2>5 DEF SHead, SGoto, QueueIsOwn, QueueOK
    <3>2. SendsOwn'
      BY <2>5 DEF SHead, SGoto, SendsOwn, SThreadOK
    <3>3. LockIsHeld'
      BY <2>5 DEF SHead, SGoto, LockIsHeld, SThreadOK
    <3>4. IdleIsInactive'
      BY <2>5 DEF SHead, SGoto, IdleIsInactive, NetOK
    <3>5. IdleIsEmpty'
      BY <2>5 DEF SHead, SGoto, IdleIsEmpty, IdleIsInactive, NoShareOf, SThreadOK
    <3> QED
      BY <3>1, <3>2, <3>3, <3>4, <3>5
  <2>6. ASSUME NEW p \in Pool, SPop(p) PROVE IInv'
    <3>1. QueueIsOwn'
      BY <2>6 DEF SPop, SGoto, QueueIsOwn, QueueOK
    <3>2. SendsOwn'
      <4>1. Head(queue[p]) = queue[p][1] /\ 1 \in 1..Len(queue[p])
        BY <2>6 DEF SPop, QueueOK
      <4>2. PoolOf[Head(queue[p])] = p
        BY <4>1 DEF QueueIsOwn
      <4> QED
        BY <2>6, <4>2 DEF SPop, SendsOwn, SThreadOK
    <3>3. LockIsHeld'
      BY <2>6 DEF SPop, SGoto, LockIsHeld, SThreadOK
    <3>4. IdleIsInactive'
      BY <2>6 DEF SPop, SGoto, IdleIsInactive, NetOK
    <3>5. IdleIsEmpty'
      BY <2>6 DEF SPop, SGoto, IdleIsEmpty, IdleIsInactive, NoShareOf, SThreadOK
    <3> QED
      BY <3>1, <3>2, <3>3, <3>4, <3>5
  <2>7. ASSUME NEW p \in Pool, SId(p) PROVE IInv'
    <3>1. QueueIsOwn'
      BY <2>7 DEF SId, SGoto, QueueIsOwn, QueueOK
    <3>2. SendsOwn'
      BY <2>7 DEF SId, SGoto, SendsOwn, SThreadOK
    <3>3. LockIsHeld'
      BY <2>7 DEF SId, SGoto, LockIsHeld, SThreadOK
    <3>4. IdleIsInactive'
      BY <2>7 DEF SId, SGoto, IdleIsInactive, NetOK
    <3>5. IdleIsEmpty'
      BY <2>7 DEF SId, SGoto, IdleIsEmpty, IdleIsInactive, NoShareOf, SThreadOK
    <3> QED
      BY <3>1, <3>2, <3>3, <3>4, <3>5
  <2>8. ASSUME NEW p \in Pool, SSend(p) PROVE IInv'
    <3>1. QueueIsOwn'
      BY <2>8 DEF SSend, SGoto, Send, QueueIsOwn, QueueOK
    <3>2. SendsOwn'
      BY <2>8 DEF SSend, SGoto, Send, SendsOwn, SThreadOK
    <3>3. LockIsHeld'
      BY <2>8 DEF SSend, SGoto, Send, LockIsHeld, SThreadOK
    <3>4. IdleIsInactive'
      BY <2>8 DEF SSend, SGoto, Send, IdleIsInactive, NetOK
    <3>5. IdleIsEmpty'
      BY <2>8 DEF SSend, SGoto, Send, IdleIsEmpty, IdleIsInactive, NoShareOf, SThreadOK
    <3> QED
      BY <3>1, <3>2, <3>3, <3>4, <3>5
  <2>9. ASSUME NEW p \in Pool, SSendFailed(p) PROVE IInv'
    <3>1. QueueIsOwn'
      BY <2>9 DEF SSendFailed, SGoto, SuspendStratum, QueueIsOwn, QueueOK
    <3>2. SendsOwn'
      BY <2>9 DEF SSendFailed, SGoto, SuspendStratum, SendsOwn, SThreadOK
    <3>3. LockIsHeld'
      BY <2>9 DEF SSendFailed, SGoto, SuspendStratum, LockIsHeld, SThreadOK
    <3>4. IdleIsInactive'
      BY <2>9 DEF SSendFailed, SGoto, SuspendStratum, IdleIsInactive, NetOK
    <3>5. IdleIsEmpty'
      BY <2>9 DEF SSendFailed, SGoto, SuspendStratum, IdleIsEmpty, IdleIsInactive, NoShareOf, SThreadOK
    <3> QED
      BY <3>1, <3>2, <3>3, <3>4, <3>5
  <2>10. ASSUME NEW p \in Pool, SAdd(p) PROVE IInv'
    <3>1. QueueIsOwn'
      BY <2>10 DEF SAdd, SGoto, SDone, QueueIsOwn, QueueOK
    <3>2. SendsOwn'
      BY <2>10 DEF SAdd, SGoto, SDone, SendsOwn, SThreadOK
    <3>3. LockIsHeld'
      BY <2>10 DEF SAdd, SGoto, SDone, LockIsHeld, SThreadOK
    <3>4. IdleIsInactive'
      BY <2>10 DEF SAdd, SGoto, SDone, IdleIsInactive, NetOK
    <3>5. IdleIsEmpty'
      BY <2>10 DEF SAdd, SGoto, SDone, IdleIsEmpty, IdleIsInactive, NoShareOf, SThreadOK, SendsOwn
    <3> QED
      BY <3>1, <3>2, <3>3, <3>4, <3>5
  <2>11. ASSUME NEW p \in Pool, SGiveUp(p) PROVE IInv'
    <3>1. QueueIsOwn'
      BY <2>11 DEF SGiveUp, SGoto, SDone, QueueIsOwn, QueueOK
    <3>2. SendsOwn'
      BY <2>11 DEF SGiveUp, SGoto, SDone, SendsOwn, SThreadOK
    <3>3. LockIsHeld'
      BY <2>11 DEF SGiveUp, SGoto, SDone, LockIsHeld, SThreadOK
    <3>4. IdleIsInactive'
      BY <2>11 DEF SGiveUp, SGoto, SDone, IdleIsInactive, NetOK
    <3>5. IdleIsEmpty'
      BY <2>11 DEF SGiveUp, SGoto, SDone, IdleIsEmpty, IdleIsInactive, NoShareOf, SThreadOK
    <3> QED
      BY <3>1, <3>2, <3>3, <3>4, <3>5
  <2>12. ASSUME NEW p \in Pool, SSleep(p) PROVE IInv'
    <3>1. QueueIsOwn'
      BY <2>12 DEF SSleep, SGoto, QueueIsOwn, QueueOK
    <3>2. SendsOwn'
      BY <2>12 DEF SSleep, SGoto, SendsOwn, SThreadOK
    <3>3. LockIsHeld'
      BY <2>12 DEF SSleep, SGoto, LockIsHeld, SThreadOK
    <3>4. IdleIsInactive'
      BY <2>12 DEF SSleep, SGoto, IdleIsInactive, NetOK
    <3>5. IdleIsEmpty'
      BY <2>12 DEF SSleep, SGoto, IdleIsEmpty, IdleIsInactive, NoShareOf, SThreadOK
    <3> QED
      BY <3>1, <3>2, <3>3, <3>4, <3>5
  <2>13. ASSUME NEW p \in Pool, RHead(p) PROVE IInv'
    <3>1. OtherStep
      BY <2>13 DEF RHead, RGoto, OtherStep, NetOK, RThreadOK
    <3> QED
      BY <3>1, OtherStepKeeps
  <2>14. ASSUME NEW p \in Pool, RSuspendIdle(p) PROVE IInv'
    BY <2>14 DEF RSuspendIdle, SuspendStratum, RGoto, QueueIsOwn, SendsOwn, LockIsHeld, IdleIsInactive, IdleIsEmpty, NoShareOf,
       NetOK, SThreadOK, RThreadOK
  <2>15. ASSUME NEW p \in Pool, RClearIdle(p) PROVE IInv'
    BY <2>15 DEF RClearIdle, RGoto, ClearStratumShares, QueueIsOwn, SendsOwn, LockIsHeld, IdleIsInactive, IdleIsEmpty, NoShareOf,
       NetOK, SThreadOK, RThreadOK
  <2>16. ASSUME NEW p \in Pool, RWanted(p) PROVE IInv'
    <3>1. OtherStep
      BY <2>16 DEF RWanted, RGoto, OtherStep, NetOK, RThreadOK
    <3> QED
      BY <3>1, OtherStepKeeps
  <2>17. ASSUME NEW p \in Pool, RResponse(p) PROVE IInv'
    <3>1. OtherStep
      BY <2>17 DEF RResponse, RGoto, OtherStep, NetOK, RThreadOK
    <3> QED
      BY <3>1, OtherStepKeeps
  <2>18. ASSUME NEW p \in Pool, RShareResult(p) PROVE IInv'
    <3>1. OtherStep
      BY <2>18 DEF RShareResult, RGoto, OtherStep, NetOK, RThreadOK
    <3> QED
      BY <3>1, OtherStepKeeps
  <2>19. ASSUME NEW p \in Pool, RMethod(p) PROVE IInv'
    <3>1. OtherStep
      BY <2>19 DEF RMethod, SuspendStratum, RGoto, OtherStep, NetOK, RThreadOK
    <3> QED
      BY <3>1, OtherStepKeeps
  <2>20. ASSUME NEW p \in Pool, RLost(p) PROVE IInv'
    <3>1. OtherStep
      BY <2>20 DEF RLost, SuspendStratum, RGoto, OtherStep, NetOK, RThreadOK
    <3> QED
      BY <3>1, OtherStepKeeps
  <2>21. ASSUME NEW p \in Pool, RClearLost(p) PROVE IInv'
    <3>1. OtherStep
      BY <2>21 DEF RClearLost, RGoto, ClearStratumShares, OtherStep, NetOK, RThreadOK
    <3> QED
      BY <3>1, OtherStepKeeps
  <2>22. ASSUME NEW p \in Pool, RDown(p) PROVE IInv'
    <3>1. OtherStep
      BY <2>22 DEF RDown, RGoto, OtherStep, NetOK, RThreadOK
    <3> QED
      BY <3>1, OtherStepKeeps
  <2>23. ASSUME NEW p \in Pool, RConnect(p) PROVE IInv'
    <3>1. OtherStep
      <4>1. \E l \in {"head", "restart", "down", "subscribe"} : rpc' = [rpc EXCEPT ![p] = l]
        BY <2>23 DEF RConnect, RestartFails, RGoto
      <4>2. active' = [active EXCEPT ![p] = FALSE]
        BY <2>23 DEF RConnect
      <4>3. \A q \in Pool : rpc'[q] \in {"idleClear", "waitlp"} =>
              rpc'[q] = rpc[q] /\ active'[q] = active[q]
        BY <4>1, <4>2 DEF NetOK, RThreadOK
      <4> QED
        BY <2>23, <4>3 DEF RConnect, OtherStep
    <3> QED
      BY <3>1, OtherStepKeeps
  <2>24. ASSUME NEW p \in Pool, RSubscribe(p) PROVE IInv'
    <3>1. OtherStep
      BY <2>24 DEF RSubscribe, RGoto, OtherStep, NetOK, RThreadOK
    <3> QED
      BY <3>1, OtherStepKeeps
  <2>25. ASSUME NEW p \in Pool, RSubscribed(p) PROVE IInv'
    <3>1. OtherStep
      BY <2>25 DEF RSubscribed, RGoto, OtherStep, NetOK, RThreadOK
    <3> QED
      BY <3>1, OtherStepKeeps
  <2>26. ASSUME NEW p \in Pool, RSubscribeAfresh(p) PROVE IInv'
    <3>1. OtherStep
      BY <2>26 DEF RSubscribeAfresh, RGoto, OtherStep, NetOK, RThreadOK
    <3> QED
      BY <3>1, OtherStepKeeps
  <2>27. ASSUME NEW p \in Pool, RSubscribeFails(p) PROVE IInv'
    <3>1. OtherStep
      BY <2>27 DEF RSubscribeFails, SuspendStratum, RestartFails, RGoto, OtherStep, NetOK, RThreadOK
    <3> QED
      BY <3>1, OtherStepKeeps
  <2>28. ASSUME NEW p \in Pool, RAuthorize(p) PROVE IInv'
    <3>1. OtherStep
      BY <2>28 DEF RAuthorize, SuspendStratum, RestartFails, RGoto, Send, OtherStep, NetOK, RThreadOK
    <3> QED
      BY <3>1, OtherStepKeeps
  <2>29. ASSUME NEW p \in Pool, RAuthorized(p) PROVE IInv'
    <3>1. OtherStep
      BY <2>29 DEF RAuthorized, SuspendStratum, RestartFails, RGoto, OtherStep, NetOK, RThreadOK
    <3> QED
      BY <3>1, OtherStepKeeps
  <2>30. ASSUME NEW p \in Pool, RAuthTimeout(p) PROVE IInv'
    <3>1. OtherStep
      BY <2>30 DEF RAuthTimeout, SuspendStratum, RestartFails, RGoto, OtherStep, NetOK, RThreadOK
    <3> QED
      BY <3>1, OtherStepKeeps
  <2>31. CASE UNCHANGED vars
    <3>1. OtherStep
      BY <2>31 DEF OtherStep, vars
    <3> QED
      BY <3>1, OtherStepKeeps
  <2> QED
    BY <2>1, <2>2, <2>3, <2>4, <2>5, <2>6, <2>7, <2>8, <2>9, <2>10, <2>11, <2>12, <2>13, <2>14, <2>15, <2>16, <2>17, <2>18, <2>19, <2>20, <2>21, <2>22, <2>23, <2>24, <2>25, <2>26, <2>27, <2>28, <2>29, <2>30, <2>31
    DEF Next, SThread, RLoop, RestartStratum
<1>3. QED
  BY <1>1, <1>2, TypeCorrect, PTL DEF Spec

(* A suspended pool has no share waiting for an answer, whatever the two   *)
(* threads of all pools are doing.                                         *)
THEOREM SuspendedIsClear == Spec => []SuspendedHasNoShares
<1>1. IInv => SuspendedHasNoShares
  BY DEF IInv, IdleIsInactive, IdleIsEmpty, SuspendedHasNoShares
<1>2. QED
  BY <1>1, SuspensionInvariant, PTL

----------------------------------------------------------------------------
(* Where a share is.  Its work is freed by whoever takes it out of the     *)
(* last of these places.                                                   *)
InQueue(s) == \E i \in 1..Len(queue[PoolOf[s]]) : queue[PoolOf[s]][i] = s
InHand(s) == sshare[PoolOf[s]] = s
InTable(s) == s \in stratumShares
IsAnswered(s) == \E p \in Pool : answered[p] = s

(* SharesHaveOnePlace is not inductive: a thread that took a share must    *)
(* not find a second one in its hands, which rests on where in their loops *)
(* the threads hold one, and the head of a queue must not be in the rest.  *)
QueueOnce == \A p \in Pool : \A i, j \in 1..Len(queue[p]) : queue[p][i] = queue[p][j] => i = j
AnsweredOnce == \A p, q \in Pool : answered[p] \in Share /\ answered[p] = answered[q] => p = q
PlacesExclude ==
  \A s \in Share :
    /\ InQueue(s) => ~InHand(s) /\ ~InTable(s) /\ ~IsAnswered(s)
    /\ InHand(s) => ~InTable(s) /\ ~IsAnswered(s)
    /\ InTable(s) => ~IsAnswered(s)
OpenIsPlaced ==
  \A s \in Share :
    fate[s] = "queued" <=> InQueue(s) \/ InHand(s) \/ InTable(s) \/ IsAnswered(s)
HandsAgree ==
  \A p \in Pool :
    /\ sshare[p] \in Share => spc[p] \notin {"head", "pop", "exit"}
    /\ answered[p] \in Share => rpc[p] = "account"

PlaceInv == QueueOnce /\ AnsweredOnce /\ PlacesExclude /\ OpenIsPlaced /\ HandsAgree

(* A step that moves no share and settles none. *)
QuietStep ==
  /\ UNCHANGED <<queue, sshare, stratumShares, answered, fate>>
  /\ \A q \in Pool : spc'[q] \in {"head", "pop", "exit"} => spc[q] \in {"head", "pop", "exit"}
  /\ \A q \in Pool : rpc[q] = "account" => rpc'[q] = "account"

LEMMA QuietStepKeeps == PlaceInv /\ QuietStep => PlaceInv'
BY DEF PlaceInv, QuietStep, QueueOnce, AnsweredOnce, PlacesExclude, OpenIsPlaced, HandsAgree,
       InQueue, InHand, InTable, IsAnswered

(* tq_push puts a share that is not in its pool's queue into it once. *)
LEMMA PushedOnce ==
  ASSUME QueueOK, QueueOnce, NEW s \in Share, ~InQueue(s),
         queue' = [queue EXCEPT ![PoolOf[s]] = Append(@, s)]
  PROVE  QueueOnce' /\ \A t \in Share : InQueue(t)' <=> InQueue(t) \/ t = s
<1> USE StratumAssumption
<1> DEFINE p == PoolOf[s]
<1>1. p \in Pool /\ queue[p] \in Seq(Share) /\ queue'[p] = Append(queue[p], s)
  BY DEF QueueOK
<1>2. \A q \in Pool : q # p => queue'[q] = queue[q]
  BY DEF QueueOK
<1>3. /\ Len(queue[p]) \in Nat
      /\ Len(queue'[p]) = Len(queue[p]) + 1
      /\ queue'[p][Len(queue[p]) + 1] = s
      /\ \A i \in 1..Len(queue[p]) : queue'[p][i] = queue[p][i]
  BY <1>1, LenProperties, AppendProperties
<1>4. \A i \in 1..Len(queue[p]) : queue[p][i] # s
  BY DEF InQueue
<1> HIDE DEF p
<1>5. QueueOnce'
  <2> SUFFICES ASSUME NEW q \in Pool, NEW i \in 1..Len(queue'[q]), NEW j \in 1..Len(queue'[q]),
                      queue'[q][i] = queue'[q][j]
               PROVE  i = j
    BY DEF QueueOnce
  <2>1. CASE q = p
    BY <1>3, <1>4, <2>1 DEF QueueOnce
  <2>2. CASE q # p
    BY <1>2, <2>2 DEF QueueOnce
  <2> QED
    BY <2>1, <2>2
<1>6. ASSUME NEW t \in Share PROVE InQueue(t)' <=> InQueue(t) \/ t = s
  <2>1. CASE PoolOf[t] = p
    BY <1>3, <2>1 DEF InQueue
  <2>2. CASE PoolOf[t] # p
    BY <1>2, <2>2 DEF InQueue, p
  <2> QED
    BY <2>1, <2>2
<1> QED
  BY <1>5, <1>6

LEMMA PoppedSequence ==
  ASSUME NEW S, NEW q \in Seq(S), q # <<>>
  PROVE  /\ Len(q) \in Nat \ {0}
         /\ Head(q) = q[1] /\ Head(q) \in S
         /\ Len(Tail(q)) = Len(q) - 1
         /\ \A i \in 1..Len(q) - 1 : Tail(q)[i] = q[i + 1]
<1>1. Len(q) \in Nat /\ Len(q) # 0
  BY EmptySeq, LenProperties
<1>2. Head(q) = q[1] /\ Head(q) \in S /\ Len(Tail(q)) = Len(q) - 1
  BY <1>1
<1>3. ASSUME NEW i \in 1..Len(q) - 1 PROVE Tail(q)[i] = q[i + 1]
  BY <1>1
<1> QED
  BY <1>1, <1>2, <1>3

(* tq_pop takes the head, and nothing else, out of the queue. *)
LEMMA PoppedOnce ==
  ASSUME QueueOK, QueueOnce, QueueIsOwn, NEW p \in Pool, queue[p] # <<>>,
         queue' = [queue EXCEPT ![p] = Tail(@)]
  PROVE  /\ QueueOnce'
         /\ Head(queue[p]) \in Share /\ PoolOf[Head(queue[p])] = p /\ InQueue(Head(queue[p]))
         /\ \A t \in Share : InQueue(t)' <=> InQueue(t) /\ t # Head(queue[p])
<1> USE StratumAssumption
<1>1. /\ queue[p] \in Seq(Share) /\ queue'[p] = Tail(queue[p])
      /\ \A q \in Pool : q # p => queue'[q] = queue[q]
  BY DEF QueueOK
<1>2. /\ Len(queue[p]) \in Nat \ {0}
      /\ Head(queue[p]) = queue[p][1] /\ Head(queue[p]) \in Share
      /\ Len(queue'[p]) = Len(queue[p]) - 1
      /\ \A i \in 1..Len(queue[p]) - 1 : queue'[p][i] = queue[p][i + 1]
  <2> DEFINE u == queue[p]
  <2>1. u \in Seq(Share) /\ u # <<>> /\ queue'[p] = Tail(u)
    BY <1>1
  <2> HIDE DEF u
  <2>2. /\ Len(u) \in Nat \ {0} /\ Head(u) = u[1] /\ Head(u) \in Share
        /\ Len(Tail(u)) = Len(u) - 1
        /\ \A i \in 1..Len(u) - 1 : Tail(u)[i] = u[i + 1]
    BY <2>1, PoppedSequence
  <2>3. Len(queue'[p]) = Len(u) - 1 /\ \A i \in 1..Len(u) - 1 : queue'[p][i] = u[i + 1]
    BY <2>1, <2>2
  <2> QED
    BY <2>2, <2>3 DEF u
<1>3. PoolOf[Head(queue[p])] = p /\ InQueue(Head(queue[p]))
  BY <1>2 DEF QueueIsOwn, InQueue
<1>4. QueueOnce'
  <2> SUFFICES ASSUME NEW q \in Pool, NEW i \in 1..Len(queue'[q]), NEW j \in 1..Len(queue'[q]),
                      queue'[q][i] = queue'[q][j]
               PROVE  i = j
    BY DEF QueueOnce
  <2>1. CASE q = p
    <3>1. i \in 1..Len(queue[p]) - 1 /\ j \in 1..Len(queue[p]) - 1
      BY <1>2, <2>1
    <3>2. /\ i + 1 \in 1..Len(queue[p]) /\ j + 1 \in 1..Len(queue[p])
          /\ queue[p][i + 1] = queue[p][j + 1]
      BY <1>2, <2>1, <3>1
    <3>3. i + 1 = j + 1
      BY <3>2 DEF QueueOnce
    <3> QED
      BY <3>3
  <2>2. CASE q # p
    BY <1>1, <2>2 DEF QueueOnce
  <2> QED
    BY <2>1, <2>2
<1>5. ASSUME NEW t \in Share PROVE InQueue(t)' <=> InQueue(t) /\ t # Head(queue[p])
  <2>1. CASE PoolOf[t] # p
    BY <1>1, <1>3, <2>1 DEF InQueue
  <2>2. CASE PoolOf[t] = p
    <3>1. InQueue(t)' <=> \E i \in 1..Len(queue[p]) - 1 : queue[p][i + 1] = t
      <4>1. InQueue(t)' <=> \E i \in 1..Len(queue'[p]) : queue'[p][i] = t
        BY <2>2 DEF InQueue
      <4> QED
        BY <1>2, <4>1
    <3>2. ASSUME NEW i \in 1..Len(queue[p]) - 1, queue[p][i + 1] = t
          PROVE  InQueue(t) /\ t # Head(queue[p])
      <4>1. i + 1 \in 1..Len(queue[p]) /\ 1 \in 1..Len(queue[p]) /\ i + 1 # 1
        BY <1>2
      <4>2. queue[p][i + 1] # queue[p][1]
        BY <4>1 DEF QueueOnce
      <4> QED
        BY <1>2, <2>2, <3>2, <4>1, <4>2 DEF InQueue
    <3>3. ASSUME NEW i \in 1..Len(queue[p]), queue[p][i] = t, t # Head(queue[p])
          PROVE  \E k \in 1..Len(queue[p]) - 1 : queue[p][k + 1] = t
      <4>1. i - 1 \in 1..Len(queue[p]) - 1 /\ (i - 1) + 1 = i
        BY <1>2, <3>3
      <4> QED
        BY <3>3, <4>1
    <3> QED
      BY <2>2, <3>1, <3>2, <3>3 DEF InQueue
  <2> QED
    BY <2>1, <2>2
<1> QED
  BY <1>2, <1>3, <1>4, <1>5

(* The steps that move a share from one place to the next, or settle it.   *)
LEMMA SubmitPlaces ==
  ASSUME TypeOK, PlaceInv, NEW s \in Share, SubmitWorkAsync(s)
  PROVE  PlaceInv'
<1> USE StratumAssumption DEF TypeOK, PlaceInv
<1>1. fate[s] = "none" /\ ~InQueue(s) /\ ~InHand(s) /\ ~InTable(s) /\ ~IsAnswered(s)
  BY DEF SubmitWorkAsync, OpenIsPlaced
<1>2. UNCHANGED <<sshare, spc, stratumShares, answered, rpc>>
  BY DEF SubmitWorkAsync, tabVars, sVars, rVars
<1>3. AnsweredOnce' /\ HandsAgree'
  BY <1>2 DEF AnsweredOnce, HandsAgree
<1>4. CASE /\ UNCHANGED queue
           /\ \E f \in {"stale", "discarded"} : fate' = [fate EXCEPT ![s] = f]
  <2>1. QueueOnce' /\ \A t \in Share : InQueue(t)' <=> InQueue(t)
    BY <1>4 DEF QueueOnce, InQueue
  <2>2. fate'[s] # "queued" /\ \A t \in Share \ {s} : fate'[t] = fate[t]
    BY <1>4 DEF FateOK
  <2> QED
    BY <1>1, <1>2, <1>3, <2>1, <2>2
    DEF PlacesExclude, OpenIsPlaced, InHand, InTable, IsAnswered
<1>5. CASE /\ queue' = [queue EXCEPT ![PoolOf[s]] = Append(@, s)]
           /\ fate' = [fate EXCEPT ![s] = "queued"]
  <2>1. QueueOnce' /\ \A t \in Share : InQueue(t)' <=> InQueue(t) \/ t = s
    BY <1>1, <1>5, PushedOnce
  <2>2. fate'[s] = "queued" /\ \A t \in Share \ {s} : fate'[t] = fate[t]
    BY <1>5 DEF FateOK
  <2> QED
    BY <1>1, <1>2, <1>3, <2>1, <2>2
    DEF PlacesExclude, OpenIsPlaced, InHand, InTable, IsAnswered
<1> QED
  BY <1>4, <1>5 DEF SubmitWorkAsync, Settle

LEMMA PopPlaces ==
  ASSUME TypeOK, QueueIsOwn, PlaceInv, NEW p \in Pool, SPop(p)
  PROVE  PlaceInv'
<1> USE StratumAssumption DEF TypeOK, PlaceInv
<1> DEFINE s == Head(queue[p])
<1>1. /\ QueueOnce'
      /\ s \in Share /\ PoolOf[s] = p /\ InQueue(s)
      /\ \A t \in Share : InQueue(t)' <=> InQueue(t) /\ t # s
  BY PoppedOnce DEF SPop
<1>2. UNCHANGED <<stratumShares, answered, rpc>> /\ spc[p] = "pop"
  BY DEF SPop, tabVars, rVars
<1>3. ~InHand(s) /\ ~InTable(s) /\ ~IsAnswered(s) /\ sshare[p] \notin Share
  BY <1>1, <1>2 DEF PlacesExclude, HandsAgree
<1>4. /\ \/ fate' = [fate EXCEPT ![s] = "discarded"] /\ UNCHANGED sshare
            /\ spc' = [spc EXCEPT ![p] = "head"]
         \/ UNCHANGED fate /\ sshare' = [sshare EXCEPT ![p] = s]
            /\ spc' = [spc EXCEPT ![p] = "id"]
  BY DEF SPop, Settle, SGoto
<1> HIDE DEF s
<1>5. AnsweredOnce' /\ HandsAgree'
  BY <1>2, <1>3, <1>4 DEF AnsweredOnce, HandsAgree, SThreadOK
<1>6. CASE fate' = [fate EXCEPT ![s] = "discarded"] /\ UNCHANGED sshare
  <2>1. fate'[s] # "queued" /\ \A t \in Share \ {s} : fate'[t] = fate[t]
    BY <1>1, <1>6 DEF FateOK
  <2> QED
    BY <1>1, <1>2, <1>3, <1>5, <1>6, <2>1
    DEF PlacesExclude, OpenIsPlaced, InHand, InTable, IsAnswered
<1>7. CASE UNCHANGED fate /\ sshare' = [sshare EXCEPT ![p] = s]
  <2>1. \A t \in Share : InHand(t)' <=> InHand(t) \/ t = s
    BY <1>1, <1>3, <1>7 DEF InHand, SThreadOK
  <2> QED
    BY <1>1, <1>2, <1>3, <1>5, <1>7, <2>1
    DEF PlacesExclude, OpenIsPlaced, InTable, IsAnswered
<1> QED
  BY <1>4, <1>6, <1>7

(* sshare = NULL: stratum_sthread lets go of its share. *)
LEMMA LetGo ==
  ASSUME SThreadOK, SendsOwn, HandsAgree, NEW p \in Pool, sshare[p] \in Share, SDone(p)
  PROVE  /\ \A t \in Share : InHand(t)' <=> InHand(t) /\ t # sshare[p]
         /\ \A q \in Pool : sshare'[q] \in Share => spc'[q] \notin {"head", "pop", "exit"}
<1> USE StratumAssumption
<1>1. PoolOf[sshare[p]] = p
  BY DEF SendsOwn
<1>2. ASSUME NEW t \in Share PROVE InHand(t)' <=> InHand(t) /\ t # sshare[p]
  BY <1>1 DEF InHand, SDone, SThreadOK
<1>3. ASSUME NEW q \in Pool, sshare'[q] \in Share
      PROVE  spc'[q] \notin {"head", "pop", "exit"}
  BY <1>3 DEF SDone, SGoto, SThreadOK, HandsAgree
<1> QED
  BY <1>2, <1>3

LEMMA AddPlaces ==
  ASSUME TypeOK, SendsOwn, PlaceInv, NEW p \in Pool, SAdd(p)
  PROVE  PlaceInv'
<1> USE StratumAssumption DEF TypeOK, PlaceInv
<1>1. sshare[p] \in Share /\ InHand(sshare[p])
  BY DEF SAdd, SThreadOK, SendsOwn, InHand
<1>2. /\ \A t \in Share : InHand(t)' <=> InHand(t) /\ t # sshare[p]
      /\ \A q \in Pool : sshare'[q] \in Share => spc'[q] \notin {"head", "pop", "exit"}
  BY <1>1, LetGo DEF SAdd
<1>3. UNCHANGED <<queue, fate, answered, rpc>>
  BY DEF SAdd, qVars, rVars
<1>4. \A t \in Share : InTable(t)' <=> InTable(t) \/ t = sshare[p]
  BY DEF SAdd, InTable
<1>5. \A t \in Share : InQueue(t)' <=> InQueue(t)
  BY <1>3 DEF InQueue
<1>6. \A t \in Share : IsAnswered(t)' <=> IsAnswered(t)
  BY <1>3 DEF IsAnswered
<1>7. QueueOnce' /\ AnsweredOnce' /\ HandsAgree'
  BY <1>2, <1>3 DEF QueueOnce, AnsweredOnce, HandsAgree
<1> QED
  BY <1>1, <1>2, <1>3, <1>4, <1>5, <1>6, <1>7 DEF PlacesExclude, OpenIsPlaced

LEMMA GiveUpPlaces ==
  ASSUME TypeOK, SendsOwn, PlaceInv, NEW p \in Pool, SGiveUp(p)
  PROVE  PlaceInv'
<1> USE StratumAssumption DEF TypeOK, PlaceInv
<1>1. sshare[p] \in Share /\ InHand(sshare[p])
  BY DEF SGiveUp, SThreadOK, SendsOwn, InHand
<1>2. /\ \A t \in Share : InHand(t)' <=> InHand(t) /\ t # sshare[p]
      /\ \A q \in Pool : sshare'[q] \in Share => spc'[q] \notin {"head", "pop", "exit"}
  BY <1>1, LetGo DEF SGiveUp
<1>3. UNCHANGED <<queue, stratumShares, answered, rpc>>
  BY DEF SGiveUp, qVars, tabVars, rVars
<1>4. /\ fate'[sshare[p]] # "queued"
      /\ \A t \in Share \ {sshare[p]} : fate'[t] = fate[t]
  BY <1>1 DEF SGiveUp, Settle, FateOK
<1>5. QueueOnce' /\ AnsweredOnce' /\ HandsAgree'
  BY <1>2, <1>3 DEF QueueOnce, AnsweredOnce, HandsAgree
<1> QED
  BY <1>1, <1>2, <1>3, <1>4, <1>5
  DEF PlacesExclude, OpenIsPlaced, InQueue, InTable, IsAnswered

LEMMA ClearPlaces ==
  ASSUME TypeOK, PlaceInv, NEW p \in Pool, ClearStratumShares(p),
         UNCHANGED <<queue, sVars, answered>>,
         \A q \in Pool : rpc[q] = "account" => rpc'[q] = "account"
  PROVE  PlaceInv'
<1> USE StratumAssumption DEF TypeOK, PlaceInv
<1> DEFINE cleared == {s \in stratumShares : PoolOf[s] = p}
<1>1. \A t \in Share : /\ InTable(t)' <=> InTable(t) /\ t \notin cleared
                       /\ fate'[t] = "queued" <=> fate[t] = "queued" /\ t \notin cleared
  BY DEF ClearStratumShares, InTable, FateOK
<1>2. \A t \in cleared : t \in Share /\ InTable(t)
  BY DEF TableOK, InTable
<1>3. \A t \in Share : /\ InQueue(t)' <=> InQueue(t)
                       /\ InHand(t)' <=> InHand(t)
                       /\ IsAnswered(t)' <=> IsAnswered(t)
  BY DEF InQueue, InHand, IsAnswered, sVars
<1>4. QueueOnce' /\ AnsweredOnce' /\ HandsAgree'
  BY DEF QueueOnce, AnsweredOnce, HandsAgree, sVars
<1> HIDE DEF cleared
<1> QED
  BY <1>1, <1>2, <1>3, <1>4 DEF PlacesExclude, OpenIsPlaced

LEMMA ResponsePlaces ==
  ASSUME TypeOK, PlaceInv, NEW p \in Pool, RResponse(p)
  PROVE  PlaceInv'
<1> USE StratumAssumption DEF TypeOK, PlaceInv
<1>1. UNCHANGED <<queue, sshare, spc, fate>> /\ rpc[p] = "recv"
  BY DEF RResponse, qVars, sVars
<1>2. answered[p] \notin Share
  BY <1>1 DEF HandsAgree
<1>3. CASE /\ UNCHANGED <<stratumShares, answered>>
           /\ rpc' = [rpc EXCEPT ![p] = "head"]
  <2>1. QuietStep
    BY <1>1, <1>3 DEF QuietStep, RThreadOK
  <2> QED
    BY <2>1, QuietStepKeeps
<1>4. CASE \E s \in stratumShares :
             /\ stratumShares' = stratumShares \ {s}
             /\ answered' = [answered EXCEPT ![p] = s]
             /\ rpc' = [rpc EXCEPT ![p] = "account"]
  <2>1. PICK s \in Share : /\ s \in stratumShares
                           /\ stratumShares' = stratumShares \ {s}
                           /\ answered' = [answered EXCEPT ![p] = s]
                           /\ rpc' = [rpc EXCEPT ![p] = "account"]
    BY <1>4 DEF TableOK
  <2>2. InTable(s) /\ ~InQueue(s) /\ ~InHand(s) /\ ~IsAnswered(s)
    BY <2>1 DEF InTable, PlacesExclude
  <2>3. \A t \in Share : /\ InTable(t)' <=> InTable(t) /\ t # s
                         /\ InQueue(t)' <=> InQueue(t)
                         /\ InHand(t)' <=> InHand(t)
    BY <1>1, <2>1 DEF InTable, InQueue, InHand
  <2>4. answered'[p] = s /\ \A q \in Pool \ {p} : answered'[q] = answered[q] /\ answered[q] # s
    BY <2>1, <2>2 DEF RThreadOK, IsAnswered
  <2>5. \A t \in Share : IsAnswered(t)' <=> IsAnswered(t) \/ t = s
    BY <1>2, <2>4 DEF IsAnswered
  <2>6. AnsweredOnce'
    BY <2>4 DEF AnsweredOnce
  <2>7. QueueOnce' /\ HandsAgree'
    BY <1>1, <2>1 DEF QueueOnce, HandsAgree, RThreadOK
  <2> QED
    BY <1>1, <2>2, <2>3, <2>5, <2>6, <2>7 DEF PlacesExclude, OpenIsPlaced
<1> QED
  BY <1>3, <1>4 DEF RResponse, RGoto

LEMMA ShareResultPlaces ==
  ASSUME TypeOK, PlaceInv, NEW p \in Pool, RShareResult(p)
  PROVE  PlaceInv'
<1> USE StratumAssumption DEF TypeOK, PlaceInv
<1>1. UNCHANGED <<queue, sshare, spc, stratumShares>> /\ rpc[p] = "account"
  BY DEF RShareResult, qVars, tabVars, sVars
<1>2. answered[p] \in Share /\ IsAnswered(answered[p])
  BY <1>1 DEF RThreadOK, IsAnswered
<1>3. /\ fate'[answered[p]] # "queued"
      /\ \A t \in Share \ {answered[p]} : fate'[t] = fate[t]
  BY <1>2 DEF RShareResult, Settle, FateOK
<1>4. answered' = [answered EXCEPT ![p] = NoShare] /\ rpc' = [rpc EXCEPT ![p] = "head"]
  BY DEF RShareResult, RGoto
<1>5. \A t \in Share : IsAnswered(t)' <=> IsAnswered(t) /\ t # answered[p]
  <2> TAKE t \in Share
  <2>1. answered'[p] \notin Share /\ \A q \in Pool \ {p} : answered'[q] = answered[q]
    BY <1>4 DEF RThreadOK
  <2>2. \A q \in Pool \ {p} : answered[q] # answered[p]
    BY <1>2 DEF AnsweredOnce
  <2> QED
    BY <2>1, <2>2 DEF IsAnswered
<1>6. \A t \in Share : /\ InTable(t)' <=> InTable(t)
                       /\ InQueue(t)' <=> InQueue(t)
                       /\ InHand(t)' <=> InHand(t)
  BY <1>1 DEF InTable, InQueue, InHand
<1>7. QueueOnce' /\ AnsweredOnce' /\ HandsAgree'
  BY <1>1, <1>4 DEF QueueOnce, AnsweredOnce, HandsAgree, RThreadOK
<1> QED
  BY <1>2, <1>3, <1>5, <1>6, <1>7 DEF PlacesExclude, OpenIsPlaced

(* Every step keeps each share in one place.                               *)
LEMMA PlacesKept ==
  ASSUME TypeOK, QueueIsOwn, SendsOwn, PlaceInv, [Next]_vars
  PROVE  PlaceInv'
<1> USE DEF TypeOK, netVars, tabVars, qVars, sVars, rVars
<1>1. ASSUME NEW s \in Share, SubmitWorkAsync(s) PROVE PlaceInv'
  BY <1>1, SubmitPlaces
<1>2. ASSUME NEW p \in Pool, Administer(p) PROVE PlaceInv'
  <2>1. QuietStep
    BY <1>2 DEF Administer, QuietStep
  <2> QED
    BY <2>1, QuietStepKeeps
<1>3. ASSUME NEW p \in Pool, PoolAnswers(p) PROVE PlaceInv'
  <2>1. QuietStep
    BY <1>3 DEF PoolAnswers, QuietStep
  <2> QED
    BY <2>1, QuietStepKeeps
<1>4. ASSUME NEW p \in Pool, PoolDies(p) PROVE PlaceInv'
  <2>1. QuietStep
    BY <1>4 DEF PoolDies, QuietStep
  <2> QED
    BY <2>1, QuietStepKeeps
<1>5. ASSUME NEW p \in Pool, SHead(p) PROVE PlaceInv'
  <2>1. QuietStep
    BY <1>5 DEF SHead, SGoto, QuietStep, SThreadOK
  <2> QED
    BY <2>1, QuietStepKeeps
<1>6. ASSUME NEW p \in Pool, SPop(p) PROVE PlaceInv'
  BY <1>6, PopPlaces
<1>7. ASSUME NEW p \in Pool, SId(p) PROVE PlaceInv'
  <2>1. QuietStep
    BY <1>7 DEF SId, SGoto, QuietStep, SThreadOK
  <2> QED
    BY <2>1, QuietStepKeeps
<1>8. ASSUME NEW p \in Pool, SSend(p) PROVE PlaceInv'
  <2>1. QuietStep
    BY <1>8 DEF SSend, Send, SGoto, QuietStep, SThreadOK
  <2> QED
    BY <2>1, QuietStepKeeps
<1>9. ASSUME NEW p \in Pool, SSendFailed(p) PROVE PlaceInv'
  <2>1. QuietStep
    BY <1>9 DEF SSendFailed, SuspendStratum, SGoto, QuietStep, SThreadOK
  <2> QED
    BY <2>1, QuietStepKeeps
<1>10. ASSUME NEW p \in Pool, SAdd(p) PROVE PlaceInv'
  BY <1>10, AddPlaces
<1>11. ASSUME NEW p \in Pool, SGiveUp(p) PROVE PlaceInv'
  BY <1>11, GiveUpPlaces
<1>12. ASSUME NEW p \in Pool, SSleep(p) PROVE PlaceInv'
  <2>1. QuietStep
    BY <1>12 DEF SSleep, SGoto, QuietStep, SThreadOK
  <2> QED
    BY <2>1, QuietStepKeeps
<1>13. ASSUME NEW p \in Pool, RHead(p) PROVE PlaceInv'
  <2>1. QuietStep
    BY <1>13 DEF RHead, RGoto, QuietStep, RThreadOK
  <2> QED
    BY <2>1, QuietStepKeeps
<1>14. ASSUME NEW p \in Pool, RSuspendIdle(p) PROVE PlaceInv'
  <2>1. QuietStep
    BY <1>14 DEF RSuspendIdle, SuspendStratum, RGoto, QuietStep, RThreadOK
  <2> QED
    BY <2>1, QuietStepKeeps
<1>15. ASSUME NEW p \in Pool, RClearIdle(p) PROVE PlaceInv'
  <2>1. \A q \in Pool : rpc[q] = "account" => rpc'[q] = "account"
    BY <1>15 DEF RClearIdle, RGoto, RThreadOK
  <2> QED
    BY <1>15, <2>1, ClearPlaces DEF RClearIdle
<1>16. ASSUME NEW p \in Pool, RWanted(p) PROVE PlaceInv'
  <2>1. QuietStep
    BY <1>16 DEF RWanted, RGoto, QuietStep, RThreadOK
  <2> QED
    BY <2>1, QuietStepKeeps
<1>17. ASSUME NEW p \in Pool, RResponse(p) PROVE PlaceInv'
  BY <1>17, ResponsePlaces
<1>18. ASSUME NEW p \in Pool, RShareResult(p) PROVE PlaceInv'
  BY <1>18, ShareResultPlaces
<1>19. ASSUME NEW p \in Pool, RMethod(p) PROVE PlaceInv'
  <2>1. QuietStep
    BY <1>19 DEF RMethod, SuspendStratum, RGoto, QuietStep, RThreadOK
  <2> QED
    BY <2>1, QuietStepKeeps
<1>20. ASSUME NEW p \in Pool, RLost(p) PROVE PlaceInv'
  <2>1. QuietStep
    BY <1>20 DEF RLost, SuspendStratum, RGoto, QuietStep, RThreadOK
  <2> QED
    BY <2>1, QuietStepKeeps
<1>21. ASSUME NEW p \in Pool, RClearLost(p) PROVE PlaceInv'
  <2>1. \A q \in Pool : rpc[q] = "account" => rpc'[q] = "account"
    BY <1>21 DEF RClearLost, RGoto, RThreadOK
  <2>2. CASE ClearStratumShares(p)
    BY <1>21, <2>1, <2>2, ClearPlaces DEF RClearLost
  <2>3. CASE UNCHANGED <<tabVars, fate>>
    <3>1. QuietStep
      BY <1>21, <2>1, <2>3 DEF RClearLost, QuietStep
    <3> QED
      BY <3>1, QuietStepKeeps
  <2> QED
    BY <1>21, <2>2, <2>3 DEF RClearLost
<1>22. ASSUME NEW p \in Pool, RDown(p) PROVE PlaceInv'
  <2>1. QuietStep
    BY <1>22 DEF RDown, RGoto, QuietStep, RThreadOK
  <2> QED
    BY <2>1, QuietStepKeeps
<1>23. ASSUME NEW p \in Pool, RConnect(p) PROVE PlaceInv'
  <2>1. QuietStep
    BY <1>23 DEF RConnect, RestartFails, RGoto, QuietStep, RThreadOK
  <2> QED
    BY <2>1, QuietStepKeeps
<1>24. ASSUME NEW p \in Pool, RSubscribe(p) PROVE PlaceInv'
  <2>1. QuietStep
    BY <1>24 DEF RSubscribe, RGoto, QuietStep, RThreadOK
  <2> QED
    BY <2>1, QuietStepKeeps
<1>25. ASSUME NEW p \in Pool, RSubscribed(p) PROVE PlaceInv'
  <2>1. QuietStep
    BY <1>25 DEF RSubscribed, RGoto, QuietStep, RThreadOK
  <2> QED
    BY <2>1, QuietStepKeeps
<1>26. ASSUME NEW p \in Pool, RSubscribeAfresh(p) PROVE PlaceInv'
  <2>1. QuietStep
    BY <1>26 DEF RSubscribeAfresh, RGoto, QuietStep, RThreadOK
  <2> QED
    BY <2>1, QuietStepKeeps
<1>27. ASSUME NEW p \in Pool, RSubscribeFails(p) PROVE PlaceInv'
  <2>1. QuietStep
    BY <1>27 DEF RSubscribeFails, SuspendStratum, RestartFails, RGoto, QuietStep, RThreadOK
  <2> QED
    BY <2>1, QuietStepKeeps
<1>28. ASSUME NEW p \in Pool, RAuthorize(p) PROVE PlaceInv'
  <2>1. QuietStep
    BY <1>28 DEF RAuthorize, SuspendStratum, RestartFails, Send, RGoto, QuietStep, RThreadOK
  <2> QED
    BY <2>1, QuietStepKeeps
<1>29. ASSUME NEW p \in Pool, RAuthorized(p) PROVE PlaceInv'
  <2>1. QuietStep
    BY <1>29 DEF RAuthorized, SuspendStratum, RestartFails, RGoto, QuietStep, RThreadOK
  <2> QED
    BY <2>1, QuietStepKeeps
<1>30. ASSUME NEW p \in Pool, RAuthTimeout(p) PROVE PlaceInv'
  <2>1. QuietStep
    BY <1>30 DEF RAuthTimeout, SuspendStratum, RestartFails, RGoto, QuietStep, RThreadOK
  <2> QED
    BY <2>1, QuietStepKeeps
<1>31. CASE UNCHANGED vars
  <2>1. QuietStep
    BY <1>31 DEF QuietStep, vars
  <2> QED
    BY <2>1, QuietStepKeeps
<1> QED
  BY <1>1, <1>2, <1>3, <1>4, <1>5, <1>6, <1>7, <1>8, <1>9, <1>10, <1>11, <1>12, <1>13, <1>14, <1>15, <1>16, <1>17, <1>18, <1>19, <1>20, <1>21, <1>22, <1>23, <1>24, <1>25, <1>26, <1>27, <1>28, <1>29, <1>30, <1>31
  DEF Next, SThread, RLoop, RestartStratum

LEMMA PlacesInvariant == Spec => []PlaceInv
<1>1. Init => PlaceInv
  BY StratumAssumption
  DEF Init, PlaceInv, QueueOnce, AnsweredOnce, PlacesExclude, OpenIsPlaced, HandsAgree,
      InQueue, InHand, InTable, IsAnswered
<1>2. TypeOK /\ IInv /\ PlaceInv /\ [Next]_vars => PlaceInv'
  BY PlacesKept DEF IInv
<1> QED
  BY <1>1, <1>2, TypeCorrect, SuspensionInvariant, PTL DEF Spec

(* The same said of the set of places of a share. *)
LEMMA OnePlaceEach ==
  ASSUME TypeOK, QueueIsOwn, SendsOwn, PlaceInv
  PROVE  SharesHaveOnePlace
<1> USE StratumAssumption DEF TypeOK, PlaceInv
<1> SUFFICES ASSUME NEW s \in Share
             PROVE  Cardinality(Places(s)) = IF fate[s] = "queued" THEN 1 ELSE 0
  BY DEF SharesHaveOnePlace
<1> DEFINE
      q1 == {<<"queue", p>> : p \in {q \in Pool : s \in Queued(q)}}
      q2 == {<<"sending", p>> : p \in {q \in Pool : sshare[q] = s}}
      q3 == {<<"table", NoPool>> : t \in stratumShares \cap {s}}
      q4 == {<<"answered", p>> : p \in {q \in Pool : answered[q] = s}}
<1>1. Places(s) = q1 \cup q2 \cup q3 \cup q4
  BY DEF Places
<1>2. q1 = IF InQueue(s) THEN {<<"queue", PoolOf[s]>>} ELSE {}
  <2>1. \A p \in Pool : s \in Queued(p) <=> p = PoolOf[s] /\ InQueue(s)
    BY DEF Queued, InQueue, QueueIsOwn
  <2> QED
    BY <2>1
<1>3. q2 = IF InHand(s) THEN {<<"sending", PoolOf[s]>>} ELSE {}
  <2>1. \A p \in Pool : sshare[p] = s <=> p = PoolOf[s] /\ InHand(s)
    BY DEF InHand, SendsOwn
  <2> QED
    BY <2>1
<1>4. q3 = IF InTable(s) THEN {<<"table", NoPool>>} ELSE {}
  BY DEF InTable
<1>5. \/ ~IsAnswered(s) /\ q4 = {}
      \/ IsAnswered(s) /\ \E p \in Pool : q4 = {<<"answered", p>>}
  <2>1. CASE IsAnswered(s)
    <3>1. PICK p \in Pool : answered[p] = s
      BY <2>1 DEF IsAnswered
    <3>2. \A q \in Pool : answered[q] = s <=> q = p
      BY <3>1 DEF AnsweredOnce
    <3>3. q4 = {<<"answered", p>>}
      BY <3>2
    <3> QED
      BY <2>1, <3>3
  <2>2. CASE ~IsAnswered(s)
    BY <2>2 DEF IsAnswered
  <2> QED
    BY <2>1, <2>2
<1>6. fate[s] = "queued" <=> InQueue(s) \/ InHand(s) \/ InTable(s) \/ IsAnswered(s)
  BY DEF OpenIsPlaced
<1>7. /\ InQueue(s) => ~InHand(s) /\ ~InTable(s) /\ ~IsAnswered(s)
      /\ InHand(s) => ~InTable(s) /\ ~IsAnswered(s)
      /\ InTable(s) => ~IsAnswered(s)
  BY DEF PlacesExclude
<1> HIDE DEF q1, q2, q3, q4
<1>8. IF fate[s] = "queued" THEN \E x : Places(s) = {x} ELSE Places(s) = {}
  BY <1>1, <1>2, <1>3, <1>4, <1>5, <1>6, <1>7
<1> QED
  BY <1>8, FS_EmptySet, FS_Singleton

(* A share whose fate is open is in one place and a settled one in none,   *)
(* for any number of pools and shares, even when the ids of two tracked    *)
(* shares are the same and an answer takes the wrong one out of the table. *)
THEOREM OnePlace == Spec => []SharesHaveOnePlace
<1>1. TypeOK /\ IInv /\ PlaceInv => SharesHaveOnePlace
  BY OnePlaceEach DEF IInv
<1> QED
  BY <1>1, TypeCorrect, SuspensionInvariant, PlacesInvariant, PTL

----------------------------------------------------------------------------
(* Only these settle shares, and only shares whose fate is open. *)
LEMMA SettlesOpen ==
  ASSUME TypeOK, QueueIsOwn, SendsOwn, PlaceInv, [Next]_vars
  PROVE  [Ledger!Next]_fate
<1> USE StratumAssumption DEF TypeOK, PlaceInv
<1>1. ASSUME NEW s \in Share, SubmitWorkAsync(s) PROVE Ledger!Next
  BY <1>1 DEF SubmitWorkAsync, Settle, Ledger!Next, Ledger!Find
<1>2. ASSUME NEW s \in Share, InQueue(s) \/ InHand(s) \/ InTable(s) \/ IsAnswered(s),
             NEW f \in Ledger!Outcome, Settle(s, f)
      PROVE  Ledger!Next
  <2>1. fate[s] = "queued"
    BY <1>2 DEF OpenIsPlaced
  <2>2. fate' = [t \in Share |-> IF t \in {s} THEN f ELSE fate[t]]
    BY <1>2 DEF Settle, FateOK
  <2>3. Ledger!SettleAll({s}, f)
    BY <2>1, <2>2 DEF Ledger!SettleAll
  <2> QED
    BY <2>3 DEF Ledger!Next
<1>3. ASSUME NEW p \in Pool, ClearStratumShares(p) PROVE Ledger!Next
  <2> DEFINE cleared == {s \in stratumShares : PoolOf[s] = p}
  <2>1. cleared \in SUBSET Share /\ \A s \in cleared : fate[s] = "queued"
    BY DEF TableOK, OpenIsPlaced, InTable
  <2>2. fate' = [s \in Share |-> IF s \in cleared THEN "stale" ELSE fate[s]]
    BY <1>3 DEF ClearStratumShares
  <2>3. Ledger!SettleAll(cleared, "stale")
    BY <2>1, <2>2 DEF Ledger!SettleAll
  <2> QED
    BY <2>1, <2>3 DEF Ledger!Next, Ledger!Outcome
<1>4. ASSUME NEW p \in Pool, SPop(p) PROVE [Ledger!Next]_fate
  <2>1. Head(queue[p]) \in Share /\ InQueue(Head(queue[p]))
    BY <1>4, PoppedOnce DEF SPop
  <2>2. UNCHANGED fate \/ Settle(Head(queue[p]), "discarded")
    BY <1>4 DEF SPop
  <2> QED
    BY <1>2, <2>1, <2>2 DEF Ledger!Outcome
<1>5. ASSUME NEW p \in Pool, SGiveUp(p) PROVE Ledger!Next
  <2>1. sshare[p] \in Share /\ InHand(sshare[p])
    BY <1>5 DEF SGiveUp, SThreadOK, SendsOwn, InHand
  <2> QED
    BY <1>2, <1>5, <2>1 DEF SGiveUp, Ledger!Outcome
<1>6. ASSUME NEW p \in Pool, RShareResult(p) PROVE Ledger!Next
  <2>1. answered[p] \in Share /\ IsAnswered(answered[p])
    BY <1>6 DEF RShareResult, RThreadOK, IsAnswered
  <2>2. \E f \in {"accepted", "rejected"} : Settle(answered[p], f)
    BY <1>6 DEF RShareResult
  <2> QED
    BY <1>2, <2>1, <2>2 DEF Ledger!Outcome
<1>7. ASSUME NEW p \in Pool,
             SHead(p) \/ SId(p) \/ SSend(p) \/ SSendFailed(p) \/ SAdd(p) \/ SSleep(p)
      PROVE  UNCHANGED fate
  BY <1>7 DEF SHead, SId, SSend, SSendFailed, SAdd, SSleep
<1>8. ASSUME NEW p \in Pool,
             \/ RHead(p) \/ RSuspendIdle(p) \/ RWanted(p) \/ RResponse(p) \/ RMethod(p) \/ RLost(p)
             \/ RestartStratum(p)
      PROVE  UNCHANGED fate
  BY <1>8 DEF RHead, RSuspendIdle, RWanted, RResponse, RMethod, RLost, RestartStratum, RDown,
       RConnect, RSubscribe, RSubscribed, RSubscribeAfresh, RSubscribeFails, RAuthorize,
       RAuthorized, RAuthTimeout
<1>9. ASSUME NEW p \in Pool, RClearIdle(p) \/ RClearLost(p) PROVE [Ledger!Next]_fate
  BY <1>3, <1>9 DEF RClearIdle, RClearLost
<1>10. ASSUME NEW p \in Pool, Administer(p) \/ PoolAnswers(p) \/ PoolDies(p)
       PROVE  UNCHANGED fate
  BY <1>10 DEF Administer, PoolAnswers, PoolDies
<1>11. CASE UNCHANGED vars
  BY <1>11 DEF vars
<1> QED
  BY <1>1, <1>4, <1>5, <1>6, <1>7, <1>8, <1>9, <1>10, <1>11 DEF Next, SThread, RLoop

(* The two threads of every pool implement ShareLedger: no share is ever   *)
(* settled twice, or settled before it was found.                          *)
THEOREM ImplementsLedger == Spec => LedgerSpec
<1>1. Init => Ledger!Init
  BY DEF Init, Ledger!Init
<1>2. TypeOK /\ IInv /\ PlaceInv /\ [Next]_vars => [Ledger!Next]_fate
  BY SettlesOpen DEF IInv
<1> QED
  BY <1>1, <1>2, TypeCorrect, SuspensionInvariant, PlacesInvariant, PTL
  DEF Spec, LedgerSpec, Ledger!Spec

----------------------------------------------------------------------------
(* An answer comes only for a share that was sent, and a share that was    *)
(* sent stays known to the threads: it is in the table, or on its way into *)
(* it under sshare_lock, or it left it to be settled.                      *)
Left(s) == fate[s] \in Settled \/ IsAnswered(s)
Entering(s) == InHand(s) /\ spc[PoolOf[s]] = "add"
WasSent(s) == InTable(s) \/ Entering(s) \/ Left(s)

OwedWasSent == \A p \in Pool : \A s \in owed[p] \cap Share : WasSent(s)
IsReply(p, a) == \E i \in 1..Len(replies[p]) : replies[p][i] = a
RepliesWereSent ==
  \A p \in Pool, a \in Answer :
    IsReply(p, a) /\ a.to \in Share => WasSent(a.to) /\ a.id = id[a.to]
UntrackedLeft == \A s \in guessed \cap Share : Left(s)

AnswerInv == OwedWasSent /\ RepliesWereSent /\ UntrackedLeft

LEMMA LeftStays ==
  ASSUME TypeOK, QueueIsOwn, SendsOwn, PlaceInv, [Next]_vars, NEW s \in Share, Left(s)
  PROVE  Left(s)'
<1> USE StratumAssumption DEF TypeOK, PlaceInv
<1>1. CASE fate[s] \in Settled
  <2>1. [Ledger!Next]_fate
    BY SettlesOpen
  <2>2. fate'[s] = fate[s]
    BY <1>1, <2>1 DEF Ledger!Next, Ledger!Find, Ledger!SettleAll, Settled, FateOK
  <2> QED
    BY <1>1, <2>2 DEF Left
<1>2. CASE IsAnswered(s)
  <2>1. PICK q \in Pool : answered[q] = s
    BY <1>2 DEF IsAnswered
  <2>2. rpc[q] = "account"
    BY <2>1 DEF HandsAgree
  <2>3. ASSUME NEW p \in Pool, RResponse(p) PROVE answered'[q] = s
    BY <2>1, <2>2, <2>3 DEF RResponse, RThreadOK
  <2>4. ASSUME NEW p \in Pool, RShareResult(p) PROVE answered'[q] = s \/ fate'[s] \in Settled
    BY <2>1, <2>2, <2>4 DEF RShareResult, Settle, RThreadOK, FateOK, Settled
  <2>5. ASSUME NEW t \in Share, SubmitWorkAsync(t) PROVE answered' = answered
    BY <2>5 DEF SubmitWorkAsync, rVars
  <2>6. ASSUME NEW p \in Pool, SThread(p) PROVE answered' = answered
    BY <2>6 DEF SThread, SHead, SPop, SId, SSend, SSendFailed, SAdd, SGiveUp, SSleep, rVars
  <2>7. ASSUME NEW p \in Pool,
               \/ RHead(p) \/ RSuspendIdle(p) \/ RClearIdle(p) \/ RWanted(p) \/ RMethod(p)
               \/ RLost(p) \/ RClearLost(p) \/ RestartStratum(p)
        PROVE  answered' = answered
    BY <2>7 DEF RHead, RSuspendIdle, RClearIdle, RWanted, RMethod, RLost, RClearLost,
         RestartStratum, RDown, RConnect, RSubscribe, RSubscribed, RSubscribeAfresh,
         RSubscribeFails, RAuthorize, RAuthorized, RAuthTimeout
  <2>8. ASSUME NEW p \in Pool, Administer(p) \/ PoolAnswers(p) \/ PoolDies(p)
        PROVE  answered' = answered
    BY <2>8 DEF Administer, PoolAnswers, PoolDies, rVars
  <2>9. ASSUME UNCHANGED vars PROVE answered' = answered
    BY <2>9 DEF vars, rVars
  <2>10. answered'[q] = s \/ fate'[s] \in Settled
    BY <2>1, <2>3, <2>4, <2>5, <2>6, <2>7, <2>8, <2>9 DEF Next, RLoop
  <2> QED
    BY <2>10 DEF Left, IsAnswered
<1> QED
  BY <1>1, <1>2 DEF Left

LEMMA TableStays ==
  ASSUME TypeOK, [Next]_vars, NEW s \in Share, InTable(s)
  PROVE  WasSent(s)'
<1> USE StratumAssumption DEF TypeOK
<1>1. ASSUME NEW p \in Pool, RResponse(p) PROVE WasSent(s)'
  <2>1. CASE UNCHANGED stratumShares
    BY <2>1 DEF InTable, WasSent
  <2>2. CASE \E t \in stratumShares : /\ stratumShares' = stratumShares \ {t}
                                      /\ answered' = [answered EXCEPT ![p] = t]
    BY <2>2 DEF InTable, WasSent, Left, IsAnswered, RThreadOK
  <2> QED
    BY <1>1, <2>1, <2>2 DEF RResponse
<1>2. ASSUME NEW p \in Pool, ClearStratumShares(p) PROVE WasSent(s)'
  BY <1>2 DEF ClearStratumShares, InTable, WasSent, Left, Settled
<1>3. CASE stratumShares \subseteq stratumShares'
  BY <1>3 DEF InTable, WasSent
<1>4. ASSUME NEW t \in Share, SubmitWorkAsync(t) PROVE stratumShares' = stratumShares
  BY <1>4 DEF SubmitWorkAsync, tabVars
<1>5. ASSUME NEW p \in Pool, SThread(p) PROVE stratumShares \subseteq stratumShares'
  BY <1>5 DEF SThread, SHead, SPop, SId, SSend, SSendFailed, SAdd, SGiveUp, SSleep, tabVars
<1>6. ASSUME NEW p \in Pool,
             \/ RHead(p) \/ RSuspendIdle(p) \/ RWanted(p) \/ RShareResult(p) \/ RMethod(p)
             \/ RLost(p) \/ RestartStratum(p)
      PROVE  stratumShares' = stratumShares
  BY <1>6 DEF RHead, RSuspendIdle, RWanted, RShareResult, RMethod, RLost, RestartStratum,
       RDown, RConnect, RSubscribe, RSubscribed, RSubscribeAfresh, RSubscribeFails, RAuthorize,
       RAuthorized, RAuthTimeout, tabVars
<1>7. ASSUME NEW p \in Pool, Administer(p) \/ PoolAnswers(p) \/ PoolDies(p)
      PROVE  stratumShares' = stratumShares
  BY <1>7 DEF Administer, PoolAnswers, PoolDies, tabVars
<1>8. ASSUME NEW p \in Pool, RClearIdle(p) \/ RClearLost(p) PROVE WasSent(s)'
  BY <1>2, <1>3, <1>8 DEF RClearIdle, RClearLost, tabVars
<1>9. CASE UNCHANGED vars
  BY <1>3, <1>9 DEF vars, tabVars
<1> QED
  BY <1>1, <1>3, <1>4, <1>5, <1>6, <1>7, <1>8, <1>9 DEF Next, RLoop

LEMMA EnteringStays ==
  ASSUME TypeOK, [Next]_vars, NEW s \in Share, Entering(s)
  PROVE  WasSent(s)'
<1> USE StratumAssumption DEF TypeOK
<1> DEFINE q == PoolOf[s]
<1>1. q \in Pool /\ sshare[q] = s /\ spc[q] = "add"
  BY DEF Entering, InHand
<1>2. CASE sshare'[q] = s /\ spc'[q] = "add"
  BY <1>2 DEF WasSent, Entering, InHand
<1> HIDE DEF q
<1>3. ASSUME NEW p \in Pool, SAdd(p) PROVE WasSent(s)' \/ UNCHANGED <<sshare[q], spc[q]>>
  <2>1. CASE p = q
    BY <1>1, <1>3, <2>1 DEF SAdd, WasSent, InTable
  <2>2. CASE p # q
    BY <1>1, <1>3, <2>2 DEF SAdd, SDone, SGoto, SThreadOK
  <2> QED
    BY <2>1, <2>2
<1>4. ASSUME NEW p \in Pool,
             SHead(p) \/ SPop(p) \/ SId(p) \/ SSend(p) \/ SSendFailed(p) \/ SGiveUp(p) \/ SSleep(p)
      PROVE  UNCHANGED <<sshare[q], spc[q]>>
  <2>1. p # q
    BY <1>1, <1>4 DEF SHead, SPop, SId, SSend, SSendFailed, SGiveUp, SSleep
  <2> QED
    BY <1>1, <1>4, <2>1
    DEF SHead, SPop, SId, SSend, SSendFailed, SGiveUp, SSleep, SDone, SGoto, SThreadOK
<1>5. ASSUME NEW p \in Pool, RLoop(p) \/ RestartStratum(p) PROVE UNCHANGED <<sshare, spc>>
  BY <1>5 DEF RLoop, RHead, RSuspendIdle, RClearIdle, RWanted, RResponse, RShareResult, RMethod,
       RLost, RClearLost, RestartStratum, RDown, RConnect, RSubscribe, RSubscribed,
       RSubscribeAfresh, RSubscribeFails, RAuthorize, RAuthorized, RAuthTimeout, sVars
<1>6. ASSUME NEW p \in Pool, Administer(p) \/ PoolAnswers(p) \/ PoolDies(p)
      PROVE  UNCHANGED <<sshare, spc>>
  BY <1>6 DEF Administer, PoolAnswers, PoolDies, sVars
<1>7. ASSUME NEW t \in Share, SubmitWorkAsync(t) PROVE UNCHANGED <<sshare, spc>>
  BY <1>7 DEF SubmitWorkAsync, sVars
<1>8. CASE UNCHANGED vars
  BY <1>1, <1>2, <1>8 DEF vars, sVars
<1> QED
  BY <1>1, <1>2, <1>3, <1>4, <1>5, <1>6, <1>7, <1>8 DEF Next, SThread

LEMMA WasSentStays ==
  ASSUME TypeOK, QueueIsOwn, SendsOwn, PlaceInv, [Next]_vars, NEW s \in Share, WasSent(s)
  PROVE  WasSent(s)'
BY LeftStays, TableStays, EnteringStays DEF WasSent

(* sshare->id is set before the share is sent, and only then. *)
LEMMA IdStays ==
  ASSUME TypeOK, QueueIsOwn, SendsOwn, PlaceInv, [Next]_vars, NEW s \in Share, WasSent(s)
  PROVE  id'[s] = id[s]
<1> USE StratumAssumption DEF TypeOK, PlaceInv
<1>1. ASSUME NEW p \in Pool, SId(p) PROVE id'[s] = id[s]
  <2>1. sshare[p] \in Share /\ InHand(sshare[p]) /\ spc[p] = "id" /\ PoolOf[sshare[p]] = p
    BY <1>1 DEF SId, SThreadOK, SendsOwn, InHand
  <2>2. ~InTable(sshare[p]) /\ ~IsAnswered(sshare[p]) /\ fate[sshare[p]] = "queued"
    BY <2>1 DEF PlacesExclude, OpenIsPlaced
  <2>3. ~WasSent(sshare[p])
    BY <2>1, <2>2 DEF WasSent, Left, Entering, Settled
  <2>4. sshare[p] # s
    BY <2>3
  <2> QED
    BY <1>1, <2>1, <2>4 DEF SId, IdOK
<1>2. ASSUME NEW p \in Pool,
             \/ SHead(p) \/ SPop(p) \/ SSend(p) \/ SSendFailed(p) \/ SAdd(p) \/ SGiveUp(p)
             \/ SSleep(p) \/ RLoop(p)
      PROVE  UNCHANGED id
  BY <1>2 DEF SHead, SPop, SSend, SSendFailed, SAdd, SGiveUp, SSleep, RLoop, RHead, RSuspendIdle,
       RClearIdle, RWanted, RResponse, RShareResult, RMethod, RLost, RClearLost
<1>3. ASSUME NEW p \in Pool, RestartStratum(p) PROVE UNCHANGED id
  BY <1>3 DEF RestartStratum, RDown, RConnect, RSubscribe, RSubscribed, RSubscribeAfresh,
       RSubscribeFails, RAuthorize, RAuthorized, RAuthTimeout
<1>4. ASSUME NEW p \in Pool, Administer(p) \/ PoolAnswers(p) \/ PoolDies(p) PROVE UNCHANGED id
  BY <1>4 DEF Administer, PoolAnswers, PoolDies
<1>5. ASSUME NEW t \in Share, SubmitWorkAsync(t) PROVE UNCHANGED id
  BY <1>5 DEF SubmitWorkAsync
<1>6. CASE UNCHANGED vars
  BY <1>6 DEF vars
<1> QED
  BY <1>1, <1>2, <1>3, <1>4, <1>5, <1>6 DEF Next, SThread

LEMMA OwedGrows ==
  ASSUME TypeOK, SendsOwn, [Next]_vars, NEW q \in Pool, NEW s \in Share, s \in owed'[q]
  PROVE  s \in owed[q] \/ Entering(s)'
<1> USE StratumAssumption DEF TypeOK
<1> DEFINE Kept == s \in owed[q] \/ Entering(s)'
<1>1. CASE UNCHANGED owed
  BY <1>1
<1>2. ASSUME NEW p \in Pool, SuspendStratum(p) PROVE UNCHANGED owed
  BY <1>2 DEF SuspendStratum
<1>3. ASSUME NEW p \in Pool, SSend(p) PROVE Kept
  <2>1. CASE Send(p, sshare[p]) /\ SGoto(p, "add")
    <3>1. sshare[p] \in Share /\ PoolOf[sshare[p]] = p
      BY <1>3 DEF SSend, SThreadOK, SendsOwn
    <3>2. s \in owed[q] \/ s = sshare[p]
      BY <2>1 DEF Send, NetOK
    <3>3. s = sshare[p] => Entering(s)'
      BY <1>3, <2>1, <3>1 DEF SSend, SGoto, Entering, InHand, SThreadOK
    <3> QED
      BY <3>2, <3>3
  <2> QED
    BY <1>1, <1>3, <2>1 DEF SSend, netVars
<1>4. ASSUME NEW p \in Pool, RAuthorize(p) PROVE Kept
  <2>1. CASE Send(p, NoShare)
    BY <2>1 DEF Send, NetOK
  <2> QED
    BY <1>1, <1>2, <1>4, <2>1 DEF RAuthorize, netVars
<1>5. ASSUME NEW p \in Pool, PoolAnswers(p) PROVE Kept
  BY <1>5 DEF PoolAnswers, NetOK
<1>6. ASSUME NEW p \in Pool, RSubscribed(p) PROVE Kept
  <2>1. UNCHANGED owed \/ owed' = [owed EXCEPT ![p] = {}]
    BY <1>6 DEF RSubscribed
  <2> QED
    BY <2>1 DEF NetOK
<1>7. ASSUME NEW t \in Share, SubmitWorkAsync(t) PROVE UNCHANGED owed
  BY <1>7 DEF SubmitWorkAsync, netVars
<1>8. ASSUME NEW p \in Pool,
             SHead(p) \/ SPop(p) \/ SId(p) \/ SSendFailed(p) \/ SAdd(p) \/ SGiveUp(p) \/ SSleep(p)
      PROVE  UNCHANGED owed
  BY <1>2, <1>8 DEF SHead, SPop, SId, SSendFailed, SAdd, SGiveUp, SSleep, netVars
<1>9. ASSUME NEW p \in Pool, RLoop(p) PROVE UNCHANGED owed
  BY <1>2, <1>9 DEF RLoop, RHead, RSuspendIdle, RClearIdle, RWanted, RResponse, RShareResult,
       RMethod, RLost, RClearLost, netVars
<1>10. ASSUME NEW p \in Pool,
              \/ RDown(p) \/ RConnect(p) \/ RSubscribe(p) \/ RSubscribeAfresh(p)
              \/ RSubscribeFails(p) \/ RAuthorized(p) \/ RAuthTimeout(p)
       PROVE  UNCHANGED owed
  BY <1>2, <1>10 DEF RDown, RConnect, RSubscribe, RSubscribeAfresh, RSubscribeFails, RAuthorized,
       RAuthTimeout, netVars
<1>11. ASSUME NEW p \in Pool, Administer(p) \/ PoolDies(p) PROVE UNCHANGED owed
  BY <1>11 DEF Administer, PoolDies, netVars
<1>12. CASE UNCHANGED vars
  BY <1>1, <1>12 DEF vars, netVars
<1> QED
  BY <1>1, <1>3, <1>4, <1>5, <1>6, <1>7, <1>8, <1>9, <1>10, <1>11, <1>12
  DEF Next, SThread, RestartStratum

LEMMA RepliesGrow ==
  ASSUME TypeOK, [Next]_vars, NEW q \in Pool, NEW a \in Answer, IsReply(q, a)', a.to \in Share
  PROVE  IsReply(q, a) \/ (a.to \in owed[q] /\ a.id = id[a.to])
<1> USE StratumAssumption DEF TypeOK
<1> DEFINE Kept == IsReply(q, a) \/ (a.to \in owed[q] /\ a.id = id[a.to])
<1>1. CASE UNCHANGED replies
  BY <1>1 DEF IsReply
<1>2. ASSUME NEW p \in Pool, replies' = [replies EXCEPT ![p] = <<>>] PROVE Kept
  <2>1. q = p => replies'[q] = <<>>
    BY <1>2 DEF NetOK
  <2>2. q # p => replies'[q] = replies[q]
    BY <1>2 DEF NetOK
  <2> QED
    BY <2>1, <2>2 DEF IsReply
<1>3. ASSUME NEW p \in Pool, replies[p] # <<>>, replies' = [replies EXCEPT ![p] = Tail(@)]
      PROVE  Kept
  <2> DEFINE u == replies[p]
  <2>1. /\ q = p => replies'[q] = Tail(u)
        /\ q # p => replies'[q] = replies[q]
        /\ u \in Seq(Answer) /\ u # <<>>
    BY <1>3 DEF NetOK
  <2> HIDE DEF u
  <2>2. Len(u) \in Nat \ {0} /\ Len(Tail(u)) = Len(u) - 1
        /\ \A i \in 1..Len(u) - 1 : Tail(u)[i] = u[i + 1]
    BY <2>1, PoppedSequence
  <2>3. ASSUME NEW i \in 1..Len(Tail(u)), Tail(u)[i] = a
        PROVE  \E j \in 1..Len(u) : u[j] = a
    <3>1. i + 1 \in 1..Len(u) /\ u[i + 1] = a
      BY <2>2, <2>3
    <3> QED
      BY <3>1
  <2> QED
    BY <2>1, <2>3 DEF IsReply, u
<1>4. ASSUME NEW p \in Pool, PoolAnswers(p) PROVE Kept
  <2>1. PICK r \in owed[p] :
          replies' = [replies EXCEPT ![p] = Append(@,
             [to |-> r, id |-> IF r = NoShare THEN tmpId[p] ELSE id[r]])]
    BY <1>4 DEF PoolAnswers
  <2> DEFINE b == [to |-> r, id |-> IF r = NoShare THEN tmpId[p] ELSE id[r]]
             u == replies[p]
  <2>2. /\ q = p => replies'[q] = Append(u, b)
        /\ q # p => replies'[q] = replies[q]
        /\ u \in Seq(Answer)
    BY <2>1 DEF NetOK
  <2>3. a = b => a.to \in owed[p] /\ a.id = id[a.to]
    OBVIOUS
  <2>4. b \in Answer
    BY DEF NetOK, IdOK, RThreadOK, Answer, Request
  <2> HIDE DEF u, b
  <2>5. ASSUME NEW i \in 1..Len(Append(u, b)), Append(u, b)[i] = a
        PROVE  a = b \/ \E j \in 1..Len(u) : u[j] = a
    BY <2>2, <2>4, <2>5, LenProperties, AppendProperties
  <2> QED
    BY <2>2, <2>3, <2>5 DEF IsReply, u
<1>5. ASSUME NEW p \in Pool, RResponse(p) PROVE Kept
  BY <1>3, <1>5 DEF RResponse
<1>6. ASSUME NEW p \in Pool, SuspendStratum(p) PROVE Kept
  BY <1>2, <1>6 DEF SuspendStratum
<1>7. ASSUME NEW p \in Pool, RAuthorized(p) PROVE Kept
  BY <1>3, <1>6, <1>7 DEF RAuthorized
<1>8. ASSUME NEW p \in Pool, RConnect(p) PROVE Kept
  BY <1>2, <1>8 DEF RConnect
<1>9. ASSUME NEW p \in Pool, NEW r, Send(p, r) PROVE UNCHANGED replies
  BY <1>9 DEF Send
<1>10. ASSUME NEW t \in Share, SubmitWorkAsync(t) PROVE Kept
  BY <1>1, <1>10 DEF SubmitWorkAsync, netVars
<1>11. ASSUME NEW p \in Pool, SThread(p) PROVE Kept
  BY <1>1, <1>6, <1>9, <1>11
  DEF SThread, SHead, SPop, SId, SSend, SSendFailed, SAdd, SGiveUp, SSleep, netVars
<1>12. ASSUME NEW p \in Pool,
              \/ RHead(p) \/ RSuspendIdle(p) \/ RClearIdle(p) \/ RWanted(p) \/ RShareResult(p)
              \/ RMethod(p) \/ RLost(p) \/ RClearLost(p)
       PROVE  Kept
  BY <1>1, <1>6, <1>12 DEF RHead, RSuspendIdle, RClearIdle, RWanted, RShareResult, RMethod, RLost,
       RClearLost, netVars
<1>13. ASSUME NEW p \in Pool,
              \/ RDown(p) \/ RSubscribe(p) \/ RSubscribed(p) \/ RSubscribeAfresh(p)
              \/ RSubscribeFails(p) \/ RAuthorize(p) \/ RAuthTimeout(p)
       PROVE  Kept
  BY <1>1, <1>6, <1>9, <1>13 DEF RDown, RSubscribe, RSubscribed, RSubscribeAfresh,
       RSubscribeFails, RAuthorize, RAuthTimeout, netVars
<1>14. ASSUME NEW p \in Pool, Administer(p) \/ PoolDies(p) PROVE Kept
  BY <1>1, <1>14 DEF Administer, PoolDies, netVars
<1>15. CASE UNCHANGED vars
  BY <1>1, <1>15 DEF vars, netVars
<1> QED
  BY <1>4, <1>5, <1>7, <1>8, <1>10, <1>11, <1>12, <1>13, <1>14, <1>15
  DEF Next, RLoop, RestartStratum

(* An answer is counted as untracked only by parse_stratum_response, which *)
(* waits for sshare_lock: no share is then on its way into the table.      *)
LEMMA UntrackedGrows ==
  ASSUME TypeOK, LockIsHeld, AnswerInv, [Next]_vars, NEW s \in Share, s \in guessed'
  PROVE  s \in guessed \/ Left(s)
<1> USE StratumAssumption DEF TypeOK
<1>1. CASE UNCHANGED guessed
  BY <1>1
<1>2. ASSUME NEW p \in Pool, RResponse(p) PROVE s \in guessed \/ Left(s)
  <2> DEFINE u == replies[p]
             a == Head(u)
  <2>1. u \in Seq(Answer) /\ u # <<>>
    BY <1>2 DEF RResponse, NetOK
  <2>2. a \in Answer /\ IsReply(p, a)
    <3> DEFINE w == u
    <3>1. Len(w) \in Nat \ {0} /\ Head(w) = w[1] /\ Head(w) \in Answer
      <4> HIDE DEF u
      <4> QED
        BY <2>1, PoppedSequence
    <3> QED
      BY <3>1 DEF IsReply
  <2>3. CASE s = a.to /\ {t \in stratumShares : id[t] = a.id} = {}
    <3>1. WasSent(s) /\ a.id = id[s]
      BY <2>2, <2>3 DEF AnswerInv, RepliesWereSent
    <3>2. ~InTable(s)
      BY <2>3, <3>1 DEF InTable
    <3>3. ~Entering(s)
      BY <1>2 DEF RResponse, Entering, LockIsHeld
    <3> QED
      BY <3>1, <3>2, <3>3 DEF WasSent
  <2> QED
    BY <1>1, <1>2, <2>3 DEF RResponse
<1>3. ASSUME NEW t \in Share, SubmitWorkAsync(t) PROVE UNCHANGED guessed
  BY <1>3 DEF SubmitWorkAsync
<1>4. ASSUME NEW p \in Pool, SThread(p) PROVE UNCHANGED guessed
  BY <1>4 DEF SThread, SHead, SPop, SId, SSend, SSendFailed, SAdd, SGiveUp, SSleep
<1>5. ASSUME NEW p \in Pool,
             \/ RHead(p) \/ RSuspendIdle(p) \/ RClearIdle(p) \/ RWanted(p) \/ RShareResult(p)
             \/ RMethod(p) \/ RLost(p) \/ RClearLost(p) \/ RestartStratum(p)
      PROVE  UNCHANGED guessed
  BY <1>5 DEF RHead, RSuspendIdle, RClearIdle, RWanted, RShareResult, RMethod, RLost, RClearLost,
       RestartStratum, RDown, RConnect, RSubscribe, RSubscribed, RSubscribeAfresh,
       RSubscribeFails, RAuthorize, RAuthorized, RAuthTimeout
<1>6. ASSUME NEW p \in Pool, Administer(p) \/ PoolAnswers(p) \/ PoolDies(p)
      PROVE  UNCHANGED guessed
  BY <1>6 DEF Administer, PoolAnswers, PoolDies
<1>7. CASE UNCHANGED vars
  BY <1>1, <1>7 DEF vars
<1> QED
  BY <1>1, <1>2, <1>3, <1>4, <1>5, <1>6, <1>7 DEF Next, RLoop

LEMMA AnswersKept ==
  ASSUME TypeOK, QueueIsOwn, SendsOwn, LockIsHeld, PlaceInv, AnswerInv, [Next]_vars
  PROVE  AnswerInv'
<1>1. OwedWasSent'
  <2> SUFFICES ASSUME NEW p \in Pool, NEW s \in Share, s \in owed'[p] PROVE WasSent(s)'
    BY DEF OwedWasSent
  <2>1. CASE s \in owed[p]
    BY <2>1, WasSentStays DEF AnswerInv, OwedWasSent
  <2>2. CASE Entering(s)'
    BY <2>2 DEF WasSent
  <2> QED
    BY <2>1, <2>2, OwedGrows
<1>2. RepliesWereSent'
  <2> SUFFICES ASSUME NEW p \in Pool, NEW a \in Answer, IsReply(p, a)', a.to \in Share
               PROVE  WasSent(a.to)' /\ a.id = id'[a.to]
    BY DEF RepliesWereSent
  <2>1. WasSent(a.to) /\ a.id = id[a.to]
    BY RepliesGrow DEF AnswerInv, RepliesWereSent, OwedWasSent
  <2> QED
    BY <2>1, WasSentStays, IdStays
<1>3. UntrackedLeft'
  <2> SUFFICES ASSUME NEW s \in Share, s \in guessed' PROVE Left(s)'
    BY DEF UntrackedLeft
  <2>1. Left(s)
    BY UntrackedGrows DEF AnswerInv, UntrackedLeft
  <2> QED
    BY <2>1, LeftStays
<1> QED
  BY <1>1, <1>2, <1>3 DEF AnswerInv

(* An answer is counted as "untracked" only when its share has left the    *)
(* table: however fast the pool answers, and whichever ids two shares      *)
(* have in common.                                                         *)
THEOREM UntrackedIsLate == Spec => []UntrackedWasCleared
<1>1. Init => AnswerInv
  BY StratumAssumption DEF Init, AnswerInv, OwedWasSent, RepliesWereSent, UntrackedLeft, IsReply
<1>2. TypeOK /\ IInv /\ PlaceInv /\ AnswerInv /\ [Next]_vars => AnswerInv'
  BY AnswersKept DEF IInv
<1>3. AnswerInv => UntrackedWasCleared
  BY DEF AnswerInv, UntrackedLeft, Left, IsAnswered, UntrackedWasCleared
<1> QED
  BY <1>1, <1>2, <1>3, TypeCorrect, SuspensionInvariant, PlacesInvariant, PTL DEF Spec

----------------------------------------------------------------------------
(* The counter follows the table. *)
LEMMA CountKept ==
  ASSUME NEW p0 \in Pool, Pool = {p0},
         TypeOK, PlaceInv, SsharesCountsTable, [Next]_vars
  PROVE  SsharesCountsTable'
<1> USE StratumAssumption DEF TypeOK, PlaceInv
<1> DEFINE T == stratumShares
<1>1. /\ T \subseteq Share /\ IsFiniteSet(T) /\ Cardinality(T) \in Nat
      /\ sshares[p0] \in Int
  BY FS_Subset, FS_CardinalityType DEF TableOK
<1>2. sshares[p0] = Cardinality(T)
  <2>1. {s \in T : PoolOf[s] = p0} = T
    BY <1>1
  <2> QED
    BY <2>1 DEF SsharesCountsTable
<1>3. SUFFICES sshares'[p0] = Cardinality(T')
  <2>1. T' \subseteq Share
    BY TypeKept DEF TypeOK, TableOK
  <2>2. {s \in T' : PoolOf[s] = p0} = T'
    BY <2>1
  <2> QED
    BY <2>2 DEF SsharesCountsTable
<1>4. CASE UNCHANGED <<stratumShares, sshares>>
  BY <1>2, <1>4
<1>5. ASSUME NEW p \in Pool, SAdd(p) PROVE sshares'[p0] = Cardinality(T')
  <2>1. p = p0 /\ sshare[p0] \in Share /\ InHand(sshare[p0])
    BY <1>5 DEF SAdd, SThreadOK, InHand
  <2>2. sshare[p0] \notin T
    BY <2>1 DEF PlacesExclude, InTable
  <2>3. Cardinality(T \cup {sshare[p0]}) = Cardinality(T) + 1
    BY <1>1, <2>2, FS_AddElement
  <2>4. T' = T \cup {sshare[p0]} /\ sshares'[p0] = sshares[p0] + 1
    BY <1>5, <2>1 DEF SAdd, TableOK
  <2> QED
    BY <1>2, <2>3, <2>4
<1>6. ASSUME NEW p \in Pool, ClearStratumShares(p) PROVE sshares'[p0] = Cardinality(T')
  <2>1. p = p0 /\ {s \in T : PoolOf[s] = p} = T
    BY <1>1
  <2>2. T' = {} /\ sshares'[p0] = sshares[p0] - Cardinality(T)
    BY <1>6, <2>1 DEF ClearStratumShares, TableOK
  <2> QED
    BY <1>1, <1>2, <2>2, FS_EmptySet
<1>7. ASSUME NEW p \in Pool, RResponse(p) PROVE sshares'[p0] = Cardinality(T')
  <2>1. CASE UNCHANGED <<stratumShares, sshares>>
    BY <1>4, <2>1
  <2>2. CASE \E s \in T : T' = T \ {s} /\ sshares' = [sshares EXCEPT ![p] = @ - 1]
    <3>1. PICK s \in T : T' = T \ {s} /\ sshares' = [sshares EXCEPT ![p] = @ - 1]
      BY <2>2
    <3>2. Cardinality(T \ {s}) = Cardinality(T) - 1
      BY <1>1, FS_RemoveElement
    <3>3. sshares'[p0] = sshares[p0] - 1
      BY <3>1 DEF TableOK
    <3> QED
      BY <1>2, <3>1, <3>2, <3>3
  <2> QED
    BY <1>7, <2>1, <2>2 DEF RResponse
<1>8. ASSUME NEW t \in Share, SubmitWorkAsync(t) PROVE UNCHANGED <<stratumShares, sshares>>
  BY <1>8 DEF SubmitWorkAsync, tabVars
<1>9. ASSUME NEW p \in Pool,
             SHead(p) \/ SPop(p) \/ SId(p) \/ SSend(p) \/ SSendFailed(p) \/ SGiveUp(p) \/ SSleep(p)
      PROVE  UNCHANGED <<stratumShares, sshares>>
  BY <1>9 DEF SHead, SPop, SId, SSend, SSendFailed, SGiveUp, SSleep, tabVars
<1>10. ASSUME NEW p \in Pool,
              \/ RHead(p) \/ RSuspendIdle(p) \/ RWanted(p) \/ RShareResult(p) \/ RMethod(p)
              \/ RLost(p) \/ RestartStratum(p)
       PROVE  UNCHANGED <<stratumShares, sshares>>
  BY <1>10 DEF RHead, RSuspendIdle, RWanted, RShareResult, RMethod, RLost, RestartStratum, RDown,
       RConnect, RSubscribe, RSubscribed, RSubscribeAfresh, RSubscribeFails, RAuthorize,
       RAuthorized, RAuthTimeout, tabVars
<1>11. ASSUME NEW p \in Pool, Administer(p) \/ PoolAnswers(p) \/ PoolDies(p)
       PROVE  UNCHANGED <<stratumShares, sshares>>
  BY <1>11 DEF Administer, PoolAnswers, PoolDies, tabVars
<1>12. ASSUME NEW p \in Pool, RClearIdle(p) \/ RClearLost(p)
       PROVE  sshares'[p0] = Cardinality(T')
  BY <1>4, <1>6, <1>12 DEF RClearIdle, RClearLost, tabVars
<1>13. CASE UNCHANGED vars
  BY <1>4, <1>13 DEF vars, tabVars
<1> QED
  BY <1>4, <1>5, <1>7, <1>8, <1>9, <1>10, <1>11, <1>12, <1>13 DEF Next, SThread, RLoop

(* With one stratum pool, pool->sshares is the number of its tracked       *)
(* shares.  With two it need not be: the ids of two pools' shares may be   *)
(* the same, and parse_stratum_response subtracts a share it finds from    *)
(* the pool that answered, not from the pool the share belongs to.         *)
THEOREM OnePoolCounts ==
  ASSUME NEW p0 \in Pool, Pool = {p0}
  PROVE  Spec => []SsharesCountsTable
<1>1. Init => SsharesCountsTable
  BY FS_EmptySet DEF Init, SsharesCountsTable
<1>2. TypeOK /\ PlaceInv /\ SsharesCountsTable /\ [Next]_vars => SsharesCountsTable'
  BY CountKept
<1> QED
  BY <1>1, <1>2, TypeCorrect, PlacesInvariant, PTL DEF Spec
=============================================================================
