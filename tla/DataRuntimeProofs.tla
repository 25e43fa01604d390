------------------------- MODULE DataRuntimeProofs -------------------------
(***************************************************************************)
(* What DataRuntime guarantees for every set of calls, every workload and  *)
(* every bound.  Cases are listed in the order of Next.  Flags are proved  *)
(* apart from the other variables: Zenon proves the former, SMT the latter.*)
(***************************************************************************)
EXTENDS DataRuntime, FiniteSetTheorems, TLAPS

\* Whatever a request asks for, its transaction field is an id or NoTx.
LEMMA MethodTx == ASSUME NEW q \in Method PROVE q.tx \in Tx \cup {NoTx}
  BY DEF Method
\* An answer to a known request keeps the port to the client well formed.
LEMMA PostsOK ==
    ASSUME outbox \in Seq([id : Ids, ok : BOOLEAN]), NEW r \in Ids,
           Posts(r, TRUE) \/ Posts(r, FALSE)
    PROVE  outbox' \in Seq([id : Ids, ok : BOOLEAN])
<1>1. \A m \in [id : Ids, ok : BOOLEAN] :
        Append(outbox, m) \in Seq([id : Ids, ok : BOOLEAN])
  OBVIOUS
<1>2. CASE Posts(r, TRUE)
  BY <1>1, <1>2 DEF Posts
<1>3. CASE Posts(r, FALSE)
  BY <1>1, <1>3 DEF Posts
<1> QED BY <1>2, <1>3

\* A ROLLBACK, returning or throwing, and an end SQLite decided on keep the types.
TxFlags == extTx \in BOOLEAN /\ sqlTx \in BOOLEAN /\ leftOpen \in BOOLEAN
LEMMA GivenUp ==
    ASSUME TxFlags, StorageOK, RollBack \/ RollBackThrows
           \/ (TakenBack /\ UNCHANGED <<activeTx, extTx>>) \/ UNCHANGED txVars
    PROVE  TxFlags' /\ StorageOK'
<1>1. TxFlags'
  BY DEF TxFlags, RollBack, RollBackThrows, TakenBack, txVars
<1>2. StorageOK'
  <2>1. CASE RollBack
    <3>1. /\ activeTx' = NoTx /\ dirty' \in {{}, dirty}
          /\ UNCHANGED <<durable, applied, lost>>
      BY <2>1 DEF RollBack
    <3> QED BY <3>1 DEF StorageOK
  <2>2. CASE TakenBack /\ UNCHANGED activeTx
    BY <2>2 DEF StorageOK, TakenBack
  <2>3. CASE UNCHANGED txVars
    BY <2>3 DEF StorageOK, txVars
  <2> QED BY <2>1, <2>2, <2>3 DEF RollBackThrows
<1> QED BY <1>1, <1>2

\* The state of the client and of the worker stays in its declared type:
\* in particular only pending entries are ever marked timed out, whatever
\* order timers, replies and exits come in.
THEOREM TypeCorrect == Spec => []TypeOK
<1>1. Init => TypeOK
  <2> SUFFICES ASSUME Init PROVE TypeOK OBVIOUS
  <2>1. FlagsOK
    BY DEF Init, FlagsOK
  <2>2. ClientOK
    BY ConstantsOK DEF Init, ClientOK, Settled
  <2>3. WorkerOK
    BY DEF Init, WorkerOK
  <2>4. StorageOK
    BY DEF Init, StorageOK
  <2> QED BY <2>1, <2>2, <2>3, <2>4 DEF TypeOK
<1>2. TypeOK /\ [Next]_vars => TypeOK'
  <2> SUFFICES ASSUME FlagsOK, ClientOK, WorkerOK, StorageOK, [Next]_vars PROVE TypeOK'
    BY DEF TypeOK
  <2> USE DEF clientVars, portVars, txVars
  <2>1. CASE Start
    <3>1. FlagsOK'
      BY <2>1 DEF Start, FlagsOK
    <3>2. ClientOK' /\ WorkerOK' /\ StorageOK'
      BY <2>1, ConstantsOK
      DEF Start, ClientOK, WorkerOK, StorageOK, Ids, Settled
    <3> QED BY <3>1, <3>2 DEF TypeOK
  <2>2. CASE Heartbeat
    <3>1. FlagsOK'
      BY <2>2 DEF Heartbeat, HasRoom, FlagsOK
    <3>2. ClientOK' /\ WorkerOK' /\ StorageOK'
      BY <2>2, ConstantsOK
      DEF Heartbeat, HasRoom, ClientOK, WorkerOK, StorageOK, Ids, Settled
    <3> QED BY <3>1, <3>2 DEF TypeOK
  <2>3. CASE PingTimeout
    <3>1. FlagsOK'
      BY <2>3 DEF PingTimeout, FlagsOK
    <3>2. ClientOK' /\ WorkerOK' /\ StorageOK'
      BY <2>3, ConstantsOK
      DEF PingTimeout, ClientOK, WorkerOK, StorageOK, Ids, Settled
    <3> QED BY <3>1, <3>2 DEF TypeOK
  <2>4. CASE StopTimeout
    <3>1. FlagsOK'
      BY <2>4 DEF StopTimeout, FlagsOK
    <3>2. ClientOK' /\ WorkerOK' /\ StorageOK'
      BY <2>4, ConstantsOK
      DEF StopTimeout, ClientOK, WorkerOK, StorageOK, Ids, Settled
    <3> QED BY <3>1, <3>2 DEF TypeOK
  <2>5. CASE Deliver
    <3>1. FlagsOK'
      BY <2>5 DEF Deliver, Release, FlagsOK
    <3>2. ClientOK'
      BY <2>5, ConstantsOK DEF Deliver, Release, ClientOK, Ids, Settled
    <3>3. WorkerOK' /\ StorageOK'
      <4>1. worker' \in {worker, "dying"} /\ outbox' = Tail(outbox)
            /\ outbox # <<>> /\ UNCHANGED <<inbox, busy, txVars>>
        BY <2>5 DEF Deliver
      <4> QED BY <4>1 DEF WorkerOK, StorageOK
    <3> QED BY <3>1, <3>2, <3>3 DEF TypeOK
  <2>6. CASE Shutdown
    <3>1. FlagsOK'
      BY <2>6 DEF Shutdown, HasRoom, FlagsOK
    <3>2. ClientOK'
      BY <2>6, ConstantsOK DEF Shutdown, HasRoom, ClientOK, Ids, Settled
    <3>3. WorkerOK'
      BY <2>6 DEF Shutdown, WorkerOK, Ids
    <3>4. StorageOK'
      BY <2>6 DEF Shutdown, StorageOK
    <3> QED BY <3>1, <3>2, <3>3, <3>4 DEF TypeOK
  <2>7. CASE Take
    <3> DEFINE r == Head(inbox)
    <3>1. r \in Ids /\ inbox' \in Seq(Ids)
      BY <2>7 DEF Take, WorkerOK
    <3>2. busy' \in {busy, r}
      BY <2>7 DEF Take, SkipExpired
    <3>3. outbox' = outbox \/ Posts(r, TRUE) \/ Posts(r, FALSE)
      BY <2>7 DEF Take, SkipExpired
    <3>4. outbox' \in Seq([id : Ids, ok : BOOLEAN])
      <4> HIDE DEF r
      <4> QED BY <3>1, <3>3, PostsOK DEF WorkerOK
    <3>5. FlagsOK' /\ ClientOK' /\ StorageOK'
      <4>1. RollBack \/ RollBackThrows \/ UNCHANGED txVars
        BY <2>7 DEF Take, SkipExpired, CleanUp
      <4>2. TxFlags' /\ StorageOK'
        BY <4>1, GivenUp DEF TxFlags, FlagsOK
      <4>3. FlagsOK'
        BY <2>7, <4>2 DEF Take, TxFlags, FlagsOK
      <4>4. ClientOK'
        BY <2>7 DEF Take, ClientOK
      <4> QED BY <4>2, <4>3, <4>4
    <3>7. worker' = worker
      BY <2>7 DEF Take
    <3> QED BY <3>1, <3>2, <3>4, <3>5, <3>7 DEF TypeOK, WorkerOK
  <2>8. CASE Close
    <3>1. Posts(Stop, TRUE) \/ Posts(Stop, FALSE)
      BY <2>8 DEF Close
    <3>2. busy' = None /\ UNCHANGED <<clientVars, expired, method, worker, inbox>>
      BY <2>8 DEF Close, Executes
    <3>3. WorkerOK' /\ ClientOK'
      BY <3>1, <3>2, PostsOK DEF WorkerOK, ClientOK, Ids
    <3>4. RollBack \/ RollBackThrows \/ UNCHANGED txVars
      BY <2>8 DEF Close
    <3>5. TxFlags' /\ StorageOK'
      BY <3>4, GivenUp DEF TxFlags, FlagsOK
    <3>6. closing' \in {TRUE, closing}
      BY <2>8 DEF Close
    <3>7. FlagsOK'
      BY <3>2, <3>5, <3>6 DEF TxFlags, FlagsOK
    <3> QED BY <3>3, <3>5, <3>7 DEF TypeOK
  <2>9. ASSUME NEW r \in Req, Call(r) PROVE TypeOK'
    <3>1. Posts(r, TRUE) \/ Posts(r, FALSE)
      BY <2>9 DEF Call
    <3>2. busy' = None /\ UNCHANGED <<clientVars, expired, method, worker, inbox, closing>>
      BY <2>9 DEF Call, Executes, WorkFrame
    <3>3. WorkerOK' /\ ClientOK'
      BY <3>1, <3>2, PostsOK DEF WorkerOK, ClientOK, Ids
    <3>4. TxFlags' /\ StorageOK'
      <4>1. CASE Apply(r)
        <5>1. TxFlags'
          BY <4>1 DEF Apply, TxFlags, FlagsOK
        <5>2. StorageOK'
          BY <4>1 DEF Apply, StorageOK
        <5> QED BY <5>1, <5>2
      <4>2. CASE ~Apply(r)
        <5>1. (TakenBack /\ UNCHANGED <<activeTx, extTx>>) \/ UNCHANGED txVars
          BY <2>9, <4>2 DEF Call
        <5> QED BY <5>1, GivenUp DEF TxFlags, FlagsOK
      <4> QED BY <4>1, <4>2
    <3>5. FlagsOK'
      BY <3>2, <3>4 DEF TxFlags, FlagsOK
    <3> QED BY <3>3, <3>4, <3>5 DEF TypeOK
  <2>10. ASSUME NEW r \in Req, Begin(r) PROVE TypeOK'
    <3>1. Posts(r, TRUE) \/ Posts(r, FALSE)
      BY <2>10 DEF Begin
    <3>2. busy' = None /\ UNCHANGED <<clientVars, expired, method, worker, inbox, closing>>
      BY <2>10 DEF Begin, Executes, WorkFrame
    <3>3. WorkerOK' /\ ClientOK'
      BY <3>1, <3>2, PostsOK DEF WorkerOK, ClientOK, Ids
    <3>4. TxFlags' /\ StorageOK'
      <4>1. /\ activeTx' \in {activeTx, method[r].tx}
            /\ UNCHANGED <<dirty, durable, applied, lost>>
        BY <2>10 DEF Begin
      <4>2. StorageOK'
        BY <4>1, MethodTx DEF StorageOK, ClientOK
      <4>3. TxFlags'
        BY <2>10 DEF Begin, TxFlags, FlagsOK
      <4> QED BY <4>2, <4>3
    <3>5. FlagsOK'
      BY <3>2, <3>4 DEF TxFlags, FlagsOK
    <3> QED BY <3>3, <3>4, <3>5 DEF TypeOK
  <2>11. ASSUME NEW r \in Req, Commit(r) PROVE TypeOK'
    <3>1. Posts(r, TRUE) \/ Posts(r, FALSE)
      BY <2>11 DEF Commit
    <3>2. busy' = None /\ UNCHANGED <<clientVars, expired, method, worker, inbox, closing>>
      BY <2>11 DEF Commit, Executes, WorkFrame
    <3>3. WorkerOK' /\ ClientOK'
      BY <3>1, <3>2, PostsOK DEF WorkerOK, ClientOK, Ids
    <3>4. TxFlags' /\ StorageOK'
      <4>1. CASE RollBackThrows
        BY <4>1, GivenUp DEF TxFlags, FlagsOK
      <4>2. CASE ~RollBackThrows
        <5>1. /\ activeTx' \in {activeTx, NoTx} /\ dirty' \in {dirty, {}}
              /\ durable' \in {durable, durable \cup dirty} /\ UNCHANGED <<applied, lost>>
          BY <2>11, <4>2 DEF Commit
        <5>2. StorageOK'
          BY <5>1 DEF StorageOK
        <5>3. TxFlags'
          BY <2>11, <4>2 DEF Commit, TxFlags, FlagsOK
        <5> QED BY <5>2, <5>3
      <4> QED BY <4>1, <4>2
    <3>5. FlagsOK'
      BY <3>2, <3>4 DEF TxFlags, FlagsOK
    <3> QED BY <3>3, <3>4, <3>5 DEF TypeOK
  <2>12. ASSUME NEW r \in Req, Rollback(r) PROVE TypeOK'
    <3>1. Posts(r, TRUE) \/ Posts(r, FALSE)
      BY <2>12 DEF Rollback
    <3>2. busy' = None /\ UNCHANGED <<clientVars, expired, method, worker, inbox, closing>>
      BY <2>12 DEF Rollback, Executes, WorkFrame
    <3>3. WorkerOK' /\ ClientOK'
      BY <3>1, <3>2, PostsOK DEF WorkerOK, ClientOK, Ids
    <3>4. TxFlags' /\ StorageOK'
      <4>1. RollBack \/ RollBackThrows \/ UNCHANGED txVars
        BY <2>12 DEF Rollback
      <4> QED BY <4>1, GivenUp DEF TxFlags, FlagsOK
    <3>5. FlagsOK'
      BY <3>2, <3>4 DEF TxFlags, FlagsOK
    <3> QED BY <3>3, <3>4, <3>5 DEF TypeOK
  <2>13. CASE Crash
    <3>1. FlagsOK'
      BY <2>13 DEF Crash, FlagsOK
    <3>2. ClientOK' /\ WorkerOK' /\ StorageOK'
      BY <2>13, ConstantsOK
      DEF Crash, ClientOK, WorkerOK, StorageOK, Ids, Settled
    <3> QED BY <3>1, <3>2 DEF TypeOK
  <2>14. CASE Exit
    <3>1. FlagsOK'
      BY <2>14 DEF Exit, RejectAll, LastEffect, FlagsOK
    <3>2. ClientOK' /\ WorkerOK' /\ StorageOK'
      BY <2>14, ConstantsOK
      DEF Exit, RejectAll, LastEffect, ClientOK, WorkerOK, StorageOK, Ids, Settled
    <3> QED BY <3>1, <3>2 DEF TypeOK
  <2>15. ASSUME NEW r \in Req, Request(r) PROVE TypeOK'
    <3>1. FlagsOK'
      BY <2>15 DEF Request, Submit, SubmitFrame, FlagsOK
    <3>2. ClientOK'
      BY <2>15, ConstantsOK DEF Request, Submit, SubmitFrame, ClientOK, Ids, Settled
    <3>3. inbox' = inbox \/ inbox' = Append(inbox, r)
      BY <2>15 DEF Request, Submit
    <3>4. WorkerOK' /\ StorageOK'
      BY <2>15, <3>3 DEF Request, SubmitFrame, WorkerOK, StorageOK, Ids
    <3> QED BY <3>1, <3>2, <3>4 DEF TypeOK
  <2>16. ASSUME NEW r \in Req, Resume(r) PROVE TypeOK'
    <3>1. FlagsOK'
      BY <2>16 DEF Resume, Submit, SubmitFrame, FlagsOK
    <3>2. ClientOK'
      BY <2>16, ConstantsOK DEF Resume, Submit, SubmitFrame, ClientOK, Ids, Settled
    <3>3. inbox' = inbox \/ inbox' = Append(inbox, r)
      BY <2>16 DEF Resume, Submit
    <3>4. WorkerOK' /\ StorageOK'
      BY <2>16, <3>3 DEF Resume, SubmitFrame, WorkerOK, StorageOK, Ids
    <3> QED BY <3>1, <3>2, <3>4 DEF TypeOK
  <2>17. ASSUME NEW r \in Req, RecoveryWaitTimeout(r) PROVE TypeOK'
    <3>1. FlagsOK'
      BY <2>17 DEF RecoveryWaitTimeout, SubmitFrame, FlagsOK
    <3>2. ClientOK' /\ WorkerOK' /\ StorageOK'
      BY <2>17, ConstantsOK
      DEF RecoveryWaitTimeout, SubmitFrame, ClientOK, WorkerOK, StorageOK, Ids, Settled
    <3> QED BY <3>1, <3>2 DEF TypeOK
  <2>18. ASSUME NEW r \in Req, RequestTimeout(r) PROVE TypeOK'
    <3>1. FlagsOK'
      BY <2>18 DEF RequestTimeout, MarkTimedOut, FlagsOK
    <3>2. ClientOK' /\ WorkerOK' /\ StorageOK'
      BY <2>18, ConstantsOK
      DEF RequestTimeout, MarkTimedOut, ClientOK, WorkerOK, StorageOK, Ids, Settled
    <3> QED BY <3>1, <3>2 DEF TypeOK
  <2>19. ASSUME NEW r \in Ids, Expire(r) PROVE TypeOK'
    <3>1. FlagsOK'
      BY <2>19 DEF Expire, FlagsOK
    <3>2. ClientOK' /\ WorkerOK' /\ StorageOK'
      BY <2>19, ConstantsOK
      DEF Expire, ClientOK, WorkerOK, StorageOK, Ids, Settled
    <3> QED BY <3>1, <3>2 DEF TypeOK
  <2>20. CASE UNCHANGED vars
    <3>1. FlagsOK'
      BY <2>20 DEF vars, FlagsOK
    <3>2. ClientOK' /\ WorkerOK' /\ StorageOK'
      BY <2>20 DEF vars, ClientOK, WorkerOK, StorageOK
    <3> QED BY <3>1, <3>2 DEF TypeOK
  <2>21. QED
    BY <2>1, <2>2, <2>3, <2>4, <2>5, <2>6, <2>7, <2>8, <2>9, <2>10, <2>11,
       <2>12, <2>13, <2>14, <2>15, <2>16, <2>17, <2>18, <2>19, <2>20
    DEF Next, Finish
<1>3. QED
  BY <1>1, <1>2, PTL DEF Spec

-----------------------------------------------------------------------------
\* A caller that was told of a timeout was told after its deadline.
TimedOutLate == \A r \in Req : outcome[r] = "timeout" => r \in expired

\* Only a call that has not been told anything gets a fresh deadline, so a
\* reported timeout stays behind its deadline for ever.
LEMMA LateForEver == Spec => []TimedOutLate
<1>1. Init => TimedOutLate
  BY DEF Init, TimedOutLate
<1>2. TypeOK /\ TimedOutLate /\ [Next]_vars => TimedOutLate'
  <2> SUFFICES ASSUME TypeOK, TimedOutLate, [Next]_vars PROVE TimedOutLate'
    OBVIOUS
  <2> USE DEF TypeOK, ClientOK, TimedOutLate, clientVars
  <2>1. CASE Start
    BY <2>1, ConstantsOK DEF Start
  <2>2. CASE Heartbeat
    BY <2>2, ConstantsOK DEF Heartbeat
  <2>3. CASE Shutdown
    BY <2>3, ConstantsOK DEF Shutdown
  <2>4. CASE PingTimeout \/ StopTimeout \/ Crash
    BY <2>4 DEF PingTimeout, StopTimeout, Crash
  <2>5. CASE Deliver
    BY <2>5 DEF Deliver
  <2>6. CASE Take \/ Finish
    BY <2>6 DEF Take, Finish, Close, Call, Begin, Commit, Rollback, WorkFrame
  <2>7. CASE Exit
    BY <2>7 DEF Exit, RejectAll
  <2>8. ASSUME NEW r \in Req, Request(r) PROVE TimedOutLate'
    BY <2>8 DEF Request, Submit
  <2>9. ASSUME NEW r \in Req, Resume(r) PROVE TimedOutLate'
    BY <2>9 DEF Resume, Submit
  <2>10. ASSUME NEW r \in Req, RecoveryWaitTimeout(r) PROVE TimedOutLate'
    BY <2>10 DEF RecoveryWaitTimeout
  <2>11. ASSUME NEW r \in Req, RequestTimeout(r) PROVE TimedOutLate'
    BY <2>11 DEF RequestTimeout
  <2>12. ASSUME NEW r \in Ids, Expire(r) PROVE TimedOutLate'
    BY <2>12 DEF Expire
  <2>13. CASE UNCHANGED vars
    BY <2>13 DEF vars
  <2> QED
    BY <2>1, <2>2, <2>3, <2>4, <2>5, <2>6, <2>7, <2>8, <2>9, <2>10, <2>11,
       <2>12, <2>13 DEF Next
<1> QED BY <1>1, <1>2, TypeCorrect, PTL DEF Spec

\* The worker never starts a request after its caller has been told that it
\* timed out: only Take makes the worker busy, and it takes nothing late.
THEOREM NoLateStart == Spec => NoStartAfterTimeout
<1> DEFINE Honest == \A r \in Req : busy' = r /\ busy # r => outcome[r] # "timeout"
<1>1. TypeOK /\ TimedOutLate /\ [Next]_vars => [Honest]_vars
  <2> SUFFICES ASSUME TimedOutLate, Next, NEW r \in Req,
                      busy' = r, busy # r
               PROVE  outcome[r] # "timeout"
    OBVIOUS
  <2>1. Take
    BY ConstantsOK DEF Next, Start, Heartbeat, PingTimeout, StopTimeout, Deliver,
       Shutdown, Finish, Close, Call, Begin, Commit, Rollback, Executes, Crash,
       Exit, Request, Resume, RecoveryWaitTimeout, SubmitFrame, RequestTimeout,
       Expire, portVars, Ids
  <2>2. r \notin expired
    BY <2>1 DEF Take, SkipExpired, Late
  <2> QED BY <2>2 DEF TimedOutLate
<1> QED BY <1>1, TypeCorrect, LateForEver, PTL DEF Spec, NoStartAfterTimeout

-----------------------------------------------------------------------------
\* A call nobody has submitted yet has no entry in the pending map.
UnsentUnlisted == \A r \in Req : outcome[r] \in {"idle", "waiting"} => r \notin pending
PromiseInv == OpenIffPending /\ UnsentUnlisted

\* The entries of the map and what the callers were told move together.
LEMMA PromisesInv == Spec => []PromiseInv
<1>1. Init => PromiseInv
  BY DEF Init, PromiseInv, OpenIffPending, UnsentUnlisted
<1>2. TypeOK /\ PromiseInv /\ [Next]_vars => PromiseInv'
  <2> SUFFICES ASSUME TypeOK, PromiseInv, [Next]_vars PROVE PromiseInv'
    OBVIOUS
  <2> USE DEF TypeOK, ClientOK, PromiseInv, OpenIffPending, UnsentUnlisted, clientVars
  <2>1. CASE Start
    BY <2>1, ConstantsOK DEF Start
  <2>2. CASE Heartbeat
    BY <2>2, ConstantsOK DEF Heartbeat, HasRoom
  <2>3. CASE Shutdown
    BY <2>3, ConstantsOK DEF Shutdown, HasRoom
  <2>4. CASE PingTimeout
    BY <2>4, ConstantsOK DEF PingTimeout
  <2>5. CASE StopTimeout
    BY <2>5, ConstantsOK DEF StopTimeout
  <2>6. CASE Deliver
    BY <2>6 DEF Deliver, Release
  <2>7. CASE Take \/ Finish \/ Crash
    BY <2>7 DEF Take, Finish, Close, Call, Begin, Commit, Rollback, WorkFrame, Crash
  <2>8. CASE Exit
    BY <2>8 DEF Exit, RejectAll
  <2>9. ASSUME NEW r \in Req, Request(r) PROVE PromiseInv'
    BY <2>9 DEF Request, Submit, HasRoom, SubmitFrame
  <2>10. ASSUME NEW r \in Req, Resume(r) PROVE PromiseInv'
    BY <2>10 DEF Resume, Submit, HasRoom, SubmitFrame
  <2>11. ASSUME NEW r \in Req, RecoveryWaitTimeout(r) PROVE PromiseInv'
    BY <2>11 DEF RecoveryWaitTimeout, SubmitFrame
  <2>12. ASSUME NEW r \in Req, RequestTimeout(r) PROVE PromiseInv'
    BY <2>12 DEF RequestTimeout, MarkTimedOut, portVars
  <2>13. ASSUME NEW r \in Ids, Expire(r) PROVE PromiseInv'
    BY <2>13 DEF Expire, portVars
  <2>14. CASE UNCHANGED vars
    BY <2>14 DEF vars, portVars
  <2> QED
    BY <2>1, <2>2, <2>3, <2>4, <2>5, <2>6, <2>7, <2>8, <2>9, <2>10, <2>11,
       <2>12, <2>13, <2>14 DEF Next
<1> QED BY <1>1, <1>2, TypeCorrect, PTL DEF Spec

\* No promise is lost or settled twice: the pending map and the callers agree
\* at every moment, and a client without a worker owes nobody anything.
THEOREM PromisesKept == Spec => []OpenIffPending
<1>1. PromiseInv => OpenIffPending
  BY DEF PromiseInv
<1> QED BY <1>1, PromisesInv, PTL

-----------------------------------------------------------------------------
\* A queue that grows by one message: its places and what is in it.
LEMMA AppendPlaces ==
    ASSUME NEW S, NEW s \in Seq(S), NEW e \in S
    PROVE  LET t == Append(s, e) IN
           /\ t \in Seq(S) /\ Len(t) = Len(s) + 1 /\ t[Len(s) + 1] = e
           /\ \A i \in 1..Len(s) : t[i] = s[i]
           /\ \A i \in 1..Len(t) : i \in 1..Len(s) \/ i = Len(s) + 1
  OBVIOUS

\* A queue that gives up its first message.
LEMMA TailPlaces ==
    ASSUME NEW S, NEW s \in Seq(S), s # <<>>
    PROVE  LET t == Tail(s) IN
           /\ t \in Seq(S) /\ Len(s) \in Nat \ {0} /\ Len(t) = Len(s) - 1
           /\ Head(s) = s[1] /\ Head(s) \in S /\ 1 \in 1..Len(s)
           /\ \A i \in 1..Len(t) : t[i] = s[i + 1] /\ i + 1 \in 1..Len(s)
           /\ \A i \in 1..Len(s) : i = 1 \/ (i - 1 \in 1..Len(t) /\ s[i] = t[i - 1])
  OBVIOUS

\* A queue holds members of its type only.
LEMMA Members == ASSUME NEW S, NEW s \in Seq(S) PROVE \A i \in 1..Len(s) : s[i] \in S
  OBVIOUS

\* What the worker executes, the ids that are in two places at once, and the
\* number of requests the port and the worker hold.
InHand == {busy} \ {None}
AskedOnce == \A i, j \in 1..Len(inbox) : inbox[i] = inbox[j] => i = j
ToldOnce == \A i, j \in 1..Len(outbox) : outbox[i].id = outbox[j].id => i = j
Apart ==
    /\ AskedOnce /\ ToldOnce
    /\ Queued \cap Answered = {} /\ busy \notin Queued \cup Answered
Backlog == Len(inbox) + Len(outbox) + Cardinality(InHand)
Rooms ==
    /\ Queued \cup Answered \cup InHand \subseteq pending
    /\ Backlog <= Cardinality(pending) /\ Cardinality(pending) <= MaxPending

\* The ids on the two ports are known ones.
LEMMA PortIds ==
    ASSUME WorkerOK
    PROVE  /\ DOMAIN inbox = 1..Len(inbox) /\ DOMAIN outbox = 1..Len(outbox)
           /\ Len(inbox) \in Nat /\ Len(outbox) \in Nat
           /\ Queued \subseteq Ids /\ Answered \subseteq Ids
           /\ None \notin Queued \cup Answered
<1>1. DOMAIN inbox = 1..Len(inbox) /\ DOMAIN outbox = 1..Len(outbox)
      /\ Len(inbox) \in Nat /\ Len(outbox) \in Nat
  BY DEF WorkerOK
<1>2. \A i \in 1..Len(inbox) : inbox[i] \in Ids
  BY DEF WorkerOK
<1>3. \A i \in 1..Len(outbox) : outbox[i] \in [id : Ids, ok : BOOLEAN]
  BY Members DEF WorkerOK
<1>4. \A i \in 1..Len(outbox) : outbox[i].id \in Ids
  BY <1>3
<1> QED BY <1>1, <1>2, <1>4, ConstantsOK DEF Queued, Answered

\* The inbox takes one more request ...
LEMMA InboxGrows ==
    ASSUME WorkerOK, NEW r \in Ids, inbox' = Append(inbox, r)
    PROVE  /\ Queued' = Queued \cup {r} /\ Len(inbox') = Len(inbox) + 1
           /\ AskedOnce /\ r \notin Queued => AskedOnce'
<1>1. /\ inbox' \in Seq(Ids) /\ Len(inbox') = Len(inbox) + 1 /\ Len(inbox) \in Nat
      /\ inbox'[Len(inbox) + 1] = r /\ Len(inbox) + 1 \in 1..Len(inbox')
      /\ \A i \in 1..Len(inbox) : inbox'[i] = inbox[i] /\ i \in 1..Len(inbox')
      /\ \A i \in 1..Len(inbox') : i \in 1..Len(inbox) \/ i = Len(inbox) + 1
  BY AppendPlaces DEF WorkerOK
<1>2. DOMAIN inbox = 1..Len(inbox) /\ DOMAIN inbox' = 1..Len(inbox')
  BY <1>1 DEF WorkerOK
<1>3. /\ Queued = {inbox[i] : i \in 1..Len(inbox)}
      /\ Queued' = {inbox'[i] : i \in 1..Len(inbox')}
  BY <1>2 DEF Queued
<1>4. \A i \in 1..Len(inbox) : inbox[i] \in Queued /\ inbox'[i] \in Queued'
  BY <1>1, <1>3
<1>5. r \in Queued' /\ Queued' \subseteq Queued \cup {r}
  BY <1>1, <1>3
<1>6. Queued' = Queued \cup {r}
  BY <1>1, <1>3, <1>4, <1>5
<1> QED BY <1>1, <1>4, <1>6 DEF AskedOnce

\* ... or hands its first one to the worker.
LEMMA InboxShrinks ==
    ASSUME WorkerOK, inbox # <<>>, inbox' = Tail(inbox), AskedOnce
    PROVE  /\ Queued' = Queued \ {Head(inbox)} /\ Len(inbox') = Len(inbox) - 1
           /\ Head(inbox) \in Queued
           /\ AskedOnce'
<1>1. /\ inbox' \in Seq(Ids) /\ Len(inbox) \in Nat \ {0} /\ Len(inbox') = Len(inbox) - 1
      /\ Head(inbox) = inbox[1] /\ 1 \in 1..Len(inbox)
      /\ \A i \in 1..Len(inbox') : inbox'[i] = inbox[i + 1] /\ i + 1 \in 1..Len(inbox)
      /\ \A i \in 1..Len(inbox) : i = 1 \/ (i - 1 \in 1..Len(inbox') /\ inbox[i] = inbox'[i - 1])
  BY TailPlaces DEF WorkerOK
<1>2. /\ Queued = {inbox[i] : i \in 1..Len(inbox)}
      /\ Queued' = {inbox'[i] : i \in 1..Len(inbox')}
  <2>1. DOMAIN inbox = 1..Len(inbox) /\ DOMAIN inbox' = 1..Len(inbox')
    BY <1>1 DEF WorkerOK
  <2> QED BY <2>1 DEF Queued
<1>3. Head(inbox) \in Queued
  BY <1>1, <1>2
<1>4. Queued' \subseteq Queued
  BY <1>1, <1>2
<1>5. ASSUME NEW i \in 1..Len(inbox) PROVE inbox[i] \in Queued' \cup {Head(inbox)}
  BY <1>1, <1>2
<1>6. ASSUME NEW i \in 1..Len(inbox'), inbox'[i] = inbox[1] PROVE FALSE
  <2>1. inbox[i + 1] = inbox[1] /\ i + 1 \in 1..Len(inbox) /\ 1 \in 1..Len(inbox)
    BY <1>1, <1>6
  <2> QED BY <2>1 DEF AskedOnce
<1>7. ASSUME NEW i \in 1..Len(inbox'), NEW j \in 1..Len(inbox'), inbox'[i] = inbox'[j]
      PROVE  i = j
  <2>1. inbox[i + 1] = inbox[j + 1] /\ i + 1 \in 1..Len(inbox) /\ j + 1 \in 1..Len(inbox)
    BY <1>1, <1>7
  <2> QED BY <2>1 DEF AskedOnce
<1> QED BY <1>1, <1>2, <1>3, <1>4, <1>5, <1>6, <1>7 DEF AskedOnce

\* The outbox takes one more answer ...
LEMMA OutboxGrows ==
    ASSUME WorkerOK, NEW r \in Ids, NEW ok \in BOOLEAN, Posts(r, ok)
    PROVE  /\ Answered' = Answered \cup {r} /\ Len(outbox') = Len(outbox) + 1
           /\ ToldOnce /\ r \notin Answered => ToldOnce'
<1> DEFINE R == [id : Ids, ok : BOOLEAN]
           e == [id |-> r, ok |-> ok]
<1>1. /\ outbox' \in Seq(R) /\ Len(outbox') = Len(outbox) + 1
      /\ outbox'[Len(outbox) + 1] = e
      /\ \A i \in 1..Len(outbox) : outbox'[i] = outbox[i]
      /\ \A i \in 1..Len(outbox') : i \in 1..Len(outbox) \/ i = Len(outbox) + 1
  <2>1. outbox \in Seq(R) /\ e \in R /\ outbox' = Append(outbox, e)
    BY DEF WorkerOK, Posts
  <2> HIDE DEF R, e
  <2> QED BY <2>1, AppendPlaces
<1>2. DOMAIN outbox = 1..Len(outbox) /\ DOMAIN outbox' = 1..Len(outbox')
      /\ Len(outbox) \in Nat
  BY <1>1 DEF WorkerOK
<1>3. /\ Answered = {outbox[i].id : i \in 1..Len(outbox)}
      /\ Answered' = {outbox'[i].id : i \in 1..Len(outbox')}
  BY <1>2 DEF Answered
<1>4. outbox'[Len(outbox) + 1].id = r /\ Len(outbox) + 1 \in 1..Len(outbox')
  BY <1>1, <1>2
<1>5. \A i \in 1..Len(outbox) : i \in 1..Len(outbox') /\ outbox[i].id \in Answered
  BY <1>1, <1>2, <1>3
<1> HIDE DEF R, e
<1>6. Answered' = Answered \cup {r}
  BY <1>1, <1>3, <1>4, <1>5
<1> QED BY <1>1, <1>4, <1>5, <1>6 DEF ToldOnce

\* ... or gives up its first one.
LEMMA OutboxShrinks ==
    ASSUME WorkerOK, outbox # <<>>, outbox' = Tail(outbox), ToldOnce
    PROVE  /\ Answered' = Answered \ {Head(outbox).id} /\ Len(outbox') = Len(outbox) - 1
           /\ Head(outbox).id \in Answered
           /\ ToldOnce'
<1> DEFINE R == [id : Ids, ok : BOOLEAN]
<1>1. /\ outbox' \in Seq(R) /\ Len(outbox) \in Nat \ {0} /\ Len(outbox') = Len(outbox) - 1
      /\ Head(outbox) = outbox[1] /\ 1 \in 1..Len(outbox)
      /\ \A i \in 1..Len(outbox') : outbox'[i] = outbox[i + 1] /\ i + 1 \in 1..Len(outbox)
      /\ \A i \in 1..Len(outbox) : i = 1 \/ (i - 1 \in 1..Len(outbox') /\ outbox[i] = outbox'[i - 1])
  <2>1. outbox \in Seq(R)
    BY DEF WorkerOK
  <2> HIDE DEF R
  <2> QED BY <2>1, TailPlaces
<1>2. /\ Answered = {outbox[i].id : i \in 1..Len(outbox)}
      /\ Answered' = {outbox'[i].id : i \in 1..Len(outbox')}
  <2>1. DOMAIN outbox = 1..Len(outbox) /\ DOMAIN outbox' = 1..Len(outbox')
    BY <1>1 DEF WorkerOK
  <2> QED BY <2>1 DEF Answered
<1> HIDE DEF R
<1>3. Head(outbox).id \in Answered
  BY <1>1, <1>2
<1>4. Answered' \subseteq Answered
  BY <1>1, <1>2
<1>5. ASSUME NEW i \in 1..Len(outbox)
      PROVE  outbox[i].id \in Answered' \cup {Head(outbox).id}
  BY <1>1, <1>2
<1>6. ASSUME NEW i \in 1..Len(outbox'), outbox'[i].id = outbox[1].id PROVE FALSE
  <2>1. /\ outbox[i + 1].id = outbox[1].id /\ i + 1 \in 1..Len(outbox)
        /\ 1 \in 1..Len(outbox)
    BY <1>1, <1>6
  <2>2. i + 1 = 1
    BY <2>1 DEF ToldOnce
  <2> QED BY <2>2
<1>7. ASSUME NEW i \in 1..Len(outbox'), NEW j \in 1..Len(outbox'),
             outbox'[i].id = outbox'[j].id
      PROVE  i = j
  <2>1. /\ outbox[i + 1].id = outbox[j + 1].id
        /\ i + 1 \in 1..Len(outbox) /\ j + 1 \in 1..Len(outbox)
    BY <1>1, <1>7
  <2>2. i + 1 = j + 1
    BY <2>1 DEF ToldOnce
  <2>3. i \in Nat /\ j \in Nat
    BY <1>1
  <2> QED BY <2>2, <2>3
<1>8. Head(outbox).id \notin Answered'
  BY <1>1, <1>2, <1>6
<1>9. Answered \subseteq Answered' \cup {Head(outbox).id}
  BY <1>2, <1>5
<1>10. Answered' = Answered \ {Head(outbox).id}
  BY <1>4, <1>8, <1>9
<1> QED BY <1>1, <1>3, <1>7, <1>10 DEF ToldOnce

\* The worker executes one request, or none.
LEMMA HandSize ==
    ASSUME NEW b
    PROVE  /\ Cardinality({b} \ {None}) = IF b = None THEN 0 ELSE 1
           /\ Cardinality({b} \ {None}) \in Nat
<1>1. CASE b = None
  <2>1. {b} \ {None} = {}
    BY <1>1
  <2> QED BY <2>1, <1>1, FS_EmptySet
<1>2. CASE b # None
  <2>1. {b} \ {None} = {b}
    BY <1>2
  <2> QED BY <2>1, <1>2, FS_Singleton
<1> QED BY <1>1, <1>2

\* An entry more, an entry less.
LEMMA PendingSize ==
    ASSUME NEW P \in SUBSET Ids, NEW r \in Ids
    PROVE  /\ IsFiniteSet(P) /\ Cardinality(P) \in Nat
           /\ r \notin P => Cardinality(P \cup {r}) = Cardinality(P) + 1
           /\ r \in P => Cardinality(P \ {r}) = Cardinality(P) - 1
<1>1. IsFiniteSet(Ids)
  <2>1. IsFiniteSet({Ping, Stop})
    <3>1. IsFiniteSet({Ping})
      BY FS_Singleton
    <3>2. {Ping, Stop} = {Ping} \cup {Stop}
      OBVIOUS
    <3> QED BY <3>1, <3>2, FS_AddElement
  <2> QED BY <2>1, ConstantsOK, FS_Union DEF Ids
<1>2. IsFiniteSet(P)
  BY <1>1, FS_Subset
<1> QED BY <1>2, FS_CardinalityType, FS_AddElement, FS_RemoveElement

\* An inbox nobody touches.
LEMMA InboxSame == ASSUME UNCHANGED inbox PROVE AskedOnce' = AskedOnce /\ Queued' = Queued
  BY DEF AskedOnce, Queued
\* An outbox nobody touches.
LEMMA OutboxSame == ASSUME UNCHANGED outbox PROVE ToldOnce' = ToldOnce /\ Answered' = Answered
  BY DEF ToldOnce, Answered

\* Nothing moves on the ports.
LEMMA Untouched ==
    ASSUME Apart, Rooms, UNCHANGED <<pending, inbox, outbox, busy>>
    PROVE  Apart' /\ Rooms'
<1>1. AskedOnce' = AskedOnce /\ ToldOnce' = ToldOnce /\ Queued' = Queued
      /\ Answered' = Answered /\ InHand' = InHand /\ Backlog' = Backlog
  BY InboxSame, OutboxSame DEF InHand, Backlog
<1> QED BY <1>1 DEF Apart, Rooms

\* A request that is given an entry joins the queue.
LEMMA Admitted ==
    ASSUME ClientOK, WorkerOK, Apart, Rooms, NEW r \in Ids, r \notin pending,
           Cardinality(pending) < MaxPending, pending' = pending \cup {r},
           inbox' = Append(inbox, r), UNCHANGED <<outbox, busy>>
    PROVE  Apart' /\ Rooms'
<1>1. r \notin Queued \cup Answered \cup InHand
  BY DEF Rooms
<1>2. r # busy
  BY <1>1, ConstantsOK DEF InHand
<1>3. Queued' = Queued \cup {r} /\ Len(inbox') = Len(inbox) + 1
      /\ AskedOnce'
  BY <1>1, InboxGrows DEF Apart
<1>4. Answered' = Answered /\ InHand' = InHand
  BY DEF Answered, InHand
<1>5. Cardinality(pending') = Cardinality(pending) + 1 /\ Cardinality(pending) \in Nat
  BY PendingSize DEF ClientOK
<1>6. Cardinality(InHand) \in Nat
  BY HandSize DEF InHand
<1>7. Apart'
  <2>1. ToldOnce'
    BY OutboxSame DEF Apart
  <2>2. Queued' \cap Answered' = {} /\ busy' \notin Queued' \cup Answered'
    BY <1>1, <1>2, <1>3, <1>4 DEF Apart
  <2> QED BY <1>3, <2>1, <2>2 DEF Apart
<1>8. Backlog' = Backlog + 1 /\ Backlog \in Nat
  BY <1>3, <1>4, <1>6, PortIds DEF Backlog
<1>9. (Queued \cup Answered \cup InHand)' \subseteq pending'
  BY <1>3, <1>4 DEF Rooms
<1> QED BY <1>5, <1>7, <1>8, <1>9, ConstantsOK DEF Rooms

\* A request that is executed leaves an answer.
LEMMA Completed ==
    ASSUME WorkerOK, Apart, Rooms, busy \in Ids, NEW ok \in BOOLEAN,
           Posts(busy, ok), busy' = None, UNCHANGED <<pending, inbox>>
    PROVE  Apart' /\ Rooms'
<1>1. busy \notin Queued \cup Answered /\ busy # None
  BY ConstantsOK DEF Apart
<1>2. Answered' = Answered \cup {busy} /\ Len(outbox') = Len(outbox) + 1
      /\ ToldOnce'
  BY <1>1, OutboxGrows DEF Apart
<1>3. Queued' = Queued /\ InHand = {busy} /\ InHand' = {}
  BY <1>1 DEF Queued, InHand
<1>4. None \notin Queued' \cup Answered'
  BY <1>1, <1>2, <1>3, PortIds
<1>5. Cardinality(InHand) = 1 /\ Cardinality(InHand') = 0
  BY <1>1, HandSize DEF InHand
<1>6. Backlog' = Backlog
  BY <1>2, <1>5, PortIds DEF Backlog
<1>7. Apart'
  BY <1>1, <1>2, <1>3, <1>4, InboxSame DEF Apart
<1> QED BY <1>2, <1>3, <1>6, <1>7 DEF Rooms

\* The worker takes the first request of the queue, to execute it or not.
LEMMA Taken ==
    ASSUME TypeOK, Apart, Rooms, Take PROVE Apart' /\ Rooms'
<1> DEFINE r == Head(inbox)
<1>1. /\ inbox # <<>> /\ inbox' = Tail(inbox) /\ busy = None /\ pending' = pending
      /\ \/ busy' = r /\ outbox' = outbox
         \/ busy' = None /\ \E ok \in BOOLEAN : Posts(r, ok)
  BY DEF Take, SkipExpired, clientVars
<1>2. /\ Queued' = Queued \ {r} /\ Len(inbox') = Len(inbox) - 1 /\ r \in Queued
      /\ AskedOnce'
  BY <1>1, InboxShrinks DEF Apart, TypeOK
<1> HIDE DEF r
<1>3. r \in Ids /\ r \notin Answered /\ r # None /\ None \notin Queued \cup Answered
  BY <1>2, PortIds, ConstantsOK DEF Apart, TypeOK
<1>4. InHand = {} /\ Cardinality(InHand) = 0
  BY <1>1, HandSize DEF InHand
<1>5. CASE busy' = r /\ outbox' = outbox
  <2>1. InHand' = {r} /\ Cardinality(InHand') = 1 /\ Answered' = Answered
    BY <1>3, <1>5, HandSize DEF InHand, Answered
  <2>2. Backlog' = Backlog
    BY <2>1, <1>2, <1>4, <1>5, PortIds DEF Backlog, TypeOK
  <2>3. Apart'
    BY <2>1, <1>2, <1>3, <1>5, OutboxSame DEF Apart
  <2> QED BY <2>1, <2>2, <2>3, <1>1, <1>2 DEF Rooms
<1>6. ASSUME busy' = None, NEW ok \in BOOLEAN, Posts(r, ok) PROVE Apart' /\ Rooms'
  <2>1. InHand' = {} /\ Cardinality(InHand') = 0
    BY <1>6, HandSize DEF InHand
  <2>2. Answered' = Answered \cup {r} /\ Len(outbox') = Len(outbox) + 1
        /\ ToldOnce'
    BY <1>3, <1>6, OutboxGrows DEF Apart, TypeOK
  <2>3. Backlog' = Backlog
    BY <2>1, <2>2, <1>2, <1>4, PortIds DEF Backlog, TypeOK
  <2>4. Apart'
    BY <2>2, <1>2, <1>3, <1>6 DEF Apart
  <2> QED BY <2>1, <2>2, <2>3, <2>4, <1>1, <1>2 DEF Rooms
<1> QED BY <1>1, <1>5, <1>6

\* A reply frees the entry of its request.
LEMMA Delivered ==
    ASSUME TypeOK, Apart, Rooms, Deliver PROVE Apart' /\ Rooms'
<1> DEFINE id == Head(outbox).id
<1>1. /\ outbox # <<>> /\ outbox' = Tail(outbox) /\ pending' = pending \ {id}
      /\ UNCHANGED <<inbox, busy>>
  BY DEF Deliver, Release
<1>2. /\ Answered' = Answered \ {id} /\ Len(outbox') = Len(outbox) - 1 /\ id \in Answered
      /\ ToldOnce'
  BY <1>1, OutboxShrinks DEF Apart, TypeOK
<1> HIDE DEF id
<1>3. id \in pending /\ id \in Ids /\ id \notin Queued \cup InHand
  BY <1>2, PortIds DEF Apart, Rooms, InHand, TypeOK
<1>4. Queued' = Queued /\ InHand' = InHand
  BY <1>1 DEF Queued, InHand
<1>5. Cardinality(pending') = Cardinality(pending) - 1 /\ Cardinality(pending) \in Nat
  BY <1>1, <1>3, PendingSize DEF TypeOK, ClientOK
<1>6. Cardinality(InHand) \in Nat
  BY HandSize DEF InHand
<1>7. Backlog' = Backlog - 1 /\ Backlog \in Nat
  BY <1>2, <1>4, <1>1, <1>6, PortIds DEF Backlog, TypeOK
<1>8. Apart'
  BY <1>1, <1>2, <1>4, InboxSame DEF Apart
<1> QED BY <1>1, <1>2, <1>3, <1>4, <1>5, <1>7, <1>8, ConstantsOK DEF Rooms

\* The writer's probe and the shutdown request are never sent a second time
\* while the first is pending.
Probes ==
    /\ Ping \in pending => heartbeatInFlight \/ stopping \/ state # "ready"
    /\ Stop \in pending => stopping

BacklogInv == Apart /\ Rooms /\ Probes

\* Every step keeps the requests of the worker apart and within the map.
LEMMA BacklogsInv == Spec => []BacklogInv
<1>1. Init => BacklogInv
  <2> SUFFICES ASSUME Init PROVE BacklogInv
    OBVIOUS
  <2>1. Queued = {} /\ Answered = {} /\ InHand = {}
    BY DEF Init, Queued, Answered, InHand
  <2>2. Cardinality(InHand) = 0 /\ Cardinality(pending) = 0
    BY <2>1, FS_EmptySet DEF Init
  <2> QED BY <2>1, <2>2, ConstantsOK
    DEF Init, BacklogInv, Apart, AskedOnce, ToldOnce, Rooms, Probes, Backlog
<1>2. TypeOK /\ PromiseInv /\ BacklogInv /\ [Next]_vars => BacklogInv'
  <2> SUFFICES ASSUME TypeOK, PromiseInv, Apart, Rooms, Probes, [Next]_vars
               PROVE  Apart' /\ Rooms' /\ Probes'
    BY DEF BacklogInv
  <2> USE DEF clientVars
  <2>1. CASE Start
    <3>1. worker = "none" /\ pending = {} /\ inbox' = <<Ping>> /\ pending' = {Ping}
          /\ state' = "starting" /\ UNCHANGED <<outbox, busy>>
      BY <2>1 DEF Start, PromiseInv, OpenIffPending
    <3>2. Queued = {} /\ Answered = {} /\ InHand = {}
      BY <3>1 DEF Rooms
    <3>3. inbox = <<>> /\ busy = None
      BY <3>2, PortIds DEF InHand, Queued, TypeOK, WorkerOK
    <3>4. inbox' = Append(inbox, Ping) /\ pending' = pending \cup {Ping}
      BY <3>1, <3>3
    <3>5. Cardinality(pending) < MaxPending
      BY <3>1, FS_EmptySet, ConstantsOK
    <3>6. Apart' /\ Rooms'
      BY <3>1, <3>4, <3>5, Admitted DEF Ids, TypeOK
    <3> QED BY <3>1, <3>6, ConstantsOK DEF Probes
  <2>2. CASE Heartbeat
    <3>1. Ping \notin pending
      BY <2>2 DEF Heartbeat, Probes
    <3>2. Apart' /\ Rooms'
      BY <2>2, <3>1, Admitted DEF Heartbeat, HasRoom, Ids, TypeOK
    <3> QED BY <2>2, <3>2, ConstantsOK DEF Heartbeat, Probes
  <2>3. CASE Shutdown
    <3>1. Stop \notin pending
      BY <2>3 DEF Shutdown, Probes
    <3>2. CASE worker # "none" /\ HasRoom
      <4>1. Apart' /\ Rooms'
        BY <2>3, <3>1, <3>2, Admitted DEF Shutdown, HasRoom, Ids, TypeOK
      <4> QED BY <2>3, <3>2, <4>1 DEF Shutdown, Probes
    <3>3. CASE ~(worker # "none" /\ HasRoom)
      <4>1. UNCHANGED <<pending, inbox, outbox, busy>>
        BY <2>3, <3>3 DEF Shutdown
      <4>2. stopping' \/ pending = {}
        BY <2>3, <3>3 DEF Shutdown, PromiseInv, OpenIffPending
      <4>3. Apart' /\ Rooms'
        BY <4>1, Untouched
      <4>4. Probes'
        BY <4>1, <4>2, <2>3 DEF Shutdown, Probes
      <4> QED BY <4>3, <4>4
    <3> QED BY <3>2, <3>3
  <2>4. CASE PingTimeout
    <3>1. UNCHANGED <<pending, inbox, outbox, busy, stopping>>
          /\ (stopping \/ state' = "degraded")
      BY <2>4 DEF PingTimeout
    <3>2. Apart' /\ Rooms'
      BY <3>1, Untouched
    <3> QED BY <3>1, <3>2 DEF Probes
  <2>5. CASE Deliver
    <3>1. Apart' /\ Rooms'
      BY <2>5, Delivered
    <3>2. /\ pending' \subseteq pending /\ UNCHANGED stopping
          /\ Ping \in pending' => UNCHANGED <<heartbeatInFlight, state>>
      BY <2>5 DEF Deliver, Release
    <3> QED BY <3>1, <3>2 DEF Probes
  <2>6. CASE Take
    <3>1. Apart' /\ Rooms'
      BY <2>6, Taken
    <3> QED BY <2>6, <3>1 DEF Take, Probes
  <2>7. CASE Finish
    <3>1. /\ \E ok \in BOOLEAN : Posts(busy, ok)
          /\ busy \in Ids /\ busy' = None /\ UNCHANGED <<clientVars, inbox>>
      <4>1. CASE Close
        BY <4>1 DEF Close, Executes, Ids
      <4>2. ASSUME NEW r \in Req, Call(r) PROVE <3>1!:
        BY <4>2 DEF Call, Executes, WorkFrame, Ids
      <4>3. ASSUME NEW r \in Req, Begin(r) PROVE <3>1!:
        BY <4>3 DEF Begin, Executes, WorkFrame, Ids
      <4>4. ASSUME NEW r \in Req, Commit(r) PROVE <3>1!:
        BY <4>4 DEF Commit, Executes, WorkFrame, Ids
      <4>5. ASSUME NEW r \in Req, Rollback(r) PROVE <3>1!:
        BY <4>5 DEF Rollback, Executes, WorkFrame, Ids
      <4> QED BY <2>7, <4>1, <4>2, <4>3, <4>4, <4>5 DEF Finish
    <3>2. Apart' /\ Rooms'
      BY <3>1, Completed DEF TypeOK
    <3> QED BY <3>1, <3>2 DEF Probes
  <2>8. CASE Exit
    <3>1. inbox' = <<>> /\ outbox' = <<>> /\ busy' = None /\ pending' = {}
      BY <2>8 DEF Exit
    <3>2. Queued' = {} /\ Answered' = {} /\ InHand' = {}
      BY <3>1 DEF Queued, Answered, InHand
    <3>3. Cardinality(InHand') = 0 /\ Cardinality(pending') = 0
      BY <3>1, <3>2, FS_EmptySet
    <3> QED BY <3>1, <3>2, <3>3, ConstantsOK DEF Apart, AskedOnce, ToldOnce, Rooms, Backlog, Probes
  <2>9. ASSUME NEW r \in Req, Request(r) \/ Resume(r) PROVE Apart' /\ Rooms' /\ Probes'
    <3>1. /\ r \notin pending /\ UNCHANGED <<heartbeatInFlight, stopping, state>>
          /\ \/ UNCHANGED <<pending, inbox, outbox, busy>>
             \/ /\ HasRoom /\ pending' = pending \cup {r} /\ inbox' = Append(inbox, r)
                /\ UNCHANGED <<outbox, busy>>
      BY <2>9 DEF Request, Resume, Submit, SubmitFrame, PromiseInv, UnsentUnlisted
    <3>2. Apart' /\ Rooms'
      <4>1. CASE UNCHANGED <<pending, inbox, outbox, busy>>
        BY <4>1, Untouched
      <4> QED BY <3>1, <4>1, Admitted DEF HasRoom, Ids, TypeOK
    <3> QED BY <3>1, <3>2, ConstantsOK DEF Probes
  <2>10. CASE UNCHANGED <<pending, inbox, outbox, busy, heartbeatInFlight, stopping, state>>
    <3>1. Apart' /\ Rooms'
      BY <2>10, Untouched
    <3> QED BY <2>10, <3>1 DEF Probes
  <2>11. ASSUME NEW r \in Req, RecoveryWaitTimeout(r) \/ RequestTimeout(r)
         PROVE  Apart' /\ Rooms' /\ Probes'
    BY <2>10, <2>11 DEF RecoveryWaitTimeout, RequestTimeout, MarkTimedOut, SubmitFrame, portVars
  <2>12. ASSUME NEW r \in Ids, Expire(r) PROVE Apart' /\ Rooms' /\ Probes'
    BY <2>10, <2>12 DEF Expire, portVars
  <2>13. CASE StopTimeout \/ Crash
    BY <2>10, <2>13 DEF StopTimeout, Crash
  <2>14. CASE UNCHANGED vars
    BY <2>10, <2>14 DEF vars, portVars
  <2> QED
    BY <2>1, <2>2, <2>3, <2>4, <2>5, <2>6, <2>7, <2>8, <2>9, <2>11, <2>12,
       <2>13, <2>14 DEF Next
<1> QED BY <1>1, <1>2, TypeCorrect, PromisesInv, PTL DEF Spec

\* Everything the worker holds has its own entry in the pending map, and the map
\* is within its limit, so a worker is never owed more than the limit.
THEOREM BacklogIsBounded == Spec => []BacklogBounded
<1>1. TypeOK /\ BacklogInv => BacklogBounded
  <2> SUFFICES ASSUME TypeOK, BacklogInv PROVE BacklogBounded
    OBVIOUS
  <2>1. Cardinality(pending) \in Nat /\ Cardinality(InHand) \in Nat
        /\ Len(inbox) \in Nat /\ Len(outbox) \in Nat
    <3>1. pending \in SUBSET Ids /\ Ping \in Ids
      BY DEF TypeOK, ClientOK, Ids
    <3>2. Cardinality(pending) \in Nat
      BY <3>1, PendingSize
    <3>3. Cardinality(InHand) \in Nat
      BY HandSize DEF InHand
    <3> QED BY <3>2, <3>3, PortIds DEF TypeOK
  <2>2. Backlog <= Cardinality(pending) /\ Cardinality(pending) <= MaxPending
    BY DEF BacklogInv, Rooms
  <2>3. Backlog \in Nat
    BY <2>1 DEF Backlog
  <2>4. Backlog <= MaxPending
    BY <2>1, <2>2, <2>3, ConstantsOK
  <2> QED BY <2>4 DEF BacklogInv, Rooms, BacklogBounded, Backlog, InHand
<1> QED BY <1>1, TypeCorrect, BacklogsInv, PTL

-----------------------------------------------------------------------------
\* A call that was made and is no longer on its way to the worker.
Spent(r) == r \notin Queued \cup {busy} /\ outcome[r] \notin {"idle", "waiting"}
\* The statements of a transaction that ran.
Ran(t) == {r \in applied : InTx(r, t)}
\* An affirmative answer is under way, or was delivered.
Yes(r) == \E i \in 1..Len(outbox) : outbox[i].id = r /\ outbox[i].ok
Acked(r) == outcome[r] = "ok" \/ Yes(r)
Ended(t) == \E r \in Req : method[r].kind = "commit" /\ method[r].tx = t /\ Acked(r)

\* What a call may ask for.
LEMMA Methods ==
    ASSUME TypeOK, NEW r \in Req
    PROVE  /\ method[r].tx \in Tx \cup {NoTx}
           /\ method[r].kind \in {"call", "begin", "commit", "rollback"}
           /\ method[r].kind # "call" => method[r].tx \in Tx
BY DEF TypeOK, ClientOK, Method

\* A new answer affirms at most its own request.
LEMMA YesGrows ==
    ASSUME WorkerOK, NEW q \in Ids, NEW ok \in BOOLEAN, Posts(q, ok), NEW r, Yes(r)'
    PROVE  Yes(r) \/ (r = q /\ ok)
<1> DEFINE R == [id : Ids, ok : BOOLEAN]
           e == [id |-> q, ok |-> ok]
<1>1. /\ outbox' \in Seq(R) /\ Len(outbox') = Len(outbox) + 1
      /\ outbox'[Len(outbox) + 1] = e
      /\ \A i \in 1..Len(outbox) : outbox'[i] = outbox[i]
      /\ \A i \in 1..Len(outbox') : i \in 1..Len(outbox) \/ i = Len(outbox) + 1
  <2>1. outbox \in Seq(R) /\ e \in R /\ outbox' = Append(outbox, e)
    BY DEF WorkerOK, Posts
  <2> HIDE DEF R, e
  <2> QED BY <2>1, AppendPlaces
<1>2. PICK i \in 1..Len(outbox') : outbox'[i].id = r /\ outbox'[i].ok
  BY DEF Yes
<1>3. CASE i \in 1..Len(outbox)
  BY <1>1, <1>2, <1>3 DEF Yes
<1>4. CASE i = Len(outbox) + 1
  <2>1. e.id = r /\ e.ok
    BY <1>1, <1>2, <1>4
  <2> QED BY <2>1
<1> QED BY <1>1, <1>3, <1>4

\* A delivered answer was under way; the others stay.
LEMMA YesShrinks ==
    ASSUME WorkerOK, outbox # <<>>, outbox' = Tail(outbox)
    PROVE  /\ \A r : Yes(r)' => Yes(r)
           /\ Head(outbox).ok => Yes(Head(outbox).id)
<1> DEFINE R == [id : Ids, ok : BOOLEAN]
<1>1. /\ outbox' \in Seq(R) /\ Len(outbox) \in Nat \ {0}
      /\ Head(outbox) = outbox[1] /\ 1 \in 1..Len(outbox)
      /\ \A i \in 1..Len(outbox') : outbox'[i] = outbox[i + 1] /\ i + 1 \in 1..Len(outbox)
  <2>1. outbox \in Seq(R)
    BY DEF WorkerOK
  <2> HIDE DEF R
  <2> QED BY <2>1, TailPlaces
<1> HIDE DEF R
<1> QED BY <1>1 DEF Yes

\* What was made and taken stays so: nobody makes a call twice.
LEMMA SpentForEver ==
    ASSUME TypeOK, PromiseInv, Apart, Rooms, [Next]_vars, NEW r \in Req, Spent(r)
    PROVE  Spent(r)'
<1> USE DEF Spent, clientVars
<1>1. r \in Ids /\ r # Ping /\ r # Stop /\ r # None
  BY ConstantsOK DEF Ids
<1>2. \A q \in Ids : inbox' = Append(inbox, q) => Queued' = Queued \cup {q}
  BY InboxGrows DEF TypeOK
<1>3. CASE Start
  <2>1. inbox' = <<Ping>> /\ UNCHANGED <<busy, outcome>>
    BY <1>3 DEF Start
  <2>2. Queued' = {Ping}
    BY <2>1 DEF Queued
  <2> QED BY <2>1, <2>2, <1>1
<1>4. CASE Heartbeat \/ Shutdown
  <2>1. /\ inbox' = inbox \/ inbox' = Append(inbox, Ping) \/ inbox' = Append(inbox, Stop)
        /\ UNCHANGED <<busy, outcome>>
    BY <1>4 DEF Heartbeat, Shutdown
  <2> QED BY <2>1, <1>1, <1>2, InboxSame DEF Ids
<1>5. CASE Deliver
  <2>1. UNCHANGED <<inbox, busy>> /\ outcome'[r] \in {outcome[r], "ok", "refused"}
    BY <1>5 DEF Deliver, TypeOK, ClientOK
  <2> QED BY <2>1, InboxSame
<1>6. CASE Take
  <2>1. /\ inbox # <<>> /\ inbox' = Tail(inbox) /\ busy' \in {busy, Head(inbox)}
        /\ UNCHANGED outcome
    BY <1>6 DEF Take, SkipExpired
  <2>2. Queued' \subseteq Queued /\ Head(inbox) \in Queued
    BY <2>1, InboxShrinks DEF Apart, TypeOK
  <2> QED BY <2>1, <2>2
<1>7. CASE Finish
  <2>1. busy' = None /\ UNCHANGED <<inbox, outcome>>
    BY <1>7 DEF Finish, Close, Call, Begin, Commit, Rollback, Executes, WorkFrame
  <2> QED BY <2>1, <1>1, InboxSame
<1>8. CASE Exit
  <2>1. inbox' = <<>> /\ busy' = None /\ outcome'[r] \in {outcome[r], "unavailable"}
    BY <1>8 DEF Exit, RejectAll
  <2>2. Queued' = {}
    BY <2>1 DEF Queued
  <2> QED BY <2>1, <2>2, <1>1
<1>9. ASSUME NEW q \in Req, Request(q) \/ Resume(q) PROVE Spent(r)'
  <2>1. /\ q # r /\ outcome'[r] = outcome[r] /\ UNCHANGED busy
        /\ inbox' = inbox \/ inbox' = Append(inbox, q)
    BY <1>9 DEF Request, Resume, Submit, SubmitFrame, TypeOK, ClientOK
  <2> QED BY <2>1, <1>2, InboxSame DEF Ids
<1>10. ASSUME NEW q \in Req, RecoveryWaitTimeout(q) \/ RequestTimeout(q) PROVE Spent(r)'
  <2>1. /\ outcome'[r] \in {outcome[r], "rejected", "timeout"} /\ UNCHANGED <<busy, inbox>>
    BY <1>10 DEF RecoveryWaitTimeout, RequestTimeout, SubmitFrame, portVars, TypeOK, ClientOK
  <2> QED BY <2>1, InboxSame
<1>11. CASE UNCHANGED <<inbox, busy, outcome>>
  BY <1>11, InboxSame
<1> QED
  BY <1>3, <1>4, <1>5, <1>6, <1>7, <1>8, <1>9, <1>10, <1>11
  DEF Next, PingTimeout, StopTimeout, Crash, Expire, portVars, vars

\* Nothing is affirmed but by the execution of the request: only the answer to
\* the one under execution adds to what was affirmed.
LEMMA AckedGrows ==
    ASSUME TypeOK, PromiseInv, Rooms, [Next]_vars, NEW r \in Req, Acked(r)', ~Acked(r)
    PROVE  busy = r /\ Finish /\ Posts(r, TRUE)
<1> USE DEF Acked, clientVars
<1>1. r \in Ids /\ r # Ping /\ r # Stop
  BY ConstantsOK DEF Ids
<1>2. outbox' = outbox => (Yes(r)' => Yes(r))
  BY DEF Yes
<1>3. CASE Deliver
  <2>1. Yes(r)' => Yes(r)
    BY <1>3, YesShrinks DEF Deliver, TypeOK
  <2>2. outcome'[r] = "ok" /\ outcome[r] # "ok" => Head(outbox).ok /\ Head(outbox).id = r
    BY <1>3 DEF Deliver, TypeOK, ClientOK
  <2> QED BY <1>3, <2>1, <2>2, YesShrinks DEF Deliver, TypeOK
<1>4. CASE Take
  <2>1. UNCHANGED outcome /\ Head(inbox) \in Ids
        /\ (outbox' = outbox \/ Posts(Head(inbox), FALSE) \/ Posts(Ping, TRUE))
    <3>1. inbox # <<>> /\ UNCHANGED outcome
      BY <1>4 DEF Take
    <3>2. Head(inbox) \in Ids
      BY <3>1, TailPlaces DEF TypeOK, WorkerOK
    <3>3. outbox' = outbox \/ Posts(Head(inbox), FALSE) \/ Posts(Ping, TRUE)
      BY <1>4 DEF Take, SkipExpired
    <3> QED BY <3>1, <3>2, <3>3
  <2>2. Posts(Head(inbox), FALSE) => (Yes(r)' => Yes(r))
    BY <2>1, YesGrows DEF TypeOK
  <2>3. Posts(Ping, TRUE) => (Yes(r)' => Yes(r))
    BY <1>1, YesGrows DEF Ids, TypeOK
  <2> QED BY <2>1, <2>2, <2>3, <1>2
<1>5. CASE Finish
  <2>1. /\ UNCHANGED outcome /\ busy \in Ids
        /\ (Posts(busy, TRUE) \/ Posts(busy, FALSE))
    BY <1>5 DEF Finish, Close, Call, Begin, Commit, Rollback, Executes, WorkFrame, Ids
  <2> QED BY <1>5, <2>1, YesGrows DEF TypeOK
<1>6. CASE Exit
  BY <1>2, <1>6 DEF Exit, RejectAll, TypeOK, ClientOK
<1>7. ASSUME NEW q \in Req, Request(q) \/ Resume(q) PROVE FALSE
  BY <1>2, <1>7 DEF Request, Resume, Submit, SubmitFrame, TypeOK, ClientOK
<1>8. ASSUME NEW q \in Req, RecoveryWaitTimeout(q) \/ RequestTimeout(q) PROVE FALSE
  BY <1>2, <1>8 DEF RecoveryWaitTimeout, RequestTimeout, SubmitFrame, portVars, TypeOK, ClientOK
<1>9. CASE UNCHANGED <<outbox, outcome>>
  BY <1>2, <1>9
<1> QED
  BY <1>3, <1>4, <1>5, <1>6, <1>7, <1>8, <1>9
  DEF Next, Start, Heartbeat, Shutdown, PingTimeout, StopTimeout, Crash, Expire, portVars, vars

-----------------------------------------------------------------------------
\* Where the writes are: in the open transaction, in the file, or taken back.
\* Only a COMMIT that threw parts the connection from the executor.  While an id
\* is active, its statements are all in the open transaction, or, once that is
\* gone, all in the file but for the ones it took along.
OneAtATime ==
    /\ extTx => activeTx # NoTx /\ dirty \subseteq Ran(activeTx)
    /\ sqlTx => extTx \/ leftOpen
    /\ Role = "reader" => activeTx = NoTx /\ ~sqlTx
    /\ ~sqlTx => dirty = {}
    /\ dirty \subseteq applied /\ durable \subseteq applied /\ lost \subseteq applied
    /\ dirty \cap durable = {} /\ lost \cap dirty = {} /\ lost \cap durable = {}
    /\ activeTx # NoTx => IF sqlTx THEN Ran(activeTx) \subseteq dirty
                                    ELSE Ran(activeTx) \ lost \subseteq durable
\* What ran was taken once; a transaction not begun yet has left no trace.
History ==
    /\ \A r \in applied : Spent(r)
    /\ \A b \in Req : method[b].kind = "begin" /\ ~Spent(b) =>
         activeTx # method[b].tx /\ Ran(method[b].tx) = {} /\ ~Ended(method[b].tx)
\* A transaction that is over is in the file, or not.
Whole == \A t \in Tx \ {activeTx} :
           Ran(t) \cap durable = {} \/ Ran(t) \ lost \subseteq durable
\* What was affirmed is in the file and nobody can add to it.
Kept == \A r \in Req : Acked(r) =>
          /\ Role = "writer" /\ InTx(r, NoTx) => r \in durable \/ leftOpen
          /\ method[r].kind = "commit" =>
                method[r].tx # activeTx /\ Ran(method[r].tx) \subseteq durable
TxInv == OneAtATime /\ History /\ Whole /\ Kept

\* What a statement adds belongs to its own transaction alone.
LEMMA RanGrows ==
    ASSUME NEW q \in Req, applied' = applied \cup {q}, UNCHANGED method, NEW t
    PROVE  Ran(t)' = IF InTx(q, t) THEN Ran(t) \cup {q} ELSE Ran(t)
  BY DEF Ran, InTx

\* The calls nobody has taken yet stay without a trace while only other
\* transactions move.
LEMMA HistoryKept ==
    ASSUME TypeOK, PromiseInv, Apart, Rooms, [Next]_vars, History, UNCHANGED method,
           \A q \in applied' \ applied : Spent(q)',
           \A b \in Req : method[b].kind = "begin" /\ ~Spent(b) /\ ~Spent(b)' =>
              /\ activeTx' # method[b].tx
              /\ \A q \in applied' \ applied : ~InTx(q, method[b].tx)
              /\ \A c \in Req : method[c].kind = "commit" /\ method[c].tx = method[b].tx
                    => (Acked(c)' => Acked(c))
    PROVE  History'
<1>1. applied \subseteq Req /\ (\A q \in applied : Spent(q)')
  BY SpentForEver DEF TypeOK, StorageOK, History
<1>2. ASSUME NEW b \in Req, (method[b].kind = "begin" /\ ~Spent(b))'
      PROVE  (activeTx # method[b].tx /\ Ran(method[b].tx) = {} /\ ~Ended(method[b].tx))'
  <2>1. ~Spent(b)
    BY <1>2, SpentForEver
  <2>2. activeTx # method[b].tx /\ Ran(method[b].tx) = {} /\ ~Ended(method[b].tx)
    BY <1>2, <2>1 DEF History
  <2>3. Ran(method[b].tx)' = {}
    BY <1>2, <2>1, <2>2 DEF Ran, InTx
  <2>4. ~Ended(method[b].tx)'
    BY <1>2, <2>1, <2>2 DEF Ended
  <2> QED BY <1>2, <2>1, <2>3, <2>4
<1> QED BY <1>1, <1>2 DEF History

\* Steps that leave the storage alone and affirm nothing about it.
LEMMA StorageSame ==
    ASSUME TypeOK, PromiseInv, Apart, Rooms, [Next]_vars, TxInv,
           UNCHANGED <<txVars, method>>,
           \A r \in Req : Acked(r)' => Acked(r)
    PROVE  TxInv'
<1>0. OneAtATime /\ History /\ Whole /\ Kept
  BY DEF TxInv
<1> USE DEF txVars
<1>1. \A t : Ran(t)' = Ran(t)
  BY DEF Ran, InTx
<1>2. OneAtATime'
  BY <1>0, <1>1 DEF OneAtATime
<1>3. History'
  <2>1. applied' \ applied = {}
    OBVIOUS
  <2>2. ASSUME NEW b \in Req, method[b].kind = "begin", ~Spent(b)
        PROVE  activeTx' # method[b].tx
    BY <1>0, <2>2 DEF History
  <2> QED BY <1>0, <2>1, <2>2, HistoryKept
<1>4. Whole'
  BY <1>0, <1>1 DEF Whole
<1>5. Kept'
  BY <1>0, <1>1 DEF Kept, InTx
<1> QED BY <1>2, <1>3, <1>4, <1>5 DEF TxInv

\* A transaction is given up: what is still open never was in the file.
LEMMA RolledBack ==
    ASSUME TypeOK, PromiseInv, Apart, Rooms, [Next]_vars, TxInv, RollBack, activeTx # NoTx,
           UNCHANGED method,
           \A r \in Req : Acked(r)' => Acked(r) \/ method[r].kind = "rollback"
    PROVE  TxInv'
<1>0. OneAtATime /\ History /\ Whole /\ Kept
  BY DEF TxInv
<1> USE DEF RollBack
<1>1. /\ \A t : Ran(t)' = Ran(t)
      /\ ~extTx' /\ activeTx' = NoTx /\ dirty' \subseteq dirty
      /\ UNCHANGED <<durable, applied, lost, leftOpen>>
  BY DEF Ran, InTx
<1>2. OneAtATime'
  <2>1. /\ sqlTx' => sqlTx /\ ~extTx
        /\ ~sqlTx' => dirty' = {}
    BY <1>0 DEF OneAtATime
  <2> QED BY <1>0, <1>1, <2>1 DEF OneAtATime
<1>3. History'
  <2>1. applied' \ applied = {}
    BY <1>1
  <2>2. ASSUME NEW b \in Req, method[b].kind = "begin", ~Spent(b)
        PROVE  activeTx' # method[b].tx
    BY <2>2, <1>1, Methods, ConstantsOK
  <2> QED BY <1>0, <2>1, <2>2, HistoryKept
<1>4. Whole'
  <2>1. Ran(activeTx) \cap durable = {} \/ Ran(activeTx) \ lost \subseteq durable
    BY <1>0 DEF OneAtATime
  <2> QED BY <1>0, <1>1, <2>1 DEF Whole
<1>5. Kept'
  <2>1. ASSUME NEW r \in Req, Acked(r), method[r].kind = "commit" PROVE method[r].tx # NoTx
    BY <2>1, Methods, ConstantsOK
  <2> QED BY <1>0, <1>1, <2>1 DEF Kept, InTx
<1> QED BY <1>2, <1>3, <1>4, <1>5 DEF TxInv

\* SQLite takes the open writes back, whether the executor learns of it or not.
LEMMA Withdrawn ==
    ASSUME TypeOK, PromiseInv, Apart, Rooms, [Next]_vars, TxInv, TakenBack,
           UNCHANGED <<activeTx, method>>, extTx' => extTx,
           \A r \in Req : Acked(r)' => Acked(r)
    PROVE  TxInv'
<1>0. OneAtATime /\ History /\ Whole /\ Kept
  BY DEF TxInv
<1> USE DEF TakenBack
<1>1. /\ \A t : Ran(t)' = Ran(t)
      /\ ~sqlTx' /\ dirty' = {} /\ lost' = lost \cup dirty
      /\ UNCHANGED <<activeTx, durable, applied, leftOpen>>
  BY DEF Ran, InTx
<1>2. OneAtATime'
  <2>1. activeTx # NoTx => Ran(activeTx) \ lost' \subseteq durable
    BY <1>0, <1>1 DEF OneAtATime
  <2> QED BY <1>0, <1>1, <2>1 DEF OneAtATime
<1>3. History'
  <2>1. applied' \ applied = {}
    BY <1>1
  <2>2. ASSUME NEW b \in Req, method[b].kind = "begin", ~Spent(b)
        PROVE  activeTx' # method[b].tx
    BY <1>0, <1>1, <2>2 DEF History
  <2> QED BY <1>0, <2>1, <2>2, HistoryKept
<1>4. Whole'
  BY <1>0, <1>1 DEF Whole
<1>5. Kept'
  BY <1>0, <1>1 DEF Kept, InTx
<1> QED BY <1>2, <1>3, <1>4, <1>5 DEF TxInv

\* A COMMIT throws and SQLite stays inside the transaction.
LEMMA StaysOpen ==
    ASSUME TypeOK, PromiseInv, Apart, Rooms, [Next]_vars, TxInv,
           ~extTx', leftOpen', UNCHANGED <<activeTx, sqlTx, dirty, durable, applied, lost, method>>,
           \A r \in Req : Acked(r)' => Acked(r)
    PROVE  TxInv'
<1>0. OneAtATime /\ History /\ Whole /\ Kept
  BY DEF TxInv
<1>1. \A t : Ran(t)' = Ran(t)
  BY DEF Ran, InTx
<1>2. OneAtATime'
  BY <1>0, <1>1 DEF OneAtATime
<1>3. History'
  <2>1. applied' \ applied = {}
    OBVIOUS
  <2>2. ASSUME NEW b \in Req, method[b].kind = "begin", ~Spent(b)
        PROVE  activeTx' # method[b].tx
    BY <1>0, <2>2 DEF History
  <2> QED BY <1>0, <2>1, <2>2, HistoryKept
<1>4. Whole'
  BY <1>0, <1>1 DEF Whole
<1>5. Kept'
  BY <1>0, <1>1 DEF Kept, InTx
<1> QED BY <1>2, <1>3, <1>4, <1>5 DEF TxInv

\* A request under execution has an entry, so its call was made; once it is
\* answered it is spent.
LEMMA Executed ==
    ASSUME TypeOK, PromiseInv, Apart, Rooms, NEW r \in Req, busy = r
    PROVE  /\ ~Spent(r) /\ outcome[r] \notin {"idle", "waiting"}
           /\ busy' = None /\ UNCHANGED <<inbox, outcome>> => Spent(r)'
<1>1. r \in pending /\ r # None /\ r \notin Queued
  BY ConstantsOK DEF Apart, Rooms, InHand, Ids
<1>2. outcome[r] \notin {"idle", "waiting"}
  BY <1>1 DEF PromiseInv, UnsentUnlisted
<1> QED BY <1>1, <1>2, InboxSame DEF Spent

\* A statement runs, in the open transaction or by itself.
LEMMA StatementRuns ==
    ASSUME TypeOK, PromiseInv, Apart, Rooms, [Next]_vars, TxInv, NEW r \in Req,
           busy = r, busy' = None, UNCHANGED <<inbox, outcome, method>>,
           Kind(r, "call"), MayRun(r), Apply(r),
           \A q \in Req : Acked(q)' => Acked(q) \/ q = r
    PROVE  TxInv'
<1>0. OneAtATime /\ History /\ Whole /\ Kept
  BY DEF TxInv
<1>1. /\ \A t : Ran(t)' = IF t = activeTx THEN Ran(t) \cup {r} ELSE Ran(t)
      /\ InTx(r, activeTx) /\ method[r].kind = "call"
      /\ applied' = applied \cup {r}
      /\ UNCHANGED <<activeTx, extTx, sqlTx, lost, leftOpen>>
  BY RanGrows DEF Apply, Kind, MayRun, InTx
<1>2. ~Spent(r) /\ Spent(r)' /\ r \notin applied /\ r \notin durable
      /\ r \notin dirty /\ r \notin lost
  BY <1>0, Executed DEF History, OneAtATime
<1>3. History'
  <2>1. ASSUME NEW b \in Req, method[b].kind = "begin", ~Spent(b)
        PROVE  activeTx' # method[b].tx /\ ~InTx(r, method[b].tx)
    BY <1>0, <1>1, <2>1 DEF History, InTx
  <2>2. \A c \in Req : method[c].kind = "commit" => c # r
    BY <1>1
  <2> QED BY <1>0, <1>1, <1>2, <2>1, <2>2, HistoryKept
<1>4. ASSUME durable \subseteq durable',
             Role = "writer" /\ InTx(r, NoTx) => r \in durable' \/ leftOpen
      PROVE  Kept'
  <2>1. ASSUME NEW q \in Req, Acked(q), method[q].kind = "commit"
        PROVE  (method[q].tx # activeTx /\ Ran(method[q].tx) \subseteq durable)'
    <3>1. method[q].tx # activeTx /\ Ran(method[q].tx) \subseteq durable
      BY <1>0, <2>1 DEF Kept
    <3>2. Ran(method[q].tx)' = Ran(method[q].tx)
      BY <3>1, <1>1
    <3> QED BY <3>1, <3>2, <1>1, <1>4
  <2>2. ASSUME NEW q \in Req, Acked(q)', Role = "writer", InTx(q, NoTx)
        PROVE  q \in durable' \/ leftOpen'
    BY <1>0, <1>1, <1>4, <2>2 DEF Kept
  <2>3. \A q \in Req : Acked(q)' /\ method[q].kind = "commit" => Acked(q)
    BY <1>1
  <2> QED BY <2>1, <2>2, <2>3 DEF Kept, InTx
<1>5. CASE sqlTx
  <2>1. dirty' = dirty \cup {r} /\ durable' = durable /\ Role # "reader"
    BY <1>0, <1>5 DEF Apply, OneAtATime
  <2>2. OneAtATime'
    BY <1>0, <1>1, <1>2, <1>5, <2>1 DEF OneAtATime
  <2>3. Whole'
    BY <1>0, <1>1, <2>1 DEF Whole
  <2>4. InTx(r, NoTx) => leftOpen
    BY <1>0, <1>1, <1>5 DEF OneAtATime, InTx
  <2> QED BY <1>3, <1>4, <2>1, <2>2, <2>3, <2>4 DEF TxInv
<1>6. CASE ~sqlTx
  <2>1. dirty = {} /\ dirty' = {}
        /\ durable' = IF Role = "reader" THEN durable ELSE durable \cup {r}
    BY <1>0, <1>6 DEF Apply, OneAtATime
  <2>2. OneAtATime'
    <3>1. activeTx # NoTx => Role # "reader" /\ (Ran(activeTx) \ lost)' \subseteq durable'
      BY <1>0, <1>1, <1>6, <2>1 DEF OneAtATime
    <3> QED BY <1>0, <1>1, <1>2, <1>6, <2>1, <3>1 DEF OneAtATime
  <2>3. Whole'
    <3>1. ASSUME NEW t \in Tx \ {activeTx} PROVE Ran(t)' = Ran(t) /\ r \notin Ran(t)
      BY <1>1, <1>2, <3>1 DEF Ran
    <3> QED BY <1>0, <1>1, <2>1, <3>1 DEF Whole
  <2> QED BY <1>3, <1>4, <2>1, <2>2, <2>3, ConstantsOK DEF TxInv
<1> QED BY <1>5, <1>6

\* A transaction begins, or its id stays behind after a BEGIN that came too late:
\* the id was never used before.
LEMMA Begun ==
    ASSUME TypeOK, PromiseInv, Apart, Rooms, [Next]_vars, TxInv, NEW r \in Req,
           busy = r, busy' = None, UNCHANGED <<inbox, outcome, method>>,
           Kind(r, "begin"), Role = "writer", activeTx = NoTx, ~sqlTx,
           activeTx' = method[r].tx, extTx' = sqlTx', method \in Workloads,
           UNCHANGED <<dirty, durable, applied, lost, leftOpen>>,
           \A q \in Req : Acked(q)' => Acked(q) \/ q = r
    PROVE  TxInv'
<1>0. OneAtATime /\ History /\ Whole /\ Kept
  BY DEF TxInv
<1>1. /\ \A t : Ran(t)' = Ran(t)
      /\ method[r].kind = "begin" /\ method[r].tx \in Tx /\ method[r].tx # NoTx
  BY Methods, ConstantsOK DEF Ran, InTx, Kind
<1>2. ~Spent(r) /\ Spent(r)' /\ Ran(method[r].tx) = {} /\ ~Ended(method[r].tx)
  BY <1>0, <1>1, Executed DEF History
<1>3. OneAtATime'
  <2>1. dirty = {} /\ dirty' = {} /\ Ran(activeTx)' = {} /\ activeTx' # NoTx
    BY <1>0, <1>1, <1>2 DEF OneAtATime
  <2> QED BY <1>0, <2>1 DEF OneAtATime
<1>4. History'
  <2>1. applied' \ applied = {}
    OBVIOUS
  <2>2. ASSUME NEW b \in Req, method[b].kind = "begin", ~Spent(b)'
        PROVE  activeTx' # method[b].tx
    <3>1. b # r
      BY <1>2, <2>2
    <3> QED BY <3>1, <2>2, <1>1, OneBegin
  <2>3. \A c \in Req : method[c].kind = "commit" => c # r
    BY <1>1
  <2> QED BY <1>0, <2>1, <2>2, <2>3, HistoryKept
<1>5. Whole'
  BY <1>0, <1>1, ConstantsOK DEF Whole
<1>6. Kept'
  <2>1. ASSUME NEW q \in Req, Acked(q), method[q].kind = "commit" PROVE method[q].tx # method[r].tx
    BY <2>1, <1>2 DEF Ended
  <2>2. r \in Req /\ method[r].kind # "commit" /\ method[r].kind # "call"
    BY <1>1
  <2> QED BY <1>0, <1>1, <2>1, <2>2 DEF Kept, InTx
<1> QED BY <1>3, <1>4, <1>5, <1>6 DEF TxInv

\* A transaction is committed: everything that ran in it was still open.
LEMMA Committed ==
    ASSUME TypeOK, PromiseInv, Apart, Rooms, [Next]_vars, TxInv, NEW r \in Req,
           UNCHANGED method, OwnsActive(r), method[r].kind = "commit", extTx, sqlTx,
           durable' = durable \cup dirty, dirty' = {},
           activeTx' = NoTx, ~extTx', ~sqlTx',
           UNCHANGED <<applied, lost, leftOpen>>,
           \A q \in Req : Acked(q)' => Acked(q) \/ q = r
    PROVE  TxInv'
<1>0. OneAtATime /\ History /\ Whole /\ Kept
  BY DEF TxInv
<1>1. /\ \A t : Ran(t)' = Ran(t)
      /\ method[r].tx = activeTx /\ activeTx \in Tx /\ activeTx # NoTx
  BY Methods, ConstantsOK DEF Ran, InTx, OwnsActive
<1>2. dirty = Ran(activeTx) /\ dirty \subseteq applied
  BY <1>0, <1>1 DEF OneAtATime
<1>3. OneAtATime'
  BY <1>0, <1>1, <1>2 DEF OneAtATime
<1>4. History'
  <2>1. applied' \ applied = {}
    OBVIOUS
  <2>2. ASSUME NEW b \in Req, method[b].kind = "begin", ~Spent(b)
        PROVE  activeTx' # method[b].tx /\ method[r].tx # method[b].tx
    BY <1>0, <2>2, <1>1, Methods, ConstantsOK DEF History
  <2> QED BY <1>0, <2>1, <2>2, HistoryKept
<1>5. Whole'
  <2>1. ASSUME NEW t \in Tx, t # activeTx PROVE Ran(t) \cap dirty = {}
    BY <1>2, <2>1 DEF Ran, InTx
  <2> QED BY <1>0, <1>1, <1>2, <2>1 DEF Whole
<1>6. Kept'
  <2>1. ASSUME NEW q \in Req, method[q].kind = "commit" PROVE method[q].tx # NoTx
    BY <2>1, Methods, ConstantsOK
  <2> QED BY <1>0, <1>1, <1>2, <2>1 DEF Kept, InTx
<1> QED BY <1>3, <1>4, <1>5, <1>6 DEF TxInv

\* The worker is gone: what the connection had open went with it, unless its
\* last COMMIT or autocommit had just reached the file.
LEMMA Died ==
    ASSUME TypeOK, PromiseInv, Apart, Rooms, [Next]_vars, TxInv, Exit
    PROVE  TxInv'
<1>0. OneAtATime /\ History /\ Whole /\ Kept
  BY DEF TxInv
<1>1. /\ activeTx' = NoTx /\ ~extTx' /\ ~sqlTx' /\ dirty' = {}
      /\ applied' = applied \cup (durable' \ durable)
      /\ durable' = durable \/ durable' = durable \cup LastEffect
      /\ UNCHANGED <<method, lost, leftOpen>>
  BY DEF Exit
<1>2. ASSUME NEW q \in Req, Acked(q)' PROVE Acked(q)
  <2>1. outbox' = outbox /\ outbox = <<>>
    BY DEF Exit
  <2>2. ~Posts(q, TRUE)
    <3>1. Append(outbox, [id |-> q, ok |-> TRUE]) # outbox
      BY <2>1
    <3> QED BY <2>1, <3>1 DEF Posts
  <2> QED BY <1>2, <2>2, AckedGrows
<1>3. \/ durable' = durable
      \/ extTx /\ sqlTx /\ activeTx \in Tx /\ durable' = durable \cup dirty
      \/ /\ busy \in Req /\ InTx(busy, activeTx) /\ ~sqlTx
         /\ durable' = durable \cup {busy}
  <2>1. CASE LastEffect = {}
    BY <1>1, <2>1
  <2>2. CASE LastEffect = dirty /\ busy \in Req /\ OwnsActive(busy) /\ extTx
    <3>1. activeTx \in Tx
      BY <2>2, Methods DEF OwnsActive
    <3>2. ~sqlTx => dirty = {}
      BY <1>0 DEF OneAtATime
    <3> QED BY <1>1, <2>2, <3>1, <3>2
  <2>3. CASE LastEffect = {busy} /\ busy \in Req /\ method[busy].kind = "call"
             /\ MayRun(busy) /\ ~sqlTx
    BY <1>1, <2>3 DEF MayRun, InTx
  <2>4. \/ LastEffect = {}
        \/ LastEffect = dirty /\ busy \in Req /\ OwnsActive(busy) /\ extTx
        \/ LastEffect = {busy} /\ busy \in Req /\ method[busy].kind = "call"
           /\ MayRun(busy) /\ ~sqlTx
    BY DEF LastEffect
  <2> QED BY <2>1, <2>2, <2>3, <2>4
<1>4. busy \in Req => ~Spent(busy) /\ busy \notin applied
  BY <1>0, Executed DEF History
<1>5. \A q \in applied' \ applied :
          q = busy /\ q \in Req /\ InTx(q, activeTx) /\ ~sqlTx /\ durable' = durable \cup {q}
  BY <1>0, <1>1, <1>3 DEF OneAtATime
<1>6. \A t : t # activeTx => Ran(t)' = Ran(t)
  BY <1>1, <1>5 DEF Ran, InTx
<1>7. OneAtATime'
  BY <1>0, <1>1, <1>3, <1>4 DEF OneAtATime
<1>8. History'
  <2>1. ASSUME NEW q \in Req, q = busy PROVE Spent(q)'
    <3>1. inbox' = <<>> /\ busy' = None /\ outcome'[q] \in {outcome[q], "unavailable"}
      BY DEF Exit, RejectAll
    <3>2. Queued' = {} /\ q # None
      BY <3>1, ConstantsOK DEF Queued, Ids
    <3> QED BY <2>1, <3>1, <3>2, Executed DEF Spent
  <2>2. ASSUME NEW b \in Req, method[b].kind = "begin", ~Spent(b)
        PROVE  activeTx' # method[b].tx /\ activeTx # method[b].tx
    BY <1>0, <2>2, <1>1, Methods, ConstantsOK DEF History
  <2> QED BY <1>0, <1>1, <1>2, <1>5, <2>1, <2>2, HistoryKept DEF InTx
<1>9. Whole'
  <2>1. ASSUME NEW t \in Tx, t # activeTx
        PROVE  (Ran(t) \cap durable = {} \/ Ran(t) \ lost \subseteq durable)'
    <3>1. Ran(t) \cap durable = {} \/ Ran(t) \ lost \subseteq durable
      BY <1>0, <2>1 DEF Whole
    <3>2. Ran(t) \cap (durable' \ durable) = {}
      BY <1>0, <1>3, <2>1 DEF OneAtATime, Ran, InTx
    <3> QED BY <1>1, <1>6, <2>1, <3>1, <3>2
  <2>2. ASSUME activeTx \in Tx
        PROVE  (Ran(activeTx) \cap durable' = {} \/ Ran(activeTx) \ lost \subseteq durable')
               /\ \A q \in applied' \ applied :
                     q \in durable' /\ Ran(activeTx) \ lost \subseteq durable'
    <3>1. activeTx # NoTx
      BY <2>2, ConstantsOK
    <3> QED BY <1>0, <1>1, <1>3, <1>5, <3>1 DEF OneAtATime
  <2>3. ASSUME activeTx \in Tx
        PROVE  {q \in applied' : InTx(q, activeTx)} \cap durable' = {}
               \/ {q \in applied' : InTx(q, activeTx)} \ lost \subseteq durable'
    BY <1>1, <2>2, <2>3 DEF Ran
  <2>4. \A t : Ran(t)' = {q \in applied' : InTx(q, t)}
    BY <1>1 DEF Ran, InTx
  <2> QED BY <1>1, <2>1, <2>3, <2>4 DEF Whole
<1>10. Kept'
  <2>1. durable \subseteq durable'
    BY <1>1
  <2>2. ASSUME NEW q \in Req, Acked(q), method[q].kind = "commit"
        PROVE  (method[q].tx # activeTx /\ Ran(method[q].tx) \subseteq durable)'
    <3>1. method[q].tx # NoTx /\ method[q].tx # activeTx /\ Ran(method[q].tx) \subseteq durable
      BY <1>0, <2>2, Methods, ConstantsOK DEF Kept
    <3> QED BY <3>1, <1>1, <1>6, <2>1
  <2> QED BY <1>0, <1>1, <1>2, <2>1, <2>2 DEF Kept, InTx
<1> QED BY <1>7, <1>8, <1>9, <1>10 DEF TxInv

\* A request is answered once, one way.
LEMMA OneAnswer ==
    ASSUME WorkerOK, NEW r \in Ids, Posts(r, TRUE), Posts(r, FALSE) PROVE FALSE
<1>1. Append(outbox, [id |-> r, ok |-> TRUE])[Len(outbox) + 1] = [id |-> r, ok |-> TRUE]
  BY DEF WorkerOK
<1>2. Append(outbox, [id |-> r, ok |-> FALSE])[Len(outbox) + 1] = [id |-> r, ok |-> FALSE]
  BY DEF WorkerOK
<1>3. [id |-> r, ok |-> TRUE].ok /\ ~[id |-> r, ok |-> FALSE].ok
  OBVIOUS
<1> QED BY <1>1, <1>2, <1>3 DEF Posts

\* The calls ask for what the workload says, for ever.
LEMMA WorkloadFixed == Spec => [](method \in Workloads)
<1>1. Init => method \in Workloads
  BY DEF Init
<1>2. method \in Workloads /\ [Next]_vars => (method \in Workloads)'
  BY DEF Next, vars, Start, Heartbeat, PingTimeout, StopTimeout, Deliver, Shutdown, Take,
     Finish, Close, Call, Begin, Commit, Rollback, WorkFrame, Crash, Exit, Request, Resume,
     RecoveryWaitTimeout, SubmitFrame, RequestTimeout, Expire
<1> QED BY <1>1, <1>2, PTL DEF Spec

\* Every step keeps the file, the open transaction and the answers in order.
LEMMA StorageInv == Spec => []TxInv
<1>1. Init => TxInv
  <2> SUFFICES ASSUME Init PROVE OneAtATime /\ History /\ Whole /\ Kept
    BY DEF TxInv
  <2>1. \A r \in Req : ~Acked(r)
    BY DEF Init, Acked, Yes
  <2>2. \A t : Ran(t) = {} /\ ~Ended(t)
    BY <2>1 DEF Init, Ran, Ended
  <2>3. \A t \in Tx : t # NoTx
    BY ConstantsOK
  <2>4. OneAtATime
    BY DEF Init, OneAtATime
  <2>5. \A r \in Req : method[r].kind = "begin" => method[r].tx # NoTx
    BY <2>3, ConstantsOK DEF Init, Method
  <2> QED BY <2>1, <2>2, <2>3, <2>4, <2>5 DEF Init, History, Whole, Kept
<1>2. TypeOK /\ PromiseInv /\ BacklogInv /\ method \in Workloads /\ TxInv /\ [Next]_vars
      => TxInv'
  <2> SUFFICES ASSUME TypeOK, PromiseInv, BacklogInv, method \in Workloads, TxInv, [Next]_vars
               PROVE  TxInv'
    OBVIOUS
  <2>1. Apart /\ Rooms
    BY DEF BacklogInv
  <2>2. \A r \in Req : Acked(r)' => Acked(r) \/ (busy = r /\ Finish /\ Posts(r, TRUE))
    BY <2>1, AckedGrows
  <2>3. Finish => busy # None /\ busy' = None
    BY ConstantsOK DEF Finish, Close, Call, Begin, Commit, Rollback, Executes, Ids
  <2>4. ASSUME UNCHANGED <<txVars, method>>, \A r \in Req : Acked(r)' => Acked(r)
        PROVE  TxInv'
    BY <2>1, <2>4, StorageSame
  <2>5. CASE Take
    <3>1. \A r \in Req : Acked(r)' => Acked(r)
      BY <2>2, <2>3, <2>5 DEF Take
    <3>2. /\ UNCHANGED method
          /\ UNCHANGED txVars \/ RollBackThrows \/ (RollBack /\ activeTx # NoTx)
      BY <2>5, Methods, ConstantsOK DEF Take, SkipExpired, CleanUp, OwnsActive
    <3> QED BY <2>1, <2>4, <3>1, <3>2, RolledBack, Withdrawn DEF RollBackThrows
  <2>6. CASE Close
    <3>1. \A r \in Req : Acked(r)' => Acked(r)
      BY <2>2, <2>6, ConstantsOK DEF Close, Executes
    <3>2. /\ UNCHANGED method
          /\ UNCHANGED txVars \/ RollBackThrows \/ (RollBack /\ activeTx # NoTx)
      BY <2>6 DEF Close, clientVars
    <3> QED BY <2>1, <2>4, <3>1, <3>2, RolledBack, Withdrawn DEF RollBackThrows
  <2>7. ASSUME NEW r \in Req, busy = r, Posts(r, FALSE), NEW q \in Req, Acked(q)'
        PROVE  Acked(q)
    <3>1. ~Posts(r, TRUE)
      BY <2>7, OneAnswer DEF TypeOK, Ids
    <3> QED BY <2>2, <2>7, <3>1
  <2>8. ASSUME NEW r \in Req, Call(r) PROVE TxInv'
    <3>1. busy = r /\ busy' = None /\ UNCHANGED <<inbox, outcome, method>> /\ Kind(r, "call")
      BY <2>8 DEF Call, Executes, WorkFrame, clientVars
    <3>2. CASE MayRun(r) /\ Apply(r)
      BY <2>1, <2>2, <3>1, <3>2, StatementRuns
    <3>3. CASE Posts(r, FALSE) /\ UNCHANGED txVars
      BY <2>4, <2>7, <3>1, <3>3
    <3>4. CASE Posts(r, FALSE) /\ TakenBack /\ UNCHANGED <<activeTx, extTx>>
      BY <2>1, <2>7, <3>1, <3>4, Withdrawn
    <3> QED BY <2>8, <3>2, <3>3, <3>4 DEF Call
  <2>9. ASSUME NEW r \in Req, Begin(r) PROVE TxInv'
    <3>1. busy = r /\ busy' = None /\ UNCHANGED <<inbox, outcome, method>> /\ Kind(r, "begin")
      BY <2>9 DEF Begin, Executes, WorkFrame, clientVars
    <3>2. CASE Posts(r, FALSE) /\ UNCHANGED txVars
      BY <2>4, <2>7, <3>1, <3>2
    <3>3. CASE ~(Posts(r, FALSE) /\ UNCHANGED txVars)
      <4>1. /\ MayBegin /\ activeTx' = method[r].tx
            /\ (extTx' = TRUE /\ sqlTx' = TRUE) \/ UNCHANGED <<extTx, sqlTx>>
            /\ UNCHANGED <<dirty, durable, applied, lost, leftOpen>>
        BY <2>9, <3>3 DEF Begin
      <4>2. Role = "writer" /\ activeTx = NoTx /\ ~sqlTx
        BY <4>1 DEF MayBegin
      <4>3. extTx = FALSE /\ sqlTx = FALSE
        <5>1. ~extTx /\ ~sqlTx
          BY <4>2 DEF TxInv, OneAtATime
        <5>2. extTx \in BOOLEAN /\ sqlTx \in BOOLEAN
          BY DEF TypeOK, FlagsOK
        <5> QED BY <5>1, <5>2, Zenon
      <4>4. extTx' = sqlTx'
        <5>1. CASE extTx' = TRUE /\ sqlTx' = TRUE
          BY <5>1
        <5>2. CASE UNCHANGED <<extTx, sqlTx>>
          <6>1. extTx' = extTx /\ sqlTx' = sqlTx
            BY <5>2
          <6> QED BY <4>3, <6>1
        <5> QED BY <4>1, <5>1, <5>2
      <4>5. activeTx' = method[r].tx /\ UNCHANGED <<dirty, durable, applied, lost, leftOpen>>
        BY <4>1
      <4>6. \A q \in Req : Acked(q)' => Acked(q) \/ q = r
        BY <2>2, <3>1
      <4> QED BY <2>1, <3>1, <4>2, <4>4, <4>5, <4>6, Begun
    <3> QED BY <3>2, <3>3
  <2>10. ASSUME NEW r \in Req, Commit(r) PROVE TxInv'
    <3>1. busy = r /\ busy' = None /\ UNCHANGED method /\ method[r].kind = "commit"
      BY <2>10 DEF Commit, Executes, WorkFrame, Kind
    <3>2. CASE Posts(r, FALSE) /\ UNCHANGED txVars
      BY <2>4, <2>7, <3>1, <3>2
    <3>3. CASE Posts(r, FALSE) /\ RollBackThrows
      BY <2>1, <2>7, <3>1, <3>3, Withdrawn DEF RollBackThrows
    <3>4. CASE /\ Posts(r, FALSE) /\ extTx' = FALSE /\ leftOpen' = TRUE
               /\ UNCHANGED <<activeTx, sqlTx, dirty, durable, applied, lost>>
      BY <2>1, <2>7, <3>1, <3>4, StaysOpen
    <3>5. CASE /\ OwnsActive(r) /\ extTx /\ sqlTx
               /\ durable' = durable \cup dirty /\ dirty' = {}
               /\ activeTx' = NoTx /\ extTx' = FALSE /\ sqlTx' = FALSE
               /\ UNCHANGED <<applied, lost, leftOpen>>
      BY <2>1, <2>2, <3>1, <3>5, Committed
    <3> QED BY <2>10, <3>2, <3>3, <3>4, <3>5 DEF Commit
  <2>11. ASSUME NEW r \in Req, Rollback(r) PROVE TxInv'
    <3>1. busy = r /\ UNCHANGED method /\ method[r].kind = "rollback"
      BY <2>11 DEF Rollback, Executes, WorkFrame, Kind
    <3>2. CASE Posts(r, FALSE) /\ UNCHANGED txVars
      BY <2>4, <2>7, <2>11, <3>1, <3>2 DEF Rollback, Executes
    <3>3. CASE Posts(r, FALSE) /\ RollBackThrows
      BY <2>1, <2>7, <2>11, <3>1, <3>3, Withdrawn DEF RollBackThrows, Rollback, Executes
    <3>4. CASE OwnsActive(r) /\ RollBack
      <4>1. activeTx # NoTx
        BY <3>4, Methods, ConstantsOK DEF OwnsActive
      <4> QED BY <2>1, <2>2, <3>1, <3>4, <4>1, RolledBack
    <3> QED BY <2>11, <3>2, <3>3, <3>4 DEF Rollback
  <2>12. CASE Exit
    BY <2>1, <2>12, Died
  <2>13. CASE UNCHANGED <<txVars, method, busy>>
    <3>1. \A r \in Req : Acked(r)' => Acked(r)
      BY <2>2, <2>3, <2>13
    <3> QED BY <2>4, <2>13, <3>1
  <2>14. CASE Start \/ Heartbeat \/ PingTimeout \/ StopTimeout \/ Deliver \/ Shutdown \/ Crash
    BY <2>13, <2>14 DEF Start, Heartbeat, PingTimeout, StopTimeout, Deliver, Shutdown, Crash
  <2>15. ASSUME NEW r \in Req, Request(r) \/ Resume(r) \/ RecoveryWaitTimeout(r)
                               \/ RequestTimeout(r)
         PROVE  TxInv'
    BY <2>13, <2>15
    DEF Request, Resume, RecoveryWaitTimeout, SubmitFrame, RequestTimeout, portVars
  <2>16. ASSUME NEW r \in Ids, Expire(r) PROVE TxInv'
    BY <2>13, <2>16 DEF Expire, portVars
  <2>17. CASE UNCHANGED vars
    BY <2>13, <2>17 DEF vars, portVars
  <2> QED
    BY <2>5, <2>6, <2>8, <2>9, <2>10, <2>11, <2>12, <2>14, <2>15, <2>16, <2>17
    DEF Next, Finish
<1> QED
  BY <1>1, <1>2, TypeCorrect, PromisesInv, BacklogsInv, WorkloadFixed, PTL DEF Spec

\* The statements of one transaction reach the file together or not at all,
\* whatever calls, failures, expiries, crashes and shutdowns fall between them;
\* what SQLite took back by itself never does.
THEOREM TransactionsAreAtomic == Spec => []TransactionsAtomic
<1>1. TypeOK /\ TxInv => TransactionsAtomic
  <2> SUFFICES ASSUME TypeOK, OneAtATime, Whole, NEW t \in Tx
               PROVE  /\ {r \in applied \ lost : InTx(r, t)} \cap durable = {}
                         \/ {r \in applied \ lost : InTx(r, t)} \subseteq durable
                      /\ lost \cap durable = {}
    BY DEF TxInv, TransactionsAtomic, OneAtATime
  <2>0. {r \in applied \ lost : InTx(r, t)} = Ran(t) \ lost /\ lost \cap durable = {}
    BY DEF Ran, OneAtATime
  <2>1. CASE t = activeTx
    <3>1. Ran(t) \subseteq dirty \/ Ran(t) \ lost \subseteq durable
      BY <2>1, ConstantsOK DEF OneAtATime
    <3> QED BY <2>0, <3>1 DEF OneAtATime
  <2>2. CASE t # activeTx
    BY <2>0, <2>2 DEF Whole
  <2> QED BY <2>1, <2>2
<1> QED BY <1>1, TypeCorrect, StorageInv, PTL

\* What the daemon was told is written stays written: everything that ran in a
\* transaction whose COMMIT was told is in the file, and so is a plain write unless
\* a COMMIT had thrown and left SQLite inside its transaction.
THEOREM AcksAreDurable == Spec => []AckedWritesDurable
<1>1. TxInv => AckedWritesDurable
  <2> SUFFICES ASSUME Role = "writer", Kept, NEW r \in Req, outcome[r] = "ok"
               PROVE  /\ InTx(r, NoTx) => r \in durable \/ leftOpen
                      /\ method[r].kind = "commit" =>
                           \A s \in applied : InTx(s, method[r].tx) => s \in durable
    BY DEF TxInv, AckedWritesDurable
  <2>1. Acked(r)
    BY DEF Acked
  <2> QED BY <2>1 DEF Kept, Ran
<1> QED BY <1>1, StorageInv, PTL

\* A COMMIT or ROLLBACK that was answered, executed or not, has set the connection
\* free, or has thrown and put the executor out of the transaction; a ROLLBACK that
\* finds it out sets the connection free, so no id needs a third one.
THEOREM CleanupThrowsOnce == Spec => CleanupReleases
<1> DEFINE Freed(r) == activeTx' # method[r].tx \/ (~extTx' /\ (extTx \/ method[r].kind = "commit"))
           Frees == \A r \in Req :
             /\ method[r].kind \in {"commit", "rollback"}
             /\ r \in Answered' /\ r \notin Answered
             => \/ activeTx' # method[r].tx
                \/ ~extTx' /\ (extTx \/ method[r].kind = "commit")
<1>1. TypeOK /\ BacklogInv /\ [Next]_vars => [Frees]_vars
  <2> SUFFICES ASSUME TypeOK, BacklogInv, Next, NEW r \in Req,
                      method[r].kind \in {"commit", "rollback"},
                      r \in Answered', r \notin Answered
               PROVE  Freed(r)
    OBVIOUS
  <2>1. method[r].tx \in Tx /\ method[r].tx # NoTx
    BY Methods, ConstantsOK
  <2>2. r \in Ids /\ r # Stop /\ r # Ping
    BY ConstantsOK DEF Ids
  <2>3. \A q \in Ids : \A ok \in BOOLEAN : Posts(q, ok) => q = r
    BY OutboxGrows DEF TypeOK
  <2>4. outbox' # outbox
    BY OutboxSame
  <2>5. ASSUME RollBack \/ RollBackThrows PROVE Freed(r)
    <3>1. CASE RollBack
      BY <2>1, <3>1 DEF RollBack
    <3>2. CASE RollBackThrows
      BY <3>2 DEF RollBackThrows
    <3> QED BY <2>5, <3>1, <3>2
  <2>6. ASSUME ~OwnsActive(r), UNCHANGED txVars PROVE Freed(r)
    BY <2>6 DEF OwnsActive, txVars
  <2>7. CASE Take
    <3>1. SkipExpired(r) \/ Head(inbox) = Ping \/ outbox' = outbox
      <4>1. Head(inbox) \in Ids
        BY <2>7, TailPlaces DEF Take, TypeOK, WorkerOK
      <4> QED BY <2>3, <2>7, <4>1 DEF Take, SkipExpired
    <3>2. Head(inbox) = Ping => SkipExpired(Ping) \/ Posts(Ping, TRUE)
      BY <2>7, <2>4 DEF Take
    <3>3. SkipExpired(r)
      BY <2>2, <2>3, <2>4, <3>1, <3>2 DEF SkipExpired, Ids
    <3> QED BY <2>5, <2>6, <3>3 DEF SkipExpired, CleanUp
  <2>8. CASE Close
    BY <2>2, <2>3, <2>8 DEF Close, Ids
  <2>9. ASSUME NEW q \in Req, Call(q) \/ Begin(q) \/ Commit(q) \/ Rollback(q)
        PROVE  q = r /\ (Commit(r) \/ Rollback(r))
    <3>1. Posts(q, TRUE) \/ Posts(q, FALSE)
      BY <2>9 DEF Call, Begin, Commit, Rollback
    <3>2. q = r
      BY <2>3, <3>1 DEF Ids
    <3> QED BY <2>9, <3>2 DEF Call, Begin, Kind
  <2>10. CASE Commit(r)
    <3>1. method[r].kind = "commit"
      BY <2>10 DEF Commit, Kind
    <3>2. \/ activeTx' = NoTx
          \/ RollBackThrows
          \/ extTx /\ extTx' = FALSE
          \/ ~OwnsActive(r) /\ UNCHANGED txVars
          \/ ~extTx /\ UNCHANGED txVars
      BY <2>10 DEF Commit
    <3>3. CASE activeTx' = NoTx
      BY <2>1, <3>3
    <3>4. CASE extTx /\ extTx' = FALSE
      BY <3>4
    <3>5. CASE ~extTx /\ UNCHANGED txVars
      BY <3>1, <3>5 DEF txVars
    <3> QED BY <2>5, <2>6, <3>2, <3>3, <3>4, <3>5
  <2>11. CASE Rollback(r)
    BY <2>5, <2>6, <2>11 DEF Rollback
  <2>12. CASE Deliver
    <3>1. Answered' \subseteq Answered
      BY <2>12, OutboxShrinks DEF Deliver, TypeOK, BacklogInv, Apart
    <3> QED BY <3>1
  <2> QED
    BY <2>4, <2>7, <2>8, <2>9, <2>10, <2>11, <2>12
    DEF Next, Finish, Start, Heartbeat, PingTimeout, StopTimeout, Shutdown, Crash, Exit,
        Request, Resume, RecoveryWaitTimeout, SubmitFrame, RequestTimeout, Expire, portVars
<1> QED
  BY <1>1, TypeCorrect, BacklogsInv, PTL DEF Spec, CleanupReleases
=============================================================================
