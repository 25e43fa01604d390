---------------------------- MODULE DataRuntime ----------------------------
(***************************************************************************)
(* One DataRuntimeClient (the daemon's main thread) and the worker thread  *)
(* that owns one SQLite connection: apps/daemon/src/data-runtime/client.ts *)
(* and worker.ts.  The client posts requests on one FIFO port and the      *)
(* worker answers on another; timers, worker exits and a shutdown race     *)
(* with the answers.  Wall-clock deadlines are abstracted to the moment    *)
(* they pass (Expire), which both sides observe.                           *)
(***************************************************************************)
EXTENDS Naturals, Sequences, FiniteSets

CONSTANTS
    Req,         \* the calls the daemon makes, each at most once
    Tx,          \* ids of external transactions, chosen by their callers
    NoTx,        \* a call outside any transaction
    Ping,        \* the liveness probe (start() and the heartbeat share it)
    Stop,        \* the shutdown request
    None,        \* the worker executes nothing
    Role,        \* "writer" or "reader"
    Workloads,   \* the assignments of methods to calls that Init offers
    MaxPending,  \* DATA_RUNTIME_MAX_PENDING_REQUESTS
    MaxStarts    \* bound on worker incarnations

Ids == Req \cup {Ping, Stop}

\* What a call asks for, and the calls its caller awaits before making it.
Method == [kind : {"call"}, tx : Tx \cup {NoTx}, after : SUBSET Req]
    \cup [kind : {"begin", "commit", "rollback"}, tx : Tx, after : SUBSET Req]

ASSUME ConstantsOK ==
    /\ IsFiniteSet(Req)
    /\ Ping \notin Req /\ Stop \notin Req /\ Ping # Stop
    /\ None \notin Ids /\ NoTx \notin Tx
    /\ Role \in {"writer", "reader"}
    /\ Workloads \subseteq [Req -> Method]
    /\ MaxPending \in Nat \ {0} /\ MaxStarts \in Nat

\* An id stands for one transaction, as the ids the worker makes up itself do
\* (worker.ts:277): no two calls begin the same one.
ASSUME OneBegin ==
    \A load \in Workloads : \A r, s \in Req :
        load[r].kind = "begin" /\ load[s].kind = "begin" /\ load[r].tx = load[s].tx
            => r = s

VARIABLES
    \* client
    state, stopping, starts, startWaiting, heartbeatOn, heartbeatInFlight,
    pending,     \* ids in the pending map
    timedOut,    \* the entries of the map marked timedOut
    expired,     \* ids whose deadlineAt has passed
    outcome,     \* what each call's promise has been told
    method,      \* what each call asks for
    \* port and worker
    worker, inbox, outbox, busy, closing,
    \* SQLite as the worker sees it
    activeTx,    \* activeTransactionId
    extTx,       \* executor.externalTransaction
    sqlTx,       \* the connection is inside BEGIN IMMEDIATE
    dirty,       \* writes of the open transaction
    durable,     \* writes committed to the file
    applied,     \* history: calls whose statement succeeded
    lost,        \* history: those of them SQLite took back unasked
    leftOpen     \* history: a COMMIT threw and SQLite kept its transaction open

clientVars == <<state, stopping, starts, startWaiting, heartbeatOn,
                heartbeatInFlight, pending, timedOut, outcome>>
portVars == <<worker, inbox, outbox, busy, closing>>
txVars == <<activeTx, extTx, sqlTx, dirty, durable, applied, lost, leftOpen>>
vars == <<clientVars, expired, method, portVars, txVars>>

Settled == {"ok", "refused", "timeout", "unavailable", "rejected"}
InRecovery == state \in {"starting", "degraded"}
Queued == {inbox[i] : i \in DOMAIN inbox}
Answered == {outbox[i].id : i \in DOMAIN outbox}
Posts(r, ok) == outbox' = Append(outbox, [id |-> r, ok |-> ok])

Init ==
    /\ state = "stopped" /\ stopping = FALSE /\ starts = 0
    /\ startWaiting = FALSE /\ heartbeatOn = FALSE /\ heartbeatInFlight = FALSE
    /\ pending = {} /\ timedOut = {} /\ expired = {}
    /\ outcome = [r \in Req |-> "idle"]
    /\ method \in Workloads
    /\ worker = "none" /\ inbox = <<>> /\ outbox = <<>> /\ busy = None
    /\ closing = FALSE
    /\ activeTx = NoTx /\ extTx = FALSE /\ sqlTx = FALSE
    /\ dirty = {} /\ durable = {} /\ applied = {}
    /\ lost = {} /\ leftOpen = FALSE

-----------------------------------------------------------------------------
(* Client: start, request, timers, heartbeat, replies, shutdown.           *)

\* start(): a live worker that is not stopped makes it return at once.
Start ==
    /\ worker = "none" /\ starts < MaxStarts
    /\ starts' = starts + 1 /\ state' = "starting" /\ stopping' = FALSE
    /\ heartbeatOn' = FALSE /\ heartbeatInFlight' = FALSE
    /\ startWaiting' = TRUE
    /\ worker' = "up" /\ inbox' = <<Ping>> /\ closing' = FALSE
    /\ pending' = pending \cup {Ping} /\ expired' = expired \ {Ping}
    /\ UNCHANGED <<timedOut, outcome, method, outbox, busy, txVars>>

\* requestInternal: admission, then the entry in the pending map and the post.
HasRoom == worker # "none" /\ Cardinality(pending) < MaxPending

Submit(r) ==
    \/ /\ HasRoom
       /\ pending' = pending \cup {r} /\ inbox' = Append(inbox, r)
       /\ outcome' = [outcome EXCEPT ![r] = "open"]
    \/ \* no worker, no room, or the message exceeds the size limit
       /\ outcome' = [outcome EXCEPT ![r] = "rejected"]
       /\ UNCHANGED <<pending, inbox>>

SubmitFrame == UNCHANGED <<state, stopping, starts, startWaiting, heartbeatOn,
    heartbeatInFlight, timedOut, method, worker, outbox, busy, closing, txVars>>

\* request(): parks in the recovery wait, or submits.
Request(r) ==
    /\ outcome[r] = "idle"
    /\ \A s \in method[r].after : outcome[s] \in Settled
    /\ IF InRecovery /\ ~stopping
       THEN /\ outcome' = [outcome EXCEPT ![r] = "waiting"]
            /\ UNCHANGED <<pending, inbox, expired>>
       ELSE /\ Submit(r) /\ expired' = expired \ {r}
    /\ SubmitFrame

\* The wait ends; the remaining budget is at least 1 ms, so the deadline of
\* the message itself lies ahead again.
Resume(r) ==
    /\ outcome[r] = "waiting" /\ (stopping \/ ~InRecovery)
    /\ Submit(r) /\ expired' = expired \ {r}
    /\ SubmitFrame

RecoveryWaitTimeout(r) ==
    /\ outcome[r] = "waiting" /\ ~stopping /\ InRecovery /\ r \in expired
    /\ outcome' = [outcome EXCEPT ![r] = "rejected"]
    /\ UNCHANGED <<pending, inbox, expired>>
    /\ SubmitFrame

\* Time passes the deadline of one call, probe or shutdown request.
Expire(r) ==
    /\ r \notin expired
    /\ r \in pending \/ (r \in Req /\ outcome[r] = "waiting")
    /\ expired' = expired \cup {r}
    /\ UNCHANGED <<clientVars, method, portVars, txVars>>

FreeTimedOut(r) == pending' = pending \ {r} /\ UNCHANGED timedOut
MarkTimedOut(r) == timedOut' = timedOut \cup {r} /\ UNCHANGED pending

\* The timer of an ordinary request: the caller is told, the entry stays.
RequestTimeout(r) ==
    /\ r \in Req \cap (pending \ timedOut) /\ r \in expired
    /\ MarkTimedOut(r)
    /\ outcome' = [outcome EXCEPT ![r] = "timeout"]
    /\ UNCHANGED <<state, stopping, starts, startWaiting, heartbeatOn,
                   heartbeatInFlight, expired, method, portVars, txVars>>

\* The timer of a probe is fatal unless the client is stopping.
PingTimeout ==
    /\ Ping \in pending \ timedOut /\ Ping \in expired
    /\ timedOut' = timedOut \cup {Ping}
    /\ heartbeatInFlight' = FALSE /\ startWaiting' = FALSE
    /\ state' = IF ~stopping \/ startWaiting THEN "degraded" ELSE state
    /\ worker' = IF stopping THEN worker ELSE "dying"
    /\ UNCHANGED <<stopping, starts, heartbeatOn, pending, outcome, expired,
                   method, inbox, outbox, busy, closing, txVars>>

\* The shutdown request is given one second; then the worker is terminated.
StopTimeout ==
    /\ Stop \in pending \ timedOut /\ Stop \in expired
    /\ timedOut' = timedOut \cup {Stop}
    /\ worker' = "dying"
    /\ UNCHANGED <<state, stopping, starts, startWaiting, heartbeatOn,
                   heartbeatInFlight, pending, outcome, expired, method, inbox,
                   outbox, busy, closing, txVars>>

ProbeIdleOnly == pending = {}
ProbeAllowed == Role = "writer" => pending = {}

\* The heartbeat interval fires.  A writer with anything pending skips it; a
\* probe that finds no room is rejected and swallowed.
Heartbeat ==
    /\ heartbeatOn /\ ~stopping /\ state = "ready" /\ ~heartbeatInFlight
    /\ ProbeAllowed /\ HasRoom
    /\ heartbeatInFlight' = TRUE
    /\ pending' = pending \cup {Ping} /\ inbox' = Append(inbox, Ping)
    /\ expired' = expired \ {Ping}
    /\ UNCHANGED <<state, stopping, starts, startWaiting, heartbeatOn, timedOut,
                   outcome, method, worker, outbox, busy, closing, txVars>>

ReleaseUnlessLate(id) == /\ pending' = pending \ ({id} \ timedOut)
                         /\ UNCHANGED timedOut
Release(id) == pending' = pending \ {id} /\ timedOut' = timedOut \ {id}

\* handleMessage: the entry is released; a late reply settles nothing.
Deliver ==
    /\ outbox # <<>>
    /\ LET id == Head(outbox).id
           ok == Head(outbox).ok
           live == id \in pending \ timedOut
       IN /\ outbox' = Tail(outbox)
          /\ Release(id)
          /\ outcome' = IF live /\ id \in Req
                        THEN [outcome EXCEPT ![id] = IF ok THEN "ok" ELSE "refused"]
                        ELSE outcome
          /\ IF live /\ id = Ping
             THEN /\ heartbeatInFlight' = FALSE /\ startWaiting' = FALSE
                  /\ state' = IF ~startWaiting THEN state
                              ELSE IF ok THEN "ready" ELSE "degraded"
                  /\ heartbeatOn' = (heartbeatOn \/ (startWaiting /\ ok /\ ~stopping))
             ELSE UNCHANGED <<heartbeatInFlight, startWaiting, state, heartbeatOn>>
          /\ worker' = IF live /\ id = Stop THEN "dying" ELSE worker
    /\ UNCHANGED <<stopping, starts, expired, method, inbox, busy, closing, txVars>>

\* shutdown(): at most one in progress; a full pending map refuses the
\* request and the worker is terminated straight away.
Shutdown ==
    /\ ~stopping /\ state # "stopped"
    /\ heartbeatOn' = FALSE /\ heartbeatInFlight' = FALSE
    /\ IF worker = "none"
       THEN /\ state' = "stopped"
            /\ UNCHANGED <<stopping, pending, expired, worker, inbox>>
       ELSE /\ stopping' = TRUE /\ UNCHANGED state
            /\ IF HasRoom
               THEN /\ pending' = pending \cup {Stop}
                    /\ inbox' = Append(inbox, Stop)
                    /\ expired' = expired \ {Stop} /\ UNCHANGED worker
               ELSE worker' = "dying" /\ UNCHANGED <<pending, inbox, expired>>
    /\ UNCHANGED <<starts, startWaiting, timedOut, outcome, method, outbox,
                   busy, closing, txVars>>

-----------------------------------------------------------------------------
(* Worker: one request at a time, deadline checked before execution.       *)

\* SQLite ends the transaction by itself: on a full disk or an I/O error, say.
TakenBack ==
    /\ sqlTx' = FALSE /\ dirty' = {} /\ lost' = lost \cup dirty
    /\ UNCHANGED <<durable, applied, leftOpen>>

\* A ROLLBACK that throws: the executor forgets the transaction, the worker keeps
\* its id.  SQLite is in no transaction afterwards, if it was in one before.
RollBackThrows == extTx /\ extTx' = FALSE /\ TakenBack /\ UNCHANGED activeTx

\* A ROLLBACK that returns and frees the connection.  The executor sends it
\* only inside its own transaction, and SQLite refuses it outside of any.
RollBack ==
    /\ extTx => sqlTx
    /\ extTx' = FALSE /\ activeTx' = NoTx
    /\ sqlTx' = (sqlTx /\ ~extTx)
    /\ dirty' = IF extTx THEN {} ELSE dirty
    /\ UNCHANGED <<durable, applied, lost, leftOpen>>

OwnsActive(r) == r \in Req /\ method[r].kind \in {"commit", "rollback"}
                   /\ method[r].tx = activeTx

LateIgnored(r) == FALSE
Late(r) == r \in expired
DropCleanup(r) == UNCHANGED txVars
CleanUp(r) == IF OwnsActive(r) THEN RollBack \/ RollBackThrows
                              ELSE UNCHANGED txVars

\* A request whose deadline passed while it was queued is answered unexecuted,
\* but an expired COMMIT or ROLLBACK still tries to end its own transaction.
SkipExpired(r) ==
    /\ Late(r)
    /\ Posts(r, FALSE) /\ CleanUp(r)
    /\ UNCHANGED busy

Take ==
    /\ worker = "up" /\ busy = None /\ inbox # <<>>
    /\ inbox' = Tail(inbox)
    /\ LET r == Head(inbox)
       IN \/ SkipExpired(r)
          \/ /\ r = Ping /\ ~Late(r)
             /\ Posts(r, TRUE) /\ UNCHANGED <<busy, txVars>>
          \/ /\ r # Ping /\ ~Late(r)
             /\ busy' = r /\ UNCHANGED <<outbox, txVars>>
    /\ UNCHANGED <<clientVars, expired, method, worker, closing>>

Executes(r) == worker = "up" /\ busy = r /\ busy' = None
Kind(r, k) == r \in Req /\ method[r].kind = k
WorkFrame == UNCHANGED <<clientVars, expired, method, worker, inbox, closing>>

\* The whole statement of a storage.call, in the open transaction or autocommit.
Apply(r) ==
    /\ applied' = applied \cup {r}
    /\ IF Role = "reader" THEN UNCHANGED <<dirty, durable>>
       ELSE IF sqlTx THEN dirty' = dirty \cup {r} /\ UNCHANGED durable
       ELSE durable' = durable \cup {r} /\ UNCHANGED dirty
    /\ UNCHANGED <<activeTx, extTx, sqlTx, lost, leftOpen>>

MayRunAcross(r) == method[r].tx \in {NoTx, activeTx} /\ ~closing
MayRunOutside(r) == (activeTx = NoTx \/ method[r].tx = activeTx) /\ ~closing
MayRun(r) == method[r].tx = activeTx /\ ~closing

\* A call must carry exactly the active transaction id, or none when there is
\* none; whether SQLite is still inside that transaction is not asked.
Call(r) ==
    /\ Executes(r) /\ Kind(r, "call")
    /\ \/ /\ MayRun(r)
          /\ Apply(r) /\ Posts(r, TRUE)
       \/ \* foreign transaction, storage closed, or the statement throws ...
          Posts(r, FALSE) /\ UNCHANGED txVars
       \/ \* ... and takes the transaction with it, the executor unaware
          /\ MayRun(r) /\ sqlTx
          /\ TakenBack /\ UNCHANGED <<activeTx, extTx>> /\ Posts(r, FALSE)
    /\ WorkFrame

MayBegin == Role = "writer" /\ activeTx = NoTx /\ ~sqlTx /\ ~closing

\* The deadline is checked again once BEGIN IMMEDIATE holds the lock.
Begin(r) ==
    /\ Executes(r) /\ Kind(r, "begin")
    /\ \/ /\ MayBegin /\ r \notin expired
          /\ activeTx' = method[r].tx /\ extTx' = TRUE /\ sqlTx' = TRUE
          /\ UNCHANGED <<dirty, durable, applied, lost, leftOpen>>
          /\ Posts(r, TRUE)
       \/ \* refused, BEGIN fails, or it expired and was rolled back
          Posts(r, FALSE) /\ UNCHANGED txVars
       \/ \* it expired and the ROLLBACK throws
          /\ MayBegin /\ r \in expired /\ Posts(r, FALSE)
          /\ activeTx' = method[r].tx
          /\ UNCHANGED <<extTx, sqlTx, dirty, durable, applied, lost, leftOpen>>
    /\ WorkFrame

Commit(r) ==
    /\ Executes(r) /\ Kind(r, "commit")
    /\ \/ /\ OwnsActive(r) /\ extTx /\ sqlTx
          /\ durable' = durable \cup dirty /\ dirty' = {}
          /\ activeTx' = NoTx /\ extTx' = FALSE /\ sqlTx' = FALSE
          /\ UNCHANGED <<applied, lost, leftOpen>>
          /\ Posts(r, TRUE)
       \/ \* it throws, as a ROLLBACK may, or leaving the transaction open
          /\ OwnsActive(r) /\ Posts(r, FALSE)
          /\ \/ RollBackThrows
             \/ /\ extTx /\ sqlTx /\ extTx' = FALSE /\ leftOpen' = TRUE
                /\ UNCHANGED <<activeTx, sqlTx, dirty, durable, applied, lost>>
       \/ \* not its transaction, or the executor is no longer in one
          /\ ~OwnsActive(r) \/ ~extTx
          /\ Posts(r, FALSE) /\ UNCHANGED txVars
    /\ WorkFrame

Rollback(r) ==
    /\ Executes(r) /\ Kind(r, "rollback")
    /\ \/ OwnsActive(r) /\ RollBack /\ Posts(r, TRUE)
       \/ OwnsActive(r) /\ RollBackThrows /\ Posts(r, FALSE)
       \/ ~OwnsActive(r) /\ Posts(r, FALSE) /\ UNCHANGED txVars
    /\ WorkFrame

\* The shutdown method: roll back, close the storage, answer, close the port.
\* When the ROLLBACK or the closing throws, port and storage stay open.
Close ==
    /\ Executes(Stop)
    /\ \/ /\ IF activeTx # NoTx THEN RollBack ELSE UNCHANGED txVars
          /\ \/ Posts(Stop, TRUE) /\ closing' = TRUE
             \/ Posts(Stop, FALSE) /\ UNCHANGED closing
       \/ /\ activeTx # NoTx /\ RollBackThrows
          /\ Posts(Stop, FALSE) /\ UNCHANGED closing
    /\ UNCHANGED <<clientVars, expired, method, worker, inbox>>

Finish == Close \/ \E r \in Req : Call(r) \/ Begin(r) \/ Commit(r) \/ Rollback(r)

\* The worker dies on its own: an uncaught error or process.exit.
Crash ==
    /\ worker = "up" /\ worker' = "dying"
    /\ UNCHANGED <<clientVars, expired, method, inbox, outbox, busy, closing, txVars>>

\* What the request under execution had already written when the thread died.
LastEffect ==
    IF busy \notin Req \/ Role = "reader" THEN {}
    ELSE IF OwnsActive(busy) /\ method[busy].kind = "commit" /\ extTx THEN dirty
    ELSE IF method[busy].kind = "call" /\ MayRun(busy) /\ ~sqlTx THEN {busy}
    ELSE {}

RejectNone == UNCHANGED outcome
RejectAll == outcome' = [r \in Req |-> IF r \in pending \ timedOut
                                       THEN "unavailable" ELSE outcome[r]]

\* The exit event, after the port was drained: everything pending is rejected.
Exit ==
    /\ worker = "dying" \/ (worker = "up" /\ closing)
    /\ outbox = <<>>
    /\ worker' = "none" /\ inbox' = <<>> /\ busy' = None /\ closing' = FALSE
    /\ state' = IF stopping THEN "stopped" ELSE "degraded"
    /\ heartbeatOn' = FALSE /\ heartbeatInFlight' = FALSE /\ startWaiting' = FALSE
    /\ RejectAll
    /\ pending' = {} /\ timedOut' = {}
    /\ \/ UNCHANGED durable
       \/ durable' = durable \cup LastEffect
    /\ applied' = applied \cup (durable' \ durable)
    /\ activeTx' = NoTx /\ extTx' = FALSE /\ sqlTx' = FALSE /\ dirty' = {}
    /\ UNCHANGED <<stopping, starts, expired, method, outbox, lost, leftOpen>>

-----------------------------------------------------------------------------
Next ==
    \/ Start \/ Heartbeat \/ PingTimeout \/ StopTimeout \/ Deliver \/ Shutdown
    \/ Take \/ Finish \/ Crash \/ Exit
    \/ \E r \in Req : Request(r) \/ Resume(r) \/ RecoveryWaitTimeout(r)
                        \/ RequestTimeout(r)
    \/ \E r \in Ids : Expire(r)

Spec == Init /\ [][Next]_vars

\* Node runs timers and delivers messages; terminate() always ends a thread.
ClientFairness ==
    /\ WF_vars(Deliver) /\ WF_vars(Exit) /\ WF_vars(PingTimeout)
    /\ WF_vars(StopTimeout) /\ WF_vars(Heartbeat) /\ WF_vars(Take)
    /\ \A r \in Req : WF_vars(Resume(r)) /\ WF_vars(RecoveryWaitTimeout(r))
                        /\ WF_vars(RequestTimeout(r))
    /\ \A r \in Ids : WF_vars(Expire(r))

\* A synchronous statement may block its worker for ever ...
StallSpec == Spec /\ ClientFairness

-----------------------------------------------------------------------------
FlagsOK ==
    /\ stopping \in BOOLEAN /\ startWaiting \in BOOLEAN
    /\ heartbeatOn \in BOOLEAN /\ heartbeatInFlight \in BOOLEAN
    /\ closing \in BOOLEAN /\ extTx \in BOOLEAN /\ sqlTx \in BOOLEAN
    /\ leftOpen \in BOOLEAN
ClientOK ==
    /\ state \in {"stopped", "starting", "ready", "degraded"}
    /\ starts \in 0..MaxStarts
    /\ pending \subseteq Ids /\ timedOut \subseteq pending
    /\ expired \subseteq Ids
    /\ outcome \in [Req -> {"idle", "waiting", "open"} \cup Settled]
    /\ method \in [Req -> Method]
WorkerOK ==
    /\ worker \in {"none", "up", "dying"}
    /\ inbox \in Seq(Ids) /\ outbox \in Seq([id : Ids, ok : BOOLEAN])
    /\ busy \in Ids \cup {None}
StorageOK ==
    /\ activeTx \in Tx \cup {NoTx}
    /\ dirty \subseteq Req /\ durable \subseteq Req
    /\ applied \subseteq Req /\ lost \subseteq Req

\* Every variable stays in its type; only pending entries are marked timed out.
TypeOK == FlagsOK /\ ClientOK /\ WorkerOK /\ StorageOK

\* Everything the live worker still holds occupies an entry of the pending map,
\* timed out or not, so the worker's backlog never exceeds the admission limit
\* (client.ts:338-340, "keep the timed-out request in pending").
BacklogBounded ==
    /\ Queued \cup Answered \cup ({busy} \ {None}) \subseteq pending
    /\ Len(inbox) + Len(outbox) + Cardinality({busy} \ {None}) <= MaxPending

\* No promise is lost: a call is open exactly while the pending map holds it
\* with a live timer, and a client without a worker holds nothing.
OpenIffPending ==
    /\ \A r \in Req : outcome[r] = "open" <=> r \in pending \ timedOut
    /\ worker = "none" => pending = {}

\* The worker never starts executing a request whose caller has already been
\* told that it timed out (worker.ts:214-231).
NoStartAfterTimeout ==
    [][\A r \in Req : busy' = r /\ busy # r => outcome[r] # "timeout"]_vars

\* A COMMIT that is acknowledged has put everything that ran in its transaction
\* into the file, whatever failed before; a plain write that is acknowledged is in
\* the file, unless an earlier COMMIT threw and SQLite kept that transaction open,
\* which later calls then join unawares (executor.ts:103-119).  No crash, expiry
\* or foreign transaction takes either back.
InTx(r, t) == method[r].kind = "call" /\ method[r].tx = t
AckedWritesDurable ==
    Role = "writer" =>
        \A r \in Req : outcome[r] = "ok" =>
            /\ InTx(r, NoTx) => r \in durable \/ leftOpen
            /\ method[r].kind = "commit" =>
                \A s \in applied : InTx(s, method[r].tx) => s \in durable

\* The statements of one external transaction reach the file together or not at
\* all, whatever mixture of calls, failures, expiries, crashes and shutdowns
\* happens, but for those SQLite took back by itself: these never do, while the
\* owner's next ones run one by one (worker.ts:307-316 asks for the id only).
TransactionsAtomic ==
    /\ \A t \in Tx : LET ran == {r \in applied \ lost : InTx(r, t)}
                      IN ran \cap durable = {} \/ ran \subseteq durable
    /\ lost \cap durable = {}

\* Cleanup is never lost: a COMMIT or ROLLBACK that was answered, even as
\* expired, has freed the connection from its transaction, or has thrown out of
\* the executor's transaction, and the ROLLBACK that comes after that frees it
\* (worker.ts:215-222, executor.ts:112-119).
CleanupReleases ==
    [][\A r \in Req :
         /\ method[r].kind \in {"commit", "rollback"}
         /\ r \in Answered' /\ r \notin Answered
         => \/ activeTx' # method[r].tx
            \/ ~extTx' /\ (extTx \/ method[r].kind = "commit")]_vars

\* Every call the daemon makes is eventually settled, and shutdown() ends, even
\* if the worker hangs or the pending map is full.
EveryCallSettles ==
    /\ \A r \in Req : outcome[r] \in {"waiting", "open"} ~> outcome[r] \in Settled
    /\ stopping /\ worker # "none" ~> worker = "none"

\* A timed-out entry does not occupy its slot for ever, as long as every
\* statement of the worker returns.
SlotsComeBack ==
    WF_vars(Finish) => \A r \in Req : r \in pending ~> r \notin pending

\* A worker stuck in one request is recycled (client-timeout-isolation.test.ts:117,
\* "heartbeat timeout recycles a genuinely unresponsive Worker"), unless requests
\* that nobody answers fill the pending map, which refuses the probe as well.
UnresponsiveWorkerRecycled ==
    busy # None ~> busy = None \/ Cardinality(pending) = MaxPending
=============================================================================
