------------------------------- MODULE PiLive -------------------------------
(***************************************************************************)
(* The lifecycle of Pi Live runtimes: DefaultPiLiveService in packages/    *)
(* runtime-cordis/src/pi-live/service.ts with its recovery store.  Every   *)
(* await of the service is a point where the other operations interleave.  *)
(* A Logical Runtime outlives its Worker processes: it is suspended when   *)
(* idle, hydrated on demand and restored by the next daemon.               *)
(***************************************************************************)
EXTENDS Naturals, Sequences, FiniteSets

CONSTANTS
    Runtime,     \* runtime ids, each created at most once
    Fresh,       \* those that may start on a new native session
    Continued,   \* those that may start on an existing one
    Watched,     \* those whose page a browser may open
    Path,        \* native session files (JSONL)
    NoPath,
    MaxRecords,  \* MAX_RECOVERABLE_RUNTIMES
    MaxGen,      \* bound on the generation that still may get a Worker
    MaxDaemons,  \* bound on daemon processes
    MaxDisposals \* bound on those that may be disposed of in order

ASSUME ConstantsOK ==
    /\ IsFiniteSet(Runtime) /\ Fresh \subseteq Runtime
    /\ Continued \subseteq Runtime /\ Watched \subseteq Runtime
    /\ NoPath \notin Path
    /\ MaxRecords \in Nat \ {0} /\ MaxGen \in Nat \ {0}
    /\ MaxDaemons \in Nat /\ MaxDisposals \in Nat

\* The asynchronous jobs of one runtime that stay suspended across awaits.
Kind == {"suspend", "restart", "delete", "dispose"}

VARIABLES
    phase,      \* "running", or "disposing" once dispose() was called
    daemons,    \* daemon processes so far
    loaded,     \* recoveryLoaded
    runtimes,   \* ids in the runtimes map
    rt,         \* the OwnedRuntime of every id
    page,       \* runtimes with an SSE subscriber
    turn,       \* runtimes whose Worker runs a turn
    hydration,  \* generation of the hydrationTask, 0 when there is none
    starting, running, stopping,  \* Workers <<id, generation>> by phase
    job,        \* progress of each job, the Worker it saw, checkpoints ahead
    chain,      \* outstanding recoveryCheckpointTasks
    writes,     \* the recovery store's writeTail
    store,      \* the persisted records, newest first
    file,       \* the native session file of each runtime
    used, deleted,   \* history: created; DELETE returned
    evicted,         \* history: records the limit took out
    kept, unwritten, \* history: owed by dispose; had a put that failed
    overtaken        \* history: its Worker was changed under a checkpoint

workerVars == <<starting, running, stopping>>
storeVars == <<chain, writes, store, evicted, deleted>>
daemonVars == <<phase, daemons, loaded, kept, unwritten, overtaken>>
vars == <<daemonVars, runtimes, rt, page, turn, hydration, workerVars, job,
          storeVars, file, used>>

Worker == Runtime \X (1..MaxGen)
NoJob == [pc |-> "idle", w |-> 0, ahead |-> 0]
Blank == [status |-> "none", gen |-> 0, handle |-> 0, suspended |-> FALSE,
          path |-> NoPath, saved |-> FALSE, titled |-> FALSE]
Stored == {store[i] : i \in DOMAIN store}
Put(r, by) == [op |-> "put", id |-> r, by |-> by]
Remove(r) == [op |-> "remove", id |-> r, by |-> "delete"]

Init ==
    /\ phase = "running" /\ daemons = 1 /\ loaded = FALSE
    /\ kept = {} /\ unwritten = {} /\ overtaken = {}
    /\ runtimes = {} /\ rt = [r \in Runtime |-> Blank]
    /\ page = {} /\ turn = {} /\ hydration = [r \in Runtime |-> 0]
    /\ starting = {} /\ running = {} /\ stopping = {}
    /\ job = [r \in Runtime |-> [k \in Kind |-> NoJob]]
    /\ chain = [r \in Runtime |-> 0] /\ writes = <<>>
    /\ store = <<>> /\ evicted = {}
    /\ file = [r \in Runtime |-> NoPath] /\ used = {} /\ deleted = {}

Ready(r) == rt[r].status = "ready" /\ <<r, rt[r].handle>> \in running

\* handle.terminate(): a graceful request, then a kill after the grace period.
StopWorker(r, g) ==
    /\ running' = running \ {<<r, g>>}
    /\ stopping' = stopping \cup ({<<r, g>>} \cap running)

-----------------------------------------------------------------------------
(* The daemon process.                                                     *)

\* ensureRecoveryLoaded: persisted runtimes come back suspended, without Worker.
Load ==
    /\ phase = "running" /\ ~loaded /\ loaded' = TRUE
    /\ runtimes' = runtimes \cup Stored
    /\ rt' = [r \in Runtime |->
                IF r \in Stored \ runtimes
                THEN [Blank EXCEPT !.status = "ready", !.gen = 1,
                        !.suspended = TRUE, !.path = file[r], !.saved = TRUE]
                ELSE rt[r]]
    /\ UNCHANGED <<phase, daemons, kept, unwritten, overtaken, page, turn, hydration, workerVars, job,
                   storeVars, file, used>>

\* The process ends, in order or not; its Workers lose their channel and exit.
NextDaemon ==
    /\ daemons < MaxDaemons
    /\ daemons' = daemons + 1 /\ phase' = "running" /\ loaded' = FALSE
    /\ kept' = {} /\ unwritten' = {} /\ overtaken' = {} /\ runtimes' = {} /\ rt' = [r \in Runtime |-> Blank]
    /\ page' = {} /\ turn' = {} /\ hydration' = [r \in Runtime |-> 0]
    /\ starting' = {} /\ running' = {} /\ stopping' = {}
    /\ job' = [r \in Runtime |-> [k \in Kind |-> NoJob]]
    /\ chain' = [r \in Runtime |-> 0] /\ writes' = <<>>
    /\ UNCHANGED <<store, evicted, deleted, file, used>>

-----------------------------------------------------------------------------
(* Starting and hydrating.                                                 *)

\* The next generation makes every result of the last one stale.
NextGen(rec, s) == [rec EXCEPT !.gen = @ + 1, !.handle = 0, !.status = s]

\* prepareRuntimeInitialization and the call of host.start.
Prepare(r, g) ==
    rt' = [rt EXCEPT ![r] = [@ EXCEPT !.gen = g, !.status = "initializing",
                                      !.handle = 0, !.suspended = FALSE]]

StartNew(r) ==
    /\ phase = "running" /\ loaded /\ r \in Fresh \ used
    /\ used' = used \cup {r} /\ runtimes' = runtimes \cup {r}
    /\ Prepare(r, 1) /\ starting' = starting \cup {<<r, 1>>}
    /\ UNCHANGED <<daemonVars, page, turn, hydration, running, stopping, job,
                   storeVars, file>>

\* Continuing a session that a listed runtime already owns returns that runtime,
\* or is refused while it is terminating; neither creates anything.
StartContinue(r, p) ==
    /\ phase = "running" /\ loaded /\ r \in Continued \ used
    /\ \A q \in runtimes : rt[q].path # p
    /\ used' = used \cup {r} /\ runtimes' = runtimes \cup {r}
    /\ rt' = [rt EXCEPT ![r] = [Blank EXCEPT !.status = "ready", !.gen = 1,
                                  !.suspended = TRUE, !.path = p]]
    /\ file' = [file EXCEPT ![r] = p]
    /\ UNCHANGED <<daemonVars, page, turn, hydration, workerVars, job, storeVars>>

\* ensureRuntimeHydrated, called by subscribe() and by every operation.
Hydrates(r) == rt[r].suspended /\ hydration[r] = 0 /\ phase = "running"
Hydrate(r) ==
    /\ rt[r].gen < MaxGen
    /\ Prepare(r, rt[r].gen + 1)
    /\ hydration' = [hydration EXCEPT ![r] = rt[r].gen + 1]
    /\ starting' = starting \cup {<<r, rt[r].gen + 1>>}

Subscribe(r) ==
    /\ loaded /\ r \in (runtimes \cap Watched) \ page
    /\ page' = page \cup {r}
    /\ IF Hydrates(r) THEN Hydrate(r) ELSE UNCHANGED <<rt, hydration, starting>>
    /\ UNCHANGED <<daemonVars, runtimes, turn, running, stopping, job, storeVars,
                   file, used>>

Unsubscribe(r) ==
    /\ r \in page /\ page' = page \ {r}
    /\ UNCHANGED <<daemonVars, runtimes, rt, turn, hydration, workerVars, job,
                   storeVars, file, used>>

\* readyRuntime on a suspended runtime.
Operate(r) ==
    /\ loaded /\ r \in runtimes /\ Hydrates(r) /\ Hydrate(r)
    /\ UNCHANGED <<daemonVars, runtimes, page, turn, running, stopping, job,
                   storeVars, file, used>>

InitSettles(r, g) ==
    hydration' = [hydration EXCEPT ![r] = IF @ = g THEN 0 ELSE @]

\* Pi names the file of a fresh session, at the latest with its first message.
NamesSession(r) ==
    /\ file[r] = NoPath
    /\ \E p \in Path \ {file[q] : q \in Runtime} : file' = [file EXCEPT ![r] = p]

CurrentUnchecked(r, g) == TRUE
Current(r, g) == rt[r].gen = g /\ rt[r].status = "initializing"

\* initialize: the handshake succeeded; a stale attempt ends its own Worker.
InitDone(r, g) ==
    /\ <<r, g>> \in starting /\ starting' = starting \ {<<r, g>>}
    /\ IF Current(r, g)
       THEN /\ rt' = [rt EXCEPT ![r].handle = g, ![r].status = "ready"]
            /\ running' = running \cup {<<r, g>>} /\ UNCHANGED stopping
            /\ UNCHANGED file \/ NamesSession(r)
       ELSE stopping' = stopping \cup {<<r, g>>} /\ UNCHANGED <<rt, running, file>>
    /\ InitSettles(r, g)
    /\ UNCHANGED <<daemonVars, runtimes, page, turn, job, storeVars, used>>

\* The handshake failed, timed out or was aborted; host.start ended the Worker.
InitFail(r, g) ==
    /\ <<r, g>> \in starting /\ starting' = starting \ {<<r, g>>}
    /\ rt' = IF rt[r].gen = g /\ rt[r].status \notin {"terminating", "terminated"}
             THEN [rt EXCEPT ![r].status = "failed"] ELSE rt
    /\ InitSettles(r, g)
    /\ UNCHANGED <<daemonVars, runtimes, page, turn, running, stopping, job,
                   storeVars, file, used>>

Retry(r) ==
    /\ loaded /\ r \in runtimes /\ rt[r].status = "failed" /\ rt[r].gen < MaxGen
    /\ rt' = [rt EXCEPT ![r] = NextGen(@, "initializing")]
    /\ starting' = starting \cup {<<r, rt[r].gen + 1>>}
    /\ UNCHANGED <<daemonVars, runtimes, page, turn, hydration, running, stopping,
                   job, storeVars, file, used>>

\* workerExited: the process ended on its own.
Exited(rec) == [rec EXCEPT !.handle = 0, !.status = "failed"]

WorkerExit(r, g) ==
    /\ <<r, g>> \in running /\ running' = running \ {<<r, g>>}
    /\ rt' = IF rt[r].gen = g /\ rt[r].status \notin {"terminating", "terminated"}
             THEN [rt EXCEPT ![r] = Exited(@)] ELSE rt
    /\ turn' = turn \ {r} /\ kept' = kept \ {r}
    /\ UNCHANGED <<phase, daemons, loaded, unwritten, overtaken, runtimes, page,
                   hydration, starting, stopping, job, storeVars, file, used>>

\* A Worker told to stop is gone: gracefully, or killed after the grace period.
WorkerStops(w) ==
    /\ w \in stopping /\ stopping' = stopping \ {w}
    /\ UNCHANGED <<daemonVars, runtimes, rt, page, turn, hydration, starting,
                   running, job, storeVars, file, used>>

-----------------------------------------------------------------------------
(* Turns and recovery checkpoints.                                         *)

\* persistRuntime behind the outstanding checkpoints of the same runtime.
AddCheckpointUntracked(r) ==
    writes' = Append(writes, Put(r, "checkpoint")) /\ UNCHANGED chain
AddCheckpoint(r) ==
    /\ chain' = [chain EXCEPT ![r] = @ + 1]
    /\ writes' = IF chain[r] = 0 THEN Append(writes, Put(r, "checkpoint")) ELSE writes

\* prompt: the first message of a fresh session creates its file; the first
\* message of an untitled runtime refreshes the record with its summary.
Prompt(r) ==
    /\ r \in runtimes /\ Ready(r) /\ r \notin turn
    /\ turn' = turn \cup {r}
    /\ (file[r] # NoPath /\ UNCHANGED file) \/ NamesSession(r)
    /\ rt' = [rt EXCEPT ![r].titled = TRUE]
    /\ IF rt[r].path # NoPath /\ ~rt[r].titled
       THEN AddCheckpoint(r) ELSE UNCHANGED <<chain, writes>>
    /\ UNCHANGED <<daemonVars, runtimes, page, hydration, workerVars, job, store,
                   evicted, deleted, used>>

TurnSettles(r) ==
    /\ r \in turn /\ turn' = turn \ {r}
    /\ UNCHANGED <<daemonVars, runtimes, rt, page, hydration, workerVars, job,
                   storeVars, file, used>>

\* Any state read adopts the session file and checkpoints it once.
Unadopted(r) == file[r] # NoPath /\ ~rt[r].saved /\ chain[r] = 0
ReadState(r) ==
    /\ r \in runtimes /\ Ready(r) /\ Unadopted(r)
    /\ rt' = [rt EXCEPT ![r].path = file[r]]
    /\ AddCheckpoint(r)
    /\ UNCHANGED <<daemonVars, runtimes, page, turn, hydration, workerVars, job,
                   store, evicted, deleted, file, used>>

\* One write of the tail runs to its end; a failed put is only diagnosed, a
\* failed remove fails the DELETE.  Waiting jobs and checkpoints move on.
SavedEarly(ok) == TRUE
SavedIf(ok) == ok
Place(r) == CHOOSE i \in DOMAIN store : store[i] = r
Others(r) == IF r \notin Stored THEN store
             ELSE SubSeq(store, 1, Place(r) - 1) \o SubSeq(store, Place(r) + 1, Len(store))
Newest(r) == <<r>> \o Others(r)
Capped(s) == IF Len(s) > MaxRecords THEN SubSeq(s, 1, MaxRecords) ELSE s
CutOff(s) == {s[i] : i \in (MaxRecords + 1)..Len(s)}

\* A job that waits for the checkpoints ahead of it waits for one less.
Nearer(j) == IF j.pc \in {"wait", "drain"} /\ j.ahead > 0
             THEN [j EXCEPT !.ahead = @ - 1] ELSE j

StoreWrite(ok) ==
    /\ writes # <<>>
    /\ LET m == Head(writes)
           r == m.id
           put == m.op = "put"
       IN /\ store' = IF ~ok THEN store
                      ELSE IF put THEN Capped(Newest(r))
                      ELSE Others(r)
          /\ evicted' = IF put /\ ok THEN (evicted \ {r}) \cup CutOff(Newest(r)) ELSE evicted
          /\ rt' = IF put /\ SavedIf(ok) THEN [rt EXCEPT ![r].saved = TRUE] ELSE rt
          /\ unwritten' = IF put /\ ~ok THEN unwritten \cup {r} ELSE unwritten
          /\ IF m.by = "checkpoint"
             THEN /\ chain' = [chain EXCEPT ![r] = @ - 1]
                  /\ writes' = IF chain[r] > 1 THEN Append(Tail(writes), m)
                                               ELSE Tail(writes)
                  /\ job' = [job EXCEPT ![r] = [k \in Kind |-> Nearer(job[r][k])]]
                  /\ UNCHANGED deleted
             ELSE /\ writes' = Tail(writes) /\ UNCHANGED chain
                  /\ job' = [job EXCEPT ![r][m.by].pc =
                               IF m.by = "delete" /\ ~ok THEN "idle" ELSE "stored"]
                  /\ deleted' = IF m.by = "delete" /\ ok THEN deleted \cup {r}
                                                         ELSE deleted
    /\ UNCHANGED <<phase, daemons, loaded, kept, overtaken, runtimes, page, turn,
                   hydration, workerVars, file, used>>

-----------------------------------------------------------------------------
(* Suspension and restart: probe, checkpoint, then the switch.             *)

\* checkpointRuntimeState up to its put.
Checkpoint(r, k, g) ==
    /\ rt' = [rt EXCEPT ![r].path = file[r]]
    /\ job' = [job EXCEPT ![r][k] =
                 [pc |-> IF chain[r] = 0 THEN "put" ELSE "wait", w |-> g,
                  ahead |-> chain[r]]]
    /\ writes' = IF chain[r] = 0 THEN Append(writes, Put(r, k)) ELSE writes

SwitchFrame == UNCHANGED <<phase, daemons, loaded, unwritten, page, chain, store,
                           evicted, deleted, used, file>>
JobFrame == SwitchFrame /\ UNCHANGED overtaken

\* The checkpoints outstanding when the job began are done: now its own put.
Waited(r, k) ==
    /\ job[r][k].pc = "wait" /\ job[r][k].ahead = 0
    /\ job' = [job EXCEPT ![r][k].pc = "put"]
    /\ writes' = Append(writes, Put(r, k))
    /\ UNCHANGED <<runtimes, rt, turn, hydration, workerVars, kept>>
    /\ JobFrame

\* The idle timer fires and the Worker is asked for its state.
IdleTimer(r) ==
    /\ phase = "running" /\ Ready(r) /\ ~rt[r].suspended /\ r \notin page
    /\ job[r]["suspend"].pc = "idle"
    /\ job' = [job EXCEPT ![r]["suspend"] =
                 [pc |-> "probe", w |-> rt[r].handle, ahead |-> 0]]
    /\ UNCHANGED <<runtimes, rt, turn, hydration, workerVars, kept, writes>>
    /\ JobFrame

StillThere(r, g) == rt[r].handle = g /\ rt[r].status = "ready"

IdleProbed(r) ==
    /\ job[r]["suspend"].pc = "probe"
    /\ LET g == job[r]["suspend"].w
       IN IF /\ StillThere(r, g) /\ <<r, g>> \in running
             /\ r \notin turn /\ file[r] # NoPath
          THEN Checkpoint(r, "suspend", g)
          ELSE /\ job' = [job EXCEPT ![r]["suspend"] = NoJob]
               /\ UNCHANGED <<rt, writes>>
    /\ UNCHANGED <<runtimes, turn, hydration, workerVars, kept>>
    /\ JobFrame

\* DELETE or dispose is ending the runtime, or has.
Leaving(r) ==
    r \notin runtimes \/ \E k \in {"delete", "dispose"} : job[r][k].pc = "ending"

\* The checkpoint of the job outlived the Worker it was for.
Notes(r, k) ==
    overtaken' = IF rt[r].handle \notin {0, job[r][k].w} \/ Leaving(r)
                 THEN overtaken \cup {r} ELSE overtaken

\* suspendIdleRuntime after the checkpoint: nothing is looked at again.
HibernatedUnmarked(rec) == [rec EXCEPT !.gen = @ + 1, !.handle = 0, !.status = "ready"]
Hibernated(rec) == [rec EXCEPT !.gen = @ + 1, !.handle = 0, !.suspended = TRUE,
                               !.status = "ready"]

Suspend(r) ==
    /\ job[r]["suspend"].pc = "stored" /\ rt[r].gen < MaxGen
    /\ rt' = [rt EXCEPT ![r] = Hibernated(@)]
    /\ StopWorker(r, job[r]["suspend"].w)
    /\ turn' = turn \ {r}
    /\ job' = [job EXCEPT ![r]["suspend"] = NoJob]
    /\ UNCHANGED <<runtimes, hydration, starting, kept, writes>>
    /\ Notes(r, "suspend") /\ SwitchFrame

\* A mount snapshot finds entries on disk that an idle Worker does not know,
\* and asks that Worker for its window ...
DiskAhead(r) ==
    /\ r \in runtimes /\ Ready(r) /\ r \notin turn /\ file[r] # NoPath
    /\ job[r]["restart"].pc = "idle"
    /\ job' = [job EXCEPT ![r]["restart"] =
                 [pc |-> "probe", w |-> rt[r].handle, ahead |-> 0]]
    /\ UNCHANGED <<runtimes, rt, turn, hydration, workerVars, kept, writes>>
    /\ JobFrame

\* ... and once the snapshot is answered, its session checkpointed like that of
\* any state read, a restart is scheduled.
ScheduleRestart(r) ==
    /\ job[r]["restart"].pc = "probe"
    /\ LET g == job[r]["restart"].w
           adopts == <<r, g>> \in running /\ Unadopted(r)
           ahead == chain[r] + IF adopts THEN 1 ELSE 0
           told == IF adopts THEN Append(writes, Put(r, "checkpoint")) ELSE writes
           restarts == StillThere(r, g) /\ hydration[r] = 0
       IN /\ rt' = IF adopts \/ restarts THEN [rt EXCEPT ![r].path = file[r]] ELSE rt
          /\ chain' = [chain EXCEPT ![r] = ahead]
          /\ hydration' = IF restarts THEN [hydration EXCEPT ![r] = g] ELSE hydration
          /\ writes' = IF restarts /\ ahead = 0 THEN Append(told, Put(r, "restart")) ELSE told
          /\ job' = [job EXCEPT ![r]["restart"] =
                       IF restarts THEN [pc |-> IF ahead = 0 THEN "put" ELSE "wait",
                                         w |-> g, ahead |-> ahead] ELSE NoJob]
    /\ UNCHANGED <<daemonVars, runtimes, page, turn, workerVars, store, evicted,
                   deleted, file, used>>

\* restartRuntimeWorker after its checkpoint: again nothing is looked at.
Restart(r) ==
    /\ job[r]["restart"].pc = "stored" /\ rt[r].gen < MaxGen
    /\ Prepare(r, rt[r].gen + 1)
    /\ hydration' = [hydration EXCEPT ![r] = rt[r].gen + 1]
    /\ StopWorker(r, job[r]["restart"].w)
    /\ turn' = turn \ {r}
    /\ job' = [job EXCEPT ![r]["restart"].pc = "ending"]
    /\ UNCHANGED <<runtimes, starting, kept, writes>>
    /\ Notes(r, "restart") /\ SwitchFrame

StartGenBefore(r) == job[r]["restart"].w
StartGen(r) == hydration[r]

\* The old Worker is gone; an attempt aborted meanwhile starts nothing.
RestartStarts(r) ==
    /\ job[r]["restart"].pc = "ending" /\ <<r, job[r]["restart"].w>> \notin stopping
    /\ job' = [job EXCEPT ![r]["restart"] = NoJob]
    /\ LET g == StartGen(r)
       IN IF rt[r].gen = g
          THEN starting' = starting \cup {<<r, g>>} /\ UNCHANGED <<hydration, rt>>
          ELSE hydration' = [hydration EXCEPT ![r] = 0] /\ UNCHANGED <<starting, rt>>
    /\ UNCHANGED <<runtimes, turn, running, stopping, kept, writes>>
    /\ JobFrame

-----------------------------------------------------------------------------
(* DELETE and dispose.                                                     *)

Removed(r, k) == IF k = "delete" THEN Append(writes, Remove(r)) ELSE writes
AfterRemoval(k) == IF k = "delete" THEN "put" ELSE "done"
EndStatus(r, k, s) == IF k = "delete" THEN s ELSE rt[r].status

\* terminateRuntime: a running Worker is awaited before the runtime leaves the
\* map; without one nothing is awaited.  Only DELETE removes the record.
TerminateRuntime(r, k) ==
    LET g == rt[r].handle
    IN /\ rt' = [rt EXCEPT ![r] = NextGen(@,
                    EndStatus(r, k, IF g = 0 THEN "terminated" ELSE "terminating"))]
       /\ StopWorker(r, g) /\ turn' = turn \ {r}
       /\ IF g = 0
          THEN /\ runtimes' = runtimes \ {r} /\ writes' = Removed(r, k)
               /\ job' = [job EXCEPT ![r][k].pc = AfterRemoval(k)]
          ELSE /\ job' = [job EXCEPT ![r][k] = [pc |-> "ending", w |-> g, ahead |-> 0]]
               /\ UNCHANGED <<runtimes, writes>>

Dropped(r, k) ==
    /\ job[r][k].pc = "ending" /\ <<r, job[r][k].w>> \notin stopping
    /\ rt' = [rt EXCEPT ![r].status = EndStatus(r, k, "terminated")]
    /\ runtimes' = runtimes \ {r} /\ writes' = Removed(r, k)
    /\ job' = [job EXCEPT ![r][k].pc = AfterRemoval(k)]
    /\ UNCHANGED <<turn, hydration, workerVars, kept>>
    /\ JobFrame

Delete(r) ==
    /\ loaded /\ job[r]["delete"].pc = "idle" /\ r \in used
    /\ IF r \in runtimes
       THEN TerminateRuntime(r, "delete")
       ELSE /\ writes' = Removed(r, "delete")
            /\ job' = [job EXCEPT ![r]["delete"].pc = "put"]
            /\ UNCHANGED <<rt, running, stopping, turn, runtimes>>
    /\ kept' = kept \ {r}
    /\ UNCHANGED <<hydration, starting>>
    /\ JobFrame

\* dispose(): each runtime waits for its checkpoints, a ready one is persisted
\* again, and its Worker is ended; the record stays.
Dispose ==
    /\ phase = "running" /\ loaded /\ daemons <= MaxDisposals
    /\ phase' = "disposing"
    /\ kept' = {r \in runtimes : /\ Ready(r) /\ file[r] # NoPath
                                 /\ job[r]["delete"].pc = "idle"}
    /\ job' = [r \in Runtime |-> [job[r] EXCEPT !["dispose"] =
                 IF r \in runtimes
                 THEN [pc |-> "drain", w |-> 0, ahead |-> chain[r]] ELSE NoJob]]
    /\ UNCHANGED <<daemons, loaded, unwritten, overtaken, runtimes, rt, page, turn,
                   hydration, workerVars, storeVars, file, used>>

PersistsUnsaved(r) == Ready(r) /\ file[r] # NoPath /\ rt[r].path = NoPath
Persists(r) == Ready(r) /\ file[r] # NoPath

DisposeDrained(r) ==
    /\ job[r]["dispose"].pc = "drain" /\ job[r]["dispose"].ahead = 0
    /\ IF Persists(r)
       THEN /\ rt' = [rt EXCEPT ![r].path = file[r]]
            /\ writes' = Append(writes, Put(r, "dispose"))
            /\ job' = [job EXCEPT ![r]["dispose"].pc = "put"]
       ELSE /\ job' = [job EXCEPT ![r]["dispose"].pc = "stored"]
            /\ UNCHANGED <<rt, writes>>
    /\ UNCHANGED <<runtimes, turn, hydration, workerVars, kept>>
    /\ JobFrame

DisposeEnds(r) ==
    /\ job[r]["dispose"].pc = "stored"
    /\ TerminateRuntime(r, "dispose")
    /\ UNCHANGED <<hydration, starting, kept>>
    /\ JobFrame

Disposed == phase = "disposing" /\ \A r \in Runtime :
                job[r]["dispose"].pc \in {"idle", "done"}

-----------------------------------------------------------------------------
Gens == 1..MaxGen

Next ==
    \/ Load \/ NextDaemon \/ Dispose
    \/ \E ok \in BOOLEAN : StoreWrite(ok)
    \/ \E w \in Worker : WorkerStops(w)
    \/ \E r \in Runtime :
        \/ StartNew(r) \/ Subscribe(r) \/ Unsubscribe(r) \/ Operate(r) \/ Retry(r)
        \/ Prompt(r) \/ TurnSettles(r) \/ ReadState(r)
        \/ IdleTimer(r) \/ IdleProbed(r) \/ Suspend(r)
        \/ DiskAhead(r) \/ ScheduleRestart(r) \/ Restart(r) \/ RestartStarts(r)
        \/ Delete(r) \/ DisposeDrained(r) \/ DisposeEnds(r)
        \/ \E k \in {"delete", "dispose"} : Dropped(r, k)
        \/ \E p \in Path : StartContinue(r, p)
        \/ \E k \in {"suspend", "restart"} : Waited(r, k)
        \/ \E g \in Gens : InitDone(r, g) \/ InitFail(r, g) \/ WorkerExit(r, g)

Spec == Init /\ [][Next]_vars

\* Handshakes time out, a Worker told to stop is killed after its grace period,
\* the tail drains, and every continuation of an answered await runs.
FairSpec ==
    /\ Spec
    /\ WF_vars(\E ok \in BOOLEAN : StoreWrite(ok))
    /\ WF_vars(\E w \in Worker : WorkerStops(w))
    /\ \A r \in Runtime :
        /\ WF_vars(Waited(r, "suspend") \/ Suspend(r))
        /\ WF_vars(Waited(r, "restart") \/ Restart(r) \/ RestartStarts(r))
        /\ WF_vars(\E k \in {"delete", "dispose"} : Dropped(r, k))
        /\ WF_vars(\E g \in Gens : InitDone(r, g) \/ InitFail(r, g))

-----------------------------------------------------------------------------
Status == {"none", "initializing", "ready", "failed", "terminating", "terminated"}
JobState == {"idle", "probe", "wait", "put", "stored", "ending", "drain", "done"}

TypeOK ==
    /\ phase \in {"running", "disposing"} /\ loaded \in BOOLEAN
    /\ daemons \in 1..MaxDaemons \cup {1}
    /\ rt \in [Runtime -> [status : Status, gen : Nat, handle : 0..MaxGen,
                           suspended : BOOLEAN, path : Path \cup {NoPath},
                           saved : BOOLEAN, titled : BOOLEAN]]
    /\ runtimes \subseteq used /\ page \subseteq used /\ turn \subseteq used
    /\ used \subseteq Runtime /\ deleted \subseteq used /\ evicted \subseteq used
    /\ kept \subseteq used /\ unwritten \subseteq used /\ overtaken \subseteq used
    /\ hydration \in [Runtime -> 0..MaxGen]
    /\ starting \subseteq Worker /\ running \subseteq Worker
    /\ stopping \subseteq Worker
    /\ job \in [Runtime -> [Kind -> [pc : JobState, w : Nat, ahead : Nat]]]
    /\ chain \in [Runtime -> Nat]
    /\ writes \in Seq([op : {"put", "remove"}, id : Runtime,
                       by : Kind \cup {"checkpoint"}])
    /\ store \in Seq(Runtime) /\ Len(store) <= MaxRecords
    /\ file \in [Runtime -> Path \cup {NoPath}]

\* A listed runtime that looks ready has a Worker or can be given one: it is
\* never "ready" with neither a handle nor the suspended mark (service.ts:1868).
ReadyIsServed ==
    phase = "running" => \A r \in runtimes :
        rt[r].status = "ready" => rt[r].suspended \/ rt[r].handle # 0

\* recoverySessionPath suppresses further checkpoints of the same session
\* (service.ts:1007), so it may only be set once the record really is in the
\* store, and nothing but DELETE or the record limit takes it out again.
SavedIsStored ==
    \A r \in runtimes : rt[r].saved /\ job[r]["delete"].pc = "idle"
        => r \in Stored \cup evicted

\* dispose() keeps every task that was ready with a session: when it is done
\* the record is stored, unless its Worker died, a write failed or the user
\* deleted it meanwhile (service-lifecycle.test.ts:269).
DisposeKeepsTasks ==
    Disposed => \A r \in kept \ unwritten : r \in Stored \cup evicted

\* An initialization is settled one way or the other, however restarts,
\* suspensions and terminations overlap it.
InitializationSettles ==
    \A r \in Runtime : r \in runtimes /\ rt[r].status = "initializing"
                       ~> ~(r \in runtimes /\ rt[r].status = "initializing")

\* A Worker that runs belongs to a listed runtime, which has its handle: DELETE,
\* dispose, retry and an exit leave none behind, not even one whose handshake
\* they overlap (service.ts:1822-1837).  The one way out is a suspension or a
\* restart whose checkpoint outlived the Worker it was for (service.ts:1932).
WorkersAreHeld ==
    \A r \in Runtime \ overtaken : \A g \in Gens :
        <<r, g>> \in running => r \in runtimes /\ rt[r].handle = g

\* service.ts:1713-1714: "once DELETE returns, this Logical Runtime must not be
\* resurrected by the next Daemon generation."
DeletedStaysDeleted == deleted \cap runtimes = {}
=============================================================================
