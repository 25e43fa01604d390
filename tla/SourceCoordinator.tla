------------------------- MODULE SourceCoordinator -------------------------
(***************************************************************************)
(* SlimSourceCoordinator (apps/daemon/src/slim-source-coordinator.ts) over *)
(* the shared reads of SlimReads: the start-up run, user rescans queued    *)
(* after it, and dispose.  A run detects installations and writes them,    *)
(* asks the database which ones there are, then indexes each one and       *)
(* starts its capture, while the vault writes installations of its own.    *)
(* One source is modelled, and an installation is one scope: the code has  *)
(* a scope for each of its profiles, and keys captures by them too.  Every *)
(* await may see the coordinator aborted when it ends, and every call but  *)
(* dispose itself may fail.                                                *)
(***************************************************************************)
EXTENDS SlimReads, Naturals

CONSTANTS
    Rescan,     \* rescans users ask for
    MaxScopes,  \* MAX_STARTUP_SCOPES
    NoScope     \* no scope

ASSUME SourceConstantsOK == MaxScopes \in Nat

VARIABLES
    present,    \* installations an agent has put on this host
    aborted,    \* abort.signal.aborted
    startup,    \* this.task
    rescan,     \* the rescans: idle, queued, running, done, refused
    runPc,      \* the step of the run in progress
    detected,   \* installations still to be written
    found,      \* history: what this run has written, and what was known
                \* when it asked
    todo,       \* scopes still to be examined
    scope,      \* the scope under examination
    visited,    \* scopes examined, deferred over the budget, or failed
    scoped,     \* how many scopes were examined
    keys,       \* captureKeys
    handles,    \* live captures per key
    disposing   \* no, waiting, done

runVars == <<runPc, detected, found, todo, scope, visited, scoped>>
capVars == <<keys, handles>>
ctlVars == <<aborted, startup, rescan, disposing>>
sourceVars == <<readVars, present, ctlVars, runVars, capVars>>

SourceInit ==
    /\ ReadInit
    /\ present = {} /\ aborted = FALSE /\ startup = "running"
    /\ rescan = [r \in Rescan |-> "idle"]
    /\ runPc = "detect" /\ detected = {} /\ found = {}
    /\ todo = {} /\ scope = NoScope /\ visited = {} /\ scoped = 0
    /\ keys = {} /\ handles = [i \in Installation |-> 0]
    /\ disposing = "no"

-----------------------------------------------------------------------------
(* The host, the vault, the reader thread, rescans.                        *)

Appear(i) ==
    /\ i \notin present /\ present' = present \cup {i}
    /\ UNCHANGED <<readVars, ctlVars, runVars, capVars>>

\* The backup service resolves the installations it finds, at any time.
VaultResolves(i) ==
    /\ i \in present \ known /\ Resolve(i)
    /\ UNCHANGED <<present, ctlVars, runVars, capVars>>

ReadSettles ==
    /\ Reply \/ Refusal \/ Execute
    /\ UNCHANGED <<present, ctlVars, runVars, capVars>>

AskRescan(r) ==
    /\ rescan[r] = "idle"
    /\ rescan' = [rescan EXCEPT ![r] = IF aborted THEN "refused" ELSE "queued"]
    /\ UNCHANGED <<readVars, present, aborted, startup, disposing, runVars, capVars>>

\* The locals of a run, none left over from the last.
Fresh(step) ==
    /\ runPc' = step /\ detected' = {} /\ found' = {}
    /\ todo' = {} /\ scope' = NoScope /\ visited' = {} /\ scoped' = 0

Idle == startup = "done" /\ \A s \in Rescan : rescan[s] # "running"
RescanWaits(r) ==
    /\ rescan[r] = "queued" /\ Idle /\ ~aborted
    /\ rescan' = [rescan EXCEPT ![r] = "running"] /\ Fresh("detect")
    /\ UNCHANGED <<readVars, present, aborted, startup, disposing, capVars>>
\* A queued rescan waits for the start-up run and for the rescans before it;
\* if the coordinator was stopped meanwhile it is refused.
NextRescan(r) ==
    /\ rescan[r] = "queued" /\ Idle
    /\ IF aborted
       THEN /\ rescan' = [rescan EXCEPT ![r] = "refused"]
            /\ UNCHANGED runVars
       ELSE rescan' = [rescan EXCEPT ![r] = "running"] /\ Fresh("detect")
    /\ UNCHANGED <<readVars, present, aborted, startup, disposing, capVars>>

RunEnds ==
    /\ runPc = "end" /\ Fresh("idle") /\ startup' = "done"
    /\ rescan' = [r \in Rescan |-> IF rescan[r] = "running" THEN "done" ELSE rescan[r]]
    /\ UNCHANGED <<readVars, present, aborted, disposing, capVars>>

-----------------------------------------------------------------------------
(* One run.                                                                *)

RunFrame == UNCHANGED <<present, ctlVars>>

\* source.detect() returns what is on the host; a failure is counted.
Detect ==
    /\ runPc = "detect"
    /\ detected' \in {present, {}} /\ runPc' = "write"
    /\ UNCHANGED <<readVars, capVars, found, todo, scope, visited, scoped>>
    /\ RunFrame

\* resolveInstallation of each; the first failure drops the others.
WriteOne ==
    /\ runPc = "write" /\ ~aborted
    /\ \E i \in detected :
         /\ \/ Resolve(i) /\ found' = found \cup {i} /\ detected' = detected \ {i}
            \/ UNCHANGED <<readVars, found>> /\ detected' = {}
    /\ UNCHANGED <<capVars, runPc, todo, scope, visited, scoped>>
    /\ RunFrame

\* facets(), once everything detected is written.
Ask ==
    /\ runPc = "write" /\ ~aborted /\ detected = {} /\ Call
    /\ found' = found \cup known /\ runPc' = "facets"
    /\ UNCHANGED <<capVars, detected, todo, scope, visited, scoped>>
    /\ RunFrame

\* The answer: a failed read ends the whole run.
Facets ==
    /\ runPc = "facets" /\ call # "waiting"
    /\ IF call = "failed"
       THEN runPc' = "end" /\ UNCHANGED todo
       ELSE runPc' = "next" /\ todo' = got
    /\ UNCHANGED <<readVars, capVars, detected, found, scope, visited, scoped>>
    /\ RunFrame

\* The next scope: over the budget it is deferred, its profiles cannot be
\* listed, or it is indexed.
NextScope ==
    /\ runPc = "next" /\ ~aborted
    /\ \E i \in todo :
         /\ todo' = todo \ {i} /\ visited' = visited \cup {i}
         /\ IF scoped < MaxScopes
            THEN \/ scope' = i /\ runPc' = "index" /\ scoped' = scoped + 1
                 \/ UNCHANGED <<scope, runPc, scoped>>
            ELSE UNCHANGED <<scope, runPc, scoped>>
    /\ UNCHANGED <<readVars, capVars, detected, found>>
    /\ RunFrame

AlwaysCaptures(i) == TRUE
\* A scope that has a capture already keeps it.
NeedsCapture(i) == i \notin keys

\* reindexInstallation and the asset scan return; capture is started unless
\* the coordinator was aborted or the scope is captured already.
Indexed ==
    /\ runPc = "index"
    /\ runPc' \in IF ~aborted /\ NeedsCapture(scope) THEN {"capture", "next"} ELSE {"next"}
    /\ UNCHANGED <<readVars, capVars, detected, found, todo, scope,
                   visited, scoped>>
    /\ RunFrame

\* captureInstallation returns a handle, or throws; a handle that arrives
\* after the abort is disposed of at once.
Capture ==
    /\ runPc = "capture" /\ runPc' = "next"
    /\ \/ /\ ~aborted /\ keys' = keys \cup {scope}
          /\ handles' = [handles EXCEPT ![scope] = @ + 1]
       \/ UNCHANGED capVars
    /\ UNCHANGED <<readVars, detected, found, todo, scope, visited, scoped>>
    /\ RunFrame

\* rebuildLaunchableProjects, then the end; an aborted run ends early.
LastStep ==
    /\ \/ runPc = "next" /\ (todo = {} \/ aborted)
       \/ runPc = "write" /\ aborted
    /\ runPc' = "end"
    /\ UNCHANGED <<readVars, capVars, detected, found, todo, scope,
                   visited, scoped>>
    /\ RunFrame

-----------------------------------------------------------------------------
(* dispose(): abort, wait for the run and the queue, dispose the captures. *)

DisposeUnaborted ==
    /\ disposing = "no" /\ disposing' = "waiting"
    /\ UNCHANGED <<readVars, present, aborted, startup, rescan, runVars, capVars>>
Dispose ==
    /\ disposing = "no" /\ disposing' = "waiting" /\ aborted' = TRUE
    /\ UNCHANGED <<readVars, present, startup, rescan, runVars, capVars>>

\* The start-up run is awaited, then everything queued behind it.
QueueEmpty ==
    startup = "done" /\ \A r \in Rescan : rescan[r] \notin {"queued", "running"}

DisposeCaptures ==
    /\ disposing = "waiting" /\ QueueEmpty /\ disposing' = "done"
    /\ keys' = {} /\ handles' = [i \in Installation |-> 0]
    /\ UNCHANGED <<readVars, present, aborted, startup, rescan, runVars>>

-----------------------------------------------------------------------------
RunStep == \/ Detect \/ WriteOne \/ Ask \/ Facets \/ NextScope \/ Indexed
           \/ Capture \/ LastStep \/ RunEnds

SourceNext ==
    \/ RunStep \/ ReadSettles \/ Dispose \/ DisposeCaptures
    \/ \E i \in Installation : Appear(i) \/ VaultResolves(i)
    \/ \E r \in Rescan : AskRescan(r) \/ NextRescan(r)

SourceSpec == SourceInit /\ [][SourceNext]_sourceVars

\* The sources' calls return, reads are answered or time out, promises run.
FairSourceSpec ==
    /\ SourceSpec /\ WF_sourceVars(RunStep) /\ WF_sourceVars(ReadSettles)
    /\ WF_sourceVars(DisposeCaptures)
    /\ \A r \in Rescan : WF_sourceVars(NextRescan(r))

-----------------------------------------------------------------------------
SourceTypeOK ==
    /\ known \subseteq present /\ got \subseteq Installation
    /\ call \in {"idle", "waiting", "ok", "failed"}
    /\ rescan \in [Rescan -> {"idle", "queued", "running", "done", "refused"}]
    /\ visited \subseteq Installation /\ scoped \in 0..MaxScopes
    /\ keys \subseteq Installation

\* No original file is captured twice, whatever runs and rescans follow each
\* other (slim-source-coordinator.ts:255-266).
OneCapturePerScope ==
    \A i \in Installation : handles[i] = IF i \in keys THEN 1 ELSE 0

\* Once dispose() has returned no capture is left, and none appears later.
NothingOutlivesDispose ==
    disposing = "done" => keys = {} /\ \A i \in Installation : handles[i] = 0

\* A run that was not stopped and got its list has dealt with every
\* installation it wrote itself and every one known before it asked, whoever
\* wrote it: no answer of an earlier run's read reaches it
\* (slim-source-coordinator.ts:174-247 with slim-runtime.ts:81-92).
RunExaminesItsFinds ==
    runPc = "end" /\ ~aborted /\ call # "failed" => found \subseteq visited

\* Every accepted rescan is answered, and dispose() returns, whenever the one
\* meets the other (slim-source-coordinator.ts:79-117, 292-301).
EveryCallReturns ==
    /\ \A r \in Rescan : rescan[r] = "queued" ~> rescan[r] \in {"done", "refused"}
    /\ disposing = "waiting" ~> disposing = "done"
=============================================================================
