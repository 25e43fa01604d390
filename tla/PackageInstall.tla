--------------------------- MODULE PackageInstall ---------------------------
(***************************************************************************)
(* IntegrationPackageService for one official integration                  *)
(* (packages/integration-packages/src/service.ts): the bundled release,    *)
(* the install root on disk and the per-integration operation queue.  A    *)
(* daemon may die between any two file operations, files may be damaged    *)
(* or fail to be read, and another daemon starting on the same install     *)
(* root empties .staging.  A version stands for its number and the hash of *)
(* its manifest.                                                           *)
(***************************************************************************)
EXTENDS Naturals, Sequences, FiniteSets

CONSTANTS
    Version,     \* versions that were ever bundled
    None,
    ApiOf,       \* the plugin API each version was built for
    Release,     \* daemon releases: the version bundled and the API offered
    MaxOps,      \* bound on operations
    MaxHistory   \* MAX_OPERATIONS

ASSUME ConstantsOK ==
    /\ None \notin Version
    /\ DOMAIN ApiOf = Version
    /\ \A r \in Release : r.bundle \in Version \cup {None}
    /\ MaxOps \in Nat /\ MaxHistory \in Nat

VARIABLES
    \* the install root
    files,       \* versions/<v>: absent, damaged or whole
    pointer,     \* the version current.json names
    staging,     \* what the running install has put in its staging directory
    touched,     \* history: versions damaged or misread since placed whole
    \* the daemon
    up, release,
    bundled,     \* this.bundled
    state,       \* this.states
    op,          \* every operation ever requested
    listed,      \* operationOrder: ids still in the history
    cur, pc      \* the running operation and its next step

diskVars == <<files, pointer, staging, touched>>
opVars == <<op, listed, cur, pc>>
vars == <<diskVars, up, release, bundled, state, opVars>>

Parts == {"manifest", "files"}
Absent == [installed |-> FALSE, version |-> None, sound |-> FALSE]
Found(v, sound) == [installed |-> TRUE, version |-> v, sound |-> sound]
Live == {"queued", "running"}

Init ==
    /\ files = [v \in Version |-> "none"] /\ pointer = None
    /\ staging = {} /\ touched = {}
    /\ up = FALSE /\ release \in Release /\ bundled = None /\ state = Absent
    /\ op = <<>> /\ listed = {} /\ cur = 0 /\ pc = "idle"

-----------------------------------------------------------------------------
(* The daemon and its environment.                                         *)

\* verifyInstalledPackage: whole files pass unless reading them fails.
Verdict(v, verified) ==
    \/ verified = (files[v] = "good") /\ UNCHANGED touched
    \/ files[v] = "good" /\ verified = FALSE /\ touched' = touched \cup {v}

\* A daemon of some release starts: initialize() empties the transient
\* directories, loads the bundled catalog, if it can, and reconciles.
Start(r) ==
    /\ ~up /\ up' = TRUE /\ release' = r
    /\ bundled' \in {r.bundle, None}
    /\ IF pointer = None
       THEN state' = Absent /\ UNCHANGED touched
       ELSE \E verified \in BOOLEAN :
              /\ Verdict(pointer, verified)
              /\ state' = Found(pointer, verified /\ ApiOf[pointer] = r.api)
    /\ UNCHANGED <<files, pointer, staging, opVars>>

\* The daemon dies; what was queued or running is never answered.
Crash ==
    /\ up /\ up' = FALSE
    /\ op' = [i \in DOMAIN op |-> IF op[i].status \in Live
                THEN [op[i] EXCEPT !.status = "lost"] ELSE op[i]]
    /\ listed' = {} /\ cur' = 0 /\ pc' = "idle"
    /\ staging' = {} /\ state' = Absent /\ bundled' = None
    /\ UNCHANGED <<files, pointer, touched, release>>

Damage(v) ==
    /\ files[v] = "good"
    /\ files' = [files EXCEPT ![v] = "bad"] /\ touched' = touched \cup {v}
    /\ UNCHANGED <<pointer, staging, up, release, bundled, state, opVars>>

\* Another daemon initializes on this install root before it finds the port
\* taken (slim-main.ts:153): the staging directory in use goes too.
OtherDaemonCleans ==
    /\ staging # {} /\ staging' = {}
    /\ UNCHANGED <<files, pointer, touched, up, release, bundled, state, opVars>>

-----------------------------------------------------------------------------
(* The operation queue and history.                                        *)

\* The oldest finished operations leave while the history is over its limit.
Prune(ids, ops) ==
    LET ended == {i \in ids : ops[i].status \notin Live}
    IN {i \in ids : i \in ended =>
          Cardinality({j \in ended : j <= i}) + MaxHistory > Cardinality(ids)}

\* install(), update() or remove() is called.
Enqueue(k) ==
    LET i == Len(op) + 1
        added == Append(op, [kind |-> k, status |-> "queued"])
    IN /\ up /\ Len(op) < MaxOps
       /\ op' = added
       /\ listed' = Prune(listed \cup {i}, added)
       /\ UNCHANGED <<diskVars, up, release, bundled, state, cur, pc>>

Mine == op[cur].kind
Settle(status) ==
    LET settled == [op EXCEPT ![cur].status = status]
    IN /\ op' = settled /\ listed' = Prune(listed, settled)
       /\ cur' = 0 /\ pc' = "idle"
Goto(step) == pc' = step /\ UNCHANGED <<op, listed, cur>>
At(step) == up /\ pc = step

FirstUnlessFailed(i) ==
    /\ op[i].status = "queued"
    /\ \A j \in 1..(i - 1) : op[j].status \in {"completed", "lost"}
\* Operations of one integration run one at a time, in order, whatever
\* became of the ones before.
First(i) ==
    /\ op[i].status = "queued"
    /\ \A j \in 1..(i - 1) : op[j].status \notin Live

\* The operation starts and decides from the cached state.
Begin(i) ==
    /\ up /\ cur = 0 /\ First(i)
    /\ LET k == op[i].kind
           done == [op EXCEPT ![i].status =
                      IF k = "update" THEN "failed" ELSE "completed"]
           nothingToDo == IF k = "install" THEN state.installed /\ state.sound
                                           ELSE ~state.installed
       IN IF nothingToDo
          THEN /\ op' = done /\ listed' = Prune(listed, done)
               /\ cur' = 0 /\ pc' = "idle"
          ELSE /\ op' = [op EXCEPT ![i].status = "running"]
               /\ cur' = i /\ pc' = IF k = "remove" THEN "guard" ELSE "bundle"
               /\ UNCHANGED listed
    /\ UNCHANGED <<diskVars, up, release, bundled, state>>

\* Any file operation of a running operation may fail.
Fail ==
    /\ up /\ cur # 0 /\ pc # "forget"
    /\ staging' = {} /\ Settle("failed")
    /\ UNCHANGED <<files, pointer, touched, up, release, bundled, state>>

-----------------------------------------------------------------------------
(* install and update: installAvailable.                                   *)

\* The bundle is the cached one, or the catalog is loaded again; an update
\* may find nothing to do, an incompatible bundle is refused.
Bundle ==
    /\ At("bundle")
    /\ bundled' \in IF bundled # None THEN {bundled} ELSE {release.bundle, None}
    /\ LET current == state.version = bundled' /\ state.sound
       IN IF bundled' = None THEN Settle("failed")
          ELSE IF Mine = "update" /\ current THEN Settle("completed")
          ELSE IF ApiOf[bundled'] # release.api THEN Settle("failed")
          ELSE Goto("stage")
    /\ UNCHANGED <<diskVars, up, release, state>>

Stage ==
    /\ At("stage") /\ staging' = {"manifest"} /\ Goto("copy")
    /\ UNCHANGED <<files, pointer, touched, up, release, bundled, state>>

\* Each file's directory is created again if it is gone.
Copy ==
    /\ At("copy") /\ staging' = staging \cup {"files"} /\ Goto("verify")
    /\ UNCHANGED <<files, pointer, touched, up, release, bundled, state>>

\* Only the files the manifest lists are verified, not the manifest itself.
Verify ==
    /\ At("verify") /\ "files" \in staging /\ Goto("aside")
    /\ UNCHANGED <<diskVars, up, release, bundled, state>>

MoveAllAside ==
    /\ At("aside") /\ Goto("put")
    /\ files' = [v \in Version |-> "none"] /\ pointer' = None
    /\ UNCHANGED <<staging, touched, up, release, bundled, state>>

\* A directory of that version that does not verify goes to the trash.
MoveAside ==
    /\ At("aside") /\ Goto("put")
    /\ IF files[bundled] = "none"
       THEN UNCHANGED <<files, touched>>
       ELSE \E verified \in BOOLEAN :
              /\ Verdict(bundled, verified)
              /\ files' = IF verified THEN files
                          ELSE [files EXCEPT ![bundled] = "none"]
    /\ UNCHANGED <<pointer, staging, up, release, bundled, state>>

Put ==
    /\ At("put") /\ Goto("check") /\ staging' = {}
    /\ IF files[bundled] = "none"
       THEN /\ staging # {}
            /\ IF staging = Parts
               THEN /\ files' = [files EXCEPT ![bundled] = "good"]
                    /\ touched' = touched \ {bundled}
               ELSE /\ files' = [files EXCEPT ![bundled] = "bad"]
                    /\ UNCHANGED touched
       ELSE UNCHANGED <<files, touched>>
    /\ UNCHANGED <<pointer, up, release, bundled, state>>

CheckNothing ==
    /\ At("check") /\ Goto("point")
    /\ UNCHANGED <<diskVars, up, release, bundled, state>>
\* What stands in versions/<v> is verified before current.json names it.
Check ==
    /\ At("check") /\ files[bundled] = "good" /\ Goto("point")
    /\ UNCHANGED <<diskVars, up, release, bundled, state>>

Point ==
    /\ At("point") /\ Settle("completed")
    /\ pointer' = bundled /\ state' = Found(bundled, TRUE)
    /\ UNCHANGED <<files, staging, touched, up, release, bundled>>

-----------------------------------------------------------------------------
(* remove.                                                                 *)

\* canRemove: an integration whose source is enabled stays.
Guard ==
    /\ At("guard") /\ (Goto("unlink") \/ Settle("failed"))
    /\ UNCHANGED <<diskVars, up, release, bundled, state>>

\* The whole root of the integration is renamed into the trash.
Unlink ==
    /\ At("unlink") /\ Goto("forget")
    /\ files' = [v \in Version |-> "none"] /\ pointer' = None /\ touched' = {}
    /\ UNCHANGED <<staging, up, release, bundled, state>>

ForgetNothing ==
    /\ At("forget") /\ Settle("completed")
    /\ UNCHANGED <<diskVars, up, release, bundled, state>>
Forget ==
    /\ At("forget") /\ state' = Absent /\ Settle("completed")
    /\ UNCHANGED <<diskVars, up, release, bundled>>

-----------------------------------------------------------------------------
Work ==
    \/ \E i \in DOMAIN op : Begin(i)
    \/ Fail \/ Bundle \/ Stage \/ Copy \/ Verify \/ MoveAside \/ Put \/ Check
    \/ Point \/ Guard \/ Unlink \/ Forget

Next ==
    \/ Work \/ Crash \/ OtherDaemonCleans
    \/ \E r \in Release : Start(r)
    \/ \E v \in Version : Damage(v)
    \/ \E k \in {"install", "update", "remove"} : Enqueue(k)

\* File operations end, in success or in error, and a queued promise runs.
Fairness == WF_vars(Work)
Spec == Init /\ [][Next]_vars
FairSpec == Spec /\ Fairness

-----------------------------------------------------------------------------
TypeOK ==
    /\ files \in [Version -> {"none", "bad", "good"}]
    /\ pointer \in Version \cup {None}
    /\ staging \subseteq Parts /\ touched \subseteq Version
    /\ up \in BOOLEAN /\ release \in Release
    /\ bundled \in Version \cup {None}
    /\ state \in [installed : BOOLEAN, version : Version \cup {None},
                  sound : BOOLEAN]
    /\ op \in Seq([kind : {"install", "update", "remove"},
                   status : Live \cup {"completed", "failed", "lost"}])
    /\ listed \subseteq DOMAIN op /\ cur \in {0} \cup DOMAIN op
    /\ pc \in {"idle", "bundle", "stage", "copy", "verify", "aside", "put",
              "check", "point", "guard", "unlink", "forget"}

\* Whatever step the daemon died in, and whoever emptied its staging
\* directory, current.json names a whole version unless that version was
\* damaged or misread behind the installer's back (service.ts:535-571).
PointerIsWhole ==
    pointer # None => files[pointer] = "good" \/ pointer \in touched

\* The version the running daemon would load from its cached state is the one
\* current.json names, except between the removal's rename and its bookkeeping:
\* a start, an installation and a removal each keep the two in step
\* (service.ts:430-438, 495-506, 571).
CacheIsTrue ==
    state.sound /\ pc # "forget" => pointer # None /\ pointer = state.version

\* Every requested operation ends, unless its daemon dies first.
OperationsSettle ==
    \A i \in 1..MaxOps :
        (i \in DOMAIN op /\ op[i].status \in Live)
            ~> (i \in DOMAIN op /\ op[i].status \notin Live)

\* The version that can be loaded, and the operation in progress.
Usable == IF pointer # None /\ files[pointer] = "good" THEN pointer ELSE None
Doing == IF cur = 0 THEN "idle" ELSE Mine
Promise == INSTANCE AtomicInstall WITH usable <- Usable, doing <- Doing

\* An update or repair never passes through a state with nothing usable.
InstallsAtomically == Promise!Spec
=============================================================================
