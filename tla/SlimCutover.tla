---------------------------- MODULE SlimCutover ----------------------------
(***************************************************************************)
(* The one-time move from the v38 database to the slim one, and how every  *)
(* daemon finds its database: scripts/slim-migrate-once.ts,                *)
(* slim-prepare-cutover.ts, slim-cutover-gate.ts, slim-legacy-writer-      *)
(* freeze.ts, slim-cutover-activation.ts and apps/daemon/src/              *)
(* default-slim-db.ts.  Several migrations, a rollback and several daemons *)
(* may run at once, and each may die between any two steps; an old daemon  *)
(* may still write, on the probed port or on another one.                  *)
(***************************************************************************)
EXTENDS Naturals, FiniteSets

CONSTANTS
    Mig,        \* migrations, each with its own backup and staging paths
    Daemon,     \* daemons of this release that start
    MaxWrites,  \* bound on the writes of the old daemon
    None

Pointer == [mode : {"slim", "legacy"}, slim : Mig]

ASSUME ConstantsOK ==
    /\ MaxWrites \in Nat
    /\ None \notin Mig \cup Pointer \cup 0..MaxWrites \cup {"own", "installed"}

VARIABLES
    own,        \* the file at the default path: absent, empty, slim, v38
    rows,       \* writes in the v38 database
    backup,     \* what each migration's backup and staging hold of them
    staged,
    installed,  \* the migration whose staging file is linked into place
    pointer,    \* active-database.json: its mode and slim database, or None
    lock,       \* who holds the v38 write lock
    old,        \* the old daemon: off, listening on the port, hidden elsewhere
    mig,        \* the step of each migration
    rollback,   \* the step of the rollback command
    daemon,     \* the step of each daemon, and the database it resolved
    db,
    stranded    \* history: a migration died, or its clean-up failed, between
                \* the link and the pointer

files == <<own, rows, backup, staged, installed, pointer>>
actors == <<old, mig, rollback, daemon, db>>
vars == <<files, lock, actors, stranded>>

PortTaken == old = "listening" \/ \E d \in Daemon : daemon[d] = "listening"
Active(m) == [mode |-> "slim", slim |-> m]

Init ==
    /\ own \in {"absent", "v38"} /\ rows = 0
    /\ backup = [m \in Mig |-> None] /\ staged = [m \in Mig |-> None]
    /\ installed = None /\ pointer = None /\ lock = None
    /\ old = "off" /\ mig = [m \in Mig |-> "idle"] /\ rollback = "idle"
    /\ daemon = [d \in Daemon |-> "idle"] /\ db = [d \in Daemon |-> None]
    /\ stranded = FALSE

-----------------------------------------------------------------------------
(* The old daemon, and deaths.                                             *)

OldStarts ==
    /\ old = "off" /\ own = "v38"
    /\ \/ old' = "listening" /\ ~PortTaken
       \/ old' = "hidden"
    /\ UNCHANGED <<files, lock, mig, rollback, daemon, db, stranded>>

OldStops ==
    /\ old # "off" /\ old' = "off"
    /\ UNCHANGED <<files, lock, mig, rollback, daemon, db, stranded>>

OldWrites ==
    /\ old # "off" /\ lock = None /\ rows < MaxWrites /\ rows' = rows + 1
    /\ UNCHANGED <<own, backup, staged, installed, pointer, lock, actors, stranded>>

\* A migration dies; SQLite drops its lock with the process.
MigDies(m) ==
    /\ mig[m] \notin {"idle", "done", "dead"}
    /\ mig' = [mig EXCEPT ![m] = "dead"]
    /\ lock' = IF lock = m THEN None ELSE lock
    /\ stranded' = (stranded \/ mig[m] = "publish")
    /\ UNCHANGED <<files, old, rollback, daemon, db>>

DaemonDies(d) ==
    /\ daemon[d] # "idle"
    /\ daemon' = [daemon EXCEPT ![d] = "idle"] /\ db' = [db EXCEPT ![d] = None]
    /\ UNCHANGED <<files, lock, old, mig, rollback, stranded>>

-----------------------------------------------------------------------------
(* runSlimMigrateOnce.                                                     *)

Step(m, from, to) == mig[m] = from /\ mig' = [mig EXCEPT ![m] = to]
MigFrame == UNCHANGED <<old, rollback, daemon, db>>

\* Any check or file operation may fail; the freeze is always undone.
MigFails(m) ==
    /\ mig[m] \notin {"idle", "publish", "done", "dead"}
    /\ mig' = [mig EXCEPT ![m] = "dead"]
    /\ lock' = IF lock = m THEN None ELSE lock
    /\ MigFrame /\ UNCHANGED <<files, stranded>>

\* Nothing may be installed or activated yet.
Refuse(m) ==
    /\ Step(m, "idle", "probe")
    /\ own # "absent" /\ installed = None /\ pointer = None
    /\ MigFrame /\ UNCHANGED <<files, lock, stranded>>

\* assertNoDaemonListening, before preparing, finalizing, and twice inside
\* the freeze.
Probe(m) ==
    /\ ~PortTaken
    /\ \/ Step(m, "probe", "backup") \/ Step(m, "probe2", "freeze")
       \/ Step(m, "probe3", "audit") \/ Step(m, "probe4", "verify")
    /\ MigFrame /\ UNCHANGED <<files, lock, stranded>>

\* stageSlimCutover: a consistent backup first, the staging copy from it.
Backup(m) ==
    /\ own = "v38" /\ Step(m, "backup", "stage")
    /\ backup' = [backup EXCEPT ![m] = rows]
    /\ MigFrame /\ UNCHANGED <<own, rows, staged, installed, pointer, lock, stranded>>

Stage(m) ==
    /\ Step(m, "stage", "rehearse")
    /\ staged' = [staged EXCEPT ![m] = backup[m]]
    /\ MigFrame /\ UNCHANGED <<own, rows, backup, installed, pointer, lock, stranded>>

\* auditSlimCutoverFreshness: nothing was written since the backup.
Fresh(m) == backup[m] = rows

\* The gate without the freeze: only the finalizer's proofs may be missing.
Rehearse(m) ==
    /\ Fresh(m) /\ Step(m, "rehearse", "probe2")
    /\ MigFrame /\ UNCHANGED <<files, lock, stranded>>

FreezeNothing(m) ==
    /\ Step(m, "freeze", "probe3")
    /\ MigFrame /\ UNCHANGED <<files, lock, stranded>>
\* withFrozenLegacyWriter: BEGIN IMMEDIATE without waiting.
Freeze(m) ==
    /\ lock = None /\ own = "v38" /\ lock' = m /\ Step(m, "freeze", "probe3")
    /\ MigFrame /\ UNCHANGED <<files, stranded>>

\* The whole gate again, inside the freeze.
Audit(m) ==
    /\ Fresh(m) /\ Step(m, "audit", "probe4")
    /\ MigFrame /\ UNCHANGED <<files, lock, stranded>>

\* activateSlimCutover: fresh once more, nothing installed or active.
Verify(m) ==
    /\ Fresh(m) /\ installed = None /\ pointer = None
    /\ Step(m, "verify", "link")
    /\ MigFrame /\ UNCHANGED <<files, lock, stranded>>

PointerBeforeLink(m) ==
    /\ pointer' = Active(m) /\ Step(m, "link", "publish")
    /\ MigFrame /\ UNCHANGED <<own, rows, backup, staged, installed, lock, stranded>>
\* A hard link, exclusive.
Link(m) ==
    /\ installed = None /\ installed' = m /\ Step(m, "link", "publish")
    /\ MigFrame /\ UNCHANGED <<own, rows, backup, staged, pointer, lock, stranded>>

Publish(m) ==
    /\ Step(m, "publish", "done") /\ pointer' = Active(m)
    /\ lock' = IF lock = m THEN None ELSE lock
    /\ MigFrame /\ UNCHANGED <<own, rows, backup, staged, installed, stranded>>

PublishFailsDirty(m) ==
    /\ Step(m, "publish", "dead") /\ lock' = IF lock = m THEN None ELSE lock
    /\ MigFrame /\ UNCHANGED <<files, stranded>>
\* The pointer could not be written: the link is taken back if it is still
\* our own staging file, or that fails as well.
PublishFails(m) ==
    /\ Step(m, "publish", "dead") /\ lock' = IF lock = m THEN None ELSE lock
    /\ \/ /\ installed' = IF installed = m THEN None ELSE installed
          /\ UNCHANGED stranded
       \/ stranded' = TRUE /\ UNCHANGED installed
    /\ MigFrame /\ UNCHANGED <<own, rows, backup, staged, pointer>>

-----------------------------------------------------------------------------
(* rollbackSlimCutover: probe, read and verify, probe again, write.        *)

RollbackStep(from, to) == rollback = from /\ rollback' = to
RollbackFrame == UNCHANGED <<own, rows, backup, staged, installed, lock, old,
                             mig, daemon, db, stranded>>

RollbackProbe ==
    /\ ~PortTaken
    /\ RollbackStep("idle", "read") \/ RollbackStep("probe", "write")
    /\ RollbackFrame /\ UNCHANGED pointer

RollbackRead ==
    /\ pointer # None /\ pointer.mode = "slim" /\ RollbackStep("read", "probe")
    /\ RollbackFrame /\ UNCHANGED pointer

RollbackWrite ==
    /\ RollbackStep("write", "idle") /\ pointer' = [pointer EXCEPT !.mode = "legacy"]
    /\ RollbackFrame

RollbackFails ==
    /\ rollback # "idle" /\ rollback' = "idle"
    /\ RollbackFrame /\ UNCHANGED pointer

-----------------------------------------------------------------------------
(* resolveDefaultSlimDb, then the port.                                    *)

Move(d, from, to) == daemon[d] = from /\ daemon' = [daemon EXCEPT ![d] = to]
DaemonFrame == UNCHANGED <<rows, backup, staged, installed, pointer, lock, old,
                           mig, rollback, stranded>>
Resolved(d, path) == db' = [db EXCEPT ![d] = path]

AnyFile(path) == IF path = "own" THEN own # "absent" ELSE installed # None
\* Whether the SQLite file at a path passes the slim schema and health check.
Healthy(path) ==
    IF path = "own" THEN own = "slim"
                    ELSE installed # None /\ staged[installed] # None

\* An activated pointer decides alone, a rolled-back one refuses.
ReadPointer(d) ==
    /\ \/ /\ pointer = None
          /\ Move(d, "idle", "look") /\ UNCHANGED db
       \/ /\ pointer # None /\ pointer.mode = "slim" /\ Healthy("installed")
          /\ Move(d, "idle", "resolved") /\ Resolved(d, "installed")
    /\ DaemonFrame /\ UNCHANGED own

\* An existing file must be slim already; else the daemon refuses to start.
OpenOwn(d) ==
    /\ own # "absent" /\ Healthy("own")
    /\ Move(d, "look", "resolved") \/ Move(d, "create", "resolved")
    /\ Resolved(d, "own")
    /\ DaemonFrame /\ UNCHANGED own

FindNothing(d) ==
    /\ own = "absent" /\ Move(d, "look", "create")
    /\ DaemonFrame /\ UNCHANGED <<own, db>>

\* createFresh: exclusive creation, then the schema in one transaction.
Reserve(d) ==
    /\ own = "absent" /\ own' = "empty" /\ Move(d, "create", "schema")
    /\ DaemonFrame /\ UNCHANGED db

Schema(d) ==
    /\ Move(d, "schema", "resolved") /\ own' = "slim" /\ Resolved(d, "own")
    /\ DaemonFrame

Listen(d) ==
    /\ ~PortTaken /\ Move(d, "resolved", "listening")
    /\ DaemonFrame /\ UNCHANGED <<own, db>>

-----------------------------------------------------------------------------
Next ==
    \/ OldStarts \/ OldStops \/ OldWrites
    \/ \E m \in Mig :
         \/ MigDies(m) \/ MigFails(m) \/ Refuse(m) \/ Probe(m) \/ Backup(m)
         \/ Stage(m) \/ Rehearse(m) \/ Freeze(m) \/ Audit(m) \/ Verify(m)
         \/ Link(m) \/ Publish(m) \/ PublishFails(m)
    \/ RollbackProbe \/ RollbackRead \/ RollbackWrite \/ RollbackFails
    \/ \E d \in Daemon :
         \/ DaemonDies(d) \/ ReadPointer(d) \/ OpenOwn(d) \/ FindNothing(d)
         \/ Reserve(d) \/ Schema(d) \/ Listen(d)

Spec == Init /\ [][Next]_vars

-----------------------------------------------------------------------------
TypeOK ==
    /\ own \in {"absent", "empty", "slim", "v38"} /\ rows \in 0..MaxWrites
    /\ backup \in [Mig -> (0..MaxWrites) \cup {None}]
    /\ staged \in [Mig -> (0..MaxWrites) \cup {None}]
    /\ installed \in Mig \cup {None} /\ lock \in Mig \cup {None}
    /\ pointer \in Pointer \cup {None} /\ stranded \in BOOLEAN
    /\ old \in {"off", "listening", "hidden"}
    /\ mig \in [Mig -> {"idle", "probe", "backup", "stage", "rehearse", "probe2",
                       "freeze", "probe3", "audit", "probe4", "verify", "link",
                       "publish", "done", "dead"}]
    /\ rollback \in {"idle", "read", "probe", "write"}
    /\ daemon \in [Daemon -> {"idle", "look", "create", "schema", "resolved",
                             "listening"}]
    /\ db \in [Daemon -> {"own", "installed", None}]

\* What a migration activates holds every row the old database had at that
\* moment, though the old daemon may have written all through its
\* preparation (slim-cutover-activation.ts:113-131).
ActivatesEverything ==
    [][pointer' # pointer /\ pointer'.mode = "slim" =>
          staged[pointer'.slim] = rows]_vars

\* The active database is the installed one and never changes again except
\* by being rolled back: two migrations cannot both activate, and none
\* overwrites what another one linked (slim-cutover-activation.ts:133-138).
PointerNamesInstalled ==
    /\ pointer # None => installed = pointer.slim /\ staged[installed] # None
    /\ \A m \in Mig : mig[m] = "done" => pointer # None /\ pointer.slim = m

\* A migration that failed leaves the way free for the next one, unless its
\* process died, or its clean-up failed, between link and pointer
\* (slim-cutover-activation.ts:147-160).
RetryPossible ==
    installed # None /\ pointer = None =>
        stranded \/ \E m \in Mig : mig[m] = "publish"

\* A daemon never serves a database without the complete slim schema, though
\* daemons race to create it and may die half way (default-slim-db.ts:40-60).
DaemonsOpenWhole ==
    \A d \in Daemon : db[d] # None =>
        IF db[d] = "own" THEN own = "slim"
                         ELSE installed # None /\ staged[installed] # None
=============================================================================
