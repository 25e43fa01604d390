---------------------------- MODULE LocalBackup ----------------------------
(***************************************************************************)
(* LocalBackupService (packages/backup-local/src/service.ts): the file     *)
(* index kept in memory and in inventory-v1.json, snapshots that copy      *)
(* source files into content-addressed blobs.                              *)
(* Agents keep writing the source files.  Every write gives a file new     *)
(* size/mtime/ctime metadata, here a version number; two versions may have *)
(* the same content.  The index object is mutable and shared by reference, *)
(* so objects are numbered and memory names the current one.               *)
(***************************************************************************)
EXTENDS Naturals, Sequences, FiniteSets

CONSTANTS
    File,         \* source files, each of a source of its own
    Snap,         \* createSnapshot calls that may overlap
    ContentOf,    \* the content of each version of a file
    MaxVersion,   \* bound on the versions of a file
    MaxObjects,   \* bound on index objects of one daemon
    Unknown       \* no hash, not indexed

ASSUME BackupConstantsOK ==
    /\ MaxVersion \in Nat /\ MaxObjects \in Nat \ {0}
    /\ DOMAIN ContentOf = 0..MaxVersion
    /\ \A v \in 0..MaxVersion : ContentOf[v] # Unknown

Content == {ContentOf[v] : v \in 0..MaxVersion}

VARIABLES
    version,   \* what is in the source files
    blobs,     \* content store: absent, partly written, whole
    stored,    \* inventory-v1.json
    index,     \* index objects: per file its metadata and hash
    memory,    \* this.inventory, 0 before it is loaded
    load,      \* the object read from inventory-v1.json, not yet adopted, or 0
    scan,      \* the rebuild in flight: phase, scope, planned object
    snap,      \* the snapshot calls
    listed     \* entries of the snapshots renamed into place

backupVars == <<version, blobs, stored, index, memory, load, scan, snap, listed>>

Entry == [meta : (0..MaxVersion) \cup {Unknown}, sha : Content \cup {Unknown}]
NoEntry == [meta |-> Unknown, sha |-> Unknown]
NoUpdates == [f \in File |-> NoEntry]
IdleScan == [pc |-> "idle", scope |-> {}, obj |-> 0]
IdleSnap == [pc |-> "idle", obj |-> 0, todo |-> {}, file |-> Unknown,
             meta |-> 0, sha |-> Unknown, since |-> [f \in File |-> 0],
             entries |-> {}, updates |-> NoUpdates]
Objects == DOMAIN index

BackupInit ==
    /\ version = [f \in File |-> 0]
    /\ blobs = [c \in Content |-> "none"]
    /\ stored = Unknown /\ index = <<>> /\ memory = 0 /\ load = 0
    /\ scan = IdleScan /\ snap = [s \in Snap |-> IdleSnap] /\ listed = {}

-----------------------------------------------------------------------------
\* An agent writes its file.
Write(f) ==
    /\ version[f] < MaxVersion
    /\ version' = [version EXCEPT ![f] = @ + 1]
    /\ UNCHANGED <<blobs, stored, index, memory, load, scan, snap, listed>>

\* The daemon dies; a blob being written stays as it is, and the staging
\* directory of a snapshot is never listed.
Crash ==
    /\ index # <<>>
    /\ index' = <<>> /\ memory' = 0 /\ load' = 0
    /\ scan' = IdleScan /\ snap' = [s \in Snap |-> IdleSnap]
    /\ UNCHANGED <<version, blobs, stored, listed>>

\* ensureInventory, peekOverview, a partial refresh: without an index in memory
\* the stored one is read ...
LoadIndex ==
    /\ memory = 0 /\ load = 0 /\ stored # Unknown /\ Len(index) < MaxObjects
    /\ index' = Append(index, stored) /\ load' = Len(index) + 1
    /\ UNCHANGED <<version, blobs, stored, memory, scan, snap, listed>>

\* ... and adopted, though a refresh may have adopted a newer one meanwhile.
AdoptLoad ==
    /\ load # 0 /\ memory' = load /\ load' = 0
    /\ UNCHANGED <<version, blobs, stored, index, scan, snap, listed>>

-----------------------------------------------------------------------------
(* rebuildInventory: one in flight; later callers join it.                 *)

CarryHash(old, meta) ==
    [meta |-> meta, sha |-> IF old.meta # Unknown THEN old.sha ELSE Unknown]
\* A known hash survives if the file's metadata did not change.
Reindexed(old, meta) ==
    [meta |-> meta, sha |-> IF old.meta = meta THEN old.sha ELSE Unknown]

Current == IF memory = 0 THEN NoUpdates ELSE index[memory]

\* The plan has read the metadata of the files in scope.
Plan(scope) ==
    /\ scan.pc = "idle" /\ Len(index) < MaxObjects
    /\ scope # File => memory # 0 \/ stored = Unknown
    /\ scan' = [pc |-> "planned", scope |-> scope, obj |-> Len(index) + 1]
    /\ index' = Append(index, [f \in File |->
                  IF f \in scope THEN [meta |-> version[f], sha |-> Unknown]
                                 ELSE NoEntry])
    /\ UNCHANGED <<version, blobs, stored, memory, load, snap, listed>>

\* inventoryFromPlan: hashes and the slices of the other sources come from
\* the index that is current now; the new object is then written.
Merge ==
    /\ scan.pc = "planned"
    /\ scan' = [scan EXCEPT !.pc = "merged"]
    /\ index' = [index EXCEPT ![scan.obj] = [f \in File |->
                   IF f \in scan.scope
                   THEN Reindexed(Current[f], index[scan.obj][f].meta)
                   ELSE Current[f]]]
    /\ UNCHANGED <<version, blobs, stored, memory, load, snap, listed>>

StoreScan ==
    /\ scan.pc = "merged"
    /\ stored' = index[scan.obj] /\ scan' = [scan EXCEPT !.pc = "stored"]
    /\ UNCHANGED <<version, blobs, index, memory, load, snap, listed>>

AdoptScan ==
    /\ scan.pc = "stored"
    /\ memory' = scan.obj /\ scan' = IdleScan
    /\ UNCHANGED <<version, blobs, stored, index, load, snap, listed>>

\* Planning or writing failed; the index stays what it was.
ScanFails ==
    /\ scan.pc \in {"planned", "merged"} /\ scan' = IdleScan
    /\ UNCHANGED <<version, blobs, stored, index, memory, load, snap, listed>>

-----------------------------------------------------------------------------
(* createSnapshot.                                                         *)

Become(s, r) == snap' = [snap EXCEPT ![s] = r]
SnapFrame == UNCHANGED <<version, scan, memory, load>>

\* The candidates are the entries of the index object current at the start.
Begin(s) ==
    /\ snap[s].pc = "idle" /\ memory # 0
    /\ \E f \in File : index[memory][f] # NoEntry
    /\ Become(s, [IdleSnap EXCEPT !.pc = "next", !.obj = memory,
                    !.todo = {f \in File : index[memory][f] # NoEntry},
                    !.since = version])
    /\ SnapFrame /\ UNCHANGED <<blobs, stored, index, listed>>

Reusable(c) == c # Unknown /\ blobs[c] = "whole"
\* History: whether the file has held that content during the snapshot.
Held(s, f, c) == \E v \in snap[s].since[f]..version[f] : ContentOf[v] = c
Added(s, f, c) ==
    [snap[s] EXCEPT !.pc = "next", !.todo = @ \ {f},
       !.file = Unknown, !.meta = 0, !.sha = Unknown,
       !.entries = @ \cup {[content |-> c, held |-> Held(s, f, c)]}]

\* A file whose metadata is the indexed one and whose blob has the right
\* size is not read again.
Reuse(entry, meta) == entry.meta = meta /\ Reusable(entry.sha)

\* lstat of the next candidate, then the decision to read it.
Look(s) ==
    /\ snap[s].pc = "next"
    /\ \E f \in snap[s].todo :
         LET entry == index[snap[s].obj][f]
         IN Become(s, IF Reuse(entry, version[f]) THEN Added(s, f, entry.sha)
                      ELSE [snap[s] EXCEPT !.pc = "read", !.file = f,
                              !.meta = version[f]])
    /\ SnapFrame /\ UNCHANGED <<blobs, stored, index, listed>>

\* The file is read, or it is left out as unreadable or sensitive.
Read(s) ==
    /\ snap[s].pc = "read"
    /\ \/ Become(s, [snap[s] EXCEPT !.pc = "store",
                       !.sha = ContentOf[version[snap[s].file]]])
       \/ Become(s, [snap[s] EXCEPT !.pc = "next", !.todo = @ \ {snap[s].file}])
    /\ SnapFrame /\ UNCHANGED <<blobs, stored, index, listed>>

\* The blob is in the store: the entry, and the hash learnt for the metadata
\* the file had before it was read.
Kept(s) ==
    LET f == snap[s].file
    IN [Added(s, f, snap[s].sha) EXCEPT
          !.updates[f] = [meta |-> snap[s].meta, sha |-> snap[s].sha]]

\* storeBlob: exclusive creation, a whole blob of that hash is reused.
CreateBlob(s) ==
    /\ snap[s].pc = "store" /\ blobs[snap[s].sha] = "none"
    /\ blobs' = [blobs EXCEPT ![snap[s].sha] = "partial"]
    /\ Become(s, [snap[s] EXCEPT !.pc = "fill"])
    /\ SnapFrame /\ UNCHANGED <<stored, index, listed>>

FillBlob(s) ==
    /\ snap[s].pc = "fill"
    /\ blobs' = [blobs EXCEPT ![snap[s].sha] = "whole"]
    /\ Become(s, Kept(s))
    /\ SnapFrame /\ UNCHANGED <<stored, index, listed>>

FindBlobUnread(s) ==
    /\ snap[s].pc = "store" /\ blobs[snap[s].sha] # "none"
    /\ Become(s, Kept(s))
    /\ SnapFrame /\ UNCHANGED <<blobs, stored, index, listed>>
\* What stands there already is read and hashed again.
FindBlob(s) ==
    /\ snap[s].pc = "store" /\ blobs[snap[s].sha] = "whole"
    /\ Become(s, Kept(s))
    /\ SnapFrame /\ UNCHANGED <<blobs, stored, index, listed>>

\* A partial blob, of an overlapping call or of a daemon that died, fails
\* the whole snapshot; it is never repaired here.
MeetPartialBlob(s) ==
    /\ snap[s].pc = "store" /\ blobs[snap[s].sha] = "partial"
    /\ Become(s, IdleSnap)
    /\ SnapFrame /\ UNCHANGED <<blobs, stored, index, listed>>

\* The manifest is written to the staging directory, which is renamed.
Seal(s) ==
    /\ snap[s].pc = "next" /\ snap[s].todo = {}
    /\ listed' = listed \cup snap[s].entries
    /\ Become(s, [IdleSnap EXCEPT !.pc = "learn", !.updates = snap[s].updates])
    /\ SnapFrame /\ UNCHANGED <<blobs, stored, index>>

\* applyHashUpdates: in place, on the index object that is current now.
Learn(s) ==
    /\ snap[s].pc = "learn"
    /\ LET old == index[memory]
           new == [f \in File |->
                     IF /\ snap[s].updates[f] # NoEntry
                        /\ snap[s].updates[f].meta = old[f].meta
                     THEN snap[s].updates[f] ELSE old[f]]
       IN /\ index' = [index EXCEPT ![memory] = new]
          /\ Become(s, IF new = old THEN IdleSnap
                       ELSE [IdleSnap EXCEPT !.pc = "save", !.obj = memory])
    /\ SnapFrame /\ UNCHANGED <<blobs, stored, listed>>

\* writeInventory of that object, whatever has become current since.
Save(s) ==
    /\ snap[s].pc = "save" /\ stored' = index[snap[s].obj]
    /\ Become(s, [snap[s] EXCEPT !.pc = "adopt"])
    /\ SnapFrame /\ UNCHANGED <<blobs, index, listed>>

Adopt(s) ==
    /\ snap[s].pc = "adopt" /\ memory' = snap[s].obj /\ Become(s, IdleSnap)
    /\ UNCHANGED <<version, scan, load, blobs, stored, index, listed>>

-----------------------------------------------------------------------------
BackupNext ==
    \/ Crash \/ LoadIndex \/ AdoptLoad \/ Merge \/ StoreScan \/ AdoptScan \/ ScanFails
    \/ \E f \in File : Write(f)
    \/ \E scope \in SUBSET File \ {{}} : Plan(scope)
    \/ \E s \in Snap : \/ Begin(s) \/ Look(s) \/ Read(s) \/ CreateBlob(s)
                       \/ FillBlob(s) \/ FindBlob(s) \/ MeetPartialBlob(s)
                       \/ Seal(s) \/ Learn(s) \/ Save(s) \/ Adopt(s)

BackupSpec == BackupInit /\ [][BackupNext]_backupVars

-----------------------------------------------------------------------------
BackupTypeOK ==
    /\ version \in [File -> 0..MaxVersion]
    /\ blobs \in [Content -> {"none", "partial", "whole"}]
    /\ {memory, load, scan.obj} \subseteq {0} \cup Objects
    /\ \A i \in Objects : index[i] \in [File -> Entry]

\* What a snapshot says it holds is what the file really contained at some
\* moment of the snapshot: a file not read again had not changed, in spite
\* of writes during the scan, the snapshot or an earlier snapshot, overlapping
\* snapshots, partial refreshes and restarts (service.ts:1008-1064).
SnapshotsAreTrue == \A e \in listed : e.held

\* Every file of a listed snapshot can be restored: its blob is whole, though
\* a daemon may have died while writing one and calls share the blobs.
SnapshotsAreWhole == \A e \in listed : blobs[e.content] = "whole"
=============================================================================
