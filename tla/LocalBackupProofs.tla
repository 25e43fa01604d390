-------------------------- MODULE LocalBackupProofs ---------------------------
(***************************************************************************)
(* For any number of files, versions, index objects and snapshot calls:    *)
(* what a listed snapshot says it holds is true, and can be restored.      *)
(* The argument is about what an index entry is worth.  A hash learnt may  *)
(* be the hash of a later version than the metadata beside it, because the *)
(* file is read after its metadata was taken; it is right only as long as  *)
(* that metadata is the file's, and then it is right for ever in every     *)
(* object that carries it.                                                 *)
(***************************************************************************)
EXTENDS LocalBackup, TLAPS, SequenceTheorems

Version == 0..MaxVersion

\* An entry e of file f, the files being at the versions v: its metadata was
\* read from the file, and if it is still the file's, its hash is too.
Knows(v, f, e) ==
    /\ e \in Entry
    /\ e # NoEntry => e.meta \in 0..v[f]
    /\ e.sha # Unknown /\ e.meta = v[f] => e.sha = ContentOf[v[f]]

Indexes(v, i) == i \in [File -> Entry] /\ \A f \in File : Knows(v, f, i[f])

SnapEntry == [content : Content, held : BOOLEAN]

\* An entry of a snapshot, the blobs being b.
Restores(b, e) == e \in SnapEntry /\ b[e.content] = "whole" /\ e.held

Step == {"idle", "next", "read", "store", "fill", "learn", "save", "adopt"}
SnapRecord ==
    [pc : Step, obj : Nat, todo : SUBSET File, file : File \cup {Unknown}, meta : Version,
     sha : Content \cup {Unknown}, since : [File -> Version],
     entries : SUBSET SnapEntry, updates : [File -> Entry]]

Reading(r) == r.pc \in {"read", "store", "fill"}
Storing(r) == r.pc \in {"store", "fill"}

\* A snapshot call at the record r: the file it is at has had the metadata it
\* looked up, and what it read was in the file then or later.
Takes(v, b, n, r) ==
    /\ r \in SnapRecord
    /\ r.pc \in {"next", "read", "store", "fill", "save", "adopt"} => r.obj \in 1..n
    /\ \A f \in File : r.since[f] <= v[f]
    /\ Indexes(v, r.updates)
    /\ Reading(r) => r.file \in File /\ r.meta \in r.since[r.file]..v[r.file]
    /\ Storing(r) =>
         /\ \E w \in r.since[r.file]..v[r.file] : ContentOf[w] = r.sha
         /\ r.meta = v[r.file] => r.sha = ContentOf[v[r.file]]
    /\ \A e \in r.entries : Restores(b, e)

FilesOK ==
    /\ version \in [File -> Version]
    /\ blobs \in [Content -> {"none", "partial", "whole"}]
    /\ index \in Seq([File -> Entry])
    /\ memory \in 0..Len(index) /\ load \in 0..Len(index) /\ scan.obj \in 0..Len(index)
    /\ scan \in [pc : {"idle", "planned", "merged", "stored"}, scope : SUBSET File, obj : Nat]
    /\ scan.pc # "idle" => scan.obj # 0

\* Every index there is, in memory or stored, is worth something.
IndexesOK ==
    /\ stored # Unknown => Indexes(version, stored)
    /\ \A i \in Objects : Indexes(version, index[i])

SnapsOK ==
    /\ snap \in [Snap -> SnapRecord]
    /\ \A s \in Snap : Takes(version, blobs, Len(index), snap[s])
    /\ \A s \in Snap : snap[s].pc # "idle" => memory # 0

ListedOK == \A e \in listed : Restores(blobs, e)

IInv == FilesOK /\ IndexesOK /\ SnapsOK /\ ListedOK

-----------------------------------------------------------------------------
(* What time does not take away.                                           *)

LEMMA KnowsLater ==
  ASSUME NEW v \in [File -> Version], NEW w \in [File -> Version],
         NEW f \in File, v[f] <= w[f], NEW e, Knows(v, f, e)
  PROVE  Knows(w, f, e)
  BY BackupConstantsOK DEF Knows, Version, NoEntry

LEMMA IndexesLater ==
  ASSUME NEW v \in [File -> Version], NEW w \in [File -> Version],
         \A f \in File : v[f] <= w[f], NEW i, Indexes(v, i)
  PROVE  Indexes(w, i)
  BY KnowsLater DEF Indexes

LEMMA TakesLater ==
  ASSUME NEW v \in [File -> Version], NEW w \in [File -> Version],
         \A f \in File : v[f] <= w[f],
         NEW b, NEW c, \A x \in Content : b[x] = "whole" => c[x] = "whole",
         NEW n \in Nat, NEW m \in Nat, n <= m, NEW r, Takes(v, b, n, r)
  PROVE  Takes(w, c, m, r)
<1>1. r \in SnapRecord
  BY DEF Takes
<1>2. r.since \in [File -> Version]
  BY <1>1 DEF SnapRecord
<1>3. \A f \in File : r.since[f] <= w[f]
  BY <1>2 DEF Takes, Version
<1>4. Indexes(w, r.updates)
  BY IndexesLater DEF Takes
<1>5. r.pc \in {"next", "read", "store", "fill", "save", "adopt"} => r.obj \in 1..m
  BY DEF Takes
<1>6. Reading(r) => r.file \in File /\ r.meta \in r.since[r.file]..w[r.file]
  BY <1>2 DEF Takes, Version
<1>7. ASSUME Storing(r)
      PROVE /\ \E u \in r.since[r.file]..w[r.file] : ContentOf[u] = r.sha
            /\ r.meta = w[r.file] => r.sha = ContentOf[w[r.file]]
  <2>1. r.file \in File /\ r.meta \in r.since[r.file]..v[r.file]
    BY <1>7 DEF Takes, Reading, Storing
  <2>2. r.since[r.file] \in Nat /\ v[r.file] \in Nat /\ w[r.file] \in Nat /\ v[r.file] <= w[r.file]
    BY <1>2, <2>1 DEF Version
  <2>3. PICK u \in r.since[r.file]..v[r.file] : ContentOf[u] = r.sha
    BY <1>7 DEF Takes
  <2>4. u \in r.since[r.file]..w[r.file]
    BY <2>2, <2>3
  <2>5. r.meta = w[r.file] => r.meta = v[r.file] /\ v[r.file] = w[r.file]
    BY <2>1, <2>2
  <2> QED
    BY <1>7, <2>3, <2>4, <2>5 DEF Takes
<1>8. \A e \in r.entries : Restores(c, e)
  BY DEF Takes, Restores, SnapEntry
<1> QED
  BY <1>1, <1>3, <1>4, <1>5, <1>6, <1>7, <1>8 DEF Takes

LEMMA IdleTakes ==
  ASSUME NEW v \in [File -> Version], NEW b, NEW n
  PROVE  Takes(v, b, n, IdleSnap) /\ Indexes(v, NoUpdates)
<1>1. NoEntry \in Entry /\ NoUpdates \in [File -> Entry]
  BY DEF NoEntry, Entry, NoUpdates
<1>2. Indexes(v, NoUpdates)
  BY <1>1 DEF Indexes, Knows, NoUpdates, NoEntry
<1>3. 0 \in Version
  BY BackupConstantsOK DEF Version
<1>4. IdleSnap \in SnapRecord
  BY <1>1, <1>3 DEF IdleSnap, SnapRecord, Step
<1>5. \A f \in File : 0 <= v[f]
  BY DEF Version
<1> QED
  BY <1>2, <1>4, <1>5 DEF Takes, IdleSnap, Reading, Storing

LEMMA ContentIsContent == \A v \in Version : ContentOf[v] \in Content /\ ContentOf[v] # Unknown
  BY BackupConstantsOK DEF Content, Version

\* The files only get newer, and blobs that are whole stay whole.
Ages ==
    /\ version' \in [File -> Version] /\ \A f \in File : version[f] <= version'[f]
    /\ \A c \in Content : blobs[c] = "whole" => blobs'[c] = "whole"
    /\ Len(index) <= Len(index') /\ Len(index') \in Nat

LEMMA SnapBecomes ==
  ASSUME IInv, Ages, NEW s \in Snap, NEW r, snap' = [snap EXCEPT ![s] = r],
         Takes(version', blobs', Len(index'), r), memory # 0 => memory' # 0,
         r.pc # "idle" => memory' # 0
  PROVE  SnapsOK'
<1>1. Len(index) \in Nat /\ version \in [File -> Version]
  BY DEF IInv, FilesOK
<1>2. \A t \in Snap : Takes(version', blobs', Len(index'), snap[t])
  BY <1>1, TakesLater DEF IInv, SnapsOK, Ages
<1>3. r \in SnapRecord
  BY DEF Takes
<1> QED
  BY <1>2, <1>3 DEF IInv, SnapsOK

LEMMA SnapsStay ==
  ASSUME IInv, Ages, snap' = snap, memory # 0 => memory' # 0
  PROVE  SnapsOK'
<1>1. Len(index) \in Nat /\ version \in [File -> Version]
  BY DEF IInv, FilesOK
<1>2. \A t \in Snap : Takes(version', blobs', Len(index'), snap[t])
  BY <1>1, TakesLater DEF IInv, SnapsOK, Ages
<1> QED
  BY <1>2 DEF IInv, SnapsOK

LEMMA IndexesStay ==
  ASSUME IInv, Ages, UNCHANGED <<stored, index>> PROVE IndexesOK'
<1>1. version \in [File -> Version]
  BY DEF IInv, FilesOK
<1> QED
  BY <1>1, IndexesLater DEF IInv, IndexesOK, Ages, Objects

LEMMA ListedStay ==
  ASSUME IInv, Ages, listed' = listed PROVE ListedOK'
  BY DEF IInv, ListedOK, Ages, Restores, SnapEntry

\* An index object that is added, and one that is replaced.
LEMMA IndexAdded ==
  ASSUME IInv, NEW i, Indexes(version, i), index' = Append(index, i), stored' = stored,
         version' = version
  PROVE  /\ index' \in Seq([File -> Entry]) /\ Len(index') = Len(index) + 1
         /\ IndexesOK'
<1>1. i \in [File -> Entry] /\ index \in Seq([File -> Entry])
  BY DEF IInv, FilesOK, Indexes
<1>2. /\ index' \in Seq([File -> Entry]) /\ Len(index') = Len(index) + 1
      /\ \A k \in 1..Len(index') : index'[k] = IF k <= Len(index) THEN index[k] ELSE i
  BY <1>1
<1>3. Objects = 1..Len(index) /\ Objects' = 1..Len(index')
  BY <1>1, <1>2 DEF Objects
<1> QED
  BY <1>1, <1>2, <1>3 DEF IInv, IndexesOK

LEMMA IndexReplaced ==
  ASSUME IInv, NEW k \in Objects, NEW i, Indexes(version, i),
         index' = [index EXCEPT ![k] = i], stored' = stored, version' = version
  PROVE  /\ index' \in Seq([File -> Entry]) /\ Len(index') = Len(index)
         /\ IndexesOK'
<1>1. i \in [File -> Entry] /\ index \in Seq([File -> Entry])
  BY DEF IInv, FilesOK, Indexes
<1>2. k \in 1..Len(index)
  BY <1>1 DEF Objects
<1>3. /\ index' \in Seq([File -> Entry]) /\ Len(index') = Len(index)
      /\ \A j \in 1..Len(index') : index'[j] = IF j = k THEN i ELSE index[j]
  BY <1>1, <1>2, ExceptSeq
<1>4. Objects = 1..Len(index) /\ Objects' = 1..Len(index')
  BY <1>1, <1>3 DEF Objects
<1> QED
  BY <1>1, <1>3, <1>4 DEF IInv, IndexesOK

-----------------------------------------------------------------------------
(* The files, the daemon and its index.                                    *)

LEMMA InitIInv == BackupInit => IInv
<1> SUFFICES ASSUME BackupInit PROVE IInv
  OBVIOUS
<1> USE DEF BackupInit
<1>1. version \in [File -> Version]
  BY BackupConstantsOK DEF Version
<1>2. index \in Seq([File -> Entry]) /\ Len(index) = 0
  OBVIOUS
<1>3. scan = [pc |-> "idle", scope |-> {}, obj |-> 0]
  BY DEF IdleScan
<1>4. FilesOK
  BY <1>1, <1>2, <1>3 DEF FilesOK
<1>5. IndexesOK
  BY DEF IndexesOK, Objects
<1>6. \A s \in Snap : Takes(version, blobs, Len(index), IdleSnap)
  BY <1>1, IdleTakes
<1>7. SnapsOK
  <2>1. IdleSnap \in SnapRecord \/ Snap = {}
    BY <1>6 DEF Takes
  <2> QED
    BY <1>6, <2>1 DEF SnapsOK, IdleSnap
<1>8. ListedOK
  BY DEF ListedOK
<1> QED
  BY <1>4, <1>5, <1>7, <1>8 DEF IInv

\* Where files, blobs and index objects stay, all of them are as good as before.
LEMMA NothingAges ==
  ASSUME IInv, UNCHANGED <<version, blobs>>, Len(index') = Len(index) \/ Len(index') = Len(index) + 1
  PROVE  Ages
<1>1. Len(index) \in Nat /\ version \in [File -> Version]
  BY DEF IInv, FilesOK
<1>2. \A f \in File : version[f] <= version[f]
  BY <1>1 DEF Version
<1> QED
  BY <1>1, <1>2 DEF Ages

LEMMA WriteKeeps ==
  ASSUME IInv, NEW f \in File, Write(f) PROVE IInv'
<1> USE DEF Write
<1>1. version[f] \in Nat /\ version[f] + 1 \in Version
  BY BackupConstantsOK DEF IInv, FilesOK, Version
<1>2. version' = [version EXCEPT ![f] = version[f] + 1]
  OBVIOUS
<1>3. version' \in [File -> Version]
  BY <1>1, <1>2 DEF IInv, FilesOK
<1>4. Ages
  BY <1>1, <1>2, <1>3 DEF IInv, FilesOK, Ages, Version
<1>5. FilesOK'
  BY <1>3 DEF IInv, FilesOK
<1> QED
  BY <1>4, <1>5, SnapsStay, IndexesStay, ListedStay DEF IInv

LEMMA CrashKeeps ==
  ASSUME IInv, Crash PROVE IInv'
<1> USE DEF Crash
<1>1. version \in [File -> Version] /\ Len(index') = 0 /\ index' \in Seq([File -> Entry])
  BY DEF IInv, FilesOK
<1>2. FilesOK'
  BY <1>1 DEF IInv, FilesOK, IdleScan
<1>3. IndexesOK'
  BY DEF IInv, IndexesOK, Objects
<1>4. \A s \in Snap : Takes(version, blobs, Len(index'), IdleSnap)
  BY <1>1, IdleTakes
<1>5. SnapsOK'
  <2>1. IdleSnap \in SnapRecord \/ Snap = {}
    BY <1>4 DEF Takes
  <2> QED
    BY <1>4, <2>1 DEF SnapsOK, IdleSnap
<1>6. ListedOK'
  BY DEF IInv, ListedOK
<1> QED
  BY <1>2, <1>3, <1>5, <1>6 DEF IInv

LEMMA LoadIndexKeeps ==
  ASSUME IInv, LoadIndex PROVE IInv'
<1> USE DEF LoadIndex
<1>1. Indexes(version, stored)
  BY DEF IInv, IndexesOK
<1>2. index' \in Seq([File -> Entry]) /\ Len(index') = Len(index) + 1 /\ IndexesOK'
  BY <1>1, IndexAdded
<1>3. Ages
  BY <1>2, NothingAges
<1>4. FilesOK'
  BY <1>2 DEF IInv, FilesOK
<1> QED
  BY <1>2, <1>3, <1>4, SnapsStay, ListedStay DEF IInv

LEMMA AdoptLoadKeeps ==
  ASSUME IInv, AdoptLoad PROVE IInv'
<1> USE DEF AdoptLoad
<1>1. Ages
  BY NothingAges
<1>2. FilesOK' /\ memory' # 0
  BY DEF IInv, FilesOK
<1> QED
  BY <1>1, <1>2, SnapsStay, IndexesStay, ListedStay DEF IInv

\* What a plan has read of the files.
LEMMA PlanKnows ==
  ASSUME NEW v \in [File -> Version], NEW scope
  PROVE  Indexes(v, [f \in File |-> IF f \in scope THEN [meta |-> v[f], sha |-> Unknown]
                                                   ELSE NoEntry])
<1>1. \A f \in File : Knows(v, f, [meta |-> v[f], sha |-> Unknown]) /\ Knows(v, f, NoEntry)
  BY DEF Knows, Entry, NoEntry, Version
<1> QED
  BY <1>1 DEF Indexes, Knows

LEMMA PlanKeeps ==
  ASSUME IInv, NEW scope \in SUBSET File, Plan(scope) PROVE IInv'
<1> USE DEF Plan
<1>1. Indexes(version, [f \in File |->
         IF f \in scope THEN [meta |-> version[f], sha |-> Unknown] ELSE NoEntry])
  BY PlanKnows DEF IInv, FilesOK
<1>2. index' \in Seq([File -> Entry]) /\ Len(index') = Len(index) + 1 /\ IndexesOK'
  BY <1>1, IndexAdded
<1>3. Ages
  BY <1>2, NothingAges
<1>4. FilesOK'
  BY <1>2 DEF IInv, FilesOK
<1> QED
  BY <1>2, <1>3, <1>4, SnapsStay, ListedStay DEF IInv

\* A hash carried over is as good for the new metadata as it was for the old.
LEMMA ReindexedKnows ==
  ASSUME NEW v \in [File -> Version], NEW f \in File, NEW old, NEW new,
         Knows(v, f, old), Knows(v, f, new)
  PROVE  Knows(v, f, Reindexed(old, new.meta))
<1>1. Reindexed(old, new.meta) \in Entry
  BY DEF Knows, Reindexed, Entry
<1>2. CASE old.meta = new.meta
  <2>1. Reindexed(old, new.meta) = old
    BY <1>2 DEF Reindexed, Knows, Entry
  <2> QED
    BY <2>1
<1>3. CASE old.meta # new.meta
  <2>1. Reindexed(old, new.meta) = [meta |-> new.meta, sha |-> Unknown]
    BY <1>3 DEF Reindexed
  <2>2. new = NoEntry => Reindexed(old, new.meta) = NoEntry
    BY <2>1 DEF NoEntry
  <2> QED
    BY <1>1, <2>1, <2>2 DEF Knows
<1> QED
  BY <1>2, <1>3

LEMMA CurrentKnows ==
  ASSUME IInv PROVE Indexes(version, Current)
<1>1. version \in [File -> Version]
  BY DEF IInv, FilesOK
<1>2. CASE memory = 0
  BY <1>1, <1>2, IdleTakes DEF Current
<1>3. CASE memory # 0
  BY <1>3 DEF IInv, FilesOK, IndexesOK, Current, Objects
<1> QED
  BY <1>2, <1>3

LEMMA MergeKeeps ==
  ASSUME IInv, Merge PROVE IInv'
<1> USE DEF Merge
<1> DEFINE new == [f \in File |-> IF f \in scan.scope
                     THEN Reindexed(Current[f], index[scan.obj][f].meta) ELSE Current[f]]
<1>1. scan.obj \in Objects /\ version \in [File -> Version]
  BY DEF IInv, FilesOK, Objects
<1>2. Indexes(version, index[scan.obj]) /\ Indexes(version, Current)
  BY <1>1, CurrentKnows DEF IInv, IndexesOK
<1>3. \A f \in File : /\ Knows(version, f, Current[f])
                      /\ Knows(version, f, Reindexed(Current[f], index[scan.obj][f].meta))
  BY <1>1, <1>2, ReindexedKnows DEF Indexes
<1>4. Indexes(version, new)
  BY <1>3 DEF Indexes, Knows
<1>5. index' = [index EXCEPT ![scan.obj] = new]
  OBVIOUS
<1> HIDE DEF new
<1>6. index' \in Seq([File -> Entry]) /\ Len(index') = Len(index) /\ IndexesOK'
  BY <1>1, <1>4, <1>5, IndexReplaced
<1>7. Ages
  BY <1>6, NothingAges
<1>8. scan' \in [pc : {"idle", "planned", "merged", "stored"}, scope : SUBSET File, obj : Nat]
      /\ scan'.obj = scan.obj
  BY DEF IInv, FilesOK
<1>9. FilesOK'
  BY <1>6, <1>8 DEF IInv, FilesOK
<1> QED
  BY <1>6, <1>7, <1>9, SnapsStay, ListedStay DEF IInv

LEMMA StoreScanKeeps ==
  ASSUME IInv, StoreScan PROVE IInv'
<1> USE DEF StoreScan
<1>1. Ages
  BY NothingAges
<1>2. scan.obj \in Objects
  BY DEF IInv, FilesOK, Objects
<1>3. IndexesOK'
  BY <1>2 DEF IInv, IndexesOK, Objects
<1>4. scan' \in [pc : {"idle", "planned", "merged", "stored"}, scope : SUBSET File, obj : Nat]
      /\ scan'.obj = scan.obj
  BY DEF IInv, FilesOK
<1>5. FilesOK'
  BY <1>4 DEF IInv, FilesOK
<1> QED
  BY <1>1, <1>3, <1>5, SnapsStay, ListedStay DEF IInv

LEMMA AdoptScanKeeps ==
  ASSUME IInv, AdoptScan PROVE IInv'
<1> USE DEF AdoptScan
<1>1. Ages
  BY NothingAges
<1>2. FilesOK' /\ memory' # 0
  BY DEF IInv, FilesOK, IdleScan
<1> QED
  BY <1>1, <1>2, SnapsStay, IndexesStay, ListedStay DEF IInv

LEMMA ScanFailsKeeps ==
  ASSUME IInv, ScanFails PROVE IInv'
<1> USE DEF ScanFails
<1>1. Ages
  BY NothingAges
<1>2. FilesOK'
  BY DEF IInv, FilesOK, IdleScan
<1> QED
  BY <1>1, <1>2, SnapsStay, IndexesStay, ListedStay DEF IInv

-----------------------------------------------------------------------------
(* A snapshot call.                                                        *)

\* The records of a call, field by field.
WithFields(r, p, t, f, m, h, e) ==
    [r EXCEPT !.pc = p, !.todo = t, !.file = f, !.meta = m, !.sha = h, !.entries = e]
WithStart(r, p, o, t, n) == [r EXCEPT !.pc = p, !.obj = o, !.todo = t, !.since = n]
WithUpdate(r, f, e) == [r EXCEPT !.updates[f] = e]

LEMMA FieldsSet ==
  ASSUME NEW r \in SnapRecord, NEW p \in Step, NEW t \in SUBSET File,
         NEW f \in File \cup {Unknown}, NEW m \in Version, NEW h \in Content \cup {Unknown},
         NEW e \in SUBSET SnapEntry, NEW x,
         x = WithFields(r, p, t, f, m, h, e)
  PROVE  /\ x \in SnapRecord /\ x.pc = p /\ x.todo = t /\ x.file = f /\ x.meta = m
         /\ x.sha = h /\ x.entries = e
         /\ x.obj = r.obj /\ x.since = r.since /\ x.updates = r.updates
<1>1. x \in SnapRecord
  BY ZenonT(60) DEF SnapRecord, WithFields
<1> QED
  BY <1>1, SMT DEF SnapRecord, WithFields

LEMMA BegunSet ==
  ASSUME NEW r \in SnapRecord, NEW p \in Step, NEW o \in Nat, NEW t \in SUBSET File,
         NEW n \in [File -> Version], NEW x,
         x = WithStart(r, p, o, t, n)
  PROVE  /\ x \in SnapRecord /\ x.pc = p /\ x.obj = o /\ x.since = n
         /\ x.entries = r.entries /\ x.updates = r.updates
<1>1. x \in SnapRecord
  BY ZenonT(60) DEF SnapRecord, WithStart
<1> QED
  BY <1>1, SMT DEF SnapRecord, WithStart

LEMMA UpdatesSet ==
  ASSUME NEW r \in SnapRecord, NEW f \in File, NEW e \in Entry, NEW x,
         x = WithUpdate(r, f, e)
  PROVE  /\ x \in SnapRecord /\ x.updates = [r.updates EXCEPT ![f] = e]
         /\ x.pc = r.pc /\ x.todo = r.todo /\ x.file = r.file /\ x.meta = r.meta
         /\ x.sha = r.sha /\ x.entries = r.entries /\ x.obj = r.obj /\ x.since = r.since
<1> DEFINE u == [r.updates EXCEPT ![f] = e]
<1>1. x = [r EXCEPT !.updates = u]
  BY SMT DEF SnapRecord, WithUpdate
<1>2. u \in [File -> Entry]
  BY DEF SnapRecord
<1> HIDE DEF u
<1>3. x \in SnapRecord
  BY <1>1, <1>2, ZenonT(60) DEF SnapRecord
<1>4. x.updates = u /\ x.pc = r.pc /\ x.todo = r.todo /\ x.file = r.file /\ x.meta = r.meta
      /\ x.sha = r.sha /\ x.entries = r.entries /\ x.obj = r.obj /\ x.since = r.since
  BY <1>1, SMT DEF SnapRecord
<1> QED
  BY <1>3, <1>4 DEF u

\* An entry for content the file has held, whose blob is whole.
LEMMA EntryRestores ==
  ASSUME NEW s, NEW f, NEW c \in Content, Held(s, f, c), NEW b, b[c] = "whole"
  PROVE  Restores(b, [content |-> c, held |-> Held(s, f, c)])
<1>1. Held(s, f, c) = TRUE
  BY DEF Held
<1>2. [content |-> c, held |-> TRUE] \in SnapEntry
  BY DEF SnapEntry
<1> QED
  BY <1>1, <1>2 DEF Restores

LEMMA AddedTakes ==
  ASSUME IInv, Ages, version' = version, Len(index') = Len(index),
         NEW s \in Snap, snap[s].pc \in {"next", "store", "fill"},
         NEW f \in File, NEW c \in Content, Held(s, f, c), blobs'[c] = "whole"
  PROVE  /\ Takes(version', blobs', Len(index'), Added(s, f, c))
         /\ Added(s, f, c).pc = "next" /\ Added(s, f, c).updates = snap[s].updates
<1> DEFINE r == Added(s, f, c)
           e == [content |-> c, held |-> Held(s, f, c)]
<1>1. Takes(version, blobs, Len(index), snap[s]) /\ snap[s] \in SnapRecord
  BY DEF IInv, SnapsOK
<1>2. Restores(blobs', e)
  BY EntryRestores
<1>3. /\ "next" \in Step /\ snap[s].todo \ {f} \in SUBSET File /\ 0 \in Version
      /\ Unknown \in File \cup {Unknown} /\ Unknown \in Content \cup {Unknown}
      /\ snap[s].entries \cup {e} \in SUBSET SnapEntry
  <2>1. "next" \in Step /\ 0 \in Version
    BY BackupConstantsOK DEF Step, Version
  <2>2. snap[s].todo \in SUBSET File /\ snap[s].entries \in SUBSET SnapEntry
    BY <1>1 DEF SnapRecord
  <2>3. e \in SnapEntry
    BY <1>2 DEF Restores
  <2> HIDE DEF e
  <2> QED
    BY <2>1, <2>2, <2>3
<1>4. /\ r \in SnapRecord /\ r.pc = "next" /\ r.obj = snap[s].obj /\ r.since = snap[s].since
      /\ r.entries = snap[s].entries \cup {e} /\ r.updates = snap[s].updates
  <2> DEFINE q == snap[s]
             p == "next"
             d == snap[s].todo \ {f}
             z == 0
             n == snap[s].entries \cup {e}
  <2>1. r = WithFields(q, p, d, Unknown, z, Unknown, n)
    BY DEF Added, WithFields
  <2>2. q \in SnapRecord /\ p \in Step /\ d \in SUBSET File /\ z \in Version /\ n \in SUBSET SnapEntry
    BY <1>1, <1>3
  <2> HIDE DEF e, r, p, q, d, z, n
  <2>3. r \in SnapRecord /\ r.pc = p /\ r.obj = q.obj /\ r.since = q.since
        /\ r.entries = n /\ r.updates = q.updates
    BY <2>1, <2>2, FieldsSet
  <2> QED
    BY <2>3 DEF p, q, n
<1> HIDE DEF e, r
<1>5. \A x \in snap[s].entries : x \in SnapEntry /\ Restores(blobs', x)
  BY <1>1 DEF Takes, Ages, Restores, SnapEntry
<1>6. \A x \in r.entries : Restores(blobs', x)
  BY <1>2, <1>4, <1>5
<1>7. ~Reading(r) /\ ~Storing(r)
  BY <1>4 DEF Reading, Storing
<1>8. r.obj \in 1..Len(index) /\ \A g \in File : r.since[g] <= version[g]
  BY <1>1, <1>4 DEF Takes
<1>9. Indexes(version, r.updates)
  BY <1>1, <1>4 DEF Takes
<1>10. Takes(version', blobs', Len(index'), r)
  BY <1>4, <1>6, <1>7, <1>8, <1>9 DEF Takes
<1> QED
  BY <1>4, <1>10 DEF r

LEMMA KeptTakes ==
  ASSUME IInv, Ages, version' = version, Len(index') = Len(index),
         NEW s \in Snap, Storing(snap[s]), blobs'[snap[s].sha] = "whole"
  PROVE  Takes(version', blobs', Len(index'), Kept(s))
<1> DEFINE r == Kept(s)
           f == snap[s].file
           c == snap[s].sha
           e == [meta |-> snap[s].meta, sha |-> c]
           a == Added(s, f, c)
<1>1. Takes(version, blobs, Len(index), snap[s]) /\ snap[s] \in SnapRecord
  BY DEF IInv, SnapsOK
<1>2. /\ f \in File /\ snap[s].meta \in snap[s].since[f]..version[f]
      /\ \E w \in snap[s].since[f]..version[f] : ContentOf[w] = c
      /\ snap[s].meta = version[f] => c = ContentOf[version[f]]
  BY <1>1 DEF Takes, Reading, Storing
<1>3. version[f] \in Version /\ snap[s].since[f] \in Version
  BY <1>1, <1>2 DEF IInv, FilesOK, SnapRecord
<1>4. c \in Content
  <2>1. PICK w \in snap[s].since[f]..version[f] : ContentOf[w] = c
    BY <1>2
  <2>2. w \in Version
    BY <1>3, <2>1, BackupConstantsOK DEF Version
  <2> QED
    BY <2>1, <2>2, ContentIsContent
<1>5. snap[s].meta \in 0..version[f] /\ snap[s].meta \in Version
  BY <1>2, <1>3, BackupConstantsOK DEF Version
<1>6. e \in Entry
  BY <1>4, <1>5 DEF Entry, Version
<1>7. Knows(version, f, e)
  BY <1>2, <1>5, <1>6 DEF Knows
<1>8. snap[s].pc \in {"next", "store", "fill"} /\ Held(s, f, c)
  BY <1>2 DEF Held, Storing
<1>9. Takes(version', blobs', Len(index'), a) /\ a.pc = "next" /\ a.updates = snap[s].updates
  BY <1>2, <1>4, <1>8, AddedTakes
<1>10. r = WithUpdate(a, f, e)
  BY DEF Kept, WithUpdate
<1> HIDE DEF a, r, e, f, c
<1>11. Indexes(version, snap[s].updates) /\ snap[s].updates \in [File -> Entry]
  BY <1>1 DEF Takes, Indexes
<1>12. Indexes(version, [snap[s].updates EXCEPT ![f] = e])
  BY <1>2, <1>6, <1>7, <1>11 DEF Indexes
<1>13. a \in SnapRecord
  BY <1>9 DEF Takes
<1>14. /\ r \in SnapRecord /\ r.pc = "next" /\ r.obj = a.obj /\ r.since = a.since
       /\ r.entries = a.entries /\ r.updates = [snap[s].updates EXCEPT ![f] = e]
  BY <1>2, <1>6, <1>9, <1>10, <1>13, UpdatesSet
<1>15. ~Reading(r) /\ ~Storing(r)
  BY <1>14 DEF Reading, Storing
<1>16. Takes(version', blobs', Len(index'), r)
  BY <1>9, <1>12, <1>14, <1>15 DEF Takes
<1> QED
  BY <1>16 DEF r

\* A call that goes on, with what else it leaves alone.
LEMMA CallKeeps ==
  ASSUME IInv, NEW s \in Snap, snap[s].pc # "idle", NEW r, Become(s, r),
         UNCHANGED <<version, scan, memory, load, blobs, stored, index, listed>>,
         Takes(version, blobs, Len(index), r)
  PROVE  IInv'
<1>1. Ages
  BY NothingAges
<1>2. memory # 0
  BY DEF IInv, SnapsOK
<1>3. SnapsOK'
  BY <1>1, <1>2, SnapBecomes DEF Become
<1>4. FilesOK'
  BY DEF IInv, FilesOK
<1> QED
  BY <1>1, <1>3, <1>4, IndexesStay, ListedStay DEF IInv

LEMMA BeginKeeps ==
  ASSUME IInv, NEW s \in Snap, Begin(s) PROVE IInv'
<1> DEFINE r == [IdleSnap EXCEPT !.pc = "next", !.obj = memory,
                    !.todo = {f \in File : index[memory][f] # NoEntry}, !.since = version]
<1> USE DEF Begin, SnapFrame
<1>1. version \in [File -> Version] /\ memory \in 1..Len(index)
  BY DEF IInv, FilesOK
<1>2. Takes(version, blobs, Len(index), IdleSnap)
  BY <1>1, IdleTakes
<1>3. {f \in File : index[memory][f] # NoEntry} \in SUBSET File /\ "next" \in Step /\ memory \in Nat
  BY <1>1 DEF Step, IInv, FilesOK
<1>4. /\ r \in SnapRecord /\ r.pc = "next" /\ r.obj = memory /\ r.since = version
      /\ r.entries = IdleSnap.entries /\ r.updates = IdleSnap.updates
  <2>1. IdleSnap \in SnapRecord
    BY <1>2 DEF Takes
  <2> DEFINE p == "next"
             d == {f \in File : index[memory][f] # NoEntry}
  <2>2. r = WithStart(IdleSnap, p, memory, d, version)
    BY DEF WithStart
  <2>3. p \in Step /\ d \in SUBSET File
    BY <1>3
  <2> HIDE DEF r, p, d
  <2>4. /\ r \in SnapRecord /\ r.pc = p /\ r.obj = memory /\ r.since = version
        /\ r.entries = IdleSnap.entries /\ r.updates = IdleSnap.updates
    BY <1>1, <1>3, <2>1, <2>2, <2>3, BegunSet
  <2> QED
    BY <2>4 DEF p
<1>5. snap' = [snap EXCEPT ![s] = r] /\ UNCHANGED <<version, scan, memory, load, blobs, stored, index, listed>>
  BY DEF Become
<1>6. r.entries = {} /\ r.updates = NoUpdates
  BY <1>4 DEF IdleSnap
<1> HIDE DEF r
<1>7. \A f \in File : version[f] <= version[f]
  BY <1>1 DEF Version
<1>8. Takes(version, blobs, Len(index), r)
  BY <1>1, <1>4, <1>6, <1>7, IdleTakes DEF Takes, Reading, Storing
<1>9. Ages /\ memory' # 0
  BY <1>5, NothingAges
<1>10. SnapsOK'
  BY <1>4, <1>5, <1>8, <1>9, SnapBecomes
<1>11. FilesOK'
  BY <1>5 DEF IInv, FilesOK
<1> QED
  BY <1>5, <1>9, <1>10, <1>11, IndexesStay, ListedStay DEF IInv

\* A file that is not read again still has the indexed content.
LEMMA LookKeeps ==
  ASSUME IInv, NEW s \in Snap, Look(s) PROVE IInv'
<1> USE DEF SnapFrame
<1>0. UNCHANGED <<version, scan, memory, load, blobs, stored, index, listed>> /\ snap[s].pc = "next"
  BY DEF Look
<1>1. PICK f \in snap[s].todo :
        Become(s, IF Reuse(index[snap[s].obj][f], version[f])
                  THEN Added(s, f, index[snap[s].obj][f].sha)
                  ELSE [snap[s] EXCEPT !.pc = "read", !.file = f, !.meta = version[f]])
  BY DEF Look
<1>2. Takes(version, blobs, Len(index), snap[s]) /\ snap[s] \in SnapRecord
  BY DEF IInv, SnapsOK
<1>3. version \in [File -> Version] /\ f \in File /\ snap[s].since \in [File -> Version]
  BY <1>2 DEF IInv, FilesOK, SnapRecord
<1>4. snap[s].since[f] <= version[f]
  BY <1>2, <1>3 DEF Takes
<1> DEFINE e == index[snap[s].obj][f]
<1>5. Knows(version, f, e)
  <2>1. snap[s].obj \in Objects
    BY <1>0, <1>2 DEF Takes, IInv, FilesOK, Objects
  <2> QED
    BY <1>3, <2>1 DEF IInv, IndexesOK, Indexes
<1>6. Ages
  BY <1>0, NothingAges
<1> HIDE DEF e
<1>7. CASE Reuse(e, version[f])
  <2>1. e.sha = ContentOf[version[f]] /\ blobs[e.sha] = "whole"
    BY <1>5, <1>7 DEF Reuse, Reusable, Knows
  <2>2. e.sha \in Content
    BY <1>3, <2>1, ContentIsContent
  <2>3. version[f] \in snap[s].since[f]..version[f]
    BY <1>3, <1>4 DEF Version
  <2>4. Held(s, f, e.sha)
    BY <2>1, <2>3 DEF Held
  <2>5. Takes(version', blobs', Len(index'), Added(s, f, e.sha))
    BY <1>0, <1>3, <1>6, <2>1, <2>2, <2>4, AddedTakes
  <2>6. Become(s, Added(s, f, e.sha))
    BY <1>1, <1>7 DEF e
  <2> QED
    BY <1>0, <2>5, <2>6, CallKeeps
<1>8. CASE ~Reuse(e, version[f])
  <2> DEFINE r == [snap[s] EXCEPT !.pc = "read", !.file = f, !.meta = version[f]]
  <2>1. Become(s, r)
    BY <1>1, <1>8 DEF e
  <2>2. /\ r \in SnapRecord
        /\ r.pc = "read" /\ r.obj = snap[s].obj /\ r.since = snap[s].since /\ r.file = f
        /\ r.meta = version[f] /\ r.entries = snap[s].entries /\ r.updates = snap[s].updates
    BY <1>2, <1>3 DEF SnapRecord, Step
  <2> HIDE DEF r
  <2>3. version[f] \in snap[s].since[f]..version[f]
    BY <1>3, <1>4 DEF Version
  <2>4. Takes(version, blobs, Len(index), r)
    BY <1>0, <1>2, <1>3, <2>2, <2>3 DEF Takes, Reading, Storing
  <2> QED
    BY <1>0, <2>1, <2>4, CallKeeps
<1> QED
  BY <1>7, <1>8

\* What is read is the content of a version the file has now.
LEMMA ReadKeeps ==
  ASSUME IInv, NEW s \in Snap, Read(s) PROVE IInv'
<1> USE DEF SnapFrame
<1> DEFINE f == snap[s].file
           h == ContentOf[version[f]]
<1>1. UNCHANGED <<version, scan, memory, load, blobs, stored, index, listed>> /\ snap[s].pc = "read"
  BY DEF Read
<1>2. Takes(version, blobs, Len(index), snap[s]) /\ snap[s] \in SnapRecord
  BY DEF IInv, SnapsOK
<1>3. /\ f \in File /\ version[f] \in Version /\ snap[s].since[f] \in Version
      /\ snap[s].meta \in snap[s].since[f]..version[f]
  BY <1>1, <1>2 DEF Takes, Reading, IInv, FilesOK, SnapRecord
<1>4. h \in Content /\ version[f] \in snap[s].since[f]..version[f]
  BY <1>3, ContentIsContent DEF Version
<1>5. CASE Become(s, [snap[s] EXCEPT !.pc = "store", !.sha = h])
  <2> DEFINE r == [snap[s] EXCEPT !.pc = "store", !.sha = h]
  <2>1. /\ r \in SnapRecord /\ r.pc = "store" /\ r.obj = snap[s].obj /\ r.since = snap[s].since
        /\ r.file = f /\ r.meta = snap[s].meta /\ r.sha = h /\ r.entries = snap[s].entries
        /\ r.updates = snap[s].updates
    <3> HIDE DEF h
    <3> QED
      BY <1>2, <1>4 DEF SnapRecord, Step
  <2> HIDE DEF r
  <2>2. Takes(version, blobs, Len(index), r)
    BY <1>1, <1>2, <1>3, <1>4, <2>1 DEF Takes, Reading, Storing
  <2> QED
    BY <1>1, <1>5, <2>2, CallKeeps DEF r
<1>6. CASE Become(s, [snap[s] EXCEPT !.pc = "next", !.todo = snap[s].todo \ {f}])
  <2> DEFINE r == [snap[s] EXCEPT !.pc = "next", !.todo = snap[s].todo \ {f}]
  <2>1. /\ r \in SnapRecord /\ r.pc = "next" /\ r.obj = snap[s].obj /\ r.since = snap[s].since
        /\ r.entries = snap[s].entries /\ r.updates = snap[s].updates
    <3>1. snap[s].todo \ {f} \in SUBSET File
      BY <1>2 DEF SnapRecord
    <3> QED
      BY <1>2, <3>1 DEF SnapRecord, Step
  <2> HIDE DEF r
  <2>2. Takes(version, blobs, Len(index), r)
    BY <1>1, <1>2, <2>1 DEF Takes, Reading, Storing
  <2> QED
    BY <1>1, <1>6, <2>2, CallKeeps DEF r
<1> QED
  BY <1>5, <1>6 DEF Read

\* What a blob of the content store may become.
LEMMA BlobGrows ==
  ASSUME IInv, NEW c \in Content, NEW b \in {"partial", "whole"},
         blobs' = [blobs EXCEPT ![c] = b], b = "whole" \/ blobs[c] # "whole",
         UNCHANGED <<version, scan, memory, load, stored, index, listed>>
  PROVE  Ages /\ FilesOK' /\ IndexesOK' /\ ListedOK'
<1>1. version \in [File -> Version] /\ blobs \in [Content -> {"none", "partial", "whole"}]
  BY DEF IInv, FilesOK
<1>2. blobs' \in [Content -> {"none", "partial", "whole"}]
  BY <1>1
<1>3. \A x \in Content : blobs[x] = "whole" => blobs'[x] = "whole"
  BY <1>1
<1>4. Ages
  BY <1>1, <1>3 DEF Ages, Version, IInv, FilesOK
<1>5. FilesOK'
  BY <1>2 DEF IInv, FilesOK
<1> QED
  BY <1>4, <1>5, IndexesStay, ListedStay

\* A call that stores knows what it stores.
LEMMA StoresContent ==
  ASSUME IInv, NEW s \in Snap, Storing(snap[s]) PROVE snap[s].sha \in Content
<1>1. Takes(version, blobs, Len(index), snap[s]) /\ snap[s] \in SnapRecord
  BY DEF IInv, SnapsOK
<1>2. snap[s].file \in File
  BY <1>1 DEF Takes, Storing, Reading
<1>3. version[snap[s].file] \in Version /\ snap[s].since[snap[s].file] \in Version
  BY <1>1, <1>2 DEF IInv, FilesOK, SnapRecord
<1>4. PICK w \in snap[s].since[snap[s].file]..version[snap[s].file] : ContentOf[w] = snap[s].sha
  BY <1>1 DEF Takes
<1>5. w \in Version
  BY <1>3, <1>4, BackupConstantsOK DEF Version
<1> QED
  BY <1>4, <1>5, ContentIsContent

LEMMA CreateBlobKeeps ==
  ASSUME IInv, NEW s \in Snap, CreateBlob(s) PROVE IInv'
<1> USE DEF SnapFrame
<1>1. Storing(snap[s]) /\ snap[s].pc = "store" /\ blobs[snap[s].sha] = "none"
  BY DEF CreateBlob, Storing
<1>2. snap[s].sha \in Content
  BY <1>1, StoresContent
<1>3. Ages /\ FilesOK' /\ IndexesOK' /\ ListedOK'
  BY <1>1, <1>2, BlobGrows DEF CreateBlob
<1>4. Takes(version, blobs, Len(index), snap[s]) /\ snap[s] \in SnapRecord
  BY DEF IInv, SnapsOK
<1> DEFINE r == [snap[s] EXCEPT !.pc = "fill"]
<1>5. /\ r \in SnapRecord /\ r.pc = "fill" /\ r.obj = snap[s].obj /\ r.since = snap[s].since
      /\ r.file = snap[s].file /\ r.meta = snap[s].meta /\ r.sha = snap[s].sha
      /\ r.entries = snap[s].entries /\ r.updates = snap[s].updates
  BY <1>4 DEF SnapRecord, Step
<1>6. snap' = [snap EXCEPT ![s] = r]
  BY DEF CreateBlob, Become
<1> HIDE DEF r
<1>7. Takes(version, blobs, Len(index), r)
  BY <1>1, <1>4, <1>5 DEF Takes, Reading, Storing
<1>8. version \in [File -> Version] /\ Len(index) \in Nat /\ UNCHANGED <<version, index, memory>>
  BY DEF IInv, FilesOK, CreateBlob
<1>9. Takes(version', blobs', Len(index'), r)
  <2>1. /\ \A f \in File : version[f] <= version[f]
        /\ \A x \in Content : blobs[x] = "whole" => blobs'[x] = "whole"
    BY <1>3, <1>8 DEF Ages
  <2> QED
    BY <1>7, <1>8, <2>1, TakesLater, SMTT(60)
<1>10. memory # 0
  BY <1>1 DEF IInv, SnapsOK
<1>11. SnapsOK'
  BY <1>3, <1>6, <1>8, <1>9, <1>10, SnapBecomes
<1> QED
  BY <1>3, <1>11 DEF IInv

LEMMA FillBlobKeeps ==
  ASSUME IInv, NEW s \in Snap, FillBlob(s) PROVE IInv'
<1> USE DEF SnapFrame
<1>1. Storing(snap[s]) /\ snap[s].pc # "idle"
  BY DEF FillBlob, Storing
<1>2. snap[s].sha \in Content
  BY <1>1, StoresContent
<1>3. Ages /\ FilesOK' /\ IndexesOK' /\ ListedOK' /\ UNCHANGED <<version, index, memory>>
  BY <1>2, BlobGrows DEF FillBlob
<1>4. blobs'[snap[s].sha] = "whole"
  BY <1>2 DEF FillBlob, IInv, FilesOK
<1>5. Takes(version', blobs', Len(index'), Kept(s))
  BY <1>1, <1>3, <1>4, KeptTakes
<1>6. memory # 0
  BY <1>1 DEF IInv, SnapsOK
<1>7. SnapsOK'
  BY <1>3, <1>5, <1>6, SnapBecomes DEF FillBlob, Become
<1> QED
  BY <1>3, <1>7 DEF IInv

LEMMA FindBlobKeeps ==
  ASSUME IInv, NEW s \in Snap, FindBlob(s) PROVE IInv'
<1> USE DEF SnapFrame
<1>1. /\ Storing(snap[s]) /\ snap[s].pc # "idle" /\ blobs[snap[s].sha] = "whole"
      /\ UNCHANGED <<version, scan, memory, load, blobs, stored, index, listed>>
  BY DEF FindBlob, Storing
<1>2. Ages
  BY <1>1, NothingAges
<1>3. Takes(version', blobs', Len(index'), Kept(s))
  BY <1>1, <1>2, KeptTakes
<1> QED
  BY <1>1, <1>3, CallKeeps DEF FindBlob

LEMMA MeetPartialBlobKeeps ==
  ASSUME IInv, NEW s \in Snap, MeetPartialBlob(s) PROVE IInv'
<1> USE DEF SnapFrame
<1>1. /\ snap[s].pc # "idle"
      /\ UNCHANGED <<version, scan, memory, load, blobs, stored, index, listed>>
  BY DEF MeetPartialBlob
<1>2. Takes(version, blobs, Len(index), IdleSnap)
  BY IdleTakes DEF IInv, FilesOK
<1> QED
  BY <1>1, <1>2, CallKeeps DEF MeetPartialBlob

LEMMA SealKeeps ==
  ASSUME IInv, NEW s \in Snap, Seal(s) PROVE IInv'
<1> USE DEF SnapFrame
<1>1. /\ snap[s].pc = "next" /\ listed' = listed \cup snap[s].entries
      /\ UNCHANGED <<version, scan, memory, load, blobs, stored, index>>
  BY DEF Seal
<1>2. Takes(version, blobs, Len(index), snap[s]) /\ snap[s] \in SnapRecord
  BY DEF IInv, SnapsOK
<1>3. ListedOK'
  BY <1>1, <1>2 DEF IInv, ListedOK, Takes
<1>4. Ages
  BY <1>1, NothingAges
<1>5. Takes(version, blobs, Len(index), IdleSnap)
  BY IdleTakes DEF IInv, FilesOK
<1> DEFINE u == snap[s].updates
           r == [IdleSnap EXCEPT !.pc = "learn", !.updates = u]
<1>6. /\ r \in SnapRecord /\ r.pc = "learn" /\ r.since = IdleSnap.since
      /\ r.entries = {} /\ r.updates = u
  <2>1. IdleSnap \in SnapRecord /\ u \in [File -> Entry] /\ IdleSnap.entries = {}
    BY <1>2, <1>5 DEF Takes, SnapRecord, IdleSnap
  <2> HIDE DEF IdleSnap, u
  <2> QED
    BY <2>1 DEF SnapRecord, Step
<1>7. snap' = [snap EXCEPT ![s] = r]
  BY DEF Seal, Become
<1> HIDE DEF r
<1>8. Takes(version, blobs, Len(index), r)
  BY <1>2, <1>5, <1>6 DEF Takes, Reading, Storing
<1>9. memory # 0
  BY <1>1 DEF IInv, SnapsOK
<1>10. SnapsOK'
  BY <1>1, <1>4, <1>7, <1>8, <1>9, SnapBecomes
<1>11. FilesOK'
  BY <1>1 DEF IInv, FilesOK
<1> QED
  BY <1>1, <1>3, <1>4, <1>10, <1>11, IndexesStay DEF IInv

\* Hashes are learnt in place, and are true of the entries they go to.
LEMMA LearnKeeps ==
  ASSUME IInv, NEW s \in Snap, Learn(s) PROVE IInv'
<1> USE DEF SnapFrame
<1> DEFINE old == index[memory]
           new == [f \in File |->
                     IF /\ snap[s].updates[f] # NoEntry
                        /\ snap[s].updates[f].meta = old[f].meta
                     THEN snap[s].updates[f] ELSE old[f]]
<1>1. /\ snap[s].pc = "learn" /\ index' = [index EXCEPT ![memory] = new]
      /\ Become(s, IF new = old THEN IdleSnap ELSE [IdleSnap EXCEPT !.pc = "save", !.obj = memory])
      /\ UNCHANGED <<version, scan, memory, load, blobs, stored, listed>>
  BY DEF Learn
<1>2. Takes(version, blobs, Len(index), snap[s]) /\ memory # 0
  BY <1>1 DEF IInv, SnapsOK
<1>3. memory \in Objects /\ memory \in 1..Len(index) /\ memory \in Nat /\ version \in [File -> Version]
  BY <1>2 DEF IInv, FilesOK, Objects
<1>4. Indexes(version, old) /\ Indexes(version, snap[s].updates)
  BY <1>2, <1>3 DEF IInv, IndexesOK, Takes
<1>5. Indexes(version, new)
  BY <1>4 DEF Indexes, Knows
<1> HIDE DEF new, old
<1>6. index' \in Seq([File -> Entry]) /\ Len(index') = Len(index) /\ IndexesOK'
  BY <1>1, <1>3, <1>5, IndexReplaced
<1>7. Ages
  BY <1>1, <1>6, NothingAges
<1>8. FilesOK'
  BY <1>1, <1>6 DEF IInv, FilesOK
<1>9. Takes(version, blobs, Len(index), IdleSnap)
  BY <1>3, IdleTakes
<1>10. Takes(version', blobs', Len(index'), IdleSnap)
  BY <1>1, <1>6, <1>9
<1>11. CASE new = old
  <2>1. snap' = [snap EXCEPT ![s] = IdleSnap]
    BY <1>1, <1>11 DEF Become
  <2>2. SnapsOK'
    BY <1>1, <1>2, <1>7, <1>10, <2>1, SnapBecomes
  <2> QED
    BY <1>1, <1>6, <1>7, <1>8, <2>2, ListedStay DEF IInv
<1>12. CASE new # old
  <2> DEFINE r == [IdleSnap EXCEPT !.pc = "save", !.obj = memory]
  <2>1. snap' = [snap EXCEPT ![s] = r]
    BY <1>1, <1>12 DEF Become
  <2>2. /\ r \in SnapRecord /\ r.pc = "save" /\ r.obj = memory /\ r.since = IdleSnap.since
        /\ r.entries = IdleSnap.entries /\ r.updates = IdleSnap.updates
    <3>1. IdleSnap \in SnapRecord
      BY <1>9 DEF Takes
    <3> HIDE DEF IdleSnap
    <3> QED
      BY <1>3, <3>1 DEF SnapRecord, Step
  <2> HIDE DEF r
  <2>3. Takes(version', blobs', Len(index'), r)
    BY <1>1, <1>3, <1>6, <1>10, <2>2 DEF Takes, Reading, Storing
  <2>4. SnapsOK'
    BY <1>1, <1>2, <1>7, <2>1, <2>3, SnapBecomes
  <2> QED
    BY <1>1, <1>6, <1>7, <1>8, <2>4, ListedStay DEF IInv
<1> QED
  BY <1>11, <1>12

LEMMA SaveKeeps ==
  ASSUME IInv, NEW s \in Snap, Save(s) PROVE IInv'
<1> USE DEF SnapFrame
<1>1. /\ snap[s].pc = "save" /\ stored' = index[snap[s].obj]
      /\ UNCHANGED <<version, scan, memory, load, blobs, index, listed>>
  BY DEF Save
<1>2. Takes(version, blobs, Len(index), snap[s]) /\ snap[s] \in SnapRecord /\ memory # 0
  BY <1>1 DEF IInv, SnapsOK
<1>3. snap[s].obj \in Objects
  BY <1>1, <1>2 DEF Takes, IInv, FilesOK, Objects
<1>4. IndexesOK'
  BY <1>1, <1>3 DEF IInv, IndexesOK, Objects
<1> DEFINE r == [snap[s] EXCEPT !.pc = "adopt"]
<1>5. /\ r \in SnapRecord /\ r.pc = "adopt" /\ r.obj = snap[s].obj /\ r.since = snap[s].since
      /\ r.entries = snap[s].entries /\ r.updates = snap[s].updates
  BY <1>2 DEF SnapRecord, Step
<1>6. snap' = [snap EXCEPT ![s] = r]
  BY DEF Save, Become
<1> HIDE DEF r
<1>7. Takes(version, blobs, Len(index), r)
  BY <1>1, <1>2, <1>5 DEF Takes, Reading, Storing
<1>8. Ages
  BY <1>1, NothingAges
<1>9. SnapsOK'
  BY <1>1, <1>2, <1>6, <1>7, <1>8, SnapBecomes
<1>10. FilesOK'
  BY <1>1 DEF IInv, FilesOK
<1> QED
  BY <1>1, <1>4, <1>8, <1>9, <1>10, ListedStay DEF IInv

LEMMA AdoptKeeps ==
  ASSUME IInv, NEW s \in Snap, Adopt(s) PROVE IInv'
<1>1. /\ snap[s].pc = "adopt" /\ memory' = snap[s].obj /\ snap' = [snap EXCEPT ![s] = IdleSnap]
      /\ UNCHANGED <<version, scan, load, blobs, stored, index, listed>>
  BY DEF Adopt, Become
<1>2. snap[s].obj \in 1..Len(index)
  BY <1>1 DEF IInv, SnapsOK, Takes
<1>3. Len(index) \in Nat /\ version \in [File -> Version]
  BY DEF IInv, FilesOK
<1>4. memory' # 0 /\ memory' \in 0..Len(index)
  BY <1>1, <1>2, <1>3
<1>5. Ages
  BY <1>1, NothingAges
<1>6. Takes(version', blobs', Len(index'), IdleSnap)
  BY <1>1, <1>3, IdleTakes
<1>7. SnapsOK'
  BY <1>1, <1>4, <1>5, <1>6, SnapBecomes
<1>8. FilesOK'
  BY <1>1, <1>4 DEF IInv, FilesOK
<1> QED
  BY <1>1, <1>5, <1>7, <1>8, IndexesStay, ListedStay DEF IInv

-----------------------------------------------------------------------------
LEMMA NextIInv == IInv /\ [BackupNext]_backupVars => IInv'
<1> SUFFICES ASSUME IInv, [BackupNext]_backupVars PROVE IInv'
  OBVIOUS
<1>1. CASE Crash \/ LoadIndex \/ AdoptLoad
  BY <1>1, CrashKeeps, LoadIndexKeeps, AdoptLoadKeeps
<1>2. CASE Merge \/ StoreScan \/ AdoptScan \/ ScanFails
  BY <1>2, MergeKeeps, StoreScanKeeps, AdoptScanKeeps, ScanFailsKeeps
<1>3. ASSUME NEW f \in File, Write(f) PROVE IInv'
  BY <1>3, WriteKeeps
<1>4. ASSUME NEW scope \in SUBSET File \ {{}}, Plan(scope) PROVE IInv'
  BY <1>4, PlanKeeps
<1>5. ASSUME NEW s \in Snap, Begin(s) \/ Look(s) \/ Read(s) \/ Seal(s) PROVE IInv'
  BY <1>5, BeginKeeps, LookKeeps, ReadKeeps, SealKeeps
<1>6. ASSUME NEW s \in Snap,
             CreateBlob(s) \/ FillBlob(s) \/ FindBlob(s) \/ MeetPartialBlob(s)
      PROVE IInv'
  BY <1>6, CreateBlobKeeps, FillBlobKeeps, FindBlobKeeps, MeetPartialBlobKeeps
<1>7. ASSUME NEW s \in Snap, Learn(s) \/ Save(s) \/ Adopt(s) PROVE IInv'
  BY <1>7, LearnKeeps, SaveKeeps, AdoptKeeps
<1>8. CASE UNCHANGED backupVars
  <2>1. Ages /\ FilesOK'
    BY <1>8, NothingAges DEF backupVars, IInv, FilesOK
  <2> QED
    BY <1>8, <2>1, SnapsStay, IndexesStay, ListedStay DEF backupVars, IInv
<1> QED
  BY <1>1, <1>2, <1>3, <1>4, <1>5, <1>6, <1>7, <1>8 DEF BackupNext

LEMMA Invariant == BackupSpec => []IInv
  BY InitIInv, NextIInv, PTL DEF BackupSpec

\* The files, the blobs, the index objects and the references to them are of
\* their types; no reference outlives the daemon its object belonged to.
THEOREM TypeCorrect == BackupSpec => []BackupTypeOK
<1>1. IInv => BackupTypeOK
  <2> SUFFICES ASSUME IInv PROVE BackupTypeOK
    OBVIOUS
  <2>1. \A i \in Objects : index[i] \in [File -> Entry]
    BY DEF IInv, IndexesOK, Indexes
  <2>2. {memory, load, scan.obj} \subseteq {0} \cup Objects
    BY DEF IInv, FilesOK, Objects
  <2> QED
    BY <2>1, <2>2 DEF IInv, FilesOK, BackupTypeOK, Version
<1> QED
  BY <1>1, Invariant, PTL

\* What a snapshot says it holds is what the file contained at some moment of
\* the snapshot, although indexed hashes are trusted (service.ts:1008-1064).
THEOREM SnapshotsHoldTheTruth == BackupSpec => []SnapshotsAreTrue
<1>1. IInv => SnapshotsAreTrue
  BY DEF IInv, ListedOK, Restores, SnapshotsAreTrue
<1> QED
  BY <1>1, Invariant, PTL

\* Every file of a listed snapshot has a whole blob, although daemons die while
\* they write blobs that several calls share.
THEOREM SnapshotsCanBeRestored == BackupSpec => []SnapshotsAreWhole
<1>1. IInv => SnapshotsAreWhole
  BY DEF IInv, ListedOK, Restores, SnapshotsAreWhole
<1> QED
  BY <1>1, Invariant, PTL
=============================================================================
