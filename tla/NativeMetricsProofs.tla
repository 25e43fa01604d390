------------------------ MODULE NativeMetricsProofs ------------------------
(**************************************************************************)
(* What NativeMetrics guarantees for every number of sessions and every   *)
(* bound: totals count each record of the revision they name once, and    *)
(* what the lazy refresh leaves alone is whole.                           *)
(**************************************************************************)
EXTENDS NativeMetrics, SequenceTheorems, FiniteSetTheorems, TLAPS

Step == {"idle", "read", "check", "replace", "stage"}
Scan == [pc : Step, s : Session, entry : Revision \cup {Nothing}, acc : Count,
         cursor : 0..MaxLen, pages : 0..MaxPages, whole : BOOLEAN,
         gen : {0} \cup Generation, staged : Nat]
Part == [s : Session, entry : Revision, acc : Count, cursor : 0..MaxLen]
Sight == [pc : {"idle", "upsert", "invalidate"}, s : Session,
          rev : Revision \cup {Nothing}]
Totals == [rev : Revision, count : Count, complete : BOOLEAN]
Errors == [gen : Generation, rev : Revision, errors : SUBSET Record]
Batch == [pc : {"off", "choose", "pending", "loop"}, queue : SUBSET Session,
          progressed : BOOLEAN]

FilesOK == file \in [Session -> Revision]
CatalogOK ==
    /\ catalog \in [Session -> Revision \cup {Nothing}] /\ inspected \subseteq Session
    /\ observer \in [Observer -> Sight]
StorageOK ==
    /\ metrics \in [Session -> Totals \cup {Nothing}]
    /\ index \in [Session -> Errors \cup {Nothing}]
    /\ rows \in [Session -> SUBSET (Generation \X Record)]
JobsOK == job \in [Job -> Scan]
RefreshOK ==
    /\ run \in Batch /\ batches \in 0..MaxBatches /\ timer \in BOOLEAN
    /\ before \in 0..N /\ recent \subseteq Session
    /\ ongoing \in Seq(Part) /\ Len(ongoing) <= MaxResumable
Shape == FilesOK /\ CatalogOK /\ StorageOK /\ JobsOK /\ RefreshOK

\* The records of one inode up to the n-th, each counted once.
Prefix(id, n) == [r \in Record |-> IF r[1] = id /\ r[2] <= n THEN 1 ELSE 0]

\* A revision that the file of s had at some time.
Seen(s, rev) ==
    /\ rev \in Revision /\ rev.id <= file[s].id
    /\ rev.id = file[s].id => rev.len <= file[s].len

\* A scan of s for rev that has counted n records.
Scanned(s, rev, acc, n) ==
    /\ Seen(s, rev) /\ catalog[s] # Nothing /\ acc = Prefix(rev.id, n)
    /\ rev.id = file[s].id => n <= file[s].len

\* How far a rebuild is, whatever has become of its file since.
Stands(c) ==
    /\ c.pc = "read" => c.pages < MaxPages /\ ~c.whole
    /\ c.pc # "read" => c.cursor >= 1
    /\ c.pc \in {"replace", "stage"} => c.cursor <= c.entry.len
    /\ c.whole => c.cursor >= c.entry.len
    /\ c.pc # "stage" => c.gen = 0
    /\ c.gen = 0 => c.staged = 0

Rebuilds(c) ==
    \/ c = NoJob
    \/ c.pc # "idle" /\ Scanned(c.s, c.entry, c.acc, c.cursor) /\ Stands(c)

Jobs == \A j \in Job : Rebuilds(job[j])
Parts == \A i \in DOMAIN ongoing :
    Scanned(ongoing[i].s, ongoing[i].entry, ongoing[i].acc, ongoing[i].cursor)
Sights ==
    /\ \A s \in Session : catalog[s] # Nothing => Seen(s, catalog[s])
    /\ \A p \in Observer : observer[p].pc = "upsert" => Seen(observer[p].s, observer[p].rev)

\* The lazy refresh runs one thing at a time.
Refreshing ==
    /\ timer => run.pc = "off"
    /\ run.pc \in {"off", "choose"} => job["auto"].pc = "idle"
    /\ run.pc = "pending" => /\ ongoing # <<>> /\ job["auto"].pc # "idle"
                             /\ job["auto"].s = Head(ongoing).s
    /\ \A s \in run.queue : catalog[s] # Nothing

\* Rows are of the published generation and of at most one other.
Rows == \A s \in Session : \E g \in Generation :
            \A w \in rows[s] : w[1] \in {g, Published(s)}

IInv == Shape /\ Jobs /\ Parts /\ Sights /\ Refreshing /\ Rows /\ CountsAreExact

-----------------------------------------------------------------------------
(* Records.                                                                *)

\* The bounds are numbers, and the first session exists.
LEMMA Bounds ==
    /\ N \in Nat /\ 1 \in Session /\ MaxId \in Nat /\ MaxLen \in Nat /\ 1 \in 1..MaxId
    /\ FirstLen \in 1..MaxLen /\ 1 \in 1..MaxLen /\ PageLimit \in Nat /\ PageLimit >= 1
    /\ MaxPages \in Nat /\ MaxPages >= 1 /\ MaxResumable \in Nat /\ MaxResumable >= 1
    /\ MaxBatches \in Nat /\ BatchErrors \in Nat /\ BatchErrors >= 1 /\ MaxPerTrigger \in Nat
    /\ Certified \in BOOLEAN /\ Nothing \notin Revision /\ "auto" \in Job
  BY ConstantsOK DEF Session, Revision, Job

\* A job that has not begun is one.
LEMMA Blank ==
    /\ NoJob \in Scan /\ NoCount \in Count /\ NoJob.pc = "idle" /\ NoJob.gen = 0
    /\ Nothing \in Revision \cup {Nothing}
  BY Bounds DEF NoJob, NoCount, Scan, Count, Step

\* So is one that begins, or begins again where a scan was left.
LEMMA Begins ==
    ASSUME NEW s \in Session, NEW e \in Revision, NEW a \in Count, NEW n \in 0..MaxLen
    PROVE  LET c == Scanning(s, e, a, n)
           IN  /\ c \in Scan /\ c.pc = "read" /\ c.s = s /\ c.entry = e /\ c.acc = a
               /\ c.cursor = n /\ c.pages = 0 /\ ~c.whole /\ c.gen = 0 /\ c.staged = 0
<1>1. ASSUME NEW x \in Scan, NEW p \in Step
      PROVE  LET c == [x EXCEPT !.pc = p, !.s = s, !.entry = e, !.acc = a, !.cursor = n]
             IN  /\ c \in Scan /\ c.pc = p /\ c.s = s /\ c.entry = e /\ c.acc = a
                 /\ c.cursor = n /\ c.pages = x.pages /\ c.whole = x.whole
                 /\ c.gen = x.gen /\ c.staged = x.staged
  BY DEF Scan
<1>2. NoJob \in Scan /\ "read" \in Step
  BY Blank DEF Step
<1>3. NoJob.pages = 0 /\ ~NoJob.whole /\ NoJob.gen = 0 /\ NoJob.staged = 0
  BY DEF NoJob
<1> HIDE DEF NoJob
<1> QED
  BY <1>1, <1>2, <1>3, ZenonT(60) DEF Scanning

\* What a rebuild does to its own record keeps it one.
LEMMA Fields ==
    ASSUME NEW c \in Scan, NEW p \in Step, NEW a \in Count, NEW n \in 0..MaxLen,
           NEW m \in 0..MaxPages, NEW b \in BOOLEAN, NEW g \in {0} \cup Generation, NEW t \in Nat
    PROVE  /\ [c EXCEPT !.pc = p] \in Scan
           /\ [c EXCEPT !.pc = p, !.whole = b] \in Scan
           /\ [c EXCEPT !.acc = a, !.cursor = n, !.pages = m] \in Scan
           /\ [c EXCEPT !.gen = g, !.staged = t] \in Scan
  BY DEF Scan

\* The steps of a rebuild do not forget what it rebuilds.
LEMMA Same ==
    ASSUME NEW c \in Scan, NEW p \in Step, NEW b \in BOOLEAN
    PROVE  /\ \A d \in {[c EXCEPT !.pc = p], [c EXCEPT !.pc = p, !.whole = b]} :
                 /\ d.s = c.s /\ d.entry = c.entry /\ d.acc = c.acc /\ d.cursor = c.cursor
                 /\ d.pages = c.pages /\ d.gen = c.gen /\ d.staged = c.staged /\ d.pc = p
           /\ [c EXCEPT !.pc = p, !.whole = b].whole = b
           /\ [c EXCEPT !.pc = p].whole = c.whole
  BY DEF Scan

\* Assigning one rebuild leaves the others.
JobIs(j, c) ==
    /\ job' \in [Job -> Scan] /\ job'[j] = c
    /\ \A k \in Job \ {j} : job'[k] = job[k]

LEMMA JobStep ==
    ASSUME JobsOK, NEW j \in Job, NEW c \in Scan, job' = [job EXCEPT ![j] = c]
    PROVE  JobIs(j, c)
  BY DEF JobsOK, JobIs

\* Counting no record, and counting up to a record, of one inode.
LEMMA Prefixes ==
    ASSUME NEW rev \in Revision, NEW n \in Nat
    PROVE  /\ Prefix(rev.id, 0) = NoCount /\ Prefix(rev.id, n) \in Count
           /\ Prefix(rev.id, n) = Exactly([rev EXCEPT !.len = n])
<1>1. [rev EXCEPT !.len = n].id = rev.id /\ [rev EXCEPT !.len = n].len = n
  BY DEF Revision
<1>2. \A r \in Record : ~(r[2] <= 0)
  BY Bounds DEF Record
<1> QED
  BY <1>1, <1>2 DEF Prefix, NoCount, Exactly, Count

\* One page more counts each record of it once.
LEMMA Counts ==
    ASSUME NEW id \in 1..MaxId, NEW n \in Nat, NEW m \in Nat, n <= m
    PROVE  Counted(Prefix(id, n), {r \in Record : r[1] = id /\ r[2] > n /\ r[2] <= m}) = Prefix(id, m)
<1>1. \A r \in Record : r[2] \in Nat
  BY Bounds DEF Record
<1> QED
  BY <1>1 DEF Counted, Prefix

-----------------------------------------------------------------------------
(* Unfinished scans.                                                       *)

\* Every scan of q is one of the unfinished ones.
Among(q) == \A i \in DOMAIN q : \E k \in DOMAIN ongoing : q[i] = ongoing[k]

\* Taking the scan of a session out leaves the others.
LEMMA Removal ==
    ASSUME ongoing \in Seq(Part), NEW s
    PROVE  /\ Without(s) \in Seq(Part) /\ Among(Without(s))
           /\ Len(Without(s)) <= Len(ongoing)
           /\ (\E i \in DOMAIN ongoing : ongoing[i].s = s) => Len(Without(s)) < Len(ongoing)
<1>1. DOMAIN ongoing = 1..Len(ongoing) /\ Len(ongoing) \in Nat
  BY LenProperties
<1>2. CASE \A i \in DOMAIN ongoing : ongoing[i].s # s
  <2>1. Without(s) = ongoing
    BY <1>2 DEF Without
  <2> QED
    BY <1>1, <1>2, <2>1 DEF Among
<1>3. CASE \E i \in DOMAIN ongoing : ongoing[i].s = s
  <2> DEFINE p == Place(s)
             n == Len(ongoing)
             a == SubSeq(ongoing, 1, p - 1)
             b == SubSeq(ongoing, p + 1, n)
  <2>1. p \in 1..n /\ n \in Nat
    BY <1>1, <1>3 DEF Place
  <2>2. Without(s) = a \o b
    BY <1>3 DEF Without
  <2> HIDE DEF p
  <2>3. a \in Seq(Part) /\ Len(a) = p - 1 /\ \A i \in 1..(p - 1) : a[i] = ongoing[i]
    BY <1>1, <2>1, SubSeqProperties
  <2>4. \A i \in (p + 1)..n : ongoing[i] \in Part
    BY <1>1, <2>1, ElementOfSeq
  <2>5. /\ b \in Seq(Part)
        /\ Len(b) = IF p + 1 <= n THEN n - (p + 1) + 1 ELSE 0
        /\ \A i \in 1..(n - (p + 1) + 1) : b[i] = ongoing[(p + 1) + i - 1]
    BY <1>1, <2>1, <2>4, SubSeqProperties
  <2> HIDE DEF a, b
  <2>6. Len(b) = n - p
    <3> HIDE DEF n
    <3> QED
      BY <2>1, <2>5
  <2>7. /\ a \o b \in Seq(Part) /\ Len(a \o b) = Len(a) + Len(b)
        /\ \A i \in 1..(Len(a) + Len(b)) : (a \o b)[i] = IF i <= Len(a) THEN a[i] ELSE b[i - Len(a)]
    BY <2>3, <2>5, ConcatProperties, ZenonT(60)
  <2> DEFINE o == a \o b
  <2> HIDE DEF o
  <2>8. o \in Seq(Part) /\ Len(o) = n - 1 /\ DOMAIN o = 1..(n - 1)
    <3>1. Len(a) + Len(b) = n - 1
      BY <2>1, <2>3, <2>6
    <3> QED
      BY <2>7, <3>1, LenProperties DEF o
  <2>9. ASSUME NEW i \in DOMAIN o PROVE \E k \in DOMAIN ongoing : o[i] = ongoing[k]
    <3>1. i \in 1..(Len(a) + Len(b)) /\ i \in Nat
      BY <2>1, <2>3, <2>6, <2>8
    <3>2. CASE i <= p - 1
      BY <1>1, <2>1, <2>3, <2>7, <3>1, <3>2 DEF o
    <3>3. CASE i > p - 1
      <4>1. o[i] = b[i - (p - 1)]
        BY <2>1, <2>3, <2>7, <3>1, <3>3 DEF o
      <4>2. i - (p - 1) \in 1..(n - (p + 1) + 1) /\ (p + 1) + (i - (p - 1)) - 1 \in DOMAIN ongoing
        BY <1>1, <2>1, <2>8, <3>3
      <4> QED
        BY <2>5, <4>1, <4>2
    <3> QED
      BY <2>1, <3>1, <3>2, <3>3
  <2>10. Len(o) <= n /\ Len(o) < n
    <3> HIDE DEF n
    <3> QED
      BY <2>1, <2>8
  <2>11. Without(s) = o /\ Among(o)
    BY <2>2, <2>9 DEF Among, o
  <2> QED
    BY <2>8, <2>10, <2>11, ZenonT(60)
<1> QED
  BY <1>2, <1>3

\* The oldest unfinished scan makes room for another.
LEMMA Cap ==
    ASSUME ongoing \in Seq(Part), NEW q \in Seq(Part), Among(q), Len(q) <= MaxResumable
    PROVE  Capped(q) \in Seq(Part) /\ Among(Capped(q)) /\ Len(Capped(q)) < MaxResumable
<1>1. Len(q) \in Nat /\ DOMAIN q = 1..Len(q) /\ MaxResumable \in Nat /\ MaxResumable >= 1
  BY LenProperties, Bounds
<1>2. CASE Len(q) >= MaxResumable
  <2>1. q # <<>>
    BY <1>1, <1>2, EmptySeq
  <2>2. /\ Tail(q) \in Seq(Part) /\ Len(Tail(q)) = Len(q) - 1
        /\ \A i \in 1..Len(Tail(q)) : Tail(q)[i] = q[i + 1]
    BY <2>1, HeadTailProperties
  <2>3. DOMAIN Tail(q) = 1..(Len(q) - 1)
    BY <2>2, LenProperties
  <2>4. Among(Tail(q))
    BY <1>1, <2>2, <2>3 DEF Among
  <2> QED
    BY <1>1, <1>2, <2>2, <2>4 DEF Capped
<1>3. CASE ~(Len(q) >= MaxResumable)
  BY <1>1, <1>3 DEF Capped
<1> QED
  BY <1>2, <1>3

\* A scan put at the end of them.
LEMMA Added ==
    ASSUME Parts, NEW q \in Seq(Part), Among(q), NEW c \in Scan, Len(q) < MaxResumable,
           Scanned(c.s, c.entry, c.acc, c.cursor), ongoing' = Append(q, Progress(c)),
           UNCHANGED <<file, catalog>>
    PROVE  ongoing' \in Seq(Part) /\ Len(ongoing') <= MaxResumable /\ Parts'
<1> DEFINE p == Progress(c)
           o == Append(q, p)
<1>1. p \in Part /\ p.s = c.s /\ p.entry = c.entry /\ p.acc = c.acc /\ p.cursor = c.cursor
  BY DEF Progress, Part, Scan, Scanned, Seen
<1> HIDE DEF p
<1>2. /\ o \in Seq(Part) /\ Len(o) = Len(q) + 1 /\ o[Len(q) + 1] = p
      /\ \A i \in 1..Len(q) : o[i] = q[i]
  BY <1>1, AppendProperties
<1>3. DOMAIN o = 1..(Len(q) + 1) /\ DOMAIN q = 1..Len(q) /\ Len(q) \in Nat
  BY <1>2, LenProperties
<1> HIDE DEF o
<1>4. ASSUME NEW i \in DOMAIN o
      PROVE  Scanned(o[i].s, o[i].entry, o[i].acc, o[i].cursor)
  <2>1. CASE i = Len(q) + 1
    BY <1>1, <1>2, <2>1
  <2>2. CASE i \in DOMAIN q
    BY <1>2, <1>3, <2>2 DEF Among, Parts
  <2> QED
    BY <1>3, <2>1, <2>2
<1>5. ongoing' = o
  BY DEF o, p
<1>6. Parts'
  BY <1>4, <1>5 DEF Parts, Scanned, Seen
<1>7. MaxResumable \in Nat
  BY Bounds
<1> QED
  BY <1>2, <1>3, <1>5, <1>6, <1>7

\* Or none put there.
LEMMA Fewer ==
    ASSUME Parts, NEW q \in Seq(Part), Among(q), Len(q) <= MaxResumable, ongoing' = q,
           UNCHANGED <<file, catalog>>
    PROVE  ongoing' \in Seq(Part) /\ Len(ongoing') <= MaxResumable /\ Parts'
  BY DEF Among, Parts, Scanned, Seen

\* The batch goes on or is over.
LEMMA RunStops ==
    ASSUME batches \in 0..MaxBatches, NEW b \in BOOLEAN, RunEnds(b)
    PROVE  /\ run' = NoRun /\ run' \in Batch /\ run'.pc = "off" /\ run'.queue = {}
           /\ timer' \in BOOLEAN /\ batches' \in 0..MaxBatches
<1>1. NoRun \in Batch /\ NoRun.pc = "off" /\ NoRun.queue = {}
  BY DEF NoRun, Batch
<1>2. run' = NoRun
  BY DEF RunEnds
<1>3. timer' \in BOOLEAN /\ batches' \in 0..MaxBatches
  BY Bounds DEF RunEnds
<1> QED
  BY <1>1, <1>2, <1>3

-----------------------------------------------------------------------------
(* A rebuild that goes on and one that ends.                               *)

\* The scan that has just been tried again is no longer among the unfinished ones.
Waiting(s) ==
    /\ Without(s) \in Seq(Part) /\ Among(Without(s)) /\ Len(Without(s)) <= MaxResumable
    /\ run.pc = "pending" => Len(Without(s)) < MaxResumable

LEMMA NoLonger ==
    ASSUME RefreshOK, Refreshing, NEW s, run.pc = "pending" => s = job["auto"].s
    PROVE  Waiting(s)
<1>1. ongoing \in Seq(Part) /\ Len(ongoing) \in Nat /\ Len(ongoing) <= MaxResumable
  BY LenProperties DEF RefreshOK
<1>2. /\ Without(s) \in Seq(Part) /\ Among(Without(s)) /\ Len(Without(s)) <= Len(ongoing)
      /\ (\E i \in DOMAIN ongoing : ongoing[i].s = s) => Len(Without(s)) < Len(ongoing)
  BY <1>1, Removal, ZenonT(60)
<1>3. Len(Without(s)) \in Nat /\ MaxResumable \in Nat
  BY <1>2, LenProperties, Bounds
<1>4. ASSUME run.pc = "pending" PROVE \E i \in DOMAIN ongoing : ongoing[i].s = s
  <2>1. ongoing # <<>> /\ s = Head(ongoing).s
    BY <1>4 DEF Refreshing
  <2>2. 1 \in DOMAIN ongoing /\ Head(ongoing) = ongoing[1]
    BY <1>1, <2>1, HeadTailProperties, EmptySeq, LenProperties
  <2> QED
    BY <2>1, <2>2
<1> HIDE DEF Among
<1>5. CASE run.pc = "pending"
  BY <1>1, <1>2, <1>3, <1>4, <1>5 DEF Waiting
<1>6. CASE run.pc # "pending"
  BY <1>1, <1>2, <1>3, <1>6 DEF Waiting
<1> QED
  BY <1>5, <1>6

\* What is kept of a scan that ends is what was counted.
Keeps(c, result) ==
    result = "in_progress" => Scanned(c.s, c.entry, c.acc, c.cursor)

\* A resumed scan ends.
LEMMA ResumedOK ==
    ASSUME RefreshOK, Parts, Refreshing, NEW c \in Scan, NEW result, Keeps(c, result),
           Resumed(c, result), run.pc = "pending", c.s = job["auto"].s,
           UNCHANGED <<file, catalog, before>>
    PROVE  RefreshOK' /\ Parts' /\ run' = NoRun
<1>1. Waiting(c.s) /\ MaxResumable \in Nat
  BY NoLonger, Bounds
<1>2. batches \in 0..MaxBatches /\ (result \in {"available", "in_progress"}) \in BOOLEAN
  BY DEF RefreshOK
<1>3. RunEnds(result \in {"available", "in_progress"})
  BY DEF Resumed
<1>4. run' = NoRun /\ run' \in Batch /\ timer' \in BOOLEAN /\ batches' \in 0..MaxBatches
  BY <1>2, <1>3, RunStops
<1>5. ongoing' \in Seq(Part) /\ Len(ongoing') <= MaxResumable /\ Parts'
  <2>1. CASE result = "in_progress"
    <3>1. ongoing' = Append(Without(c.s), Progress(c))
      BY <2>1 DEF Resumed
    <3> QED
      BY <1>1, <2>1, <3>1, Added DEF Waiting, Keeps
  <2>2. CASE result # "in_progress"
    <3>1. ongoing' = Without(c.s)
      BY <2>2 DEF Resumed, Discarded
    <3> QED
      BY <1>1, <3>1, Fewer DEF Waiting
  <2> QED
    BY <2>1, <2>2
<1>6. recent' \subseteq Session
  BY DEF Resumed, RefreshOK, Scan
<1> QED
  BY <1>4, <1>5, <1>6 DEF RefreshOK

\* A candidate's scan ends.
LEMMA TriedOK ==
    ASSUME RefreshOK, Parts, Refreshing, NEW c \in Scan, NEW result, Keeps(c, result),
           Tried(c, result), run.pc = "loop", UNCHANGED <<file, catalog, before>>
    PROVE  /\ RefreshOK' /\ Parts' /\ timer' = timer
           /\ run'.pc = run.pc /\ run'.queue = run.queue
<1>1. Waiting(c.s) /\ MaxResumable \in Nat
  BY NoLonger, Bounds
<1>2. run' \in Batch /\ run'.pc = run.pc /\ run'.queue = run.queue
  BY DEF Tried, RefreshOK, Batch
<1>3. ongoing' \in Seq(Part) /\ Len(ongoing') <= MaxResumable /\ Parts'
  <2>1. CASE result = "in_progress"
    <3>1. ongoing' = Append(Capped(Without(c.s)), Progress(c))
      BY <2>1 DEF Tried
    <3>2. /\ Capped(Without(c.s)) \in Seq(Part) /\ Among(Capped(Without(c.s)))
          /\ Len(Capped(Without(c.s))) < MaxResumable
      BY <1>1, Cap DEF Waiting, RefreshOK
    <3> QED
      BY <2>1, <3>1, <3>2, Added DEF Keeps
  <2>2. CASE result = "threw"
    <3>1. ongoing' = ongoing
      BY <2>2 DEF Tried
    <3> QED
      BY <3>1 DEF RefreshOK, Parts, Scanned, Seen
  <2>3. CASE result \notin {"threw", "in_progress"}
    <3>1. ongoing' = Without(c.s)
      BY <2>3 DEF Tried
    <3> QED
      BY <1>1, <3>1, Fewer DEF Waiting
  <2> QED
    BY <2>1, <2>2, <2>3
<1>4. UNCHANGED <<recent, batches, timer>>
  BY DEF Tried
<1> QED
  BY <1>2, <1>3, <1>4 DEF RefreshOK

\* What a step of a rebuild leaves as it must be.
RefreshKept == RefreshOK' /\ Parts' /\ Refreshing'

\* A rebuild ends.
LEMMA EndsOK ==
    ASSUME JobsOK, RefreshOK, Parts, Refreshing, NEW j \in Job, NEW c \in Scan, NEW result,
           job[j].pc # "idle", c.s = job[j].s, Keeps(c, result), Ends(j, c, result),
           UNCHANGED <<file, catalog>>
    PROVE  JobIs(j, NoJob) /\ RefreshKept
<1>1. JobIs(j, NoJob)
  BY Blank, JobStep DEF Ends
<1> HIDE DEF NoJob
<1>2. CASE j # "auto"
  <2>1. UNCHANGED refresh /\ job'["auto"] = job["auto"]
    BY <1>1, <1>2, Bounds DEF Ends, JobIs
  <2> QED
    BY <1>1, <2>1 DEF RefreshKept, refresh, RefreshOK, Parts, Scanned, Seen, Refreshing
<1>3. CASE j = "auto"
  <2>1. job'["auto"].pc = "idle" /\ UNCHANGED before
    BY <1>1, <1>3, Blank DEF JobIs, Ends
  <2>2. run.pc \in {"pending", "loop"} /\ timer = FALSE
    BY <1>3 DEF RefreshOK, Batch, Refreshing
  <2>3. CASE run.pc = "pending"
    <3>1. RefreshOK' /\ Parts' /\ run' = NoRun
      BY <1>3, <2>1, <2>3, ResumedOK DEF Ends
    <3>2. run'.pc = "off" /\ run'.queue = {}
      BY <3>1 DEF NoRun
    <3> QED
      BY <1>1, <2>1, <3>1, <3>2 DEF RefreshKept, Refreshing
  <2>4. CASE run.pc = "loop"
    <3>1. /\ RefreshOK' /\ Parts' /\ timer' = timer
          /\ run'.pc = run.pc /\ run'.queue = run.queue
      BY <1>3, <2>1, <2>4, TriedOK DEF Ends
    <3> QED
      BY <1>1, <2>1, <2>2, <2>4, <3>1 DEF RefreshKept, Refreshing
  <2> QED
    BY <2>2, <2>3, <2>4
<1> QED
  BY <1>2, <1>3

\* A rebuild goes on.
LEMMA GoesOK ==
    ASSUME JobsOK, RefreshOK, Parts, Refreshing, NEW j \in Job, NEW c \in Scan,
           j = "auto" => job[j].pc # "idle" /\ c.pc # "idle" /\ c.s = job[j].s,
           Goes(j, c), UNCHANGED <<file, catalog>>
    PROVE  JobIs(j, c) /\ RefreshKept
<1>1. JobIs(j, c)
  BY JobStep DEF Goes
<1>2. UNCHANGED refresh
  BY DEF Goes
<1>3. RefreshOK' /\ Parts'
  BY <1>2 DEF refresh, RefreshOK, Parts, Scanned, Seen
<1>4. Refreshing'
  <2>1. j # "auto" => job'["auto"] = job["auto"]
    BY <1>1, Bounds DEF JobIs
  <2>2. j = "auto" => job'["auto"] = c
    BY <1>1 DEF JobIs
  <2> QED
    BY <1>2, <2>1, <2>2 DEF refresh, RefreshOK, Refreshing
<1> QED
  BY <1>1, <1>3, <1>4 DEF RefreshKept

-----------------------------------------------------------------------------
(* Generations.                                                            *)

\* An element more makes a set at most one larger.
LEMMA OneMore ==
    ASSUME NEW S, IsFiniteSet(S), NEW x, NEW n \in Nat, Cardinality(S) <= n
    PROVE  IsFiniteSet(S \cup {x}) /\ Cardinality(S \cup {x}) \in Nat /\ Cardinality(S \cup {x}) <= n + 1
<1>1. Cardinality(S) \in Nat /\ IsFiniteSet(S \cup {x})
  BY FS_AddElement, FS_CardinalityType
<1>2. Cardinality(S \cup {x}) = IF x \in S THEN Cardinality(S) ELSE Cardinality(S) + 1
  BY FS_AddElement
<1> QED
  BY <1>1, <1>2

\* There are more generations than those of all rebuilds, the published one
\* and the one whose rows a rebuild left behind.
LEMMA FreshIs ==
    ASSUME StorageOK, JobsOK, Rows, NEW s \in Session
    PROVE  /\ Fresh(s) \in Generation /\ Fresh(s) # Published(s)
           /\ \A w \in rows[s] : w[1] # Fresh(s)
           /\ \A j \in Job : job[j].s = s => job[j].gen # Fresh(s)
<1>1. PICK g \in Generation : \A w \in rows[s] : w[1] \in {g, Published(s)}
  BY DEF Rows
<1> DEFINE used == {job[j].gen : j \in Job}
           k == Cardinality(Job)
<1>2. IsFiniteSet(Job) /\ k \in Nat
  BY ConstantsOK, FS_AddElement, FS_CardinalityType DEF Job
<1>3. IsFiniteSet(used) /\ Cardinality(used) \in Nat /\ Cardinality(used) <= k
  <2>1. [j \in Job |-> job[j].gen] \in Surjection(Job, used)
    BY DEF Surjection
  <2> HIDE DEF used
  <2> QED
    BY <1>2, <2>1, FS_Surjection, FS_CardinalityType
<1>4. Job # {}
  BY DEF Job
<1>5. k >= 1
  BY <1>2, <1>4, FS_EmptySet
<1> HIDE DEF k
<1>6. /\ IsFiniteSet(Generation) /\ Cardinality(Generation) = 2 * k + 2
  BY <1>2, FS_Interval, 1 \in Int, 2 * k + 2 \in Int DEF Generation, k
<1> DEFINE taken == (used \cup {Published(s)}) \cup {g}
<1>7. IsFiniteSet(taken) /\ Cardinality(taken) \in Nat /\ Cardinality(taken) <= k + 2
  <2> HIDE DEF used
  <2>1. IsFiniteSet(used \cup {Published(s)}) /\ Cardinality(used \cup {Published(s)}) <= k + 1
    BY <1>2, <1>3, OneMore
  <2>2. k + 1 \in Nat /\ (k + 1) + 1 = k + 2
    BY <1>2
  <2> QED
    BY <2>1, <2>2, OneMore
<1> HIDE DEF taken
<1>8. ~(Generation \subseteq taken)
  <2>1. SUFFICES ASSUME Generation \subseteq taken PROVE FALSE
    OBVIOUS
  <2>2. Cardinality(Generation) <= Cardinality(taken)
    BY <1>7, <2>1, FS_Subset
  <2> HIDE DEF Generation
  <2> QED
    BY <1>2, <1>5, <1>6, <1>7, <2>2
<1>9. PICK h \in Generation : h \notin taken
  BY <1>8
<1>10. /\ h # Published(s) /\ \A w \in rows[s] : w[1] # h
       /\ \A j \in Job : job[j].s = s => job[j].gen # h
  <2>1. h # g /\ h # Published(s) /\ \A j \in Job : job[j].gen # h
    BY <1>9 DEF taken
  <2> QED
    BY <1>1, <2>1
<1> HIDE DEF Generation
<1> QED
  BY <1>9, <1>10 DEF Fresh

-----------------------------------------------------------------------------
(* The agent's files and the catalog only go on.                           *)

\* What was seen of a file, and counted of it, stays true of it.
Later ==
    /\ \A s \in Session :
         /\ file'[s].id \in Nat /\ file'[s].id >= file[s].id
         /\ file'[s].id = file[s].id => file'[s].len >= file[s].len
         /\ file'[s].len \in Nat
    /\ \A s \in Session : catalog[s] # Nothing => catalog'[s] # Nothing

LEMMA StillSeen ==
    ASSUME FilesOK, Later, NEW s \in Session, NEW rev, Seen(s, rev)
    PROVE  Seen(s, rev)'
<1>1. rev.id \in Nat /\ rev.len \in Nat /\ file[s].id \in Nat /\ file[s].len \in Nat
  BY Bounds DEF Seen, Revision, FilesOK
<1> QED
  BY <1>1 DEF Seen, Later

LEMMA StillScanned ==
    ASSUME FilesOK, Later, NEW s \in Session, NEW rev, NEW acc, NEW n \in Nat,
           Scanned(s, rev, acc, n)
    PROVE  Scanned(s, rev, acc, n)'
<1>1. Seen(s, rev)'
  BY StillSeen DEF Scanned
<1>2. rev.id \in Nat /\ file[s].id \in Nat /\ file[s].len \in Nat
  BY Bounds DEF Scanned, Seen, Revision, FilesOK
<1>3. catalog'[s] # Nothing /\ acc = Prefix(rev.id, n)
  BY DEF Scanned, Later
<1>4. rev.id = file'[s].id => n <= file'[s].len
  BY <1>2 DEF Scanned, Seen, Later
<1>5. Prefix(rev.id, n)' = Prefix(rev.id, n)
  BY DEF Prefix
<1> QED
  BY <1>1, <1>3, <1>4 DEF Scanned

\* So every rebuild and every unfinished scan stays good.
LEMMA StillGood ==
    ASSUME FilesOK, JobsOK, RefreshOK, Jobs, Parts, Refreshing, Later, UNCHANGED <<job, refresh>>
    PROVE  Jobs' /\ Parts' /\ Refreshing' /\ JobsOK' /\ RefreshOK'
<1>1. ASSUME NEW j \in Job PROVE Rebuilds(job[j])'
  <2>1. ASSUME NEW c \in Scan, Scanned(c.s, c.entry, c.acc, c.cursor)
        PROVE  Scanned(c.s, c.entry, c.acc, c.cursor)'
    <3>1. c.s \in Session /\ c.cursor \in Nat
      BY Bounds DEF Scan
    <3> QED
      BY <2>1, <3>1, StillScanned
  <2>2. job[j] \in Scan /\ job'[j] = job[j]
    BY DEF JobsOK
  <2>3. CASE job[j] = NoJob
    BY <2>2, <2>3 DEF Rebuilds
  <2>4. CASE job[j] # NoJob
    <3>1. job[j].pc # "idle" /\ Stands(job[j]) /\ Scanned(job[j].s, job[j].entry, job[j].acc, job[j].cursor)
      BY <2>4 DEF Jobs, Rebuilds
    <3>2. Scanned(job[j].s, job[j].entry, job[j].acc, job[j].cursor)'
      BY <2>1, <2>2, <3>1 DEF Scanned, Seen
    <3>3. Stands(job[j])'
      BY <2>2, <3>1 DEF Stands
    <3> QED
      BY <2>2, <3>1, <3>2, <3>3 DEF Rebuilds
  <2> QED
    BY <2>3, <2>4
<1>2. ASSUME NEW i \in DOMAIN ongoing
      PROVE  Scanned(ongoing[i].s, ongoing[i].entry, ongoing[i].acc, ongoing[i].cursor)'
  <2>1. ongoing[i] \in Part
    BY ElementOfSeq, LenProperties DEF RefreshOK
  <2>2. /\ ongoing[i].s \in Session /\ ongoing[i].cursor \in Nat
        /\ Scanned(ongoing[i].s, ongoing[i].entry, ongoing[i].acc, ongoing[i].cursor)
    BY <2>1, Bounds DEF Part, Parts
  <2>3. ASSUME NEW s \in Session, NEW e, NEW a, NEW n \in Nat, Scanned(s, e, a, n)
        PROVE  Scanned(s, e, a, n)'
    BY <2>3, StillScanned
  <2> QED
    BY <2>2, <2>3 DEF Scanned, Seen, refresh
<1>3. UNCHANGED <<run, batches, timer, before, recent, ongoing>>
  BY DEF refresh
<1>4. Refreshing'
  <2>1. \A s \in run.queue : catalog'[s] # Nothing
    BY DEF Refreshing, Later, RefreshOK, Batch
  <2> QED
    BY <1>3, <2>1 DEF Refreshing
<1> QED
  BY <1>1, <1>2, <1>3, <1>4 DEF Jobs, Parts, JobsOK, RefreshOK

-----------------------------------------------------------------------------
(* Files and catalog.                                                      *)

\* What is published stays what it is.
LEMMA StoredSame ==
    ASSUME StorageOK, Rows, CountsAreExact, UNCHANGED storage
    PROVE  StorageOK' /\ Rows' /\ CountsAreExact'
<1>1. UNCHANGED <<metrics, index, rows>>
  BY DEF storage
<1>2. \A s \in Session : Published(s)' = Published(s)
  BY <1>1 DEF Published
<1> QED
  BY <1>1, <1>2 DEF StorageOK, Rows, CountsAreExact, Exactly

\* The agent writes its file, or begins another.
LEMMA FileGoesOn ==
    ASSUME IInv, NEW s \in Session, Append1(s) \/ Rotate(s)
    PROVE  IInv'
<1> USE DEF IInv, Shape
<1>1. file[s] \in Revision /\ file[s].id \in Nat /\ file[s].len \in Nat
  BY Bounds DEF FilesOK, Revision
<1>2. PICK f \in Revision : /\ file' = [file EXCEPT ![s] = f] /\ f.id >= file[s].id
                            /\ f.id = file[s].id => f.len >= file[s].len
  <2>1. CASE Append1(s)
    <3> DEFINE f == [file[s] EXCEPT !.len = file[s].len + 1]
    <3>1. file' = [file EXCEPT ![s] = f]
      BY <1>1, <2>1 DEF Append1, FilesOK, Revision
    <3>2. file[s].len + 1 \in 1..MaxLen
      BY <1>1, <2>1, Bounds DEF Append1
    <3>3. f \in Revision /\ f.id = file[s].id /\ f.len = file[s].len + 1
      BY <1>1, <3>2 DEF Revision
    <3> HIDE DEF f
    <3>4. f.id >= file[s].id /\ (f.id = file[s].id => f.len >= file[s].len)
      BY <1>1, <3>3
    <3> QED
      BY <3>1, <3>3, <3>4, ZenonT(60)
  <2>2. CASE Rotate(s)
    <3> DEFINE f == [id |-> file[s].id + 1, len |-> 1]
    <3>1. file' = [file EXCEPT ![s] = f]
      BY <2>2 DEF Rotate
    <3>2. file[s].id + 1 \in 1..MaxId
      BY <1>1, <2>2, Bounds DEF Rotate
    <3>3. f \in Revision /\ f.id = file[s].id + 1
      BY <3>2, Bounds DEF Revision
    <3> HIDE DEF f
    <3>4. f.id >= file[s].id /\ (f.id = file[s].id => f.len >= file[s].len)
      BY <1>1, <3>3
    <3> QED
      BY <3>1, <3>3, <3>4, ZenonT(60)
  <2> QED
    BY <2>1, <2>2
<1>3. SourceFrame
  BY DEF Append1, Rotate
<1>4. UNCHANGED <<catalog, inspected, observer, storage, job, refresh>>
  BY <1>3 DEF SourceFrame
<1>5. FilesOK'
  BY <1>2 DEF FilesOK
<1>6. Later
  <2>1. ASSUME NEW t \in Session
        PROVE  /\ file'[t].id \in Nat /\ file'[t].id >= file[t].id
               /\ file'[t].id = file[t].id => file'[t].len >= file[t].len
               /\ file'[t].len \in Nat
    <3>1. file[t] \in Revision /\ file[t].id \in Nat /\ file[t].len \in Nat
      BY Bounds DEF FilesOK, Revision
    <3>2. f.id \in Nat /\ f.len \in Nat
      BY <1>2, Bounds DEF Revision
    <3> QED
      BY <1>2, <3>1, <3>2 DEF FilesOK
  <2> QED
    BY <1>4, <2>1 DEF Later
<1>7. Sights'
  <2>1. \A t \in Session : catalog[t] # Nothing => Seen(t, catalog[t])'
    BY <1>4, <1>6, StillSeen DEF Sights
  <2>2. \A p \in Observer : observer[p].pc = "upsert" => Seen(observer[p].s, observer[p].rev)'
    <3>1. \A p \in Observer : observer[p].s \in Session
      BY DEF CatalogOK, Sight
    <3> QED
      BY <1>4, <1>6, <3>1, StillSeen DEF Sights
  <2> QED
    BY <1>4, <2>1, <2>2 DEF Sights, Seen
<1>8. Jobs' /\ Parts' /\ Refreshing' /\ JobsOK' /\ RefreshOK'
  BY <1>4, <1>6, StillGood
<1>9. StorageOK' /\ Rows' /\ CountsAreExact'
  BY <1>4, StoredSame
<1> QED
  BY <1>4, <1>5, <1>7, <1>8, <1>9 DEF CatalogOK

\* A catalog step takes no entry away.
LEMMA CatalogKept ==
    ASSUME IInv, UNCHANGED <<file, job, refresh>>, CatalogOK', Sights',
           StorageOK', Rows', CountsAreExact',
           \A s \in Session : catalog[s] # Nothing => catalog'[s] # Nothing
    PROVE  IInv'
<1> USE DEF IInv, Shape
<1>1. FilesOK' /\ Later
  BY Bounds DEF FilesOK, Later, Revision
<1>2. Jobs' /\ Parts' /\ Refreshing' /\ JobsOK' /\ RefreshOK'
  BY <1>1, StillGood
<1> QED
  BY <1>1, <1>2

\* A writer looks at the file.
LEMMA LookOK ==
    ASSUME IInv, NEW p \in Observer, NEW s \in Session, Look(p, s)
    PROVE  IInv'
<1> USE DEF IInv, Shape
<1>1. /\ UNCHANGED <<file, job, refresh, catalog, inspected, storage>>
      /\ observer' = [observer EXCEPT ![p] = [pc |-> "upsert", s |-> s, rev |-> file[s]]]
  BY DEF Look, ObserverFrame
<1>2. file[s] \in Revision /\ file[s].id \in Nat /\ file[s].len \in Nat
  BY Bounds DEF FilesOK, Revision
<1>3. [pc |-> "upsert", s |-> s, rev |-> file[s]] \in Sight
  BY <1>2 DEF Sight
<1>4. CatalogOK'
  BY <1>1, <1>3 DEF CatalogOK
<1>5. Seen(s, file[s])
  BY <1>2 DEF Seen
<1>6. Sights'
  <2>1. \A q \in Observer : \/ observer'[q] = [pc |-> "upsert", s |-> s, rev |-> file[s]]
                            \/ observer'[q] = observer[q]
    BY <1>1 DEF CatalogOK
  <2> QED
    BY <1>1, <1>5, <2>1 DEF Sights, Seen
<1>7. StorageOK' /\ Rows' /\ CountsAreExact'
  BY <1>1, StoredSame
<1> QED
  BY <1>1, <1>4, <1>6, <1>7, CatalogKept

\* What a writer's record becomes.
LEMMA Sighted ==
    ASSUME NEW o \in Sight, NEW q \in {"idle", "upsert", "invalidate"}
    PROVE  [o EXCEPT !.pc = q] \in Sight /\ [o EXCEPT !.pc = q].pc = q
  BY DEF Sight

\* It writes what it saw, or fails to.
LEMMA UpsertOK ==
    ASSUME IInv, NEW p \in Observer, NEW ok \in BOOLEAN, Upsert(p, ok)
    PROVE  IInv'
<1> USE DEF IInv, Shape
<1> DEFINE s == observer[p].s
           rev == observer[p].rev
<1>1. observer[p] \in Sight /\ s \in Session /\ UNCHANGED <<file, job, refresh, storage>>
  BY DEF Upsert, ObserverFrame, CatalogOK, Sight
<1>2. Seen(s, rev)
  BY DEF Upsert, Sights
<1>3. PICK q \in {"idle", "invalidate"} : observer' = [observer EXCEPT ![p].pc = q]
  BY DEF Upsert
<1>4. \A o \in Observer \ {p} : observer'[o] = observer[o]
  BY <1>3 DEF CatalogOK
<1>5. observer' \in [Observer -> Sight] /\ observer'[p].pc = q
  <2>1. observer' = [observer EXCEPT ![p] = [observer[p] EXCEPT !.pc = q]]
    BY <1>3 DEF CatalogOK
  <2> QED
    BY <1>1, <2>1, Sighted DEF CatalogOK
<1>6. /\ catalog' \in [Session -> Revision \cup {Nothing}] /\ inspected' \subseteq Session
      /\ \A t \in Session : catalog'[t] \in {catalog[t], rev} /\ (catalog'[t] = catalog[t] \/ t = s)
  <2>1. CASE ok
    <3>1. catalog' = [catalog EXCEPT ![s] = Merged(catalog[s], rev)]
      BY <2>1 DEF Upsert
    <3>2. Merged(catalog[s], rev) \in {catalog[s], rev}
      BY DEF Merged
    <3>3. inspected' \subseteq Session
      BY <1>1, <2>1 DEF Upsert, CatalogOK
    <3> HIDE DEF s, rev
    <3> QED
      BY <1>1, <1>2, <3>1, <3>2, <3>3 DEF CatalogOK, Seen
  <2>2. CASE ~ok
    BY <2>2 DEF Upsert, CatalogOK
  <2> QED
    BY <2>1, <2>2
<1>7. rev # Nothing
  BY <1>2, Bounds DEF Seen
<1>8. Sights'
  <2> HIDE DEF s, rev
  <2>1. \A t \in Session : catalog'[t] # Nothing => Seen(t, catalog'[t])
    BY <1>2, <1>6 DEF Sights
  <2>2. \A o \in Observer : observer'[o].pc = "upsert" => observer'[o] = observer[o]
    BY <1>3, <1>4, <1>5
  <2> QED
    BY <1>1, <2>1, <2>2 DEF Sights, Seen
<1>9. StorageOK' /\ Rows' /\ CountsAreExact'
  BY <1>1, StoredSame
<1> QED
  BY <1>1, <1>5, <1>6, <1>7, <1>8, <1>9, CatalogKept DEF CatalogOK

\* The capture drops the metrics of what it has catalogued.
LEMMA InvalidateOK ==
    ASSUME IInv, NEW ok \in BOOLEAN, Invalidate(ok)
    PROVE  IInv'
<1> USE DEF IInv, Shape
<1> DEFINE s == observer["capture"].s
<1>1. observer["capture"] \in Sight /\ s \in Session /\ "capture" \in Observer
  BY DEF CatalogOK, Sight, Observer
<1>2. UNCHANGED <<file, job, refresh, catalog, inspected>>
  BY DEF Invalidate, ObserverFrame
<1>3. observer' = [observer EXCEPT !["capture"] = [observer["capture"] EXCEPT !.pc = "idle"]]
  BY DEF Invalidate, CatalogOK
<1>4. CatalogOK' /\ \A p \in Observer : observer'[p].pc = "upsert" => observer'[p] = observer[p]
  BY <1>1, <1>2, <1>3, Sighted DEF CatalogOK
<1>5. Sights'
  BY <1>2, <1>4 DEF Sights, Seen
<1>6. StorageOK' /\ Rows' /\ CountsAreExact'
  <2>1. CASE ok
    <3>1. /\ metrics' = [metrics EXCEPT ![s] = Nothing]
          /\ index' = [index EXCEPT ![s] = Nothing] /\ rows' = [rows EXCEPT ![s] = {}]
      BY <2>1 DEF Invalidate
    <3>2. StorageOK'
      BY <3>1 DEF StorageOK
    <3>3. \A t \in Session : \/ metrics'[t] = Nothing /\ rows'[t] = {}
                             \/ metrics'[t] = metrics[t] /\ rows'[t] = rows[t]
                                /\ Published(t)' = Published(t)
      BY <1>1, <3>1 DEF StorageOK, Published
    <3> HIDE DEF s
    <3>4. Rows'
      <4>1. ASSUME NEW t \in Session PROVE \E g \in Generation : \A w \in rows'[t] : w[1] \in {g, Published(t)'}
        BY <3>3 DEF Rows
      <4> QED
        BY <4>1 DEF Rows
    <3>5. CountsAreExact'
      BY <3>3 DEF CountsAreExact, Exactly
    <3> QED
      BY <3>2, <3>4, <3>5
  <2>2. CASE ~ok
    BY <2>2, StoredSame DEF Invalidate
  <2> QED
    BY <2>1, <2>2
<1> QED
  BY <1>2, <1>4, <1>5, <1>6, CatalogKept

\* The tracker looks at a session again.
LEMMA ThrottleOK ==
    ASSUME IInv, NEW s \in Session, ThrottleEnds(s)
    PROVE  IInv'
<1> USE DEF IInv, Shape
<1>1. UNCHANGED <<file, catalog, observer, storage, job, refresh>> /\ inspected' \subseteq Session
  BY DEF ThrottleEnds, CatalogOK
<1>2. CatalogOK' /\ Sights'
  BY <1>1 DEF CatalogOK, Sights, Seen
<1>3. StorageOK' /\ Rows' /\ CountsAreExact'
  BY <1>1, StoredSame
<1> QED
  BY <1>1, <1>2, <1>3, CatalogKept

-----------------------------------------------------------------------------
(* Rebuilds.                                                               *)

\* A step of one rebuild that leaves it as it must be.
LEMMA RebuildKept ==
    ASSUME IInv, NEW j \in Job, NEW c \in Scan, Rebuilds(c), JobIs(j, c), RefreshKept,
           JobFrame, StorageOK', Rows', CountsAreExact'
    PROVE  IInv'
<1> USE DEF IInv, Shape
<1>1. UNCHANGED <<file, catalog, inspected, observer>>
  BY DEF JobFrame
<1>2. FilesOK' /\ CatalogOK' /\ Sights'
  BY <1>1 DEF FilesOK, CatalogOK, Sights, Seen
<1>3. Jobs'
  <2>1. ASSUME NEW k \in Job PROVE Rebuilds(job[k])'
    <3>1. job'[k] = c \/ job'[k] = job[k]
      BY DEF JobIs
    <3>2. Rebuilds(job'[k])
      BY <3>1 DEF Jobs
    <3> QED
      BY <1>1, <3>2 DEF Rebuilds, Scanned, Seen, Stands
  <2> QED
    BY <2>1 DEF Jobs
<1>4. JobsOK'
  BY DEF JobsOK, JobIs
<1> QED
  BY <1>2, <1>3, <1>4 DEF RefreshKept

\* A rebuild that ends leaves everything else as it must be.
LEMMA RebuildEnds ==
    ASSUME IInv, NEW j \in Job, job[j].pc # "idle", NEW c \in Scan, c.s = job[j].s, NEW result,
           Keeps(c, result), Ends(j, c, result), JobFrame, StorageOK', Rows', CountsAreExact'
    PROVE  IInv'
<1>1. JobIs(j, NoJob) /\ RefreshKept
  BY EndsOK DEF IInv, Shape, JobFrame
<1> QED
  BY <1>1, Blank, RebuildKept DEF Rebuilds

\* So does one that goes on.
LEMMA RebuildGoes ==
    ASSUME IInv, NEW j \in Job, job[j].pc # "idle", NEW c \in Scan, c.s = job[j].s,
           c.pc # "idle", Rebuilds(c), Goes(j, c), JobFrame, StorageOK', Rows', CountsAreExact'
    PROVE  IInv'
<1>1. JobIs(j, c) /\ RefreshKept
  BY GoesOK DEF IInv, Shape, JobFrame
<1> QED
  BY <1>1, RebuildKept

\* What a rebuild under way is.
LEMMA UnderWay ==
    ASSUME IInv, NEW j \in Job, job[j].pc # "idle"
    PROVE  /\ job[j] \in Scan /\ job[j].s \in Session /\ job[j].entry \in Revision
           /\ job[j].cursor \in 0..MaxLen /\ job[j].pages \in 0..MaxPages
           /\ Scanned(job[j].s, job[j].entry, job[j].acc, job[j].cursor) /\ Stands(job[j])
<1>1. job[j] \in Scan
  BY DEF IInv, Shape, JobsOK
<1>2. Scanned(job[j].s, job[j].entry, job[j].acc, job[j].cursor) /\ Stands(job[j])
  BY Blank DEF IInv, Jobs, Rebuilds
<1> QED
  BY <1>1, <1>2 DEF Scan, Scanned, Seen

\* A page is counted, and nothing else is touched.
ReadOn(c, a, n, m) == [c EXCEPT !.acc = a, !.cursor = n, !.pages = m]

LEMMA PageRead ==
    ASSUME NEW c \in Scan, NEW a \in Count, NEW n \in 0..MaxLen, NEW m \in 0..MaxPages
    PROVE  /\ ReadOn(c, a, n, m) \in Scan
           /\ ReadOn(c, a, n, m).s = c.s /\ ReadOn(c, a, n, m).entry = c.entry
           /\ ReadOn(c, a, n, m).acc = a /\ ReadOn(c, a, n, m).cursor = n
           /\ ReadOn(c, a, n, m).pages = m /\ ReadOn(c, a, n, m).pc = c.pc
           /\ ReadOn(c, a, n, m).whole = c.whole /\ ReadOn(c, a, n, m).gen = c.gen
           /\ ReadOn(c, a, n, m).staged = c.staged
  BY DEF Scan, ReadOn

\* One page, or the end of the scan.
LEMMA ReadPageOK ==
    ASSUME IInv, NEW j \in Job, ReadPage(j)
    PROVE  IInv'
<1> DEFINE c == job[j]
           f == file[c.s]
           to == IF f.len < c.cursor + PageLimit THEN f.len ELSE c.cursor + PageLimit
           page == {r \in Record : r[1] = f.id /\ r[2] > c.cursor /\ r[2] <= to}
           d == [c EXCEPT !.acc = Counted(c.acc, page), !.cursor = to, !.pages = c.pages + 1]
<1>1. c.pc = "read" /\ JobFrame /\ UNCHANGED storage
  BY DEF ReadPage
<1>2. /\ c \in Scan /\ c.s \in Session /\ c.entry \in Revision /\ c.cursor \in Nat
      /\ c.cursor <= MaxLen /\ c.pages \in Nat /\ MaxLen \in Nat /\ MaxPages \in Nat
      /\ Scanned(c.s, c.entry, c.acc, c.cursor) /\ Stands(c)
  BY <1>1, UnderWay, Bounds
<1>3. StorageOK' /\ Rows' /\ CountsAreExact'
  BY <1>1, StoredSame DEF IInv, Shape
<1>4. ASSUME NEW result, Ends(j, c, result), result # "in_progress"
      PROVE  IInv'
  BY <1>1, <1>2, <1>3, <1>4, RebuildEnds DEF Keeps
<1>5. ASSUME {f.id, catalog[c.s].id} = {c.entry.id},
             \/ to = f.len /\ Goes(j, [d EXCEPT !.pc = "check", !.whole = TRUE])
             \/ to < f.len /\ d.pages < MaxPages /\ Goes(j, d)
             \/ /\ to < f.len /\ d.pages = MaxPages
                /\ IF j = "auto" THEN Ends(j, d, "in_progress")
                   ELSE Goes(j, [d EXCEPT !.pc = "check"])
      PROVE  IInv'
  <2>1. f \in Revision /\ f.id = c.entry.id /\ f.len \in 1..MaxLen /\ f.id \in 1..MaxId
    BY <1>2, <1>5 DEF IInv, Shape, FilesOK, Revision
  <2>2. c.cursor <= f.len /\ c.entry.len <= f.len /\ c.acc = Prefix(f.id, c.cursor)
    BY <1>2, <2>1 DEF Scanned, Seen
  <2>3. /\ to \in 1..MaxLen /\ c.cursor <= to /\ to <= f.len /\ to \in Nat
        /\ c.pages + 1 \in 0..MaxPages
    <3>1. PageLimit \in Nat /\ PageLimit >= 1 /\ f.len \in Nat /\ f.len >= 1 /\ f.len <= MaxLen
      BY <2>1, Bounds
    <3>2. c.pages < MaxPages
      BY <1>1, <1>2 DEF Stands
    <3> HIDE DEF c, f
    <3> QED
      BY <1>2, <2>2, <3>1, <3>2
  <2> DEFINE a == Counted(c.acc, page)
  <2>4. a = Prefix(f.id, to) /\ a \in Count
    <3>1. Counted(Prefix(f.id, c.cursor), page) = Prefix(f.id, to)
      <4> HIDE DEF c, f, to
      <4> QED
        BY <1>2, <2>1, <2>3, Counts
    <3>2. Prefix(f.id, to) \in Count
      BY <2>1, <2>3, Prefixes
    <3> HIDE DEF page, to, f
    <3> QED
      BY <2>2, <3>1, <3>2, ZenonT(60)
  <2>5. /\ d \in Scan /\ d.s = c.s /\ d.entry = c.entry /\ d.acc = a /\ d.cursor = to
        /\ d.pages = c.pages + 1 /\ d.pc = "read" /\ d.whole = c.whole
        /\ d.gen = c.gen /\ d.staged = c.staged
    <3>2. to \in 0..MaxLen /\ c.pages + 1 \in 0..MaxPages
      BY <2>3
    <3> HIDE DEF to, a, c
    <3>3. c \in Scan /\ a \in Count /\ c.pc = "read"
      BY <1>1, <1>2, <2>4
    <3>4. d = ReadOn(c, a, to, c.pages + 1)
      BY DEF a, ReadOn
    <3> HIDE DEF d
    <3> QED
      BY <3>2, <3>3, <3>4, PageRead
  <2> HIDE DEF d
  <2>6. Scanned(d.s, d.entry, d.acc, d.cursor)
    <3>1. c.s = d.s /\ c.entry = d.entry /\ d.acc = Prefix(c.entry.id, to)
      BY <2>1, <2>4, <2>5
    <3> HIDE DEF to, page, a
    <3> QED
      BY <1>2, <2>1, <2>3, <2>5, <3>1 DEF Scanned
  <2>7. /\ c.whole = FALSE /\ c.gen = 0 /\ c.staged = 0
    BY <1>1, <1>2 DEF Stands, Scan
  <2>8. ASSUME NEW b \in BOOLEAN, b => to = f.len
        PROVE  LET e == [d EXCEPT !.pc = "check", !.whole = b]
               IN  e \in Scan /\ Rebuilds(e) /\ e.s = c.s /\ e.pc = "check"
    <3> DEFINE e == [d EXCEPT !.pc = "check", !.whole = b]
    <3>1. "check" \in Step
      BY DEF Step
    <3>2. /\ e \in Scan /\ e.s = d.s /\ e.entry = d.entry /\ e.acc = d.acc
          /\ e.cursor = d.cursor /\ e.gen = d.gen /\ e.staged = d.staged /\ e.pc = "check"
          /\ e.whole = b
      BY <2>5, <3>1 DEF Scan
    <3> HIDE DEF e
    <3>3. Stands(e)
      <4> HIDE DEF c, f, to, a, page
      <4>1. e.cursor = to /\ e.gen = 0 /\ e.staged = 0 /\ e.entry = c.entry
        BY <2>5, <2>7, <3>2
      <4>2. e.whole => e.cursor >= e.entry.len
        BY <2>2, <2>8, <3>2, <4>1
      <4>3. e.cursor >= 1
        BY <2>3, <4>1
      <4> QED
        BY <3>2, <4>1, <4>2, <4>3 DEF Stands
    <3>4. Rebuilds(e)
      BY <2>6, <3>2, <3>3 DEF Rebuilds
    <3> QED
      BY <2>5, <3>2, <3>4 DEF e
  <2>9. CASE to = f.len /\ Goes(j, [d EXCEPT !.pc = "check", !.whole = TRUE])
    <3> DEFINE e == [d EXCEPT !.pc = "check", !.whole = TRUE]
    <3>1. e \in Scan /\ Rebuilds(e) /\ e.s = c.s /\ e.pc = "check"
      BY <2>8, <2>9
    <3> HIDE DEF e
    <3>2. Goes(j, e)
      BY <2>9 DEF e
    <3> QED
      BY <1>1, <1>3, <3>1, <3>2, RebuildGoes
  <2>10. CASE to < f.len /\ d.pages < MaxPages /\ Goes(j, d)
    <3>1. Stands(d)
      BY <2>5, <2>7, <2>10 DEF Stands
    <3>2. Rebuilds(d)
      BY <2>5, <2>6, <3>1 DEF Rebuilds
    <3> HIDE DEF to
    <3> QED
      BY <1>1, <1>3, <2>5, <2>10, <3>2, RebuildGoes
  <2>11. CASE j = "auto" /\ Ends(j, d, "in_progress")
    BY <1>1, <1>3, <2>5, <2>6, <2>11, RebuildEnds DEF Keeps
  <2>12. CASE Goes(j, [d EXCEPT !.pc = "check"])
    <3> DEFINE e == [d EXCEPT !.pc = "check"]
    <3>1. e = [d EXCEPT !.pc = "check", !.whole = FALSE]
      BY <2>5, <2>7 DEF Scan
    <3>2. e \in Scan /\ Rebuilds(e) /\ e.s = c.s /\ e.pc = "check"
      <4> HIDE DEF e
      <4> QED
        BY <2>8, <3>1
    <3> HIDE DEF e
    <3>3. Goes(j, e)
      BY <2>12 DEF e
    <3> QED
      BY <1>1, <1>3, <3>2, <3>3, RebuildGoes
  <2> HIDE DEF to, f, c
  <2> QED
    BY <1>5, <2>9, <2>10, <2>11, <2>12
<1>6. \/ \E result \in {"threw", "drifted"} : Ends(j, c, result)
      \/ /\ {f.id, catalog[c.s].id} = {c.entry.id}
         /\ \/ to = f.len /\ Goes(j, [d EXCEPT !.pc = "check", !.whole = TRUE])
            \/ to < f.len /\ d.pages < MaxPages /\ Goes(j, d)
            \/ /\ to < f.len /\ d.pages = MaxPages
               /\ IF j = "auto" THEN Ends(j, d, "in_progress")
                  ELSE Goes(j, [d EXCEPT !.pc = "check"])
  BY ZenonT(60) DEF ReadPage
<1> HIDE DEF c, d, to, f
<1> QED
  BY <1>4, <1>5, <1>6

\* Whatever makes a rebuild fail ends it.
LEMMA JobFailsOK ==
    ASSUME IInv, NEW j \in Job, JobFails(j)
    PROVE  IInv'
<1>1. job[j].pc # "idle" /\ Ends(j, job[j], "threw") /\ JobFrame /\ UNCHANGED storage
  BY DEF JobFails
<1>2. StorageOK' /\ Rows' /\ CountsAreExact'
  BY <1>1, StoredSame DEF IInv, Shape
<1>3. job[j] \in Scan
  BY <1>1, UnderWay
<1> QED
  BY <1>1, <1>2, <1>3, RebuildEnds DEF Keeps

\* A rebuild whose phase alone changes.
LEMMA PhaseOK ==
    ASSUME NEW c \in Scan, Scanned(c.s, c.entry, c.acc, c.cursor), Stands(c), c.pc # "idle",
           NEW p \in {"replace", "stage"}, c.pc # "read", c.gen = 0, c.cursor <= c.entry.len
    PROVE  LET d == [c EXCEPT !.pc = p]
           IN  d \in Scan /\ d.s = c.s /\ d.pc = p /\ Rebuilds(d)
<1> DEFINE d == [c EXCEPT !.pc = p]
<1>1. /\ d \in Scan /\ d.s = c.s /\ d.entry = c.entry /\ d.acc = c.acc /\ d.cursor = c.cursor
      /\ d.gen = c.gen /\ d.staged = c.staged /\ d.whole = c.whole /\ d.pc = p
  BY DEF Scan, Step
<1> HIDE DEF d
<1>2. Rebuilds(d)
  BY <1>1 DEF Rebuilds, Stands
<1> QED
  BY <1>1, <1>2 DEF d

\* The file is still the revision that was asked for, or the scan was in vain.
LEMMA CheckSourceOK ==
    ASSUME IInv, NEW j \in Job, CheckSource(j)
    PROVE  IInv'
<1> DEFINE c == job[j]
           d == [c EXCEPT !.pc = "replace"]
<1>1. c.pc = "check" /\ JobFrame /\ UNCHANGED storage
  BY DEF CheckSource
<1>2. c \in Scan /\ Scanned(c.s, c.entry, c.acc, c.cursor) /\ Stands(c)
  BY <1>1, UnderWay
<1>3. StorageOK' /\ Rows' /\ CountsAreExact'
  BY <1>1, StoredSame DEF IInv, Shape
<1>4. CASE RevisionHolds(file[c.s], c.entry) /\ Goes(j, d)
  <2>1. c.gen = 0 /\ c.cursor <= c.entry.len
    BY <1>1, <1>2, <1>4 DEF RevisionHolds, Stands, Scanned
  <2>2. d \in Scan /\ d.s = c.s /\ d.pc = "replace" /\ Rebuilds(d)
    BY <1>1, <1>2, <2>1, PhaseOK
  <2> HIDE DEF d
  <2> QED
    BY <1>1, <1>3, <1>4, <2>2, RebuildGoes
<1>5. CASE Ends(j, c, "drifted")
  BY <1>1, <1>2, <1>3, <1>5, RebuildEnds DEF Keeps
<1> QED
  BY <1>4, <1>5 DEF CheckSource

\* Totals are replaced by those of a scan that never left its revision.
LEMMA ReplaceOK ==
    ASSUME IInv, NEW j \in Job, Replace(j)
    PROVE  IInv'
<1> DEFINE c == job[j]
           d == [c EXCEPT !.pc = "stage"]
           m == [rev |-> c.entry, count |-> c.acc, complete |-> c.whole /\ Certified]
<1>1. c.pc = "replace" /\ JobFrame /\ UNCHANGED <<index, rows>>
  BY DEF Replace
<1>2. /\ c \in Scan /\ c.s \in Session /\ c.entry \in Revision /\ c.cursor \in Nat
      /\ Scanned(c.s, c.entry, c.acc, c.cursor) /\ Stands(c)
  BY <1>1, UnderWay, Bounds
<1>3. \A s \in Session : Published(s)' = Published(s)
  BY <1>1 DEF Published
<1>4. Rows'
  BY <1>1, <1>3 DEF IInv, Rows
<1>5. CASE catalog[c.s] = c.entry
  <2>1. metrics' = [metrics EXCEPT ![c.s] = m] /\ Goes(j, d)
    BY <1>5 DEF Replace
  <2>2. /\ m \in Totals /\ m.rev = c.entry /\ m.count = c.acc
        /\ m.complete = (c.whole /\ Certified)
    BY <1>2, Bounds DEF Totals, Scan
  <2>3. c.gen = 0 /\ c.cursor <= c.entry.len /\ (c.whole => c.cursor >= c.entry.len)
    BY <1>1, <1>2 DEF Stands
  <2>4. c.entry.len \in Nat
    BY <1>2, Bounds DEF Revision
  <2> HIDE DEF m
  <2>5. StorageOK'
    BY <1>1, <1>2, <2>1, <2>2 DEF IInv, Shape, StorageOK
  <2>6. m.count = Exactly([m.rev EXCEPT !.len = c.cursor])
    BY <1>2, <2>2, Prefixes DEF Scanned
  <2>7. CountsAreExact'
    <3>1. ASSUME NEW s \in Session, metrics'[s] # Nothing
          PROVE  \E n \in 0..metrics'[s].rev.len :
                    /\ metrics'[s].count = Exactly([metrics'[s].rev EXCEPT !.len = n])
                    /\ metrics'[s].complete => n = metrics'[s].rev.len
      <4>1. CASE s = c.s
        <5>1. metrics'[s] = m
          BY <1>2, <2>1, <4>1 DEF IInv, Shape, StorageOK
        <5>2. c.cursor \in 0..m.rev.len /\ (m.complete => c.cursor = m.rev.len)
          <6>1. (m.complete => c.whole) /\ m.rev.len = c.entry.len
            BY <2>2
          <6> HIDE DEF c
          <6> QED
            BY <1>2, <2>3, <2>4, <6>1
        <5> QED
          BY <2>6, <5>1, <5>2
      <4>2. CASE s # c.s
        <5>1. metrics'[s] = metrics[s]
          BY <2>1, <4>2 DEF IInv, Shape, StorageOK
        <5> QED
          BY <3>1, <5>1 DEF IInv, CountsAreExact
      <4> QED
        BY <4>1, <4>2
    <3> QED
      BY <3>1 DEF CountsAreExact, Exactly
  <2>8. d \in Scan /\ d.s = c.s /\ d.pc = "stage" /\ Rebuilds(d)
    BY <1>1, <1>2, <2>3, PhaseOK
  <2> HIDE DEF d
  <2> QED
    BY <1>1, <1>4, <2>1, <2>5, <2>7, <2>8, RebuildGoes
<1>6. CASE catalog[c.s] # c.entry
  <2>1. UNCHANGED storage /\ Ends(j, c, "drifted")
    BY <1>1, <1>6 DEF Replace, storage
  <2>2. StorageOK' /\ CountsAreExact'
    BY <2>1, StoredSame DEF IInv, Shape
  <2> QED
    BY <1>1, <1>2, <1>4, <2>1, <2>2, RebuildEnds DEF Keeps
<1> QED
  BY <1>5, <1>6

\* Totals that stay are exact still.
LEMMA CountsSame ==
    ASSUME CountsAreExact, UNCHANGED metrics
    PROVE  CountsAreExact'
  BY DEF CountsAreExact

\* A rebuild whose rows are staged.
StagedOn(c, gen, n) == [c EXCEPT !.gen = gen, !.staged = n]

LEMMA StageStep ==
    ASSUME NEW c \in Scan, NEW gen \in Generation, NEW n \in Nat, c.pc = "stage",
           Scanned(c.s, c.entry, c.acc, c.cursor), Stands(c)
    PROVE  /\ StagedOn(c, gen, n) \in Scan /\ StagedOn(c, gen, n).s = c.s
           /\ StagedOn(c, gen, n).pc = "stage" /\ Rebuilds(StagedOn(c, gen, n))
           /\ StagedOn(c, gen, n).gen = gen /\ StagedOn(c, gen, n).staged = n
           /\ StagedOn(c, gen, n).acc = c.acc /\ StagedOn(c, gen, n).whole = c.whole
<1> DEFINE d == StagedOn(c, gen, n)
<1>1. /\ d \in Scan /\ d.s = c.s /\ d.entry = c.entry /\ d.acc = c.acc /\ d.cursor = c.cursor
      /\ d.gen = gen /\ d.staged = n /\ d.whole = c.whole /\ d.pc = c.pc
  BY DEF Scan, StagedOn
<1> HIDE DEF d
<1>2. gen # 0
  BY DEF Generation
<1>3. Rebuilds(d)
  BY <1>1, <1>2 DEF Rebuilds, Stands
<1> QED
  BY <1>1, <1>3 DEF d

\* The generation of a rebuild, once it has one.
Own(c) == IF c.gen = 0 THEN Fresh(c.s) ELSE c.gen

\* The next batch of error rows.
LEMMA StageOK ==
    ASSUME IInv, NEW j \in Job, Stage(j)
    PROVE  IInv'
<1> DEFINE c == job[j]
           gen == Own(c)
           errors == {r \in Record : c.acc[r] > 0 /\ r[2] > c.staged /\ r[2] <= c.staged + BatchErrors}
           d == StagedOn(c, gen, c.staged + BatchErrors)
<1>1. c.pc = "stage" /\ JobFrame /\ UNCHANGED <<metrics, index>>
  BY DEF Stage
<1>2. /\ c \in Scan /\ c.s \in Session /\ c.staged \in Nat /\ c.staged + BatchErrors \in Nat
      /\ Scanned(c.s, c.entry, c.acc, c.cursor) /\ Stands(c)
  BY <1>1, UnderWay, Bounds DEF Scan
<1>3. gen \in Generation
  BY <1>2, FreshIs DEF Own, Scan, IInv, Shape
<1>4. \A s \in Session : Published(s)' = Published(s)
  BY <1>1 DEF Published
<1>5. CountsAreExact'
  BY <1>1, CountsSame DEF IInv
<1>6. CASE metrics[c.s] = Nothing
  <2>1. UNCHANGED storage /\ Ends(j, c, "threw")
    BY <1>1, <1>6 DEF Stage, storage
  <2>2. StorageOK' /\ Rows'
    BY <2>1, StoredSame DEF IInv, Shape
  <2> QED
    BY <1>1, <1>2, <1>5, <2>1, <2>2, RebuildEnds DEF Keeps
<1>7. CASE metrics[c.s] # Nothing
  <2>1. /\ rows' = [rows EXCEPT ![c.s] =
              {w \in rows[c.s] : w[1] \in {gen, Published(c.s)}} \cup ({gen} \X errors)]
        /\ Goes(j, d)
    BY <1>7, ZenonT(60) DEF Stage, Own, StagedOn
  <2>2. StorageOK'
    <3>1. {gen} \X errors \subseteq Generation \X Record
      BY <1>3
    <3>2. {w \in rows[c.s] : w[1] \in {gen, Published(c.s)}} \subseteq Generation \X Record
      BY <1>2 DEF IInv, Shape, StorageOK
    <3> HIDE DEF gen, errors, c
    <3> QED
      BY <1>1, <2>1, <3>1, <3>2 DEF IInv, Shape, StorageOK
  <2>3. Rows'
    <3>1. ASSUME NEW s \in Session
          PROVE  \E g \in Generation : \A w \in rows'[s] : w[1] \in {g, Published(s)'}
      <4>1. CASE s = c.s
        <5>1. rows'[s] = {w \in rows[s] : w[1] \in {gen, Published(s)}} \cup ({gen} \X errors)
          BY <1>2, <2>1, <4>1 DEF IInv, Shape, StorageOK
        <5> HIDE DEF gen, errors
        <5> QED
          BY <1>3, <1>4, <5>1
      <4>2. CASE s # c.s
        <5>1. rows'[s] = rows[s]
          BY <2>1, <4>2 DEF IInv, Shape, StorageOK
        <5> QED
          BY <1>4, <5>1 DEF IInv, Rows
      <4> QED
        BY <4>1, <4>2
    <3> QED
      BY <3>1 DEF Rows
  <2>4. d \in Scan /\ d.s = c.s /\ d.pc = "stage" /\ Rebuilds(d)
    BY <1>1, <1>2, <1>3, StageStep
  <2> HIDE DEF d
  <2> QED
    BY <1>1, <1>5, <2>1, <2>2, <2>3, <2>4, RebuildGoes
<1> QED
  BY <1>6, <1>7

\* The staged generation is published.
LEMMA PublishOK ==
    ASSUME IInv, NEW j \in Job, Publish(j)
    PROVE  IInv'
<1> DEFINE c == job[j]
           x == [gen |-> c.gen, rev |-> c.entry, errors |-> {r \in Record : c.acc[r] > 0}]
<1>1. c.pc = "stage" /\ c.staged >= c.cursor /\ JobFrame /\ UNCHANGED metrics
  BY DEF Publish
<1>2. /\ c \in Scan /\ c.s \in Session /\ c.entry \in Revision /\ c.cursor \in Nat
      /\ c.staged \in Nat /\ Scanned(c.s, c.entry, c.acc, c.cursor) /\ Stands(c)
  BY <1>1, UnderWay, Bounds DEF Scan
<1>3. CountsAreExact'
  BY <1>1, CountsSame DEF IInv
<1>4. CASE MayPublish(c)
  <2>1. /\ index' = [index EXCEPT ![c.s] = x]
        /\ rows' = [rows EXCEPT ![c.s] = {w \in rows[c.s] : w[1] = c.gen}]
        /\ Ends(j, c, "available")
    BY <1>4 DEF Publish
  <2>2. c.gen \in Generation
    BY <1>1, <1>2 DEF Stands, Scan
  <2>4. x \in Errors /\ x.gen = c.gen
    BY <1>2, <2>2 DEF Errors
  <2> HIDE DEF x
  <2>5. StorageOK'
    BY <1>1, <1>2, <2>1, <2>4 DEF IInv, Shape, StorageOK
  <2>6. Rows'
    <3>1. ASSUME NEW s \in Session
          PROVE  \E g \in Generation : \A w \in rows'[s] : w[1] \in {g, Published(s)'}
      <4>1. CASE s = c.s
        <5>1. rows'[s] = {w \in rows[s] : w[1] = c.gen}
          BY <1>2, <2>1, <4>1 DEF IInv, Shape, StorageOK
        <5> QED
          BY <2>2, <5>1
      <4>2. CASE s # c.s
        <5>1. rows'[s] = rows[s] /\ index'[s] = index[s]
          BY <2>1, <4>2 DEF IInv, Shape, StorageOK
        <5> QED
          BY <5>1 DEF IInv, Rows, Published
      <4> QED
        BY <4>1, <4>2
    <3> QED
      BY <3>1 DEF Rows
  <2> QED
    BY <1>1, <1>2, <1>3, <2>1, <2>5, <2>6, RebuildEnds DEF Keeps
<1>5. CASE ~MayPublish(c)
  <2>1. UNCHANGED storage /\ Ends(j, c, "drifted")
    BY <1>1, <1>5 DEF Publish, storage
  <2>2. StorageOK' /\ Rows'
    BY <2>1, StoredSame DEF IInv, Shape
  <2> QED
    BY <1>1, <1>2, <1>3, <2>1, <2>2, RebuildEnds DEF Keeps
<1> QED
  BY <1>4, <1>5

\* A scan that begins, on a revision that was seen.
LEMMA BeginsOK ==
    ASSUME NEW s \in Session, NEW e, NEW a \in Count, NEW n \in 0..MaxLen, Scanned(s, e, a, n)
    PROVE  LET c == Scanning(s, e, a, n)
           IN  c \in Scan /\ Rebuilds(c) /\ c.pc = "read" /\ c.s = s
<1>1. e \in Revision
  BY DEF Scanned, Seen
<1> DEFINE c == Scanning(s, e, a, n)
<1>2. /\ c \in Scan /\ c.pc = "read" /\ c.s = s /\ c.entry = e /\ c.acc = a
      /\ c.cursor = n /\ c.pages = 0 /\ ~c.whole /\ c.gen = 0 /\ c.staged = 0
  <2>1. c \in Scan /\ c.pc = "read" /\ c.s = s /\ c.entry = e
    BY <1>1, Begins, SMT
  <2>2. c.acc = a /\ c.cursor = n /\ c.pages = 0
    BY <1>1, Begins, SMT
  <2>3. ~c.whole /\ c.gen = 0 /\ c.staged = 0
    BY <1>1, Begins, SMT
  <2> QED
    BY <2>1, <2>2, <2>3
<1> HIDE DEF c
<1>3. Rebuilds(c)
  BY <1>2, Bounds DEF Rebuilds, Stands
<1> QED
  BY <1>2, <1>3 DEF c

\* A scan from the start has counted nothing of the catalogued revision.
LEMMA FromStart ==
    ASSUME IInv, NEW s \in Session, catalog[s] # Nothing
    PROVE  Scanned(s, catalog[s], NoCount, 0) /\ NoCount \in Count /\ 0 \in 0..MaxLen
<1>1. Seen(s, catalog[s]) /\ catalog[s] \in Revision
  BY DEF IInv, Sights, Seen
<1>2. file[s].len \in Nat
  BY Bounds DEF IInv, Shape, FilesOK, Revision
<1>3. NoCount = Prefix(catalog[s].id, 0)
  BY <1>1, Prefixes
<1> QED
  BY <1>1, <1>2, <1>3, Blank, Bounds DEF Scanned

\* The user asks for a rebuild.
LEMMA HttpRebuildOK ==
    ASSUME IInv, NEW j \in Http, NEW s \in Session, HttpRebuild(j, s)
    PROVE  IInv'
<1> DEFINE c == Scanning(s, catalog[s], NoCount, 0)
<1>1. /\ j \in Job /\ j # "auto" /\ catalog[s] # Nothing /\ Goes(j, c)
      /\ JobFrame /\ UNCHANGED storage
  BY ConstantsOK DEF HttpRebuild, Job
<1>2. c \in Scan /\ Rebuilds(c)
  BY <1>1, FromStart, BeginsOK
<1>3. StorageOK' /\ Rows' /\ CountsAreExact'
  BY <1>1, StoredSame DEF IInv, Shape
<1> HIDE DEF c
<1>4. JobIs(j, c) /\ RefreshKept
  BY <1>1, <1>2, GoesOK DEF IInv, Shape, JobFrame
<1> QED
  BY <1>1, <1>2, <1>3, <1>4, RebuildKept

-----------------------------------------------------------------------------
(* The lazy refresh.                                                       *)

\* A step of the refresh itself.
LEMMA RefreshStep ==
    ASSUME IInv, RefreshFrame, UNCHANGED job, RefreshOK', Parts', Refreshing'
    PROVE  IInv'
<1> USE DEF IInv, Shape
<1>1. UNCHANGED <<file, catalog, inspected, observer, storage, job>>
  BY DEF RefreshFrame
<1>2. StorageOK' /\ Rows' /\ CountsAreExact'
  BY <1>1, StoredSame
<1>3. ASSUME NEW j \in Job PROVE Rebuilds(job[j])'
  <2>1. Rebuilds(job[j])
    BY DEF Jobs
  <2> QED
    BY <1>1, <2>1 DEF Rebuilds, Scanned, Seen, Stands
<1>4. FilesOK' /\ CatalogOK' /\ JobsOK' /\ Sights' /\ Jobs'
  BY <1>1, <1>3 DEF FilesOK, CatalogOK, JobsOK, Sights, Seen, Jobs
<1> QED
  BY <1>2, <1>4

\* Unfinished scans that stay as they are.
LEMMA PartsSame ==
    ASSUME Parts, UNCHANGED <<file, catalog, ongoing>>
    PROVE  Parts'
  BY DEF Parts, Scanned, Seen

\* A batch begins, asked for or by the timer.
LEMMA BeginOK ==
    ASSUME IInv, Request \/ TimerFires
    PROVE  IInv'
<1>1. run.pc = "off" /\ timer' = FALSE /\ Begin
  BY DEF IInv, Refreshing, Request, TimerFires, Shape, RefreshOK
<1>2. /\ UNCHANGED <<job, before, recent, ongoing>> /\ RefreshFrame
      /\ run' = [NoRun EXCEPT !.pc = "choose"]
  BY <1>1 DEF Begin
<1>3. run' \in Batch /\ run'.pc = "choose" /\ run'.queue = {}
  BY <1>2 DEF NoRun, Batch
<1>4. batches' \in 0..MaxBatches
  BY <1>1, Bounds DEF Begin, IInv, Shape, RefreshOK
<1>5. job["auto"].pc = "idle"
  BY <1>1 DEF IInv, Refreshing
<1>6. RefreshOK'
  BY <1>1, <1>2, <1>3, <1>4 DEF IInv, Shape, RefreshOK
<1>7. Refreshing'
  BY <1>1, <1>2, <1>3, <1>5 DEF Refreshing
<1>8. Parts'
  BY <1>2, PartsSame DEF IInv, RefreshFrame
<1> QED
  BY <1>2, <1>6, <1>7, <1>8, RefreshStep

\* A scan of the refresh begins.
LEMMA ScanBegins ==
    ASSUME IInv, NEW c \in Scan, Rebuilds(c), job' = [job EXCEPT !["auto"] = c],
           RefreshFrame, RefreshOK', Refreshing', UNCHANGED ongoing
    PROVE  IInv'
<1>1. "auto" \in Job /\ JobIs("auto", c)
  BY Bounds, JobStep DEF IInv, Shape
<1>2. UNCHANGED <<file, catalog, inspected, observer, storage>> /\ JobFrame
  BY DEF RefreshFrame, JobFrame
<1>3. StorageOK' /\ Rows' /\ CountsAreExact' /\ Parts'
  BY <1>2, StoredSame, PartsSame DEF IInv, Shape
<1> QED
  BY <1>1, <1>2, <1>3, RebuildKept DEF RefreshKept

\* An unfinished scan is resumed, or begun again on another revision.
LEMMA ResumeOK ==
    ASSUME IInv, Resume
    PROVE  IInv'
<1> DEFINE p == Head(ongoing)
           c == job'["auto"]
<1>1. /\ run.pc = "choose" /\ ongoing # <<>> /\ run' = [run EXCEPT !.pc = "pending"]
      /\ UNCHANGED <<batches, timer, before, recent, ongoing>> /\ RefreshFrame
  BY DEF Resume
<1>2. ongoing \in Seq(Part) /\ p \in Part /\ p = ongoing[1] /\ 1 \in DOMAIN ongoing
  BY <1>1, HeadTailProperties, EmptySeq, LenProperties DEF IInv, Shape, RefreshOK
<1>3. Scanned(p.s, p.entry, p.acc, p.cursor) /\ catalog[p.s] # Nothing
  BY <1>2 DEF IInv, Parts, Scanned
<1>4. /\ p.s \in Session /\ p.acc \in Count /\ p.cursor \in 0..MaxLen
  BY <1>2 DEF Part
<1>5. \E x \in Scan : /\ Rebuilds(x) /\ x.pc = "read" /\ x.s = p.s
                      /\ job' = [job EXCEPT !["auto"] = x]
  <2> HIDE DEF p
  <2>1. CASE Reusable(p)
    <3>1. p.entry = catalog[p.s] /\ job' = [job EXCEPT !["auto"] = Scanning(p.s, p.entry, p.acc, p.cursor)]
      BY <2>1 DEF Reusable, Resume, p
    <3> DEFINE x == Scanning(p.s, p.entry, p.acc, p.cursor)
    <3>2. x \in Scan /\ Rebuilds(x) /\ x.pc = "read" /\ x.s = p.s
      BY <1>3, <1>4, BeginsOK
    <3> HIDE DEF x
    <3>3. job' = [job EXCEPT !["auto"] = x]
      BY <3>1 DEF x
    <3> QED
      BY <3>2, <3>3, ZenonT(60)
  <2>2. CASE ~Reusable(p)
    <3>1. job' = [job EXCEPT !["auto"] = Scanning(p.s, catalog[p.s], NoCount, 0)]
      BY <2>2 DEF Resume, p
    <3>2. Scanned(p.s, catalog[p.s], NoCount, 0) /\ NoCount \in Count /\ 0 \in 0..MaxLen
      BY <1>3, <1>4, FromStart
    <3> DEFINE x == Scanning(p.s, catalog[p.s], NoCount, 0)
    <3>3. x \in Scan /\ Rebuilds(x) /\ x.pc = "read" /\ x.s = p.s
      BY <1>4, <3>2, BeginsOK
    <3> HIDE DEF x
    <3>4. job' = [job EXCEPT !["auto"] = x]
      BY <3>1 DEF x
    <3> QED
      BY <3>3, <3>4, ZenonT(60)
  <2> QED
    BY <2>1, <2>2
<1>6. PICK x \in Scan : /\ Rebuilds(x) /\ x.pc = "read" /\ x.s = p.s
                        /\ job' = [job EXCEPT !["auto"] = x]
  BY <1>5
<1>7. job'["auto"] = x
  BY <1>6, Bounds DEF IInv, Shape, JobsOK
<1>8. run' \in Batch /\ run'.pc = "pending" /\ run'.queue = run.queue
  BY <1>1 DEF IInv, Shape, RefreshOK, Batch
<1>9. RefreshOK'
  BY <1>1, <1>8 DEF IInv, Shape, RefreshOK
<1>10. timer = FALSE /\ UNCHANGED catalog
  BY <1>1 DEF IInv, Shape, RefreshOK, Refreshing, RefreshFrame
<1>11. Refreshing'
  BY <1>1, <1>6, <1>7, <1>8, <1>10 DEF IInv, Refreshing
<1> QED
  BY <1>1, <1>6, <1>9, <1>11, ScanBegins

\* A batch takes its candidates, all of them catalogued.
LEMMA SelectOK ==
    ASSUME IInv, Select
    PROVE  IInv'
<1>1. /\ run.pc = "choose" /\ run' = [pc |-> "loop", queue |-> Candidates, progressed |-> FALSE]
      /\ before' \in CursorAfter(Candidates)
      /\ UNCHANGED <<job, batches, timer, recent, ongoing>> /\ RefreshFrame
  BY DEF Select
<1>2. Candidates \subseteq Session /\ \A s \in Candidates : catalog[s] # Nothing
  BY DEF Candidates, Behind, NeedsRebuild
<1>3. run' \in Batch /\ run'.pc = "loop" /\ run'.queue = Candidates
  <2> HIDE DEF Candidates
  <2> QED
    BY <1>1, <1>2 DEF Batch
<1>4. before' \in 0..N
  <2>1. CursorAfter(Candidates) \subseteq Candidates \cup {0}
    BY DEF CursorAfter
  <2>2. before' \in Session \cup {0}
    BY <1>1, <1>2, <2>1, ZenonT(60)
  <2> QED
    BY <2>2, Bounds DEF Session
<1>5. RefreshOK'
  BY <1>1, <1>3, <1>4 DEF IInv, Shape, RefreshOK
<1>6. timer = FALSE /\ UNCHANGED catalog
  BY <1>1 DEF IInv, Shape, RefreshOK, Refreshing, RefreshFrame
<1>7. Refreshing'
  BY <1>1, <1>2, <1>3, <1>6 DEF Refreshing
<1>8. Parts'
  BY <1>1, PartsSame DEF IInv, RefreshFrame
<1> QED
  BY <1>1, <1>5, <1>7, <1>8, RefreshStep

\* The next candidate is tried, unless it cools down.
LEMMA TryOK ==
    ASSUME IInv, Try
    PROVE  IInv'
<1>1. PICK s \in Session :
         /\ First(s) /\ run' = [run EXCEPT !.queue = run.queue \ {s}]
         /\ IF s \in recent THEN UNCHANGED <<job, recent>>
            ELSE /\ recent' = recent \cup {s}
                 /\ job' = [job EXCEPT !["auto"] = Scanning(s, catalog[s], NoCount, 0)]
  BY DEF Try, IInv, Shape, RefreshOK, Batch
<1>2. /\ run.pc = "loop" /\ UNCHANGED <<batches, timer, before, ongoing>> /\ RefreshFrame
  BY DEF Try
<1>3. /\ run' \in Batch /\ run'.pc = "loop" /\ run'.queue = run.queue \ {s}
  BY <1>1, <1>2 DEF IInv, Shape, RefreshOK, Batch
<1>4. recent' \subseteq Session
  BY <1>1 DEF IInv, Shape, RefreshOK
<1>5. RefreshOK'
  BY <1>2, <1>3, <1>4 DEF IInv, Shape, RefreshOK
<1>6. timer = FALSE /\ UNCHANGED <<file, catalog>>
  BY <1>2 DEF IInv, Shape, RefreshOK, Refreshing, RefreshFrame
<1>7. Refreshing'
  BY <1>2, <1>3, <1>6 DEF IInv, Refreshing
<1>8. CASE s \in recent
  <2>1. UNCHANGED job /\ Parts'
    BY <1>1, <1>2, <1>6, <1>8, PartsSame DEF IInv
  <2> QED
    BY <1>2, <1>5, <1>7, <2>1, RefreshStep
<1>9. CASE s \notin recent
  <2>1. catalog[s] # Nothing
    BY <1>1 DEF IInv, Refreshing, First
  <2> DEFINE c == Scanning(s, catalog[s], NoCount, 0)
  <2>2. c \in Scan /\ Rebuilds(c)
    BY <2>1, FromStart, BeginsOK
  <2>3. job' = [job EXCEPT !["auto"] = c]
    BY <1>1, <1>9
  <2> HIDE DEF c
  <2> QED
    BY <1>2, <1>5, <1>7, <2>2, <2>3, ScanBegins
<1> QED
  BY <1>8, <1>9

\* The batch is over.
LEMMA LoopEndsOK ==
    ASSUME IInv, LoopEnds
    PROVE  IInv'
<1>1. /\ RunEnds(run.progressed) /\ UNCHANGED <<job, before, recent, ongoing>>
      /\ RefreshFrame /\ job["auto"].pc = "idle"
  BY DEF LoopEnds
<1>2. batches \in 0..MaxBatches /\ run.progressed \in BOOLEAN
  BY DEF IInv, Shape, RefreshOK, Batch
<1>3. /\ run' \in Batch /\ run'.pc = "off" /\ run'.queue = {}
      /\ timer' \in BOOLEAN /\ batches' \in 0..MaxBatches
  BY <1>1, <1>2, RunStops
<1>4. RefreshOK' /\ Refreshing'
  BY <1>1, <1>3 DEF IInv, Shape, RefreshOK, Refreshing
<1>5. Parts'
  BY <1>1, PartsSame DEF IInv, RefreshFrame
<1> QED
  BY <1>1, <1>4, <1>5, RefreshStep

\* A query that chooses is refused.
LEMMA ChooseFailsOK ==
    ASSUME IInv, ChooseFails
    PROVE  IInv'
<1>1. /\ run' = NoRun /\ batches' = 0 /\ UNCHANGED <<job, timer, before, ongoing>>
      /\ RefreshFrame /\ recent' \subseteq Session /\ job["auto"].pc = "idle"
  BY DEF ChooseFails, IInv, Shape, RefreshOK, Refreshing
<1>2. run' \in Batch /\ run'.pc = "off" /\ run'.queue = {}
  BY <1>1 DEF NoRun, Batch
<1>3. 0 \in 0..MaxBatches
  BY Bounds
<1>4. RefreshOK' /\ Refreshing'
  BY <1>1, <1>2, <1>3 DEF IInv, Shape, RefreshOK, Refreshing
<1>5. Parts'
  BY <1>1, PartsSame DEF IInv, RefreshFrame
<1> QED
  BY <1>1, <1>4, <1>5, RefreshStep

\* A session may be tried again.
LEMMA CoolsDownOK ==
    ASSUME IInv, NEW s \in Session, CoolsDown(s)
    PROVE  IInv'
<1>1. /\ recent' \subseteq Session /\ RefreshFrame
      /\ UNCHANGED <<job, run, batches, timer, before, ongoing>>
  BY DEF CoolsDown, IInv, Shape, RefreshOK
<1>2. UNCHANGED <<file, catalog>>
  BY <1>1 DEF RefreshFrame
<1>3. RefreshOK' /\ Refreshing'
  BY <1>1, <1>2 DEF IInv, Shape, RefreshOK, Refreshing
<1>4. Parts'
  BY <1>1, <1>2, PartsSame DEF IInv
<1> QED
  BY <1>1, <1>3, <1>4, RefreshStep

\* Nothing of the daemon's own state, and all of the refresh, is blank.
Started ==
    /\ job = [j \in Job |-> NoJob]
    /\ observer = [p \in Observer |-> [pc |-> "idle", s |-> 1, rev |-> Nothing]]
    /\ run = NoRun /\ batches = 0 /\ timer = FALSE /\ before = 0 /\ recent = {} /\ ongoing = <<>>

Idle ==
    /\ JobsOK /\ Jobs /\ RefreshOK /\ Parts /\ Refreshing
    /\ observer \in [Observer -> Sight]
    /\ \A p \in Observer : observer[p].pc # "upsert"

LEMMA StartedIs == Started => Idle
<1> SUFFICES ASSUME Started PROVE Idle
  OBVIOUS
<1>1. JobsOK /\ Jobs
  <2> HIDE DEF NoJob
  <2> QED
    BY Blank DEF Started, JobsOK, Jobs, Rebuilds
<1>2. ongoing \in Seq(Part) /\ Len(ongoing) = 0 /\ DOMAIN ongoing = {}
  BY EmptySeq DEF Started
<1>3. run \in Batch /\ run.pc = "off" /\ run.queue = {}
  BY DEF Started, NoRun, Batch
<1>4. RefreshOK
  <2>1. 0 \in 0..N /\ 0 \in 0..MaxBatches /\ MaxResumable \in Nat
    BY Bounds
  <2>2. batches \in 0..MaxBatches /\ timer \in BOOLEAN /\ before \in 0..N /\ recent = {}
    BY <2>1 DEF Started
  <2>3. Len(ongoing) <= MaxResumable /\ recent \subseteq Session
    BY <1>2, <2>1, <2>2
  <2> QED
    BY <1>2, <1>3, <2>2, <2>3, ZenonT(60) DEF RefreshOK
<1>5. job["auto"].pc = "idle"
  BY Blank, Bounds DEF Started
<1>6. Parts /\ Refreshing
  BY <1>2, <1>3, <1>5 DEF Parts, Refreshing, Started
<1>7. /\ observer \in [Observer -> Sight]
      /\ \A p \in Observer : observer[p].pc # "upsert"
  BY Bounds DEF Started, Sight
<1> QED
  BY <1>1, <1>4, <1>6, <1>7 DEF Idle

\* The daemon ends and starts again.
LEMMA RestartOK ==
    ASSUME IInv, Restart
    PROVE  IInv'
<1> USE DEF IInv, Shape
<1>1. Started' /\ inspected' = {} /\ UNCHANGED <<file, catalog, storage>>
  BY DEF Restart, Started
<1>2. Idle'
  BY <1>1, StartedIs, PTL
<1>3. StorageOK' /\ Rows' /\ CountsAreExact'
  BY <1>1, StoredSame
<1>4. FilesOK' /\ CatalogOK' /\ Sights'
  BY <1>1, <1>2 DEF Idle, FilesOK, CatalogOK, Sights, Seen
<1> QED
  BY <1>2, <1>3, <1>4 DEF Idle

-----------------------------------------------------------------------------
(* The invariant.                                                          *)

LEMMA InitIInv == Init => IInv
<1> SUFFICES ASSUME Init PROVE IInv
  OBVIOUS
<1>1. Started
  BY DEF Init, Started
<1>2. FilesOK
  BY Bounds DEF Init, FilesOK, Revision
<1>3. CatalogOK /\ Sights
  BY <1>1, StartedIs DEF Idle, Init, CatalogOK, Sights
<1>4. StorageOK /\ CountsAreExact
  BY DEF Init, StorageOK, CountsAreExact
<1>5. Rows
  <2>1. 1 \in Generation
    <3>1. IsFiniteSet(Job)
      BY ConstantsOK, FS_AddElement DEF Job
    <3>2. Cardinality(Job) \in Nat
      BY <3>1, FS_CardinalityType
    <3> QED
      BY <3>2 DEF Generation
  <2> QED
    BY <2>1 DEF Init, Rows
<1> QED
  BY <1>1, <1>2, <1>3, <1>4, <1>5, StartedIs DEF Idle, IInv, Shape

\* A step that changes nothing.
LEMMA StutterOK ==
    ASSUME IInv, UNCHANGED vars
    PROVE  IInv'
<1>1. UNCHANGED <<file, catalog, inspected, observer, storage, job, refresh>>
  BY DEF vars
<1>2. RefreshFrame /\ UNCHANGED job
  BY <1>1 DEF RefreshFrame
<1>3. RefreshOK' /\ Parts' /\ Refreshing'
  BY <1>1 DEF refresh, IInv, Shape, RefreshOK, Parts, Refreshing, Scanned, Seen
<1> QED
  BY <1>2, <1>3, RefreshStep

\* Every step keeps the invariant.
LEMMA NextIInv == IInv /\ [Next]_vars => IInv'
<1> SUFFICES ASSUME IInv, [Next]_vars PROVE IInv'
  OBVIOUS
<1>1. ASSUME NEW s \in Session, Append1(s) \/ Rotate(s) \/ ThrottleEnds(s) \/ CoolsDown(s)
      PROVE  IInv'
  BY <1>1, FileGoesOn, ThrottleOK, CoolsDownOK
<1>2. ASSUME NEW p \in Observer,
             (\E s \in Session : Look(p, s)) \/ (\E ok \in BOOLEAN : Upsert(p, ok))
      PROVE  IInv'
  BY <1>2, LookOK, UpsertOK
<1>3. ASSUME NEW ok \in BOOLEAN, Invalidate(ok) PROVE IInv'
  BY <1>3, InvalidateOK
<1>4. ASSUME NEW j \in Job, Works(j) \/ JobFails(j) PROVE IInv'
  BY <1>4, ReadPageOK, CheckSourceOK, ReplaceOK, StageOK, PublishOK, JobFailsOK DEF Works
<1>5. ASSUME NEW j \in Http, NEW s \in Session, HttpRebuild(j, s) PROVE IInv'
  BY <1>5, HttpRebuildOK
<1>6. CASE Request \/ Refreshes \/ ChooseFails \/ Restart
  BY <1>6, BeginOK, ResumeOK, SelectOK, TryOK, LoopEndsOK, ChooseFailsOK, RestartOK DEF Refreshes
<1>7. CASE UNCHANGED vars
  BY <1>7, StutterOK
<1> QED
  BY <1>1, <1>2, <1>3, <1>4, <1>5, <1>6, <1>7 DEF Next

\* The invariant is inductive.
LEMMA Inductive == Spec => []IInv
  BY InitIInv, NextIInv, PTL DEF Spec

-----------------------------------------------------------------------------
(* What follows.                                                           *)

\* Every variable keeps its type: the queue of unfinished scans never exceeds
\* MAX_RESUMABLE, a rebuild never reads more than MAX_PAGES pages, and there is
\* always a generation of one's own to stage errors under.
THEOREM TypeCorrect == Spec => []TypeOK
<1>1. IInv => TypeOK
  BY DEF IInv, Shape, FilesOK, CatalogOK, StorageOK, JobsOK, RefreshOK, TypeOK,
         Scan, Step, Part, Sight, Totals, Errors, Batch
<1> QED
  BY <1>1, Inductive, PTL

\* Published totals count each record of the revision they name exactly once,
\* whatever happens to the file, the catalog, the daemon and other rebuilds
\* while the scan runs, pauses and resumes.
THEOREM TotalsAreExact == Spec => []CountsAreExact
<1>1. IInv => CountsAreExact
  BY DEF IInv
<1> QED
  BY <1>1, Inductive, PTL

\* Of one inode the catalog never goes back, however stale the stat behind a
\* write is, and it never loses a session.
THEOREM CatalogOnlyGoesOn == Spec => CatalogMonotone
<1>1. ASSUME IInv, [Next]_vars, NEW s \in Session, catalog[s] # Nothing
      PROVE  /\ catalog'[s] # Nothing
             /\ catalog'[s].id = catalog[s].id => catalog'[s].len >= catalog[s].len
  <2>1. catalog[s] \in Revision /\ catalog[s].len \in Nat
    BY <1>1, Bounds DEF IInv, Shape, CatalogOK, Revision
  <2>2. CASE UNCHANGED catalog
    BY <1>1, <2>1, <2>2
  <2>3. ASSUME NEW p \in Observer, NEW ok \in BOOLEAN, Upsert(p, ok)
        PROVE  /\ catalog'[s] # Nothing
               /\ catalog'[s].id = catalog[s].id => catalog'[s].len >= catalog[s].len
    <3> DEFINE rev == observer[p].rev
    <3>1. rev \in Revision /\ rev # Nothing /\ rev.len \in Nat
      BY <1>1, <2>3, Bounds DEF IInv, Sights, Upsert, Seen, Revision
    <3>2. catalog'[s] = catalog[s] \/ catalog'[s] = Merged(catalog[s], rev)
      BY <1>1, <2>3 DEF Upsert, IInv, Shape, CatalogOK
    <3> HIDE DEF rev
    <3> QED
      BY <1>1, <2>1, <3>1, <3>2 DEF Merged
  <2>4. UNCHANGED catalog \/ \E p \in Observer, ok \in BOOLEAN : Upsert(p, ok)
    BY <1>1 DEF Next, vars, Append1, Rotate, SourceFrame, ThrottleEnds, CoolsDown, Look,
                Invalidate, Works, ReadPage, CheckSource, Replace, Stage, Publish, JobFails,
                HttpRebuild, JobFrame, Request, TimerFires, Begin, Refreshes, Resume, Select,
                Try, LoopEnds, ChooseFails, RefreshFrame, Restart
  <2> QED
    BY <2>2, <2>3, <2>4
<1>2. IInv /\ [Next]_vars =>
        [\A s \in Session : catalog[s] # Nothing =>
           /\ catalog'[s] # Nothing
           /\ (catalog'[s].id = catalog[s].id => catalog'[s].len >= catalog[s].len)]_vars
  BY <1>1
<1> QED
  BY <1>2, Inductive, PTL DEF Spec, CatalogMonotone

-----------------------------------------------------------------------------
(* What the refresh leaves alone, when nothing but the refresh rebuilds.   *)
(* Explicit rebuilds are excluded: one that stops at MAX_PAGES publishes   *)
(* a part, and two that stage at one time delete each other's rows.        *)

\* All records of a revision.
Whole(rev) == {r \in Record : r[1] = rev.id /\ r[2] <= rev.len}

\* The rows of one generation.
Staged(s, gen) == {w \in rows[s] : w[1] = gen}

\* The refresh rebuilds whole revisions only, and the rows it has staged are
\* those of a generation of its own.
Alone ==
    LET c == job["auto"]
    IN /\ c.pc \in {"check", "replace", "stage"} => c.whole
       /\ c.pc = "stage" /\ c.gen # 0 /\ metrics[c.s] # Nothing =>
            /\ c.gen # Published(c.s)
            /\ Staged(c.s, c.gen) = {c.gen} \X {r \in Record : c.acc[r] > 0 /\ r[2] <= c.staged}

\* What is published is whole.
PublishedWhole ==
    \A s \in Session :
        /\ metrics[s] # Nothing => metrics[s].count = Exactly(metrics[s].rev)
        /\ index[s] # Nothing => Staged(s, index[s].gen) = {index[s].gen} \X Whole(index[s].rev)

Settled == Alone /\ PublishedWhole

\* Published rows that stay are whole still.
LEMMA WholeSame ==
    ASSUME PublishedWhole, UNCHANGED storage
    PROVE  PublishedWhole'
<1>1. UNCHANGED <<metrics, index, rows>>
  BY DEF storage
<1> QED
  BY <1>1 DEF PublishedWhole, Staged

\* A step of which the published state and the rebuild know nothing.
LEMMA SettledSame ==
    ASSUME Settled, UNCHANGED <<storage, job>>
    PROVE  Settled'
<1>1. UNCHANGED <<metrics, index, rows, job>>
  BY DEF storage
<1>2. Alone'
  BY <1>1 DEF Settled, Alone, Published, Staged
<1> QED
  BY <1>2, WholeSame DEF Settled

\* A rebuild that begins, reads on or ends.
LEMMA SettledReads ==
    ASSUME Settled, UNCHANGED storage,
           job'["auto"].pc \in {"idle", "read"} \/ (job'["auto"].pc # "stage" /\ job'["auto"].whole)
    PROVE  Settled'
<1>1. Alone'
  BY DEF Alone
<1> QED
  BY <1>1, WholeSame DEF Settled

\* The rebuild of the refresh ends.
LEMMA AutoEnds ==
    ASSUME IInv, NEW c, NEW result, Ends("auto", c, result)
    PROVE  job'["auto"].pc = "idle"
  BY Blank, Bounds DEF IInv, Shape, JobsOK, Ends

\* It goes on.
LEMMA AutoGoes ==
    ASSUME IInv, NEW c, Goes("auto", c)
    PROVE  job'["auto"] = c
  BY Bounds DEF IInv, Shape, JobsOK, Goes

\* It reads, and is checked once the whole file is read.
LEMMA ReadPageSettled ==
    ASSUME IInv, Settled, ReadPage("auto")
    PROVE  Settled'
<1> DEFINE c == job["auto"]
<1>1. UNCHANGED storage /\ c \in Scan /\ c.pc = "read"
  BY Bounds DEF ReadPage, IInv, Shape, JobsOK
<1>2. \/ \E d, result : Ends("auto", d, result)
      \/ \E a, n, m : Goes("auto", ReadOn(c, a, n, m))
      \/ \E a, n, m : Goes("auto", [ReadOn(c, a, n, m) EXCEPT !.pc = "check", !.whole = TRUE])
  BY ZenonT(60) DEF ReadPage, ReadOn
<1>3. CASE \E d, result : Ends("auto", d, result)
  BY <1>1, <1>3, AutoEnds, SettledReads
<1>4. CASE \E a, n, m : Goes("auto", ReadOn(c, a, n, m))
  <2>1. PICK a, n, m : Goes("auto", ReadOn(c, a, n, m))
    BY <1>4
  <2>2. ReadOn(c, a, n, m).pc = "read"
    BY <1>1 DEF ReadOn, Scan
  <2> QED
    BY <1>1, <2>1, <2>2, AutoGoes, SettledReads
<1>5. CASE \E a, n, m : Goes("auto", [ReadOn(c, a, n, m) EXCEPT !.pc = "check", !.whole = TRUE])
  <2>1. PICK a, n, m : Goes("auto", [ReadOn(c, a, n, m) EXCEPT !.pc = "check", !.whole = TRUE])
    BY <1>5
  <2> DEFINE d == [ReadOn(c, a, n, m) EXCEPT !.pc = "check", !.whole = TRUE]
  <2>2. d.pc = "check" /\ d.whole
    BY <1>1 DEF ReadOn, Scan
  <2>3. job'["auto"] = d
    BY <2>1, AutoGoes
  <2> HIDE DEF d
  <2> QED
    BY <1>1, <2>2, <2>3, SettledReads
<1> QED
  BY <1>2, <1>3, <1>4, <1>5

\* It is checked.
LEMMA CheckSettled ==
    ASSUME IInv, Settled, CheckSource("auto")
    PROVE  Settled'
<1> DEFINE c == job["auto"]
           d == [c EXCEPT !.pc = "replace"]
<1>1. UNCHANGED storage /\ c \in Scan /\ c.pc = "check"
  BY Bounds DEF CheckSource, IInv, Shape, JobsOK
<1>2. CASE Ends("auto", c, "drifted")
  BY <1>1, <1>2, AutoEnds, SettledReads
<1>3. CASE Goes("auto", d)
  <2>1. job'["auto"] = d
    BY <1>3, AutoGoes
  <2>2. d.pc = "replace" /\ d.whole
    BY <1>1 DEF Scan, Settled, Alone
  <2> HIDE DEF d
  <2> QED
    BY <1>1, <2>1, <2>2, SettledReads
<1> QED
  BY <1>2, <1>3 DEF CheckSource

\* Its totals are published.
LEMMA ReplaceSettled ==
    ASSUME IInv, Settled, Replace("auto")
    PROVE  Settled'
<1> DEFINE c == job["auto"]
           d == [c EXCEPT !.pc = "stage"]
           m == [rev |-> c.entry, count |-> c.acc, complete |-> c.whole /\ Certified]
<1>1. c.pc = "replace" /\ UNCHANGED <<index, rows>>
  BY DEF Replace
<1>2. /\ c \in Scan /\ c.s \in Session /\ c.entry \in Revision /\ c.cursor \in Nat
      /\ Scanned(c.s, c.entry, c.acc, c.cursor) /\ Stands(c) /\ c.whole
  BY <1>1, UnderWay, Bounds DEF Settled, Alone
<1>3. CASE catalog[c.s] = c.entry
  <2>1. metrics' = [metrics EXCEPT ![c.s] = m] /\ job'["auto"] = d
    BY <1>3, AutoGoes DEF Replace
  <2>2. d.pc = "stage" /\ d.gen = 0 /\ d.whole
    BY <1>1, <1>2 DEF Scan, Stands
  <2>3. c.cursor = c.entry.len
    <3>1. c.cursor <= c.entry.len /\ c.cursor >= c.entry.len /\ c.entry.len \in Nat
      BY <1>1, <1>2, Bounds DEF Stands, Revision
    <3> QED
      BY <1>2, <3>1
  <2>4. c.acc = Exactly(c.entry)
    BY <1>2, <2>3 DEF Scanned, Prefix, Exactly
  <2>5. m.count = Exactly(m.rev)
    BY <2>4
  <2> HIDE DEF m, d
  <2>6. Alone'
    BY <2>1, <2>2 DEF Alone
  <2>7. PublishedWhole'
    <3>1. ASSUME NEW s \in Session, metrics'[s] # Nothing PROVE metrics'[s].count = Exactly(metrics'[s].rev)
      <4>1. metrics'[s] = m \/ metrics'[s] = metrics[s]
        BY <1>2, <2>1 DEF IInv, Shape, StorageOK
      <4> QED
        BY <2>5, <3>1, <4>1 DEF Settled, PublishedWhole
    <3>2. \A s \in Session : index[s] # Nothing =>
             Staged(s, index[s].gen)' = {index[s].gen} \X Whole(index[s].rev)
      BY <1>1 DEF Settled, PublishedWhole, Staged
    <3> QED
      BY <1>1, <3>1, <3>2 DEF PublishedWhole, Exactly, Whole
  <2> QED
    BY <2>6, <2>7 DEF Settled
<1>4. CASE catalog[c.s] # c.entry
  <2>1. UNCHANGED storage /\ Ends("auto", c, "drifted")
    BY <1>1, <1>4 DEF Replace, storage
  <2> QED
    BY <2>1, AutoEnds, SettledReads
<1> QED
  BY <1>3, <1>4

\* The rows of other sessions, and the published ones, stay when some are staged.
LEMMA StageSettled ==
    ASSUME IInv, Settled, Stage("auto")
    PROVE  Settled'
<1> DEFINE c == job["auto"]
           gen == Own(c)
           n == c.staged + BatchErrors
           errors == {r \in Record : c.acc[r] > 0 /\ r[2] > c.staged /\ r[2] <= n}
           d == StagedOn(c, gen, n)
<1>1. c.pc = "stage" /\ UNCHANGED <<metrics, index>> /\ "auto" \in Job
  BY Bounds DEF Stage
<1>2. /\ c \in Scan /\ c.s \in Session /\ c.staged \in Nat /\ n \in Nat /\ c.whole
      /\ n >= c.staged /\ Scanned(c.s, c.entry, c.acc, c.cursor) /\ Stands(c)
  BY <1>1, UnderWay, Bounds DEF Scan, Settled, Alone
<1>3. CASE metrics[c.s] = Nothing
  <2>1. UNCHANGED storage /\ Ends("auto", c, "threw")
    BY <1>1, <1>3 DEF Stage, storage
  <2> QED
    BY <2>1, AutoEnds, SettledReads
<1>4. CASE metrics[c.s] # Nothing
  <2>1. /\ rows' = [rows EXCEPT ![c.s] =
              {w \in rows[c.s] : w[1] \in {gen, Published(c.s)}} \cup ({gen} \X errors)]
        /\ job'["auto"] = d
    <3>1. Goes("auto", d)
      BY <1>4, ZenonT(60) DEF Stage, Own, StagedOn
    <3> QED
      BY <1>4, <3>1, AutoGoes, ZenonT(60) DEF Stage, Own
  <2>2. /\ gen \in Generation /\ gen # Published(c.s)
        /\ Staged(c.s, gen) = {gen} \X {r \in Record : c.acc[r] > 0 /\ r[2] <= c.staged}
    <3>1. CASE c.gen = 0
      <4>1. gen \in Generation /\ gen # Published(c.s) /\ \A w \in rows[c.s] : w[1] # gen
        BY <1>2, <3>1, FreshIs DEF Own, IInv, Shape
      <4>2. c.staged = 0
        BY <1>2, <3>1 DEF Stands
      <4>3. {r \in Record : c.acc[r] > 0 /\ r[2] <= c.staged} = {}
        BY <4>2, Bounds DEF Record
      <4> HIDE DEF gen
      <4> QED
        BY <4>1, <4>3 DEF Staged
    <3>2. CASE c.gen # 0
      BY <1>1, <1>2, <1>4, <3>2 DEF Own, Settled, Alone, Scan
    <3> QED
      BY <3>1, <3>2
  <2>3. /\ d.s = c.s /\ d.pc = "stage" /\ d.gen = gen /\ d.staged = n
        /\ d.acc = c.acc /\ d.whole
    BY <1>1, <1>2, <2>2, StageStep
  <2> HIDE DEF gen, d
  <2>4. rows[c.s] \subseteq Generation \X Record
    BY <1>2 DEF IInv, Shape, StorageOK
  <2>5. rows'[c.s] = {w \in rows[c.s] : w[1] \in {gen, Published(c.s)}} \cup ({gen} \X errors)
    BY <1>2, <2>1 DEF IInv, Shape, StorageOK
  <2>6. Staged(c.s, gen) \cup ({gen} \X errors) = {gen} \X {r \in Record : c.acc[r] > 0 /\ r[2] <= n}
    <3>1. {r \in Record : c.acc[r] > 0 /\ r[2] <= n}
            = {r \in Record : c.acc[r] > 0 /\ r[2] <= c.staged} \cup errors
      <4>1. \A r \in Record : r[2] \in Nat
        BY Bounds DEF Record
      <4> HIDE DEF n, c
      <4> QED
        BY <1>2, <4>1
    <3> QED
      BY <2>2, <3>1
  <2>7. {w \in rows'[c.s] : w[1] = gen} = Staged(c.s, gen) \cup ({gen} \X errors)
    <3> HIDE DEF errors
    <3> QED
      BY <2>5 DEF Staged
  <2>8. {w \in rows'[c.s] : w[1] = Published(c.s)} = Staged(c.s, Published(c.s))
    <3> HIDE DEF errors
    <3> QED
      BY <2>2, <2>5 DEF Staged
  <2>9. Alone'
    <3>1. /\ {w \in rows'[d.s] : w[1] = d.gen} = {d.gen} \X {r \in Record : d.acc[r] > 0 /\ r[2] <= d.staged}
          /\ d.gen # (IF index[d.s] = Nothing THEN 0 ELSE index[d.s].gen)
      BY <2>2, <2>3, <2>6, <2>7 DEF Published
    <3> HIDE DEF c, errors, n
    <3> QED
      BY <1>1, <2>1, <2>3, <3>1 DEF Alone, Published, Staged
  <2>10. PublishedWhole'
    <3>1. ASSUME NEW s \in Session, index[s] # Nothing
          PROVE  {w \in rows'[s] : w[1] = index[s].gen} = Staged(s, index[s].gen)
      <4>1. CASE s = c.s
        <5>1. index[s].gen = Published(s)
          BY <3>1 DEF Published
        <5> QED
          BY <2>8, <4>1, <5>1
      <4>2. CASE s # c.s
        <5>1. rows'[s] = rows[s]
          BY <2>1, <4>2 DEF IInv, Shape, StorageOK
        <5> QED
          BY <5>1 DEF Staged
      <4> QED
        BY <4>1, <4>2
    <3> QED
      BY <1>1, <3>1 DEF Settled, PublishedWhole, Staged, Whole, Exactly
  <2> QED
    BY <2>9, <2>10 DEF Settled
<1> QED
  BY <1>3, <1>4

\* All rows are staged: the errors that are published are those of the revision.
LEMMA PublishSettled ==
    ASSUME IInv, Settled, Publish("auto")
    PROVE  Settled'
<1> DEFINE c == job["auto"]
           x == [gen |-> c.gen, rev |-> c.entry, errors |-> {r \in Record : c.acc[r] > 0}]
<1>1. c.pc = "stage" /\ c.staged >= c.cursor /\ UNCHANGED metrics /\ "auto" \in Job
  BY Bounds DEF Publish
<1>2. /\ c \in Scan /\ c.s \in Session /\ c.entry \in Revision /\ c.cursor \in Nat
      /\ c.staged \in Nat /\ Scanned(c.s, c.entry, c.acc, c.cursor) /\ Stands(c) /\ c.whole
  BY <1>1, UnderWay, Bounds DEF Scan, Settled, Alone
<1>3. \E result : Ends("auto", c, result)
  BY DEF Publish
<1>4. Alone'
  BY <1>3, AutoEnds DEF Alone
<1>5. CASE MayPublish(c)
  <2>1. /\ index' = [index EXCEPT ![c.s] = x]
        /\ rows' = [rows EXCEPT ![c.s] = {w \in rows[c.s] : w[1] = c.gen}]
    BY <1>5 DEF Publish
  <2>2. x.gen = c.gen /\ x.rev = c.entry
    OBVIOUS
  <2> HIDE DEF x
  <2>3. c.gen # 0 /\ c.cursor = c.entry.len
    <3>1. c.cursor >= 1 /\ c.cursor <= c.entry.len /\ c.cursor >= c.entry.len /\ c.entry.len \in Nat
      BY <1>1, <1>2, Bounds DEF Stands, Revision
    <3>2. c.gen = 0 => c.staged = 0
      BY <1>2 DEF Stands
    <3> HIDE DEF c
    <3> QED
      BY <1>1, <1>2, <3>1, <3>2
  <2>4. Staged(c.s, c.gen) = {c.gen} \X {r \in Record : c.acc[r] > 0 /\ r[2] <= c.staged}
    BY <1>1, <1>5, <2>3 DEF MayPublish, Settled, Alone
  <2>5. {r \in Record : c.acc[r] > 0 /\ r[2] <= c.staged} = Whole(c.entry)
    <3>1. \A r \in Record : r[2] \in Nat /\ (c.acc[r] > 0 <=> r[1] = c.entry.id /\ r[2] <= c.entry.len)
      BY <1>2, <2>3, Bounds DEF Scanned, Prefix, Record
    <3>2. c.entry.len <= c.staged
      BY <1>1, <1>2, <2>3
    <3>3. c.entry.len \in Nat
      BY <1>2, Bounds DEF Revision
    <3> HIDE DEF c
    <3> QED
      BY <1>2, <3>1, <3>2, <3>3 DEF Whole
  <2>6. PublishedWhole'
    <3>1. ASSUME NEW s \in Session, index'[s] # Nothing
          PROVE  {w \in rows'[s] : w[1] = index'[s].gen} = {index'[s].gen} \X Whole(index'[s].rev)
      <4>1. CASE s = c.s
        <5>1. index'[s] = x /\ rows'[s] = Staged(s, c.gen)
          BY <1>2, <2>1, <4>1 DEF IInv, Shape, StorageOK, Staged
        <5>2. {w \in rows'[s] : w[1] = c.gen} = Staged(s, c.gen)
          BY <5>1 DEF Staged
        <5> HIDE DEF c
        <5> QED
          BY <2>2, <2>4, <2>5, <4>1, <5>1, <5>2
      <4>2. CASE s # c.s
        <5>1. rows'[s] = rows[s] /\ index'[s] = index[s]
          BY <2>1, <4>2 DEF IInv, Shape, StorageOK
        <5> QED
          BY <3>1, <5>1 DEF Settled, PublishedWhole, Staged
      <4> QED
        BY <4>1, <4>2
    <3>2. \A s \in Session : metrics[s] # Nothing => metrics[s].count = Exactly(metrics[s].rev)
      BY DEF Settled, PublishedWhole
    <3> QED
      BY <1>1, <3>1, <3>2 DEF PublishedWhole, Staged
  <2> QED
    BY <1>4, <2>6 DEF Settled
<1>6. CASE ~MayPublish(c)
  <2>1. UNCHANGED storage
    BY <1>1, <1>6 DEF Publish, storage
  <2> QED
    BY <1>4, <2>1, WholeSame DEF Settled
<1> QED
  BY <1>5, <1>6

\* What the capture drops is no longer published.
LEMMA InvalidateSettled ==
    ASSUME IInv, Settled, NEW ok \in BOOLEAN, Invalidate(ok)
    PROVE  Settled'
<1> DEFINE s == observer["capture"].s
<1>1. UNCHANGED job /\ s \in Session
  BY DEF Invalidate, ObserverFrame, IInv, Shape, CatalogOK, Sight, Observer
<1>2. CASE ok
  <2>1. /\ metrics' = [metrics EXCEPT ![s] = Nothing]
        /\ index' = [index EXCEPT ![s] = Nothing] /\ rows' = [rows EXCEPT ![s] = {}]
    BY <1>2 DEF Invalidate
  <2>2. \A t \in Session : \/ metrics'[t] = Nothing /\ index'[t] = Nothing
                           \/ /\ metrics'[t] = metrics[t] /\ rows'[t] = rows[t]
                              /\ index'[t] = index[t]
    BY <1>1, <2>1 DEF IInv, Shape, StorageOK
  <2> HIDE DEF s
  <2>3. PublishedWhole'
    BY <2>2 DEF Settled, PublishedWhole, Staged, Whole, Exactly
  <2>4. Alone'
    <3>1. job["auto"].s \in Session
      BY Bounds DEF IInv, Shape, JobsOK, Scan
    <3> QED
      BY <1>1, <2>2, <3>1 DEF Settled, Alone, Published, Staged
  <2> QED
    BY <2>3, <2>4 DEF Settled
<1>3. CASE ~ok
  BY <1>1, <1>3, SettledSame DEF Invalidate
<1> QED
  BY <1>2, <1>3

\* A scan of the refresh begins.
LEMMA BeginsSettled ==
    ASSUME IInv, Settled, Resume \/ Try
    PROVE  Settled'
<1>1. UNCHANGED storage
  BY DEF Resume, Try, RefreshFrame
<1>2. ASSUME NEW s \in Session, NEW a \in Count, NEW n \in 0..MaxLen, NEW e \in Revision,
             job' = [job EXCEPT !["auto"] = Scanning(s, e, a, n)]
      PROVE  Settled'
  <2>1. Scanning(s, e, a, n).pc = "read"
    BY Begins
  <2>2. job'["auto"] = Scanning(s, e, a, n)
    BY <1>2, Bounds DEF IInv, Shape, JobsOK
  <2> QED
    BY <1>1, <2>1, <2>2, SettledReads
<1>3. CASE UNCHANGED job
  BY <1>1, <1>3, SettledSame
<1>4. \A s \in Session : catalog[s] # Nothing => catalog[s] \in Revision
  BY DEF IInv, Sights, Seen
<1>5. NoCount \in Count /\ 0 \in 0..MaxLen
  BY Blank, Bounds
<1>6. CASE Resume
  <2> DEFINE p == Head(ongoing)
  <2>1. ongoing \in Seq(Part) /\ p \in Part /\ p = ongoing[1] /\ 1 \in DOMAIN ongoing
    BY <1>6, HeadTailProperties, EmptySeq, LenProperties DEF Resume, IInv, Shape, RefreshOK
  <2>2. catalog[p.s] # Nothing /\ p.s \in Session /\ p.acc \in Count /\ p.cursor \in 0..MaxLen
    BY <2>1 DEF IInv, Parts, Scanned, Part
  <2>3. \/ job' = [job EXCEPT !["auto"] = Scanning(p.s, catalog[p.s], p.acc, p.cursor)]
        \/ job' = [job EXCEPT !["auto"] = Scanning(p.s, catalog[p.s], NoCount, 0)]
    BY <1>6 DEF Resume
  <2> HIDE DEF p
  <2> QED
    BY <1>2, <1>4, <1>5, <2>2, <2>3
<1>7. CASE Try
  <2>1. \/ UNCHANGED job
        \/ \E s \in Session : /\ First(s)
                              /\ job' = [job EXCEPT !["auto"] = Scanning(s, catalog[s], NoCount, 0)]
    BY <1>7 DEF Try
  <2>2. \A s \in Session : First(s) => catalog[s] # Nothing
    BY DEF IInv, Refreshing, First
  <2> QED
    BY <1>2, <1>3, <1>4, <1>5, <2>1, <2>2
<1> QED
  BY <1>6, <1>7

LEMMA InitSettled == Init => Settled
<1> SUFFICES ASSUME Init PROVE Settled
  OBVIOUS
<1>1. job["auto"].pc = "idle"
  BY Blank, Bounds DEF Init
<1> QED
  BY <1>1 DEF Init, Settled, Alone, PublishedWhole

LEMMA NextSettled == Http = {} /\ IInv /\ Settled /\ [Next]_vars => Settled'
<1> SUFFICES ASSUME Http = {}, IInv, Settled, [Next]_vars PROVE Settled'
  OBVIOUS
<1>1. ASSUME NEW s \in Session, Append1(s) \/ Rotate(s) \/ ThrottleEnds(s) \/ CoolsDown(s)
      PROVE  Settled'
  <2>1. UNCHANGED <<storage, job>>
    BY <1>1 DEF Append1, Rotate, SourceFrame, ThrottleEnds, CoolsDown, RefreshFrame
  <2> QED
    BY <2>1, SettledSame
<1>2. ASSUME NEW p \in Observer,
             (\E s \in Session : Look(p, s)) \/ (\E ok \in BOOLEAN : Upsert(p, ok))
      PROVE  Settled'
  <2>1. UNCHANGED <<storage, job>>
    BY <1>2 DEF Look, Upsert, ObserverFrame
  <2> QED
    BY <2>1, SettledSame
<1>3. ASSUME NEW ok \in BOOLEAN, Invalidate(ok) PROVE Settled'
  BY <1>3, InvalidateSettled
<1>4. CASE Works("auto")
  BY <1>4, ReadPageSettled, CheckSettled, ReplaceSettled, StageSettled, PublishSettled DEF Works
<1>5. CASE JobFails("auto")
  <2>1. UNCHANGED storage /\ Ends("auto", job["auto"], "threw")
    BY <1>5 DEF JobFails
  <2> QED
    BY <2>1, AutoEnds, SettledReads
<1>6. CASE Resume \/ Try
  BY <1>6, BeginsSettled
<1>7. CASE Restart
  <2>1. UNCHANGED storage /\ job'["auto"].pc = "idle"
    BY <1>7, Blank, Bounds DEF Restart
  <2> QED
    BY <2>1, SettledReads
<1>8. CASE Request \/ TimerFires \/ Select \/ LoopEnds \/ ChooseFails \/ UNCHANGED vars
  <2>1. UNCHANGED <<storage, job>>
    BY <1>8 DEF Request, TimerFires, Begin, Select, LoopEnds, ChooseFails, RefreshFrame, vars
  <2> QED
    BY <2>1, SettledSame
<1>9. Job = {"auto"} /\ ~\E j \in Http, s \in Session : HttpRebuild(j, s)
  BY DEF Job
<1> QED
  BY <1>1, <1>2, <1>3, <1>4, <1>5, <1>6, <1>7, <1>8, <1>9 DEF Next, Refreshes

\* Where the refresh is the only one that rebuilds, a session it leaves alone has
\* totals of the whole catalogued revision, and the published generation holds
\* every error of it and no other.
THEOREM SettledStaysWhole == Http = {} => (Spec => []SettledIsWhole)
<1>1. IInv /\ Settled => SettledIsWhole
  <2> SUFFICES ASSUME IInv, Settled, NEW s \in Session, catalog[s] # Nothing, ~NeedsRebuild(s)
               PROVE  /\ metrics[s].count = Exactly(catalog[s])
                      /\ ErrorRows(s) = {r \in Record : r[1] = catalog[s].id /\ r[2] <= catalog[s].len}
    BY DEF SettledIsWhole
  <2>1. /\ metrics[s] # Nothing /\ index[s] # Nothing
        /\ metrics[s].rev = catalog[s] /\ index[s].rev = catalog[s]
    BY DEF NeedsRebuild
  <2>2. Staged(s, index[s].gen) = {index[s].gen} \X Whole(catalog[s])
    BY <2>1 DEF Settled, PublishedWhole
  <2>3. ErrorRows(s) = {w[2] : w \in Staged(s, index[s].gen)}
    BY <2>1 DEF ErrorRows, Published, Staged
  <2>4. ErrorRows(s) = Whole(catalog[s])
    <3> DEFINE g == index[s].gen
               all == Whole(catalog[s])
    <3> HIDE DEF g, all
    <3>1. \A r : r \in {w[2] : w \in {g} \X all} <=> r \in all
      <4>1. ASSUME NEW r \in all PROVE r \in {w[2] : w \in {g} \X all}
        <5>1. <<g, r>> \in {g} \X all /\ <<g, r>>[2] = r
          OBVIOUS
        <5> QED
          BY <5>1
      <4>2. \A w \in {g} \X all : w[2] \in all
        OBVIOUS
      <4> QED
        BY <4>1, <4>2
    <3> QED
      BY <2>2, <2>3, <3>1 DEF g, all
  <2> QED
    BY <2>1, <2>4 DEF Settled, PublishedWhole, Whole
<1>2. ASSUME Http = {} PROVE Spec => []SettledIsWhole
  <2>1. IInv /\ Settled /\ [Next]_vars => Settled'
    BY <1>2, NextSettled
  <2> QED
    BY <1>1, <2>1, InitSettled, Inductive, PTL DEF Spec
<1> QED
  BY <1>2
=============================================================================
