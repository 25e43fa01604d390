---------------------------- MODULE NativeMetrics ----------------------------
(***************************************************************************)
(* Derived metrics of native session files.  Capture and indexer put the   *)
(* revision of a file into the catalog (core-services/src/native-session-  *)
(* catalog-tracker.ts, native-only-source-indexer.ts); a rebuild counts    *)
(* the records of the catalogued revision page by page and publishes       *)
(* totals and error index by compare-and-set (surface-http/src/native-     *)
(* session-metrics-http.ts, storage-sqlite/src/native-session-metrics.ts); *)
(* the lazy refresh picks the sessions (native-metrics-auto-refresh.ts).   *)
(***************************************************************************)
EXTENDS Naturals, Sequences, FiniteSets

CONSTANTS
    N,             \* sessions are 1..N in keyset order: last activity first
    Poison,        \* sessions whose reader throws once PoisonAt records are read
    PoisonAt,
    MaxId, MaxLen, \* bounds on rotations and records of a native file
    FirstLen,      \* records every file starts with
    PageLimit,     \* PAGE_LIMIT
    MaxPages,      \* MAX_PAGES of one rebuild
    MaxPerTrigger, \* MAX_SESSIONS_PER_TRIGGER
    MaxResumable,  \* MAX_RESUMABLE
    MaxBatches,    \* MAX_BATCHES_PER_REQUEST
    BatchErrors,   \* errors in one stageErrors call
    Certified,     \* nativeSessionCoverageComplete of the Source
    Http,          \* explicit rebuild requests that may run at one time
    Nothing

ASSUME ConstantsOK ==
    /\ N \in Nat \ {0} /\ Poison \subseteq 1..N /\ PoisonAt \in Nat
    /\ MaxId \in Nat \ {0} /\ MaxLen \in Nat \ {0} /\ FirstLen \in 1..MaxLen
    /\ PageLimit \in Nat \ {0} /\ MaxPages \in Nat \ {0} /\ MaxBatches \in Nat \ {0}
    /\ MaxPerTrigger \in Nat \ {0} /\ MaxResumable \in Nat \ {0}
    /\ BatchErrors \in Nat \ {0} /\ Certified \in BOOLEAN
    /\ IsFiniteSet(Http) /\ "auto" \notin Http
    /\ Nothing \notin [id : 1..MaxId, len : 1..MaxLen]

Session == 1..N
Job == Http \cup {"auto"}
Observer == {"capture", "indexer"}
Record == (1..MaxId) \X (1..MaxLen)
Generation == 1..(2 * Cardinality(Job) + 2)

VARIABLES
    file,      \* the native file: its inode and its number of records
    catalog,   \* the catalogued revision of each session, or Nothing
    inspected, \* sessions the capture's tracker throttles
    observer,  \* the two catalog writers, each between its stat and its write
    metrics,   \* the published totals: revision, times each record is counted
    index,     \* native_error_index_state: generation, revision, its errors
    rows,      \* native_error_index: <<generation, record>>
    job,       \* the rebuild each caller runs
    run,       \* one batch of the lazy refresh
    batches, timer,           \* batchesRemaining, queueTimer
    before, recent, ongoing   \* keyset cursor, cooldowns, resumable scans

storage == <<metrics, index, rows>>
refresh == <<run, batches, timer, before, recent, ongoing>>
vars == <<file, catalog, inspected, observer, storage, job, refresh>>

NoCount == [r \in Record |-> 0]
NoJob == [pc |-> "idle", s |-> 1, entry |-> Nothing, acc |-> NoCount, cursor |-> 0,
          pages |-> 0, whole |-> FALSE, gen |-> 0, staged |-> 0]
NoRun == [pc |-> "off", queue |-> {}, progressed |-> FALSE]

Init ==
    /\ file = [s \in Session |-> [id |-> 1, len |-> FirstLen]]
    /\ catalog = [s \in Session |-> Nothing] /\ inspected = {}
    /\ observer = [p \in Observer |-> [pc |-> "idle", s |-> 1, rev |-> Nothing]]
    /\ metrics = [s \in Session |-> Nothing] /\ index = metrics
    /\ rows = [s \in Session |-> {}]
    /\ job = [j \in Job |-> NoJob]
    /\ run = NoRun /\ batches = 0 /\ timer = FALSE
    /\ before = 0 /\ recent = {} /\ ongoing = <<>>

-----------------------------------------------------------------------------
(* The agent's own files.                                                  *)

SourceFrame == UNCHANGED <<catalog, inspected, observer, storage, job, refresh>>

Append1(s) ==
    /\ file[s].len < MaxLen /\ file' = [file EXCEPT ![s].len = @ + 1]
    /\ SourceFrame

Rotate(s) ==
    /\ file[s].id < MaxId /\ file' = [file EXCEPT ![s] = [id |-> @.id + 1, len |-> 1]]
    /\ SourceFrame

-----------------------------------------------------------------------------
(* Catalog writers: a stat, then the upsert of what it saw.                *)

ObserverFrame == UNCHANGED <<file, job, refresh>>

Look(p, s) ==
    /\ observer[p].pc = "idle" /\ (p = "capture" => s \notin inspected)
    /\ observer' = [observer EXCEPT ![p] = [pc |-> "upsert", s |-> s, rev |-> file[s]]]
    /\ UNCHANGED <<catalog, inspected, storage>> /\ ObserverFrame

\* ON CONFLICT: another inode replaces the row, of one inode the later wins.
Overwritten(old, new) == new
Merged(old, new) ==
    IF old = Nothing THEN new
    ELSE IF new.id = old.id /\ new.len < old.len THEN old ELSE new

\* Only a successful upsert is cached; capture then drops the metrics.
Upsert(p, ok) ==
    /\ observer[p].pc = "upsert"
    /\ LET s == observer[p].s
       IN IF ok
          THEN /\ catalog' = [catalog EXCEPT ![s] = Merged(@, observer[p].rev)]
               /\ inspected' = IF p = "capture" THEN inspected \cup {s} ELSE inspected
               /\ observer' = [observer EXCEPT ![p].pc =
                                 IF p = "capture" THEN "invalidate" ELSE "idle"]
          ELSE /\ observer' = [observer EXCEPT ![p].pc = "idle"]
               /\ UNCHANGED <<catalog, inspected>>
    /\ UNCHANGED storage /\ ObserverFrame

\* DELETE of the metrics; the error index goes with them by its foreign keys.
Invalidate(ok) ==
    /\ observer["capture"].pc = "invalidate"
    /\ observer' = [observer EXCEPT !["capture"].pc = "idle"]
    /\ LET s == observer["capture"].s
       IN IF ok THEN /\ metrics' = [metrics EXCEPT ![s] = Nothing]
                     /\ index' = [index EXCEPT ![s] = Nothing]
                     /\ rows' = [rows EXCEPT ![s] = {}]
          ELSE UNCHANGED storage
    /\ UNCHANGED <<catalog, inspected>> /\ ObserverFrame

ThrottleEnds(s) ==
    /\ s \in inspected /\ inspected' = inspected \ {s}
    /\ UNCHANGED <<file, catalog, observer, storage, job, refresh>>

-----------------------------------------------------------------------------
(* The refresh around a rebuild: how a batch takes up its result.          *)

Place(s) == CHOOSE i \in DOMAIN ongoing : ongoing[i].s = s
Without(s) ==
    IF \A i \in DOMAIN ongoing : ongoing[i].s # s THEN ongoing
    ELSE SubSeq(ongoing, 1, Place(s) - 1) \o SubSeq(ongoing, Place(s) + 1, Len(ongoing))

\* The batch is over; a batch that got somewhere is followed by another.
RunEnds(progressed) ==
    LET left == batches - 1
        more == progressed /\ left > 0
    IN run' = NoRun /\ timer' = more /\ batches' = IF more THEN left ELSE 0

KeptOngoing(s) == ongoing
Discarded(s) == Without(s)

Uncapped(q) == q
Capped(q) == IF Len(q) >= MaxResumable THEN Tail(q) ELSE q

Progress(c) == [s |-> c.s, entry |-> c.entry, acc |-> c.acc, cursor |-> c.cursor]

\* What is kept of a scan: unfinished ones, at the end of the queue; a failed
\* resume is given up and cools down.
Resumed(c, result) ==
    /\ ongoing' = CASE result = "in_progress" -> Append(Without(c.s), Progress(c))
                    [] result = "threw" -> Discarded(c.s)
                    [] OTHER -> Without(c.s)
    /\ recent' = IF result = "threw" THEN recent \cup {c.s} ELSE recent
    /\ RunEnds(result \in {"available", "in_progress"})

Tried(c, result) ==
    /\ ongoing' = CASE result = "in_progress" -> Append(Capped(Without(c.s)), Progress(c))
                    [] result = "threw" -> ongoing
                    [] OTHER -> Without(c.s)
    /\ run' = [run EXCEPT !.progressed = @ \/ result \in {"available", "in_progress"}]
    /\ UNCHANGED <<recent, batches, timer>>

Ends(j, c, result) ==
    /\ job' = [job EXCEPT ![j] = NoJob]
    /\ IF j # "auto" THEN UNCHANGED refresh
       ELSE /\ UNCHANGED before
            /\ IF run.pc = "pending" THEN Resumed(c, result) ELSE Tried(c, result)

Goes(j, c) == job' = [job EXCEPT ![j] = c] /\ UNCHANGED refresh

-----------------------------------------------------------------------------
(* rebuildNativeSessionMetrics.                                            *)

JobFrame == UNCHANGED <<file, catalog, inspected, observer>>

Scanning(s, entry, acc, cursor) ==
    [NoJob EXCEPT !.pc = "read", !.s = s, !.entry = entry, !.acc = acc,
                  !.cursor = cursor]

\* The reader of a poisoned session fails at the same record every time.
Throws(c) == c.pc = "read" /\ c.s \in Poison /\ c.cursor >= PoisonAt

Counted(acc, page) == [r \in Record |-> IF r \in page THEN acc[r] + 1 ELSE acc[r]]

\* One page of the current file, which must still be the catalogued inode.
ReadPage(j) ==
    LET c == job[j]
        f == file[c.s]
        to == IF f.len < c.cursor + PageLimit THEN f.len ELSE c.cursor + PageLimit
        page == {r \in Record : r[1] = f.id /\ r[2] > c.cursor /\ r[2] <= to}
        d == [c EXCEPT !.acc = Counted(c.acc, page), !.cursor = to, !.pages = c.pages + 1]
    IN /\ c.pc = "read"
       /\ \/ Throws(c) /\ Ends(j, c, "threw")
          \/ /\ ~Throws(c)
             /\ \/ {f.id, catalog[c.s].id} # {c.entry.id} /\ Ends(j, c, "drifted")
                \/ /\ {f.id, catalog[c.s].id} = {c.entry.id}
                   /\ \/ to = f.len /\ Goes(j, [d EXCEPT !.pc = "check", !.whole = TRUE])
                      \/ to < f.len /\ d.pages < MaxPages /\ Goes(j, d)
                      \/ /\ to < f.len /\ d.pages = MaxPages
                         /\ IF j = "auto" THEN Ends(j, d, "in_progress")
                            ELSE Goes(j, [d EXCEPT !.pc = "check"])
       /\ UNCHANGED storage /\ JobFrame

\* The stat after the last page: is this still the revision that was asked for.
RevisionUnchecked(f, entry) == TRUE
RevisionHolds(f, entry) == f = entry

CheckSource(j) ==
    LET c == job[j]
    IN /\ c.pc = "check"
       /\ IF RevisionHolds(file[c.s], c.entry) THEN Goes(j, [c EXCEPT !.pc = "replace"])
          ELSE Ends(j, c, "drifted")
       /\ UNCHANGED storage /\ JobFrame

\* replace: the catalog must still hold the revision.
Replace(j) ==
    LET c == job[j]
    IN /\ c.pc = "replace"
       /\ IF catalog[c.s] = c.entry
          THEN /\ metrics' = [metrics EXCEPT ![c.s] =
                    [rev |-> c.entry, count |-> c.acc, complete |-> c.whole /\ Certified]]
               /\ Goes(j, [c EXCEPT !.pc = "stage"])
          ELSE UNCHANGED metrics /\ Ends(j, c, "drifted")
       /\ UNCHANGED <<index, rows>> /\ JobFrame

Published(s) == IF index[s] = Nothing THEN 0 ELSE index[s].gen

\* A generation of one's own: none that is in use.
Fresh(s) ==
    CHOOSE g \in Generation :
        /\ g # Published(s) /\ \A w \in rows[s] : w[1] # g
        /\ \A j \in Job : job[j].s = s => job[j].gen # g

\* stageErrors: rows of every other unpublished generation go.
Stage(j) ==
    LET c == job[j]
        gen == IF c.gen = 0 THEN Fresh(c.s) ELSE c.gen
        errors == {r \in Record : /\ c.acc[r] > 0 /\ r[2] > c.staged
                                  /\ r[2] <= c.staged + BatchErrors}
    IN /\ c.pc = "stage" /\ c.staged < c.cursor
       /\ IF metrics[c.s] = Nothing
          THEN UNCHANGED rows /\ Ends(j, c, "threw")
          ELSE /\ rows' = [rows EXCEPT ![c.s] =
                    {w \in @ : w[1] \in {gen, Published(c.s)}} \cup ({gen} \X errors)]
               /\ Goes(j, [c EXCEPT !.gen = gen, !.staged = @ + BatchErrors])
       /\ UNCHANGED <<metrics, index>> /\ JobFrame

\* publishErrors: totals and catalog must still be of this revision.
MayPublish(c) ==
    metrics[c.s] # Nothing /\ metrics[c.s].rev = c.entry /\ catalog[c.s] = c.entry

Publish(j) ==
    LET c == job[j]
    IN /\ c.pc = "stage" /\ c.staged >= c.cursor
       /\ IF MayPublish(c)
          THEN /\ index' = [index EXCEPT ![c.s] =
                    [gen |-> c.gen, rev |-> c.entry,
                     errors |-> {r \in Record : c.acc[r] > 0}]]
               /\ rows' = [rows EXCEPT ![c.s] = {w \in @ : w[1] = c.gen}]
               /\ Ends(j, c, "available")
          ELSE UNCHANGED <<index, rows>> /\ Ends(j, c, "drifted")
       /\ UNCHANGED metrics /\ JobFrame

\* A request to reader or storage is refused, or the client hangs up.
JobFails(j) ==
    /\ job[j].pc # "idle" /\ ~Throws(job[j]) /\ Ends(j, job[j], "threw")
    /\ UNCHANGED storage /\ JobFrame

\* POST .../metrics/rebuild.
HttpRebuild(j, s) ==
    /\ job[j].pc = "idle" /\ catalog[s] # Nothing
    /\ Goes(j, Scanning(s, catalog[s], NoCount, 0))
    /\ UNCHANGED storage /\ JobFrame

-----------------------------------------------------------------------------
(* NativeMetricsAutoRefresh.                                               *)

RefreshFrame == UNCHANGED <<file, catalog, inspected, observer, storage>>

\* schedule(): single flight; a request, or the timer of the batch before.
Begin ==
    /\ run' = [NoRun EXCEPT !.pc = "choose"]
    /\ batches' = IF batches = 0 THEN MaxBatches ELSE batches
    /\ UNCHANGED <<job, before, recent, ongoing>> /\ RefreshFrame

Request == run.pc = "off" /\ ~timer /\ Begin /\ UNCHANGED timer
TimerFires == timer /\ timer' = FALSE /\ Begin

\* An unfinished scan goes first; it resumes only on the revision it began.
Reusable(p) == p.entry = catalog[p.s]

Resume ==
    /\ run.pc = "choose" /\ ongoing # <<>>
    /\ LET p == Head(ongoing)
       IN job' = [job EXCEPT !["auto"] =
                    IF Reusable(p) THEN Scanning(p.s, catalog[p.s], p.acc, p.cursor)
                    ELSE Scanning(p.s, catalog[p.s], NoCount, 0)]
    /\ run' = [run EXCEPT !.pc = "pending"]
    /\ UNCHANGED <<batches, timer, before, recent, ongoing>> /\ RefreshFrame

\* findRebuildCandidates.
NeedsTotals(s) ==
    /\ catalog[s] # Nothing
    /\ metrics[s] = Nothing \/ metrics[s].rev # catalog[s] \/ ~metrics[s].complete

NeedsRebuild(s) ==
    /\ catalog[s] # Nothing
    /\ \/ metrics[s] = Nothing \/ index[s] = Nothing
       \/ metrics[s].rev # catalog[s] \/ index[s].rev # catalog[s]
       \/ ~metrics[s].complete /\ Certified

Behind == {s \in Session : s > before /\ NeedsRebuild(s)}
Candidates == {s \in Behind : Cardinality({t \in Behind : t < s}) < MaxPerTrigger}

\* The cursor moves past the page whatever becomes of its sessions.
CursorAfter(S) ==
    IF Cardinality(S) = MaxPerTrigger THEN {s \in S : \A t \in S : t <= s} ELSE {0}

Select ==
    /\ run.pc = "choose" /\ ongoing = <<>>
    /\ run' = [pc |-> "loop", queue |-> Candidates, progressed |-> FALSE]
    /\ before' \in CursorAfter(Candidates)
    /\ UNCHANGED <<job, batches, timer, recent, ongoing>> /\ RefreshFrame

\* The next candidate in keyset order, unless it cools down.
First(s) == s \in run.queue /\ \A t \in run.queue : s <= t

Try ==
    /\ run.pc = "loop" /\ job["auto"].pc = "idle"
    /\ \E s \in Session :
         /\ First(s) /\ run' = [run EXCEPT !.queue = @ \ {s}]
         /\ IF s \in recent THEN UNCHANGED <<job, recent>>
            ELSE /\ recent' = recent \cup {s}
                 /\ job' = [job EXCEPT !["auto"] = Scanning(s, catalog[s], NoCount, 0)]
    /\ UNCHANGED <<batches, timer, before, ongoing>> /\ RefreshFrame

LoopEnds ==
    /\ run.pc = "loop" /\ run.queue = {} /\ job["auto"].pc = "idle"
    /\ RunEnds(run.progressed)
    /\ UNCHANGED <<job, before, recent, ongoing>> /\ RefreshFrame

\* The queries that choose are outside any try: one refused ends the whole
\* drain, and the candidate it was for cools down all the same.
ChooseFails ==
    /\ \/ run.pc = "choose" /\ UNCHANGED recent
       \/ /\ run.pc = "loop" /\ job["auto"].pc = "idle"
          /\ \E s \in Session \ recent : First(s) /\ recent' = recent \cup {s}
    /\ run' = NoRun /\ batches' = 0
    /\ UNCHANGED <<job, timer, before, ongoing>> /\ RefreshFrame

CoolsDown(s) ==
    /\ s \in recent /\ recent' = recent \ {s}
    /\ UNCHANGED <<job, run, batches, timer, before, ongoing>> /\ RefreshFrame

\* The daemon ends and starts again: only files and database stay.
Restart ==
    /\ inspected' = {} /\ job' = [j \in Job |-> NoJob]
    /\ observer' = [p \in Observer |-> [pc |-> "idle", s |-> 1, rev |-> Nothing]]
    /\ run' = NoRun /\ batches' = 0 /\ timer' = FALSE
    /\ before' = 0 /\ recent' = {} /\ ongoing' = <<>>
    /\ UNCHANGED <<file, catalog, storage>>

-----------------------------------------------------------------------------
Works(j) == ReadPage(j) \/ CheckSource(j) \/ Replace(j) \/ Stage(j) \/ Publish(j)
Refreshes == TimerFires \/ Resume \/ Select \/ Try \/ LoopEnds

Next ==
    \/ \E s \in Session : Append1(s) \/ Rotate(s) \/ ThrottleEnds(s) \/ CoolsDown(s)
    \/ \E p \in Observer : \/ \E s \in Session : Look(p, s)
                           \/ \E ok \in BOOLEAN : Upsert(p, ok)
    \/ \E ok \in BOOLEAN : Invalidate(ok)
    \/ \E j \in Job : Works(j) \/ JobFails(j)
    \/ \E j \in Http, s \in Session : HttpRebuild(j, s)
    \/ Request \/ Refreshes \/ ChooseFails \/ Restart

Spec == Init /\ [][Next]_vars

Fails == Restart \/ ChooseFails \/ \E j \in Job : JobFails(j)

\* Files settle and are catalogued, failures and restarts stop; the event loop,
\* the timers and the storage go on.
Fairness ==
    /\ \A s \in Session : <>[](catalog[s] = file[s])
    /\ <>[][~Fails /\ \A p \in Observer, s \in Session : ~Look(p, s)]_vars
    /\ WF_vars(Works("auto")) /\ WF_vars(Refreshes)
    /\ \A s \in Session : WF_vars(CoolsDown(s))

\* And the user asks for usage or insights again and again.
FairSpec == Spec /\ Fairness /\ WF_vars(Request)

-----------------------------------------------------------------------------
Revision == [id : 1..MaxId, len : 1..MaxLen]
Count == [Record -> Nat]

TypeOK ==
    /\ file \in [Session -> Revision]
    /\ catalog \in [Session -> Revision \cup {Nothing}] /\ inspected \subseteq Session
    /\ observer \in [Observer -> [pc : {"idle", "upsert", "invalidate"}, s : Session,
                                  rev : Revision \cup {Nothing}]]
    /\ \A s \in Session : metrics[s] = Nothing
         \/ metrics[s] \in [rev : Revision, count : Count, complete : BOOLEAN]
    /\ \A s \in Session : index[s] = Nothing
         \/ index[s] \in [gen : Generation, rev : Revision, errors : SUBSET Record]
    /\ \A s \in Session : rows[s] \subseteq Generation \X Record
    /\ job \in [Job -> [pc : {"idle", "read", "check", "replace", "stage"}, s : Session,
                        entry : Revision \cup {Nothing}, acc : Count,
                        cursor : 0..MaxLen, pages : 0..MaxPages, whole : BOOLEAN,
                        gen : {0} \cup Generation, staged : Nat]]
    /\ run \in [pc : {"off", "choose", "pending", "loop"}, queue : SUBSET Session,
                progressed : BOOLEAN]
    /\ batches \in 0..MaxBatches /\ timer \in BOOLEAN
    /\ before \in 0..N /\ recent \subseteq Session
    /\ ongoing \in Seq([s : Session, entry : Revision, acc : Count, cursor : 0..MaxLen])
    /\ Len(ongoing) <= MaxResumable

Exactly(rev) == [r \in Record |-> IF r[1] = rev.id /\ r[2] <= rev.len THEN 1 ELSE 0]

\* Published totals count records of the very revision they name, each once:
\* all of them when the coverage is complete, a prefix otherwise, however the
\* file grew or was replaced while it was scanned, and whatever was resumed.
CountsAreExact ==
    \A s \in Session : metrics[s] # Nothing =>
        \E n \in 0..metrics[s].rev.len :
            /\ metrics[s].count = Exactly([metrics[s].rev EXCEPT !.len = n])
            /\ metrics[s].complete => n = metrics[s].rev.len

\* A session that the refresh no longer looks at has totals of the whole
\* catalogued revision and every one of its errors in the published generation.
ErrorRows(s) == {w[2] : w \in {v \in rows[s] : v[1] = Published(s)}}

SettledIsWhole ==
    \A s \in Session : catalog[s] # Nothing /\ ~NeedsRebuild(s) =>
        /\ metrics[s].count = Exactly(catalog[s])
        /\ ErrorRows(s) = {r \in Record : r[1] = catalog[s].id /\ r[2] <= catalog[s].len}

\* Two catalog writers whose stats are stale by the time they write never take
\* the revision of one inode back (native-session-catalog.ts:74-85).
CatalogMonotone ==
    [][\A s \in Session : catalog[s] # Nothing =>
         /\ catalog'[s] # Nothing
         /\ (catalog'[s].id = catalog[s].id => catalog'[s].len >= catalog[s].len)]_vars

\* Sessions that fail do not starve the others: in the end every session that
\* can be read is settled (native-metrics-auto-refresh.test.ts:140).
HealthyRefreshed == \A s \in Session \ Poison : <>[](catalog[s] # Nothing /\ ~NeedsRebuild(s))

\* slim-schema-sql.ts:10: "Only this generation may be queried; incomplete
\* batches remain invisible."  The published generation holds what its scan found.
IncompleteStaysInvisible ==
    \A s \in Session : index[s] # Nothing => ErrorRows(s) = index[s].errors
=============================================================================
