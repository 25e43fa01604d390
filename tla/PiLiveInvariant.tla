--------------------------- MODULE PiLiveInvariant ---------------------------
(****************************************************************************)
(* The inductive invariant of PiLive, and the vocabulary its proof is       *)
(* written in: what is known of one runtime before a step, and what a step  *)
(* makes of each variable. PiLiveProofs proves with it what the service     *)
(* promises.                                                                *)
(****************************************************************************)
EXTENDS PiLive

-----------------------------------------------------------------------------
(* What the variables range over.                                          *)

\* Who may have a write in the tail.
Kinds == Kind \cup {"checkpoint"}

\* The OwnedRuntime of an id.
Task == [status : Status, gen : Nat, handle : 0..MaxGen, suspended : BOOLEAN,
         path : Path \cup {NoPath}, saved : BOOLEAN, titled : BOOLEAN]

\* How far a job is.
Progress == [pc : JobState, w : Nat, ahead : Nat]

\* A write of the tail.
Message == [op : {"put", "remove"}, id : Runtime, by : Kinds]

\* The variables that hold one value per runtime.
Functions ==
    /\ rt \in [Runtime -> Task] /\ job \in [Runtime -> [Kind -> Progress]]
    /\ hydration \in [Runtime -> 0..MaxGen] /\ chain \in [Runtime -> Nat]
    /\ file \in [Runtime -> Path \cup {NoPath}]

\* The tail holds a write of r for k.
Within(s, r, k) == \E i \in DOMAIN s : s[i].id = r /\ s[i].by = k

\* Only DELETE removes, and nobody has two writes of one runtime in the tail.
WellFormed(s) ==
    /\ s \in Seq(Message)
    /\ \A i \in DOMAIN s : s[i].op = "remove" <=> s[i].by = "delete"
    /\ \A i, j \in DOMAIN s : s[i].id = s[j].id /\ s[i].by = s[j].by => i = j

\* What a sequence of records holds.
Elements(s) == {s[i] : i \in DOMAIN s}

-----------------------------------------------------------------------------
(* What holds of one runtime, and the invariant.                           *)

\* A write in the tail is awaited: by the job that put it there, or counted in
\* the chain of checkpoints.
Owed(r) ==
    /\ \A k \in Kind : Within(writes, r, k) => job[r][k].pc = "put"
    /\ Within(writes, r, "checkpoint") => chain[r] > 0

\* A runtime that was never created, or that this process has not loaded yet,
\* has no Worker, no job and no attempt under way.
Quiet(r) ==
    r \notin used \/ ~loaded =>
        /\ r \notin runtimes /\ rt[r].status = "none"
        /\ hydration[r] = 0 /\ chain[r] = 0
        /\ \A k \in Kind : job[r][k].pc = "idle"
        /\ \A g \in Nat : <<r, g>> \notin starting /\ <<r, g>> \notin running

\* No attempt is younger than its runtime. A runtime whose current attempt
\* still runs is not ready, and a restart that waits for its old Worker has an
\* attempt of its own, which nothing else has begun or finished.
Ordered(r) ==
    /\ hydration[r] <= rt[r].gen /\ rt[r].handle <= rt[r].gen
    /\ \A g \in Nat : <<r, g>> \in starting => g <= rt[r].gen
    /\ <<r, rt[r].gen>> \in starting => rt[r].status # "ready"
    /\ job[r]["restart"].pc = "ending" =>
          /\ hydration[r] > 0 /\ <<r, hydration[r]>> \notin starting
          /\ hydration[r] = rt[r].gen => rt[r].status # "ready"

\* Nothing is owed, and no dispose job runs, before dispose() is called; a
\* runtime owed by it is not being deleted.
Disposing(r) ==
    /\ phase = "running" => r \notin kept /\ job[r]["dispose"].pc = "idle"
    /\ r \in kept => job[r]["delete"].pc = "idle"

\* Stored, or taken out by the record limit and by nothing else.
Safe == Stored \cup evicted

\* Until its DELETE has removed it, the record of a runtime marked saved is
\* there; so is that of a job past its own put, unless the put failed.
Recorded(r) ==
    job[r]["delete"].pc # "stored" =>
        /\ rt[r].saved => r \in Safe
        /\ \A k \in {"suspend", "restart"} :
              job[r][k].pc = "stored" => r \in Safe \cup unwritten

\* What dispose() owes is stored, is being stored, or will be: its Worker is
\* alive and its session has a file while its checkpoints drain.
Keeps(r) ==
    r \in kept \ unwritten =>
        \/ r \in Safe
        \/ job[r]["dispose"].pc = "put"
        \/ job[r]["dispose"].pc = "drain" /\ Ready(r) /\ file[r] # NoPath

\* A listed runtime that looks ready can be served.
Served(r) ==
    phase = "running" /\ r \in runtimes /\ rt[r].status = "ready"
        => rt[r].suspended \/ rt[r].handle # 0

\* No Worker comes to a runtime that DELETE or dispose is ending, or has ended:
\* it has no attempt under way, and none can begin while it is still listed.
Left(r) ==
    Leaving(r) =>
        /\ rt[r].handle = 0 /\ <<r, rt[r].gen>> \notin starting
        /\ job[r]["restart"].pc = "ending" => hydration[r] # rt[r].gen
        /\ r \in runtimes => /\ ~rt[r].suspended
                             /\ rt[r].status \notin {"failed", "initializing"}

\* A running Worker belongs to a listed runtime that has its handle, and only a
\* runtime that is ready and not suspended has one.
Held(r) ==
    r \notin overtaken =>
        /\ \A g \in Nat : <<r, g>> \in running => r \in runtimes /\ rt[r].handle = g
        /\ rt[r].handle # 0 => rt[r].status = "ready" /\ ~rt[r].suspended
        /\ rt[r].suspended => rt[r].status \in {"ready", "terminating", "terminated"}
        /\ Left(r)

\* All that is known of one runtime between two steps.
Local(r) ==
    /\ Owed(r) /\ Quiet(r) /\ Ordered(r) /\ Disposing(r)
    /\ Recorded(r) /\ Keeps(r) /\ Served(r) /\ Held(r)

\* Sets of runtimes hold only runtimes that were created.
Users ==
    /\ runtimes \subseteq used /\ page \subseteq used /\ turn \subseteq used
    /\ used \subseteq Runtime /\ deleted \subseteq used /\ evicted \subseteq used
    /\ kept \subseteq used /\ unwritten \subseteq used
    /\ overtaken \subseteq used /\ Stored \subseteq used

\* Sets of Workers hold only Workers.
Workers == starting \subseteq Worker /\ running \subseteq Worker /\ stopping \subseteq Worker

\* The variables that are sets.
Sets == Users /\ Workers

\* The daemon process.
Process ==
    /\ phase \in {"running", "disposing"} /\ loaded \in BOOLEAN
    /\ daemons \in 1..MaxDaemons \cup {1}

\* The store keeps to its limit.
Records == store \in Seq(Runtime) /\ Len(store) <= MaxRecords

\* Every variable has its type, and the tail is well formed.
Shape == Sets /\ Functions /\ Process /\ Records /\ WellFormed(writes)

\* The inductive invariant.
IInv == Shape /\ \A r \in Runtime : Local(r)

-----------------------------------------------------------------------------
(* What a proof about a step may use of the state before it.               *)

\* The fields of r have their types.
Known(r) ==
    /\ rt[r] \in Task /\ rt[r].gen \in Nat /\ rt[r].gen + 1 \in Nat
    /\ rt[r].handle \in 0..MaxGen /\ rt[r].handle \in Nat
    /\ rt[r].suspended \in BOOLEAN /\ rt[r].saved \in BOOLEAN /\ rt[r].status \in Status
    /\ hydration[r] \in 0..MaxGen /\ hydration[r] \in Nat /\ chain[r] \in Nat
    /\ file[r] \in Path \cup {NoPath}
    /\ \A k \in Kind : job[r][k] \in Progress

\* Membership of the literals the actions assign: provers find it in a fact,
\* not in the middle of a step.
Literals ==
    /\ 0 \in Nat /\ 1 \in Nat /\ 0 \in 0..MaxGen /\ MaxGen \in Nat
    /\ TRUE \in BOOLEAN /\ FALSE \in BOOLEAN
    /\ {"initializing", "ready", "failed", "none", "terminating", "terminated"} \subseteq Status
    /\ 1 \in Gens /\ 0 \notin Gens /\ Gens \subseteq Nat /\ Gens \subseteq 0..MaxGen
    /\ Kind = {"suspend", "restart", "delete", "dispose"}
    /\ Kinds = {"suspend", "restart", "delete", "dispose", "checkpoint"}

\* Everything a step of r may rely on.
At(r) ==
    /\ Known(r) /\ Literals /\ Owed(r) /\ Quiet(r) /\ Ordered(r)
    /\ Disposing(r) /\ Recorded(r) /\ Keeps(r) /\ Served(r) /\ Held(r)

-----------------------------------------------------------------------------
(* What a step makes of the variables.                                     *)

\* What the invariant reads of a task.
Looks(x, g, s, h, u, v) ==
    /\ x \in Task /\ x.gen = g /\ x.status = s /\ x.handle = h
    /\ x.suspended = u /\ x.saved = v

\* The step leaves r with these fields and every other task as it was.
Becomes(r, g, s, h, u, v) ==
    /\ rt' \in [Runtime -> Task] /\ Looks(rt'[r], g, s, h, u, v)
    /\ \A q \in Runtime \ {r} : rt'[q] = rt[q]

\* The step takes job k of r to s and moves no other job.
Moves(r, k, s) ==
    /\ job' \in [Runtime -> [Kind -> Progress]]
    /\ job'[r][k].pc = s
    /\ \A j \in Kind \ {k} : job'[r][j] = job[r][j]
    /\ \A q \in Runtime \ {r} : job'[q] = job[q]

\* The hydration task of r is h, the others are what they were.
HydrationIs(r, h) ==
    /\ hydration' \in [Runtime -> 0..MaxGen] /\ hydration'[r] = h
    /\ \A q \in Runtime \ {r} : hydration'[q] = hydration[q]

\* The chain of r has c checkpoints, the others are what they were.
ChainIs(r, c) ==
    /\ chain' \in [Runtime -> Nat] /\ chain'[r] = c
    /\ \A q \in Runtime \ {r} : chain'[q] = chain[q]

\* A session that has a file keeps one.
FileKept(r) ==
    /\ file' \in [Runtime -> Path \cup {NoPath}]
    /\ file[r] # NoPath => file'[r] # NoPath
    /\ \A q \in Runtime \ {r} : file'[q] = file[q]

\* At most a write of r for k joins the tail.
Queues(r, k) ==
    /\ WellFormed(writes')
    /\ \A q \in Runtime, j \in Kinds :
          Within(writes', q, j) => Within(writes, q, j) \/ (q = r /\ j = k)

\* What the write at the head of the tail does to the records.
Stores(r, put, ok) ==
    /\ Records' /\ Stored' \subseteq Stored \cup {r} /\ evicted' \subseteq evicted \cup Stored \cup {r}
    /\ \A q \in Runtime \ {r} : q \in Safe => q \in Safe'
    /\ put /\ ok => r \in Safe'
    /\ ~ok => Safe' = Safe

\* The step is not about q.
Untouched(q) ==
    /\ rt'[q] = rt[q] /\ job'[q] = job[q] /\ hydration'[q] = hydration[q]
    /\ chain'[q] = chain[q] /\ file'[q] = file[q]
    /\ q \in used' <=> q \in used
    /\ q \in runtimes' <=> q \in runtimes
    /\ q \in overtaken' <=> q \in overtaken
    /\ q \in unwritten => q \in unwritten'
    /\ q \in kept' => q \in kept
    /\ q \in Safe => q \in Safe'
    /\ \A g \in Nat : <<q, g>> \in starting' <=> <<q, g>> \in starting
    /\ \A g \in Nat : <<q, g>> \in running' <=> <<q, g>> \in running
    /\ \A k \in Kinds : Within(writes', q, k) => Within(writes, q, k)

-----------------------------------------------------------------------------
(* Parts of actions the proofs name.                                       *)

\* Any call that hydrates a suspended runtime.
Hydrating(r) ==
    /\ loaded /\ r \in runtimes /\ Hydrates(r) /\ Hydrate(r) /\ page' \in {page, page \cup {r}}
    /\ UNCHANGED <<daemonVars, runtimes, turn, running, stopping, job, storeVars, file, used>>

\* The snapshot that found the disk ahead also checkpoints the session.
Adopts(r) == <<r, job[r]["restart"].w>> \in running /\ Unadopted(r)

\* That snapshot schedules a restart.
Restarts(r) == StillThere(r, job[r]["restart"].w) /\ hydration[r] = 0

\* The write at the head of the tail is one of r for k.
Writes(r, k) ==
    /\ Head(writes) \in Message /\ Head(writes).id = r /\ Head(writes).by = k
    /\ Within(writes, r, k) /\ (Head(writes).op = "put" <=> k # "delete")

\* A process that has just begun.
Begun ==
    /\ phase = "running" /\ loaded = FALSE /\ kept = {} /\ unwritten = {} /\ overtaken = {}
    /\ runtimes = {}
    /\ rt = [r \in Runtime |-> Blank] /\ page = {} /\ turn = {}
    /\ hydration = [r \in Runtime |-> 0] /\ starting = {} /\ running = {} /\ stopping = {}
    /\ job = [r \in Runtime |-> [k \in Kind |-> NoJob]]
    /\ chain = [r \in Runtime |-> 0] /\ writes = <<>>

\* What the processes before it left.
Found ==
    /\ Stored \cup evicted \cup deleted \subseteq used /\ used \subseteq Runtime
    /\ file \in [Runtime -> Path \cup {NoPath}] /\ Records /\ daemons \in 1..MaxDaemons \cup {1}

=============================================================================
