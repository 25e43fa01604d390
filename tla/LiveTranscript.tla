--------------------------- MODULE LiveTranscript ---------------------------
(***************************************************************************)
(* How the page of a live task keeps its transcript: an event stream that  *)
(* replays nothing, snapshots of the session's journal, and the rules that *)
(* reconcile the two (packages/web/src/features/use-live-task-runtime.ts,  *)
(* live-task-projection.ts; the server's side is packages/runtime-cordis/  *)
(* src/pi-live and packages/surface-http/src/live-http.ts).                *)
(*                                                                         *)
(* A message is <<turn, k>>: k = 0 is the user's prompt, k > 0 an answer.  *)
(* The page shows it as an item whose form says where it came from:        *)
(*   "opt"   the prompt as typed, before the session has it                *)
(*   "part"  an answer the stream has begun, "text" one it has ended       *)
(*   "row"   an entry of the journal, taken from a snapshot,               *)
(*   "error" no message: the Worker failed.                                *)
(* Only a row has the journal's identifier: an answer of the stream has an *)
(* identifier made for the display, so nothing matches it with its row.    *)
(***************************************************************************)
EXTENDS Naturals, Sequences, FiniteSets, Functions

CONSTANTS
    Turns,          \* prompts in a behaviour
    Parts,          \* answers in a turn, at most
    MaxFaults       \* losses of the stream, exits of the Worker, requests
                    \* that fail and looks at the state, together

PageConstantsOK == {Turns, Parts, MaxFaults} \subseteq Nat

VARIABLES
    journal,        \* the messages the session has stored
    status,         \* of the runtime: "ready", "failed", "initializing"
    replying, part, open,    \* the turn in progress, its last answer, is it being written
    issued,         \* prompts typed so far
    wire,           \* events on their way to the page
    connected,      \* the page's event stream is open
    stable, active, \* the items shown: settled rounds, and the tail
    leaf, base,     \* the last entry loaded; the items of the tail a snapshot gave
    touched,        \* the transcript revision has moved since the page was mounted
    initial, recovery, probe, sending,  \* the page's requests
    known, state,   \* the runtime state the page compares with, and shows
    syncError,      \* the page says that it could not synchronise
    faults,
    slips           \* history: the unguarded races that have happened

server == <<journal, status, replying, part, open>>
shown == <<stable, active>>
anchor == <<leaf, base>>
pageVars == <<server, issued, wire, connected, shown, anchor, touched, initial,
          recovery, probe, sending, known, state, syncError, faults, slips>>

Item(m, form) == [msg |-> m, form |-> form]
NoMessage == <<0, 0>>
Rows(ms) == [i \in 1..Len(ms) |-> Item(ms[i], "row")]
Messages(items) == [i \in 1..Len(items) |-> items[i].msg]

\* The items that are not among those seen, in their order.
Without(items, seen) ==
    LET kept == {i \in 1..Len(items) : items[i] \notin seen}
    IN [n \in 1..Cardinality(kept) |->
           items[CHOOSE i \in kept : Cardinality(kept \cap 1..i) = n]]

-----------------------------------------------------------------------------
(* Requests and answers.                                                   *)

ReadyIdle == [status |-> "ready", streaming |-> FALSE]
RuntimeState == [status |-> status, streaming |-> replying # 0]

\* The entries after a cursor, the leaf and the state, read together. While
\* the session has no ready Worker it answers an empty window.
Snapshot(since) ==
    IF status = "ready"
    THEN [entries |-> SubSeq(journal, since + 1, Len(journal)),
          leaf |-> Len(journal), state |-> RuntimeState]
    ELSE [entries |-> <<>>, leaf |-> 0, state |-> RuntimeState]
Unread == [entries |-> <<>>, leaf |-> 0, state |-> ReadyIdle]

\* A recovery under way: what it captured when it asked, whether the
\* transcript has moved since, and the recovery to run after it.
Asking(mode, since, count) ==
    [at |-> "asked", mode |-> mode, since |-> since, base |-> count,
     moved |-> FALSE, pending |-> "none", got |-> Unread]
Idle == [Asking("live", 0, 0) EXCEPT !.at = "idle"]

RecoverForgetting(r, mode) ==
    IF r.at = "idle" THEN Asking(mode, leaf, base) ELSE r
\* One recovery at a time; what is asked meanwhile runs after it, once.
Recover(r, mode) ==
    IF r.at = "idle" THEN Asking(mode, leaf, base)
    ELSE [r EXCEPT !.pending = IF mode = "settle" \/ @ = "none" THEN mode ELSE @]

Moved(r) == [r EXCEPT !.moved = r.at # "idle"]

NotAsking == [at |-> "none", force |-> FALSE, got |-> ReadyIdle]
NotSending == [at |-> "none", turn |-> 0, hit |-> FALSE]

PageInit ==
    /\ journal = <<>> /\ status = "ready"
    /\ replying = 0 /\ part = 0 /\ open = FALSE /\ issued = 0
    /\ wire = <<>> /\ connected = FALSE
    /\ stable = <<>> /\ active = <<>> /\ leaf = 0 /\ base = 0
    /\ touched = FALSE
    /\ initial = [at |-> "asked", got |-> Unread]
    /\ recovery = Idle /\ probe = NotAsking /\ sending = NotSending
    /\ known = ReadyIdle /\ state = ReadyIdle
    /\ syncError = FALSE
    /\ faults = 0 /\ slips = {}

pageFields == <<connected, shown, anchor, touched, initial, recovery, probe, known, state, syncError, slips>>

\* What may go wrong, or be asked at any moment, happens a few times.
FaultOccurs == faults < MaxFaults /\ faults' = faults + 1

-----------------------------------------------------------------------------
(* The session. An event reaches the streams that are open and no other.   *)

Publish(kind, m) ==
    wire' = IF connected THEN Append(wire, [kind |-> kind, msg |-> m]) ELSE wire

Begin(t) ==
    /\ status = "ready" /\ replying = 0
    /\ replying' = t /\ part' = 0 /\ journal' = Append(journal, <<t, 0>>)
    /\ Publish("running", NoMessage)
    /\ UNCHANGED <<status, open>>

\* A prompt from somewhere else: another page, or the native interface.
OthersPrompt ==
    /\ issued < Turns /\ issued' = issued + 1
    /\ Begin(issued + 1)
    /\ UNCHANGED <<pageFields, sending, faults>>

BeginAnswer ==
    /\ replying # 0 /\ ~open /\ part < Parts
    /\ part' = part + 1 /\ open' = TRUE
    /\ Publish("delta", <<replying, part + 1>>)
    /\ UNCHANGED <<journal, status, replying, issued, pageFields, sending, faults>>

EndAnswer ==
    /\ open /\ open' = FALSE
    /\ journal' = Append(journal, <<replying, part>>)
    /\ Publish("end", <<replying, part>>)
    /\ UNCHANGED <<status, replying, part, issued, pageFields, sending, faults>>

Settle ==
    /\ replying # 0 /\ ~open
    /\ replying' = 0
    /\ Publish("completed", NoMessage)
    /\ UNCHANGED <<journal, status, part, open, issued, pageFields, sending, faults>>

Crash ==
    /\ status = "ready" /\ FaultOccurs
    /\ status' = "failed" /\ replying' = 0 /\ open' = FALSE
    /\ Publish("failed", NoMessage)
    /\ UNCHANGED <<journal, part, issued, pageFields, sending>>

Starting(from, to) ==
    /\ status = from /\ status' = to
    /\ Publish(to, NoMessage)
    /\ UNCHANGED <<journal, replying, part, open, issued, pageFields, sending, faults>>
WorkerRestarts == Starting("failed", "initializing")
BecomeReady == Starting("initializing", "ready")

-----------------------------------------------------------------------------
(* The event stream.                                                       *)

\* The stream breaks; of what was on its way the page still gets a prefix.
Cut ==
    /\ connected /\ FaultOccurs /\ connected' = FALSE
    /\ \E n \in 0..Len(wire) : wire' = SubSeq(wire, 1, n)
    /\ UNCHANGED <<server, issued, shown, anchor, touched, initial, recovery,
                   probe, sending, known, state, syncError, slips>>

\* An open stream replays nothing: the page asks for the state, and the
\* answer to an earlier question no longer counts. What the page still had
\* of the old stream is handled by then: its queue waits a second at most.
Connect ==
    /\ ~connected /\ wire = <<>> /\ connected' = TRUE
    /\ probe' = [NotAsking EXCEPT !.at = "asked", !.force = TRUE]
    /\ UNCHANGED <<server, issued, wire, shown, anchor, touched, initial,
                   recovery, sending, known, state, syncError, faults, slips>>

\* An answer of the stream updates its own item, or is appended.
Streamed(items, m, form) ==
    IF \E i \in 1..Len(items) : items[i] = Item(m, "part")
    THEN [i \in 1..Len(items) |->
            IF items[i] = Item(m, "part") THEN Item(m, form) ELSE items[i]]
    ELSE Append(items, Item(m, form))

OnAnswer(kind, m) ==
    /\ kind \in {"delta", "end"}
    /\ active' = Streamed(active, m, IF kind = "delta" THEN "part" ELSE "text")
    /\ recovery' = Moved(recovery) /\ touched' = TRUE
    /\ state' = IF kind = "delta" THEN [state EXCEPT !.streaming = TRUE] ELSE state
    /\ slips' = IF Item(m, "row") \in Range(stable \o active)
                THEN slips \cup {"late"} ELSE slips

\* A failure becomes an item of the tail, one after the last prompt.
Failure == Item(NoMessage, "error")
FailureShown ==
    \E i \in 1..Len(active) :
        /\ active[i] = Failure
        /\ \A j \in i+1..Len(active) : active[j] # Failure => active[j].msg[2] # 0
WithFailure == IF FailureShown THEN active ELSE Append(active, Failure)

OnTurn(kind) ==
    /\ kind \in {"running", "completed", "failed"}
    /\ active' = IF kind = "failed" THEN WithFailure ELSE active
    /\ touched' = TRUE
    /\ recovery' = IF kind = "completed" THEN Recover(Moved(recovery), "settle")
                   ELSE Moved(recovery)
    /\ state' = [status |-> IF kind = "failed" THEN "failed" ELSE state.status,
                 streaming |-> kind = "running"]
    /\ UNCHANGED slips

OnStatus(kind) ==
    /\ kind \in {"initializing", "ready"}
    /\ state' = [state EXCEPT !.status = kind]
    /\ recovery' = IF kind = "ready" THEN Recover(recovery, "live") ELSE recovery
    /\ UNCHANGED <<active, touched, slips>>

Deliver ==
    /\ wire # <<>> /\ wire' = Tail(wire)
    /\ LET e == Head(wire)
       IN OnAnswer(e.kind, e.msg) \/ OnTurn(e.kind) \/ OnStatus(e.kind)
    /\ known' = state'
    /\ UNCHANGED <<server, issued, connected, stable, anchor, initial, probe,
                   sending, syncError, faults>>

-----------------------------------------------------------------------------
(* Reconciliation.                                                         *)

AppendUnique(items, more) == items \o Without(more, Range(items))

\* Rows join the tail: none twice, in the place of the typed prompt it is the
\* row of, else at the end.
Placed(item, items, rows) ==
    LET row == Item(item.msg, "row")
    IN IF item.form = "opt" /\ row \in Range(rows) \ Range(items) THEN row ELSE item

Merge(items, rows) ==
    AppendUnique([i \in 1..Len(items) |-> Placed(items[i], items, rows)], rows)

\* The rows before the last prompt are settled, all of them in an idle session.
StableLength(rows, streaming) ==
    IF streaming
    THEN Cardinality({i \in 1..Len(rows) : \E j \in i+1..Len(rows) : rows[j].msg[2] = 0})
    ELSE Len(rows)

\* A snapshot of the latest window takes the place of what is shown; while
\* the turn runs the items of the stream stay in the tail.
TakeWindow(got, keepTail) ==
    LET rows == Rows(got.entries)
        n == StableLength(rows, got.state.streaming)
        tail == SubSeq(rows, n + 1, Len(rows))
    IN /\ IF rows = <<>> /\ stable \o active # <<>>
          THEN UNCHANGED shown
          ELSE /\ stable' = SubSeq(rows, 1, n)
               /\ active' = IF keepTail THEN Merge(active, tail) ELSE tail
       /\ base' = Len(tail)
       /\ leaf' = got.leaf

\* The counted prefix of the tail is what the snapshot gave, and nothing of
\* the snapshot is in the tail a second time.
Anchored(got) ==
    LET prefix == stable' \o SubSeq(active', 1, base')
        rest == SubSeq(active', base' + 1, Len(active'))
    IN /\ base' <= Len(active') /\ prefix = Rows(got.entries)
       /\ Range(Messages(rest)) \cap Range(got.entries) = {}

WindowSlips(got, stale) ==
    (IF stale THEN {"stale"} ELSE {}) \cup
    (IF got.state.status = "ready" /\ ~Anchored(got) THEN {"early"} ELSE {})

\* The first snapshot, asked for when the page is mounted.
ReadInitial ==
    /\ initial.at = "asked"
    /\ initial' = [at |-> "read", got |-> Snapshot(0)]
    /\ UNCHANGED <<server, issued, wire, connected, shown, anchor, touched,
                   recovery, probe, sending, known, state, syncError, faults, slips>>

TakeInitial ==
    /\ initial.at = "read"
    /\ initial' = [at |-> "done", got |-> Unread]
    /\ known' = initial.got.state /\ state' = initial.got.state
    /\ TakeWindow(initial.got, initial.got.state.streaming \/ touched)
    /\ slips' = slips \cup WindowSlips(initial.got, leaf # 0)
    /\ UNCHANGED <<server, issued, wire, connected, touched, recovery, probe,
                   sending, syncError, faults>>

\* The bounded recovery: every entry since the leaf, over its pages.
ReadRecovery ==
    /\ recovery.at = "asked"
    /\ recovery' = [recovery EXCEPT !.at = "read", !.got = Snapshot(recovery.since)]
    /\ UNCHANGED <<server, issued, wire, connected, shown, anchor, touched,
                   initial, probe, sending, known, state, syncError, faults, slips>>

NextRecovery(since, count) ==
    IF recovery.pending = "none" THEN Idle
    ELSE Asking(recovery.pending, since, count)

KeptNothing(rows) == <<>>
KeptBase(rows) ==
    LET n == IF recovery.base <= Len(active) THEN recovery.base ELSE Len(active)
    IN Without(SubSeq(active, 1, n), Range(rows))

\* Two rows stand in the other order than in the journal: a merge has put one
\* in the place of a prompt typed before the entries in front of it were known.
Misplaced(items) ==
    \E i, j \in 1..Len(items) : \E x, y \in 1..Len(journal) :
        /\ i < j /\ items[i] = Item(journal[y], "row")
        /\ x < y /\ items[j] = Item(journal[x], "row")

\* The settled tail: what earlier snapshots gave of it, then the new rows.
\* With no new row the tail becomes history as it stands.
TakeSettled(got) ==
    LET rows == Rows(got.entries)
    IN /\ stable' = AppendUnique(stable, IF rows = <<>> THEN active
                                         ELSE KeptBase(rows) \o rows)
       /\ active' = <<>>
       /\ base' = 0
       /\ leaf' = IF got.leaf = 0 THEN recovery.since ELSE got.leaf
       /\ slips' = IF rows # <<>> THEN slips
                   ELSE slips \cup
                     (IF \E i \in Range(active) : i.form # "row" THEN {"kept"} ELSE {}) \cup
                     (IF Misplaced(active) THEN {"misplaced"} ELSE {})

TakeRecovery ==
    LET got == recovery.got IN
    /\ recovery.at = "read"
    /\ \/ /\ recovery.moved
          /\ UNCHANGED <<shown, anchor, state, syncError, slips>>
       \/ /\ ~recovery.moved
          /\ state' = got.state /\ syncError' = FALSE
          /\ \/ /\ recovery.mode = "settle" /\ got.state.streaming
                /\ UNCHANGED <<shown, anchor, slips>>
             \/ /\ ~(recovery.mode = "settle" /\ got.state.streaming) /\ recovery.since = 0
                /\ TakeWindow(got, got.state.streaming)
                /\ slips' = slips \cup WindowSlips(got, got.leaf < leaf)
             \/ /\ recovery.mode = "live" /\ got.state.streaming /\ recovery.since # 0
                /\ active' = Merge(active, Rows(got.entries))
                /\ UNCHANGED <<stable, anchor, slips>>
             \/ /\ ~got.state.streaming /\ recovery.since # 0
                /\ TakeSettled(got)
    /\ recovery' = NextRecovery(leaf', base')
    /\ UNCHANGED <<server, issued, wire, connected, touched, initial, probe,
                   sending, known, faults>>

\* A snapshot request fails: the page says so and keeps what it shows.
SnapshotFails ==
    /\ FaultOccurs
    /\ syncError' = TRUE
    /\ \/ /\ initial.at = "asked" /\ initial' = [at |-> "done", got |-> Unread]
          /\ UNCHANGED recovery
       \/ /\ recovery.at = "asked" /\ recovery' = NextRecovery(leaf, base)
          /\ UNCHANGED initial
    /\ UNCHANGED <<server, issued, wire, connected, shown, anchor, touched,
                   probe, sending, known, state, slips>>

-----------------------------------------------------------------------------
(* The state of the runtime: asked for when the stream opens, when the tab *)
(* or the network comes back, and by a timer while a turn runs.            *)

Look ==
    /\ FaultOccurs
    /\ \E force \in BOOLEAN :
         /\ probe' = [NotAsking EXCEPT !.at = "asked", !.force = force]
         /\ slips' = IF probe.force /\ ~force THEN slips \cup {"superseded"} ELSE slips
    /\ UNCHANGED <<server, issued, wire, connected, shown, anchor, touched,
                   initial, recovery, sending, known, state, syncError>>

StateAnswers ==
    /\ probe.at = "asked"
    /\ probe' = [probe EXCEPT !.at = "read", !.got = RuntimeState]
    /\ UNCHANGED <<server, issued, wire, connected, shown, anchor, touched,
                   initial, recovery, sending, known, state, syncError, faults, slips>>

TakeState ==
    /\ probe.at = "read" /\ probe' = NotAsking
    /\ known' = probe.got
    /\ state' = IF probe.got # known THEN probe.got ELSE state
    /\ recovery' =
        IF (probe.force \/ probe.got # known) /\ probe.got.status # "failed"
        THEN Recover(recovery, IF probe.got.status = "ready" /\ ~probe.got.streaming
                               THEN "settle" ELSE "live")
        ELSE recovery
    /\ UNCHANGED <<server, issued, wire, connected, shown, anchor, touched,
                   initial, sending, syncError, faults, slips>>

\* Best effort: nobody asks again.
StateFails ==
    /\ probe.at = "asked" /\ probe' = NotAsking
    /\ FaultOccurs
    /\ slips' = slips \cup {"blind"}
    /\ UNCHANGED <<server, issued, wire, connected, shown, anchor, touched,
                   initial, recovery, sending, known, state, syncError>>

-----------------------------------------------------------------------------
(* A prompt typed on this page.                                            *)

Send ==
    /\ sending.at = "none" /\ issued < Turns
    /\ state = ReadyIdle
    /\ issued' = issued + 1
    /\ sending' = [at |-> "asked", turn |-> issued + 1, hit |-> recovery.at # "idle"]
    /\ active' = Append(active, Item(<<issued + 1, 0>>, "opt"))
    /\ recovery' = Moved(recovery) /\ touched' = TRUE
    /\ UNCHANGED <<server, wire, connected, stable, anchor, initial, probe,
                   known, state, syncError, faults, slips>>

\* The session takes the prompt; the answer to the request may be lost.
Accept ==
    /\ sending.at = "asked"
    /\ Begin(sending.turn)
    /\ \/ sending' = [sending EXCEPT !.at = "ok"] /\ UNCHANGED faults
       \/ /\ FaultOccurs
          /\ sending' = [sending EXCEPT !.at = "failed"]
    /\ UNCHANGED <<issued, pageFields>>

Reject ==
    /\ sending.at = "asked" /\ (status # "ready" \/ replying # 0)
    /\ sending' = [sending EXCEPT !.at = "failed"]
    /\ UNCHANGED <<server, issued, wire, pageFields, faults>>

\* A prompt that failed is taken back.
TakeReply ==
    /\ sending.at \in {"ok", "failed"} /\ sending' = NotSending
    /\ IF sending.at = "ok"
       THEN /\ state' = [state EXCEPT !.streaming = TRUE]
            /\ UNCHANGED <<active, slips>>
       ELSE /\ UNCHANGED state
            /\ active' = Without(active, {Item(<<sending.turn, 0>>, "opt")})
            /\ slips' = IF sending.hit THEN slips \cup {"dropped"} ELSE slips
    /\ UNCHANGED <<server, issued, wire, connected, stable, anchor, touched,
                   initial, recovery, probe, known, syncError, faults>>

-----------------------------------------------------------------------------
Turn == BeginAnswer \/ EndAnswer \/ Settle \/ BecomeReady
Answers == ReadInitial \/ ReadRecovery \/ StateAnswers \/ Accept \/ Reject
Handlers == TakeInitial \/ TakeRecovery \/ TakeState \/ TakeReply
Faults == Cut \/ Crash \/ SnapshotFails \/ StateFails

PageNext ==
    \/ Turn \/ Answers \/ Handlers \/ Faults
    \/ OthersPrompt \/ WorkerRestarts \/ Connect \/ Deliver \/ Look \/ Send

PageSpec == PageInit /\ [][PageNext]_pageVars

-----------------------------------------------------------------------------
\* Nothing runs and nothing is on its way to the page.
Quiet ==
    /\ connected /\ wire = <<>> /\ status = "ready" /\ replying = 0
    /\ initial.at = "done" /\ recovery.at = "idle"
    /\ probe.at = "none" /\ sending.at = "none"

\* Whatever was missed, reordered or retried, a page at rest that reports no
\* error shows every stored message once, whole and in order, and has no tail
\* left but failures it reports, unless one of the unguarded races has happened
\* (use-live-task-runtime.ts:347-514).
QuietIsFaithful ==
    (Quiet /\ ~syncError /\ slips = {}) =>
        stable = Rows(journal) /\ Range(active) \subseteq {Failure}

\* A stored message that is shown, other than as typed, stays shown until the
\* page is left (use-live-task-runtime.ts:399-440: every branch keeps it).
NothingVanishes ==
    [][slips' = {} =>
        \A i \in 1..Len(stable \o active) :
            LET it == (stable \o active)[i] IN
            (it.form # "opt" /\ it.msg \in Range(journal)) =>
                it.msg \in Range(Messages(stable' \o active'))]_shown
=============================================================================
