----------------------------- MODULE SlimReads -----------------------------
(***************************************************************************)
(* SlimDataRuntime (apps/daemon/src/data-runtime/slim-runtime.ts): writes  *)
(* go to the writer thread one by one, identical reads share the request   *)
(* in flight on the reader thread.  One read is modelled, the source       *)
(* coordinator's facets(), which lists the installations the database      *)
(* knows.  Its key is its own: HTTP asks nativeFacets.query with an        *)
(* argument, and so under another key.                                     *)
(***************************************************************************)
EXTENDS FiniteSets

CONSTANT Installation  \* native installations on this host

VARIABLES
    known,     \* installations in the database
    slot,      \* the entry of readsInFlight: empty, pending or resolved
    answer,    \* what the reader thread has read
    call,      \* the last call: idle, waiting, ok, failed
    got        \* and what it was answered

readVars == <<known, slot, answer, call, got>>

ReadInit ==
    known = {} /\ slot = "empty" /\ answer = {} /\ call = "idle" /\ got = {}

\* read(): the caller joins the entry of its key, or posts the request.
Call ==
    /\ call # "waiting" /\ call' = "waiting"
    /\ slot' = IF slot = "empty" THEN "pending" ELSE slot
    /\ UNCHANGED <<known, answer, got>>

\* The reader thread executes the query on what is committed.
Execute ==
    /\ slot = "pending" /\ slot' = "resolved" /\ answer' = known
    /\ UNCHANGED <<known, call, got>>

Tell(outcome, told) ==
    call = "waiting" /\ call' = outcome /\ got' = told /\ UNCHANGED known

Remembered == UNCHANGED <<slot, answer>>
\* finally: the entry goes with the request, answered or failed.
Forgotten == slot' = "empty" /\ answer' = {}

Reply == slot = "resolved" /\ Tell("ok", answer) /\ Forgotten
\* The thread died, the request timed out, or the storage threw.
Refusal == slot # "empty" /\ Tell("failed", {}) /\ Forgotten

\* write(): resolveInstallation, acknowledged.
Resolve(i) == known' = known \cup {i} /\ UNCHANGED <<slot, answer, call, got>>
=============================================================================
