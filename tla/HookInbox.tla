----------------------------- MODULE HookInbox ------------------------------
(***************************************************************************)
(* The Hook inbox of one Source: Hook processes write event files with an   *)
(* atomic rename (apps/hook-codex/src/inbox.mjs), the daemon's poll loop    *)
(* (packages/source-codex/src/runtime.ts; Claude and Hermes run the same    *)
(* loop) archives each file by hard link, seals it with a digest, emits it  *)
(* and releases the inbox name, and readers page through the archive        *)
(* (packages/source-support/src/runtime-hook-archive.ts).                   *)
(***************************************************************************)
EXTENDS Naturals, Sequences, FiniteSets

CONSTANTS
    Event,        \* Hook events: the bytes of one file
    Oversized,    \* those over MAX_EVENT_BYTES, which the archive takes from nobody
    Sessionless,  \* those without a session, never archived
    NoFile,
    MaxName,      \* file names are 1..MaxName in sort order
    MaxEntries,   \* maxEntries of the retry gate
    PageSize,     \* limit of an archive page
    Shared        \* names that several events may get: same id and millisecond

ASSUME InboxConstantsOK ==
    /\ IsFiniteSet(Event) /\ Oversized \subseteq Event /\ Sessionless \subseteq Event
    /\ NoFile \notin Event
    /\ MaxName \in Nat \ {0} /\ MaxEntries \in Nat \ {0} /\ PageSize \in Nat \ {0}
    /\ Shared \subseteq 1..MaxName

Name == 1..MaxName

VARIABLES
    inbox,    \* the file under each name, or NoFile
    archive,  \* the hard link in the session's archive directory
    seal,     \* the digest published beside it, as the bytes it stands for
    named,    \* the events whose Hook returned, under each name
    emitted,  \* events a Source writer accepted
    pc, todo, cur, bytes, created, acked,   \* the poll loop
    cooling,  \* the retry gate: failed names, oldest first
    reader    \* one client paging through the archive

loopVars == <<pc, todo, cur, bytes, created, acked>>
inboxVars == <<inbox, archive, seal, named, emitted, loopVars, cooling, reader>>

\* The events under the given names: any, or those no other event shares.
Under(names) == UNION {named[n] : n \in names}
Written == Under(Name)
Own == Under(Name \ Shared)

Archived(e) == e \notin Sessionless
Idle == [pc |-> "idle", after |-> 0, names |-> {}, got |-> {}]

InboxInit ==
    /\ inbox = [n \in Name |-> NoFile] /\ archive = inbox /\ seal = inbox
    /\ named = [n \in Name |-> {}] /\ emitted = {}
    /\ pc = "scan" /\ todo = {} /\ cur = 1 /\ bytes = NoFile
    /\ created = FALSE /\ acked = FALSE
    /\ cooling = <<>> /\ reader = Idle

-----------------------------------------------------------------------------
(* A Hook process.                                                         *)

\* persistCodexHookEvent up to its rename, which replaces a file of that name.
HookWrites(n, e) ==
    /\ e \notin Written /\ (n \in Shared \/ named[n] = {})
    /\ inbox' = [inbox EXCEPT ![n] = e]
    /\ named' = [named EXCEPT ![n] = @ \cup {e}]
    /\ UNCHANGED <<archive, seal, emitted, loopVars, cooling, reader>>

-----------------------------------------------------------------------------
(* The poll loop: one file at a time, in name order.                       *)

LoopFrame == UNCHANGED <<named, reader>>

\* shouldAttempt of a name whose cooldown has not run out.
CoolingBlocks(n) == \E i \in DOMAIN cooling : cooling[i] = n

\* The gate without a name, which it holds at most once.
Without(n) ==
    IF CoolingBlocks(n)
    THEN LET i == CHOOSE i \in DOMAIN cooling : cooling[i] = n
         IN SubSeq(cooling, 1, i - 1) \o SubSeq(cooling, i + 1, Len(cooling))
    ELSE cooling

\* readdir, sorted.
Scan ==
    /\ pc = "scan" /\ todo' = {n \in Name : inbox[n] # NoFile} /\ pc' = "next"
    /\ UNCHANGED <<inbox, archive, seal, emitted, cur, bytes, created, acked, cooling>>
    /\ LoopFrame

First(n) == n \in todo /\ \A m \in todo : n <= m

\* The next file, unless it still cools down; after the last a new scan.
Pick(n) ==
    /\ pc = "next" /\ First(n) /\ todo' = todo \ {n}
    /\ IF CoolingBlocks(n) THEN UNCHANGED <<pc, cur>> ELSE pc' = "read" /\ cur' = n
    /\ created' = FALSE /\ acked' = FALSE /\ bytes' = NoFile
    /\ UNCHANGED <<inbox, archive, seal, emitted, cooling>>
    /\ LoopFrame

Rescan ==
    /\ pc = "next" /\ todo = {} /\ pc' = "scan"
    /\ UNCHANGED <<inbox, archive, seal, emitted, todo, cur, bytes, created, acked, cooling>>
    /\ LoopFrame

\* The retry gate's cooldown runs out (time, or eviction by a later failure).
Cools(n) ==
    /\ CoolingBlocks(n) /\ cooling' = Without(n)
    /\ UNCHANGED <<inbox, archive, seal, emitted, loopVars>>
    /\ LoopFrame

\* markFailed: the file stays, and the loop goes on with the next one.
RetriesAtOnce == pc' = "next" /\ todo' = todo \cup {cur} /\ UNCHANGED cooling
MarkFailed ==
    /\ pc' = "next" /\ UNCHANGED todo
    /\ LET entries == Append(Without(cur), cur)
       IN cooling' = IF Len(entries) > MaxEntries THEN Tail(entries) ELSE entries

Fails == MarkFailed /\ UNCHANGED <<cur, bytes, created, acked>>
Moves(to) == pc' = to /\ UNCHANGED <<todo, cur, bytes, acked, cooling>>

\* readFile and parseEnvelope, which never throws: what is no JSON becomes a
\* MalformedInboxEvent, an event without a session.
ReadFile ==
    /\ pc = "read" /\ bytes' = inbox[cur]
    /\ pc' = IF Archived(inbox[cur]) THEN "link" ELSE "emit"
    /\ UNCHANGED <<inbox, archive, seal, emitted, todo, cur, created, acked, cooling>>
    /\ LoopFrame

\* prepareHookInboxArchive: link the inbox file, or find the same bytes there;
\* a file too large or other bytes under its archive name fail every time.
LinkRefused == inbox[cur] \in Oversized \/ archive[cur] \notin {NoFile, inbox[cur]}
LinkFile ==
    /\ pc = "link"
    /\ IF LinkRefused
       THEN UNCHANGED archive /\ Fails
       ELSE /\ archive' = [archive EXCEPT ![cur] = inbox[cur]]
            /\ created' = (archive[cur] = NoFile) /\ Moves("verify")
    /\ UNCHANGED <<inbox, seal, emitted>>
    /\ LoopFrame

\* The archived bytes must be those that were parsed; only the link this
\* attempt made is taken back.
DigestUnchecked == TRUE
DigestMatches == archive[cur] = bytes

VerifyFile ==
    /\ pc = "verify"
    /\ IF DigestMatches
       THEN Moves("seal") /\ UNCHANGED <<archive, created>>
       ELSE /\ archive' = IF created THEN [archive EXCEPT ![cur] = NoFile] ELSE archive
            /\ Fails
    /\ UNCHANGED <<inbox, seal, emitted>>
    /\ LoopFrame

\* The digest is published by link; then the event is emitted or, on the way
\* back from the emitter, released.
AfterSealAtOnce == "release"
AfterSeal == IF acked THEN "release" ELSE "emit"

SealRefused == seal[cur] \notin {NoFile, archive[cur]}
SealFile ==
    /\ pc = "seal"
    /\ IF SealRefused
       THEN UNCHANGED seal /\ Fails
       ELSE /\ seal' = [seal EXCEPT ![cur] = archive[cur]]
            /\ Moves(AfterSeal) /\ UNCHANGED created
    /\ UNCHANGED <<inbox, archive, emitted>>
    /\ LoopFrame

\* emitter.emit: accepted, or rejected for now.
AfterEmit == IF Archived(bytes) THEN "link" ELSE "release"
Emit(ok) ==
    /\ pc = "emit"
    /\ IF ok
       THEN /\ emitted' = emitted \cup {bytes} /\ acked' = TRUE /\ pc' = AfterEmit
            /\ UNCHANGED <<todo, cur, bytes, created, cooling>>
       ELSE UNCHANGED emitted /\ Fails
    /\ UNCHANGED <<inbox, archive, seal>>
    /\ LoopFrame

\* unlink of the inbox name, and markDelivered.
Release ==
    /\ pc = "release"
    /\ inbox' = [inbox EXCEPT ![cur] = NoFile]
    /\ pc' = "next" /\ cooling' = Without(cur)
    /\ UNCHANGED <<archive, seal, emitted, todo, cur, bytes, created, acked>>
    /\ LoopFrame

\* Any file operation of the attempt may fail now and then. What fails however
\* often it is tried is the step above that refuses it, not an error that ends.
Refused ==
    \/ pc = "link" /\ LinkRefused
    \/ pc = "verify" /\ ~DigestMatches /\ ~created
    \/ pc = "seal" /\ SealRefused

FileError ==
    /\ pc \in {"read", "link", "verify", "seal", "release"} /\ ~Refused /\ Fails
    /\ UNCHANGED <<inbox, archive, seal, emitted>>
    /\ LoopFrame

\* The daemon ends anywhere and starts again; the gate is in memory only.
LoopCrash ==
    /\ pc' = "scan" /\ todo' = {} /\ cooling' = <<>>
    /\ UNCHANGED <<inbox, archive, seal, emitted, cur, bytes, created, acked>>
    /\ LoopFrame

-----------------------------------------------------------------------------
(* readArchivedHookInboxPage.                                              *)

Listing == {n \in Name : archive[n] # NoFile}
ReaderFrame == UNCHANGED <<inbox, archive, seal, named, emitted, loopVars, cooling>>

\* A cursor is only good for the listing it was made from.
CursorAlwaysGood == TRUE
CursorGood == reader.after = 0 \/ reader.names = Listing

List ==
    /\ reader.pc \in {"idle", "more"}
    /\ reader' = IF CursorGood
                 THEN [reader EXCEPT !.pc = "listed", !.names = Listing] ELSE Idle
    /\ ReaderFrame

Rest == {n \in reader.names : n > reader.after}
Page == {n \in Rest : Cardinality({m \in Rest : m < n}) < PageSize}

\* Every file of the page is read and held against its seal.
ReadPage ==
    /\ reader.pc = "listed"
    /\ reader' =
        IF \E n \in Page : archive[n] = NoFile \/ seal[n] \notin {NoFile, archive[n]}
        THEN Idle
        ELSE [reader EXCEPT !.got = @ \cup Page,
                !.pc = IF Rest = Page THEN "done" ELSE "more",
                !.after = IF Page = {} THEN @
                          ELSE CHOOSE n \in Page : \A m \in Page : m <= n]
    /\ ReaderFrame

ReadAgain == reader.pc = "done" /\ reader' = Idle /\ ReaderFrame

-----------------------------------------------------------------------------
InboxNext ==
    \/ \E n \in Name, e \in Event : HookWrites(n, e)
    \/ Scan \/ Rescan \/ \E n \in Name : Pick(n) \/ Cools(n)
    \/ ReadFile \/ LinkFile \/ VerifyFile \/ SealFile \/ \E ok \in BOOLEAN : Emit(ok)
    \/ Release \/ FileError \/ LoopCrash
    \/ List \/ ReadPage \/ ReadAgain

InboxSpec == InboxInit /\ [][InboxNext]_inboxVars

\* Once crashes and transient failures stop, the loop polls on and cooldowns run
\* out; a name that is free whenever its turn comes is tried in the end.
Loop ==
    \/ Scan \/ Rescan \/ \E n \in Name : Pick(n)
    \/ ReadFile \/ LinkFile \/ VerifyFile \/ SealFile \/ Emit(TRUE) \/ Release

FairInboxSpec ==
    /\ InboxSpec
    /\ <>[][~LoopCrash /\ ~FileError /\ ~Emit(FALSE)]_inboxVars
    /\ WF_inboxVars(Loop)
    /\ \A n \in Name : WF_inboxVars(Cools(n)) /\ SF_inboxVars(Pick(n) /\ pc' = "read")

-----------------------------------------------------------------------------
InboxTypeOK ==
    /\ inbox \in [Name -> Event \cup {NoFile}]
    /\ archive \in [Name -> Event \cup {NoFile}]
    /\ seal \in [Name -> Event \cup {NoFile}]
    /\ named \in [Name -> SUBSET Event] /\ emitted \subseteq Written
    /\ pc \in {"scan", "next", "read", "link", "verify", "seal", "emit", "release"}
    /\ todo \subseteq Name /\ cur \in Name /\ bytes \in Event \cup {NoFile}
    /\ created \in BOOLEAN /\ acked \in BOOLEAN
    /\ cooling \in Seq(Name) /\ Len(cooling) <= MaxEntries
    /\ reader \in [pc : {"idle", "listed", "more", "done"}, after : 0..MaxName,
                   names : SUBSET Name, got : SUBSET Name]

\* Whatever a Source writer accepted stays recoverable: its bytes are in the
\* archive under a seal of their own digest, through crashes, retries and files
\* rewritten between parse and archive (runtime.ts:146-148).
EmittedIsSealed ==
    \A e \in emitted : Archived(e) => \E n \in Name : archive[n] = e /\ seal[n] = e

\* A client that pages to the end has seen every file of the last listing: an
\* event archived late under an older name is never silently skipped
\* (runtime-hook-archive.ts:195-198).
PagesSkipNothing == reader.pc = "done" => reader.got = reader.names

Pending == {inbox[n] : n \in Name \ Shared} \ {NoFile}

\* Whatever happens to shared names, events with a name of their own are
\* delivered at least once and their inbox file goes only after delivery: the
\* loop implements HookDelivery for them.
Delivery == INSTANCE HookDelivery WITH
    pending <- Pending, delivered <- emitted \cap Own
AtLeastOnce == Delivery!Spec

\* A file the archive always refuses, or one that fails now and then, does not
\* starve the others (runtime.ts:176-177): every event the archive takes or does
\* not need is delivered.
Deliverable == {e \in Event : Archived(e) => e \notin Oversized}
HealthyDelivered == \A e \in Deliverable : e \in Own ~> e \in emitted
=============================================================================
