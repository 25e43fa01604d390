-------------------------- MODULE HookInboxProofs ---------------------------
(***************************************************************************)
(* For any number of events and names: what was emitted stays sealed, and   *)
(* for events with a name of their own the loop implements at-least-once    *)
(* delivery, whatever happens to names that events share.                   *)
(***************************************************************************)
EXTENDS HookInbox, TLAPS, FiniteSetTheorems

Maybe == Event \cup {NoFile}

\* The part of the type invariant the arguments below need.
FilesOK ==
    /\ inbox \in [Name -> Maybe] /\ archive \in [Name -> Maybe]
    /\ seal \in [Name -> Maybe] /\ cur \in Name /\ bytes \in Maybe
    /\ created \in BOOLEAN /\ acked \in BOOLEAN
    /\ named \in [Name -> SUBSET Event] /\ emitted \subseteq Event /\ todo \subseteq Name

\* A seal is never ahead of its file, and each step of an attempt knows what the
\* steps before it established.
Sealing ==
    /\ \A n \in Name : seal[n] # NoFile => archive[n] = seal[n]
    /\ pc = "verify" /\ created => seal[cur] = NoFile
    /\ pc \in {"link", "verify", "seal"} => Archived(bytes)
    /\ pc \in {"link", "verify", "seal", "emit"} => bytes # NoFile
    /\ pc = "seal" => archive[cur] = bytes
    /\ pc = "emit" /\ Archived(bytes) => archive[cur] = bytes /\ seal[cur] = bytes

\* A listed name keeps its file until the loop itself removes it.
Present ==
    /\ \A n \in todo : inbox[n] # NoFile
    /\ pc \notin {"scan", "next"} => cur \notin todo /\ inbox[cur] # NoFile

IInv == FilesOK /\ Present /\ Sealing /\ EmittedIsSealed

LEMMA InitIInv == InboxInit => IInv
<1> SUFFICES ASSUME InboxInit PROVE IInv
  OBVIOUS
<1>1. FilesOK
  <2>1. inbox \in [Name -> Maybe] /\ archive \in [Name -> Maybe] /\ seal \in [Name -> Maybe]
    BY DEF InboxInit, Maybe
  <2>2. cur \in Name
    BY InboxConstantsOK DEF InboxInit, Name
  <2>3. created \in BOOLEAN /\ acked \in BOOLEAN
    BY DEF InboxInit
  <2>4. named \in [Name -> SUBSET Event]
    BY DEF InboxInit
  <2> QED
    BY <2>1, <2>2, <2>3, <2>4 DEF InboxInit, FilesOK, Maybe
<1>2. Present /\ Sealing /\ EmittedIsSealed
  BY DEF InboxInit, Present, Sealing, EmittedIsSealed, Name
<1> QED
  BY <1>1, <1>2 DEF IInv

LEMMA NextIInv == IInv /\ [InboxNext]_inboxVars => IInv'
<1> SUFFICES ASSUME IInv, [InboxNext]_inboxVars PROVE IInv'
  OBVIOUS
<1> USE InboxConstantsOK DEF IInv
<1>1. ASSUME NEW n \in Name, NEW e \in Event, HookWrites(n, e) PROVE IInv'
  <2>1. FilesOK'
    BY <1>1 DEF HookWrites, loopVars, FilesOK, Maybe
  <2>2. Present'
    BY <1>1 DEF HookWrites, loopVars, Present, FilesOK
  <2>3. Sealing'
    BY <1>1 DEF HookWrites, loopVars, Sealing, Present, FilesOK, Maybe
  <2>4. EmittedIsSealed'
    BY <1>1 DEF HookWrites, loopVars, EmittedIsSealed, Sealing, FilesOK
  <2> QED
    BY <2>1, <2>2, <2>3, <2>4
<1>2. ASSUME Scan PROVE IInv'
  <2>1. FilesOK'
    BY <1>2 DEF Scan, LoopFrame, FilesOK, Maybe
  <2>2. Present'
    BY <1>2 DEF Scan, LoopFrame, Present, FilesOK
  <2>3. Sealing'
    BY <1>2 DEF Scan, LoopFrame, Sealing, Present, FilesOK, Maybe
  <2>4. EmittedIsSealed'
    BY <1>2 DEF Scan, LoopFrame, EmittedIsSealed, Sealing, FilesOK
  <2> QED
    BY <2>1, <2>2, <2>3, <2>4
<1>3. ASSUME Rescan PROVE IInv'
  <2>1. FilesOK'
    BY <1>3 DEF Rescan, LoopFrame, FilesOK, Maybe
  <2>2. Present'
    BY <1>3 DEF Rescan, LoopFrame, Present, FilesOK
  <2>3. Sealing'
    BY <1>3 DEF Rescan, LoopFrame, Sealing, Present, FilesOK, Maybe
  <2>4. EmittedIsSealed'
    BY <1>3 DEF Rescan, LoopFrame, EmittedIsSealed, Sealing, FilesOK
  <2> QED
    BY <2>1, <2>2, <2>3, <2>4
<1>4. ASSUME NEW n \in Name, Pick(n) PROVE IInv'
  <2>1. FilesOK'
    BY <1>4 DEF Pick, First, LoopFrame, FilesOK, Maybe
  <2>2. Present'
    BY <1>4 DEF Pick, First, LoopFrame, Present, FilesOK
  <2>3. Sealing'
    BY <1>4 DEF Pick, First, LoopFrame, Sealing, Present, FilesOK, Maybe
  <2>4. EmittedIsSealed'
    BY <1>4 DEF Pick, First, LoopFrame, EmittedIsSealed, Sealing, FilesOK
  <2> QED
    BY <2>1, <2>2, <2>3, <2>4
<1>5. ASSUME NEW n \in Name, Cools(n) PROVE IInv'
  <2>1. FilesOK'
    BY <1>5 DEF Cools, LoopFrame, loopVars, FilesOK, Maybe
  <2>2. Present'
    BY <1>5 DEF Cools, LoopFrame, loopVars, Present, FilesOK
  <2>3. Sealing'
    BY <1>5 DEF Cools, LoopFrame, loopVars, Sealing, Present, FilesOK, Maybe
  <2>4. EmittedIsSealed'
    BY <1>5 DEF Cools, LoopFrame, loopVars, EmittedIsSealed, Sealing, FilesOK
  <2> QED
    BY <2>1, <2>2, <2>3, <2>4
<1>6. ASSUME ReadFile PROVE IInv'
  <2>1. FilesOK'
    BY <1>6 DEF ReadFile, LoopFrame, FilesOK, Maybe
  <2>2. Present'
    BY <1>6 DEF ReadFile, LoopFrame, Present, FilesOK
  <2>3. Sealing'
    BY <1>6 DEF ReadFile, LoopFrame, Sealing, Present, FilesOK, Maybe
  <2>4. EmittedIsSealed'
    BY <1>6 DEF ReadFile, LoopFrame, EmittedIsSealed, Sealing, FilesOK
  <2> QED
    BY <2>1, <2>2, <2>3, <2>4
<1>7. ASSUME LinkFile PROVE IInv'
  <2>1. FilesOK'
    <3>1. archive' \in [Name -> Maybe]
      BY <1>7 DEF LinkFile, FilesOK
    <3>2. created' \in BOOLEAN
      <4>1. CASE LinkRefused
        BY <1>7, <4>1 DEF LinkFile, Fails, FilesOK
      <4>2. CASE ~LinkRefused
        <5>1. created' = (archive[cur] = NoFile)
          BY <1>7, <4>2 DEF LinkFile
        <5> QED
          BY <5>1
      <4> QED
        BY <4>1, <4>2
    <3>3. UNCHANGED <<inbox, seal, cur, bytes, acked, named, emitted, todo>>
      BY <1>7 DEF LinkFile, Moves, Fails, MarkFailed, LoopFrame
    <3> QED
      BY <3>1, <3>2, <3>3 DEF FilesOK
  <2>2. Present'
    BY <1>7 DEF LinkFile, LinkRefused, Moves, Fails, MarkFailed, LoopFrame, Present, FilesOK
  <2>3. Sealing'
    BY <1>7 DEF LinkFile, LinkRefused, Moves, Fails, MarkFailed, LoopFrame, Sealing, Present, FilesOK, Maybe
  <2>4. EmittedIsSealed'
    <3> SUFFICES ASSUME NEW e \in emitted', Archived(e)
                 PROVE  \E n \in Name : archive'[n] = e /\ seal'[n] = e
      BY DEF EmittedIsSealed
    <3>1. e \in emitted /\ e # NoFile
      BY <1>7 DEF LinkFile, LinkRefused, FilesOK
    <3>2. PICK n \in Name : archive[n] = e /\ seal[n] = e
      BY <3>1 DEF EmittedIsSealed
    <3>3. archive'[n] = e
      BY <1>7, <3>1, <3>2 DEF LinkFile, LinkRefused, FilesOK
    <3> QED
      BY <1>7, <3>2, <3>3 DEF LinkFile
  <2> QED
    BY <2>1, <2>2, <2>3, <2>4
<1>8. ASSUME VerifyFile PROVE IInv'
  <2>1. FilesOK'
    BY <1>8 DEF VerifyFile, DigestMatches, Moves, Fails, MarkFailed, LoopFrame, FilesOK, Maybe
  <2>2. Present'
    BY <1>8 DEF VerifyFile, DigestMatches, Moves, Fails, MarkFailed, LoopFrame, Present, FilesOK
  <2>3. Sealing'
    BY <1>8 DEF VerifyFile, DigestMatches, Moves, Fails, MarkFailed, LoopFrame, Sealing, Present, FilesOK, Maybe
  <2>4. EmittedIsSealed'
    BY <1>8 DEF VerifyFile, DigestMatches, Moves, Fails, MarkFailed, LoopFrame, EmittedIsSealed, Sealing, FilesOK
  <2> QED
    BY <2>1, <2>2, <2>3, <2>4
<1>9. ASSUME SealFile PROVE IInv'
  <2>1. FilesOK'
    BY <1>9 DEF SealFile, SealRefused, AfterSeal, Moves, Fails, MarkFailed, LoopFrame, FilesOK, Maybe
  <2>2. Present'
    BY <1>9 DEF SealFile, SealRefused, AfterSeal, Moves, Fails, MarkFailed, LoopFrame, Present, FilesOK
  <2>3. Sealing'
    BY <1>9 DEF SealFile, SealRefused, AfterSeal, Moves, Fails, MarkFailed, LoopFrame, Sealing, Present, FilesOK, Maybe
  <2>4. EmittedIsSealed'
    BY <1>9 DEF SealFile, SealRefused, AfterSeal, Moves, Fails, MarkFailed, LoopFrame, EmittedIsSealed, Sealing, FilesOK
  <2> QED
    BY <2>1, <2>2, <2>3, <2>4
<1>10. ASSUME NEW ok \in BOOLEAN, Emit(ok) PROVE IInv'
  <2>1. FilesOK'
    <3>1. bytes \in Event
      BY <1>10 DEF Emit, Sealing, FilesOK, Maybe
    <3>2. emitted' \subseteq Event
      BY <1>10, <3>1 DEF Emit, FilesOK
    <3>3. created' \in BOOLEAN /\ acked' \in BOOLEAN
      BY <1>10 DEF Emit, Fails, FilesOK
    <3> QED
      BY <1>10, <3>2, <3>3 DEF Emit, Fails, MarkFailed, LoopFrame, FilesOK, Maybe
  <2>2. Present'
    BY <1>10 DEF Emit, AfterEmit, Fails, MarkFailed, LoopFrame, Present, FilesOK
  <2>3. Sealing'
    BY <1>10 DEF Emit, AfterEmit, Fails, MarkFailed, LoopFrame, Sealing, Present, FilesOK, Maybe
  <2>4. EmittedIsSealed'
    <3> SUFFICES ASSUME NEW e \in emitted', Archived(e)
                 PROVE  \E n \in Name : archive[n] = e /\ seal[n] = e
      BY <1>10 DEF Emit, EmittedIsSealed
    <3>1. CASE e \in emitted
      BY <3>1 DEF EmittedIsSealed
    <3>2. CASE e = bytes
      BY <1>10, <3>2 DEF Emit, Sealing, FilesOK
    <3> QED
      BY <1>10, <3>1, <3>2 DEF Emit
  <2> QED
    BY <2>1, <2>2, <2>3, <2>4
<1>11. ASSUME Release PROVE IInv'
  <2>1. FilesOK'
    BY <1>11 DEF Release, LoopFrame, FilesOK, Maybe
  <2>2. Present'
    BY <1>11 DEF Release, LoopFrame, Present, FilesOK
  <2>3. Sealing'
    BY <1>11 DEF Release, LoopFrame, Sealing, Present, FilesOK, Maybe
  <2>4. EmittedIsSealed'
    BY <1>11 DEF Release, LoopFrame, EmittedIsSealed, Sealing, FilesOK
  <2> QED
    BY <2>1, <2>2, <2>3, <2>4
<1>12. ASSUME FileError PROVE IInv'
  <2>1. FilesOK'
    BY <1>12 DEF FileError, Fails, MarkFailed, LoopFrame, FilesOK, Maybe
  <2>2. Present'
    BY <1>12 DEF FileError, Fails, MarkFailed, LoopFrame, Present, FilesOK
  <2>3. Sealing'
    BY <1>12 DEF FileError, Fails, MarkFailed, LoopFrame, Sealing, Present, FilesOK, Maybe
  <2>4. EmittedIsSealed'
    BY <1>12 DEF FileError, Fails, MarkFailed, LoopFrame, EmittedIsSealed, Sealing, FilesOK
  <2> QED
    BY <2>1, <2>2, <2>3, <2>4
<1>13. ASSUME LoopCrash PROVE IInv'
  <2>1. FilesOK'
    BY <1>13 DEF LoopCrash, LoopFrame, FilesOK, Maybe
  <2>2. Present'
    BY <1>13 DEF LoopCrash, LoopFrame, Present, FilesOK
  <2>3. Sealing'
    BY <1>13 DEF LoopCrash, LoopFrame, Sealing, Present, FilesOK, Maybe
  <2>4. EmittedIsSealed'
    BY <1>13 DEF LoopCrash, LoopFrame, EmittedIsSealed, Sealing, FilesOK
  <2> QED
    BY <2>1, <2>2, <2>3, <2>4
<1>14. ASSUME List \/ ReadPage \/ ReadAgain PROVE IInv'
  <2>1. FilesOK'
    BY <1>14 DEF List, ReadPage, ReadAgain, ReaderFrame, loopVars, FilesOK, Maybe
  <2>2. Present'
    BY <1>14 DEF List, ReadPage, ReadAgain, ReaderFrame, loopVars, Present, FilesOK
  <2>3. Sealing'
    BY <1>14 DEF List, ReadPage, ReadAgain, ReaderFrame, loopVars, Sealing, Present, FilesOK, Maybe
  <2>4. EmittedIsSealed'
    BY <1>14 DEF List, ReadPage, ReadAgain, ReaderFrame, loopVars, EmittedIsSealed, Sealing, FilesOK
  <2> QED
    BY <2>1, <2>2, <2>3, <2>4
<1>15. CASE UNCHANGED inboxVars
  BY <1>15 DEF inboxVars, loopVars, FilesOK, Present, Sealing, EmittedIsSealed
<1> QED
  BY <1>1, <1>2, <1>3, <1>4, <1>5, <1>6, <1>7, <1>8, <1>9, <1>10, <1>11, <1>12, <1>13, <1>14, <1>15 DEF InboxNext

(* Theorem.  Whatever a Source writer accepted has its bytes in the archive
   under a seal of their own, in every reachable state. *)
THEOREM AcceptedStaysSealed == InboxSpec => []EmittedIsSealed
<1>1. InboxSpec => []IInv
  BY InitIInv, NextIInv, PTL DEF InboxSpec
<1> QED
  BY <1>1, PTL DEF IInv

-----------------------------------------------------------------------------
(* Names of their own: at-least-once delivery.                             *)

\* No event is written under two names; a file with a name of its own is the
\* only one ever written there and stays what it was while the loop works on it;
\* and what the loop has read was written, under the name it works on.
Names ==
    /\ \A m, n \in Name : m # n => named[m] \cap named[n] = {}
    /\ \A n \in Name : inbox[n] \in named[n] \cup {NoFile}
    /\ \A n \in Name \ Shared : \A d, e \in named[n] : d = e
    /\ emitted \subseteq Written
    /\ pc \in {"link", "verify", "seal", "emit", "release"} =>
          bytes \in named[cur] /\ (cur \notin Shared => inbox[cur] = bytes)
    /\ pc = "read" => acked = FALSE
    /\ pc \in {"link", "verify", "seal"} /\ acked => bytes \in emitted
    /\ pc = "release" => bytes \in emitted

LEMMA WriteNamed ==
    ASSUME FilesOK, NEW n \in Name, NEW e \in Event, HookWrites(n, e)
    PROVE  /\ named'[n] = named[n] \cup {e}
           /\ \A m \in Name : m # n => named'[m] = named[m]
<1>1. named' = [named EXCEPT ![n] = named[n] \cup {e}]
  BY DEF HookWrites
<1> QED
  BY <1>1 DEF FilesOK

LEMMA NextNames ==
    ASSUME IInv, Names, [InboxNext]_inboxVars
    PROVE  Names'
<1> USE InboxConstantsOK DEF IInv, FilesOK, Names, Written, Under
<1>1. ASSUME NEW n \in Name, NEW e \in Event, HookWrites(n, e) PROVE Names'
  <2>1. /\ named'[n] = named[n] \cup {e}
        /\ \A m \in Name : m # n => named'[m] = named[m]
    BY <1>1, WriteNamed
  <2>2. \A m \in Name : e \notin named[m]
    BY <1>1 DEF HookWrites
  <2>3. \A m, k \in Name : m # k => named'[m] \cap named'[k] = {}
    <3> SUFFICES ASSUME NEW m \in Name, NEW k \in Name, m # k,
                        NEW x \in named'[m], x \in named'[k]
                 PROVE  FALSE
      OBVIOUS
    <3>1. CASE m # n /\ k # n
      BY <2>1, <3>1
    <3>2. CASE m = n \/ k = n
      BY <2>1, <2>2, <3>2
    <3> QED
      BY <3>1, <3>2
  <2>4. \A m \in Name : inbox'[m] \in named'[m] \cup {NoFile}
    BY <1>1, <2>1 DEF HookWrites
  <2>5. \A m \in Name \ Shared : \A d, k \in named'[m] : d = k
    BY <1>1, <2>1 DEF HookWrites
  <2>6. emitted' \subseteq Written'
    BY <1>1, <2>1 DEF HookWrites
  <2>7. ASSUME pc \in {"link", "verify", "seal", "emit", "release"}
        PROVE  bytes \in named'[cur] /\ (cur \notin Shared => inbox'[cur] = bytes)
    BY <1>1, <2>1, <2>7 DEF HookWrites
  <2>8. UNCHANGED <<pc, cur, bytes, acked, emitted>>
    BY <1>1 DEF HookWrites, loopVars
  <2> HIDE DEF IInv, FilesOK
  <2> QED
    BY <2>3, <2>4, <2>5, <2>6, <2>7, <2>8
<1>2. ASSUME Scan PROVE Names'
  BY <1>2 DEF Scan, LoopFrame
<1>3. ASSUME Rescan PROVE Names'
  BY <1>3 DEF Rescan, LoopFrame
<1>4. ASSUME NEW n \in Name, Pick(n) PROVE Names'
  BY <1>4 DEF Pick, First, LoopFrame
<1>5. ASSUME NEW n \in Name, Cools(n) PROVE Names'
  BY <1>5 DEF Cools, LoopFrame, loopVars
<1>6. ASSUME ReadFile PROVE Names'
  BY <1>6 DEF ReadFile, LoopFrame, Present
<1>7. ASSUME LinkFile PROVE Names'
  BY <1>7 DEF LinkFile, LinkRefused, Moves, Fails, MarkFailed, LoopFrame
<1>8. ASSUME VerifyFile PROVE Names'
  BY <1>8 DEF VerifyFile, DigestMatches, Moves, Fails, MarkFailed, LoopFrame
<1>9. ASSUME SealFile PROVE Names'
  BY <1>9 DEF SealFile, SealRefused, AfterSeal, Moves, Fails, MarkFailed, LoopFrame
<1>10. ASSUME NEW ok \in BOOLEAN, Emit(ok) PROVE Names'
  BY <1>10 DEF Emit, AfterEmit, Fails, MarkFailed, LoopFrame
<1>11. ASSUME Release PROVE Names'
  BY <1>11 DEF Release, LoopFrame
<1>12. ASSUME FileError PROVE Names'
  BY <1>12 DEF FileError, Fails, MarkFailed, LoopFrame
<1>13. ASSUME LoopCrash PROVE Names'
  BY <1>13 DEF LoopCrash, LoopFrame
<1>14. ASSUME List \/ ReadPage \/ ReadAgain PROVE Names'
  BY <1>14 DEF List, ReadPage, ReadAgain, ReaderFrame, loopVars
<1>15. CASE UNCHANGED inboxVars
  BY <1>15 DEF inboxVars, loopVars
<1> QED
  BY <1>1, <1>2, <1>3, <1>4, <1>5, <1>6, <1>7, <1>8, <1>9, <1>10, <1>11, <1>12, <1>13, <1>14, <1>15 DEF InboxNext

LEMMA StepDelivers ==
    ASSUME IInv, Names, [InboxNext]_inboxVars
    PROVE  [Delivery!Next]_(Delivery!vars)
<1> USE InboxConstantsOK DEF IInv, FilesOK, Names, Delivery!vars
<1>1. ASSUME NEW n \in Name, NEW e \in Event, HookWrites(n, e)
      PROVE  Delivery!Write(e) \/ UNCHANGED <<Pending, emitted \cap Own>>
  <2>1. /\ named'[n] = named[n] \cup {e}
        /\ \A m \in Name : m # n => named'[m] = named[m]
    BY <1>1, WriteNamed
  <2>2. CASE n \in Shared
    <3>1. Own' = Own
      <4>1. \A x : x \in Own' <=> \E m \in Name \ Shared : x \in named'[m]
        BY DEF Own, Under
      <4>2. \A x : x \in Own <=> \E m \in Name \ Shared : x \in named[m]
        BY DEF Own, Under
      <4>3. \A m \in Name \ Shared : named'[m] = named[m]
        BY <2>1, <2>2
      <4>4. \A x : x \in Own' <=> x \in Own
        BY <4>1, <4>2, <4>3
      <4>5. Own' = Own \cup {}
        BY <4>4
      <4>6. Own = Own \cup {}
        OBVIOUS
      <4> QED
        BY <4>5, <4>6
    <3>2. Pending' = Pending
      BY <1>1, <2>2 DEF HookWrites, Pending
    <3> QED
      BY <1>1, <3>1, <3>2 DEF HookWrites
  <2>3. CASE n \notin Shared
    <3>1. named[n] = {} /\ inbox[n] = NoFile
      BY <1>1, <2>3 DEF HookWrites
    <3>2. Pending' = Pending \cup {e}
      BY <1>1, <2>3, <3>1 DEF HookWrites, Pending
    <3>3. Own' = Own \cup {e}
      <4>1. \A x : x \in Own' <=> \E m \in Name \ Shared : x \in named'[m]
        BY DEF Own, Under
      <4>2. \A x : x \in Own <=> \E m \in Name \ Shared : x \in named[m]
        BY DEF Own, Under
      <4>3. \A x : x \in Own' <=> x \in Own \/ x = e
        BY <2>1, <2>3, <3>1, <4>1, <4>2
      <4> QED
        BY <4>3
    <3>4. e \notin Written
      BY <1>1 DEF HookWrites
    <3>5. e \notin Pending
      BY <3>4 DEF Pending, Written, Under
    <3>6. (emitted \cap Own)' = emitted \cap Own
      BY <1>1, <3>3, <3>4 DEF HookWrites
    <3> QED
      BY <3>2, <3>4, <3>5, <3>6 DEF Delivery!Write
  <2> QED
    BY <2>2, <2>3
<1>2. ASSUME NEW ok \in BOOLEAN, Emit(ok)
      PROVE  Delivery!Deliver(bytes) \/ UNCHANGED <<Pending, emitted \cap Own>>
  <2>1. Pending' = Pending /\ Own' = Own
    BY <1>2 DEF Emit, LoopFrame, Pending, Own, Under
  <2>2. CASE cur \in Shared
    <3>1. bytes \in named[cur]
      BY <1>2 DEF Emit
    <3>2. bytes \notin Own
      BY <2>2, <3>1 DEF Own, Under
    <3> QED
      BY <1>2, <2>1, <3>2 DEF Emit
  <2>3. CASE cur \notin Shared
    <3>1. bytes \in Pending
      BY <1>2, <2>3 DEF Emit, Pending, Sealing
    <3>2. bytes \in Own
      BY <1>2, <2>3 DEF Emit, Own, Under
    <3> QED
      BY <1>2, <2>1, <3>1, <3>2 DEF Emit, Delivery!Deliver
  <2> QED
    BY <2>2, <2>3
<1>3. ASSUME Release
      PROVE  Delivery!Settle(bytes) \/ UNCHANGED <<Pending, emitted \cap Own>>
  <2>1. Own' = Own /\ emitted' = emitted
    BY <1>3 DEF Release, LoopFrame, Own, Under
  <2>2. CASE cur \in Shared
    BY <1>3, <2>1, <2>2 DEF Release, Pending
  <2>3. CASE cur \notin Shared
    <3>1. inbox[cur] = bytes /\ bytes # NoFile /\ bytes \in emitted /\ bytes \in named[cur]
      BY <1>3, <2>3 DEF Release, Present
    <3>2. \A m \in Name : m # cur => inbox[m] # bytes
      BY <3>1
    <3>3. Pending' = Pending \ {bytes}
      BY <1>3, <2>3, <3>1, <3>2 DEF Release, Pending
    <3>4. bytes \in Own /\ bytes \in Pending
      BY <2>3, <3>1 DEF Own, Under, Pending
    <3> QED
      BY <2>1, <3>1, <3>3, <3>4 DEF Delivery!Settle
  <2> QED
    BY <2>2, <2>3
<1>4. ASSUME \/ Scan \/ Rescan \/ \E n \in Name : Pick(n) \/ Cools(n)
             \/ ReadFile \/ LinkFile \/ VerifyFile \/ SealFile \/ FileError \/ LoopCrash
             \/ List \/ ReadPage \/ ReadAgain \/ UNCHANGED inboxVars
      PROVE  UNCHANGED <<Pending, emitted \cap Own>>
  <2>1. UNCHANGED <<inbox, emitted, named>>
    BY <1>4 DEF Scan, Rescan, Pick, Cools, ReadFile, LinkFile, VerifyFile, SealFile, FileError, LoopCrash,
                List, ReadPage, ReadAgain, LoopFrame, ReaderFrame, inboxVars
  <2> QED
    BY <2>1 DEF Pending, Own, Under
<1>5. bytes \in Event \/ ~(\E ok \in BOOLEAN : Emit(ok))
  BY DEF Emit, Sealing, Maybe
<1>6. bytes \in Event \/ ~Release
  BY DEF Release, Present, Maybe
<1> QED
  BY <1>1, <1>2, <1>3, <1>4, <1>5, <1>6 DEF InboxNext, Delivery!Next

(* Theorem.  For the events whose file name no other event gets, the poll loop
   implements HookDelivery: nothing is lost or removed before it was emitted,
   through crashes, failing files, retries and other names that are reused. *)
THEOREM DeliversAtLeastOnce == InboxSpec => AtLeastOnce
<1>1. InboxInit => IInv /\ Names /\ Delivery!Init
  <2>1. InboxInit => Names
    BY DEF InboxInit, Names, Name
  <2>2. InboxInit => Delivery!Init
    BY DEF InboxInit, Delivery!Init, Pending
  <2> QED
    BY <2>1, <2>2, InitIInv
<1>2. IInv /\ Names /\ [InboxNext]_inboxVars => IInv' /\ Names' /\ [Delivery!Next]_(Delivery!vars)
  BY NextIInv, NextNames, StepDelivers
<1> QED
  BY <1>1, <1>2, PTL DEF InboxSpec, AtLeastOnce, Delivery!Spec
-----------------------------------------------------------------------------
(* Paging.                                                                 *)

\* Names that are listed have a last one.  D is what is at or below some
\* member of S; it is as large as it is high.
LEMMA LastName ==
  ASSUME NEW S \in SUBSET Name, S # {} PROVE \E p \in S : \A m \in S : m <= p
<1> DEFINE D == {x \in Name : \E y \in S : x <= y}
           d == Cardinality(D)
<1>1. MaxName \in Nat /\ Name = 1..MaxName /\ IsFiniteSet(Name)
  BY InboxConstantsOK, FS_Interval DEF Name
<1>2. IsFiniteSet(D) /\ d \in Nat
  BY <1>1, FS_Subset, FS_CardinalityType
<1>3. S \subseteq D
  BY <1>1
<1>4. ASSUME NEW x \in D PROVE x \in 1..d
  <2>1. x \in Nat /\ x >= 1 /\ 1..x \subseteq D
    BY <1>1
  <2>2. Cardinality(1..x) = x
    BY <2>1, FS_Interval
  <2>3. x <= d
    BY <1>2, <2>1, <2>2, FS_Subset
  <2> HIDE DEF d
  <2> QED
    BY <1>2, <2>1, <2>3
<1>5. IsFiniteSet(1..d) /\ Cardinality(1..d) = d
  <2> HIDE DEF d
  <2> QED
    BY <1>2, FS_Interval
<1>6. D = 1..d
  <2>1. D \subseteq 1..d
    BY <1>4
  <2> QED
    BY <1>5, <2>1, FS_Subset
<1>7. d \in D
  <2>1. D # {}
    BY <1>3
  <2> HIDE DEF d
  <2> QED
    BY <1>2, <1>6, <2>1
<1>8. PICK y \in S : d <= y
  BY <1>7
<1>9. \A m \in S : m \in 1..d
  BY <1>3, <1>4
<1> HIDE DEF d, D
<1> QED
  BY <1>2, <1>8, <1>9

ReaderRecord == [pc : {"idle", "listed", "more", "done"}, after : 0..MaxName,
                 names : SUBSET Name, got : SUBSET Name]

\* A client has seen the names of its listing up to the last one it has seen.
PagingOK ==
    /\ reader \in ReaderRecord
    /\ reader.pc # "done" => reader.got = {n \in reader.names : n <= reader.after}
    /\ PagesSkipNothing

\* A page is the next names, none left out.
LEMMA PageIsNext ==
  ASSUME reader \in ReaderRecord, NEW p \in Page, \A m \in Page : m <= p
  PROVE  Page = {n \in reader.names : n > reader.after /\ n <= p}
<1>1. /\ Rest \subseteq Name /\ IsFiniteSet(Rest) /\ PageSize \in Nat
      /\ Name = 1..MaxName /\ MaxName \in Nat /\ reader.after \in Nat
  <2>1. Rest \subseteq Name
    BY DEF Rest, ReaderRecord
  <2>2. IsFiniteSet(Name)
    BY InboxConstantsOK, FS_Interval DEF Name
  <2>3. IsFiniteSet(Rest)
    BY <2>1, <2>2, FS_Subset
  <2>4. reader.after \in 0..MaxName
    BY DEF ReaderRecord
  <2> QED
    BY <2>1, <2>3, <2>4, InboxConstantsOK DEF Name
<1>2. ASSUME NEW n \in Rest, n <= p PROVE n \in Page
  <2> DEFINE A == {m \in Rest : m < n}
             B == {m \in Rest : m < p}
  <2>1. p \in Rest /\ Cardinality(B) < PageSize
    BY DEF Page
  <2>2. A \subseteq B /\ B \subseteq Rest
    <3>1. n \in Nat /\ p \in Nat /\ \A m \in Rest : m \in Nat
      BY <1>1, <2>1
    <3>2. ASSUME NEW m \in Rest, m < n PROVE m < p
      BY <1>2, <3>1, <3>2
    <3> QED
      BY <3>2
  <2>3. IsFiniteSet(B) /\ IsFiniteSet(A)
    BY <1>1, <2>2, FS_Subset
  <2>4. Cardinality(A) <= Cardinality(B) /\ Cardinality(A) \in Nat /\ Cardinality(B) \in Nat
    BY <2>2, <2>3, FS_Subset, FS_CardinalityType
  <2>5. Cardinality(A) < PageSize
    <3> HIDE DEF A, B
    <3> QED
      BY <1>1, <2>1, <2>4
  <2> QED
    BY <2>5 DEF Page
<1> QED
  BY <1>2 DEF Page, Rest

WithPage(r, got, pcs, after) == [r EXCEPT !.got = got, !.pc = pcs, !.after = after]
WithNames(r, names, pcs) == [r EXCEPT !.pc = pcs, !.names = names]

LEMMA PageFields ==
  ASSUME NEW r \in ReaderRecord, NEW g \in SUBSET Name, NEW a \in 0..MaxName,
         NEW p \in {"idle", "listed", "more", "done"}, NEW x, x = WithPage(r, g, p, a)
  PROVE  x \in ReaderRecord /\ x.got = g /\ x.pc = p /\ x.after = a /\ x.names = r.names
  BY DEF ReaderRecord, WithPage

LEMMA NamesFields ==
  ASSUME NEW r \in ReaderRecord, NEW g \in SUBSET Name,
         NEW p \in {"idle", "listed", "more", "done"}, NEW x, x = WithNames(r, g, p)
  PROVE  x \in ReaderRecord /\ x.names = g /\ x.pc = p /\ x.got = r.got /\ x.after = r.after
  BY DEF ReaderRecord, WithNames

LEMMA NextPaging == PagingOK /\ IInv /\ [InboxNext]_inboxVars => PagingOK'
<1> SUFFICES ASSUME PagingOK, IInv, [InboxNext]_inboxVars PROVE PagingOK'
  OBVIOUS
<1> USE DEF PagingOK
<1>0. Idle \in ReaderRecord /\ Idle.pc = "idle" /\ Idle.got = {} /\ Idle.names = {}
  BY InboxConstantsOK DEF Idle, ReaderRecord
<1>1. CASE reader' = Idle
  BY <1>0, <1>1 DEF PagesSkipNothing
<1>2. CASE UNCHANGED reader
  BY <1>2 DEF PagesSkipNothing
<1>3. CASE List /\ CursorGood
  <2> DEFINE p == "listed"
  <2>1. reader' = WithNames(reader, Listing, p)
    BY <1>3 DEF List, WithNames
  <2>2. Listing \in SUBSET Name /\ p \in {"idle", "listed", "more", "done"} 
    BY DEF Listing
  <2>3. /\ reader' \in ReaderRecord /\ reader'.names = Listing /\ reader'.pc = p
        /\ reader'.got = reader.got /\ reader'.after = reader.after
    <3> HIDE DEF p
    <3> QED
      BY <2>1, <2>2, NamesFields
  <2>4. reader.pc # "done" /\ reader.got = {n \in reader.names : n <= reader.after}
    BY <1>3 DEF List
  <2>5. reader.got = {n \in Listing : n <= reader.after}
    <3>1. CASE reader.after = 0
      <4>1. \A n \in Name : ~(n <= 0)
        BY InboxConstantsOK DEF Name
      <4>2. reader.names \subseteq Name
        BY DEF ReaderRecord
      <4> QED
        BY <2>2, <2>4, <3>1, <4>1, <4>2
    <3>2. CASE reader.names = Listing
      BY <2>4, <3>2
    <3> QED
      BY <1>3, <3>1, <3>2 DEF CursorGood
  <2> QED
    BY <2>3, <2>5 DEF PagesSkipNothing
<1>4. CASE ReadPage /\ reader' # Idle
  <2> DEFINE g == reader.got \cup Page
             p == IF Rest = Page THEN "done" ELSE "more"
             a == IF Page = {} THEN reader.after ELSE CHOOSE n \in Page : \A m \in Page : m <= n
  <2>1. reader' = WithPage(reader, g, p, a) /\ reader.pc = "listed"
    BY <1>4 DEF ReadPage, WithPage
  <2>2. Page \subseteq Rest /\ Rest \subseteq Name /\ reader.got \subseteq Name /\ reader.after \in 0..MaxName
    BY DEF Page, Rest, ReaderRecord
  <2>3. reader.got = {n \in reader.names : n <= reader.after}
    BY <2>1
  <2>4. (a \in 0..MaxName /\ g = {n \in reader.names : n <= a}) \/ Page = {}
    <3> SUFFICES ASSUME Page # {} PROVE a \in 0..MaxName /\ g = {n \in reader.names : n <= a}
      OBVIOUS
    <3>1. \E n \in Page : \A m \in Page : m <= n
      BY <2>2, LastName
    <3>2. a \in Page /\ \A m \in Page : m <= a
      BY <3>1
    <3> HIDE DEF a
    <3>3. Page = {n \in reader.names : n > reader.after /\ n <= a}
      BY <3>2, PageIsNext
    <3>4. a \in 1..MaxName /\ a > reader.after /\ reader.after \in Nat /\ MaxName \in Nat
      BY <2>2, <3>2, <3>3, InboxConstantsOK DEF Name
    <3>5. reader.names \subseteq 1..MaxName
      BY DEF ReaderRecord, Name
    <3> QED
      BY <2>3, <3>3, <3>4, <3>5
  <2>5. a \in 0..MaxName /\ g = {n \in reader.names : n <= a}
    BY <2>2, <2>3, <2>4
  <2>6. Rest = Page => g = reader.names
    <3>1. reader.names \subseteq Name /\ Name \subseteq Nat
      BY InboxConstantsOK DEF ReaderRecord, Name
    <3> HIDE DEF p, a
    <3>4. reader.after \in Nat
      BY <2>2, InboxConstantsOK
    <3>2. ASSUME NEW n \in reader.names PROVE n <= reader.after \/ n > reader.after
      <4>1. n \in Nat
        BY <3>1
      <4> DEFINE k == reader.after
      <4>2. k \in Nat
        BY <3>4
      <4> HIDE DEF k
      <4>3. n <= k \/ n > k
        BY <4>1, <4>2
      <4> QED
        BY <4>3 DEF k
    <3>3. reader.got \cup Rest = reader.names
      BY <2>3, <3>2 DEF Rest
    <3> QED
      BY <3>3
  <2>7. g \in SUBSET Name /\ p \in {"idle", "listed", "more", "done"} /\ (p = "done" => Rest = Page)
    BY <2>2
  <2> HIDE DEF g, p, a
  <2>8. /\ reader' \in ReaderRecord /\ reader'.got = g /\ reader'.pc = p
        /\ reader'.after = a /\ reader'.names = reader.names
    <3>1. reader \in ReaderRecord /\ a \in 0..MaxName
      BY <2>5
    <3> QED
      BY <2>1, <2>7, <3>1, PageFields
  <2> QED
    BY <2>5, <2>6, <2>7, <2>8 DEF PagesSkipNothing
<1>5. UNCHANGED reader \/ reader' = Idle \/ (List /\ CursorGood) \/ ReadPage
  BY DEF InboxNext, inboxVars, HookWrites, Scan, Rescan, Pick, Cools, ReadFile, LinkFile,
         VerifyFile, SealFile, Emit,
         Release, FileError, LoopCrash, List, ReadAgain, LoopFrame
<1> QED
  BY <1>1, <1>2, <1>3, <1>4, <1>5

\* A client that pages to the end has seen every file of the last listing,
\* whatever is archived, sealed or removed while it pages
\* (runtime-hook-archive.ts:195-198).
THEOREM PagingSkipsNothing == InboxSpec => []PagesSkipNothing
<1>1. InboxInit => IInv /\ PagingOK
  <2>1. InboxInit => PagingOK
    BY InboxConstantsOK DEF InboxInit, PagingOK, Idle, ReaderRecord, PagesSkipNothing
  <2> QED
    BY <2>1, InitIInv
<1>2. PagingOK => PagesSkipNothing
  BY DEF PagingOK
<1> QED
  BY <1>1, <1>2, NextIInv, NextPaging, PTL DEF InboxSpec

-----------------------------------------------------------------------------
(* Types.                                                                  *)

\* The part of the type invariant the arguments above do not need.
GateOK ==
    /\ pc \in {"scan", "next", "read", "link", "verify", "seal", "emit", "release"}
    /\ cooling \in Seq(Name) /\ Len(cooling) <= MaxEntries

\* Taking a name out of the gate makes room, if it was there.
LEMMA WithoutType ==
  ASSUME cooling \in Seq(Name), NEW n \in Name
  PROVE  /\ Without(n) \in Seq(Name) /\ Len(Without(n)) <= Len(cooling)
<1>1. CASE CoolingBlocks(n)
  <2> DEFINE i == CHOOSE i \in DOMAIN cooling : cooling[i] = n
             l == SubSeq(cooling, 1, i - 1)
             r == SubSeq(cooling, i + 1, Len(cooling))
  <2>1. i \in 1..Len(cooling) /\ Len(cooling) \in Nat
    BY <1>1 DEF CoolingBlocks
  <2>2. Without(n) = l \o r
    BY <1>1 DEF Without
  <2> HIDE DEF i
  <2>3. l \in Seq(Name) /\ Len(l) = i - 1
    BY <2>1
  <2>4. r \in Seq(Name) /\ Len(r) = Len(cooling) - i
    BY <2>1
  <2> HIDE DEF l, r
  <2>5. l \o r \in Seq(Name) /\ Len(l \o r) = Len(l) + Len(r)
    BY <2>3, <2>4
  <2> QED
    BY <2>1, <2>2, <2>3, <2>4, <2>5
<1>2. CASE ~CoolingBlocks(n)
  BY <1>2 DEF Without
<1> QED
  BY <1>1, <1>2

\* A failed name comes last, and the oldest one makes room for it.
LEMMA MarkFailedType ==
  ASSUME IInv, GateOK, MarkFailed PROVE GateOK'
<1> DEFINE w == Without(cur)
           e == Append(w, cur)
<1>1. cur \in Name /\ MaxEntries \in Nat \ {0}
  BY InboxConstantsOK DEF IInv, FilesOK
<1>2. w \in Seq(Name) /\ Len(w) <= MaxEntries
  <2>1. Len(cooling) \in Nat /\ Len(w) <= Len(cooling) /\ w \in Seq(Name)
    BY <1>1, WithoutType DEF GateOK
  <2> HIDE DEF w
  <2> QED
    BY <1>1, <2>1 DEF GateOK
<1>3. cooling' = IF Len(e) > MaxEntries THEN Tail(e) ELSE e
  BY DEF MarkFailed
<1>4. pc' = "next"
  BY DEF MarkFailed
<1> HIDE DEF w
<1>5. e \in Seq(Name) /\ Len(e) = Len(w) + 1
  BY <1>1, <1>2
<1> HIDE DEF e
<1>6. CASE Len(e) > MaxEntries
  <2>1. e # <<>>
    BY <1>1, <1>5, <1>6, <1>2
  <2>2. Tail(e) \in Seq(Name) /\ Len(Tail(e)) = Len(e) - 1
    BY <1>5, <2>1
  <2> QED
    BY <1>1, <1>2, <1>3, <1>4, <1>5, <1>6, <2>2 DEF GateOK
<1>7. CASE ~(Len(e) > MaxEntries)
  BY <1>1, <1>2, <1>3, <1>4, <1>5, <1>7 DEF GateOK
<1> QED
  BY <1>6, <1>7

LEMMA NextGate == ASSUME IInv, GateOK, [InboxNext]_inboxVars PROVE GateOK'
<1>0. cur \in Name
  BY DEF IInv, FilesOK
<1>1. CASE MarkFailed
  BY <1>1, MarkFailedType
<1>2. ASSUME NEW n \in Name, cooling' = Without(n), pc' \in {"next", pc} PROVE GateOK'
  <2> DEFINE w == Without(n)
  <2>1. w \in Seq(Name) /\ Len(w) <= Len(cooling)
    BY WithoutType DEF GateOK
  <2>2. cooling' = w
    BY <1>2
  <2> HIDE DEF w
  <2> QED
    BY <1>2, <2>1, <2>2, InboxConstantsOK DEF GateOK
<1>3. CASE cooling' \in {cooling, <<>>}
           /\ pc' \in {"scan", "next", "read", "link", "verify", "seal", "emit", "release"}
  <2>1. /\ cooling \in Seq(Name) /\ Len(cooling) <= MaxEntries
        /\ <<>> \in Seq(Name) /\ Len(<<>>) <= MaxEntries
    BY InboxConstantsOK DEF GateOK
  <2>2. cooling' \in Seq(Name) /\ Len(cooling') <= MaxEntries
    BY <1>3, <2>1
  <2> QED
    BY <1>3, <2>2 DEF GateOK
<1>4. \/ MarkFailed
      \/ \E n \in Name : cooling' = Without(n) /\ pc' \in {"next", pc}
      \/ /\ cooling' \in {cooling, <<>>}
         /\ pc' \in {"scan", "next", "read", "link", "verify", "seal", "emit", "release"}
  <2>1. ASSUME NEW n \in Name, Pick(n)
        PROVE  cooling' = cooling /\ pc' \in {"next", "read"}
    BY <2>1 DEF Pick
  <2>2. ASSUME NEW n \in Name, Cools(n) PROVE cooling' = Without(n) /\ pc' = pc
    BY <2>2 DEF Cools, loopVars
  <2>3. CASE Scan \/ Rescan \/ LoopCrash
    BY <2>3 DEF Scan, Rescan, LoopCrash
  <2>4. CASE ReadFile \/ LinkFile \/ VerifyFile \/ SealFile \/ FileError
    BY <2>4 DEF ReadFile, LinkFile, VerifyFile, SealFile, FileError, Fails, Moves, AfterSeal
  <2>5. ASSUME NEW ok \in BOOLEAN, Emit(ok)
        PROVE  MarkFailed \/ (cooling' = cooling /\ pc' \in {"link", "release"})
    BY <2>5 DEF Emit, Fails, AfterEmit
  <2>6. CASE Release
    BY <1>0, <2>6 DEF Release
  <2>7. CASE List \/ ReadPage \/ ReadAgain \/ UNCHANGED inboxVars
             \/ \E n \in Name, e \in Event : HookWrites(n, e)
    BY <2>7 DEF List, ReadPage, ReadAgain, ReaderFrame, inboxVars, HookWrites, loopVars, GateOK
  <2> QED
    BY <2>1, <2>2, <2>3, <2>4, <2>5, <2>6, <2>7 DEF InboxNext
<1> QED
  BY <1>1, <1>2, <1>3, <1>4

\* Every variable of the inbox, the loop, the retry gate and the paging client
\* keeps to its range; the gate to maxEntries (runtime-hook-archive.ts:365-375).
THEOREM TypeCorrect == InboxSpec => []InboxTypeOK
<1>1. InboxInit => IInv /\ Names /\ PagingOK /\ GateOK
  <2>1. InboxInit => GateOK
    BY InboxConstantsOK DEF InboxInit, GateOK
  <2>2. InboxInit => PagingOK
    BY InboxConstantsOK DEF InboxInit, PagingOK, Idle, ReaderRecord, PagesSkipNothing
  <2>3. InboxInit => Names
    BY DEF InboxInit, Names, Written, Under, Name
  <2> QED
    BY <2>1, <2>2, <2>3, InitIInv
<1>2. IInv /\ Names /\ PagingOK /\ GateOK => InboxTypeOK
  BY DEF IInv, Names, PagingOK, GateOK, InboxTypeOK, FilesOK, Maybe, ReaderRecord
<1> QED
  BY <1>1, <1>2, NextIInv, NextNames, NextPaging, NextGate, PTL DEF InboxSpec
=============================================================================
