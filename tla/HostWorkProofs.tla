--------------------------- MODULE HostWorkProofs ---------------------------
(***************************************************************************)
(* The two components of MCHostWork, which share no state.                 *)
(*                                                                         *)
(* PackageInstall, for any versions, releases and operations, with deaths, *)
(* damage and other daemons at any moment: what current.json names is      *)
(* whole unless it was spoilt from outside, the cached state agrees with   *)
(* it, and installing is atomic (AtomicInstall).                           *)
(*                                                                         *)
(* SourceCoordinator, for any set of installations, callers and rescans:   *)
(* what it keeps is of its type, it captures nothing twice, its dispose    *)
(* leaves nothing behind, and a run deals with what it found.              *)
(***************************************************************************)
EXTENDS PackageInstall, SourceCoordinator, SequenceTheorems, TLAPS

-----------------------------------------------------------------------------
(* The installer.                                                          *)

\* An operation, and what may become of it.
Status == Live \cup {"completed", "failed", "lost"}
Operation == [kind : {"install", "update", "remove"}, status : Status]

\* What the install root and the daemon hold is of its type.
DiskOK ==
    /\ files \in [Version -> {"none", "bad", "good"}]
    /\ pointer \in Version \cup {None} /\ bundled \in Version \cup {None}
    /\ touched \subseteq Version /\ release \in Release

\* So is the queue, and the running operation is in it.
QueueOK == op \in Seq(Operation) /\ cur \in {0} \cup DOMAIN op

\* The steps of an installation, and of a removal.
Installing == {"bundle", "stage", "copy", "verify", "aside", "put", "check", "point"}
Removing == {"guard", "unlink", "forget"}

\* The step belongs to the operation that runs, an installation has its version
\* once the bundle is there, and what it is about to name was found whole.
Working ==
    /\ pc \in Installing => cur # 0 /\ op[cur].kind \in {"install", "update"}
    /\ pc \in Removing => cur # 0 /\ op[cur].kind = "remove"
    /\ pc \in Installing \ {"bundle"} => bundled \in Version
    /\ pc # "idle" => up
    /\ pc = "point" => files[bundled] = "good" \/ bundled \in touched

\* The inductive invariant of the installer.
InstallInv == DiskOK /\ QueueOK /\ Working /\ PointerIsWhole /\ CacheIsTrue

\* A daemon that never ran: nothing installed, nothing running.
LEMMA InitInstallInv == Init => InstallInv
<1> USE ConstantsOK DEF Init
<1>1. Init => DiskOK /\ QueueOK
  BY DEF DiskOK, QueueOK
<1>2. Init => Working /\ PointerIsWhole /\ CacheIsTrue
  BY DEF Working, Installing, Removing, PointerIsWhole, CacheIsTrue, Absent
<1> QED
  BY <1>1, <1>2 DEF InstallInv

\* Nothing that becomes of an operation changes how many there are or their kind.
KindsKept(ops) ==
    /\ ops \in Seq(Operation) /\ DOMAIN op \subseteq DOMAIN ops
    /\ \A j \in DOMAIN op : ops[j].kind = op[j].kind

\* A new status keeps the operations and their kinds.
LEMMA Relabelled ==
    ASSUME op \in Seq(Operation), NEW i \in DOMAIN op, NEW t \in Status
    PROVE KindsKept([op EXCEPT ![i].status = t])
<1> DEFINE new == [op EXCEPT ![i].status = t]
<1>1. op \in [1..Len(op) -> Operation] /\ Len(op) \in Nat /\ DOMAIN op = 1..Len(op)
  BY LenProperties
<1>2. [op[i] EXCEPT !.status = t] \in Operation
  BY <1>1 DEF Operation
<1>3. new \in [1..Len(op) -> Operation]
  BY <1>1, <1>2
<1>4. \A j \in DOMAIN op : new[j].kind = op[j].kind
  BY <1>1 DEF Operation
<1>5. new \in Seq(Operation)
  BY <1>1, <1>3, SeqDef
<1> QED
  BY <1>1, <1>3, <1>4, <1>5 DEF KindsKept

\* Whatever happens to the queue, an operation keeps its number and its kind.
LEMMA QueueStep == InstallInv /\ [Next]_vars => KindsKept(op') /\ QueueOK'
<1> SUFFICES ASSUME InstallInv, [Next]_vars PROVE KindsKept(op') /\ QueueOK'
  OBVIOUS
<1> USE DEF InstallInv, QueueOK, Status, Live
<1>1. op \in [1..Len(op) -> Operation] /\ Len(op) \in Nat /\ DOMAIN op = 1..Len(op)
  BY LenProperties
<1>2. CASE op' = op /\ cur' \in {0, cur}
  BY <1>2 DEF KindsKept
<1>3. ASSUME cur # 0, NEW t \in Status, Settle(t) PROVE KindsKept(op') /\ QueueOK'
  BY <1>3, Relabelled, ZenonT(60) DEF Settle, KindsKept
<1>4. ASSUME Crash PROVE KindsKept(op') /\ QueueOK'
  <2>1. op' \in [1..Len(op) -> Operation]
    BY <1>1, <1>4 DEF Crash, Operation
  <2>2. \A j \in DOMAIN op : op'[j].kind = op[j].kind
    BY <1>1, <1>4 DEF Crash, Operation
  <2>3. op' \in Seq(Operation)
    BY <1>1, <2>1, SeqDef
  <2> QED
    BY <1>1, <1>4, <2>1, <2>2, <2>3 DEF Crash, KindsKept
<1>5. ASSUME NEW k \in {"install", "update", "remove"}, Enqueue(k)
      PROVE KindsKept(op') /\ QueueOK'
  <2>1. [kind |-> k, status |-> "queued"] \in Operation
    BY DEF Operation
  <2>2. op' = Append(op, [kind |-> k, status |-> "queued"])
    BY <1>5 DEF Enqueue
  <2>3. op' \in Seq(Operation) /\ Len(op') = Len(op) + 1 /\ \A j \in 1..Len(op) : op'[j] = op[j]
    BY <2>1, <2>2, AppendProperties
  <2>4. DOMAIN op' = 1..Len(op')
    BY <2>3, LenProperties
  <2> QED
    BY <1>1, <1>5, <2>3, <2>4 DEF Enqueue, KindsKept
<1>6. ASSUME NEW i \in DOMAIN op, Begin(i) PROVE KindsKept(op') /\ QueueOK'
  <2>1. PICK t \in Status : op' = [op EXCEPT ![i].status = t]
    BY <1>6 DEF Begin
  <2>2. cur' \in {0, i}
    BY <1>6 DEF Begin
  <2> QED
    BY <1>6, <2>1, <2>2, Relabelled, ZenonT(60) DEF KindsKept
<1>7. ASSUME Fail PROVE KindsKept(op') /\ QueueOK'
  BY <1>3, <1>7 DEF Fail
<1>8. ASSUME Bundle \/ Guard \/ Point \/ Forget PROVE KindsKept(op') /\ QueueOK'
  <2>1. cur # 0
    BY <1>8 DEF Bundle, Guard, Point, Forget, At, Working, Installing, Removing
  <2> QED
    BY <1>2, <1>3, <1>8, <2>1 DEF Bundle, Guard, Point, Forget, At, Goto
<1>9. ASSUME
           OtherDaemonCleans \/ Stage \/ Copy \/ Verify \/ MoveAside \/ Put \/ Check \/ Unlink
           \/ UNCHANGED vars
           \/ (\E r \in Release : Start(r)) \/ (\E v \in Version : Damage(v))
      PROVE op' = op /\ cur' = cur
  BY <1>9 DEF OtherDaemonCleans, Stage, Copy, Verify, MoveAside, Put, Check, Unlink, Start,
              Damage, Goto, opVars, vars
<1> QED
  BY <1>2, <1>4, <1>5, <1>6, <1>7, <1>8, <1>9 DEF Next, Work

\* Every step keeps the invariant: one step of the proof per action.
LEMMA NextInstallInv == InstallInv /\ [Next]_vars => InstallInv'
<1> SUFFICES ASSUME InstallInv, [Next]_vars PROVE InstallInv'
  OBVIOUS
<1> USE ConstantsOK DEF InstallInv
<1>0. QueueOK' /\ KindsKept(op')
  BY QueueStep
<1>1. ASSUME Crash PROVE InstallInv'
  <2>1. DiskOK'
    BY <1>1 DEF Crash, diskVars, opVars, DiskOK, Working, Installing
  <2>2. Working'
    BY <1>0, <1>1 DEF Crash, diskVars, opVars, DiskOK, Working,
           Installing, Removing, QueueOK, KindsKept, Operation
  <2>3. PointerIsWhole'
    BY <1>1 DEF Crash, diskVars, opVars, DiskOK, Working, PointerIsWhole
  <2>4. CacheIsTrue'
    BY <1>1 DEF Crash, Absent, CacheIsTrue
  <2> QED
    BY <1>0, <2>1, <2>2, <2>3, <2>4
<1>2. ASSUME OtherDaemonCleans PROVE InstallInv'
  <2>1. DiskOK'
    BY <1>2 DEF OtherDaemonCleans, diskVars, opVars, DiskOK, Working, Installing
  <2>2. Working'
    BY <1>0, <1>2 DEF OtherDaemonCleans, diskVars, opVars, DiskOK, Working,
           Installing, Removing
  <2>3. PointerIsWhole'
    BY <1>2 DEF OtherDaemonCleans, diskVars, opVars, DiskOK, Working, PointerIsWhole
  <2>4. CacheIsTrue'
    BY <1>2 DEF OtherDaemonCleans, diskVars, opVars, DiskOK, CacheIsTrue
  <2> QED
    BY <1>0, <2>1, <2>2, <2>3, <2>4
<1>3. ASSUME Fail PROVE InstallInv'
  <2>1. DiskOK'
    BY <1>3 DEF Fail, Settle, diskVars, opVars, DiskOK, Working, Installing
  <2>2. Working'
    BY <1>0, <1>3 DEF Fail, Settle, diskVars, opVars, DiskOK, Working,
           Installing, Removing
  <2>3. PointerIsWhole'
    BY <1>3 DEF Fail, Settle, diskVars, opVars, DiskOK, Working, PointerIsWhole
  <2>4. CacheIsTrue'
    BY <1>3 DEF Fail, Settle, diskVars, opVars, DiskOK, CacheIsTrue
  <2> QED
    BY <1>0, <2>1, <2>2, <2>3, <2>4
<1>4. ASSUME Bundle PROVE InstallInv'
  <2>1. DiskOK'
    BY <1>4 DEF Bundle, At, Mine, Settle, Goto, diskVars, opVars, DiskOK, Working, Installing
  <2>2. Working'
    BY <1>0, <1>4 DEF Bundle, At, Mine, Settle, Goto, diskVars, opVars, DiskOK, Working,
           Installing, Removing
  <2>3. PointerIsWhole'
    BY <1>4 DEF Bundle, At, Mine, Settle, Goto, diskVars, opVars, DiskOK, Working,
       PointerIsWhole
  <2>4. CacheIsTrue'
    BY <1>4 DEF Bundle, At, Mine, Settle, Goto, diskVars, opVars, DiskOK, CacheIsTrue
  <2> QED
    BY <1>0, <2>1, <2>2, <2>3, <2>4
<1>5. ASSUME Stage PROVE InstallInv'
  <2>1. DiskOK'
    BY <1>5 DEF Stage, At, Goto, diskVars, opVars, DiskOK, Working, Installing
  <2>2. Working'
    BY <1>0, <1>5 DEF Stage, At, Goto, diskVars, opVars, DiskOK, Working,
           Installing, Removing
  <2>3. PointerIsWhole'
    BY <1>5 DEF Stage, At, Goto, diskVars, opVars, DiskOK, Working, PointerIsWhole
  <2>4. CacheIsTrue'
    BY <1>5 DEF Stage, At, Goto, diskVars, opVars, DiskOK, CacheIsTrue
  <2> QED
    BY <1>0, <2>1, <2>2, <2>3, <2>4
<1>6. ASSUME Copy PROVE InstallInv'
  <2>1. DiskOK'
    BY <1>6 DEF Copy, At, Goto, diskVars, opVars, DiskOK, Working, Installing
  <2>2. Working'
    BY <1>0, <1>6 DEF Copy, At, Goto, diskVars, opVars, DiskOK, Working,
           Installing, Removing
  <2>3. PointerIsWhole'
    BY <1>6 DEF Copy, At, Goto, diskVars, opVars, DiskOK, Working, PointerIsWhole
  <2>4. CacheIsTrue'
    BY <1>6 DEF Copy, At, Goto, diskVars, opVars, DiskOK, CacheIsTrue
  <2> QED
    BY <1>0, <2>1, <2>2, <2>3, <2>4
<1>7. ASSUME Verify PROVE InstallInv'
  <2>1. DiskOK'
    BY <1>7 DEF Verify, At, Goto, diskVars, opVars, DiskOK, Working, Installing
  <2>2. Working'
    BY <1>0, <1>7 DEF Verify, At, Goto, diskVars, opVars, DiskOK, Working,
           Installing, Removing
  <2>3. PointerIsWhole'
    BY <1>7 DEF Verify, At, Goto, diskVars, opVars, DiskOK, Working, PointerIsWhole
  <2>4. CacheIsTrue'
    BY <1>7 DEF Verify, At, Goto, diskVars, opVars, DiskOK, CacheIsTrue
  <2> QED
    BY <1>0, <2>1, <2>2, <2>3, <2>4
<1>8. ASSUME MoveAside PROVE InstallInv'
  <2>1. DiskOK'
    BY <1>8 DEF MoveAside, At, Goto, Verdict, diskVars, opVars, DiskOK, Working, Installing
  <2>2. Working'
    BY <1>0, <1>8 DEF MoveAside, At, Goto, Verdict, diskVars, opVars, DiskOK, Working,
           Installing, Removing
  <2>3. PointerIsWhole'
    BY <1>8 DEF MoveAside, At, Goto, Verdict, diskVars, opVars, DiskOK, Working, PointerIsWhole
  <2>4. CacheIsTrue'
    BY <1>8 DEF MoveAside, At, Goto, Verdict, diskVars, opVars, DiskOK, CacheIsTrue
  <2> QED
    BY <1>0, <2>1, <2>2, <2>3, <2>4
<1>9. ASSUME Put PROVE InstallInv'
  <2>1. DiskOK'
    BY <1>9 DEF Put, At, Goto, diskVars, opVars, DiskOK, Working, Installing
  <2>2. Working'
    BY <1>0, <1>9 DEF Put, At, Goto, diskVars, opVars, DiskOK, Working,
           Installing, Removing
  <2>3. PointerIsWhole'
    BY <1>9 DEF Put, At, Goto, diskVars, opVars, DiskOK, Working, PointerIsWhole
  <2>4. CacheIsTrue'
    BY <1>9 DEF Put, At, Goto, diskVars, opVars, DiskOK, CacheIsTrue
  <2> QED
    BY <1>0, <2>1, <2>2, <2>3, <2>4
<1>10. ASSUME Check PROVE InstallInv'
  <2>1. DiskOK'
    BY <1>10 DEF Check, At, Goto, diskVars, opVars, DiskOK, Working, Installing
  <2>2. Working'
    BY <1>0, <1>10 DEF Check, At, Goto, diskVars, opVars, DiskOK, Working,
           Installing, Removing
  <2>3. PointerIsWhole'
    BY <1>10 DEF Check, At, Goto, diskVars, opVars, DiskOK, Working, PointerIsWhole
  <2>4. CacheIsTrue'
    BY <1>10 DEF Check, At, Goto, diskVars, opVars, DiskOK, CacheIsTrue
  <2> QED
    BY <1>0, <2>1, <2>2, <2>3, <2>4
<1>11. ASSUME Point PROVE InstallInv'
  <2>1. DiskOK'
    BY <1>11 DEF Point, At, Settle, Found, diskVars, opVars, DiskOK, Working, Installing
  <2>2. Working'
    BY <1>0, <1>11 DEF Point, At, Settle, Found, diskVars, opVars, DiskOK, Working,
           Installing, Removing
  <2>3. PointerIsWhole'
    BY <1>11 DEF Point, At, Settle, Found, diskVars, opVars, DiskOK, Working, PointerIsWhole
  <2>4. CacheIsTrue'
    BY <1>11 DEF Point, At, Settle, Found, DiskOK, Working, Installing, CacheIsTrue
  <2> QED
    BY <1>0, <2>1, <2>2, <2>3, <2>4
<1>12. ASSUME Guard PROVE InstallInv'
  <2>1. DiskOK'
    BY <1>12 DEF Guard, At, Goto, Settle, diskVars, opVars, DiskOK, Working, Installing
  <2>2. Working'
    BY <1>0, <1>12 DEF Guard, At, Goto, Settle, diskVars, opVars, DiskOK, Working,
           Installing, Removing
  <2>3. PointerIsWhole'
    BY <1>12 DEF Guard, At, Goto, Settle, diskVars, opVars, DiskOK, Working, PointerIsWhole
  <2>4. CacheIsTrue'
    BY <1>12 DEF Guard, At, Goto, Settle, diskVars, opVars, DiskOK, CacheIsTrue
  <2> QED
    BY <1>0, <2>1, <2>2, <2>3, <2>4
<1>13. ASSUME Unlink PROVE InstallInv'
  <2>1. DiskOK'
    BY <1>13 DEF Unlink, At, Goto, diskVars, opVars, DiskOK, Working, Installing
  <2>2. Working'
    BY <1>0, <1>13 DEF Unlink, At, Goto, diskVars, opVars, DiskOK, Working,
           Installing, Removing
  <2>3. PointerIsWhole'
    BY <1>13 DEF Unlink, At, Goto, diskVars, opVars, DiskOK, Working, PointerIsWhole
  <2>4. CacheIsTrue'
    BY <1>13 DEF Unlink, At, Goto, diskVars, opVars, DiskOK, CacheIsTrue
  <2> QED
    BY <1>0, <2>1, <2>2, <2>3, <2>4
<1>14. ASSUME Forget PROVE InstallInv'
  <2>1. DiskOK'
    BY <1>14 DEF Forget, At, Settle, Absent, diskVars, opVars, DiskOK, Working, Installing
  <2>2. Working'
    BY <1>0, <1>14 DEF Forget, At, Settle, Absent, diskVars, opVars, DiskOK, Working,
           Installing, Removing
  <2>3. PointerIsWhole'
    BY <1>14 DEF Forget, At, Settle, Absent, diskVars, opVars, DiskOK, Working, PointerIsWhole
  <2>4. CacheIsTrue'
    BY <1>14 DEF Forget, At, Settle, Absent, diskVars, opVars, DiskOK, CacheIsTrue
  <2> QED
    BY <1>0, <2>1, <2>2, <2>3, <2>4
<1>15. ASSUME NEW r \in Release, Start(r) PROVE InstallInv'
  <2>1. DiskOK'
    BY <1>15 DEF Start, Verdict, Found, Absent, diskVars, opVars, DiskOK, Working, Installing
  <2>2. Working'
    BY <1>0, <1>15 DEF Start, Verdict, Found, Absent, diskVars, opVars, DiskOK, Working,
           Installing, Removing
  <2>3. PointerIsWhole'
    BY <1>15 DEF Start, Verdict, Found, Absent, diskVars, opVars, DiskOK, Working,
       PointerIsWhole
  <2>4. CacheIsTrue'
    BY <1>15 DEF Start, Verdict, Found, Absent, diskVars, opVars, DiskOK, CacheIsTrue
  <2> QED
    BY <1>0, <2>1, <2>2, <2>3, <2>4
<1>16. ASSUME NEW v \in Version, Damage(v) PROVE InstallInv'
  <2>1. DiskOK'
    BY <1>16 DEF Damage, diskVars, opVars, DiskOK, Working, Installing
  <2>2. Working'
    BY <1>0, <1>16 DEF Damage, diskVars, opVars, DiskOK, Working,
           Installing, Removing
  <2>3. PointerIsWhole'
    BY <1>16 DEF Damage, diskVars, opVars, DiskOK, Working, PointerIsWhole
  <2>4. CacheIsTrue'
    BY <1>16 DEF Damage, diskVars, opVars, DiskOK, CacheIsTrue
  <2> QED
    BY <1>0, <2>1, <2>2, <2>3, <2>4
<1>17. ASSUME NEW k \in {"install", "update", "remove"}, Enqueue(k) PROVE InstallInv'
  <2>1. DiskOK'
    BY <1>17 DEF Enqueue, diskVars, opVars, DiskOK, Working, Installing
  <2>2. Working'
    BY <1>0, <1>17 DEF Enqueue, diskVars, opVars, DiskOK, Working,
           Installing, Removing, QueueOK, KindsKept, Operation
  <2>3. PointerIsWhole'
    BY <1>17 DEF Enqueue, diskVars, opVars, DiskOK, Working, PointerIsWhole
  <2>4. CacheIsTrue'
    BY <1>17 DEF Enqueue, diskVars, opVars, DiskOK, CacheIsTrue
  <2> QED
    BY <1>0, <2>1, <2>2, <2>3, <2>4
<1>18. ASSUME NEW i \in DOMAIN op, Begin(i) PROVE InstallInv'
  <2>1. DiskOK'
    BY <1>18 DEF Begin, diskVars, opVars, DiskOK, Working, Installing
  <2>2. Working'
    <3>1. i # 0 /\ op[i] \in Operation
      BY LenProperties, ElementOfSeq DEF QueueOK
    <3>2. op'[i].kind = op[i].kind
      BY <1>0 DEF KindsKept
    <3> QED
      BY <1>18, <3>1, <3>2 DEF Begin, Operation, diskVars, opVars, Working, Installing, Removing
  <2>3. PointerIsWhole'
    BY <1>18 DEF Begin, diskVars, opVars, DiskOK, Working, PointerIsWhole
  <2>4. CacheIsTrue'
    BY <1>18 DEF Begin, diskVars, opVars, Working, Removing, CacheIsTrue
  <2> QED
    BY <1>0, <2>1, <2>2, <2>3, <2>4
<1>19. CASE UNCHANGED vars
  BY <1>19 DEF vars, diskVars, opVars, DiskOK, QueueOK, Working, PointerIsWhole, CacheIsTrue
<1> QED
  BY <1>1, <1>2, <1>3, <1>4, <1>5, <1>6, <1>7, <1>8, <1>9, <1>10, <1>11, <1>12, <1>13, <1>14,
     <1>15, <1>16, <1>17, <1>18, <1>19 DEF Next, Work

(* Theorem.  current.json names a whole version, or one that was damaged or
   misread behind the installer's back. *)
THEOREM ActiveIsWhole == Spec => []PointerIsWhole
<1>1. InstallInv => PointerIsWhole
  BY DEF InstallInv
<1> QED
  BY <1>1, InitInstallInv, NextInstallInv, PTL DEF Spec

(* Theorem.  The daemon's cached state never disagrees with current.json, but
   for the moment between the two steps of a removal. *)
THEOREM CacheAgrees == Spec => []CacheIsTrue
<1>1. InstallInv => CacheIsTrue
  BY DEF InstallInv
<1> QED
  BY <1>1, InitInstallInv, NextInstallInv, PTL DEF Spec

\* A step of the installer is one of AtomicInstall, or leaves what is usable as it is.
LEMMA AtomicStep == InstallInv /\ [Next]_vars => [Promise!Next]_<<Usable, Doing, touched>>
<1> SUFFICES ASSUME InstallInv, [Next]_vars PROVE Promise!Next
  OBVIOUS
<1> USE ConstantsOK DEF InstallInv, DiskOK
<1>1. CASE UNCHANGED <<files, pointer>>
  BY <1>1 DEF Promise!Next, Promise!Keep, Usable
<1>2. ASSUME Crash \/ OtherDaemonCleans \/ Fail \/ Bundle \/ Stage \/ Copy \/ Verify \/ Check
             \/ Guard \/ Forget \/ UNCHANGED vars
      PROVE UNCHANGED <<files, pointer>>
  BY <1>2 DEF Crash, OtherDaemonCleans, Fail, Bundle, Stage, Copy, Verify, Check, Guard, Forget,
              vars, diskVars
<1>3. ASSUME (\E r \in Release : Start(r))
             \/ (\E k \in {"install", "update", "remove"} : Enqueue(k))
             \/ (\E i \in DOMAIN op : Begin(i))
      PROVE UNCHANGED <<files, pointer>>
  BY <1>3 DEF Start, Enqueue, Begin, diskVars
<1>4. ASSUME NEW v \in Version, Damage(v) PROVE Promise!Next
  BY <1>4 DEF Damage, Usable, Promise!Next, Promise!Spoil, Promise!Keep
<1>5. ASSUME MoveAside PROVE Promise!Next
  <2>1. bundled \in Version
    BY <1>5 DEF MoveAside, At, Working, Installing
  <2> QED
    BY <1>5, <2>1 DEF MoveAside, Verdict, Usable, Promise!Next, Promise!Spoil, Promise!Keep
<1>6. ASSUME Put \/ Point PROVE bundled \in Version /\ Doing \in {"install", "update"}
  BY <1>6 DEF Put, Point, At, Working, Installing, Doing, Mine
<1>7. ASSUME Put PROVE Promise!Next
  BY <1>6, <1>7 DEF Put, Usable, Promise!Next, Promise!Switch, Promise!Keep
<1>8. ASSUME Point PROVE Promise!Next
  <2>1. pointer' = bundled /\ files' = files /\ bundled # None
    BY <1>6, <1>8 DEF Point
  <2>2. files[bundled] = "good" \/ bundled \in touched
    BY <1>8 DEF Point, At, Working
  <2>3. Usable' = bundled \/ (bundled \in touched /\ Usable' = None)
    BY <2>1, <2>2 DEF Usable
  <2> QED
    BY <1>6, <1>8, <2>3 DEF Promise!Next, Promise!Switch
<1>9. ASSUME Unlink PROVE Promise!Next
  BY <1>9 DEF Unlink, At, Working, Removing, Doing, Mine, Usable, Promise!Next, Promise!Remove
<1> QED
  BY <1>1, <1>2, <1>3, <1>4, <1>5, <1>7, <1>8, <1>9 DEF Next, Work

(* Theorem.  Installing is atomic (AtomicInstall): the usable version is switched
   at once by an install or an update, and taken away only by a removal or by
   damage from outside; a death at any step leaves it as it is. *)
THEOREM InstallingIsAtomic == Spec => InstallsAtomically
<1>1. Init => Promise!Init
  BY DEF Init, Promise!Init, Usable, Doing
<1> QED
  BY <1>1, InitInstallInv, NextInstallInv, AtomicStep, PTL DEF Spec, InstallsAtomically,
     Promise!Spec

-----------------------------------------------------------------------------
(* The source coordinator.                                                 *)

\* What the type invariant of the module leaves out.
Typed ==
    /\ known \subseteq present /\ present \subseteq Installation
    /\ got \subseteq Installation
    /\ call \in {"idle", "waiting", "ok", "failed"}
    /\ slot \in {"empty", "pending", "resolved"}
    /\ answer \subseteq known
    /\ rescan \in [Rescan -> {"idle", "queued", "running", "done", "refused"}]
    /\ detected \subseteq present /\ todo \subseteq Installation
    /\ visited \subseteq Installation /\ scoped \in 0..MaxScopes
    /\ keys \subseteq Installation /\ handles \in [Installation -> Nat]
    /\ startup \in {"running", "done"} /\ aborted \in BOOLEAN
    /\ disposing \in {"no", "waiting", "done"}
    /\ runPc \in {"idle", "detect", "write", "facets", "next", "index", "capture", "end"}

\* An entry is there exactly as long as somebody waits on it.
Waiting == slot # "empty" <=> call = "waiting"

\* A run belongs to the start-up or to a rescan, and while it is about to
\* capture a scope nobody else can have captured it.
Runs ==
    /\ runPc # "idle" => startup = "running" \/ \E r \in Rescan : rescan[r] = "running"
    /\ runPc \in {"index", "capture"} => scope \in Installation
    /\ runPc = "capture" => scope \notin keys

\* After the abort no run begins, and dispose waits for those there are.
Stopped ==
    /\ disposing # "no" => aborted
    /\ disposing = "done" => QueueEmpty

\* What this run has written is known; its read, executed or answered, has seen
\* that and what was known before, and then it is examined or still to be.
Examines ==
    /\ found \subseteq known
    /\ runPc = "facets" =>
         /\ call \in {"waiting", "ok", "failed"}
         /\ slot = "resolved" => found \subseteq answer
         /\ call = "ok" => found \subseteq got
    /\ runPc \in {"next", "index", "capture"} => found \subseteq todo \cup visited
    /\ RunExaminesItsFinds

\* The inductive invariant of the coordinator.
SourceInv == /\ Typed /\ Waiting /\ Runs /\ Stopped /\ Examines
             /\ OneCapturePerScope /\ NothingOutlivesDispose

\* The start-up run is about to begin and nothing is known.
LEMMA InitSourceInv == SourceInit => SourceInv
<1> SUFFICES ASSUME SourceInit PROVE SourceInv
  OBVIOUS
<1> USE SourceConstantsOK DEF SourceInit, ReadInit
<1>1. Typed
  <2>1. 0 \in 0..MaxScopes /\ handles \in [Installation -> Nat]
    OBVIOUS
  <2>2. rescan \in [Rescan -> {"idle", "queued", "running", "done", "refused"}]
    OBVIOUS
  <2> QED
    BY <2>1, <2>2 DEF Typed
<1>2. Waiting /\ Runs /\ Stopped
  BY DEF Waiting, Runs, Stopped
<1>3. Examines
  BY DEF Examines, RunExaminesItsFinds
<1>4. OneCapturePerScope /\ NothingOutlivesDispose
  BY DEF OneCapturePerScope, NothingOutlivesDispose
<1> QED
  BY <1>1, <1>2, <1>3, <1>4 DEF SourceInv

\* detect() returns what is on the host, or fails.
LEMMA DetectKeeps ==
  ASSUME SourceInv, Detect PROVE SourceInv'
<1> USE SourceConstantsOK DEF SourceInv, Detect,
       readVars, ctlVars, runVars, capVars, RunFrame
<1>1. Typed'
  BY DEF Typed
<1>2. Waiting'
  BY DEF Waiting, Typed
<1>3. Runs'
  BY DEF Runs, Typed
<1>4. Stopped'
  BY DEF Stopped, Typed, Runs, QueueEmpty
<1>5. Examines'
  BY DEF Examines, RunExaminesItsFinds, Typed, Waiting
<1>6. OneCapturePerScope'
  BY DEF OneCapturePerScope, Runs, Typed
<1>7. NothingOutlivesDispose'
  BY DEF NothingOutlivesDispose, Stopped, Runs, QueueEmpty, Typed
<1> QED
  BY <1>1, <1>2, <1>3, <1>4, <1>5, <1>6, <1>7

\* A write that succeeds makes known what it wrote.
LEMMA WriteOneKeeps ==
  ASSUME SourceInv, WriteOne PROVE SourceInv'
<1> USE SourceConstantsOK DEF SourceInv, WriteOne, Resolve,
       readVars, ctlVars, runVars, capVars, RunFrame
<1>1. Typed'
  BY DEF Typed
<1>2. Waiting'
  BY DEF Waiting, Typed
<1>3. Runs'
  BY DEF Runs, Typed
<1>4. Stopped'
  BY DEF Stopped, Typed, Runs, QueueEmpty
<1>5. Examines'
  BY DEF Examines, RunExaminesItsFinds, Typed, Waiting
<1>6. OneCapturePerScope'
  BY DEF OneCapturePerScope, Runs, Typed
<1>7. NothingOutlivesDispose'
  BY DEF NothingOutlivesDispose, Stopped, Runs, QueueEmpty, Typed
<1> QED
  BY <1>1, <1>2, <1>3, <1>4, <1>5, <1>6, <1>7

\* The read the run starts has yet to be executed: no entry was left over.
LEMMA AskKeeps ==
  ASSUME SourceInv, Ask PROVE SourceInv'
<1> USE SourceConstantsOK DEF SourceInv, Ask, Call,
       readVars, ctlVars, runVars, capVars, RunFrame
<1>1. Typed'
  BY DEF Typed
<1>2. Waiting'
  BY DEF Waiting, Typed
<1>3. Runs'
  BY DEF Runs, Typed
<1>4. Stopped'
  BY DEF Stopped, Typed, Runs, QueueEmpty
<1>5. Examines'
  BY DEF Examines, RunExaminesItsFinds, Typed, Waiting
<1>6. OneCapturePerScope'
  BY DEF OneCapturePerScope, Runs, Typed
<1>7. NothingOutlivesDispose'
  BY DEF NothingOutlivesDispose, Stopped, Runs, QueueEmpty, Typed
<1> QED
  BY <1>1, <1>2, <1>3, <1>4, <1>5, <1>6, <1>7

\* The answer holds what the run has written.
LEMMA FacetsKeeps ==
  ASSUME SourceInv, Facets PROVE SourceInv'
<1> USE SourceConstantsOK DEF SourceInv, Facets,
       readVars, ctlVars, runVars, capVars, RunFrame
<1>1. Typed'
  BY DEF Typed, Examines
<1>2. Waiting'
  BY DEF Waiting, Typed
<1>3. Runs'
  BY DEF Runs, Typed
<1>4. Stopped'
  BY DEF Stopped, Typed, Runs, QueueEmpty
<1>5. Examines'
  BY DEF Examines, RunExaminesItsFinds, Typed, Waiting
<1>6. OneCapturePerScope'
  BY DEF OneCapturePerScope, Runs, Typed
<1>7. NothingOutlivesDispose'
  BY DEF NothingOutlivesDispose, Stopped, Runs, QueueEmpty, Typed
<1> QED
  BY <1>1, <1>2, <1>3, <1>4, <1>5, <1>6, <1>7

\* A scope is examined, or deferred, and leaves the list.
LEMMA NextScopeKeeps ==
  ASSUME SourceInv, NextScope PROVE SourceInv'
<1> USE SourceConstantsOK DEF SourceInv, NextScope,
       readVars, ctlVars, runVars, capVars, RunFrame
<1>1. Typed'
  BY DEF Typed
<1>2. Waiting'
  BY DEF Waiting, Typed
<1>3. Runs'
  BY DEF Runs, Typed
<1>4. Stopped'
  BY DEF Stopped, Typed, Runs, QueueEmpty
<1>5. Examines'
  BY DEF Examines, RunExaminesItsFinds, Typed, Waiting
<1>6. OneCapturePerScope'
  BY DEF OneCapturePerScope, Runs, Typed
<1>7. NothingOutlivesDispose'
  BY DEF NothingOutlivesDispose, Stopped, Runs, QueueEmpty, Typed
<1> QED
  BY <1>1, <1>2, <1>3, <1>4, <1>5, <1>6, <1>7

\* Only a scope that nothing captures is about to be captured.
LEMMA IndexedKeeps ==
  ASSUME SourceInv, Indexed PROVE SourceInv'
<1> USE SourceConstantsOK DEF SourceInv, Indexed, NeedsCapture,
       readVars, ctlVars, runVars, capVars, RunFrame
<1>1. Typed'
  BY DEF Typed
<1>2. Waiting'
  BY DEF Waiting, Typed
<1>3. Runs'
  BY DEF Runs, Typed
<1>4. Stopped'
  BY DEF Stopped, Typed, Runs, QueueEmpty
<1>5. Examines'
  BY DEF Examines, RunExaminesItsFinds, Typed, Waiting
<1>6. OneCapturePerScope'
  BY DEF OneCapturePerScope, Runs, Typed
<1>7. NothingOutlivesDispose'
  BY DEF NothingOutlivesDispose, Stopped, Runs, QueueEmpty, Typed
<1> QED
  BY <1>1, <1>2, <1>3, <1>4, <1>5, <1>6, <1>7

\* The key is added with its handle, unless the coordinator was aborted.
LEMMA CaptureKeeps ==
  ASSUME SourceInv, Capture PROVE SourceInv'
<1> USE SourceConstantsOK DEF SourceInv, Capture,
       readVars, ctlVars, runVars, capVars, RunFrame
<1>1. Typed'
  <2>1. scope \in Installation
    BY DEF Runs
  <2>2. handles[scope] + 1 \in Nat
    BY <2>1 DEF Typed
  <2>3. handles' = handles \/ handles' = [handles EXCEPT ![scope] = handles[scope] + 1]
    OBVIOUS
  <2>4. handles' \in [Installation -> Nat]
    BY <2>1, <2>2, <2>3 DEF Typed
  <2> QED
    BY <2>1, <2>4 DEF Typed
<1>2. Waiting'
  BY DEF Waiting, Typed
<1>3. Runs'
  BY DEF Runs, Typed
<1>4. Stopped'
  BY DEF Stopped, Typed, Runs, QueueEmpty
<1>5. Examines'
  BY DEF Examines, RunExaminesItsFinds, Typed, Waiting
<1>6. OneCapturePerScope'
  BY DEF OneCapturePerScope, Runs, Typed
<1>7. NothingOutlivesDispose'
  BY DEF NothingOutlivesDispose, Stopped, Runs, QueueEmpty, Typed
<1> QED
  BY <1>1, <1>2, <1>3, <1>4, <1>5, <1>6, <1>7

\* A run that was not aborted ends once nothing is left to examine.
LEMMA LastStepKeeps ==
  ASSUME SourceInv, LastStep PROVE SourceInv'
<1> USE SourceConstantsOK DEF SourceInv, LastStep,
       readVars, ctlVars, runVars, capVars, RunFrame
<1>1. Typed'
  BY DEF Typed
<1>2. Waiting'
  BY DEF Waiting, Typed
<1>3. Runs'
  BY DEF Runs, Typed
<1>4. Stopped'
  BY DEF Stopped, Typed, Runs, QueueEmpty
<1>5. Examines'
  BY DEF Examines, RunExaminesItsFinds, Typed, Waiting
<1>6. OneCapturePerScope'
  BY DEF OneCapturePerScope, Runs, Typed
<1>7. NothingOutlivesDispose'
  BY DEF NothingOutlivesDispose, Stopped, Runs, QueueEmpty, Typed
<1> QED
  BY <1>1, <1>2, <1>3, <1>4, <1>5, <1>6, <1>7

\* The run ends and leaves no locals.
LEMMA RunEndsKeeps ==
  ASSUME SourceInv, RunEnds PROVE SourceInv'
<1> USE SourceConstantsOK DEF SourceInv, RunEnds, Fresh,
       readVars, ctlVars, runVars, capVars, RunFrame
<1>1. Typed'
  BY DEF Typed
<1>2. Waiting'
  BY DEF Waiting, Typed
<1>3. Runs'
  BY DEF Runs, Typed
<1>4. Stopped'
  BY DEF Stopped, Typed, Runs, QueueEmpty
<1>5. Examines'
  BY DEF Examines, RunExaminesItsFinds, Typed, Waiting
<1>6. OneCapturePerScope'
  BY DEF OneCapturePerScope, Runs, Typed
<1>7. NothingOutlivesDispose'
  BY DEF NothingOutlivesDispose, Stopped, Runs, QueueEmpty, Typed
<1> QED
  BY <1>1, <1>2, <1>3, <1>4, <1>5, <1>6, <1>7

\* The answer is what was executed, and the entry goes.
LEMMA ReplyKeeps ==
  ASSUME SourceInv, Reply /\ UNCHANGED <<present, ctlVars, runVars, capVars>> PROVE SourceInv'
<1> USE SourceConstantsOK DEF SourceInv, Reply, Tell, Forgotten,
       readVars, ctlVars, runVars, capVars, RunFrame
<1>1. Typed'
  BY DEF Typed
<1>2. Waiting'
  BY DEF Waiting, Typed
<1>3. Runs'
  BY DEF Runs, Typed
<1>4. Stopped'
  BY DEF Stopped, Typed, Runs, QueueEmpty
<1>5. Examines'
  BY DEF Examines, RunExaminesItsFinds, Typed, Waiting
<1>6. OneCapturePerScope'
  BY DEF OneCapturePerScope, Runs, Typed
<1>7. NothingOutlivesDispose'
  BY DEF NothingOutlivesDispose, Stopped, Runs, QueueEmpty, Typed
<1> QED
  BY <1>1, <1>2, <1>3, <1>4, <1>5, <1>6, <1>7

\* A read fails, and the entry goes.
LEMMA RefusalKeeps ==
  ASSUME SourceInv, Refusal /\ UNCHANGED <<present, ctlVars, runVars, capVars>> PROVE SourceInv'
<1> USE SourceConstantsOK DEF SourceInv, Refusal, Tell, Forgotten,
       readVars, ctlVars, runVars, capVars, RunFrame
<1>1. Typed'
  BY DEF Typed
<1>2. Waiting'
  BY DEF Waiting, Typed
<1>3. Runs'
  BY DEF Runs, Typed
<1>4. Stopped'
  BY DEF Stopped, Typed, Runs, QueueEmpty
<1>5. Examines'
  BY DEF Examines, RunExaminesItsFinds, Typed, Waiting
<1>6. OneCapturePerScope'
  BY DEF OneCapturePerScope, Runs, Typed
<1>7. NothingOutlivesDispose'
  BY DEF NothingOutlivesDispose, Stopped, Runs, QueueEmpty, Typed
<1> QED
  BY <1>1, <1>2, <1>3, <1>4, <1>5, <1>6, <1>7

\* A read is executed: its answer is what is known by then.
LEMMA ExecuteKeeps ==
  ASSUME SourceInv, Execute /\ UNCHANGED <<present, ctlVars, runVars, capVars>> PROVE SourceInv'
<1> USE SourceConstantsOK DEF SourceInv, Execute,
       readVars, ctlVars, runVars, capVars, RunFrame
<1>1. Typed'
  BY DEF Typed
<1>2. Waiting'
  BY DEF Waiting, Typed
<1>3. Runs'
  BY DEF Runs, Typed
<1>4. Stopped'
  BY DEF Stopped, Typed, Runs, QueueEmpty
<1>5. Examines'
  BY DEF Examines, RunExaminesItsFinds, Typed, Waiting
<1>6. OneCapturePerScope'
  BY DEF OneCapturePerScope, Runs, Typed
<1>7. NothingOutlivesDispose'
  BY DEF NothingOutlivesDispose, Stopped, Runs, QueueEmpty, Typed
<1> QED
  BY <1>1, <1>2, <1>3, <1>4, <1>5, <1>6, <1>7

\* The abort comes before the wait.
LEMMA DisposeKeeps ==
  ASSUME SourceInv, Dispose PROVE SourceInv'
<1> USE SourceConstantsOK DEF SourceInv, Dispose,
       readVars, ctlVars, runVars, capVars, RunFrame
<1>1. Typed'
  BY DEF Typed
<1>2. Waiting'
  BY DEF Waiting, Typed
<1>3. Runs'
  BY DEF Runs, Typed
<1>4. Stopped'
  BY DEF Stopped, Typed, Runs, QueueEmpty
<1>5. Examines'
  BY DEF Examines, RunExaminesItsFinds, Typed, Waiting
<1>6. OneCapturePerScope'
  BY DEF OneCapturePerScope, Runs, Typed
<1>7. NothingOutlivesDispose'
  BY DEF NothingOutlivesDispose, Stopped, Runs, QueueEmpty, Typed
<1> QED
  BY <1>1, <1>2, <1>3, <1>4, <1>5, <1>6, <1>7

\* With the queue empty, the captures are disposed of and none begins.
LEMMA DisposeCapturesKeeps ==
  ASSUME SourceInv, DisposeCaptures PROVE SourceInv'
<1> USE SourceConstantsOK DEF SourceInv, DisposeCaptures, QueueEmpty,
       readVars, ctlVars, runVars, capVars, RunFrame
<1>1. Typed'
  BY DEF Typed
<1>2. Waiting'
  BY DEF Waiting, Typed
<1>3. Runs'
  BY DEF Runs, Typed
<1>4. Stopped'
  BY DEF Stopped, Typed, Runs, QueueEmpty
<1>5. Examines'
  BY DEF Examines, RunExaminesItsFinds, Typed, Waiting
<1>6. OneCapturePerScope'
  BY DEF OneCapturePerScope, Runs, Typed
<1>7. NothingOutlivesDispose'
  BY DEF NothingOutlivesDispose, Stopped, Runs, QueueEmpty, Typed
<1> QED
  BY <1>1, <1>2, <1>3, <1>4, <1>5, <1>6, <1>7

\* An installation appears on the host.
LEMMA AppearKeeps ==
  ASSUME NEW i \in Installation, SourceInv, Appear(i) PROVE SourceInv'
<1> USE SourceConstantsOK DEF SourceInv, Appear,
       readVars, ctlVars, runVars, capVars, RunFrame
<1>1. Typed'
  BY DEF Typed
<1>2. Waiting'
  BY DEF Waiting, Typed
<1>3. Runs'
  BY DEF Runs, Typed
<1>4. Stopped'
  BY DEF Stopped, Typed, Runs, QueueEmpty
<1>5. Examines'
  BY DEF Examines, RunExaminesItsFinds, Typed, Waiting
<1>6. OneCapturePerScope'
  BY DEF OneCapturePerScope, Runs, Typed
<1>7. NothingOutlivesDispose'
  BY DEF NothingOutlivesDispose, Stopped, Runs, QueueEmpty, Typed
<1> QED
  BY <1>1, <1>2, <1>3, <1>4, <1>5, <1>6, <1>7

\* The vault resolves an installation of its own.
LEMMA VaultKeeps ==
  ASSUME NEW i \in Installation, SourceInv, VaultResolves(i) PROVE SourceInv'
<1> USE SourceConstantsOK DEF SourceInv, VaultResolves, Resolve,
       readVars, ctlVars, runVars, capVars, RunFrame
<1>1. Typed'
  BY DEF Typed
<1>2. Waiting'
  BY DEF Waiting, Typed
<1>3. Runs'
  BY DEF Runs, Typed
<1>4. Stopped'
  BY DEF Stopped, Typed, Runs, QueueEmpty
<1>5. Examines'
  BY DEF Examines, RunExaminesItsFinds, Typed, Waiting
<1>6. OneCapturePerScope'
  BY DEF OneCapturePerScope, Runs, Typed
<1>7. NothingOutlivesDispose'
  BY DEF NothingOutlivesDispose, Stopped, Runs, QueueEmpty, Typed
<1> QED
  BY <1>1, <1>2, <1>3, <1>4, <1>5, <1>6, <1>7

\* A rescan is queued, or refused after the abort.
LEMMA AskRescanKeeps ==
  ASSUME NEW r \in Rescan, SourceInv, AskRescan(r) PROVE SourceInv'
<1> USE SourceConstantsOK DEF SourceInv, AskRescan,
       readVars, ctlVars, runVars, capVars, RunFrame
<1>1. Typed'
  BY DEF Typed
<1>2. Waiting'
  BY DEF Waiting, Typed
<1>3. Runs'
  BY DEF Runs, Typed
<1>4. Stopped'
  BY DEF Stopped, Typed, Runs, QueueEmpty
<1>5. Examines'
  BY DEF Examines, RunExaminesItsFinds, Typed, Waiting
<1>6. OneCapturePerScope'
  BY DEF OneCapturePerScope, Runs, Typed
<1>7. NothingOutlivesDispose'
  BY DEF NothingOutlivesDispose, Stopped, Runs, QueueEmpty, Typed
<1> QED
  BY <1>1, <1>2, <1>3, <1>4, <1>5, <1>6, <1>7

\* A rescan begins when no run goes on, and never after the abort.
LEMMA NextRescanKeeps ==
  ASSUME NEW r \in Rescan, SourceInv, NextRescan(r) PROVE SourceInv'
<1> USE SourceConstantsOK DEF SourceInv, NextRescan, Idle, Fresh,
       readVars, ctlVars, runVars, capVars, RunFrame
<1>1. Typed'
  BY DEF Typed
<1>2. Waiting'
  BY DEF Waiting, Typed
<1>3. Runs'
  BY DEF Runs, Typed
<1>4. Stopped'
  BY DEF Stopped, Typed, Runs, QueueEmpty
<1>5. Examines'
  BY DEF Examines, RunExaminesItsFinds, Typed, Waiting
<1>6. OneCapturePerScope'
  BY DEF OneCapturePerScope, Runs, Typed
<1>7. NothingOutlivesDispose'
  BY DEF NothingOutlivesDispose, Stopped, Runs, QueueEmpty, Typed
<1> QED
  BY <1>1, <1>2, <1>3, <1>4, <1>5, <1>6, <1>7

\* Every step keeps the invariant.
LEMMA NextSourceInv == SourceInv /\ [SourceNext]_sourceVars => SourceInv'
<1> SUFFICES ASSUME SourceInv, [SourceNext]_sourceVars PROVE SourceInv'
  OBVIOUS
<1>1. CASE RunStep
  BY <1>1, DetectKeeps, WriteOneKeeps, AskKeeps, FacetsKeeps, NextScopeKeeps, IndexedKeeps,
     CaptureKeeps, LastStepKeeps, RunEndsKeeps DEF RunStep
<1>2. CASE ReadSettles
  BY <1>2, ReplyKeeps, RefusalKeeps, ExecuteKeeps DEF ReadSettles
<1>3. CASE Dispose \/ DisposeCaptures
  BY <1>3, DisposeKeeps, DisposeCapturesKeeps
<1>4. ASSUME NEW i \in Installation, Appear(i) PROVE SourceInv'
  BY <1>4, AppearKeeps
<1>5. ASSUME NEW i \in Installation, VaultResolves(i) PROVE SourceInv'
  BY <1>5, VaultKeeps
<1>6. ASSUME NEW r \in Rescan, AskRescan(r) \/ NextRescan(r) PROVE SourceInv'
  BY <1>6, AskRescanKeeps, NextRescanKeeps
<1>7. CASE UNCHANGED sourceVars
  <2> USE <1>7 DEF sourceVars, readVars, ctlVars, runVars, capVars, SourceInv
  <2>1. Typed' /\ Waiting'
    BY DEF Typed, Waiting
  <2>2. Runs' /\ Stopped'
    BY DEF Runs, Stopped, QueueEmpty
  <2>3. Examines'
    BY DEF Examines, RunExaminesItsFinds
  <2>4. OneCapturePerScope' /\ NothingOutlivesDispose'
    BY DEF OneCapturePerScope, NothingOutlivesDispose
  <2> QED
    BY <2>1, <2>2, <2>3, <2>4
<1> QED
  BY <1>1, <1>2, <1>3, <1>4, <1>5, <1>6, <1>7 DEF SourceNext

\* It always holds.
LEMMA SourceInvariant == SourceSpec => []SourceInv
  BY InitSourceInv, NextSourceInv, PTL DEF SourceSpec

\* What the coordinator and the reads keep is of its type, and no run examines
\* more scopes than its budget.
THEOREM SourceTypeCorrect == SourceSpec => []SourceTypeOK
<1>1. SourceInv => SourceTypeOK
  BY DEF SourceInv, Typed, SourceTypeOK
<1> QED
  BY <1>1, SourceInvariant, PTL

\* No original file is captured twice, however the start-up run and the rescans
\* follow each other (slim-source-coordinator.ts:255-266).
THEOREM NoDoubleCapture == SourceSpec => []OneCapturePerScope
<1>1. SourceInv => OneCapturePerScope
  BY DEF SourceInv
<1> QED
  BY <1>1, SourceInvariant, PTL

\* Once dispose() has returned no capture is left and none begins, whichever
\* awaits the abort fell into (slim-source-coordinator.ts:292-301).
THEOREM DisposeIsFinal == SourceSpec => []NothingOutlivesDispose
<1>1. SourceInv => NothingOutlivesDispose
  BY DEF SourceInv
<1> QED
  BY <1>1, SourceInvariant, PTL

\* A run that gets its list deals with everything it wrote and everything known
\* before it asked, whatever the vault writes meanwhile and however the runs
\* before it ended (slim-source-coordinator.ts:174-247, slim-runtime.ts:81-92).
THEOREM RunsExamineTheirFinds == SourceSpec => []RunExaminesItsFinds
<1>1. SourceInv => RunExaminesItsFinds
  BY DEF SourceInv, Examines
<1> QED
  BY <1>1, SourceInvariant, PTL
=============================================================================
