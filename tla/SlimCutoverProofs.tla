------------------------- MODULE SlimCutoverProofs --------------------------
(***************************************************************************)
(* For any number of migrations, daemons and writes, and a death anywhere:  *)
(* an activated database is complete, the pointer names it for ever, and    *)
(* daemons open whole databases only.  The arguments rest on the write lock *)
(* of the v38 database: between Freeze and Publish it has one holder.       *)
(***************************************************************************)
EXTENDS SlimCutover, TLAPS

Frozen == {"probe3", "audit", "probe4", "verify", "link", "publish"}

\* Between the freeze and the end of an attempt its migration holds the lock.
Locked == \A m \in Mig : mig[m] \in Frozen <=> lock = m

\* What a migration knows of its copies once they are made, of the old database
\* once its freshness is checked under the lock, and of the pointer.
Prepared ==
    \A m \in Mig :
        /\ mig[m] \in Frozen \cup {"rehearse", "probe2", "freeze"} =>
              staged[m] = backup[m] /\ staged[m] # None
        /\ mig[m] \in {"probe4", "verify", "link", "publish"} => backup[m] = rows
        /\ mig[m] = "stage" => backup[m] # None
        /\ mig[m] \in {"link", "publish"} => pointer = None
        /\ mig[m] = "publish" => installed = m

\* A linked database is whole; who found a pointer still finds it.
Placed ==
    /\ installed # None => staged[installed] # None
    /\ rollback \in {"probe", "write"} => pointer # None
    /\ \A d \in Daemon : db[d] = "installed" => pointer # None

IInv ==
    /\ TypeOK /\ Locked /\ Prepared /\ Placed
    /\ PointerNamesInstalled /\ DaemonsOpenWhole

LEMMA InitIInv == Init => IInv
<1> USE ConstantsOK DEF Init
<1>1. Init => TypeOK
  <2>1. Init => stranded \in BOOLEAN
    OBVIOUS
  <2> QED
    BY <2>1 DEF TypeOK
<1>2. Init => Locked /\ Prepared /\ Placed
  BY DEF Locked, Prepared, Placed, Frozen
<1>3. Init => PointerNamesInstalled /\ DaemonsOpenWhole
  BY DEF PointerNamesInstalled, DaemonsOpenWhole
<1> QED
  BY <1>1, <1>2, <1>3 DEF IInv

\* A rollback changes the mode of the pointer and nothing else.
LEMMA RolledBack ==
    ASSUME TypeOK, Placed, RollbackWrite
    PROVE  /\ pointer' \in Pointer /\ pointer # None /\ pointer' # None
           /\ pointer'.slim = pointer.slim /\ pointer'.mode = "legacy"
<1>1. pointer \in Pointer /\ pointer # None
  BY DEF TypeOK, Placed, RollbackWrite, RollbackStep
<1>2. pointer' = [pointer EXCEPT !.mode = "legacy"]
  BY DEF RollbackWrite
<1>3. pointer' \in Pointer /\ pointer'.slim = pointer.slim /\ pointer'.mode = "legacy"
  BY <1>1, <1>2 DEF Pointer
<1> QED
  BY <1>1, <1>3, ConstantsOK

LEMMA NextIInv == IInv /\ [Next]_vars => IInv'
<1> SUFFICES ASSUME IInv, [Next]_vars PROVE IInv'
  OBVIOUS
<1> USE ConstantsOK DEF IInv, vars, files, actors
<1>1. ASSUME OldStarts PROVE IInv'
  <2>1. TypeOK'
    BY <1>1 DEF OldStarts, PortTaken, TypeOK, Pointer
  <2>2. Locked'
    BY <1>1 DEF OldStarts, PortTaken, TypeOK, Locked, Frozen
  <2>3. Prepared'
    BY <1>1 DEF OldStarts, PortTaken, TypeOK, Locked, Prepared, Frozen
  <2>4. Placed'
    BY <1>1 DEF OldStarts, PortTaken, TypeOK, Prepared, Placed, PointerNamesInstalled, Frozen
  <2>5. PointerNamesInstalled'
    BY <1>1 DEF OldStarts, PortTaken, TypeOK, Prepared, Placed, PointerNamesInstalled, Frozen
  <2>6. DaemonsOpenWhole'
    BY <1>1 DEF OldStarts, PortTaken, TypeOK, Prepared, Placed, PointerNamesInstalled, DaemonsOpenWhole
  <2> QED
    BY <2>1, <2>2, <2>3, <2>4, <2>5, <2>6
<1>2. ASSUME OldStops PROVE IInv'
  <2>1. TypeOK'
    BY <1>2 DEF OldStops, TypeOK, Pointer
  <2>2. Locked'
    BY <1>2 DEF OldStops, TypeOK, Locked, Frozen
  <2>3. Prepared'
    BY <1>2 DEF OldStops, TypeOK, Locked, Prepared, Frozen
  <2>4. Placed'
    BY <1>2 DEF OldStops, TypeOK, Prepared, Placed, PointerNamesInstalled, Frozen
  <2>5. PointerNamesInstalled'
    BY <1>2 DEF OldStops, TypeOK, Prepared, Placed, PointerNamesInstalled, Frozen
  <2>6. DaemonsOpenWhole'
    BY <1>2 DEF OldStops, TypeOK, Prepared, Placed, PointerNamesInstalled, DaemonsOpenWhole
  <2> QED
    BY <2>1, <2>2, <2>3, <2>4, <2>5, <2>6
<1>3. ASSUME OldWrites PROVE IInv'
  <2>1. TypeOK'
    BY <1>3 DEF OldWrites, TypeOK, Pointer
  <2>2. Locked'
    BY <1>3 DEF OldWrites, TypeOK, Locked, Frozen
  <2>3. Prepared'
    BY <1>3 DEF OldWrites, TypeOK, Locked, Prepared, Frozen
  <2>4. Placed'
    BY <1>3 DEF OldWrites, TypeOK, Prepared, Placed, PointerNamesInstalled, Frozen
  <2>5. PointerNamesInstalled'
    BY <1>3 DEF OldWrites, TypeOK, Prepared, Placed, PointerNamesInstalled, Frozen
  <2>6. DaemonsOpenWhole'
    BY <1>3 DEF OldWrites, TypeOK, Prepared, Placed, PointerNamesInstalled, DaemonsOpenWhole
  <2> QED
    BY <2>1, <2>2, <2>3, <2>4, <2>5, <2>6
<1>4. ASSUME RollbackProbe PROVE IInv'
  <2>1. TypeOK'
    BY <1>4 DEF RollbackProbe, RollbackStep, RollbackFrame, TypeOK, Pointer
  <2>2. Locked'
    BY <1>4 DEF RollbackProbe, RollbackStep, RollbackFrame, TypeOK, Locked, Frozen
  <2>3. Prepared'
    BY <1>4 DEF RollbackProbe, RollbackStep, RollbackFrame, TypeOK, Locked, Prepared, Frozen
  <2>4. Placed'
    BY <1>4 DEF RollbackProbe, RollbackStep, RollbackFrame, TypeOK, Prepared, Placed, PointerNamesInstalled, Frozen
  <2>5. PointerNamesInstalled'
    BY <1>4 DEF RollbackProbe, RollbackStep, RollbackFrame, TypeOK, Prepared, Placed, PointerNamesInstalled, Frozen
  <2>6. DaemonsOpenWhole'
    BY <1>4 DEF RollbackProbe, RollbackStep, RollbackFrame, TypeOK, Prepared, Placed, PointerNamesInstalled, DaemonsOpenWhole
  <2> QED
    BY <2>1, <2>2, <2>3, <2>4, <2>5, <2>6
<1>5. ASSUME RollbackRead PROVE IInv'
  <2>1. TypeOK'
    BY <1>5 DEF RollbackRead, RollbackStep, RollbackFrame, TypeOK, Pointer
  <2>2. Locked'
    BY <1>5 DEF RollbackRead, RollbackStep, RollbackFrame, TypeOK, Locked, Frozen
  <2>3. Prepared'
    BY <1>5 DEF RollbackRead, RollbackStep, RollbackFrame, TypeOK, Locked, Prepared, Frozen
  <2>4. Placed'
    BY <1>5 DEF RollbackRead, RollbackStep, RollbackFrame, TypeOK, Prepared, Placed, PointerNamesInstalled, Frozen
  <2>5. PointerNamesInstalled'
    BY <1>5 DEF RollbackRead, RollbackStep, RollbackFrame, TypeOK, Prepared, Placed, PointerNamesInstalled, Frozen
  <2>6. DaemonsOpenWhole'
    BY <1>5 DEF RollbackRead, RollbackStep, RollbackFrame, TypeOK, Prepared, Placed, PointerNamesInstalled, DaemonsOpenWhole
  <2> QED
    BY <2>1, <2>2, <2>3, <2>4, <2>5, <2>6
<1>6. ASSUME RollbackWrite PROVE IInv'
  <2>1. TypeOK'
    BY <1>6, RolledBack DEF RollbackWrite, RollbackStep, RollbackFrame, TypeOK, Pointer
  <2>2. Locked'
    BY <1>6, RolledBack DEF RollbackWrite, RollbackStep, RollbackFrame, TypeOK, Locked, Frozen
  <2>3. Prepared'
    BY <1>6, RolledBack DEF RollbackWrite, RollbackStep, RollbackFrame, TypeOK, Locked, Prepared, Frozen
  <2>4. Placed'
    BY <1>6, RolledBack DEF RollbackWrite, RollbackStep, RollbackFrame, TypeOK, Prepared, Placed, PointerNamesInstalled, Frozen
  <2>5. PointerNamesInstalled'
    BY <1>6, RolledBack DEF RollbackWrite, RollbackStep, RollbackFrame, TypeOK, Prepared, Placed, PointerNamesInstalled, Frozen
  <2>6. DaemonsOpenWhole'
    BY <1>6, RolledBack DEF RollbackWrite, RollbackStep, RollbackFrame, TypeOK, Prepared, Placed, PointerNamesInstalled, DaemonsOpenWhole
  <2> QED
    BY <2>1, <2>2, <2>3, <2>4, <2>5, <2>6
<1>7. ASSUME RollbackFails PROVE IInv'
  <2>1. TypeOK'
    BY <1>7 DEF RollbackFails, RollbackFrame, TypeOK, Pointer
  <2>2. Locked'
    BY <1>7 DEF RollbackFails, RollbackFrame, TypeOK, Locked, Frozen
  <2>3. Prepared'
    BY <1>7 DEF RollbackFails, RollbackFrame, TypeOK, Locked, Prepared, Frozen
  <2>4. Placed'
    BY <1>7 DEF RollbackFails, RollbackFrame, TypeOK, Prepared, Placed, PointerNamesInstalled, Frozen
  <2>5. PointerNamesInstalled'
    BY <1>7 DEF RollbackFails, RollbackFrame, TypeOK, Prepared, Placed, PointerNamesInstalled, Frozen
  <2>6. DaemonsOpenWhole'
    BY <1>7 DEF RollbackFails, RollbackFrame, TypeOK, Prepared, Placed, PointerNamesInstalled, DaemonsOpenWhole
  <2> QED
    BY <2>1, <2>2, <2>3, <2>4, <2>5, <2>6
<1>8. ASSUME NEW m \in Mig, MigDies(m) PROVE IInv'
  <2>1. TypeOK'
    BY <1>8 DEF MigDies, TypeOK, Pointer
  <2>2. Locked'
    BY <1>8 DEF MigDies, TypeOK, Locked, Frozen
  <2>3. Prepared'
    BY <1>8 DEF MigDies, TypeOK, Locked, Prepared, Frozen
  <2>4. Placed'
    BY <1>8 DEF MigDies, TypeOK, Prepared, Placed, PointerNamesInstalled, Frozen
  <2>5. PointerNamesInstalled'
    BY <1>8 DEF MigDies, TypeOK, Prepared, Placed, PointerNamesInstalled, Frozen
  <2>6. DaemonsOpenWhole'
    BY <1>8 DEF MigDies, TypeOK, Prepared, Placed, PointerNamesInstalled, DaemonsOpenWhole
  <2> QED
    BY <2>1, <2>2, <2>3, <2>4, <2>5, <2>6
<1>9. ASSUME NEW m \in Mig, MigFails(m) PROVE IInv'
  <2>1. TypeOK'
    BY <1>9 DEF MigFails, MigFrame, TypeOK, Pointer
  <2>2. Locked'
    BY <1>9 DEF MigFails, MigFrame, TypeOK, Locked, Frozen
  <2>3. Prepared'
    BY <1>9 DEF MigFails, MigFrame, TypeOK, Locked, Prepared, Frozen
  <2>4. Placed'
    BY <1>9 DEF MigFails, MigFrame, TypeOK, Prepared, Placed, PointerNamesInstalled, Frozen
  <2>5. PointerNamesInstalled'
    BY <1>9 DEF MigFails, MigFrame, TypeOK, Prepared, Placed, PointerNamesInstalled, Frozen
  <2>6. DaemonsOpenWhole'
    BY <1>9 DEF MigFails, MigFrame, TypeOK, Prepared, Placed, PointerNamesInstalled, DaemonsOpenWhole
  <2> QED
    BY <2>1, <2>2, <2>3, <2>4, <2>5, <2>6
<1>10. ASSUME NEW m \in Mig, Refuse(m) PROVE IInv'
  <2>1. TypeOK'
    BY <1>10 DEF Refuse, Step, MigFrame, TypeOK, Pointer
  <2>2. Locked'
    BY <1>10 DEF Refuse, Step, MigFrame, TypeOK, Locked, Frozen
  <2>3. Prepared'
    BY <1>10 DEF Refuse, Step, MigFrame, TypeOK, Locked, Prepared, Frozen
  <2>4. Placed'
    BY <1>10 DEF Refuse, Step, MigFrame, TypeOK, Prepared, Placed, PointerNamesInstalled, Frozen
  <2>5. PointerNamesInstalled'
    BY <1>10 DEF Refuse, Step, MigFrame, TypeOK, Prepared, Placed, PointerNamesInstalled, Frozen
  <2>6. DaemonsOpenWhole'
    BY <1>10 DEF Refuse, Step, MigFrame, TypeOK, Prepared, Placed, PointerNamesInstalled, DaemonsOpenWhole
  <2> QED
    BY <2>1, <2>2, <2>3, <2>4, <2>5, <2>6
<1>11. ASSUME NEW m \in Mig, Probe(m) PROVE IInv'
  <2>1. TypeOK'
    BY <1>11 DEF Probe, Step, MigFrame, TypeOK, Pointer
  <2>2. Locked'
    BY <1>11 DEF Probe, Step, MigFrame, TypeOK, Locked, Frozen
  <2>3. Prepared'
    BY <1>11 DEF Probe, Step, MigFrame, TypeOK, Locked, Prepared, Frozen
  <2>4. Placed'
    BY <1>11 DEF Probe, Step, MigFrame, TypeOK, Prepared, Placed, PointerNamesInstalled, Frozen
  <2>5. PointerNamesInstalled'
    BY <1>11 DEF Probe, Step, MigFrame, TypeOK, Prepared, Placed, PointerNamesInstalled, Frozen
  <2>6. DaemonsOpenWhole'
    BY <1>11 DEF Probe, Step, MigFrame, TypeOK, Prepared, Placed, PointerNamesInstalled, DaemonsOpenWhole
  <2> QED
    BY <2>1, <2>2, <2>3, <2>4, <2>5, <2>6
<1>12. ASSUME NEW m \in Mig, Backup(m) PROVE IInv'
  <2>1. TypeOK'
    BY <1>12 DEF Backup, Step, MigFrame, TypeOK, Pointer
  <2>2. Locked'
    BY <1>12 DEF Backup, Step, MigFrame, TypeOK, Locked, Frozen
  <2>3. Prepared'
    BY <1>12 DEF Backup, Step, MigFrame, TypeOK, Locked, Prepared, Frozen
  <2>4. Placed'
    BY <1>12 DEF Backup, Step, MigFrame, TypeOK, Prepared, Placed, PointerNamesInstalled, Frozen
  <2>5. PointerNamesInstalled'
    BY <1>12 DEF Backup, Step, MigFrame, TypeOK, Prepared, Placed, PointerNamesInstalled, Frozen
  <2>6. DaemonsOpenWhole'
    BY <1>12 DEF Backup, Step, MigFrame, TypeOK, Prepared, Placed, PointerNamesInstalled, DaemonsOpenWhole
  <2> QED
    BY <2>1, <2>2, <2>3, <2>4, <2>5, <2>6
<1>13. ASSUME NEW m \in Mig, Stage(m) PROVE IInv'
  <2>1. TypeOK'
    BY <1>13 DEF Stage, Step, MigFrame, TypeOK, Pointer
  <2>2. Locked'
    BY <1>13 DEF Stage, Step, MigFrame, TypeOK, Locked, Frozen
  <2>3. Prepared'
    BY <1>13 DEF Stage, Step, MigFrame, TypeOK, Locked, Prepared, Frozen
  <2>4. Placed'
    BY <1>13 DEF Stage, Step, MigFrame, TypeOK, Prepared, Placed, PointerNamesInstalled, Frozen
  <2>5. PointerNamesInstalled'
    BY <1>13 DEF Stage, Step, MigFrame, TypeOK, Prepared, Placed, PointerNamesInstalled, Frozen
  <2>6. DaemonsOpenWhole'
    BY <1>13 DEF Stage, Step, MigFrame, TypeOK, Prepared, Placed, PointerNamesInstalled, DaemonsOpenWhole
  <2> QED
    BY <2>1, <2>2, <2>3, <2>4, <2>5, <2>6
<1>14. ASSUME NEW m \in Mig, Rehearse(m) PROVE IInv'
  <2>1. TypeOK'
    BY <1>14 DEF Rehearse, Step, MigFrame, Fresh, TypeOK, Pointer
  <2>2. Locked'
    BY <1>14 DEF Rehearse, Step, MigFrame, Fresh, TypeOK, Locked, Frozen
  <2>3. Prepared'
    BY <1>14 DEF Rehearse, Step, MigFrame, Fresh, TypeOK, Locked, Prepared, Frozen
  <2>4. Placed'
    BY <1>14 DEF Rehearse, Step, MigFrame, Fresh, TypeOK, Prepared, Placed, PointerNamesInstalled, Frozen
  <2>5. PointerNamesInstalled'
    BY <1>14 DEF Rehearse, Step, MigFrame, Fresh, TypeOK, Prepared, Placed, PointerNamesInstalled, Frozen
  <2>6. DaemonsOpenWhole'
    BY <1>14 DEF Rehearse, Step, MigFrame, Fresh, TypeOK, Prepared, Placed, PointerNamesInstalled, DaemonsOpenWhole
  <2> QED
    BY <2>1, <2>2, <2>3, <2>4, <2>5, <2>6
<1>15. ASSUME NEW m \in Mig, Freeze(m) PROVE IInv'
  <2>1. TypeOK'
    BY <1>15 DEF Freeze, Step, MigFrame, TypeOK, Pointer
  <2>2. Locked'
    BY <1>15 DEF Freeze, Step, MigFrame, TypeOK, Locked, Frozen
  <2>3. Prepared'
    BY <1>15 DEF Freeze, Step, MigFrame, TypeOK, Locked, Prepared, Frozen
  <2>4. Placed'
    BY <1>15 DEF Freeze, Step, MigFrame, TypeOK, Prepared, Placed, PointerNamesInstalled, Frozen
  <2>5. PointerNamesInstalled'
    BY <1>15 DEF Freeze, Step, MigFrame, TypeOK, Prepared, Placed, PointerNamesInstalled, Frozen
  <2>6. DaemonsOpenWhole'
    BY <1>15 DEF Freeze, Step, MigFrame, TypeOK, Prepared, Placed, PointerNamesInstalled, DaemonsOpenWhole
  <2> QED
    BY <2>1, <2>2, <2>3, <2>4, <2>5, <2>6
<1>16. ASSUME NEW m \in Mig, Audit(m) PROVE IInv'
  <2>1. TypeOK'
    BY <1>16 DEF Audit, Step, MigFrame, Fresh, TypeOK, Pointer
  <2>2. Locked'
    BY <1>16 DEF Audit, Step, MigFrame, Fresh, TypeOK, Locked, Frozen
  <2>3. Prepared'
    BY <1>16 DEF Audit, Step, MigFrame, Fresh, TypeOK, Locked, Prepared, Frozen
  <2>4. Placed'
    BY <1>16 DEF Audit, Step, MigFrame, Fresh, TypeOK, Prepared, Placed, PointerNamesInstalled, Frozen
  <2>5. PointerNamesInstalled'
    BY <1>16 DEF Audit, Step, MigFrame, Fresh, TypeOK, Prepared, Placed, PointerNamesInstalled, Frozen
  <2>6. DaemonsOpenWhole'
    BY <1>16 DEF Audit, Step, MigFrame, Fresh, TypeOK, Prepared, Placed, PointerNamesInstalled, DaemonsOpenWhole
  <2> QED
    BY <2>1, <2>2, <2>3, <2>4, <2>5, <2>6
<1>17. ASSUME NEW m \in Mig, Verify(m) PROVE IInv'
  <2>1. TypeOK'
    BY <1>17 DEF Verify, Step, MigFrame, Fresh, TypeOK, Pointer
  <2>2. Locked'
    BY <1>17 DEF Verify, Step, MigFrame, Fresh, TypeOK, Locked, Frozen
  <2>3. Prepared'
    BY <1>17 DEF Verify, Step, MigFrame, Fresh, TypeOK, Locked, Prepared, Frozen
  <2>4. Placed'
    BY <1>17 DEF Verify, Step, MigFrame, Fresh, TypeOK, Prepared, Placed, PointerNamesInstalled, Frozen
  <2>5. PointerNamesInstalled'
    BY <1>17 DEF Verify, Step, MigFrame, Fresh, TypeOK, Prepared, Placed, PointerNamesInstalled, Frozen
  <2>6. DaemonsOpenWhole'
    BY <1>17 DEF Verify, Step, MigFrame, Fresh, TypeOK, Prepared, Placed, PointerNamesInstalled, DaemonsOpenWhole
  <2> QED
    BY <2>1, <2>2, <2>3, <2>4, <2>5, <2>6
<1>18. ASSUME NEW m \in Mig, Link(m) PROVE IInv'
  <2>1. TypeOK'
    BY <1>18 DEF Link, Step, MigFrame, TypeOK, Pointer
  <2>2. Locked'
    BY <1>18 DEF Link, Step, MigFrame, TypeOK, Locked, Frozen
  <2>3. Prepared'
    BY <1>18 DEF Link, Step, MigFrame, TypeOK, Locked, Prepared, Frozen
  <2>4. Placed'
    BY <1>18 DEF Link, Step, MigFrame, TypeOK, Prepared, Placed, PointerNamesInstalled, Frozen
  <2>5. PointerNamesInstalled'
    BY <1>18 DEF Link, Step, MigFrame, TypeOK, Prepared, Placed, PointerNamesInstalled, Frozen
  <2>6. DaemonsOpenWhole'
    BY <1>18 DEF Link, Step, MigFrame, TypeOK, Prepared, Placed, PointerNamesInstalled, DaemonsOpenWhole
  <2> QED
    BY <2>1, <2>2, <2>3, <2>4, <2>5, <2>6
<1>19. ASSUME NEW m \in Mig, Publish(m) PROVE IInv'
  <2>1. TypeOK'
    BY <1>19 DEF Publish, Step, MigFrame, Active, TypeOK, Pointer
  <2>2. Locked'
    BY <1>19 DEF Publish, Step, MigFrame, Active, TypeOK, Locked, Frozen
  <2>3. Prepared'
    BY <1>19 DEF Publish, Step, MigFrame, Active, TypeOK, Locked, Prepared, Frozen
  <2>4. Placed'
    BY <1>19 DEF Publish, Step, MigFrame, Active, TypeOK, Prepared, Placed, PointerNamesInstalled, Frozen
  <2>5. PointerNamesInstalled'
    <3>1. pointer' \in Pointer /\ pointer'.slim = m /\ pointer' # None
      BY <1>19 DEF Publish, Active, Pointer
    <3>2. installed' = m /\ staged'[m] # None
      BY <1>19 DEF Publish, Step, Prepared, Frozen
    <3>3. \A k \in Mig : mig'[k] = "done" => k = m
      BY <1>19 DEF Publish, Step, Prepared, PointerNamesInstalled, TypeOK
    <3> QED
      BY <3>1, <3>2, <3>3 DEF PointerNamesInstalled
  <2>6. DaemonsOpenWhole'
    BY <1>19 DEF Publish, Step, MigFrame, Active, TypeOK, Prepared, Placed, PointerNamesInstalled, DaemonsOpenWhole
  <2> QED
    BY <2>1, <2>2, <2>3, <2>4, <2>5, <2>6
<1>20. ASSUME NEW m \in Mig, PublishFails(m) PROVE IInv'
  <2>1. TypeOK'
    BY <1>20 DEF PublishFails, Step, MigFrame, TypeOK, Pointer
  <2>2. Locked'
    BY <1>20 DEF PublishFails, Step, MigFrame, TypeOK, Locked, Frozen
  <2>3. Prepared'
    BY <1>20 DEF PublishFails, Step, MigFrame, TypeOK, Locked, Prepared, Frozen
  <2>4. Placed'
    BY <1>20 DEF PublishFails, Step, MigFrame, TypeOK, Prepared, Placed, PointerNamesInstalled, Frozen
  <2>5. PointerNamesInstalled'
    BY <1>20 DEF PublishFails, Step, MigFrame, TypeOK, Prepared, Placed, PointerNamesInstalled, Frozen
  <2>6. DaemonsOpenWhole'
    BY <1>20 DEF PublishFails, Step, MigFrame, TypeOK, Prepared, Placed, PointerNamesInstalled, DaemonsOpenWhole
  <2> QED
    BY <2>1, <2>2, <2>3, <2>4, <2>5, <2>6
<1>21. ASSUME NEW d \in Daemon, DaemonDies(d) PROVE IInv'
  <2>1. TypeOK'
    BY <1>21 DEF DaemonDies, TypeOK, Pointer
  <2>2. Locked'
    BY <1>21 DEF DaemonDies, TypeOK, Locked, Frozen
  <2>3. Prepared'
    BY <1>21 DEF DaemonDies, TypeOK, Locked, Prepared, Frozen
  <2>4. Placed'
    BY <1>21 DEF DaemonDies, TypeOK, Prepared, Placed, PointerNamesInstalled, Frozen
  <2>5. PointerNamesInstalled'
    BY <1>21 DEF DaemonDies, TypeOK, Prepared, Placed, PointerNamesInstalled, Frozen
  <2>6. DaemonsOpenWhole'
    BY <1>21 DEF DaemonDies, TypeOK, Prepared, Placed, PointerNamesInstalled, DaemonsOpenWhole
  <2> QED
    BY <2>1, <2>2, <2>3, <2>4, <2>5, <2>6
<1>22. ASSUME NEW d \in Daemon, ReadPointer(d) PROVE IInv'
  <2>1. TypeOK'
    BY <1>22 DEF ReadPointer, Move, DaemonFrame, Resolved, Healthy, TypeOK, Pointer
  <2>2. Locked'
    BY <1>22 DEF ReadPointer, Move, DaemonFrame, Resolved, Healthy, TypeOK, Locked, Frozen
  <2>3. Prepared'
    BY <1>22 DEF ReadPointer, Move, DaemonFrame, Resolved, Healthy, TypeOK, Locked, Prepared, Frozen
  <2>4. Placed'
    BY <1>22 DEF ReadPointer, Move, DaemonFrame, Resolved, Healthy, TypeOK, Prepared, Placed, PointerNamesInstalled, Frozen
  <2>5. PointerNamesInstalled'
    BY <1>22 DEF ReadPointer, Move, DaemonFrame, Resolved, Healthy, TypeOK, Prepared, Placed, PointerNamesInstalled, Frozen
  <2>6. DaemonsOpenWhole'
    BY <1>22 DEF ReadPointer, Move, DaemonFrame, Resolved, Healthy, TypeOK, Prepared, Placed, PointerNamesInstalled, DaemonsOpenWhole
  <2> QED
    BY <2>1, <2>2, <2>3, <2>4, <2>5, <2>6
<1>23. ASSUME NEW d \in Daemon, OpenOwn(d) PROVE IInv'
  <2>1. TypeOK'
    BY <1>23 DEF OpenOwn, Move, DaemonFrame, Resolved, Healthy, TypeOK, Pointer
  <2>2. Locked'
    BY <1>23 DEF OpenOwn, Move, DaemonFrame, Resolved, Healthy, TypeOK, Locked, Frozen
  <2>3. Prepared'
    BY <1>23 DEF OpenOwn, Move, DaemonFrame, Resolved, Healthy, TypeOK, Locked, Prepared, Frozen
  <2>4. Placed'
    BY <1>23 DEF OpenOwn, Move, DaemonFrame, Resolved, Healthy, TypeOK, Prepared, Placed, PointerNamesInstalled, Frozen
  <2>5. PointerNamesInstalled'
    BY <1>23 DEF OpenOwn, Move, DaemonFrame, Resolved, Healthy, TypeOK, Prepared, Placed, PointerNamesInstalled, Frozen
  <2>6. DaemonsOpenWhole'
    BY <1>23 DEF OpenOwn, Move, DaemonFrame, Resolved, Healthy, TypeOK, Prepared, Placed, PointerNamesInstalled, DaemonsOpenWhole
  <2> QED
    BY <2>1, <2>2, <2>3, <2>4, <2>5, <2>6
<1>24. ASSUME NEW d \in Daemon, FindNothing(d) PROVE IInv'
  <2>1. TypeOK'
    BY <1>24 DEF FindNothing, Move, DaemonFrame, TypeOK, Pointer
  <2>2. Locked'
    BY <1>24 DEF FindNothing, Move, DaemonFrame, TypeOK, Locked, Frozen
  <2>3. Prepared'
    BY <1>24 DEF FindNothing, Move, DaemonFrame, TypeOK, Locked, Prepared, Frozen
  <2>4. Placed'
    BY <1>24 DEF FindNothing, Move, DaemonFrame, TypeOK, Prepared, Placed, PointerNamesInstalled, Frozen
  <2>5. PointerNamesInstalled'
    BY <1>24 DEF FindNothing, Move, DaemonFrame, TypeOK, Prepared, Placed, PointerNamesInstalled, Frozen
  <2>6. DaemonsOpenWhole'
    BY <1>24 DEF FindNothing, Move, DaemonFrame, TypeOK, Prepared, Placed, PointerNamesInstalled, DaemonsOpenWhole
  <2> QED
    BY <2>1, <2>2, <2>3, <2>4, <2>5, <2>6
<1>25. ASSUME NEW d \in Daemon, Reserve(d) PROVE IInv'
  <2>1. TypeOK'
    BY <1>25 DEF Reserve, Move, DaemonFrame, TypeOK, Pointer
  <2>2. Locked'
    BY <1>25 DEF Reserve, Move, DaemonFrame, TypeOK, Locked, Frozen
  <2>3. Prepared'
    BY <1>25 DEF Reserve, Move, DaemonFrame, TypeOK, Locked, Prepared, Frozen
  <2>4. Placed'
    BY <1>25 DEF Reserve, Move, DaemonFrame, TypeOK, Prepared, Placed, PointerNamesInstalled, Frozen
  <2>5. PointerNamesInstalled'
    BY <1>25 DEF Reserve, Move, DaemonFrame, TypeOK, Prepared, Placed, PointerNamesInstalled, Frozen
  <2>6. DaemonsOpenWhole'
    BY <1>25 DEF Reserve, Move, DaemonFrame, TypeOK, Prepared, Placed, PointerNamesInstalled, DaemonsOpenWhole
  <2> QED
    BY <2>1, <2>2, <2>3, <2>4, <2>5, <2>6
<1>26. ASSUME NEW d \in Daemon, Schema(d) PROVE IInv'
  <2>1. TypeOK'
    BY <1>26 DEF Schema, Move, DaemonFrame, Resolved, TypeOK, Pointer
  <2>2. Locked'
    BY <1>26 DEF Schema, Move, DaemonFrame, Resolved, TypeOK, Locked, Frozen
  <2>3. Prepared'
    BY <1>26 DEF Schema, Move, DaemonFrame, Resolved, TypeOK, Locked, Prepared, Frozen
  <2>4. Placed'
    BY <1>26 DEF Schema, Move, DaemonFrame, Resolved, TypeOK, Prepared, Placed, PointerNamesInstalled, Frozen
  <2>5. PointerNamesInstalled'
    BY <1>26 DEF Schema, Move, DaemonFrame, Resolved, TypeOK, Prepared, Placed, PointerNamesInstalled, Frozen
  <2>6. DaemonsOpenWhole'
    BY <1>26 DEF Schema, Move, DaemonFrame, Resolved, TypeOK, Prepared, Placed, PointerNamesInstalled, DaemonsOpenWhole
  <2> QED
    BY <2>1, <2>2, <2>3, <2>4, <2>5, <2>6
<1>27. ASSUME NEW d \in Daemon, Listen(d) PROVE IInv'
  <2>1. TypeOK'
    BY <1>27 DEF Listen, Move, DaemonFrame, TypeOK, Pointer
  <2>2. Locked'
    BY <1>27 DEF Listen, Move, DaemonFrame, TypeOK, Locked, Frozen
  <2>3. Prepared'
    BY <1>27 DEF Listen, Move, DaemonFrame, TypeOK, Locked, Prepared, Frozen
  <2>4. Placed'
    BY <1>27 DEF Listen, Move, DaemonFrame, TypeOK, Prepared, Placed, PointerNamesInstalled, Frozen
  <2>5. PointerNamesInstalled'
    BY <1>27 DEF Listen, Move, DaemonFrame, TypeOK, Prepared, Placed, PointerNamesInstalled, Frozen
  <2>6. DaemonsOpenWhole'
    BY <1>27 DEF Listen, Move, DaemonFrame, TypeOK, Prepared, Placed, PointerNamesInstalled, DaemonsOpenWhole
  <2> QED
    BY <2>1, <2>2, <2>3, <2>4, <2>5, <2>6
<1>28. CASE UNCHANGED vars
  BY <1>28 DEF TypeOK, Locked, Prepared, Placed, PointerNamesInstalled, DaemonsOpenWhole
<1> QED
  BY <1>1, <1>2, <1>3, <1>4, <1>5, <1>6, <1>7, <1>8, <1>9, <1>10, <1>11, <1>12, <1>13, <1>14, <1>15, <1>16, <1>17, <1>18, <1>19, <1>20, <1>21, <1>22, <1>23, <1>24, <1>25, <1>26, <1>27, <1>28 DEF Next

\* A migration publishes what it staged, which is what the old database holds
\* as long as the migration has its lock.
LEMMA ActivationComplete ==
    ASSUME IInv, [Next]_vars, pointer' # pointer, pointer'.mode = "slim"
    PROVE  staged[pointer'.slim] = rows
<1> USE ConstantsOK DEF IInv, vars, files, actors
<1>1. ASSUME NEW m \in Mig, Publish(m) PROVE staged[pointer'.slim] = rows
  BY <1>1 DEF Publish, Step, Active, Prepared, Frozen
<1>2. ~RollbackWrite
  BY RolledBack
<1>3. \E m \in Mig : Publish(m)
  BY <1>2 DEF Next, OldStarts, OldStops, OldWrites, MigDies, MigFails, Refuse,
     Probe, Backup, Stage, Rehearse, Freeze, Audit, Verify, Link, PublishFails,
     RollbackProbe, RollbackRead, RollbackFails, DaemonDies, ReadPointer, OpenOwn,
     FindNothing, Reserve, Schema, Listen, DaemonFrame
<1> QED
  BY <1>1, <1>3

(* Theorem.  A migration never activates a database that lacks a row the old
   daemon had written by then, whoever writes, dies or migrates beside it. *)
THEOREM ActivationIsComplete == Spec => ActivatesEverything
<1>1. IInv /\ [Next]_vars =>
        [pointer' # pointer /\ pointer'.mode = "slim" => staged[pointer'.slim] = rows]_vars
  BY ActivationComplete
<1> QED
  BY <1>1, InitIInv, NextIInv, PTL DEF Spec, ActivatesEverything

(* Theorem.  The pointer names the one database that is linked into place; a
   finished migration is the one it names, so no two of them both succeed. *)
THEOREM OneActivation == Spec => []PointerNamesInstalled
<1>1. IInv => PointerNamesInstalled
  BY DEF IInv
<1> QED
  BY <1>1, InitIInv, NextIInv, PTL DEF Spec

(* Theorem.  No daemon opens a database without the complete schema. *)
THEOREM OnlyWholeOpened == Spec => []DaemonsOpenWhole
<1>1. IInv => DaemonsOpenWhole
  BY DEF IInv
<1> QED
  BY <1>1, InitIInv, NextIInv, PTL DEF Spec

(* Theorem.  A failed migration leaves nothing installed, unless its process
   died or its clean-up failed between link and pointer. *)
THEOREM FailureLeavesTheWayFree == Spec => []RetryPossible
<1>1. Init => RetryPossible
  BY DEF Init, RetryPossible
<1>2. IInv /\ RetryPossible /\ [Next]_vars => RetryPossible'
  <2> SUFFICES ASSUME IInv, RetryPossible, [Next]_vars PROVE RetryPossible'
    OBVIOUS
  <2> USE ConstantsOK DEF IInv, vars, files, actors, RetryPossible
  <2>1. ASSUME NEW m \in Mig,
               MigDies(m) \/ MigFails(m) \/ Refuse(m) \/ Probe(m) \/ Backup(m) \/ Stage(m)
               \/ Rehearse(m) \/ Freeze(m) \/ Audit(m) \/ Verify(m)
        PROVE  RetryPossible'
    BY <2>1 DEF TypeOK, Prepared, MigDies, MigFails, Refuse, Probe, Backup, Stage,
       Rehearse, Freeze, Audit, Verify, Step
  <2>2. ASSUME NEW m \in Mig, Link(m) PROVE RetryPossible'
    BY <2>2 DEF Link, Step, TypeOK
  <2>3. ASSUME NEW m \in Mig, Publish(m) PROVE RetryPossible'
    BY <2>3 DEF Publish, Active, Pointer
  <2>4. ASSUME NEW m \in Mig, PublishFails(m) PROVE RetryPossible'
    BY <2>4 DEF PublishFails, Step, Prepared, TypeOK
  <2>5. ASSUME OldStarts \/ OldStops \/ OldWrites \/ RollbackProbe \/ RollbackRead
               \/ RollbackFails
        PROVE  RetryPossible'
    BY <2>5 DEF OldStarts, OldStops, OldWrites, RollbackProbe, RollbackRead,
       RollbackFails, RollbackFrame
  <2>6. ASSUME RollbackWrite PROVE RetryPossible'
    BY <2>6, RolledBack
  <2>7. ASSUME NEW d \in Daemon,
               DaemonDies(d) \/ ReadPointer(d) \/ OpenOwn(d) \/ FindNothing(d)
               \/ Reserve(d) \/ Schema(d) \/ Listen(d)
        PROVE  RetryPossible'
    BY <2>7 DEF DaemonDies, ReadPointer, OpenOwn, FindNothing, Reserve, Schema,
       Listen, DaemonFrame
  <2>8. CASE UNCHANGED vars
    BY <2>8
  <2> QED
    BY <2>1, <2>2, <2>3, <2>4, <2>5, <2>6, <2>7, <2>8 DEF Next
<1> QED
  BY <1>1, <1>2, InitIInv, NextIInv, PTL DEF Spec
=============================================================================
