---------------------------- MODULE MCHostFiles ----------------------------
(* Three components that keep files on the host and share no state: the     *)
(* switch to the slim database, the Hook inbox, and backups.  A behaviour   *)
(* is one of one of them.  The inbox is taken with three archived events,   *)
(* for a client that pages through them; backups with overlapping snapshots *)
(* and with refreshes of one of two sources.                                *)
EXTENDS SlimCutover, HookInbox, LocalBackup, TLC

CONSTANTS
    e1, e2, e3,        \* Hook events
    f1, f2, s1, s2,    \* source files, snapshots
    ca, cb,            \* contents
    m1, m2, d1, d2     \* migrations, daemons

VARIABLE part          \* the component that runs

\* Backups with overlapping snapshots of one file are the instance of the cfg;
\* here are those with refreshes of one of two files. The properties mention
\* variables only and so speak of both.
MCContentOf == 0 :> ca @@ 1 :> cb
Scoped == INSTANCE LocalBackup WITH File <- {f1, f2}, Snap <- {s1}

ASSUME Scoped!BackupConstantsOK

MCInit ==
    /\ part \in {"cutover", "paged", "overlap", "scoped"}
    /\ Init /\ InboxInit
    /\ IF part = "scoped" THEN Scoped!BackupInit ELSE BackupInit
    /\ part # "cutover" => own = "v38"

MCNext ==
    /\ UNCHANGED part
    /\ \/ part = "cutover" /\ Next /\ UNCHANGED <<inboxVars, backupVars>>
       \/ part = "paged" /\ InboxNext /\ UNCHANGED <<vars, backupVars>>
       \/ part = "overlap" /\ BackupNext /\ UNCHANGED <<vars, inboxVars>>
       \/ part = "scoped" /\ Scoped!BackupNext /\ UNCHANGED <<vars, inboxVars>>

MCSpec == MCInit /\ [][MCNext]_<<part, vars, inboxVars, backupVars>>
=============================================================================
