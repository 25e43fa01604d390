---------------------------- MODULE MCHostWork -----------------------------
(* Two components of the daemon that must finish what they began and share  *)
(* no state: the operations on one integration package, and the source      *)
(* coordinator with its shared read.                                        *)
EXTENDS PackageInstall, SourceCoordinator, TLC

CONSTANTS
    v1, v2,            \* package versions
    i1, i2, r1         \* installations, a rescan

VARIABLE part          \* the component that runs

\* An old release, an upgrade to the next version and API, and a release
\* whose bundled package was built for another API.
MCApiOf == (v1 :> 1) @@ (v2 :> 2)
MCRelease == {[bundle |-> v1, api |-> 1], [bundle |-> v2, api |-> 2],
              [bundle |-> v1, api |-> 2]}

MCInit ==
    /\ part \in {"package", "source"}
    /\ Init /\ SourceInit
    /\ part = "source" => release = [bundle |-> v1, api |-> 1]

MCNext ==
    /\ UNCHANGED part
    /\ \/ part = "package" /\ Next /\ UNCHANGED sourceVars
       \/ part = "source" /\ SourceNext /\ UNCHANGED vars

MCvars == <<part, vars, sourceVars>>
IsPackage == part = "package" /\ UNCHANGED <<part, sourceVars>>
IsSource == part = "source" /\ UNCHANGED <<part, vars>>

\* The fairness of the two.
MCSpec ==
    /\ MCInit /\ [][MCNext]_MCvars
    /\ WF_MCvars(IsPackage /\ Work)
    /\ WF_MCvars(IsSource /\ RunStep) /\ WF_MCvars(IsSource /\ ReadSettles)
    /\ WF_MCvars(IsSource /\ DisposeCaptures)
    /\ WF_MCvars(IsSource /\ NextRescan(r1))
=============================================================================
