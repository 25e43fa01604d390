---------------------------- MODULE AtomicInstall ----------------------------
(* What the installer of one package promises, whatever its steps: either no *)
(* usable version is installed or exactly one whole version is; only an      *)
(* install or an update switches to another version, at once and never       *)
(* through a state with nothing usable; only a removal, or files damaged     *)
(* behind the installer's back, takes the usable version away.               *)
CONSTANTS
    Version,    \* the versions ever bundled
    None        \* nothing usable is installed

VARIABLES
    usable,     \* the version that may be loaded
    doing,      \* the operation in progress
    touched     \* the versions whose files somebody else has spoilt

Init == usable = None /\ doing = "idle" /\ touched = {}

\* The new version may have been spoilt just before the switch.
Switch(v) ==
    /\ doing \in {"install", "update"}
    /\ usable' = v \/ (v \in touched /\ usable' = None)
Remove == doing = "remove" /\ usable' = None
Spoil == usable \in touched' /\ usable' = None
\* Operations begin and end, files nobody uses are spoilt or replaced.
Keep == UNCHANGED usable

Next == Remove \/ Spoil \/ Keep \/ \E v \in Version : Switch(v)

Spec == Init /\ [][Next]_<<usable, doing, touched>>
==============================================================================
