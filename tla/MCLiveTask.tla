---------------------------- MODULE MCLiveTask -----------------------------
(* The two ends of a live task, each on its own: the service that keeps its *)
(* Worker and its record, and the page that keeps its transcript.  A        *)
(* behaviour is one of one of them.  The service's ends before the dispose, *)
(* which has a run of its own; the page's is followed up to the first of    *)
(* the unguarded races, with two prompts and faults between them.           *)
EXTENDS PiLive, LiveTranscript, TLC

CONSTANTS a, b, p1

VARIABLE end    \* the end that runs

ASSUME PageConstantsOK

\* Prompts and faults together.
MaxEvents == 2

MCInit == end \in {"service", "page"} /\ Init /\ PageInit

MCNext ==
    /\ UNCHANGED end
    /\ \/ /\ end = "service"
          /\ Next
          /\ UNCHANGED pageVars
       \/ /\ end = "page" /\ slips = {}
          /\ PageNext
          /\ issued' + faults' <= MaxEvents
          /\ UNCHANGED vars

MCSpec == MCInit /\ [][MCNext]_<<end, vars, pageVars>>
=============================================================================
