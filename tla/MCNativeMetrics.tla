-------------------------- MODULE MCNativeMetrics --------------------------
EXTENDS NativeMetrics

\* Which sessions have a reader that fails: none, or the one with the most
\* recent activity, which every sweep meets first.
NoPoison == {}
FirstPoison == {1}

\* Every interleaving but those of capture, whose upsert is the indexer's; its
\* throttle only holds one back, its invalidation only takes totals away.  A
\* cooldown ends when it is next asked for, and no sooner.
Asked(s) == First(s) /\ job["auto"].pc = "idle"
IndexerSpec == Init /\ [][/\ Next /\ UNCHANGED observer["capture"]
                          /\ \A s \in Session : CoolsDown(s) => Asked(s)]_vars
=============================================================================
