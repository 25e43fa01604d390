--------------------------- MODULE MCDataRuntime ---------------------------
(* Finite workloads for DataRuntime.                                       *)
EXTENDS DataRuntime, TLC

CONSTANTS r1, r2, r3, r4, t1

Do(k, t, after) == [kind |-> k, tx |-> t, after |-> after]
Load(a, b, c, d) == (r1 :> a) @@ (r2 :> b) @@ (r3 :> c) @@ (r4 :> d)

\* An owner writes and commits, and writes on, for all it knows still in its
\* transaction: before the COMMIT, after one that was refused, expired or threw, or
\* after SQLite has answered a statement with a rollback.  And an owner whose COMMIT
\* may throw asks for a ROLLBACK, while somebody else makes a plain write.
TxWorkloads ==
    {Load(Do("begin", t1, {}), Do("call", t1, {r1}), Do("commit", t1, {r2}),
          Do("call", t1, {r2})),
     Load(Do("begin", t1, {}), Do("commit", t1, {r1}), Do("rollback", t1, {r2}),
          Do("call", NoTx, {r1}))}

\* Three concurrent plain calls.
CallWorkloads == {[r \in Req |-> Do("call", NoTx, {})]}
============================================================================
