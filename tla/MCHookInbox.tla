---------------------------- MODULE MCHookInbox -----------------------------
(* Small instances of HookInbox. *)
EXTENDS HookInbox, TLC

CONSTANTS e1, e2, e3

=============================================================================
