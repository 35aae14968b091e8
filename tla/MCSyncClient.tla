---------------------------- MODULE MCSyncClient ----------------------------
(* The instances of SyncClient that TLC checks: one directory with commands   *)
(* and a daemon; whatever other clients do happens Elsewhere.                *)
EXTENDS SyncClient

CONSTANTS d1, cli, daemon, a, x
DirOf == [p \in Procs |-> d1]
DefaultRules == [q \in Paths |-> IF q = x THEN "always" ELSE "init-only"]
AllInitOnly == [q \in Paths |-> "init-only"]
TemplateOf == [q \in Paths |-> a]
=============================================================================
