----------------------------- MODULE AtomicFile -----------------------------
(***************************************************************************)
(* What a versioned path of a space promises: one register.  Each write    *)
(* gets the next version number and becomes current; a delete leaves the   *)
(* history in place and no version current; a restore makes the newest     *)
(* version current again, with the content it was written with.  Content   *)
(* never changes unless the version number does.                           *)
(***************************************************************************)
EXTENDS Naturals

CONSTANTS Data, NoData

VARIABLES
    top,    \* the newest version number ever given out
    ver,    \* the current version, 0 when the path is deleted or was never written
    val     \* the content of version top

vars == <<top, ver, val>>

Init == top = 0 /\ ver = 0 /\ val = NoData

Write(d) ==
    /\ top' = top + 1
    /\ ver' = top + 1
    /\ val' = d

Remove ==
    /\ ver # 0
    /\ ver' = 0
    /\ UNCHANGED <<top, val>>

Restore ==
    /\ top # 0
    /\ ver' = top
    /\ UNCHANGED <<top, val>>

Next == (\E d \in Data : Write(d)) \/ Remove \/ Restore

Spec == Init /\ [][Next]_vars
=============================================================================
