---------------------------- MODULE CoherentPage ----------------------------
(***************************************************************************)
(* What the page protocol promises to the sessions of a cluster: one page  *)
(* that many may read or one may change, and that everybody sees as the    *)
(* last change left it.  No instance, message, owner or disk appears here; *)
(* module Dcs is shown to implement it.                                    *)
(***************************************************************************)
EXTENDS DrcLock

CONSTANT Inst

VARIABLES ver,   \* the version of the page, one more for every change
          acc    \* acc[i].mode: how the session of i uses the page, or
                 \* DRC_LOCK_NULL; acc[i].seen: the version it works on

vars == <<ver, acc>>

NoAccess == [mode |-> DRC_LOCK_NULL, seen |-> 0]

Compatible(m, n) == m + n <= DRC_LOCK_EXCLUSIVE

Init ==
    /\ ver = 1
    /\ acc = [i \in Inst |-> NoAccess]

\* The session gets the page: it sees the newest version, and no session of
\* another instance uses the page in a conflicting mode.
Enter(i, mode) ==
    /\ acc[i] = NoAccess
    /\ \A j \in Inst : Compatible(mode, acc[j].mode)
    /\ acc' = [acc EXCEPT ![i] = [mode |-> mode, seen |-> ver]]
    /\ UNCHANGED ver

Leave(i) ==
    /\ acc[i] # NoAccess
    /\ acc' = [acc EXCEPT ![i] = NoAccess]
    /\ UNCHANGED ver

\* The session leaves a changed page behind.
Change(i) ==
    /\ acc[i].mode = DRC_LOCK_EXCLUSIVE
    /\ ver' = ver + 1
    /\ acc' = [acc EXCEPT ![i] = NoAccess]

Next == \E i \in Inst :
    (\E mode \in ReqMode : Enter(i, mode)) \/ Leave(i) \/ Change(i)

Spec == Init /\ [][Next]_vars
=============================================================================
