------------------------------ MODULE DrcLock ------------------------------
(***************************************************************************)
(* drc_lock_mode_e: the modes in which an instance holds a global resource *)
(* (dtc_drc.h), ordered so that a larger mode allows more.                 *)
(***************************************************************************)
EXTENDS Naturals

DRC_LOCK_NULL == 0
DRC_LOCK_SHARE == 1
DRC_LOCK_EXCLUSIVE == 2
LockMode == 0 .. 2
ReqMode == {DRC_LOCK_SHARE, DRC_LOCK_EXCLUSIVE}
=============================================================================
