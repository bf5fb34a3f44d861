------------------------------ MODULE LockRes ------------------------------
(***************************************************************************)
(* drc_master_res_t: the entry that the master of a distributed lock keeps *)
(* for it (dtc_drc.c): the mode granted, the instances that hold it, the   *)
(* request being converted and the queue behind it.  Every operator below  *)
(* runs in one step under the partition lock and the bucket lock.          *)
(* A missing entry is the entry without owners and requests: the code      *)
(* creates the one on first use and treats both alike.                     *)
(***************************************************************************)
EXTENDS DrcLock, Sequences

CONSTANTS Inst,    \* the instances of the cluster
          NoInst   \* CT_INVALID_ID8

ASSUME NoInstAssumption == NoInst \notin Inst

\* g_mode_compatible_matrix.
Compatible(a, b) == a = DRC_LOCK_NULL \/ b = DRC_LOCK_NULL
                    \/ (a = DRC_LOCK_SHARE /\ b = DRC_LOCK_SHARE)

\* g_invalid_req_info: nothing is being converted.
NoReq == [inst |-> NoInst, mode |-> DRC_LOCK_NULL, from |-> << >>]

\* drc_create_lock_res: the entry of a lock nobody holds.
EmptyRes == [mode |-> DRC_LOCK_NULL, granted |-> {}, conv |-> NoReq, q |-> << >>]

\* drc_request_lock_owner, when nothing is converted or when the queued
\* request became the converting one: the instances that have to release
\* the lock first; the requester itself is skipped by the loops of
\* dls_process_ask_master_for_latch and dls_request_lock.
OldOwners(R, i, m) == IF Compatible(m, R.mode) THEN {} ELSE R.granted \ {i}

\* drc_request_lock_owner_add_req_into_cvt_q.
Enqueue(R, req) == [R EXCEPT !.q = Append(@, req)]

\* drc_convert_lock_owner: the next request of the queue is converted.
drc_convert_lock_owner(R) ==
    IF R.q = << >> THEN [R EXCEPT !.conv = NoReq]
    ELSE [R EXCEPT !.conv = Head(R.q), !.q = Tail(R.q)]

\* Mutant: the cancelled request is forgotten, the next one is not converted.
Bug_drc_cancel_lock_owner_request(R, i) ==
    IF R.conv.inst = i THEN [R EXCEPT !.conv = NoReq] ELSE R

\* drc_cancel_lock_owner_request: nothing when another instance is converted.
drc_cancel_lock_owner_request(R, i) ==
    IF R.conv.inst = i THEN drc_convert_lock_owner(R) ELSE R

\* Mutant: the mode is reset while other instances hold the lock.
Bug_dls_clear_granted_map_for_inst(R, i) ==
    [R EXCEPT !.granted = @ \ {i}, !.mode = DRC_LOCK_NULL]

\* dls_clear_granted_map_for_inst: without owners the mode is NULL.
dls_clear_granted_map_for_inst(R, i) ==
    [R EXCEPT !.granted = @ \ {i},
              !.mode = IF R.granted \subseteq {i} THEN DRC_LOCK_NULL ELSE @]

\* The assertions of drc_claim_lock_owner: the claim is the one converted,
\* and who claims a shared lock does not hold it yet.
ClaimFits(R, i, m) == /\ R.conv.inst = i /\ R.conv.mode = m
                      /\ m = DRC_LOCK_SHARE => i \notin R.granted

\* Mutant: the next request of the queue is not converted.
Bug_drc_claim_lock_owner(R, i, m) ==
    [R EXCEPT !.granted = IF m = DRC_LOCK_EXCLUSIVE THEN {i} ELSE @ \union {i},
              !.mode = m, !.conv = NoReq]

\* drc_claim_lock_owner.
drc_claim_lock_owner(R, i, m) ==
    drc_convert_lock_owner(
      [R EXCEPT !.granted = IF m = DRC_LOCK_EXCLUSIVE THEN {i} ELSE @ \union {i},
                !.mode = m])

\* drc_clean_lock_owner_by_part for the instance i that left: the queue is
\* emptied, its conversion cancelled and its grant withdrawn.  A request of
\* another instance that is being converted stays.
drc_clean_lock_owner(R, i) ==
    LET emptied == [R EXCEPT !.q = << >>]
    IN  dls_clear_granted_map_for_inst(drc_cancel_lock_owner_request(emptied, i), i)

\* drc_rcy_lock_res_info: a survivor i reports its mode m to the new master.
\* An entry that disagrees with the report is left as it is.
drc_rcy_lock_res_info(R, i, m) ==
    IF i \in R.granted \/ ~Compatible(m, R.mode) THEN R
    ELSE drc_claim_lock_owner(R, i, m)

\* Mutant: the new master waits for reports and forgets its own mode.
Bug_drc_recovery_lockinfo(R, i, m) == R

\* drc_recovery_lockinfo: the new master i recovers its own mode m.  It
\* creates the entry without looking for the one that an earlier report may
\* have created, and drc_res_map_lookup finds the new one from then on.
drc_recovery_lockinfo(R, i, m) ==
    IF m = DRC_LOCK_NULL THEN R ELSE drc_claim_lock_owner(EmptyRes, i, m)
=============================================================================
