-------------------------------- MODULE Drc --------------------------------
(***************************************************************************)
(* The distributed resource catalogue entry of one page (drc_buf_res_t in  *)
(* pkg/src/cluster/dtc_drc.c), as the master of the page keeps it.         *)
(*                                                                         *)
(* The operators here are the bodies that run under the bucket lock, so    *)
(* each is one atomic change of the entry; module Dcs says who calls them  *)
(* and which messages follow.  They are written for any number of          *)
(* instances.                                                              *)
(***************************************************************************)
EXTENDS DrcLock, Sequences

CONSTANTS Inst,     \* the instances of the cluster
          NoInst    \* CT_INVALID_ID8

ASSUME NoInstAssumption == NoInst \notin Inst

(***************************************************************************)
(* drc_req_info_t: who asks, for which mode, holding which mode, with      *)
(* which page lsn in memory; sn numbers the attempts of an instance and    *)
(* stands for both rsn and req_time, which grow together.                  *)
(***************************************************************************)
ReqInfo == [inst : Inst, mode : ReqMode, curr : LockMode, lsn : Nat, sn : Nat]
NoReq == [inst |-> NoInst, mode |-> DRC_LOCK_NULL, curr |-> DRC_LOCK_NULL,
          lsn |-> 0, sn |-> 0]

(***************************************************************************)
(* drc_buf_res_t.  used = FALSE is "not in the hash map"; pending tells    *)
(* only DRC_RES_PENDING_ACTION (being recycled) from the other values.     *)
(***************************************************************************)
BufRes == [used : BOOLEAN, owner : Inst \cup {NoInst}, mode : LockMode,
           conv : ReqInfo \cup {NoReq}, q : Seq(ReqInfo),
           copies : SUBSET Inst, edp : SUBSET Inst,
           latest : Inst \cup {NoInst}, lsn : Nat, pending : BOOLEAN]
NoRes == [used |-> FALSE, owner |-> NoInst, mode |-> DRC_LOCK_NULL,
          conv |-> NoReq, q |-> <<>>, copies |-> {}, edp |-> {},
          latest |-> NoInst, lsn |-> 0, pending |-> FALSE]

Converting(res) == res.conv # NoReq

\* A first request creates the entry and makes the requester its owner, in
\* the requested mode, without a conversion and so without a later claim.
drc_grant(r) ==
    [NoRes EXCEPT !.used = TRUE, !.owner = r.inst, !.mode = r.mode]

drc_is_retry_request(l, r) == l.inst = r.inst /\ l.mode # r.curr

\* Mutant: the owner may wait behind the request that needs its page.
Bug_drc_check_new_req(res, r) ==
    ~ /\ res.conv.inst = res.owner
      /\ res.mode = DRC_LOCK_SHARE
      /\ res.conv.mode = DRC_LOCK_EXCLUSIVE
      /\ r.inst # res.owner
      /\ r.inst \in res.copies

\* TRUE when the request r may wait behind the request being converted.
drc_check_new_req(res, r) ==
    /\ ~ /\ res.conv.inst = res.owner
         /\ res.mode = DRC_LOCK_SHARE
         /\ res.conv.mode = DRC_LOCK_EXCLUSIVE
         /\ r.inst # res.owner
         /\ r.inst \in res.copies
    /\ ~ (r.inst = res.owner /\ r.inst # res.conv.inst)

\* Positions in convert_q of an earlier request that r repeats.
drc_search_item_by_reqid(res, r) ==
    {k \in DOMAIN res.q : drc_is_retry_request(res.q[k], r)}
First(S) == CHOOSE k \in S : \A n \in S : k <= n

\* The read-only copies that must go before r gets the page exclusively.
CopiesToInvalidate(res, r) == res.copies \ {r.inst, res.owner}

\* The session id is compared too; an instance has one session here.
drc_is_same_claim_request(conv, c) == conv.inst = c.inst /\ conv.mode = c.mode

drc_claim_info_is_invalid(res, c) ==
    \/ c.mode = DRC_LOCK_SHARE /\ res.owner = NoInst
    \/ c.mode = DRC_LOCK_EXCLUSIVE /\ c.edp /\ c.lsn = 0
    \/ c.lsn > 0 /\ c.lsn < res.lsn

\* Mutant: a shared claim is not recorded as a read-only copy.
BugShare_drc_claim_new_page_owner(res, c) ==
    IF c.mode = DRC_LOCK_SHARE THEN [res EXCEPT !.mode = DRC_LOCK_SHARE]
    ELSE [res EXCEPT !.owner = c.inst, !.mode = c.mode, !.copies = {}, !.lsn = c.lsn]

\* Mutant: the early dirty page is set from latest_edp instead of the owner.
BugEdp_drc_claim_new_page_owner(res, c) ==
    IF c.mode = DRC_LOCK_SHARE
    THEN [res EXCEPT !.mode = DRC_LOCK_SHARE, !.copies = @ \cup {c.inst}]
    ELSE [res EXCEPT !.owner = c.inst, !.mode = c.mode, !.copies = {},
                     !.edp = @ \cup (IF c.edp THEN {res.latest} ELSE {})]

\* The owner change a claim makes, before the next request is converted.
drc_claim_new_page_owner(res, c) ==
    LET withLsn(x) == IF c.lsn > 0 THEN [x EXCEPT !.lsn = c.lsn] ELSE x
    IN  IF c.mode <= res.mode /\ res.owner = c.inst
        THEN res
        ELSE IF c.mode = DRC_LOCK_SHARE
        THEN withLsn([res EXCEPT !.mode = DRC_LOCK_SHARE,
                                 !.copies = @ \cup {c.inst}])
        ELSE withLsn([res EXCEPT
               !.owner = c.inst, !.mode = c.mode, !.copies = {},
               !.edp = (@ \ {c.inst}) \cup (IF c.edp THEN {res.owner} ELSE {}),
               !.latest = IF c.edp THEN res.owner ELSE @])

(***************************************************************************)
(* drc_convert_next_request when the first k waiting requests are skipped  *)
(* as timed out and request k + 1 becomes the converting one; when there   *)
(* is none, the entry has no converting request any more.                  *)
(***************************************************************************)
drc_pop_request(res, k) ==
    IF k >= Len(res.q)
    THEN [res EXCEPT !.q = <<>>, !.conv = NoReq]
    ELSE [res EXCEPT !.q = SubSeq(@, k + 2, Len(@)), !.conv = res.q[k + 1]]

\* Only the request now first in the queue is checked against the new
\* converting request; a conflicting one is taken out and answered by an error.
FirstConflicts(res) == Converting(res) /\ res.q # <<>> /\ ~ drc_check_new_req(res, Head(res.q))
drc_check_first_req_in_convert_queue(res) ==
    IF FirstConflicts(res) THEN [res EXCEPT !.q = Tail(@)] ELSE res

\* Mutants: the known early dirty pages, or the converting request, do not
\* keep an entry.
BugEdp_buf_res_is_recyclable(res) == ~ Converting(res)
BugConv_buf_res_is_recyclable(res) == res.edp = {}

buf_res_is_recyclable(res) == ~ Converting(res) /\ res.edp = {}

\* Forget the early dirty pages once lsn is on disk and nothing newer claimed.
drc_clean_edp_info(res, lsn) ==
    IF lsn >= res.lsn THEN [res EXCEPT !.edp = {}, !.latest = NoInst] ELSE res
=============================================================================
