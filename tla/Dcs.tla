-------------------------------- MODULE Dcs --------------------------------
(***************************************************************************)
(* The distributed cache service: how the instances of a cluster share one *)
(* data page (pkg/src/cluster/dtc_dcs.c, dtc_drc.c, dtc_buffer.c,          *)
(* dtc_ckpt.c).  An instance asks the page's master for the page; the      *)
(* master grants it or has the current owner send it; the requester claims *)
(* the ownership; the checkpoint writes the page to the shared disk and    *)
(* has the early dirty pages (EDP) that former owners keep dropped.        *)
(*                                                                         *)
(* One page, any number of instances, one session per instance.  A handler *)
(* that waits for acknowledgements is split where it waits.  Messages are  *)
(* a set: they are neither lost nor duplicated and arrive in any order.    *)
(***************************************************************************)
EXTENDS Drc, BufCtrl, FiniteSets

CONSTANTS Master,        \* the instance that masters the page
          MaxLsn,        \* bound: lsn of the last modification
          Impatient,     \* instances whose requests may time out
          MaxTimeouts,   \* bound: request timeouts of such an instance
          MaxTraffic,    \* bound: checkpoint requests and notices under way
                         \* when a checkpoint prepares the page
          Evictors,      \* instances whose buffer recycling runs
          Flushers,      \* instances whose checkpoint (DBWR) runs
          Recycling,     \* whether the master recycles catalogue entries
          ClaimsOrdered, \* whether an instance's claim reaches the master
                         \* before its later requests
          SlowWrites     \* whether a checkpoint write may last longer than
                         \* the steps of others

ASSUME DcsAssumption ==
    /\ Master \in Inst
    /\ MaxLsn \in Nat /\ MaxTimeouts \in Nat /\ MaxTraffic \in Nat
    /\ Impatient \subseteq Inst /\ Evictors \subseteq Inst /\ Flushers \subseteq Inst
    /\ Recycling \in BOOLEAN /\ ClaimsOrdered \in BOOLEAN
    /\ SlowWrites \in BOOLEAN

VARIABLES res,    \* the catalogue entry of the page on its master
          inv,    \* invalidation rounds the master waits for
          ctrl,   \* the buffer control block on each instance
          ses,    \* the session of each instance that works on the page
          sn,     \* number of timed out requests of each instance
          msgs,   \* messages in flight
          mark,   \* is_marked: lsn of the page copy being written, or 0
          grp,    \* remote_edp_group: checkpoint requests for this owner
          cln,    \* local_edp_clean_group: lsns whose EDP may be dropped
          out,    \* remote_edp_clean_group: written lsns to be announced
          disk,   \* lsn of the page on the shared disk
          hist,   \* hist[v - 1] is the instance that wrote lsn v (the redo)
          panic   \* a knl_panic fired

vars == <<res, inv, ctrl, ses, sn, msgs, mark, grp, cln, out, disk, hist, panic>>

Latest == Len(hist) + 1

(***************************************************************************)
(* Messages.                                                               *)
(***************************************************************************)
Ask(r) == [t |-> "ask", req |-> r]
AskOwner(o, r, retry) == [t |-> "own", to |-> o, req |-> r, retry |-> retry]
Claim(i, mode, edp, lsn) == [t |-> "claim", inst |-> i, mode |-> mode, edp |-> edp, lsn |-> lsn]
Reply(t, r) == [t |-> t, to |-> r.inst, sn |-> r.sn, mode |-> r.mode, flag |-> "page",
                lsn |-> 0, dirty |-> FALSE, rdirty |-> FALSE]
PageReady(r, flag, c) ==
    [Reply("page", r) EXCEPT !.flag = flag, !.lsn = c.lsn, !.dirty = c.dirty, !.rdirty = c.rdirty]
CkptReq(lsn) == [t |-> "ckpt", lsn |-> lsn]
CleanReq(lsn) == [t |-> "clean", lsn |-> lsn]

ReplyType == [t : {"load", "already", "err", "page"}, to : Inst, sn : Nat, mode : ReqMode,
              flag : {"page", "r2x", "need"}, lsn : Nat, dirty : BOOLEAN, rdirty : BOOLEAN]
Msg == [t : {"ask"}, req : ReqInfo]
       \cup [t : {"own"}, to : Inst, req : ReqInfo, retry : BOOLEAN]
       \cup [t : {"claim"}, inst : Inst, mode : ReqMode, edp : BOOLEAN, lsn : Nat]
       \cup ReplyType
       \cup [t : {"ckpt", "clean"}, lsn : Nat]

\* A reply to an attempt its session gave up is discarded by mes_recv.
Live(S) == {m \in S : ~ (m.t \in {"load", "already", "err", "page"} /\ m.sn # sn[m.to])}
Exchange(m, S) == msgs' = (msgs \ {m}) \cup Live(S)
Send(S) == msgs' = msgs \cup Live(S)

(***************************************************************************)
(* An invalidation round: the copies still to be dropped, whether all      *)
(* dropped theirs so far, and what to do next.  kind "ask" and "claim" go  *)
(* on with the conversion of req, "recycle" and "recycled" with the entry, *)
(* whose copies and owner they remember.  self: the round runs in a user   *)
(* session of the master instance.                                         *)
(***************************************************************************)
Round(kind, wait, r, retry, o, self) ==
    [kind |-> kind, wait |-> wait, ok |-> TRUE, req |-> r, retry |-> retry,
     owner |-> o, self |-> self, copies |-> {}]
\* Mutant: a recycled entry's read-only copies are not invalidated.
Bug_RecycleRound(rs) ==
    [Round("recycle", {}, NoReq, FALSE, rs.owner, FALSE) EXCEPT !.copies = rs.copies]

RecycleRound(rs) ==
    [Round("recycle", rs.copies \ {rs.owner}, NoReq, FALSE, rs.owner, FALSE) EXCEPT !.copies = rs.copies]
RoundType == [kind : {"ask", "claim", "recycle", "recycled"}, wait : SUBSET Inst, ok : BOOLEAN,
              req : ReqInfo \cup {NoReq}, retry : BOOLEAN, owner : Inst \cup {NoInst},
              self : BOOLEAN, copies : SUBSET Inst]

\* dcs_notify_owner_for_page: the owner is asked to send the page, a
\* requester that is the owner is told so.
NotifyOwner(o, r, retry) ==
    IF o = r.inst THEN Reply("already", r) ELSE AskOwner(o, r, retry)

\* The page latch is free: no session of instance i is between entering the
\* page and leaving it.
LatchFree(i) == ses[i].st \in {"idle", "sleep"}
\* ckpt_try_latch_ctrl takes the latch shared.
LatchSFree(i) == LatchFree(i) \/ ses[i].mode = DRC_LOCK_SHARE

\* A panic ends its process; what the survivors do then is reform, which is
\* not modelled here.  Unless SlowWrites, a write is over before others go on.
Running == ~ panic /\ (SlowWrites \/ \A i \in Inst : mark[i] = 0)

TypeOK ==
    /\ res \in BufRes
    /\ inv \in SUBSET RoundType
    /\ ctrl \in [Inst -> BufCtrl]
    /\ ses \in [Inst -> [st : {"idle", "sleep", "ask", "got"}, mode : LockMode]]
    /\ sn \in [Inst -> Nat]
    /\ msgs \in SUBSET Msg
    /\ mark \in [Inst -> Nat]
    /\ grp \in [Inst -> SUBSET [lsn : Nat, clean : BOOLEAN]]
    /\ cln \in [Inst -> SUBSET Nat]
    /\ out \in [Inst -> SUBSET Nat]
    /\ disk \in Nat
    /\ hist \in Seq(Inst)
    /\ panic \in BOOLEAN

Init ==
    /\ res = NoRes
    /\ inv = {}
    /\ ctrl = [i \in Inst |-> NoCtrl]
    /\ ses = [i \in Inst |-> [st |-> "idle", mode |-> DRC_LOCK_NULL]]
    /\ sn = [i \in Inst |-> 0]
    /\ msgs = {}
    /\ mark = [i \in Inst |-> 0]
    /\ grp = [i \in Inst |-> {}]
    /\ cln = [i \in Inst |-> {}]
    /\ out = [i \in Inst |-> {}]
    /\ disk = 1
    /\ hist = <<>>
    /\ panic = FALSE

(***************************************************************************)
(* The session of instance i: dtc_read_page.                               *)
(***************************************************************************)
\* Latch the page; its cluster lock mode suffices.
EnterLocal(i, mode) ==
    /\ Running
    /\ ses[i].st = "idle" \/ (ses[i].st = "sleep" /\ mode = ses[i].mode)
    /\ LET c == buf_alloc_ctrl(ctrl[i]) IN
       /\ dcs_local_page_usable(c, mode)
       /\ ctrl' = [ctrl EXCEPT ![i] = c]
    /\ ses' = [ses EXCEPT ![i] = [st |-> "got", mode |-> mode]]
    /\ UNCHANGED <<res, inv, sn, msgs, mark, grp, cln, out, disk, hist, panic>>

\* Latch the page and ask the master for it, keeping the latch meanwhile.
EnterRemote(i, mode) ==
    /\ Running
    /\ ses[i].st = "idle" \/ (ses[i].st = "sleep" /\ mode = ses[i].mode)
    /\ LET c == buf_alloc_ctrl(ctrl[i]) IN
       /\ ~ dcs_local_page_usable(c, mode)
       /\ ctrl' = [ctrl EXCEPT ![i] = c]
       /\ Send({Ask([inst |-> i, mode |-> mode, curr |-> c.lock, lsn |-> c.lsn, sn |-> sn[i]])})
    /\ ses' = [ses EXCEPT ![i] = [st |-> "ask", mode |-> mode]]
    /\ UNCHANGED <<res, inv, sn, mark, grp, cln, out, disk, hist, panic>>

\* The request failed: give the latch back, sleep and try again.
HandleError(i) ==
    \E m \in msgs :
        /\ Running
        /\ m.t = "err" /\ m.to = i /\ ses[i].st = "ask"
        /\ ctrl' = [ctrl EXCEPT ![i] = dtc_buf_request_failed(@)]
        /\ ses' = [ses EXCEPT ![i].st = "sleep"]
        /\ Exchange(m, {})
        /\ UNCHANGED <<res, inv, sn, mark, grp, cln, out, disk, hist, panic>>

\* DCS_WAIT_MSG_TIMEOUT passed without a reply; a late one will be discarded.
\* On the master instance the request itself is a call, and what the master
\* answers itself arrives at once.
RequestTimeout(i) ==
    /\ Running
    /\ i \in Impatient /\ ses[i].st = "ask" /\ sn[i] < MaxTimeouts
    /\ i = Master => /\ \A m \in msgs : ~ (m.t = "ask" /\ m.req.inst = i)
                     /\ \A m \in msgs : ~ (m.t \in {"load", "already"} /\ m.to = i)
                     /\ \A r \in inv : ~ (r.kind = "ask" /\ r.req.inst = i)
    /\ ctrl' = [ctrl EXCEPT ![i] = dtc_buf_request_failed(@)]
    /\ ses' = [ses EXCEPT ![i].st = "sleep"]
    /\ sn' = [sn EXCEPT ![i] = @ + 1]
    /\ msgs' = {m \in msgs : ~ (m.t \in {"load", "already", "err", "page"} /\ m.to = i)}
    /\ UNCHANGED <<res, inv, mark, grp, cln, out, disk, hist, panic>>

\* MES_CMD_MASTER_ACK_NEED_LOAD; no claim follows.
HandleNeedLoad(i) ==
    \E m \in msgs :
        /\ Running
        /\ m.t = "load" /\ m.to = i /\ ses[i].st = "ask"
        /\ ctrl' = [ctrl EXCEPT ![i] = dcs_set_ctrl4granted(@)]
        /\ panic' = (panic \/ CleanEdpPanics(ctrl[i]))
        /\ ses' = [ses EXCEPT ![i].st = "got"]
        /\ Exchange(m, {})
        /\ UNCHANGED <<res, inv, sn, mark, grp, cln, out, disk, hist>>

\* MES_CMD_MASTER_ACK_ALREADY_OWNER.
HandleAlreadyOwner(i) ==
    \E m \in msgs :
        /\ Running
        /\ m.t = "already" /\ m.to = i /\ ses[i].st = "ask"
        /\ LET c == dcs_set_ctrl4already_owner(ctrl[i], m.mode) IN
           /\ ctrl' = [ctrl EXCEPT ![i] = c]
           /\ Exchange(m, {Claim(i, m.mode, FALSE, dtc_get_ctrl_latest_lsn(c))})
        /\ panic' = (panic \/ ctrl[i].edp \/ ses[i].mode > m.mode)
        /\ ses' = [ses EXCEPT ![i].st = "got"]
        /\ UNCHANGED <<res, inv, sn, mark, grp, cln, out, disk, hist>>

\* MES_CMD_PAGE_READY.
HandlePageReady(i) ==
    \E m \in msgs :
        /\ Running
        /\ m.t = "page" /\ m.to = i /\ ses[i].st = "ask"
        /\ LET c == dcs_handle_page_from_owner(ctrl[i], m) IN
           /\ ctrl' = [ctrl EXCEPT ![i] = c]
           /\ Exchange(m, {Claim(i, m.mode, m.dirty, dtc_get_ctrl_latest_lsn(c))})
        /\ panic' = (panic \/ PageFromOwnerPanics(ctrl[i], m) \/ ses[i].mode > m.mode)
        /\ ses' = [ses EXCEPT ![i].st = "got"]
        /\ UNCHANGED <<res, inv, sn, mark, grp, cln, out, disk, hist>>

\* dcs_claim_ownership_l runs in the session: on the master instance the
\* claim, and the round it starts, end before the session goes on.
ClaimMade(i) ==
    i = Master => /\ \A m \in msgs : ~ (m.t = "claim" /\ m.inst = i)
                  /\ \A r \in inv : ~ r.self

\* Load the page if it has to be, use it without a change, unlatch it.
LeavePage(i) ==
    /\ Running
    /\ ses[i].st = "got" /\ ClaimMade(i)
    /\ ctrl' = [ctrl EXCEPT ![i] = dtc_buf_finish(@, disk)]
    /\ ses' = [ses EXCEPT ![i] = [st |-> "idle", mode |-> DRC_LOCK_NULL]]
    /\ UNCHANGED <<res, inv, sn, msgs, mark, grp, cln, out, disk, hist, panic>>

\* The same, with a modification: new lsn, redo, checkpoint queue.
ModifyPage(i) ==
    /\ Running
    /\ ses[i].st = "got" /\ ClaimMade(i)
    /\ ses[i].mode = DRC_LOCK_EXCLUSIVE
    /\ Latest < MaxLsn
    /\ hist' = Append(hist, i)
    /\ ctrl' = [ctrl EXCEPT ![i] = [dtc_buf_finish(@, disk) EXCEPT !.lsn = Latest + 1, !.dirty = TRUE]]
    /\ ses' = [ses EXCEPT ![i] = [st |-> "idle", mode |-> DRC_LOCK_NULL]]
    /\ UNCHANGED <<res, inv, sn, msgs, mark, grp, cln, out, disk, panic>>

\* BUF_CAN_EVICT: buffer recycling drops the block and tells nobody.
CanEvict(i) ==
    ctrl[i].inmem /\ LatchFree(i) /\ BUF_IN_USE_IS_RECYCLABLE(ctrl[i]) /\ mark[i] = 0
Evict(i) ==
    /\ Running
    /\ i \in Evictors /\ CanEvict(i)
    /\ ctrl' = [ctrl EXCEPT ![i] = NoCtrl]
    /\ UNCHANGED <<res, inv, ses, sn, msgs, mark, grp, cln, out, disk, hist, panic>>

(***************************************************************************)
(* The master: drc_request_page_owner and what follows a request of        *)
(* instance i.                                                             *)
(***************************************************************************)
\* The next request of i for the master to handle.
AskOf(i) == {m \in msgs : /\ m.t = "ask" /\ m.req.inst = i
                          /\ (ClaimsOrdered \/ i = Master) =>
                                \A c \in msgs : ~ (c.t = "claim" /\ c.inst = i)}

\* First drop the other read-only copies if r wants the page exclusively,
\* then turn to the owner.
Convert(m, rs, r, retry, kind, self, also) ==
    LET copies == CopiesToInvalidate(rs, r)
    IN  IF copies # {} /\ r.mode = DRC_LOCK_EXCLUSIVE
        THEN /\ inv' = inv \cup {Round(kind, copies, r, retry, rs.owner, self)}
             /\ Exchange(m, also)
        ELSE /\ inv' = inv
             /\ Exchange(m, also \cup {NotifyOwner(rs.owner, r, retry)})

\* No entry: the requester becomes owner and loads the page.
AskGranted(i) ==
    \E m \in AskOf(i) :
        /\ Running
        /\ ~ res.used
        /\ res' = drc_grant(m.req)
        /\ Exchange(m, {Reply("load", m.req)})
        /\ UNCHANGED <<inv, ctrl, ses, sn, mark, grp, cln, out, disk, hist, panic>>

\* The entry is being recycled, the request conflicts, or it is older than
\* the one being converted: answer by an error.
AskRejected(i) ==
    \E m \in AskOf(i) :
        /\ Running
        /\ res.used
        /\ \/ res.pending
           \/ Converting(res) /\ ~ drc_check_new_req(res, m.req)
           \/ Converting(res) /\ drc_is_retry_request(res.conv, m.req) /\ res.conv.sn > m.req.sn
        /\ Exchange(m, {Reply("err", m.req)})
        /\ UNCHANGED <<res, inv, ctrl, ses, sn, mark, grp, cln, out, disk, hist, panic>>

\* Mutant: a request is converted although the entry is being recycled.
Bug_AskConverting(i) ==
    \E m \in AskOf(i) :
        /\ Running
        /\ res.used /\ ~ Converting(res)
        /\ res' = [res EXCEPT !.conv = m.req]
        /\ Convert(m, res, m.req, FALSE, "ask", FALSE, {})
        /\ UNCHANGED <<ctrl, ses, sn, mark, grp, cln, out, disk, hist, panic>>

\* Nothing is being converted: convert this request.
AskConverting(i) ==
    \E m \in AskOf(i) :
        /\ Running
        /\ res.used /\ ~ res.pending /\ ~ Converting(res)
        /\ res' = [res EXCEPT !.conv = m.req]
        /\ Convert(m, res, m.req, FALSE, "ask", FALSE, {})
        /\ panic' = (panic \/ res.q # <<>>)
        /\ UNCHANGED <<ctrl, ses, sn, mark, grp, cln, out, disk, hist>>

\* The request being converted is asked again: convert it anew, in the larger
\* of the two modes, and let the owner send the page again.
AskRetried(i) ==
    \E m \in AskOf(i) :
        /\ Running
        /\ res.used /\ ~ res.pending /\ Converting(res)
        /\ drc_check_new_req(res, m.req)
        /\ drc_is_retry_request(res.conv, m.req) /\ res.conv.sn <= m.req.sn
        /\ LET r == [m.req EXCEPT !.mode = IF res.conv.mode > @ THEN res.conv.mode ELSE @] IN
           /\ res' = [res EXCEPT !.conv = r]
           /\ Convert(m, res, r, TRUE, "ask", FALSE, {})
        /\ UNCHANGED <<ctrl, ses, sn, mark, grp, cln, out, disk, hist, panic>>

\* Another request is being converted: wait in the queue, in the place of an
\* earlier attempt if there is one.
AskQueued(i) ==
    \E m \in AskOf(i) :
        /\ Running
        /\ res.used /\ ~ res.pending /\ Converting(res)
        /\ drc_check_new_req(res, m.req) /\ ~ drc_is_retry_request(res.conv, m.req)
        /\ LET at == drc_search_item_by_reqid(res, m.req) IN
           \/ /\ at = {}
              /\ res' = [res EXCEPT !.q = Append(@, m.req)]
              /\ Exchange(m, {})
           \/ /\ at # {} /\ res.q[First(at)].lsn = m.req.lsn
              /\ res' = [res EXCEPT !.q[First(at)] = m.req]
              /\ Exchange(m, {})
           \/ /\ at # {} /\ res.q[First(at)].lsn # m.req.lsn
              /\ res' = res
              /\ Exchange(m, {Reply("err", m.req)})
        /\ UNCHANGED <<inv, ctrl, ses, sn, mark, grp, cln, out, disk, hist, panic>>

\* drc_claim_page_owner drops a claim that does not fit the request being
\* converted.
ClaimIgnored(c) ==
    \/ ~ res.used \/ ~ Converting(res)
    \/ ~ drc_is_same_claim_request(res.conv, c)
    \/ drc_claim_info_is_invalid(res, c)

ProcClaimIgnored(i) ==
    \E m \in msgs :
        /\ Running
        /\ m.t = "claim" /\ m.inst = i /\ ClaimIgnored(m)
        /\ Exchange(m, {})
        /\ UNCHANGED <<res, inv, ctrl, ses, sn, mark, grp, cln, out, disk, hist, panic>>

\* The claim changes the owner; then the next waiting request that has not
\* timed out is converted, the one behind it checked.
ProcClaim(i) ==
    \E m \in msgs :
        /\ Running
        /\ m.t = "claim" /\ m.inst = i /\ ~ ClaimIgnored(m)
        /\ LET claimed == drc_claim_new_page_owner(res, m) IN
           \E k \in 0 .. Len(res.q) :
             /\ \A n \in 1 .. k : res.q[n].sn # sn[res.q[n].inst]
             /\ LET next == drc_pop_request(claimed, k)
                    refused == IF FirstConflicts(next) THEN {Reply("err", Head(next.q))} ELSE {}
                IN  /\ res' = drc_check_first_req_in_convert_queue(next)
                    /\ IF Converting(next)
                       THEN Convert(m, next, next.conv, FALSE, "claim", i = Master, refused)
                       ELSE inv' = inv /\ Exchange(m, {})
        /\ panic' = (panic \/ res.pending)
        /\ UNCHANGED <<ctrl, ses, sn, mark, grp, cln, out, disk, hist>>

(***************************************************************************)
(* Invalidation of read-only copies, of the owner, and catalogue           *)
(* recycling (dcs_invalidate_readonly_copy, drc_recycle_items).            *)
(***************************************************************************)
\* An instance drops its read-only copy, the master instance first; one that
\* turned out to be exclusive refuses.  A refusal of the master instance
\* itself ends the round, the others are all waited for.
InvalidateCopy(j) ==
    \E r \in inv :
        /\ Running
        /\ r.kind # "recycled" /\ j \in r.wait
        /\ Master \in r.wait => j = Master
        /\ ctrl[j].inmem => LatchFree(j) /\ mark[j] = 0
        /\ LET ok == ctrl[j].inmem => DCS_BUF_CTRL_NOT_OWNER(ctrl[j])
               r1 == [r EXCEPT !.ok = @ /\ ok,
                               !.wait = IF j = Master /\ ~ ok THEN {} ELSE @ \ {j}]
           IN  /\ inv' = (inv \ {r}) \cup {r1}
               /\ ctrl' = [ctrl EXCEPT ![j] = IF @.inmem /\ ok THEN Invalidated(@) ELSE @]
        /\ UNCHANGED <<res, ses, sn, msgs, mark, grp, cln, out, disk, hist, panic>>

\* All copies are gone: forget them and turn to the owner.  After a failure a
\* new request gets an error, the next request after a claim goes on anyway.
RoundDone ==
    \E r \in inv :
        /\ Running
        /\ r.kind \in {"ask", "claim"} /\ r.wait = {}
        /\ res' = IF r.ok THEN [res EXCEPT !.copies = {}] ELSE res
        /\ Send({IF r.ok \/ r.kind = "claim" THEN NotifyOwner(r.owner, r.req, r.retry)
                 ELSE Reply("err", r.req)})
        /\ inv' = inv \ {r}
        /\ UNCHANGED <<ctrl, ses, sn, mark, grp, cln, out, disk, hist, panic>>

RecycleStart ==
    /\ Running
    /\ Recycling /\ res.used /\ ~ res.pending /\ buf_res_is_recyclable(res)
    /\ res' = [res EXCEPT !.pending = TRUE]
    /\ inv' = inv \cup {RecycleRound(res)}
    /\ UNCHANGED <<ctrl, ses, sn, msgs, mark, grp, cln, out, disk, hist, panic>>

\* The copies are gone: the owner gives up a page that it could evict.
RecycleOwner ==
    \E r \in inv :
        /\ Running
        /\ r.kind = "recycle" /\ r.wait = {} /\ r.ok
        /\ LET c == ctrl[r.owner]
               ok == \/ ~ c.inmem
                     \/ CanEvict(r.owner) /\ (c.lock = DRC_LOCK_NULL \/ DCS_BUF_CTRL_IS_OWNER(c))
           IN  /\ inv' = (inv \ {r}) \cup {[r EXCEPT !.kind = "recycled", !.ok = ok]}
               /\ ctrl' = [ctrl EXCEPT ![r.owner] =
                             IF ok /\ c.lock # DRC_LOCK_NULL THEN Invalidated(c) ELSE c]
        /\ UNCHANGED <<res, ses, sn, msgs, mark, grp, cln, out, disk, hist, panic>>

\* The entry goes if every holder gave up the page, else it stays as it was.
RecycleDone ==
    \E r \in inv :
        /\ Running
        /\ r.wait = {}
        /\ r.kind = "recycled" \/ (r.kind = "recycle" /\ ~ r.ok)
        /\ inv' = inv \ {r}
        /\ res' = IF r.ok THEN NoRes ELSE [res EXCEPT !.pending = FALSE]
        /\ panic' = (panic \/ ~ (res.pending /\ buf_res_is_recyclable(res)
                               /\ r.owner = res.owner /\ r.copies = res.copies))
        /\ UNCHANGED <<ctrl, ses, sn, msgs, mark, grp, cln, out, disk, hist>>

(***************************************************************************)
(* The owner: dcs_owner_transfer_page.                                     *)
(***************************************************************************)
\* dcs_read_local_page4transfer and the checks after it refuse the request.
TransferRefused(c, m) ==
    \/ c.load = "failed" /\ m.req.lsn > c.lsn
    \/ ~ DCS_BUF_CTRL_IS_OWNER(c) /\ ~ m.retry
    \/ m.req.curr = DRC_LOCK_EXCLUSIVE
    \/ /\ m.req.curr = DRC_LOCK_SHARE /\ m.req.mode = DRC_LOCK_EXCLUSIVE
       /\ c.lock # DRC_LOCK_SHARE /\ ~ m.retry
    \/ m.req.lsn > c.lsn

\* The page cannot be given from memory and the disk is said to have it.
TransferFromDisk(o) ==
    ~ ctrl[o].inmem
      \/ (ctrl[o].load = "failed" /\ BUF_IN_USE_IS_RECYCLABLE(ctrl[o]) /\ mark[o] = 0)

OwnerTransfer(o) ==
    \E m \in msgs :
        /\ Running
        /\ m.t = "own" /\ m.to = o
        /\ ctrl[o].inmem => LatchFree(o) /\ (m.req.mode = DRC_LOCK_EXCLUSIVE => mark[o] = 0)
        /\ \/ /\ TransferFromDisk(o)
              /\ Exchange(m, {PageReady(m.req, "need", ctrl[o])})
              /\ ctrl' = [ctrl EXCEPT ![o] = OwnerAfterTransfer(@, m.req.mode)]
           \/ /\ ~ TransferFromDisk(o) /\ TransferRefused(ctrl[o], m)
              /\ Exchange(m, {Reply("err", m.req)})
              /\ ctrl' = ctrl
           \/ /\ ~ TransferFromDisk(o) /\ ~ TransferRefused(ctrl[o], m)
              /\ LET r2x == m.req.curr = DRC_LOCK_SHARE /\ m.req.mode = DRC_LOCK_EXCLUSIVE
                 IN  Exchange(m, {PageReady(m.req, IF r2x THEN "r2x" ELSE "page", ctrl[o])})
              /\ ctrl' = [ctrl EXCEPT ![o] = OwnerAfterTransfer(@, m.req.mode)]
        /\ UNCHANGED <<res, inv, ses, sn, mark, grp, cln, out, disk, hist, panic>>

(***************************************************************************)
(* The checkpoint of instance i (dtc_ckpt.c, knl_ckpt.c) and the master's  *)
(* part in it.                                                             *)
(***************************************************************************)
\* buf_try_latch_ckpt_page.
CkptLatch(i) == LatchSFree(i) /\ ctrl[i].load # "need"

\* dcs_ckpt_remote_edp_prepare: a former owner asked that the page be
\* written; lsn is the one of its early dirty page.
CkptRemotePrepare(i) ==
    /\ Running
    /\ i \in Flushers
    /\ \E g \in grp[i] :
        LET c == IF g.clean /\ ctrl[i].edp /\ g.lsn >= ctrl[i].lsn
                 THEN dcs_buf_clean_ctrl_edp(ctrl[i]) ELSE ctrl[i]
        IN
        /\ grp' = [grp EXCEPT ![i] = @ \ {g}]
        /\ \/ /\ ~ ctrl[i].inmem /\ mark[i] = 0
              /\ out' = [out EXCEPT ![i] = @ \cup {g.lsn}]
              /\ UNCHANGED <<ctrl, mark, panic>>
           \/ /\ ctrl[i].inmem /\ CkptLatch(i)
              /\ mark[i] # 0 \/ c.edp \/ ~ DCS_BUF_CTRL_IS_OWNER(c) \/ g.lsn > c.lsn
              /\ ctrl' = [ctrl EXCEPT ![i] = c]
              /\ panic' = (panic \/ (c # ctrl[i] /\ CleanEdpPanics(ctrl[i])))
              /\ UNCHANGED <<out, mark>>
           \/ /\ ctrl[i].inmem /\ CkptLatch(i)
              /\ mark[i] = 0 /\ ~ c.edp /\ DCS_BUF_CTRL_IS_OWNER(c) /\ g.lsn <= c.lsn
              /\ out' = [out EXCEPT ![i] = @ \cup {c.lsn}]
              /\ mark' = [mark EXCEPT ![i] = c.lsn]
              /\ ctrl' = [ctrl EXCEPT ![i] = CkptCopied(c)]
              /\ panic' = (panic \/ (c # ctrl[i] /\ CleanEdpPanics(ctrl[i])))
        /\ UNCHANGED <<res, inv, ses, sn, msgs, cln, disk, hist>>

\* Mutant: an early dirty page is dropped whatever lsn was announced.
Bug_CkptCleanLocal(i) ==
    /\ Running
    /\ i \in Flushers
    /\ ctrl[i].inmem => CkptLatch(i)
    /\ \E l \in cln[i] : cln' = [cln EXCEPT ![i] = @ \ {l}]
    /\ ctrl' = [ctrl EXCEPT ![i] = dcs_buf_clean_ctrl_edp(@)]
    /\ UNCHANGED <<res, inv, ses, sn, msgs, mark, grp, out, disk, hist, panic>>

\* buf_clean_edp: lsn is said to be on disk, so an early dirty page that is
\* not newer is dropped.  No code announces an invalid lsn, so the branch that
\* reads the lsn from disk instead is never taken and left out.
CkptCleanLocal(i) ==
    /\ Running
    /\ i \in Flushers
    /\ ctrl[i].inmem => CkptLatch(i)
    /\ \E l \in cln[i] :
        LET clean == ctrl[i].edp /\ l >= ctrl[i].lsn IN
        /\ cln' = [cln EXCEPT ![i] = @ \ {l}]
        /\ ctrl' = [ctrl EXCEPT ![i] = IF clean THEN dcs_buf_clean_ctrl_edp(@) ELSE @]
        /\ panic' = (panic \/ (clean /\ CleanEdpPanics(ctrl[i])))
        /\ UNCHANGED <<res, inv, ses, sn, msgs, mark, grp, out, disk, hist>>

Traffic == {<<m, Master>> : m \in {x \in msgs : x.t \in {"ckpt", "clean"}}}
           \cup UNION {{<<g, i>> : g \in grp[i]} : i \in Inst}
           \cup UNION {{<<[done |-> l], i>> : l \in out[i]} : i \in Inst}
           \cup UNION {{<<[clean |-> l], i>> : l \in cln[i]} : i \in Inst}

\* ckpt_prepare_normal: an early dirty page is not written, its owner is asked
\* to; the owner's page is copied into the write group unless it is in it.
CkptPrepareNormal(i) ==
    /\ Running
    /\ i \in Flushers
    /\ ctrl[i].dirty /\ CkptLatch(i) /\ Cardinality(Traffic) < MaxTraffic
    /\ \/ /\ ctrl[i].edp
          /\ panic' = (panic \/ ~ DCS_BUF_CTRL_NOT_OWNER(ctrl[i]))
          /\ Send({CkptReq(ctrl[i].lsn)})
          /\ UNCHANGED <<ctrl, mark, out>>
       \/ /\ ~ ctrl[i].edp
          /\ panic' = (panic \/ ~ DCS_BUF_CTRL_IS_OWNER(ctrl[i]))
          /\ out' = [out EXCEPT ![i] = @ \cup (IF ctrl[i].rdirty THEN {ctrl[i].lsn} ELSE {})]
          /\ mark' = [mark EXCEPT ![i] = IF @ = 0 THEN ctrl[i].lsn ELSE @]
          /\ ctrl' = [ctrl EXCEPT ![i] = IF mark[i] = 0 THEN CkptCopied(@) ELSE @]
          /\ UNCHANGED msgs
    /\ UNCHANGED <<res, inv, ses, sn, grp, cln, disk, hist>>

\* ckpt_flush_pages.
CkptWrite(i) ==
    /\ ~ panic /\ mark[i] # 0
    /\ disk' = mark[i]
    /\ mark' = [mark EXCEPT ![i] = 0]
    /\ UNCHANGED <<res, inv, ctrl, ses, sn, msgs, grp, cln, out, hist, panic>>

\* dcs_master_clean_edp; dbwr: in the checkpoint thread of the master
\* instance.  With no early dirty page known everyone is told again.
MasterClean(l, dbwr) ==
    IF ~ res.used \/ (dbwr /\ Master \in res.edp) \/ res.lsn > l
    THEN UNCHANGED <<res, cln>>
    ELSE LET to == (IF res.edp = {} THEN Inst ELSE res.edp) \ (IF dbwr THEN {Master} ELSE {})
         IN  /\ cln' = [j \in Inst |-> IF j \in to THEN cln[j] \cup {l} ELSE cln[j]]
             /\ res' = drc_clean_edp_info(res, l)

\* dcs_clean_edp, once the group is on disk.
CkptAnnounce(i) ==
    /\ Running
    /\ mark[i] = 0
    /\ \E l \in out[i] :
        /\ out' = [out EXCEPT ![i] = @ \ {l}]
        /\ IF i = Master
           THEN MasterClean(l, TRUE) /\ UNCHANGED msgs
           ELSE Send({CleanReq(l)}) /\ UNCHANGED <<res, cln>>
        /\ UNCHANGED <<inv, ctrl, ses, sn, mark, grp, disk, hist, panic>>

\* dcs_process_notify_master_clean_edp_req.
ProcCleanReq ==
    \E m \in msgs :
        /\ Running
        /\ m.t = "clean"
        /\ MasterClean(m.lsn, FALSE)
        /\ Exchange(m, {})
        /\ UNCHANGED <<inv, ctrl, ses, sn, mark, grp, out, disk, hist, panic>>

\* dcs_notify_owner_for_ckpt_l: pass the request to the owner; without an
\* entry tell everyone to clean.
ProcCkptReq ==
    \E m \in msgs :
        /\ Running
        /\ m.t = "ckpt"
        /\ Exchange(m, {})
        /\ LET to == IF res.used THEN {res.owner} ELSE Inst
               g == [lsn |-> m.lsn, clean |-> ~ res.used]
           IN  grp' = [j \in Inst |-> IF j \in to THEN grp[j] \cup {g} ELSE grp[j]]
        /\ UNCHANGED <<res, inv, ctrl, ses, sn, mark, cln, out, disk, hist, panic>>

-----------------------------------------------------------------------------
Session(i) == \/ \E mode \in ReqMode : EnterLocal(i, mode) \/ EnterRemote(i, mode)
              \/ ModifyPage(i) \/ RequestTimeout(i) \/ Evict(i)
Answer(i) == HandleError(i) \/ HandleNeedLoad(i) \/ HandleAlreadyOwner(i) \/ HandlePageReady(i)
MasterAsk(i) == \/ AskGranted(i) \/ AskRejected(i) \/ AskConverting(i)
                \/ AskRetried(i) \/ AskQueued(i)
MasterClaim(i) == ProcClaim(i) \/ ProcClaimIgnored(i)
Recycle == RecycleStart \/ RecycleOwner \/ RecycleDone
Ckpt(i) == CkptRemotePrepare(i) \/ CkptCleanLocal(i) \/ CkptPrepareNormal(i) \/ CkptAnnounce(i)
NodeStep(i) == \/ Session(i) \/ Answer(i) \/ LeavePage(i)
               \/ MasterAsk(i) \/ MasterClaim(i)
               \/ InvalidateCopy(i) \/ OwnerTransfer(i) \/ Ckpt(i)

Next == \/ \E i \in Inst : NodeStep(i) \/ CkptWrite(i)
        \/ RoundDone \/ Recycle \/ ProcCkptReq \/ ProcCleanReq

Spec == Init /\ [][Next]_vars

\* Every message is handled, every latch given back and every started write
\* done; nobody has to ask for a page, and no checkpoint has to start.  The
\* page latch favours a waiter over later readers (LATCH_STATUS_IX), so one
\* that waits for it while sessions come and go gets it: strong fairness.
Fairness ==
    /\ \A i \in Inst :
          /\ WF_vars(Answer(i)) /\ WF_vars(LeavePage(i))
          /\ WF_vars(MasterAsk(i)) /\ WF_vars(MasterClaim(i))
          /\ SF_vars(InvalidateCopy(i)) /\ SF_vars(OwnerTransfer(i))
          /\ WF_vars(CkptWrite(i))
    /\ WF_vars(RoundDone) /\ WF_vars(RecycleOwner) /\ WF_vars(RecycleDone)
FairSpec == Spec /\ Fairness

-----------------------------------------------------------------------------
(***************************************************************************)
(* Properties.                                                             *)
(***************************************************************************)
Using(i, mode) == ses[i].st = "got" /\ ses[i].mode = mode

\* SingleWriter: while a session uses the page exclusively, no session of
\* another instance uses it, whatever requests, transfers, claims and
\* invalidations are in flight (dcs_request_page, dcs_owner_transfer_page).
SingleWriter ==
    \A i, j \in Inst : i # j /\ Using(i, DRC_LOCK_EXCLUSIVE) => ses[j].st # "got"

\* The lsn of the page that the session of i works on: the page in memory, or
\* the disk page that it is about to load.
Seen(i) == IF ctrl[i].load = "need" THEN disk ELSE ctrl[i].lsn

\* Fresh: a session that got the page sees every change made before
\* (dcs_handle_page_from_owner, dcs_set_ctrl4granted, dtc_buf_finish).
Fresh == \A i \in Inst : ses[i].st = "got" => Seen(i) = Latest

Access(i) == IF ses[i].st = "got" THEN [mode |-> ses[i].mode, seen |-> Seen(i)]
             ELSE [mode |-> DRC_LOCK_NULL, seen |-> 0]
Page == INSTANCE CoherentPage WITH ver <- Latest, acc <- [i \in Inst |-> Access(i)]

\* Coherent: for its sessions the cluster is one page that many read or one
\* changes: getting the page, by the local lock, a grant, a transfer or a
\* disk load, is getting its newest version without a conflict, and what a
\* session has got does not change under it (dtc_read_page, dtc_buf_finish).
Coherent == Page!Spec

\* RedoKept: a change that is not on disk is still dirty, or being written, on
\* the instance whose redo has it, so that the instance's checkpoint does not
\* move its recovery point past that redo (dcs_buf_clean_ctrl_edp).
RedoKept ==
    \A v \in (disk + 1) .. Latest :
        ctrl[hist[v - 1]].dirty \/ mark[hist[v - 1]] >= v

\* DirCovers: an instance that may use the page without asking is known to
\* the master: as owner, as holder of a copy, or as the request converted.
DirCovers ==
    \A i \in Inst : ctrl[i].lock # DRC_LOCK_NULL =>
        res.used /\ (i = res.owner \/ i \in res.copies \/ i = res.conv.inst)

\* NoPanic: none of the knl_panic checks of the modelled handlers fires.
NoPanic == ~ panic

\* NewestKept: the newest page is never lost.  Though a slow write may land
\* over a newer page on the shared disk, the newest one is on disk with no
\* older write pending, or being written, or on its way to a new owner that
\* will write it, or in the block of an instance that will write it
\* (ckpt_prepare_normal, dcs_ckpt_remote_edp_prepare, ckpt_flush_pages,
\* dcs_handle_page_from_owner).
NewestKept ==
    \/ \E m \in msgs : /\ m.t = "page" /\ m.mode = DRC_LOCK_EXCLUSIVE
                       /\ m.dirty \/ m.rdirty
    \/ \E i \in Inst : /\ ctrl[i].lsn = Latest /\ ctrl[i].load = "loaded"
                       /\ (ctrl[i].dirty /\ ~ ctrl[i].edp) \/ ctrl[i].rdirty
    \/ /\ \A i \in Inst : mark[i] \in {0, Latest}
       /\ disk = Latest \/ \E i \in Inst : mark[i] = Latest

\* EdpOnDisk: an early dirty page is dropped only once its changes are on disk
\* or in the page that now replaces it.
EdpOnDisk ==
    [][\A i \in Inst : ctrl[i].edp /\ ~ ctrl'[i].edp =>
           \/ disk >= ctrl[i].lsn
           \/ ctrl'[i].lock = DRC_LOCK_EXCLUSIVE]_ctrl

\* RoundEntryConverting: while copies are invalidated for a request the entry
\* goes on converting it, so that forgetting the copies at the end of the round
\* forgets no later one (drc_request_page_owner, drc_claim_page_owner).
RoundEntryConverting ==
    \A r \in inv : r.kind \in {"ask", "claim"} => Converting(res) /\ res.conv.inst = r.req.inst

\* A request waits only while another is converted, whose claim will turn to
\* it (drc_keep_requester_wait, drc_convert_next_request).
QueueServed == res.q # <<>> => Converting(res)

\* EntrySound: what the entry is between two handlers of the master.
EntrySound ==
    /\ res.used => res.owner \in Inst
    /\ ~ res.used => res = NoRes
    /\ QueueServed
    /\ res.pending => res.used /\ ~ Converting(res) /\ res.edp = {}

IsRecycle(r) == r.kind \in {"recycle", "recycled"}
RoundsSound ==
    /\ \A r \in inv : r.owner \in Inst
    /\ \A r \in inv : ~ IsRecycle(r) => r.req \in ReqInfo
    /\ \A r \in inv : IsRecycle(r) => res.pending /\ r.owner = res.owner
    /\ \A r, s \in inv : IsRecycle(r) /\ IsRecycle(s) => r = s

\* CatalogueSound: at most one recycling works on the entry, only while the
\* entry is marked pending, and for the owner that the entry then still has;
\* a pending entry converts nothing and knows no early dirty page; no request
\* is left behind in the queue of an entry that converts nothing
\* (drc_recycle_items, drc_request_page_owner, drc_claim_page_owner).
CatalogueSound == EntrySound /\ RoundsSound

\* ForgottenIdle: the master forgets the entry only when no request is being
\* converted or waits and no early dirty page is known, although requests,
\* claims and checkpoints come in while it has the copies and the owner give
\* the page up (drc_recycle_items).
ForgottenIdle ==
    [][res.used /\ ~ res'.used => ~ Converting(res) /\ res.q = <<>> /\ res.edp = {}]_res

\* AskAnswered: a request for the page is answered, by the page or an error.
AskAnswered == \A i \in Inst : (ses[i].st = "ask") ~> (ses[i].st # "ask")
=============================================================================
