------------------------------ MODULE BufCtrl ------------------------------
(***************************************************************************)
(* The buffer control block of one page on one instance (buf_ctrl_t): its  *)
(* cluster lock mode, load status, page lsn and dirty flags, and the       *)
(* changes that the page protocol makes to it under the page latch         *)
(* (dtc_dcs.c, dtc_buffer.c, kernel/buffer/knl_buffer_access.c).           *)
(***************************************************************************)
EXTENDS DrcLock

\* inmem: the block is in its hash bucket.  lsn: the lsn of the page in
\* memory, 0 when the frame holds another page (dtc_get_ctrl_lsn).
BufCtrl == [inmem : BOOLEAN, lock : LockMode, load : {"need", "loaded", "failed"},
            lsn : Nat, dirty : BOOLEAN, edp : BOOLEAN, rdirty : BOOLEAN]

NoCtrl == [inmem |-> FALSE, lock |-> DRC_LOCK_NULL, load |-> "need", lsn |-> 0,
           dirty |-> FALSE, edp |-> FALSE, rdirty |-> FALSE]

\* buf_alloc_ctrl: a missing block is allocated, one whose load failed is
\* to be loaded again.
buf_alloc_ctrl(c) ==
    IF ~ c.inmem THEN [NoCtrl EXCEPT !.inmem = TRUE]
    ELSE IF c.load = "failed" THEN [c EXCEPT !.load = "need"] ELSE c

\* Mutant: any lock mode is taken for sufficient.
Bug_dcs_local_page_usable(c, mode) == c.lock # DRC_LOCK_NULL

dcs_local_page_usable(c, mode) == c.lock # DRC_LOCK_NULL /\ c.lock >= mode

DCS_BUF_CTRL_NOT_OWNER(c) == c.lock \in {DRC_LOCK_NULL, DRC_LOCK_SHARE}
DCS_BUF_CTRL_IS_OWNER(c) == c.lock \in {DRC_LOCK_SHARE, DRC_LOCK_EXCLUSIVE} /\ ~ c.edp

\* Nothing of the page would be lost by dropping the block (is_marked is
\* kept by module Dcs and checked there).
BUF_IN_USE_IS_RECYCLABLE(c) == ~ c.dirty /\ ~ c.rdirty /\ ~ c.edp

dtc_get_ctrl_latest_lsn(c) == IF c.load = "loaded" THEN c.lsn ELSE 0

\* A failed page request: the session gives the latch back.
dtc_buf_request_failed(c) == IF c.load = "loaded" THEN c ELSE [c EXCEPT !.load = "failed"]

dcs_buf_clean_ctrl_edp(c) ==
    IF c.edp THEN [c EXCEPT !.dirty = FALSE, !.rdirty = FALSE, !.edp = FALSE] ELSE c

\* knl_panic conditions of dcs_buf_clean_ctrl_edp.
CleanEdpPanics(c) == c.edp /\ ~ (c.dirty /\ DCS_BUF_CTRL_NOT_OWNER(c))

\* The master granted the page: load it from disk and hold it exclusively,
\* whatever mode was requested.
dcs_set_ctrl4granted(c) ==
    [dcs_buf_clean_ctrl_edp(c) EXCEPT !.load = "need", !.lock = DRC_LOCK_EXCLUSIVE]

dcs_set_ctrl4already_owner(c, mode) == [c EXCEPT !.lock = mode]

\* Mutant: an instance that becomes owner again keeps its is_edp flag.
Bug_dcs_handle_page_from_owner(c, ack) ==
    [c EXCEPT !.lsn = IF ack.flag = "page" THEN ack.lsn ELSE @, !.lock = ack.mode,
              !.load = IF ack.flag = "need" THEN "need" ELSE "loaded",
              !.rdirty = ack.mode = DRC_LOCK_EXCLUSIVE /\ (ack.dirty \/ ack.rdirty)]

\* Mutant: the new owner does not see that the page has changes to write.
BugDirty_dcs_handle_page_from_owner(c, ack) ==
    LET c2 == IF ack.flag = "need" THEN dcs_buf_clean_ctrl_edp(c) ELSE c
    IN  [c2 EXCEPT !.lsn = IF ack.flag = "page" THEN ack.lsn ELSE @, !.lock = ack.mode,
                   !.load = IF ack.flag = "need" THEN "need" ELSE "loaded",
                   !.edp = IF ack.mode = DRC_LOCK_EXCLUSIVE THEN FALSE ELSE @,
                   !.rdirty = ack.mode = DRC_LOCK_EXCLUSIVE /\ ack.rdirty]

(***************************************************************************)
(* MES_CMD_PAGE_READY.  flag "page" carries the page, "r2x" upgrades the   *)
(* local read-only copy, "need" tells to load the page from disk.          *)
(***************************************************************************)
dcs_handle_page_from_owner(c, ack) ==
    LET c1 == IF ack.flag = "page" THEN [c EXCEPT !.lsn = ack.lsn] ELSE c
        c2 == IF ack.flag = "need" THEN dcs_buf_clean_ctrl_edp(c1) ELSE c1
    IN  [c2 EXCEPT !.lock = ack.mode,
                   !.load = IF ack.flag = "need" THEN "need" ELSE "loaded",
                   !.edp = IF ack.mode = DRC_LOCK_EXCLUSIVE THEN FALSE ELSE @,
                   !.rdirty = ack.mode = DRC_LOCK_EXCLUSIVE /\ (ack.dirty \/ ack.rdirty)]

PageFromOwnerPanics(c, ack) ==
    \/ ~ DCS_BUF_CTRL_NOT_OWNER(c)
    \/ ack.flag = "page" /\ ack.lsn < c.lsn
    \/ ack.flag = "need" /\ CleanEdpPanics(c)

\* Mutants: the former owner takes its page for clean; keeps a shared lock.
BugDirty_OwnerAfterTransfer(c, mode) ==
    IF mode = DRC_LOCK_EXCLUSIVE
    THEN [c EXCEPT !.lock = DRC_LOCK_NULL, !.load = "failed", !.dirty = FALSE, !.rdirty = FALSE]
    ELSE [c EXCEPT !.lock = DRC_LOCK_SHARE]
BugLock_OwnerAfterTransfer(c, mode) == [c EXCEPT !.lock = DRC_LOCK_SHARE, !.edp = c.dirty]

\* What the owner keeps after sending the page for mode.
OwnerAfterTransfer(c, mode) ==
    IF ~ DCS_BUF_CTRL_IS_OWNER(c) THEN c
    ELSE IF mode = DRC_LOCK_EXCLUSIVE
    THEN [c EXCEPT !.lock = DRC_LOCK_NULL, !.load = "failed", !.edp = @ \/ c.dirty, !.rdirty = FALSE]
    ELSE [c EXCEPT !.lock = DRC_LOCK_SHARE]

\* Mutant: the lock of the dropped copy is kept.
Bug_Invalidated(c) == [c EXCEPT !.load = "failed"]

\* A read-only copy is dropped; the stale page stays in the frame.
Invalidated(c) == [c EXCEPT !.load = "failed", !.lock = DRC_LOCK_NULL]

\* dtc_buf_finish: a page still to be loaded is read from disk.
dtc_buf_finish(c, disk) ==
    IF c.load = "need" THEN [c EXCEPT !.load = "loaded", !.lsn = disk] ELSE c

\* The checkpoint copied the page into its write group.
CkptCopied(c) == [c EXCEPT !.dirty = FALSE, !.rdirty = FALSE]
=============================================================================
