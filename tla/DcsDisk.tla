------------------------------ MODULE DcsDisk -------------------------------
(***************************************************************************)
(* Theorems about module Dcs, under the assumptions of DcsSafety: what the  *)
(* checkpoints of the instances write, announce and clean, with blocks     *)
(* evicted at any moment and writes that take any time.                    *)
(***************************************************************************)
EXTENDS DcsFresh

-----------------------------------------------------------------------------
(***************************************************************************)
(* The newest page.                                                        *)
(***************************************************************************)
\* The newest page is never lost, in a cluster of any size and although a
\* slow write may put an older page over a newer one on the shared disk: it
\* is on disk with no older write pending, or being written, or with an
\* instance that will write it, or on its way to one (ckpt_prepare_normal,
\* dcs_ckpt_remote_edp_prepare, ckpt_flush_pages, dcs_handle_page_from_owner).
THEOREM NewestIsKept == Spec => [](Prompt => NewestKept)
<1>1. ASSUME IInv, Safe, Current PROVE NewestKept
  <2> DEFINE Holder(i) == /\ ctrl[i].lsn = Latest /\ ctrl[i].load = "loaded"
                          /\ (ctrl[i].dirty /\ ~ ctrl[i].edp) \/ ctrl[i].rdirty
  <2>1. CASE \E i \in Inst : mark[i] \notin {0, Latest}
    <3>1. PICK i \in Inst : mark[i] \notin {0, Latest}
      BY <2>1
    <3>2. ctrl[i].lock # DRC_LOCK_NULL /\ ctrl[i].dirty /\ ~ ctrl[i].edp
      BY <1>1, <3>1 DEF Current, Writers, WriterOK
    <3>3. ~ (ctrl[i].load = "need" /\ ses[i].st = "got")
      BY <1>1, <3>1 DEF Current, Flow, Loads, Stored
    <3>4. ctrl[i].load = "loaded" /\ ctrl[i].lsn = Latest
      BY <1>1, <3>2, <3>3 DEF Current, Blocks, BlockOK
    <3>5. Holder(i)
      BY <3>2, <3>4
    <3> QED BY <3>5 DEF NewestKept
  <2>2. CASE \A i \in Inst : mark[i] \in {0, Latest}
    <3>1. CASE disk = Latest
      BY <2>2, <3>1 DEF NewestKept
    <3>2. CASE \E m \in msgs : XPage(m) /\ (m.dirty \/ m.rdirty)
      BY <3>2 DEF NewestKept, XPage
    <3>3. ASSUME NEW i \in Inst, Keeps(i)
          PROVE  NewestKept
      <4>1. ctrl[i].load = "loaded" /\ ctrl[i].lsn = Latest
        BY <1>1, <3>3 DEF Keeps, Current, Blocks, BlockOK
      <4>2. CASE mark[i] = Latest
        BY <2>2, <4>2 DEF NewestKept
      <4>3. CASE Unsaved(ctrl[i])
        <5>1. Holder(i)
          BY <4>1, <4>3 DEF Unsaved
        <5> QED BY <5>1 DEF NewestKept
      <4> QED BY <3>3, <4>2, <4>3 DEF Keeps
    <3> QED BY <1>1, <3>1, <3>2, <3>3 DEF Current, Flow, Kept, Keeper
  <2> QED BY <2>1, <2>2
<1>2. IInv /\ (Prompt => Safe) /\ (Prompt => Current) => (Prompt => NewestKept)
  BY <1>1
<1> QED BY <1>2, AlwaysIInv, AlwaysSafe, AlwaysCurrent, PTL

-----------------------------------------------------------------------------
(***************************************************************************)
(* The redo.  The code lets a checkpoint announce a page that is not       *)
(* written, and an older page be written over a newer one (dtc_ckpt.c:532  *)
(* and 577).  The theorems are about the behaviours in which neither       *)
(* happens: nothing else loses redo.                                       *)
(***************************************************************************)
\* What a checkpoint is about to announce is on disk, or in the write group
\* of its instance.
Grouped == \A i \in Inst : \A l \in out[i] : l <= disk \/ l <= mark[i]

\* No write puts an older page over a newer one.
NoneOlder == [][disk' >= disk]_vars

\* The disk page and the pages in the write groups are not ahead of the changes.
Bounded == disk > 0 /\ disk <= Latest /\ \A i \in Inst : mark[i] <= Latest

\* What was announced as written is on disk, also when it was announced by
\* passing on a request to write for which there is no owner.
Announced ==
    /\ \A i \in Inst : \A l \in cln[i] : l <= disk
    /\ \A m \in msgs : m.t = "clean" => m.lsn <= disk
    /\ \A m \in msgs : m.t = "ckpt" => m.lsn <= Latest
    /\ \A i \in Inst : \A g \in grp[i] : g.clean => g.lsn <= disk

\* A change that is not on disk is in the dirty page of its instance, or in the
\* write group.
RedoHeld ==
    \A v \in (disk + 1) .. Latest :
        LET i == hist[v - 1]
        IN  (ctrl[i].dirty /\ v <= ctrl[i].lsn) \/ v <= mark[i]

Durable == Bounded /\ Announced /\ RedoHeld

\* The owner's page that the checkpoint copies is the newest one.
LEMMA CopiedNewest ==
    ASSUME IInv, Current, NEW i \in Inst, CkptLatch(i), ctrl[i].lock # DRC_LOCK_NULL
    PROVE  ctrl[i].lsn = Latest
BY DEF Current, Blocks, BlockOK, CkptLatch

\* A step that is no write: a page may be copied into an empty write group, and
\* it is the newest one.
Groups == /\ disk' = disk
          /\ \A j \in Inst : mark'[j] = mark[j] \/ (mark[j] = 0 /\ mark'[j] = Latest)

\* Every step writes a group, or copies the newest page into one, or leaves
\* disk and groups alone.
LEMMA GroupStep ==
    ASSUME IInv, Safe, Current, [Next]_vars, \A i \in Inst : ~ CkptWrite(i)
    PROVE  Groups
<1>1. TypeOK /\ Latest \in Nat
  BY LsnTypes DEF IInv
<1>2. ASSUME mark' = mark /\ disk' = disk
      PROVE  Groups
  BY <1>2 DEF Groups
<1>3. ASSUME NEW i \in Inst, mark[i] = 0, mark' = [mark EXCEPT ![i] = Latest], disk' = disk
      PROVE  Groups
  BY <1>1, <1>3 DEF TypeOK, Groups
<1>4. ASSUME NEW i \in Inst, CkptRemotePrepare(i)
      PROVE  Groups
  <2>1. disk' = disk
    BY <1>4 DEF CkptRemotePrepare
  <2>2. PICK g \in grp[i] :
          LET c == IF g.clean /\ ctrl[i].edp /\ g.lsn >= ctrl[i].lsn
                   THEN dcs_buf_clean_ctrl_edp(ctrl[i]) ELSE ctrl[i]
          IN  \/ mark' = mark
              \/ /\ CkptLatch(i) /\ DCS_BUF_CTRL_IS_OWNER(c) /\ mark[i] = 0
                 /\ mark' = [mark EXCEPT ![i] = c.lsn]
    BY <1>4 DEF CkptRemotePrepare
  <2> DEFINE c == IF g.clean /\ ctrl[i].edp /\ g.lsn >= ctrl[i].lsn
                  THEN dcs_buf_clean_ctrl_edp(ctrl[i]) ELSE ctrl[i]
  <2>3. c.lock = ctrl[i].lock /\ c.lsn = ctrl[i].lsn
    BY <1>1, CleanFields DEF TypeOK
  <2>4. CASE /\ CkptLatch(i) /\ DCS_BUF_CTRL_IS_OWNER(c) /\ mark[i] = 0
             /\ mark' = [mark EXCEPT ![i] = c.lsn]
    <3>1. ctrl[i].lock # DRC_LOCK_NULL
      BY <2>3, <2>4 DEF DCS_BUF_CTRL_IS_OWNER, DRC_LOCK_NULL, DRC_LOCK_SHARE, DRC_LOCK_EXCLUSIVE
    <3> QED BY <1>3, <2>1, <2>3, <2>4, <3>1, CopiedNewest
  <2> QED BY <1>2, <2>1, <2>2, <2>4
<1>5. ASSUME NEW i \in Inst, CkptPrepareNormal(i)
      PROVE  Groups
  <2>1. /\ disk' = disk
        /\ \/ mark' = mark
           \/ /\ CkptLatch(i) /\ ctrl[i].dirty /\ ~ ctrl[i].edp
              /\ mark' = [mark EXCEPT ![i] = IF @ = 0 THEN ctrl[i].lsn ELSE @]
    BY <1>5 DEF CkptPrepareNormal
  <2>2. ctrl[i].dirty /\ ~ ctrl[i].edp => ctrl[i].lock # DRC_LOCK_NULL
    BY DEF Current, Writers, WriterOK, Unsaved
  <2>3. CASE /\ CkptLatch(i) /\ ctrl[i].dirty /\ ~ ctrl[i].edp
             /\ mark' = [mark EXCEPT ![i] = IF @ = 0 THEN ctrl[i].lsn ELSE @]
    <3>1. ctrl[i].lsn = Latest
      BY <2>2, <2>3, CopiedNewest
    <3>2. CASE mark[i] = 0
      BY <1>3, <2>1, <2>3, <3>1, <3>2
    <3>3. CASE mark[i] # 0
      <4>1. mark' = mark
        BY <1>1, <2>3, <3>3 DEF TypeOK
      <4> QED BY <1>2, <2>1, <4>1
    <3> QED BY <3>2, <3>3
  <2> QED BY <1>2, <2>1, <2>3
<1>6. ASSUME NEW i \in Inst, Session(i) \/ Answer(i) \/ LeavePage(i)
      PROVE  Groups
  <2>1. CASE Session(i)
    BY <1>2, <2>1 DEF Session, EnterLocal, EnterRemote, ModifyPage, RequestTimeout, Evict
  <2>2. CASE Answer(i) \/ LeavePage(i)
    BY <1>2, <2>2 DEF Answer, HandleError, HandleNeedLoad, HandleAlreadyOwner, HandlePageReady, LeavePage
  <2> QED BY <1>6, <2>1, <2>2
<1>7. ASSUME NEW i \in Inst,
             MasterAsk(i) \/ MasterClaim(i) \/ InvalidateCopy(i) \/ OwnerTransfer(i) \/ Ckpt(i)
      PROVE  Groups
  <2>1. CASE InvalidateCopy(i) \/ OwnerTransfer(i)
    BY <1>2, <2>1 DEF InvalidateCopy, OwnerTransfer
  <2>2. CASE MasterAsk(i)
    BY <1>2, <2>2 DEF MasterAsk, AskGranted, AskRejected, AskConverting, AskRetried, AskQueued
  <2>3. CASE MasterClaim(i)
    BY <1>2, <2>3 DEF MasterClaim, ProcClaim, ProcClaimIgnored
  <2>4. CASE Ckpt(i)
    BY <1>2, <1>4, <1>5, <2>4 DEF Ckpt, CkptCleanLocal, CkptAnnounce
  <2> QED BY <1>7, <2>1, <2>2, <2>3, <2>4
<1>8. ASSUME RoundDone \/ Recycle \/ ProcCkptReq \/ ProcCleanReq
      PROVE  Groups
  BY <1>2, <1>8 DEF RoundDone, Recycle, RecycleStart, RecycleOwner, RecycleDone, ProcCkptReq, ProcCleanReq
<1>9. CASE Next
  <2>1. \A i \in Inst : NodeStep(i) => Groups
    BY <1>6, <1>7 DEF NodeStep
  <2> QED BY <1>8, <1>9, <2>1, Zenon DEF Next
<1>10. CASE UNCHANGED vars
  BY <1>2, <1>10 DEF vars
<1> QED BY <1>9, <1>10

\* The number of changes grows only.
LEMMA LatestGrows ==
    ASSUME IInv, IInv', hist' = hist \/ \E i \in Inst : ModifyPage(i)
    PROVE  Latest \in Nat /\ Latest' \in Nat /\ Latest' >= Latest
<1>1. TypeOK /\ TypeOK' /\ Latest \in Nat
  BY LsnTypes DEF IInv
<1>2. hist \in Seq(Inst) /\ (hist' = hist \/ \E i \in Inst : hist' = Append(hist, i))
  BY <1>1 DEF TypeOK, ModifyPage
<1>3. Len(hist') >= Len(hist)
  BY <1>2
<1> QED BY <1>1, <1>3 DEF TypeOK, Latest

\* Disk and groups stay behind the changes.
LEMMA BoundedStep ==
    ASSUME IInv, IInv', Bounded, Groups \/ \E i \in Inst : CkptWrite(i),
           hist' = hist \/ \E i \in Inst : ModifyPage(i)
    PROVE  Bounded'
<1>1. /\ Latest \in Nat /\ Latest' \in Nat /\ Latest' >= Latest /\ disk \in Nat /\ TypeOK
      /\ \A j \in Inst : mark[j] \in Nat
  BY LatestGrows, LsnTypes DEF IInv
<1>2. CASE Groups
  BY <1>1, <1>2 DEF Bounded, Groups
<1>3. ASSUME NEW i \in Inst, CkptWrite(i)
      PROVE  Bounded'
  <2>1. disk' = mark[i] /\ mark[i] # 0 /\ mark' = [mark EXCEPT ![i] = 0]
    BY <1>3 DEF CkptWrite
  <2>2. \A j \in Inst : mark'[j] \in {mark[j], 0}
    BY <1>1, <2>1 DEF TypeOK
  <2> QED BY <1>1, <2>1, <2>2 DEF Bounded
<1> QED BY <1>2, <1>3

\* What a step may do to a block: its changes stay dirty or early dirty until
\* they are on disk or copied for writing.
Held(i) ==
    /\ ctrl[i].edp => ctrl'[i].edp \/ ctrl[i].lsn <= disk \/ ctrl'[i].lock = DRC_LOCK_EXCLUSIVE
    /\ ctrl[i].dirty => \/ ctrl'[i].dirty /\ ctrl[i].lsn <= ctrl'[i].lsn
                        \/ ctrl[i].lsn <= disk
                        \/ mark'[i] = Latest

\* Only the block of one instance changes.
LEMMA HeldOne ==
    ASSUME TypeOK, NEW i \in Inst, NEW c, ctrl' = [ctrl EXCEPT ![i] = c],
           ctrl[i].edp => c.edp \/ ctrl[i].lsn <= disk \/ c.lock = DRC_LOCK_EXCLUSIVE,
           ctrl[i].dirty => \/ c.dirty /\ ctrl[i].lsn <= c.lsn
                            \/ ctrl[i].lsn <= disk \/ mark'[i] = Latest
    PROVE  \A j \in Inst : Held(j)
<1>1. /\ ctrl'[i] = c
      /\ \A j \in Inst : j # i => ctrl'[j] = ctrl[j]
      /\ \A j \in Inst : ctrl[j].lsn \in Nat
  BY LsnTypes DEF TypeOK
<1>2. Held(i)
  BY <1>1 DEF Held
<1>3. \A j \in Inst : j # i => Held(j)
  BY <1>1 DEF Held
<1> QED BY <1>2, <1>3

\* The block of one instance changes and keeps its flags.
LEMMA HeldFlags ==
    ASSUME TypeOK, NEW i \in Inst, NEW c, ctrl' = [ctrl EXCEPT ![i] = c],
           ctrl[i].edp => c.edp, ctrl[i].dirty => c.dirty,
           ctrl[i].lsn <= c.lsn
    PROVE  \A j \in Inst : Held(j)
BY HeldOne

\* No block changes.
LEMMA HeldSame ==
    ASSUME TypeOK, ctrl' = ctrl
    PROVE  \A j \in Inst : Held(j)
BY LsnTypes DEF Held

\* A block that is not in memory has no changes.
LEMMA DirtyInMemory ==
    ASSUME IInv, Safe, Current, NEW i \in Inst, ctrl[i].dirty \/ ctrl[i].edp
    PROVE  ctrl[i].inmem
<1>1. ctrl[i] \in BufCtrl /\ BlockOK(i) /\ WriterOK(i) /\ LatchOK(i)
  BY DEF IInv, TypeOK, Current, Blocks, Writers, Safe, Orderly
<1> QED BY <1>1 DEF BlockOK, WriterOK, LatchOK, Unsaved, BufCtrl

\* The session latches, uses and changes the page, or its request fails
\* (dtc_read_page, dtc_buf_finish).
LEMMA HeldSession ==
    ASSUME IInv, Safe, Current, Prompt, NEW i \in Inst,
           Session(i) \/ LeavePage(i) \/ HandleError(i)
    PROVE  \A j \in Inst : Held(j)
<1>1. TypeOK /\ ctrl[i] \in BufCtrl /\ ctrl[i].lsn \in Nat /\ ctrl[i].lsn <= Latest /\ Latest \in Nat
  BY LsnTypes DEF IInv, TypeOK, Current, Blocks, BlockOK
<1>2. ASSUME NEW mode \in ReqMode, EnterLocal(i, mode) \/ EnterRemote(i, mode)
      PROVE  \A j \in Inst : Held(j)
  <2>1. PICK c : c = buf_alloc_ctrl(ctrl[i]) /\ ctrl' = [ctrl EXCEPT ![i] = c]
    BY <1>2 DEF EnterLocal, EnterRemote
  <2>2. CASE ~ ctrl[i].inmem
    <3>1. ~ ctrl[i].dirty /\ ~ ctrl[i].edp
      BY <2>2, DirtyInMemory
    <3> QED BY <1>1, <2>1, <2>2, <3>1, HeldOne
  <2>3. CASE ctrl[i].inmem
    <3>1. (ctrl[i].dirty => c.dirty) /\ (ctrl[i].edp => c.edp) /\ ctrl[i].lsn <= c.lsn
      BY <1>1, <2>1, <2>3 DEF buf_alloc_ctrl, BufCtrl
    <3> QED BY <1>1, <2>1, <3>1, HeldFlags
  <2> QED BY <2>2, <2>3
<1>3. CASE LeavePage(i) \/ ModifyPage(i)
  <2>1. PICK c, f : /\ f = dtc_buf_finish(ctrl[i], disk) /\ ctrl' = [ctrl EXCEPT ![i] = c]
                    /\ c = f \/ c = [f EXCEPT !.lsn = Latest + 1, !.dirty = TRUE]
    BY <1>3 DEF LeavePage, ModifyPage
  <2>2. ses[i].st = "got"
    BY <1>3 DEF LeavePage, ModifyPage
  <2>3. /\ (ctrl[i].dirty => f.dirty) /\ (ctrl[i].edp => f.edp)
        /\ f.lsn = ctrl[i].lsn \/ f.lsn = Latest
    <3>1. ctrl[i].load = "need" => disk = Latest
      BY <2>2 DEF Current, Flow, Loads, Stored
    <3> QED BY <1>1, <2>1, <3>1 DEF dtc_buf_finish, BufCtrl
  <2>4. f \in BufCtrl
    BY <1>1, <2>1, FinishType DEF TypeOK
  <2>5. /\ (f.edp => c.edp) /\ (f.dirty => c.dirty)
        /\ c.lsn = f.lsn \/ c.lsn = Latest + 1
    BY <2>1, <2>4 DEF BufCtrl
  <2>6. ctrl[i].lsn <= c.lsn
    BY <1>1, <2>3, <2>5
  <2> QED BY <1>1, <2>1, <2>3, <2>5, <2>6, HeldFlags
<1>4. CASE HandleError(i)
  <2>1. PICK c : c = dtc_buf_request_failed(ctrl[i]) /\ ctrl' = [ctrl EXCEPT ![i] = c]
    BY <1>4 DEF HandleError
  <2>2. /\ (ctrl[i].dirty => c.dirty)
        /\ (ctrl[i].edp => c.edp) /\ ctrl[i].lsn <= c.lsn
    BY <1>1, <2>1 DEF dtc_buf_request_failed, BufCtrl
  <2> QED BY <1>1, <2>1, <2>2, HeldFlags
<1>5. ~ RequestTimeout(i)
  BY DEF RequestTimeout, Prompt
<1>6. CASE Evict(i)
  <2>1. ~ ctrl[i].dirty /\ ~ ctrl[i].edp /\ ctrl' = [ctrl EXCEPT ![i] = NoCtrl]
    BY <1>6 DEF Evict, CanEvict, BUF_IN_USE_IS_RECYCLABLE
  <2> QED BY <1>1, <2>1, HeldOne
<1> QED BY <1>2, <1>3, <1>4, <1>5, <1>6 DEF Session

\* The session takes the page (dcs_set_ctrl4granted, dcs_set_ctrl4already_owner,
\* dcs_handle_page_from_owner).
LEMMA HeldTaken ==
    ASSUME IInv, Safe, Current, NEW i \in Inst,
           HandleNeedLoad(i) \/ HandleAlreadyOwner(i) \/ HandlePageReady(i)
    PROVE  \A j \in Inst : Held(j)
<1>1. TypeOK /\ ctrl[i] \in BufCtrl /\ ctrl[i].lsn \in Nat /\ ctrl[i].lsn <= Latest /\ Latest \in Nat
  BY LsnTypes DEF IInv, TypeOK, Current, Blocks, BlockOK
<1>2. CASE HandleNeedLoad(i)
  <2>1. PICK m \in msgs : m.t = "load" /\ ctrl' = [ctrl EXCEPT ![i] = dcs_set_ctrl4granted(@)]
    BY <1>2 DEF HandleNeedLoad
  <2>2. disk = Latest
    BY <2>1 DEF Current, Flow, Loads, Stored
  <2>3. PICK c : c = dcs_set_ctrl4granted(ctrl[i])
    OBVIOUS
  <2>4. ctrl' = [ctrl EXCEPT ![i] = c]
    BY <1>1, <2>1, <2>3, GrantedFields
  <2> QED BY <1>1, <2>2, <2>4, HeldOne
<1>3. CASE HandleAlreadyOwner(i)
  <2>1. PICK m \in msgs : ctrl' = [ctrl EXCEPT ![i] = dcs_set_ctrl4already_owner(@, m.mode)]
    BY <1>3, Zenon DEF HandleAlreadyOwner
  <2>2. PICK c : c = [ctrl[i] EXCEPT !.lock = m.mode]
    OBVIOUS
  <2>3. ctrl' = [ctrl EXCEPT ![i] = c]
    BY <2>1, <2>2 DEF dcs_set_ctrl4already_owner
  <2>4. /\ (ctrl[i].dirty => c.dirty)
        /\ (ctrl[i].edp => c.edp) /\ ctrl[i].lsn <= c.lsn
    BY <1>1, <2>2 DEF BufCtrl
  <2> QED BY <1>1, <2>3, <2>4, HeldFlags
<1>4. CASE HandlePageReady(i)
  <2>1. PICK m \in msgs : m.t = "page" /\ ctrl' = [ctrl EXCEPT ![i] = dcs_handle_page_from_owner(@, m)]
    BY <1>4, Zenon DEF HandlePageReady
  <2>2. PICK c : c = dcs_handle_page_from_owner(ctrl[i], m)
    OBVIOUS
  <2>3. m.lsn \in Nat
    BY <1>1, <2>1, MsgFields DEF TypeOK
  <2>4. /\ c.lock = m.mode
        /\ c.lsn = IF m.flag = "page" THEN m.lsn ELSE ctrl[i].lsn
        /\ c.edp = (ctrl[i].edp /\ ~ (m.mode = DRC_LOCK_EXCLUSIVE) /\ m.flag # "need")
        /\ c.dirty = (ctrl[i].dirty /\ ~ (m.flag = "need" /\ ctrl[i].edp))
    BY <1>1, <2>2, <2>3, PageFields
  <2>5. m.flag = "need" => disk = Latest
    BY <2>1 DEF Current, Flow, Loads, Stored
  <2>6. m.flag = "page" => m.lsn = Latest
    BY <2>1 DEF Current, Flow, Lsns
  <2>7. ctrl' = [ctrl EXCEPT ![i] = c]
    BY <2>1, <2>2
  <2>8. ctrl[i].edp => c.edp \/ ctrl[i].lsn <= disk \/ c.lock = DRC_LOCK_EXCLUSIVE
    BY <1>1, <2>4, <2>5
  <2>9. ctrl[i].dirty => (c.dirty /\ ctrl[i].lsn <= c.lsn) \/ ctrl[i].lsn <= disk
    <3>1. m.flag # "need" => (ctrl[i].dirty => c.dirty)
      BY <2>4
    <3>2. ctrl[i].lsn <= c.lsn
      BY <1>1, <2>4, <2>6
    <3> QED BY <1>1, <2>5, <3>1, <3>2
  <2> QED BY <1>1, <2>4, <2>7, <2>8, <2>9, HeldOne
<1> QED BY <1>2, <1>3, <1>4

\* The page is given away or invalidated (dcs_owner_transfer_page,
\* dcs_invalidate_readonly_copy, drc_recycle_items).
LEMMA HeldGiven ==
    ASSUME IInv, NEW i \in Inst, InvalidateCopy(i) \/ OwnerTransfer(i) \/ RecycleOwner
    PROVE  \A j \in Inst : Held(j)
<1>1. TypeOK /\ RoundsSound /\ \A j \in Inst : ctrl[j] \in BufCtrl /\ ctrl[j].lsn \in Nat
  BY LsnTypes DEF IInv, CatalogueSound
<1>2. ASSUME NEW j \in Inst, NEW c, ctrl' = [ctrl EXCEPT ![j] = c],
             c \in {ctrl[j], Invalidated(ctrl[j])}
      PROVE  \A k \in Inst : Held(k)
  <2>1. /\ (ctrl[j].dirty => c.dirty)
        /\ (ctrl[j].edp => c.edp) /\ ctrl[j].lsn <= c.lsn
    <3>1. CASE c = ctrl[j]
      BY <1>1, <3>1
    <3>2. CASE c = [ctrl[j] EXCEPT !.load = "failed", !.lock = DRC_LOCK_NULL]
      BY <1>1, <3>2 DEF BufCtrl
    <3> QED BY <1>2, <3>1, <3>2 DEF Invalidated
  <2> QED BY <1>1, <1>2, <2>1, HeldFlags
<1>3. CASE InvalidateCopy(i)
  <2> DEFINE ok == ctrl[i].inmem => DCS_BUF_CTRL_NOT_OWNER(ctrl[i])
             f == IF ctrl[i].inmem /\ ok THEN Invalidated(ctrl[i]) ELSE ctrl[i]
  <2>1. ctrl' = [ctrl EXCEPT ![i] = f]
    BY <1>3, Zenon DEF InvalidateCopy
  <2>2. PICK c : c = f
    OBVIOUS
  <2>3. ctrl' = [ctrl EXCEPT ![i] = c] /\ c \in {ctrl[i], Invalidated(ctrl[i])}
    BY <2>1, <2>2
  <2> QED BY <1>2, <2>3
<1>4. CASE OwnerTransfer(i)
  <2>1. PICK m \in msgs : ctrl' = [ctrl EXCEPT ![i] = OwnerAfterTransfer(@, m.req.mode)] \/ ctrl' = ctrl
    BY <1>4, Zenon DEF OwnerTransfer
  <2>2. PICK c : c = OwnerAfterTransfer(ctrl[i], m.req.mode)
    OBVIOUS
  <2>3. /\ (ctrl[i].dirty => c.dirty)
        /\ (ctrl[i].edp => c.edp) /\ ctrl[i].lsn <= c.lsn
    BY <1>1, <2>2 DEF OwnerAfterTransfer, BufCtrl
  <2>4. CASE ctrl' = [ctrl EXCEPT ![i] = OwnerAfterTransfer(@, m.req.mode)]
    BY <1>1, <2>2, <2>3, <2>4, HeldFlags
  <2> QED BY <1>1, <2>1, <2>4, HeldSame
<1>5. CASE RecycleOwner
  <2>1. PICK r, ok :
          /\ r \in inv
          /\ ctrl' = [ctrl EXCEPT ![r.owner] = IF ok THEN Invalidated(ctrl[r.owner]) ELSE ctrl[r.owner]]
    BY <1>5 DEF RecycleOwner
  <2>2. PICK c : c = IF ok THEN Invalidated(ctrl[r.owner]) ELSE ctrl[r.owner]
    OBVIOUS
  <2>3. /\ r.owner \in Inst /\ ctrl' = [ctrl EXCEPT ![r.owner] = c]
        /\ c \in {ctrl[r.owner], Invalidated(ctrl[r.owner])}
    BY <1>1, <2>1, <2>2 DEF RoundsSound
  <2> QED BY <1>2, <2>3
<1> QED BY <1>3, <1>4, <1>5

\* The checkpoint copies the page, or drops an early dirty page whose changes
\* are on disk (dcs_ckpt_remote_edp_prepare, buf_clean_edp, ckpt_prepare_normal).
LEMMA HeldCkpt ==
    ASSUME IInv, Safe, Current, Announced, NEW i \in Inst,
           CkptRemotePrepare(i) \/ CkptCleanLocal(i) \/ CkptPrepareNormal(i)
    PROVE  \A j \in Inst : Held(j)
<1>1. /\ TypeOK /\ ctrl[i] \in BufCtrl /\ ctrl[i].lsn \in Nat /\ disk \in Nat /\ Latest \in Nat
      /\ grp[i] \in SUBSET [lsn : Nat, clean : BOOLEAN] /\ cln[i] \in SUBSET Nat
  BY LsnTypes DEF IInv, TypeOK
<1> DEFINE d == dcs_buf_clean_ctrl_edp(ctrl[i])
<1>2. ASSUME NEW l \in Nat, l <= disk, NEW c,
             c = ctrl[i] \/ (c = d /\ ctrl[i].edp /\ l >= ctrl[i].lsn)
      PROVE  /\ c.lock = ctrl[i].lock /\ c.lsn = ctrl[i].lsn
             /\ c \in BufCtrl
             /\ c = ctrl[i] \/ ctrl[i].lsn <= disk
  <2>1. CASE c = ctrl[i]
    BY <1>1, <2>1
  <2>2. CASE c = d /\ ctrl[i].edp /\ l >= ctrl[i].lsn
    BY <1>1, <1>2, <2>2, CleanFields
  <2> QED BY <1>2, <2>1, <2>2
<1>3. ASSUME NEW c, ctrl' = [ctrl EXCEPT ![i] = c],
             c = ctrl[i] \/ ctrl[i].lsn <= disk
      PROVE  \A j \in Inst : Held(j)
  <2>1. CASE c = ctrl[i]
    <3>1. ctrl' = ctrl
      BY <1>1, <1>3, <2>1 DEF TypeOK
    <3> QED BY <1>1, <3>1, HeldSame
  <2>2. CASE ctrl[i].lsn <= disk
    BY <1>1, <1>3, <2>2, HeldOne
  <2> QED BY <1>3, <2>1, <2>2
<1>4. CASE CkptCleanLocal(i)
  <2>1. PICK l \in cln[i] : ctrl' = [ctrl EXCEPT ![i] = IF ctrl[i].edp /\ l >= ctrl[i].lsn
                                                         THEN dcs_buf_clean_ctrl_edp(@) ELSE @]
    BY <1>4, Zenon DEF CkptCleanLocal
  <2>2. PICK c : c = IF ctrl[i].edp /\ l >= ctrl[i].lsn THEN d ELSE ctrl[i]
    OBVIOUS
  <2>3. l \in Nat /\ l <= disk /\ ctrl' = [ctrl EXCEPT ![i] = c]
    BY <1>1, <2>1, <2>2 DEF Announced
  <2>4. c = ctrl[i] \/ (c = d /\ ctrl[i].edp /\ l >= ctrl[i].lsn)
    BY <2>2
  <2> QED BY <1>2, <1>3, <2>3, <2>4
<1>5. CASE CkptRemotePrepare(i)
  <2> DEFINE C(g) == IF g.clean /\ ctrl[i].edp /\ g.lsn >= ctrl[i].lsn THEN d ELSE ctrl[i]
  <2>1. PICK g \in grp[i] :
          \/ ctrl' = ctrl
          \/ ctrl' = [ctrl EXCEPT ![i] = C(g)]
          \/ /\ CkptLatch(i) /\ DCS_BUF_CTRL_IS_OWNER(C(g))
             /\ mark' = [mark EXCEPT ![i] = C(g).lsn]
             /\ ctrl' = [ctrl EXCEPT ![i] = CkptCopied(C(g))]
    BY <1>5, Zenon DEF CkptRemotePrepare
  <2>2. PICK c : c = C(g)
    OBVIOUS
  <2>3. c = ctrl[i] \/ (g.clean /\ c = d /\ ctrl[i].edp /\ g.lsn >= ctrl[i].lsn)
    BY <2>2
  <2>4. g.lsn \in Nat /\ (g.clean => g.lsn <= disk)
    BY <1>1 DEF Announced
  <2>5. /\ c.lock = ctrl[i].lock /\ c.lsn = ctrl[i].lsn
        /\ c \in BufCtrl
        /\ c = ctrl[i] \/ ctrl[i].lsn <= disk
    BY <1>1, <1>2, <2>3, <2>4
  <2>6. CASE ctrl' = ctrl
    BY <1>1, <2>6, HeldSame
  <2>7. CASE ctrl' = [ctrl EXCEPT ![i] = C(g)]
    BY <1>3, <2>2, <2>5, <2>7
  <2>8. CASE /\ CkptLatch(i) /\ DCS_BUF_CTRL_IS_OWNER(C(g))
             /\ mark' = [mark EXCEPT ![i] = C(g).lsn]
             /\ ctrl' = [ctrl EXCEPT ![i] = CkptCopied(C(g))]
    <3>1. CkptLatch(i) /\ DCS_BUF_CTRL_IS_OWNER(c) /\ mark' = [mark EXCEPT ![i] = c.lsn]
      BY <2>2, <2>8
    <3>2. PICK f : f = CkptCopied(c)
      OBVIOUS
    <3>3. ctrl' = [ctrl EXCEPT ![i] = f]
      BY <2>2, <2>8, <3>2
    <3> HIDE DEF C
    <3>4. ctrl[i].lock # DRC_LOCK_NULL
      BY <2>5, <3>1 DEF DCS_BUF_CTRL_IS_OWNER, DRC_LOCK_NULL, DRC_LOCK_SHARE, DRC_LOCK_EXCLUSIVE
    <3>5. ctrl[i].lsn = Latest
      BY <3>1, <3>4, CopiedNewest
    <3>6. mark'[i] = Latest
      BY <1>1, <2>5, <3>1, <3>5 DEF TypeOK
    <3>7. f.edp <=> c.edp
      BY <2>5, <3>2, CopiedFields
    <3>8. ctrl[i].edp => f.edp \/ ctrl[i].lsn <= disk
      BY <2>5, <3>7
    <3> QED BY <1>1, <3>3, <3>6, <3>7, <3>8, HeldOne
  <2> QED BY <2>1, <2>6, <2>7, <2>8
<1>6. CASE CkptPrepareNormal(i)
  <2>1. \/ ctrl' = ctrl
        \/ /\ CkptLatch(i) /\ ctrl[i].dirty /\ ~ ctrl[i].edp
           /\ mark' = [mark EXCEPT ![i] = IF @ = 0 THEN ctrl[i].lsn ELSE @]
           /\ ctrl' = [ctrl EXCEPT ![i] = IF mark[i] = 0 THEN CkptCopied(@) ELSE @]
    BY <1>6 DEF CkptPrepareNormal
  <2>2. CASE ctrl' = ctrl
    BY <1>1, <2>2, HeldSame
  <2>3. CASE /\ CkptLatch(i) /\ ctrl[i].dirty /\ ~ ctrl[i].edp
             /\ mark' = [mark EXCEPT ![i] = IF @ = 0 THEN ctrl[i].lsn ELSE @]
             /\ ctrl' = [ctrl EXCEPT ![i] = IF mark[i] = 0 THEN CkptCopied(@) ELSE @]
    <3>1. ctrl[i].lock # DRC_LOCK_NULL
      BY <2>3 DEF Current, Writers, WriterOK, Unsaved
    <3>2. ctrl[i].lsn = Latest
      BY <2>3, <3>1, CopiedNewest
    <3>3. CASE mark[i] = 0
      <4>1. mark'[i] = Latest
        BY <1>1, <2>3, <3>2, <3>3 DEF TypeOK
      <4>2. PICK f : f = CkptCopied(ctrl[i])
        OBVIOUS
      <4>3. ctrl' = [ctrl EXCEPT ![i] = f]
        BY <2>3, <3>3, <4>2
      <4> QED BY <1>1, <2>3, <4>1, <4>3, HeldOne
    <3>4. CASE mark[i] # 0
      <4>1. ctrl' = ctrl
        BY <1>1, <2>3, <3>4 DEF TypeOK
      <4> QED BY <1>1, <4>1, HeldSame
    <3> QED BY <3>3, <3>4
  <2> QED BY <2>1, <2>2, <2>3
<1> QED BY <1>4, <1>5, <1>6

\* Every step keeps the blocks and their changes.
LEMMA HeldNext ==
    ASSUME IInv, Safe, Current, Prompt, Announced, [Next]_vars
    PROVE  \A j \in Inst : Held(j)
<1>1. TypeOK
  BY DEF IInv
<1>2. ASSUME NEW i \in Inst, NodeStep(i)
      PROVE  \A j \in Inst : Held(j)
  <2>1. CASE Session(i) \/ LeavePage(i) \/ HandleError(i)
    BY <1>1, <2>1, HeldSession
  <2>2. CASE HandleNeedLoad(i) \/ HandleAlreadyOwner(i) \/ HandlePageReady(i)
    BY <2>2, HeldTaken
  <2>3. CASE InvalidateCopy(i) \/ OwnerTransfer(i)
    BY <2>3, HeldGiven
  <2>4. CASE CkptRemotePrepare(i) \/ CkptCleanLocal(i) \/ CkptPrepareNormal(i)
    BY <1>1, <2>4, HeldCkpt
  <2>5. CASE MasterAsk(i)
    BY <1>1, <2>5, HeldSame DEF MasterAsk, AskGranted, AskRejected, AskConverting, AskRetried, AskQueued
  <2>6. CASE MasterClaim(i) \/ CkptAnnounce(i)
    BY <1>1, <2>6, HeldSame DEF MasterClaim, ProcClaim, ProcClaimIgnored, CkptAnnounce
  <2> QED BY <1>2, <2>1, <2>2, <2>3, <2>4, <2>5, <2>6 DEF NodeStep, Answer, Ckpt
<1>3. ASSUME NEW i \in Inst, CkptWrite(i)
      PROVE  \A j \in Inst : Held(j)
  BY <1>1, <1>3, HeldSame DEF CkptWrite
<1>4. CASE RecycleOwner
  <2>1. PICK i : i \in Inst
    BY DcsAssumption
  <2> QED BY <1>4, <2>1, HeldGiven
<1>5. CASE RoundDone \/ RecycleStart \/ RecycleDone \/ ProcCkptReq \/ ProcCleanReq
  BY <1>1, <1>5, HeldSame DEF RoundDone, RecycleStart, RecycleDone, ProcCkptReq, ProcCleanReq
<1>6. CASE Next
  BY <1>2, <1>3, <1>4, <1>5, <1>6, Zenon DEF Next, Recycle
<1>7. CASE UNCHANGED vars
  BY <1>1, <1>7, HeldSame DEF vars
<1> QED BY <1>6, <1>7

\* A step of the page protocol neither announces a write nor asks for one.
PageMsg == {"ask", "own", "load", "already", "err", "page", "claim"}
Plain == /\ UNCHANGED <<grp, cln>>
         /\ \A y \in msgs' : y \in msgs \/ y.t \in PageMsg

\* The messages of a session (dtc_read_page).
LEMMA PlainSession ==
    ASSUME IInv, NEW i \in Inst, Session(i) \/ LeavePage(i) \/ Answer(i)
    PROVE  Plain
<1>1. UNCHANGED <<grp, cln>>
  <2>1. CASE Session(i)
    BY <2>1 DEF Session, EnterLocal, EnterRemote, ModifyPage, RequestTimeout, Evict
  <2>2. CASE LeavePage(i) \/ Answer(i)
    BY <2>2 DEF LeavePage, Answer, HandleError, HandleNeedLoad, HandleAlreadyOwner, HandlePageReady
  <2> QED BY <2>1, <2>2
<1>2. ASSUME NEW mode \in ReqMode, EnterRemote(i, mode)
      PROVE  Plain
  <2>1. PICK r : Send({Ask(r)})
    BY <1>2, Zenon DEF EnterRemote
  <2>2. \A y \in msgs' : y \in msgs \/ y = Ask(r)
    BY <2>1, Network
  <2> QED BY <1>1, <2>2, SentFields DEF Plain, PageMsg
<1>3. ASSUME \A y \in msgs' : y \in msgs PROVE Plain
  BY <1>1, <1>3 DEF Plain
<1>4. CASE HandleError(i) \/ HandleNeedLoad(i)
  <2>1. PICK m \in msgs : Exchange(m, {})
    BY <1>4 DEF HandleError, HandleNeedLoad
  <2> QED BY <1>1, <1>3, <2>1, Network
<1>5. CASE HandleAlreadyOwner(i) \/ HandlePageReady(i)
  <2>1. PICK m, mode, edp, lsn : m \in msgs /\ Exchange(m, {Claim(i, mode, edp, lsn)})
    BY <1>5, Zenon DEF HandleAlreadyOwner, HandlePageReady
  <2>2. \A y \in msgs' : y \in msgs \/ y = Claim(i, mode, edp, lsn)
    BY <2>1, Network
  <2>3. Claim(i, mode, edp, lsn).t = "claim"
    BY DEF Claim
  <2> QED BY <1>1, <2>2, <2>3 DEF Plain, PageMsg
<1>6. CASE EnterLocal(i, DRC_LOCK_SHARE) \/ EnterLocal(i, DRC_LOCK_EXCLUSIVE) \/ ModifyPage(i)
           \/ RequestTimeout(i) \/ Evict(i) \/ LeavePage(i)
  <2>1. \A y \in msgs' : y \in msgs
    BY <1>6 DEF EnterLocal, ModifyPage, RequestTimeout, Evict, LeavePage
  <2> QED BY <1>1, <1>3, <2>1
<1>7. CASE Session(i)
  BY <1>1, <1>2, <1>6, <1>7 DEF Session, ReqMode
<1> QED BY <1>4, <1>5, <1>6, <1>7 DEF Answer

\* A request is converted (dcs_notify_owner_for_page).
LEMMA PlainConvert ==
    ASSUME NEW m, NEW rs, NEW r, NEW retry, NEW kind \in {"ask", "claim"}, NEW self, NEW also,
           Errors(also), Convert(m, rs, r, retry, kind, self, also)
    PROVE  \A y \in msgs' : y \in msgs \/ y.t \in PageMsg
<1>1. (\E x : IntoRound(x, m, rs, r, also)) \/ (\E x : ToOwner(x, m, rs, r, also))
  BY ConvertWays
<1>2. CASE \E x : IntoRound(x, m, rs, r, also)
  BY <1>2 DEF IntoRound, Errors, PageMsg
<1>3. CASE \E x : ToOwner(x, m, rs, r, also)
  <2>1. PICK x : /\ \A y \in msgs' : (y \in msgs /\ y # m) \/ y \in also \/ y = x
                 /\ x.t \in {"already", "own"}
    BY <1>3 DEF ToOwner
  <2> QED BY <2>1 DEF Errors, PageMsg
<1> QED BY <1>1, <1>2, <1>3

\* The master handles a request (drc_request_page_owner).
LEMMA PlainAsk ==
    ASSUME NEW i \in Inst, MasterAsk(i)
    PROVE  Plain
<1>1. UNCHANGED <<grp, cln>>
  BY DEF MasterAsk, AskGranted, AskRejected, AskConverting, AskRetried, AskQueued
<1>2. Errors({}) /\ \A r : Reply("err", r).t = "err" /\ Reply("load", r).t = "load"
  BY DEF Errors, Reply
<1>3. CASE AskGranted(i)
  <2>1. PICK m : Exchange(m, {Reply("load", m.req)})
    BY <1>3 DEF AskGranted
  <2> QED BY <1>1, <1>2, <2>1, Network DEF Plain, PageMsg
<1>4. CASE AskRejected(i)
  <2>1. PICK m : Exchange(m, {Reply("err", m.req)})
    BY <1>4 DEF AskRejected
  <2> QED BY <1>1, <1>2, <2>1, Network DEF Plain, PageMsg
<1>5. CASE AskConverting(i) \/ AskRetried(i)
  <2>1. PICK m, r, retry : Convert(m, res, r, retry, "ask", FALSE, {})
    BY <1>5, Zenon DEF AskConverting, AskRetried
  <2> QED BY <1>1, <1>2, <2>1, PlainConvert DEF Plain
<1>6. CASE AskQueued(i)
  <2>1. PICK m : Exchange(m, {}) \/ Exchange(m, {Reply("err", m.req)})
    BY <1>6 DEF AskQueued
  <2> QED BY <1>1, <1>2, <2>1, Network DEF Plain, PageMsg
<1> QED BY <1>3, <1>4, <1>5, <1>6 DEF MasterAsk

\* The master handles a claim (drc_claim_page_owner).
LEMMA PlainClaim ==
    ASSUME NEW i \in Inst, MasterClaim(i)
    PROVE  Plain
<1>1. UNCHANGED <<grp, cln>>
  BY DEF MasterClaim, ProcClaim, ProcClaimIgnored
<1>2. CASE ProcClaimIgnored(i)
  <2>1. PICK m : Exchange(m, {})
    BY <1>2 DEF ProcClaimIgnored
  <2> QED BY <1>1, <2>1, Network DEF Plain
<1>3. CASE ProcClaim(i)
  <2> DEFINE Refused(n) == IF FirstConflicts(n) THEN {Reply("err", Head(n.q))} ELSE {}
  <2>1. PICK m, k : LET n == drc_pop_request(drc_claim_new_page_owner(res, m), k)
                    IN  IF Converting(n)
                        THEN Convert(m, n, n.conv, FALSE, "claim", i = Master, Refused(n))
                        ELSE inv' = inv /\ Exchange(m, {})
    BY <1>3, Zenon DEF ProcClaim
  <2>2. PICK n : n = drc_pop_request(drc_claim_new_page_owner(res, m), k)
    OBVIOUS
  <2>3. /\ Converting(n) => Convert(m, n, n.conv, FALSE, "claim", i = Master, Refused(n))
        /\ ~ Converting(n) => Exchange(m, {})
    BY <2>1, <2>2
  <2>4. Errors(Refused(n))
    <3>1. Reply("err", Head(n.q)).t = "err"
      BY DEF Reply
    <3> QED BY <3>1 DEF Errors
  <2> HIDE DEF Refused
  <2>5. CASE Converting(n)
    BY <1>1, <2>3, <2>4, <2>5, PlainConvert DEF Plain
  <2>6. CASE ~ Converting(n)
    BY <1>1, <2>3, <2>6, Network DEF Plain
  <2> QED BY <2>5, <2>6
<1> QED BY <1>2, <1>3 DEF MasterClaim

\* Transfers, invalidations and the recycling of the entry
\* (dcs_owner_transfer_page, dcs_invalidate_readonly_copy, drc_recycle_items).
LEMMA PlainRest ==
    ASSUME NEW i \in Inst, InvalidateCopy(i) \/ OwnerTransfer(i) \/ RoundDone \/ Recycle
    PROVE  Plain
<1>1. UNCHANGED <<grp, cln>>
  BY DEF InvalidateCopy, OwnerTransfer, RoundDone, Recycle, RecycleStart, RecycleOwner, RecycleDone
<1>2. CASE InvalidateCopy(i) \/ Recycle
  BY <1>1, <1>2 DEF InvalidateCopy, Recycle, RecycleStart, RecycleOwner, RecycleDone, Plain
<1>3. CASE OwnerTransfer(i)
  <2>1. PICK m, y : /\ Exchange(m, {y})
                    /\ \/ \E f : y = PageReady(m.req, f, ctrl[i])
                       \/ y = Reply("err", m.req)
    BY <1>3, Zenon DEF OwnerTransfer
  <2>2. y.t \in {"page", "err"}
    <3>1. \A f : PageReady(m.req, f, ctrl[i]).t = "page"
      BY DEF PageReady, Reply
    <3>2. Reply("err", m.req).t = "err"
      BY DEF Reply
    <3> QED BY <2>1, <3>1, <3>2
  <2> QED BY <1>1, <2>1, <2>2, Network DEF Plain, PageMsg
<1>4. CASE RoundDone
  <2>1. PICK r : Send({IF r.ok \/ r.kind = "claim" THEN NotifyOwner(r.owner, r.req, r.retry)
                       ELSE Reply("err", r.req)})
    BY <1>4, Zenon DEF RoundDone
  <2>2. PICK y : y = IF r.ok \/ r.kind = "claim" THEN NotifyOwner(r.owner, r.req, r.retry)
                     ELSE Reply("err", r.req)
    OBVIOUS
  <2>3. y.t \in {"already", "own", "err"}
    <3>1. Reply("err", r.req).t = "err" /\ Reply("already", r.req).t = "already"
      BY DEF Reply
    <3>2. AskOwner(r.owner, r.req, r.retry).t = "own"
      BY DEF AskOwner
    <3> QED BY <2>2, <3>1, <3>2 DEF NotifyOwner
  <2>4. \A z \in msgs' : z \in msgs \/ z = y
    BY <2>1, <2>2, Network
  <2> QED BY <1>1, <2>3, <2>4 DEF Plain, PageMsg
<1> QED BY <1>2, <1>3, <1>4

\* The redo of every change that is not on disk is kept by a step that is no
\* write.
LEMMA RedoStep ==
    ASSUME IInv, IInv', Bounded, RedoHeld, \A j \in Inst : Held(j), Groups,
           hist' = hist \/ \E i \in Inst : ModifyPage(i)
    PROVE  RedoHeld'
<1>1. /\ TypeOK /\ TypeOK' /\ Latest \in Nat /\ Latest > 0 /\ disk \in Nat
      /\ \A j \in Inst : ctrl[j].lsn \in Nat /\ ctrl'[j].lsn \in Nat
  BY LsnTypes DEF IInv, TypeOK, BufCtrl
<1>2. ASSUME NEW v \in (disk + 1) .. Latest
      PROVE  LET i == hist[v - 1]
             IN  i \in Inst /\ ((ctrl'[i].dirty /\ v <= ctrl'[i].lsn) \/ v <= mark'[i])
  <2>1. v \in Nat /\ v - 1 \in 1 .. Len(hist) /\ v > disk /\ v <= Latest
    BY <1>1, <1>2 DEF Bounded, Latest
  <2>2. PICK i \in Inst : i = hist[v - 1]
    <3>1. hist \in Seq(Inst)
      BY <1>1 DEF TypeOK
    <3> QED BY <2>1, <3>1
  <2>3. CASE v <= mark[i]
    <3>1. mark'[i] = mark[i]
      BY <1>1, <2>1, <2>3 DEF Groups
    <3> QED BY <2>2, <2>3, <3>1
  <2>4. CASE ctrl[i].dirty /\ v <= ctrl[i].lsn
    <3>1. (ctrl'[i].dirty /\ ctrl[i].lsn <= ctrl'[i].lsn) \/ mark'[i] = Latest
      BY <1>1, <2>1, <2>4 DEF Held
    <3> QED BY <1>1, <2>1, <2>2, <2>4, <3>1
  <2> QED BY <1>2, <2>2, <2>3, <2>4 DEF RedoHeld
<1>3. CASE hist' = hist
  BY <1>1, <1>2, <1>3 DEF RedoHeld, Latest, Groups
<1>4. ASSUME NEW i \in Inst, ModifyPage(i)
      PROVE  RedoHeld'
  <2>1. /\ hist' = Append(hist, i)
        /\ ctrl' = [ctrl EXCEPT ![i] = [dtc_buf_finish(@, disk) EXCEPT !.lsn = Latest + 1, !.dirty = TRUE]]
    BY <1>4 DEF ModifyPage
  <2>2. ctrl'[i].dirty /\ ctrl'[i].lsn = Latest + 1
    <3>1. PICK f : f = dtc_buf_finish(ctrl[i], disk)
      OBVIOUS
    <3>2. f \in BufCtrl
      BY <1>1, <3>1, FinishType DEF TypeOK
    <3>3. ctrl'[i] = [f EXCEPT !.lsn = Latest + 1, !.dirty = TRUE]
      BY <1>1, <2>1, <3>1 DEF TypeOK
    <3> QED BY <3>2, <3>3 DEF BufCtrl
  <2>3. /\ Len(hist) \in Nat /\ Latest' = Latest + 1 /\ Latest = Len(hist) + 1
        /\ hist'[Latest] = i
        /\ \A n \in 1 .. Len(hist) : hist'[n] = hist[n]
    BY <1>1, <2>1 DEF TypeOK, Latest
  <2> SUFFICES ASSUME NEW v \in (disk + 1) .. (Latest + 1)
               PROVE  LET k == hist'[v - 1]
                      IN  (ctrl'[k].dirty /\ v <= ctrl'[k].lsn) \/ v <= mark'[k]
    BY <2>3 DEF RedoHeld, Groups
  <2>4. CASE v = Latest + 1
    BY <1>1, <2>2, <2>3, <2>4
  <2>5. CASE v # Latest + 1
    <3>1. v \in (disk + 1) .. Latest /\ v - 1 \in 1 .. Len(hist) /\ v \in Nat /\ v <= Latest
      BY <1>1, <2>3, <2>5 DEF Bounded
    <3>2. hist'[v - 1] = hist[v - 1]
      BY <2>3, <3>1
    <3> QED BY <1>1, <1>2, <3>1, <3>2
  <2> QED BY <2>4, <2>5
<1> QED BY <1>3, <1>4

\* What a step announces is on disk.
LEMMA AnnouncedStep ==
    ASSUME IInv, Announced, disk' \in Nat, disk' >= disk, Latest' \in Nat, Latest' >= Latest,
           \A j \in Inst : \A l \in cln'[j] : l \in cln[j] \/ l <= disk,
           \A y \in msgs' : y.t = "clean" => y \in msgs \/ (y.lsn \in Nat /\ y.lsn <= disk),
           \A y \in msgs' : y.t = "ckpt" => y \in msgs \/ (y.lsn \in Nat /\ y.lsn <= Latest),
           \A j \in Inst : \A g \in grp'[j] :
               g \in grp[j] \/ (g.lsn \in Nat /\ (g.clean => g.lsn <= disk)),
           \A j \in Inst : \A l \in cln'[j] : l \in Nat
    PROVE  Announced'
<1>1. TypeOK /\ Latest \in Nat /\ disk \in Nat
  BY LsnTypes DEF IInv
<1>2. \A y \in msgs : y.t \in {"ckpt", "clean"} => y.lsn \in Nat
  BY <1>1, MsgFields DEF TypeOK, Msg
<1>3. \A j \in Inst : \A g \in grp[j] : g.lsn \in Nat
  BY <1>1 DEF TypeOK
<1>4. \A y \in msgs' : y.t = "ckpt" => y.lsn <= Latest'
  BY <1>1, <1>2 DEF Announced
<1>5. \A y \in msgs' : y.t = "clean" => y.lsn <= disk'
  BY <1>1, <1>2 DEF Announced
<1>6. \A j \in Inst : \A g \in grp'[j] : g.clean => g.lsn <= disk'
  BY <1>1, <1>3 DEF Announced
<1>7. \A j \in Inst : \A l \in cln'[j] : l <= disk'
  BY <1>1 DEF Announced
<1> QED BY <1>4, <1>5, <1>6, <1>7 DEF Announced

\* Without an entry the newest page is on disk.
LEMMA NoEntry ==
    ASSUME IInv, Safe, Current, ~ res.used
    PROVE  disk = Latest
<1>1. TypeOK /\ Global /\ Claims /\ EntrySound
  BY SafeParts DEF IInv, CatalogueSound
<1>2. ~ Converting(res)
  BY <1>1 DEF EntrySound, NoRes, Converting
<1>3. AtRest(msgs)
  BY <1>1, <1>2, RestIdle
<1>4. \A j \in Inst : ~ Holds(j)
  BY <1>1 DEF Global, Power
<1> QED BY <1>3, <1>4, NobodyHolds

\* The master passes on that lsn l is on disk (dcs_master_clean_edp).
LEMMA CleanPassed ==
    ASSUME NEW l, NEW dbwr, MasterClean(l, dbwr)
    PROVE  \A j \in Inst : \A k \in cln'[j] : k \in cln[j] \/ k = l
<1>1. CASE cln' = cln
  BY <1>1
<1>2. CASE cln' # cln
  <2> DEFINE to == (IF res.edp = {} THEN Inst ELSE res.edp) \ (IF dbwr THEN {Master} ELSE {})
  <2>1. cln' = [j \in Inst |-> IF j \in to THEN cln[j] \cup {l} ELSE cln[j]]
    BY <1>2, Zenon DEF MasterClean
  <2> HIDE DEF to
  <2> QED BY <2>1
<1> QED BY <1>1, <1>2

\* A step of the page protocol keeps what the checkpoints rely on.
LEMMA DurablePlain ==
    ASSUME IInv, IInv', Durable, \A j \in Inst : Held(j), Groups, Plain,
           hist' = hist \/ \E i \in Inst : ModifyPage(i)
    PROVE  Durable'
<1>1. Latest \in Nat /\ Latest' \in Nat /\ Latest' >= Latest /\ TypeOK /\ TypeOK' /\ disk \in Nat
  BY LatestGrows, LsnTypes DEF IInv
<1>2. Announced'
  <2>1. \A y \in msgs' : y.t \in {"clean", "ckpt"} => y \in msgs
    BY DEF Plain, PageMsg
  <2>2. grp' = grp /\ cln' = cln /\ disk' = disk
    BY DEF Plain, Groups
  <2>3. \A j \in Inst : \A l \in cln'[j] : l \in Nat
    BY <1>1 DEF TypeOK
  <2> QED BY <1>1, <2>1, <2>2, <2>3, AnnouncedStep DEF Durable
<1> QED BY <1>2, RedoStep, BoundedStep DEF Durable

\* A step of a checkpoint: what it announces is on disk.
LEMMA DurableCkpt ==
    ASSUME IInv, IInv', Safe, Current, Grouped, Durable, \A j \in Inst : Held(j), Groups,
           ProcCkptReq \/ ProcCleanReq \/ \E i \in Inst : Ckpt(i)
    PROVE  Durable'
<1>1. /\ TypeOK /\ TypeOK' /\ Latest \in Nat /\ disk \in Nat /\ Announced /\ disk' = disk
      /\ \A j \in Inst : ctrl[j].lsn \in Nat /\ mark[j] \in Nat /\ out[j] \in SUBSET Nat
      /\ \A j \in Inst : \A l \in cln'[j] : l \in Nat
  BY LsnTypes DEF IInv, TypeOK, Durable, Groups
<1>2. hist' = hist
  <2>1. CASE ProcCkptReq \/ ProcCleanReq
    BY <2>1 DEF ProcCkptReq, ProcCleanReq
  <2>2. ASSUME NEW i \in Inst, Ckpt(i)
        PROVE  hist' = hist
    BY <2>2 DEF Ckpt, CkptRemotePrepare, CkptCleanLocal, CkptPrepareNormal, CkptAnnounce
  <2> QED BY <2>1, <2>2
<1>3. Latest' = Latest /\ Latest' \in Nat /\ Latest' >= Latest
  BY <1>1, <1>2 DEF Latest
<1>4. ASSUME Announced' PROVE Durable'
  BY <1>2, <1>4, RedoStep, BoundedStep DEF Durable
<1>5. ASSUME msgs' = msgs, cln' = cln, \A j \in Inst : \A g \in grp'[j] : g \in grp[j]
      PROVE  Announced'
  BY <1>1, <1>3, <1>5, AnnouncedStep
<1>6. ASSUME NEW i \in Inst, CkptRemotePrepare(i)
      PROVE  Durable'
  <2>1. msgs' = msgs /\ cln' = cln /\ \E g : grp' = [grp EXCEPT ![i] = @ \ {g}]
    BY <1>6 DEF CkptRemotePrepare
  <2>2. \A j \in Inst : \A g \in grp'[j] : g \in grp[j]
    BY <1>1, <2>1 DEF TypeOK
  <2> QED BY <1>4, <1>5, <2>1, <2>2
<1>7. ASSUME NEW i \in Inst, CkptCleanLocal(i)
      PROVE  Durable'
  <2>1. msgs' = msgs /\ grp' = grp /\ \E l : cln' = [cln EXCEPT ![i] = @ \ {l}]
    BY <1>7 DEF CkptCleanLocal
  <2>2. \A j \in Inst : \A l \in cln'[j] : l \in cln[j]
    BY <1>1, <2>1 DEF TypeOK
  <2> QED BY <1>1, <1>3, <1>4, <2>1, <2>2, AnnouncedStep
<1>8. ASSUME NEW i \in Inst, CkptPrepareNormal(i)
      PROVE  Durable'
  <2>1. cln' = cln /\ grp' = grp
    BY <1>8 DEF CkptPrepareNormal
  <2>2. CASE Send({CkptReq(ctrl[i].lsn)})
    <3>1. \A y \in msgs' : y \in msgs \/ (y.t = "ckpt" /\ y.lsn = ctrl[i].lsn)
      <4>1. \A y \in msgs' : y \in msgs \/ y \in {CkptReq(ctrl[i].lsn)}
        BY <2>2, Network, Zenon
      <4> QED BY <4>1 DEF CkptReq
    <3>2. ctrl[i].lsn <= Latest
      BY DEF Current, Blocks, BlockOK
    <3>3. Announced'
      BY <1>1, <1>3, <2>1, <3>1, <3>2, AnnouncedStep
    <3> QED BY <1>4, <3>3
  <2>3. CASE msgs' = msgs
    BY <1>4, <1>5, <2>1, <2>3
  <2> QED BY <1>8, <2>2, <2>3 DEF CkptPrepareNormal
<1>9. ASSUME NEW i \in Inst, CkptAnnounce(i)
      PROVE  Durable'
  <2>1. PICK l \in out[i] :
          IF i = Master
          THEN MasterClean(l, TRUE) /\ UNCHANGED msgs
          ELSE Send({CleanReq(l)}) /\ UNCHANGED <<res, cln>>
    BY <1>9 DEF CkptAnnounce
  <2>2. grp' = grp /\ mark[i] = 0
    BY <1>9 DEF CkptAnnounce
  <2>3. l \in Nat /\ l <= disk
    <3>1. l \in Nat /\ (l <= disk \/ l <= 0)
      BY <1>1, <2>2 DEF Grouped
    <3> QED BY <1>1, <3>1
  <2>4. CASE i = Master
    <3>1. \A j \in Inst : \A k \in cln'[j] : k \in cln[j] \/ k = l
      BY <2>1, <2>4, CleanPassed
    <3>2. Announced'
      BY <1>1, <1>3, <2>1, <2>2, <2>3, <2>4, <3>1, AnnouncedStep
    <3> QED BY <1>4, <3>2
  <2>5. CASE i # Master
    <3>1. \A y \in msgs' : y \in msgs \/ (y.t = "clean" /\ y.lsn = l)
      BY <2>1, <2>5, Network DEF CleanReq
    <3>2. Announced'
      BY <1>1, <1>3, <2>1, <2>2, <2>3, <2>5, <3>1, AnnouncedStep
    <3> QED BY <1>4, <3>2
  <2> QED BY <2>4, <2>5
<1>10. CASE ProcCleanReq
  <2>1. PICK m \in msgs : m.t = "clean" /\ MasterClean(m.lsn, FALSE) /\ Exchange(m, {})
    BY <1>10 DEF ProcCleanReq
  <2>2. grp' = grp
    BY <1>10 DEF ProcCleanReq
  <2>3. m.lsn \in Nat /\ m.lsn <= disk
    BY <1>1, <2>1, MsgFields DEF Announced, TypeOK
  <2>4. \A j \in Inst : \A k \in cln'[j] : k \in cln[j] \/ k = m.lsn
    BY <2>1, CleanPassed
  <2>5. \A y \in msgs' : y \in msgs
    BY <2>1, Network
  <2>6. Announced'
    BY <1>1, <1>3, <2>2, <2>3, <2>4, <2>5, AnnouncedStep
  <2> QED BY <1>4, <2>6
<1>11. CASE ProcCkptReq
  <2> DEFINE to == IF res.used THEN {res.owner} ELSE Inst
  <2>1. PICK m \in msgs :
          /\ m.t = "ckpt" /\ Exchange(m, {})
          /\ grp' = [j \in Inst |-> IF j \in to THEN grp[j] \cup {[lsn |-> m.lsn, clean |-> ~ res.used]}
                                    ELSE grp[j]]
    BY <1>11, Zenon DEF ProcCkptReq
  <2>2. cln' = cln
    BY <1>11 DEF ProcCkptReq
  <2>3. PICK g : g = [lsn |-> m.lsn, clean |-> ~ res.used]
    OBVIOUS
  <2>4. \A j \in Inst : \A k \in grp'[j] : k \in grp[j] \/ k = g
    BY <2>1, <2>3
  <2>5. m.lsn \in Nat /\ m.lsn <= Latest
    BY <1>1, <2>1, MsgFields DEF Announced, TypeOK
  <2>6. ~ res.used => disk = Latest
    BY NoEntry
  <2>7. g.lsn \in Nat /\ (g.clean => g.lsn <= disk)
    BY <1>1, <2>3, <2>5, <2>6
  <2>8. \A y \in msgs' : y \in msgs
    BY <2>1, Network
  <2>9. Announced'
    BY <1>1, <1>3, <2>2, <2>4, <2>7, <2>8, AnnouncedStep
  <2> QED BY <1>4, <2>9
<1> QED BY <1>6, <1>7, <1>8, <1>9, <1>10, <1>11 DEF Ckpt

\* A group is written and the disk page gets no older: what was in the group is
\* on disk.
LEMMA DurableWrite ==
    ASSUME IInv, IInv', Durable, NEW i \in Inst, CkptWrite(i), disk' >= disk
    PROVE  Durable'
<1>1. /\ TypeOK /\ TypeOK' /\ Latest \in Nat /\ disk \in Nat /\ disk' \in Nat
      /\ \A j \in Inst : mark[j] \in Nat /\ ctrl[j].lsn \in Nat
      /\ \A j \in Inst : \A l \in cln[j] : l \in Nat
  BY LsnTypes DEF IInv, TypeOK
<1>2. /\ UNCHANGED <<ctrl, msgs, grp, cln, hist>>
      /\ disk' = mark[i] /\ mark' = [mark EXCEPT ![i] = 0]
  BY DEF CkptWrite
<1>3. Latest' = Latest
  BY <1>2 DEF Latest
<1>4. Announced'
  BY <1>1, <1>2, <1>3, AnnouncedStep DEF Durable
<1>5. Bounded'
  BY <1>2, BoundedStep DEF Durable
<1>6. RedoHeld'
  <2> SUFFICES ASSUME NEW v, v \in (disk' + 1) .. Latest
               PROVE  LET k == hist[v - 1]
                      IN  (ctrl[k].dirty /\ v <= ctrl[k].lsn) \/ v <= mark'[k]
    BY <1>2, <1>3 DEF RedoHeld
  <2>1. v \in (disk + 1) .. Latest /\ v \in Nat /\ v > disk' /\ v - 1 \in 1 .. Len(hist)
    <3>1. disk > 0 /\ Latest = Len(hist) + 1 /\ Len(hist) \in Nat
      BY <1>1 DEF Durable, Bounded, Latest, TypeOK
    <3>2. PICK d : d = disk'
      OBVIOUS
    <3>3. d \in Nat /\ disk \in Nat /\ Latest \in Nat /\ d >= disk /\ v \in (d + 1) .. Latest
      BY <1>1, <3>2
    <3>4. v \in Int /\ v >= d + 1 /\ v <= Latest
      BY <3>3
    <3>5. v >= disk + 1 /\ v > d /\ v - 1 >= 1 /\ v - 1 <= Len(hist)
      BY <3>1, <3>3, <3>4
    <3> QED BY <3>1, <3>2, <3>3, <3>4, <3>5
  <2>2. PICK k \in Inst : k = hist[v - 1]
    <3>1. hist \in Seq(Inst)
      BY <1>1 DEF TypeOK
    <3> QED BY <2>1, <3>1
  <2>3. (ctrl[k].dirty /\ v <= ctrl[k].lsn) \/ v <= mark[k]
    BY <2>1, <2>2 DEF Durable, RedoHeld
  <2>4. v <= mark[k] => k # i
    BY <1>1, <1>2, <2>1
  <2>5. k # i => mark'[k] = mark[k]
    BY <1>1, <1>2 DEF TypeOK
  <2> QED BY <2>2, <2>3, <2>4, <2>5
<1> QED BY <1>4, <1>5, <1>6 DEF Durable

\* At the start nothing is changed, written or announced.
LEMMA DurableInit == Init => Durable
<1> SUFFICES ASSUME Init PROVE Durable
  OBVIOUS
<1>1. msgs = {} /\ disk = 1 /\ hist = <<>>
  BY DEF Init
<1>2. Latest = 1
  BY <1>1 DEF Latest
<1>3. \A i \in Inst : mark[i] = 0 /\ cln[i] = {} /\ grp[i] = {}
  BY DEF Init
<1>4. RedoHeld
  <2>1. (disk + 1) .. Latest = {}
    BY <1>1, <1>2
  <2> QED BY <2>1 DEF RedoHeld
<1> QED BY <1>1, <1>2, <1>3, <1>4 DEF Durable, Bounded, Announced

\* Every step keeps what the checkpoints rely on.
LEMMA DurableNext ==
    ASSUME IInv, IInv', Safe, Current, Prompt, Grouped, Durable, [Next]_vars,
           [disk' >= disk]_vars
    PROVE  Durable'
<1>1. \A j \in Inst : Held(j)
  BY HeldNext DEF Durable
<1>2. ASSUME NEW i \in Inst, CkptWrite(i)
      PROVE  Durable'
  <2>1. disk' >= disk
    <3>1. disk \in Nat /\ (disk' >= disk \/ disk' = disk)
      BY LsnTypes DEF IInv, vars
    <3> QED BY <3>1
  <2> QED BY <1>2, <2>1, DurableWrite
<1>3. CASE \A i \in Inst : ~ CkptWrite(i)
  <2>1. Groups
    BY <1>3, GroupStep
  <2>2. ASSUME Plain, hist' = hist \/ \E i \in Inst : ModifyPage(i)
        PROVE  Durable'
    BY <1>1, <2>1, <2>2, DurablePlain
  <2>3. ASSUME NEW i \in Inst, Session(i) \/ LeavePage(i) \/ Answer(i)
        PROVE  Durable'
    <3>1. hist' = hist \/ ModifyPage(i)
      <4>1. CASE Session(i)
        BY <4>1 DEF Session, EnterLocal, EnterRemote, RequestTimeout, Evict
      <4>2. CASE LeavePage(i) \/ Answer(i)
        BY <4>2 DEF LeavePage, Answer, HandleError, HandleNeedLoad, HandleAlreadyOwner, HandlePageReady
      <4> QED BY <2>3, <4>1, <4>2
    <3> QED BY <2>2, <2>3, <3>1, PlainSession
  <2>4. ASSUME NEW i \in Inst, MasterAsk(i) \/ MasterClaim(i)
        PROVE  Durable'
    <3>1. hist' = hist
      BY <2>4 DEF MasterAsk, AskGranted, AskRejected, AskConverting, AskRetried, AskQueued,
                  MasterClaim, ProcClaim, ProcClaimIgnored
    <3> QED BY <2>2, <2>4, <3>1, PlainAsk, PlainClaim
  <2>5. ASSUME NEW i \in Inst, InvalidateCopy(i) \/ OwnerTransfer(i) \/ RoundDone \/ Recycle
        PROVE  Durable'
    <3>1. hist' = hist
      BY <2>5 DEF InvalidateCopy, OwnerTransfer, RoundDone, Recycle, RecycleStart, RecycleOwner, RecycleDone
    <3> QED BY <2>2, <2>5, <3>1, PlainRest
  <2>6. ASSUME ProcCkptReq \/ ProcCleanReq \/ \E i \in Inst : Ckpt(i)
        PROVE  Durable'
    BY <1>1, <2>1, <2>6, DurableCkpt
  <2>7. ASSUME NEW i \in Inst, NodeStep(i)
        PROVE  Durable'
    BY <2>3, <2>4, <2>5, <2>6, <2>7 DEF NodeStep
  <2>8. ASSUME RoundDone \/ Recycle
        PROVE  Durable'
    <3>1. Master \in Inst
      BY DcsAssumption
    <3> QED BY <2>5, <2>8, <3>1
  <2>9. CASE Next
    BY <1>3, <2>6, <2>7, <2>8, <2>9, Zenon DEF Next
  <2>10. CASE UNCHANGED vars
    <3>1. Plain /\ hist' = hist
      BY <2>10 DEF vars, Plain
    <3> QED BY <2>2, <3>1
  <2> QED BY <2>9, <2>10
<1> QED BY <1>2, <1>3

\* What the checkpoints rely on holds as long as what they announce is written
\* or in a group and no older page was written over a newer one.
LEMMA AlwaysDurable == Prompt /\ Spec /\ []Grouped /\ NoneOlder => []Durable
<1>1. Init => Durable
  BY DurableInit
<1>2. (/\ IInv /\ IInv' /\ (Prompt => Safe) /\ (Prompt => Current) /\ Prompt
       /\ Grouped /\ Durable /\ [Next]_vars /\ [disk' >= disk]_vars) => Durable'
  BY DurableNext
<1>3. Prompt /\ [Next]_vars => Prompt'
  BY DEF Prompt
<1> QED BY <1>1, <1>2, <1>3, AlwaysIInv, AlwaysSafe, AlwaysCurrent, PTL DEF Spec, NoneOlder

\* A change that is not on disk is still dirty, or being written, on the
\* instance whose redo has it, wherever the page went meanwhile: the
\* checkpoint of no instance moves its recovery point past redo that is still
\* needed, in a cluster of any size, through any number of owners and with
\* blocks evicted and writes delayed at will, unless a checkpoint announces
\* what it does not write or writes over a newer page (dcs_buf_clean_ctrl_edp,
\* ckpt_prepare_normal, dcs_ckpt_remote_edp_prepare).
THEOREM RedoIsKept == Prompt /\ Spec /\ []Grouped /\ NoneOlder => []RedoKept
<1>1. ASSUME IInv, Durable PROVE RedoKept
  <2> SUFFICES ASSUME NEW v \in (disk + 1) .. Latest
               PROVE  ctrl[hist[v - 1]].dirty \/ mark[hist[v - 1]] >= v
    BY DEF RedoKept
  <2>1. TypeOK /\ Latest \in Nat /\ disk \in Nat
    BY <1>1, LsnTypes DEF IInv
  <2>2. v - 1 \in 1 .. Len(hist)
    BY <1>1, <2>1 DEF Durable, Bounded, Latest
  <2>3. PICK i \in Inst : i = hist[v - 1]
    BY <2>1, <2>2 DEF TypeOK
  <2>4. (ctrl[i].dirty /\ v <= ctrl[i].lsn) \/ v <= mark[i]
    BY <1>1, <2>3 DEF Durable, RedoHeld
  <2>5. v \in Int /\ mark[i] \in Nat
    BY <2>1 DEF TypeOK
  <2> QED BY <2>3, <2>4, <2>5
<1>2. IInv /\ Durable => RedoKept
  BY <1>1
<1> QED BY <1>2, AlwaysIInv, AlwaysDurable, PTL

\* Under the same assumptions a former owner drops its early dirty page only
\* when the changes in it are on disk, or when it owns the page anew, although
\* requests to write, announcements and transfers pass each other
\* (buf_clean_edp, dcs_master_clean_edp, dcs_handle_page_from_owner).
THEOREM EdpDroppedOnDisk == Prompt /\ Spec /\ []Grouped /\ NoneOlder => EdpOnDisk
<1> DEFINE Dropped == \A i \in Inst : ctrl[i].edp /\ ~ ctrl'[i].edp =>
                          \/ disk >= ctrl[i].lsn
                          \/ ctrl'[i].lock = DRC_LOCK_EXCLUSIVE
<1>1. ASSUME IInv, Safe, Current, Prompt, Durable, [Next]_vars
      PROVE  Dropped
  <2>1. \A j \in Inst : Held(j)
    BY <1>1, HeldNext DEF Durable
  <2>2. disk \in Nat /\ \A j \in Inst : ctrl[j].lsn \in Nat
    BY <1>1, LsnTypes DEF IInv
  <2> QED BY <2>1, <2>2 DEF Held
<1>2. (/\ IInv /\ (Prompt => Safe) /\ (Prompt => Current) /\ Prompt
       /\ Durable /\ [Next]_vars) => [Dropped]_ctrl
  BY <1>1
<1>3. Prompt /\ [Next]_vars => Prompt'
  BY DEF Prompt
<1> QED BY <1>2, <1>3, AlwaysIInv, AlwaysSafe, AlwaysCurrent, AlwaysDurable, PTL DEF Spec, EdpOnDisk
=============================================================================
