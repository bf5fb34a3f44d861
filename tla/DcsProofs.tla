----------------------------- MODULE DcsProofs -----------------------------
(***************************************************************************)
(* Theorems about module Dcs, for any cluster, any bound and any of the    *)
(* behaviours that its constants switch on: type correctness, and that the *)
(* catalogue entry of the page and the recycling of the entry fit together *)
(* whatever requests, claims, timeouts and checkpoints come in.            *)
(***************************************************************************)
EXTENDS Dcs, TLAPS, SequenceTheorems

-----------------------------------------------------------------------------
(***************************************************************************)
(* The operators of Drc on an entry.                                       *)
(***************************************************************************)
\* The lock modes (drc_lock_mode_e).
LEMMA Modes ==
    /\ DRC_LOCK_NULL \in LockMode /\ DRC_LOCK_SHARE \in LockMode
    /\ DRC_LOCK_EXCLUSIVE \in LockMode /\ ReqMode \subseteq LockMode
BY DEF ReqMode, LockMode, DRC_LOCK_SHARE, DRC_LOCK_EXCLUSIVE, DRC_LOCK_NULL

\* The fields of a request (drc_req_info_t).
LEMMA ReqFields ==
    ASSUME NEW r \in ReqInfo
    PROVE  /\ r.inst \in Inst /\ r.mode \in ReqMode /\ r.mode \in LockMode
           /\ r.curr \in LockMode /\ r.lsn \in Nat /\ r.sn \in Nat
BY Modes DEF ReqInfo

\* A converting request is a real one: NoReq names no instance.
LEMMA ConvertingReq ==
    ASSUME NEW rs \in BufRes
    PROVE  Converting(rs) <=> rs.conv \in ReqInfo
BY NoInstAssumption DEF BufRes, Converting, ReqInfo, NoReq

\* The absent entry.
LEMMA NoResType ==
    NoRes \in BufRes /\ ~ NoRes.used /\ ~ NoRes.pending /\ NoRes.q = <<>> /\ NoRes.copies = {}
BY Modes DEF BufRes, NoRes

\* A granted entry is well formed and idle (drc_request_page_owner).
LEMMA GrantType ==
    ASSUME NEW r \in ReqInfo
    PROVE  /\ drc_grant(r) \in BufRes
           /\ drc_grant(r).used /\ drc_grant(r).owner \in Inst
           /\ drc_grant(r).q = <<>> /\ ~ drc_grant(r).pending
<1>1. drc_grant(r) \in BufRes
  BY NoResType, ReqFields DEF drc_grant, BufRes
<1>2. drc_grant(r).used /\ drc_grant(r).owner \in Inst
  BY NoResType, ReqFields DEF drc_grant, BufRes
<1>3. drc_grant(r).pending = NoRes.pending /\ drc_grant(r).q = NoRes.q
  BY NoResType, ReqFields DEF drc_grant, BufRes
<1> QED BY <1>1, <1>2, <1>3, NoResType

\* A claim leaves a well formed entry with an owner, and the requests as they
\* were (drc_claim_new_page_owner).
LEMMA ClaimType ==
    ASSUME NEW rs \in BufRes, rs.used, rs.owner \in Inst,
           NEW c, c.inst \in Inst, c.mode \in ReqMode, c.lsn \in Nat, c.edp \in BOOLEAN
    PROVE  LET n == drc_claim_new_page_owner(rs, c)
           IN  /\ n \in BufRes
               /\ n.used /\ n.owner \in Inst
               /\ n.conv = rs.conv /\ n.q = rs.q /\ n.pending = rs.pending
<1> DEFINE s == [rs EXCEPT !.mode = DRC_LOCK_SHARE, !.copies = @ \cup {c.inst}]
           e == (rs.edp \ {c.inst}) \cup (IF c.edp THEN {rs.owner} ELSE {})
           l == IF c.edp THEN rs.owner ELSE rs.latest
           x == [rs EXCEPT !.owner = c.inst, !.mode = c.mode, !.copies = {},
                           !.edp = e, !.latest = l]
           Good(n) == /\ n \in BufRes
                      /\ n.used /\ n.owner \in Inst
                      /\ n.conv = rs.conv /\ n.q = rs.q /\ n.pending = rs.pending
<1>1. rs.copies \cup {c.inst} \in SUBSET Inst
  BY DEF BufRes
<1>2. Good(s)
  BY Modes, <1>1 DEF BufRes
<1>3. c.mode \in LockMode
  BY Modes
<1>4. e \in SUBSET Inst /\ l \in Inst \cup {NoInst}
  BY DEF BufRes
<1>5. Good(x)
  <2> HIDE DEF e, l
  <2> QED BY <1>3, <1>4 DEF BufRes
<1>6. Good([s EXCEPT !.lsn = c.lsn])
  <2> HIDE DEF s
  <2> QED BY <1>2 DEF BufRes
<1>7. Good([x EXCEPT !.lsn = c.lsn])
  <2> HIDE DEF x
  <2> QED BY <1>5 DEF BufRes
<1>8. \/ drc_claim_new_page_owner(rs, c) \in {rs, s, x}
      \/ drc_claim_new_page_owner(rs, c) = [s EXCEPT !.lsn = c.lsn]
      \/ drc_claim_new_page_owner(rs, c) = [x EXCEPT !.lsn = c.lsn]
  BY Zenon DEF drc_claim_new_page_owner
<1> QED BY <1>2, <1>5, <1>6, <1>7, <1>8

\* Converting the next request takes it out of the queue; with nothing to
\* convert the queue is empty.
LEMMA PopType ==
    ASSUME NEW rs \in BufRes, NEW k \in Nat
    PROVE  LET n == drc_pop_request(rs, k)
           IN  /\ n \in BufRes
               /\ n.used = rs.used /\ n.owner = rs.owner /\ n.pending = rs.pending
               /\ n.edp = rs.edp /\ n.copies = rs.copies
               /\ n.q # <<>> => Converting(n)
<1>1. CASE k >= Len(rs.q)
  <2>1. drc_pop_request(rs, k) = [rs EXCEPT !.q = <<>>, !.conv = NoReq]
    BY <1>1 DEF drc_pop_request
  <2>2. <<>> \in Seq(ReqInfo)
    OBVIOUS
  <2> QED BY <2>1, <2>2 DEF BufRes
<1>2. CASE ~ (k >= Len(rs.q))
  <2>1. rs.q \in Seq(ReqInfo) /\ Len(rs.q) \in Nat
    BY DEF BufRes
  <2>2. rs.q[k + 1] \in ReqInfo
    BY <1>2, <2>1
  <2>3. SubSeq(rs.q, k + 2, Len(rs.q)) \in Seq(ReqInfo)
    BY <1>2, <2>1
  <2>4. drc_pop_request(rs, k) =
          [rs EXCEPT !.q = SubSeq(rs.q, k + 2, Len(rs.q)), !.conv = rs.q[k + 1]]
    BY <1>2 DEF drc_pop_request
  <2>5. drc_pop_request(rs, k) \in BufRes /\ drc_pop_request(rs, k).conv \in ReqInfo
    BY <2>2, <2>3, <2>4 DEF BufRes
  <2> QED BY <2>4, <2>5, ConvertingReq DEF BufRes
<1> QED BY <1>1, <1>2

\* Taking out a conflicting first request changes nothing else.
LEMMA CheckFirstType ==
    ASSUME NEW rs \in BufRes, rs.q # <<>> => Converting(rs)
    PROVE  LET n == drc_check_first_req_in_convert_queue(rs)
           IN  /\ n \in BufRes
               /\ n.used = rs.used /\ n.owner = rs.owner /\ n.pending = rs.pending
               /\ n.conv = rs.conv /\ n.edp = rs.edp
               /\ n.q # <<>> => Converting(n)
<1>1. rs.q # <<>> => Tail(rs.q) \in Seq(ReqInfo)
  BY DEF BufRes
<1>2. CASE FirstConflicts(rs)
  BY <1>1, <1>2 DEF drc_check_first_req_in_convert_queue, FirstConflicts, BufRes, Converting
<1>3. CASE ~ FirstConflicts(rs)
  BY <1>3 DEF drc_check_first_req_in_convert_queue
<1> QED BY <1>2, <1>3

\* Forgetting the early dirty pages (drc_clean_edp_info).
LEMMA CleanType ==
    ASSUME NEW rs \in BufRes, NEW l \in Nat
    PROVE  LET n == drc_clean_edp_info(rs, l)
           IN  /\ n \in BufRes
               /\ n.used = rs.used /\ n.owner = rs.owner /\ n.pending = rs.pending
               /\ n.conv = rs.conv /\ n.q = rs.q
               /\ rs.edp = {} => n.edp = {}
BY DEF drc_clean_edp_info, BufRes

-----------------------------------------------------------------------------
(***************************************************************************)
(* The operators of BufCtrl on a control block.                            *)
(***************************************************************************)
\* The absent block.
LEMMA NoCtrlType == NoCtrl \in BufCtrl
BY Modes DEF NoCtrl, BufCtrl

\* The changes that the protocol makes keep a block well formed.
LEMMA CtrlTypes ==
    ASSUME NEW c \in BufCtrl
    PROVE  /\ buf_alloc_ctrl(c) \in BufCtrl
           /\ dtc_buf_request_failed(c) \in BufCtrl
           /\ dcs_buf_clean_ctrl_edp(c) \in BufCtrl
           /\ dcs_set_ctrl4granted(c) \in BufCtrl
           /\ Invalidated(c) \in BufCtrl
           /\ CkptCopied(c) \in BufCtrl
<1>1. buf_alloc_ctrl(c) \in BufCtrl
  BY NoCtrlType DEF buf_alloc_ctrl, BufCtrl
<1>2. dtc_buf_request_failed(c) \in BufCtrl
  BY DEF dtc_buf_request_failed, BufCtrl
<1>3. dcs_buf_clean_ctrl_edp(c) \in BufCtrl
  BY DEF dcs_buf_clean_ctrl_edp, BufCtrl
<1>4. dcs_set_ctrl4granted(c) \in BufCtrl
  BY Modes, <1>3 DEF dcs_set_ctrl4granted, BufCtrl
<1>5. Invalidated(c) \in BufCtrl
  BY Modes DEF Invalidated, BufCtrl
<1>6. CkptCopied(c) \in BufCtrl
  BY DEF CkptCopied, BufCtrl
<1> QED BY <1>1, <1>2, <1>3, <1>4, <1>5, <1>6

\* The changes that depend on a lock mode (dcs_set_ctrl4already_owner,
\* dcs_owner_transfer_page).
LEMMA CtrlModeTypes ==
    ASSUME NEW c \in BufCtrl, NEW mode \in LockMode
    PROVE  /\ dcs_set_ctrl4already_owner(c, mode) \in BufCtrl
           /\ OwnerAfterTransfer(c, mode) \in BufCtrl
<1>1. dcs_set_ctrl4already_owner(c, mode) \in BufCtrl
  BY DEF dcs_set_ctrl4already_owner, BufCtrl
<1>2. (c.edp \/ c.dirty) \in BOOLEAN
  OBVIOUS
<1>3. OwnerAfterTransfer(c, mode) \in BufCtrl
  BY Modes, <1>2 DEF OwnerAfterTransfer, BufCtrl
<1> QED BY <1>1, <1>3

\* Loading from disk (dtc_buf_finish).
LEMMA FinishType ==
    ASSUME NEW c \in BufCtrl, NEW d \in Nat
    PROVE  dtc_buf_finish(c, d) \in BufCtrl
BY DEF dtc_buf_finish, BufCtrl

\* Taking over the page from its owner (dcs_handle_page_from_owner).
LEMMA PageType ==
    ASSUME NEW c \in BufCtrl, NEW ack, ack.mode \in LockMode, ack.lsn \in Nat,
           ack.dirty \in BOOLEAN, ack.rdirty \in BOOLEAN
    PROVE  dcs_handle_page_from_owner(c, ack) \in BufCtrl
<1> DEFINE c1 == IF ack.flag = "page" THEN [c EXCEPT !.lsn = ack.lsn] ELSE c
           c2 == IF ack.flag = "need" THEN dcs_buf_clean_ctrl_edp(c1) ELSE c1
           rd == ack.mode = DRC_LOCK_EXCLUSIVE /\ (ack.dirty \/ ack.rdirty)
           ld == IF ack.flag = "need" THEN "need" ELSE "loaded"
           ed == IF ack.mode = DRC_LOCK_EXCLUSIVE THEN FALSE ELSE c2.edp
<1>1. c1 \in BufCtrl
  BY DEF BufCtrl
<1>2. c2 \in BufCtrl
  BY <1>1, CtrlTypes
<1>3. rd \in BOOLEAN /\ ld \in {"need", "loaded", "failed"}
  OBVIOUS
<1>4. ed \in BOOLEAN
  BY <1>2 DEF BufCtrl
<1>5. dcs_handle_page_from_owner(c, ack) =
        [c2 EXCEPT !.lock = ack.mode, !.load = ld, !.edp = ed, !.rdirty = rd]
  BY Zenon DEF dcs_handle_page_from_owner
<1> HIDE DEF c2, rd, ld, ed
<1> QED BY <1>2, <1>3, <1>4, <1>5 DEF BufCtrl
-----------------------------------------------------------------------------
(***************************************************************************)
(* Messages.                                                               *)
(***************************************************************************)
\* What the handlers read from a message.
LEMMA MsgFields ==
    ASSUME NEW m \in Msg
    PROVE  /\ m.t = "ask" => m.req \in ReqInfo
           /\ m.t = "own" => m.req \in ReqInfo /\ m.to \in Inst /\ m.retry \in BOOLEAN
           /\ m.t = "claim" => m.inst \in Inst /\ m.mode \in ReqMode /\ m.edp \in BOOLEAN /\ m.lsn \in Nat
           /\ m.t \in {"load", "already", "err", "page"} =>
                /\ m.to \in Inst /\ m.mode \in ReqMode /\ m.lsn \in Nat
                /\ m.dirty \in BOOLEAN /\ m.rdirty \in BOOLEAN
           /\ m.t \in {"ckpt", "clean"} => m.lsn \in Nat
BY DEF Msg, ReplyType

\* What the handlers send.
LEMMA SentTypes ==
    ASSUME NEW r \in ReqInfo
    PROVE  /\ Ask(r) \in Msg
           /\ \A o \in Inst, retry \in BOOLEAN : NotifyOwner(o, r, retry) \in Msg
           /\ \A t \in {"load", "already", "err"} : Reply(t, r) \in Msg
           /\ \A flag \in {"page", "r2x", "need"}, c \in BufCtrl : PageReady(r, flag, c) \in Msg
<1>1. Ask(r) \in Msg
  BY DEF Ask, Msg
<1>2. \A t \in {"load", "already", "err", "page"} : Reply(t, r) \in ReplyType
  BY ReqFields DEF Reply, ReplyType
<1>3. ReplyType \subseteq Msg
  BY Zenon DEF Msg
<1>4. ASSUME NEW o \in Inst, NEW retry \in BOOLEAN
      PROVE  NotifyOwner(o, r, retry) \in Msg
  <2>1. AskOwner(o, r, retry) \in Msg
    BY DEF AskOwner, Msg
  <2> QED BY <1>2, <1>3, <2>1 DEF NotifyOwner
<1>5. ASSUME NEW flag \in {"page", "r2x", "need"}, NEW c \in BufCtrl
      PROVE  PageReady(r, flag, c) \in Msg
  <2>1. c.lsn \in Nat /\ c.dirty \in BOOLEAN /\ c.rdirty \in BOOLEAN
    BY DEF BufCtrl
  <2>2. Reply("page", r) \in ReplyType
    BY <1>2
  <2>3. PageReady(r, flag, c) \in ReplyType
    BY <2>1, <2>2 DEF PageReady, ReplyType
  <2> QED BY <1>3, <2>3
<1> QED BY <1>1, <1>2, <1>3, <1>4, <1>5

\* A claim as a session makes it.
LEMMA ClaimMsgType ==
    ASSUME NEW i \in Inst, NEW mode \in ReqMode, NEW edp \in BOOLEAN, NEW c \in BufCtrl
    PROVE  Claim(i, mode, edp, dtc_get_ctrl_latest_lsn(c)) \in Msg
<1>1. dtc_get_ctrl_latest_lsn(c) \in Nat
  BY DEF dtc_get_ctrl_latest_lsn, BufCtrl
<1> QED BY <1>1 DEF Claim, Msg

\* Sending well formed messages keeps the set of messages well formed.
LEMMA NetType ==
    ASSUME msgs \in SUBSET Msg, NEW S \in SUBSET Msg, NEW m
    PROVE  /\ Exchange(m, S) => msgs' \in SUBSET Msg
           /\ Send(S) => msgs' \in SUBSET Msg
BY DEF Exchange, Send, Live

-----------------------------------------------------------------------------
(***************************************************************************)
(* Type correctness.  A message to an owner is well formed only because an *)
(* entry in use and an invalidation round have an owner, so the invariant  *)
(* of the catalogue is proved together with the types.                     *)
(***************************************************************************)
IInv == TypeOK /\ CatalogueSound

\* The initial state satisfies the invariant.
LEMMA InitIInv == Init => IInv
<1> SUFFICES ASSUME Init PROVE IInv
  OBVIOUS
<1>1. ctrl \in [Inst -> BufCtrl]
  BY NoCtrlType DEF Init
<1>2. ses \in [Inst -> [st : {"idle", "sleep", "ask", "got"}, mode : LockMode]]
  BY Modes DEF Init
<1>3. hist \in Seq(Inst)
  BY DEF Init
<1>4. TypeOK
  BY <1>1, <1>2, <1>3, NoResType DEF Init, TypeOK
<1>5. CatalogueSound
  BY NoResType DEF Init, CatalogueSound, EntrySound, RoundsSound, QueueServed
<1> QED BY <1>4, <1>5 DEF IInv

\* A session enters the page (dtc_read_page).
LEMMA TypeEnter ==
    ASSUME IInv, NEW i \in Inst, NEW mode \in ReqMode,
           EnterLocal(i, mode) \/ EnterRemote(i, mode)
    PROVE  TypeOK'
<1> DEFINE c == buf_alloc_ctrl(ctrl[i])
           r == [inst |-> i, mode |-> mode, curr |-> c.lock, lsn |-> c.lsn, sn |-> sn[i]]
<1>1. TypeOK
  BY DEF IInv
<1>2. c \in BufCtrl /\ mode \in LockMode
  BY <1>1, CtrlTypes, Modes DEF TypeOK
<1>3. r \in ReqInfo
  BY <1>1, <1>2 DEF TypeOK, ReqInfo, BufCtrl
<1>4. Ask(r) \in Msg
  BY <1>3, SentTypes
<1> HIDE DEF c, r
<1>5. CASE EnterLocal(i, mode)
  BY <1>1, <1>2, <1>5 DEF EnterLocal, TypeOK, c
<1>6. CASE EnterRemote(i, mode)
  <2>1. Send({Ask(r)}) /\ ctrl' = [ctrl EXCEPT ![i] = c]
    BY <1>6 DEF EnterRemote, c, r
  <2>2. msgs' \in SUBSET Msg
    BY <1>1, <1>4, <2>1, NetType DEF TypeOK
  <2> QED BY <1>1, <1>2, <1>6, <2>1, <2>2 DEF EnterRemote, TypeOK
<1> QED BY <1>5, <1>6

\* A session changes its state and keeps its mode.
LEMMA SesType ==
    ASSUME ses \in [Inst -> [st : {"idle", "sleep", "ask", "got"}, mode : LockMode]],
           NEW i \in Inst, NEW st \in {"idle", "sleep", "ask", "got"}
    PROVE  [ses EXCEPT ![i].st = st] \in [Inst -> [st : {"idle", "sleep", "ask", "got"}, mode : LockMode]]
OBVIOUS

\* A session takes a reply or gives up waiting (dcs_handle_ask_master_ack).
LEMMA TypeAnswer ==
    ASSUME IInv, NEW i \in Inst, Answer(i) \/ RequestTimeout(i)
    PROVE  TypeOK'
<1>1. TypeOK
  BY DEF IInv
<1>2. ctrl[i] \in BufCtrl
  BY <1>1 DEF TypeOK
<1>3. CASE HandleError(i)
  <2>1. PICK m \in msgs : ctrl' = [ctrl EXCEPT ![i] = dtc_buf_request_failed(@)] /\ Exchange(m, {})
    BY <1>3 DEF HandleError
  <2>2. msgs' \in SUBSET Msg
    BY <1>1, <2>1, NetType DEF TypeOK
  <2>3. dtc_buf_request_failed(ctrl[i]) \in BufCtrl
    BY <1>2, CtrlTypes
  <2>7. ses' = [ses EXCEPT ![i].st = "sleep"]
    BY <1>3 DEF HandleError
  <2>8. ses' \in [Inst -> [st : {"idle", "sleep", "ask", "got"}, mode : LockMode]]
    BY <1>1, <2>7, SesType DEF TypeOK
  <2>9. UNCHANGED <<res, inv, mark, grp, cln, out, disk, hist>> /\ panic' \in BOOLEAN /\ sn' \in [Inst -> Nat]
    BY <1>1, <1>3 DEF HandleError, TypeOK
  <2> QED BY <1>1, <2>1, <2>2, <2>3, <2>8, <2>9 DEF TypeOK
<1>4. CASE RequestTimeout(i)
  <2>1. dtc_buf_request_failed(ctrl[i]) \in BufCtrl
    BY <1>2, CtrlTypes
  <2>2. msgs' \in SUBSET Msg
    BY <1>1, <1>4 DEF RequestTimeout, TypeOK
  <2>7. ses' = [ses EXCEPT ![i].st = "sleep"]
    BY <1>4 DEF RequestTimeout
  <2>8. ses' \in [Inst -> [st : {"idle", "sleep", "ask", "got"}, mode : LockMode]]
    BY <1>1, <2>7, SesType DEF TypeOK
  <2>9. UNCHANGED <<res, inv, mark, grp, cln, out, disk, hist>> /\ panic' \in BOOLEAN /\ sn' \in [Inst -> Nat]
    BY <1>1, <1>4 DEF RequestTimeout, TypeOK
  <2>6. ctrl' = [ctrl EXCEPT ![i] = dtc_buf_request_failed(@)]
    BY <1>4 DEF RequestTimeout
  <2> QED BY <1>1, <2>1, <2>2, <2>6, <2>8, <2>9 DEF TypeOK
<1>5. CASE HandleNeedLoad(i)
  <2>1. PICK m \in msgs : ctrl' = [ctrl EXCEPT ![i] = dcs_set_ctrl4granted(@)] /\ Exchange(m, {})
    BY <1>5 DEF HandleNeedLoad
  <2>2. msgs' \in SUBSET Msg
    BY <1>1, <2>1, NetType DEF TypeOK
  <2>3. dcs_set_ctrl4granted(ctrl[i]) \in BufCtrl
    BY <1>2, CtrlTypes
  <2>7. ses' = [ses EXCEPT ![i].st = "got"]
    BY <1>5 DEF HandleNeedLoad
  <2>8. ses' \in [Inst -> [st : {"idle", "sleep", "ask", "got"}, mode : LockMode]]
    BY <1>1, <2>7, SesType DEF TypeOK
  <2>9. UNCHANGED <<res, inv, mark, grp, cln, out, disk, hist>> /\ panic' \in BOOLEAN /\ sn' \in [Inst -> Nat]
    BY <1>1, <1>5 DEF HandleNeedLoad, TypeOK
  <2> QED BY <1>1, <2>1, <2>2, <2>3, <2>8, <2>9 DEF TypeOK
<1>6. CASE HandleAlreadyOwner(i)
  <2>1. PICK m \in msgs :
          /\ m.t = "already"
          /\ ctrl' = [ctrl EXCEPT ![i] = dcs_set_ctrl4already_owner(ctrl[i], m.mode)]
          /\ Exchange(m, {Claim(i, m.mode, FALSE, dtc_get_ctrl_latest_lsn(dcs_set_ctrl4already_owner(ctrl[i], m.mode)))})
    BY <1>6 DEF HandleAlreadyOwner
  <2>2. m.mode \in ReqMode /\ m.mode \in LockMode
    BY <1>1, <2>1, MsgFields, Modes DEF TypeOK
  <2>3. dcs_set_ctrl4already_owner(ctrl[i], m.mode) \in BufCtrl
    BY <1>2, <2>2, CtrlModeTypes
  <2>4. Claim(i, m.mode, FALSE, dtc_get_ctrl_latest_lsn(dcs_set_ctrl4already_owner(ctrl[i], m.mode))) \in Msg
    BY <2>2, <2>3, ClaimMsgType
  <2>5. msgs' \in SUBSET Msg
    BY <1>1, <2>1, <2>4, NetType DEF TypeOK
  <2>7. ses' = [ses EXCEPT ![i].st = "got"]
    BY <1>6 DEF HandleAlreadyOwner
  <2>8. ses' \in [Inst -> [st : {"idle", "sleep", "ask", "got"}, mode : LockMode]]
    BY <1>1, <2>7, SesType DEF TypeOK
  <2>9. UNCHANGED <<res, inv, mark, grp, cln, out, disk, hist>> /\ panic' \in BOOLEAN /\ sn' \in [Inst -> Nat]
    BY <1>1, <1>6 DEF HandleAlreadyOwner, TypeOK
  <2> QED BY <1>1, <2>1, <2>3, <2>5, <2>8, <2>9 DEF TypeOK
<1>7. CASE HandlePageReady(i)
  <2>1. PICK m \in msgs :
          /\ m.t = "page"
          /\ ctrl' = [ctrl EXCEPT ![i] = dcs_handle_page_from_owner(ctrl[i], m)]
          /\ Exchange(m, {Claim(i, m.mode, m.dirty, dtc_get_ctrl_latest_lsn(dcs_handle_page_from_owner(ctrl[i], m)))})
    BY <1>7 DEF HandlePageReady
  <2>2. /\ m.mode \in ReqMode /\ m.mode \in LockMode /\ m.lsn \in Nat
        /\ m.dirty \in BOOLEAN /\ m.rdirty \in BOOLEAN
    BY <1>1, <2>1, MsgFields, Modes DEF TypeOK
  <2>3. dcs_handle_page_from_owner(ctrl[i], m) \in BufCtrl
    BY <1>2, <2>2, PageType
  <2>4. Claim(i, m.mode, m.dirty, dtc_get_ctrl_latest_lsn(dcs_handle_page_from_owner(ctrl[i], m))) \in Msg
    BY <2>2, <2>3, ClaimMsgType
  <2>5. msgs' \in SUBSET Msg
    BY <1>1, <2>1, <2>4, NetType DEF TypeOK
  <2>7. ses' = [ses EXCEPT ![i].st = "got"]
    BY <1>7 DEF HandlePageReady
  <2>8. ses' \in [Inst -> [st : {"idle", "sleep", "ask", "got"}, mode : LockMode]]
    BY <1>1, <2>7, SesType DEF TypeOK
  <2>9. UNCHANGED <<res, inv, mark, grp, cln, out, disk, hist>> /\ panic' \in BOOLEAN /\ sn' \in [Inst -> Nat]
    BY <1>1, <1>7 DEF HandlePageReady, TypeOK
  <2> QED BY <1>1, <2>1, <2>3, <2>5, <2>8, <2>9 DEF TypeOK
<1> QED BY <1>3, <1>4, <1>5, <1>6, <1>7 DEF Answer

\* A session leaves the page, changed or not, or the block is evicted.
LEMMA TypeLeave ==
    ASSUME IInv, NEW i \in Inst, LeavePage(i) \/ ModifyPage(i) \/ Evict(i)
    PROVE  TypeOK'
<1> DEFINE c == dtc_buf_finish(ctrl[i], disk)
           d == [c EXCEPT !.lsn = Latest + 1, !.dirty = TRUE]
<1>1. TypeOK
  BY DEF IInv
<1>2. c \in BufCtrl
  BY <1>1, FinishType DEF TypeOK
<1>3. Latest + 1 \in Nat
  BY <1>1 DEF TypeOK, Latest
<1>4. d \in BufCtrl
  <2> HIDE DEF c
  <2> QED BY <1>2, <1>3 DEF BufCtrl
<1>5. CASE LeavePage(i)
  <2>1. ctrl' = [ctrl EXCEPT ![i] = c]
    BY <1>5 DEF LeavePage
  <2> HIDE DEF c
  <2> QED BY <1>1, <1>2, <1>5, <2>1, Modes DEF LeavePage, TypeOK
<1>6. CASE ModifyPage(i)
  <2>1. ctrl' = [ctrl EXCEPT ![i] = d]
    BY <1>6 DEF ModifyPage
  <2>2. hist' \in Seq(Inst)
    BY <1>1, <1>6 DEF ModifyPage, TypeOK
  <2> HIDE DEF d
  <2> QED BY <1>1, <1>4, <1>6, <2>1, <2>2, Modes DEF ModifyPage, TypeOK
<1>7. CASE Evict(i)
  BY <1>1, <1>7, NoCtrlType DEF Evict, TypeOK
<1> QED BY <1>5, <1>6, <1>7

-----------------------------------------------------------------------------
(***************************************************************************)
(* The master's handlers change the entry, the rounds and the messages.    *)
(***************************************************************************)
\* Rounds stay sound when only rounds for requests come in and the entry
\* keeps its owner, or is not being recycled.
LEMMA RoundsStep ==
    ASSUME RoundsSound,
           \A r \in inv' : r \in inv \/ (~ IsRecycle(r) /\ r.owner \in Inst /\ r.req \in ReqInfo),
           ~ res.pending \/ (res'.pending = res.pending /\ res'.owner = res.owner)
    PROVE  RoundsSound'
<1>1. \A r \in inv' : r.owner \in Inst
  BY DEF RoundsSound
<1>2. \A r \in inv' : ~ IsRecycle(r) => r.req \in ReqInfo
  BY DEF RoundsSound
<1>3. \A r \in inv' : IsRecycle(r) => r \in inv /\ res.pending /\ r.owner = res.owner
  BY DEF RoundsSound
<1>4. \A r \in inv' : IsRecycle(r) => res'.pending /\ r.owner = res'.owner
  BY <1>3
<1>5. \A r, q \in inv' : IsRecycle(r) /\ IsRecycle(q) => r = q
  BY <1>3 DEF RoundsSound
<1> QED BY <1>1, <1>2, <1>4, <1>5 DEF RoundsSound, IsRecycle

\* Converting a request starts a round for it or notifies the owner.
LEMMA ConvertType ==
    ASSUME TypeOK, NEW rs \in BufRes, rs.owner \in Inst, NEW r \in ReqInfo,
           NEW retry \in BOOLEAN, NEW kind \in {"ask", "claim"}, NEW self \in BOOLEAN,
           NEW also \in SUBSET Msg, NEW m,
           Convert(m, rs, r, retry, kind, self, also)
    PROVE  /\ msgs' \in SUBSET Msg
           /\ inv' \in SUBSET RoundType
           /\ \A x \in inv' : x \in inv \/ (~ IsRecycle(x) /\ x.owner \in Inst /\ x.req \in ReqInfo)
<1> DEFINE copies == CopiesToInvalidate(rs, r)
           x == Round(kind, copies, r, retry, rs.owner, self)
<1>1. copies \in SUBSET Inst
  BY DEF CopiesToInvalidate, BufRes
<1>2. x \in RoundType /\ x.owner = rs.owner /\ x.req = r /\ x.kind = kind
  <2> HIDE DEF copies
  <2> QED BY <1>1 DEF Round, RoundType
<1>3. ~ IsRecycle(x)
  BY <1>2 DEF IsRecycle
<1>4. NotifyOwner(rs.owner, r, retry) \in Msg
  BY SentTypes
<1>5. CASE copies # {} /\ r.mode = DRC_LOCK_EXCLUSIVE
  <2>1. inv' = inv \cup {x} /\ Exchange(m, also)
    BY <1>5 DEF Convert
  <2>2. msgs' \in SUBSET Msg
    BY <2>1, NetType DEF TypeOK
  <2> HIDE DEF x
  <2> QED BY <1>2, <1>3, <2>1, <2>2 DEF TypeOK
<1>6. CASE ~ (copies # {} /\ r.mode = DRC_LOCK_EXCLUSIVE)
  <2>1. inv' = inv /\ Exchange(m, also \cup {NotifyOwner(rs.owner, r, retry)})
    BY <1>6 DEF Convert
  <2>2. also \cup {NotifyOwner(rs.owner, r, retry)} \in SUBSET Msg
    BY <1>4
  <2>3. msgs' \in SUBSET Msg
    BY <2>1, <2>2, NetType DEF TypeOK
  <2> QED BY <2>1, <2>3 DEF TypeOK
<1> QED BY <1>5, <1>6

\* A request of instance i (drc_request_page_owner).
LEMMA AskStep ==
    ASSUME IInv, NEW i \in Inst, MasterAsk(i)
    PROVE  IInv'
<1>1. TypeOK /\ EntrySound /\ RoundsSound
  BY DEF IInv, CatalogueSound
<1>2. \A m \in AskOf(i) : m.req \in ReqInfo
  BY <1>1, MsgFields DEF AskOf, TypeOK
<1>3. res \in BufRes
  BY <1>1 DEF TypeOK
<1>4. CASE AskGranted(i)
  <2>1. PICK m \in AskOf(i) : /\ ~ res.used /\ res' = drc_grant(m.req)
                              /\ Exchange(m, {Reply("load", m.req)})
    BY <1>4 DEF AskGranted
  <2>2. UNCHANGED <<inv, ctrl, ses, sn, mark, grp, cln, out, disk, hist, panic>>
    BY <1>4 DEF AskGranted
  <2>3. msgs' \in SUBSET Msg
    BY <1>1, <1>2, <2>1, SentTypes, NetType DEF TypeOK
  <2>4. res' \in BufRes /\ res'.used /\ res'.owner \in Inst /\ res'.q = <<>> /\ ~ res'.pending
    BY <1>2, <2>1, GrantType
  <2>5. TypeOK'
    BY <1>1, <2>2, <2>3, <2>4 DEF TypeOK
  <2>6. EntrySound'
    BY <2>4 DEF EntrySound, QueueServed
  <2>7. ~ res.pending
    BY <1>1, <2>1, NoResType DEF EntrySound
  <2>8. RoundsSound'
    BY <1>1, <2>2, <2>7, RoundsStep
  <2> QED BY <2>5, <2>6, <2>8 DEF IInv, CatalogueSound
<1>5. CASE AskRejected(i)
  <2>1. PICK m \in AskOf(i) : Exchange(m, {Reply("err", m.req)})
    BY <1>5 DEF AskRejected
  <2>2. UNCHANGED <<res, inv, ctrl, ses, sn, mark, grp, cln, out, disk, hist, panic>>
    BY <1>5 DEF AskRejected
  <2>3. msgs' \in SUBSET Msg
    BY <1>1, <1>2, <2>1, SentTypes, NetType DEF TypeOK
  <2>4. TypeOK'
    BY <1>1, <2>2, <2>3 DEF TypeOK
  <2> QED BY <1>1, <2>2, <2>4 DEF IInv, CatalogueSound, EntrySound, QueueServed, RoundsSound
<1>6. CASE AskConverting(i)
  <2>1. PICK m \in AskOf(i) : /\ res.used /\ ~ res.pending
                              /\ res' = [res EXCEPT !.conv = m.req]
                              /\ Convert(m, res, m.req, FALSE, "ask", FALSE, {})
                              /\ panic' = (panic \/ res.q # <<>>)
    BY <1>6 DEF AskConverting
  <2>2. UNCHANGED <<ctrl, ses, sn, mark, grp, cln, out, disk, hist>>
    BY <1>6 DEF AskConverting
  <2>3. m.req \in ReqInfo /\ res.owner \in Inst
    BY <1>1, <1>2, <2>1 DEF EntrySound
  <2>4. /\ msgs' \in SUBSET Msg /\ inv' \in SUBSET RoundType
        /\ \A x \in inv' : x \in inv \/ (~ IsRecycle(x) /\ x.owner \in Inst /\ x.req \in ReqInfo)
    BY <1>1, <1>3, <2>1, <2>3, ConvertType
  <2>5. /\ res' \in BufRes /\ res'.conv \in ReqInfo /\ res'.used
        /\ res'.owner = res.owner /\ res'.pending = res.pending
    BY <1>3, <2>1, <2>3 DEF BufRes
  <2>6. Converting(res')
    BY <2>5, ConvertingReq
  <2>7. TypeOK'
    BY <1>1, <2>1, <2>2, <2>4, <2>5 DEF TypeOK
  <2>8. EntrySound'
    BY <2>1, <2>3, <2>5, <2>6 DEF EntrySound, QueueServed
  <2>9. RoundsSound'
    BY <1>1, <2>1, <2>4, RoundsStep
  <2> QED BY <2>7, <2>8, <2>9 DEF IInv, CatalogueSound
<1>7. CASE AskRetried(i)
  <2> DEFINE R(m) == [m.req EXCEPT !.mode = IF res.conv.mode > @ THEN res.conv.mode ELSE @]
  <2>1. PICK m \in AskOf(i) : /\ res.used /\ ~ res.pending /\ Converting(res)
                              /\ res' = [res EXCEPT !.conv = R(m)]
                              /\ Convert(m, res, R(m), TRUE, "ask", FALSE, {})
    BY <1>7 DEF AskRetried
  <2>2. UNCHANGED <<ctrl, ses, sn, mark, grp, cln, out, disk, hist, panic>>
    BY <1>7 DEF AskRetried
  <2>3. res.conv.mode \in ReqMode /\ res.owner \in Inst
    BY <1>1, <1>3, <2>1, ConvertingReq, ReqFields DEF EntrySound
  <2>4. R(m) \in ReqInfo
    BY <1>2, <2>3 DEF ReqInfo
  <2> HIDE DEF R
  <2>5. /\ msgs' \in SUBSET Msg /\ inv' \in SUBSET RoundType
        /\ \A x \in inv' : x \in inv \/ (~ IsRecycle(x) /\ x.owner \in Inst /\ x.req \in ReqInfo)
    BY <1>1, <1>3, <2>1, <2>3, <2>4, ConvertType
  <2>6. /\ res' \in BufRes /\ res'.conv \in ReqInfo /\ res'.used
        /\ res'.owner = res.owner /\ res'.pending = res.pending
    BY <1>3, <2>1, <2>4 DEF BufRes
  <2>7. Converting(res')
    BY <2>6, ConvertingReq
  <2>8. TypeOK'
    BY <1>1, <2>2, <2>5, <2>6 DEF TypeOK
  <2>9. EntrySound'
    BY <2>1, <2>3, <2>6, <2>7 DEF EntrySound, QueueServed
  <2>10. RoundsSound'
    BY <1>1, <2>1, <2>5, RoundsStep
  <2> QED BY <2>8, <2>9, <2>10 DEF IInv, CatalogueSound
<1>8. CASE AskQueued(i)
  <2>1. PICK m \in AskOf(i) :
          /\ res.used /\ ~ res.pending /\ Converting(res)
          /\ \/ res' = [res EXCEPT !.q = Append(@, m.req)] /\ Exchange(m, {})
             \/ /\ drc_search_item_by_reqid(res, m.req) # {}
                /\ res' = [res EXCEPT !.q[First(drc_search_item_by_reqid(res, m.req))] = m.req]
                /\ Exchange(m, {})
             \/ res' = res /\ Exchange(m, {Reply("err", m.req)})
    BY <1>8 DEF AskQueued
  <2>2. UNCHANGED <<inv, ctrl, ses, sn, mark, grp, cln, out, disk, hist, panic>>
    BY <1>8 DEF AskQueued
  <2>3. msgs' \in SUBSET Msg
    BY <1>1, <1>2, <2>1, SentTypes, NetType DEF TypeOK
  <2>4. res.q \in Seq(ReqInfo) /\ m.req \in ReqInfo
    BY <1>2, <1>3 DEF BufRes
  <2>5. /\ res' \in BufRes /\ res'.used = res.used /\ res'.owner = res.owner
        /\ res'.pending = res.pending /\ res'.conv = res.conv
    <3>1. CASE res' = [res EXCEPT !.q = Append(@, m.req)]
      <4>1. Append(res.q, m.req) \in Seq(ReqInfo)
        BY <2>4
      <4> QED BY <1>3, <3>1, <4>1 DEF BufRes
    <3>2. CASE /\ drc_search_item_by_reqid(res, m.req) # {}
               /\ res' = [res EXCEPT !.q[First(drc_search_item_by_reqid(res, m.req))] = m.req]
      <4> DEFINE k == First(drc_search_item_by_reqid(res, m.req))
      <4>1. [res.q EXCEPT ![k] = m.req] \in Seq(ReqInfo)
        <5> HIDE DEF k
        <5>1. CASE k \in 1 .. Len(res.q)
          BY <2>4, <5>1, ExceptSeq
        <5>2. CASE k \notin 1 .. Len(res.q)
          <6>1. DOMAIN res.q = 1 .. Len(res.q)
            BY <2>4
          <6>2. [res.q EXCEPT ![k] = m.req] = res.q
            BY <5>2, <6>1, <2>4
          <6> QED BY <2>4, <6>2
        <5> QED BY <5>1, <5>2
      <4>2. res' = [res EXCEPT !.q = [res.q EXCEPT ![k] = m.req]]
        BY <3>2
      <4> HIDE DEF k
      <4> QED BY <1>3, <4>1, <4>2 DEF BufRes
    <3> QED BY <1>3, <2>1, <3>1, <3>2
  <2>6. TypeOK'
    BY <1>1, <2>2, <2>3, <2>5 DEF TypeOK
  <2>7. EntrySound'
    BY <1>1, <2>1, <2>5 DEF EntrySound, QueueServed, Converting
  <2>8. RoundsSound'
    BY <1>1, <2>2, <2>5, RoundsStep
  <2> QED BY <2>6, <2>7, <2>8 DEF IInv, CatalogueSound
<1> QED BY <1>4, <1>5, <1>6, <1>7, <1>8 DEF MasterAsk

\* A claim of instance i (drc_claim_page_owner).
LEMMA ClaimStep ==
    ASSUME IInv, NEW i \in Inst, MasterClaim(i)
    PROVE  IInv' /\ (res.used => res'.used)
<1>1. TypeOK /\ EntrySound /\ RoundsSound
  BY DEF IInv, CatalogueSound
<1>2. res \in BufRes
  BY <1>1 DEF TypeOK
<1>3. CASE ProcClaimIgnored(i)
  <2>1. PICK m \in msgs : Exchange(m, {})
    BY <1>3 DEF ProcClaimIgnored
  <2>2. UNCHANGED <<res, inv, ctrl, ses, sn, mark, grp, cln, out, disk, hist, panic>>
    BY <1>3 DEF ProcClaimIgnored
  <2>3. msgs' \in SUBSET Msg
    BY <1>1, <2>1, NetType DEF TypeOK
  <2>4. TypeOK'
    BY <1>1, <2>2, <2>3 DEF TypeOK
  <2> QED BY <1>1, <2>2, <2>4 DEF IInv, CatalogueSound, EntrySound, QueueServed, RoundsSound
<1>4. CASE ProcClaim(i)
  <2> DEFINE Claimed(m) == drc_claim_new_page_owner(res, m)
             Nxt(m, k) == drc_pop_request(Claimed(m), k)
             Refused(n) == IF FirstConflicts(n) THEN {Reply("err", Head(n.q))} ELSE {}
  <2>1. PICK m \in msgs :
          /\ m.t = "claim" /\ ~ ClaimIgnored(m)
          /\ \E k \in 0 .. Len(res.q) :
               /\ res' = drc_check_first_req_in_convert_queue(Nxt(m, k))
               /\ IF Converting(Nxt(m, k))
                  THEN Convert(m, Nxt(m, k), Nxt(m, k).conv, FALSE, "claim", i = Master, Refused(Nxt(m, k)))
                  ELSE inv' = inv /\ Exchange(m, {})
          /\ panic' = (panic \/ res.pending)
    BY <1>4, Zenon DEF ProcClaim
  <2>2. UNCHANGED <<ctrl, ses, sn, mark, grp, cln, out, disk, hist>>
    BY <1>4 DEF ProcClaim
  <2>3. res.used /\ ~ res.pending /\ res.owner \in Inst
    BY <1>1, <2>1 DEF ClaimIgnored, EntrySound
  <2>4. m.inst \in Inst /\ m.mode \in ReqMode /\ m.lsn \in Nat /\ m.edp \in BOOLEAN
    BY <1>1, <2>1, MsgFields DEF TypeOK
  <2>5. Claimed(m) \in BufRes /\ Claimed(m).used /\ Claimed(m).owner \in Inst /\ ~ Claimed(m).pending
    BY <1>2, <2>3, <2>4, ClaimType
  <2>6. PICK k \in 0 .. Len(res.q) :
          /\ res' = drc_check_first_req_in_convert_queue(Nxt(m, k))
          /\ IF Converting(Nxt(m, k))
             THEN Convert(m, Nxt(m, k), Nxt(m, k).conv, FALSE, "claim", i = Master, Refused(Nxt(m, k)))
             ELSE inv' = inv /\ Exchange(m, {})
    BY <2>1
  <2> DEFINE n == Nxt(m, k)
  <2>7. k \in Nat
    BY <1>2, <2>6 DEF BufRes
  <2>8. /\ n \in BufRes /\ n.used /\ n.owner \in Inst /\ ~ n.pending
        /\ n.q # <<>> => Converting(n)
    <3> HIDE DEF Claimed
    <3> QED BY <2>5, <2>7, PopType
  <2> HIDE DEF n, Nxt
  <2>9. /\ res' = drc_check_first_req_in_convert_queue(n)
        /\ IF Converting(n)
           THEN Convert(m, n, n.conv, FALSE, "claim", i = Master, Refused(n))
           ELSE inv' = inv /\ Exchange(m, {})
    BY <2>6 DEF n
  <2>10. /\ res' \in BufRes /\ res'.used /\ res'.owner \in Inst /\ ~ res'.pending
         /\ res'.q # <<>> => Converting(res')
    BY <2>8, <2>9, CheckFirstType
  <2>11. Refused(n) \in SUBSET Msg
    <3>1. FirstConflicts(n) => Head(n.q) \in ReqInfo
      BY <2>8 DEF FirstConflicts, BufRes
    <3> QED BY <3>1, SentTypes
  <2>12. /\ msgs' \in SUBSET Msg /\ inv' \in SUBSET RoundType
         /\ \A x \in inv' : x \in inv \/ (~ IsRecycle(x) /\ x.owner \in Inst /\ x.req \in ReqInfo)
    <3> HIDE DEF Refused
    <3>1. CASE Converting(n)
      <4>1. n.conv \in ReqInfo /\ (i = Master) \in BOOLEAN
        BY <2>8, <3>1, ConvertingReq
      <4>2. Convert(m, n, n.conv, FALSE, "claim", i = Master, Refused(n))
        BY <2>9, <3>1
      <4> QED BY <1>1, <2>8, <2>11, <4>1, <4>2, ConvertType
    <3>2. CASE ~ Converting(n)
      BY <1>1, <2>9, <3>2, NetType DEF TypeOK
    <3> QED BY <3>1, <3>2
  <2>13. TypeOK'
    BY <1>1, <2>1, <2>2, <2>10, <2>12 DEF TypeOK
  <2>14. EntrySound'
    BY <2>10 DEF EntrySound, QueueServed
  <2>15. RoundsSound'
    BY <1>1, <2>3, <2>12, RoundsStep
  <2> QED BY <2>10, <2>13, <2>14, <2>15 DEF IInv, CatalogueSound
<1> QED BY <1>3, <1>4 DEF MasterClaim

\* An instance drops its copy (buf_invalidate_page_with_version): the round
\* only loses that instance.
LEMMA InvalidateStep ==
    ASSUME IInv, NEW j \in Inst, InvalidateCopy(j)
    PROVE  IInv'
<1>1. TypeOK /\ EntrySound /\ RoundsSound
  BY DEF IInv, CatalogueSound
<1> DEFINE ok == ctrl[j].inmem => DCS_BUF_CTRL_NOT_OWNER(ctrl[j])
           w(r) == IF j = Master /\ ~ ok THEN {} ELSE r.wait \ {j}
           r1(r) == [r EXCEPT !.ok = r.ok /\ ok, !.wait = w(r)]
           c == IF ctrl[j].inmem /\ ok THEN Invalidated(ctrl[j]) ELSE ctrl[j]
<1>2. PICK r \in inv : inv' = (inv \ {r}) \cup {r1(r)} /\ ctrl' = [ctrl EXCEPT ![j] = c]
  BY Zenon DEF InvalidateCopy
<1>3. UNCHANGED <<res, ses, sn, msgs, mark, grp, cln, out, disk, hist, panic>>
  BY DEF InvalidateCopy
<1>4. c \in BufCtrl
  BY <1>1, CtrlTypes DEF TypeOK
<1>5. r \in RoundType /\ (r.ok /\ ok) \in BOOLEAN /\ w(r) \in SUBSET Inst
  BY <1>1 DEF TypeOK, RoundType
<1>6. /\ r1(r) \in RoundType /\ r1(r).owner = r.owner /\ r1(r).req = r.req
      /\ IsRecycle(r1(r)) <=> IsRecycle(r)
  <2> HIDE DEF ok, w
  <2> QED BY <1>5 DEF RoundType, IsRecycle
<1> HIDE DEF c, r1
<1>7. TypeOK'
  BY <1>1, <1>2, <1>3, <1>4, <1>6 DEF TypeOK
<1>8. EntrySound'
  BY <1>1, <1>3 DEF EntrySound, QueueServed
<1>9. RoundsSound'
  BY <1>1, <1>2, <1>3, <1>6 DEF RoundsSound, IsRecycle
<1> QED BY <1>7, <1>8, <1>9 DEF IInv, CatalogueSound

\* A finished round for a request (dcs_invalidate_readonly_copy returned).
LEMMA RoundDoneStep ==
    ASSUME IInv, RoundDone
    PROVE  IInv'
<1>1. TypeOK /\ EntrySound /\ RoundsSound
  BY DEF IInv, CatalogueSound
<1>2. PICK r \in inv :
        /\ r.kind \in {"ask", "claim"}
        /\ res' = IF r.ok THEN [res EXCEPT !.copies = {}] ELSE res
        /\ Send({IF r.ok \/ r.kind = "claim" THEN NotifyOwner(r.owner, r.req, r.retry)
                 ELSE Reply("err", r.req)})
        /\ inv' = inv \ {r}
  BY DEF RoundDone
<1>3. UNCHANGED <<ctrl, ses, sn, mark, grp, cln, out, disk, hist, panic>>
  BY DEF RoundDone
<1>4. r.owner \in Inst /\ r.req \in ReqInfo /\ r.retry \in BOOLEAN
  BY <1>1, <1>2 DEF RoundsSound, IsRecycle, TypeOK, RoundType
<1>5. msgs' \in SUBSET Msg
  <2>1. {IF r.ok \/ r.kind = "claim" THEN NotifyOwner(r.owner, r.req, r.retry)
         ELSE Reply("err", r.req)} \in SUBSET Msg
    BY <1>4, SentTypes
  <2> QED BY <1>1, <1>2, <2>1, NetType DEF TypeOK
<1>6. /\ res' \in BufRes /\ res'.used = res.used /\ res'.owner = res.owner /\ res'.pending = res.pending
      /\ res'.conv = res.conv /\ res'.q = res.q /\ res'.edp = res.edp
  BY <1>1, <1>2 DEF TypeOK, BufRes
<1>7. ~ res.used => res' = NoRes
  <2>1. \A rs \in BufRes : rs.copies = {} => [rs EXCEPT !.copies = {}] = rs
    BY DEF BufRes
  <2> QED BY <1>1, <1>2, <2>1, NoResType DEF EntrySound
<1>8. TypeOK'
  BY <1>1, <1>2, <1>3, <1>5, <1>6 DEF TypeOK
<1>9. EntrySound'
  BY <1>1, <1>6, <1>7 DEF EntrySound, QueueServed, Converting
<1>10. RoundsSound'
  BY <1>1, <1>2, <1>6, RoundsStep
<1> QED BY <1>8, <1>9, <1>10 DEF IInv, CatalogueSound

\* The steps of recycling an entry (drc_recycle_items).
LEMMA RecycleStep ==
    ASSUME IInv, Recycle
    PROVE  IInv'
<1>1. TypeOK /\ EntrySound /\ RoundsSound
  BY DEF IInv, CatalogueSound
<1>2. res \in BufRes
  BY <1>1 DEF TypeOK
<1>3. CASE RecycleStart
  <2> DEFINE x == RecycleRound(res)
  <2>1. /\ res.used /\ ~ res.pending /\ buf_res_is_recyclable(res)
        /\ res' = [res EXCEPT !.pending = TRUE] /\ inv' = inv \cup {x}
        /\ UNCHANGED <<ctrl, ses, sn, msgs, mark, grp, cln, out, disk, hist, panic>>
    BY <1>3 DEF RecycleStart
  <2>2. res.owner \in Inst /\ ~ Converting(res) /\ res.edp = {}
    BY <1>1, <2>1 DEF EntrySound, buf_res_is_recyclable
  <2>3. /\ res' \in BufRes /\ res'.used /\ res'.owner = res.owner /\ res'.pending
        /\ res'.conv = res.conv /\ res'.q = res.q /\ res'.edp = res.edp
    BY <1>2, <2>1 DEF BufRes
  <2>4. x \in RoundType /\ x.owner = res.owner /\ IsRecycle(x)
    <3>1. res.copies \in SUBSET Inst /\ res.copies \ {res.owner} \in SUBSET Inst
      BY <1>2 DEF BufRes
    <3> QED BY <2>2, <3>1 DEF RecycleRound, Round, RoundType, IsRecycle
  <2> HIDE DEF x
  <2>5. TypeOK'
    BY <1>1, <2>1, <2>3, <2>4 DEF TypeOK
  <2>6. EntrySound'
    BY <1>1, <2>2, <2>3 DEF EntrySound, QueueServed, Converting
  <2>7. \A r \in inv : ~ IsRecycle(r)
    BY <1>1, <2>1 DEF RoundsSound
  <2>8. RoundsSound'
    BY <1>1, <2>1, <2>2, <2>3, <2>4, <2>7 DEF RoundsSound, IsRecycle
  <2> QED BY <2>5, <2>6, <2>8 DEF IInv, CatalogueSound
<1>4. CASE RecycleOwner
  <2> DEFINE Ok(r) == \/ ~ ctrl[r.owner].inmem
                      \/ CanEvict(r.owner) /\ (ctrl[r.owner].lock = DRC_LOCK_NULL \/ DCS_BUF_CTRL_IS_OWNER(ctrl[r.owner]))
             r1(r) == [r EXCEPT !.kind = "recycled", !.ok = Ok(r)]
             c(r) == IF Ok(r) /\ ctrl[r.owner].lock # DRC_LOCK_NULL
                     THEN Invalidated(ctrl[r.owner]) ELSE ctrl[r.owner]
  <2>1. PICK r \in inv : /\ r.kind = "recycle"
                         /\ inv' = (inv \ {r}) \cup {r1(r)}
                         /\ ctrl' = [ctrl EXCEPT ![r.owner] = c(r)]
    BY <1>4, Zenon DEF RecycleOwner
  <2>2. UNCHANGED <<res, ses, sn, msgs, mark, grp, cln, out, disk, hist, panic>>
    BY <1>4 DEF RecycleOwner
  <2>3. r \in RoundType /\ r.owner \in Inst /\ Ok(r) \in BOOLEAN
    BY <1>1 DEF TypeOK, RoundsSound
  <2>4. c(r) \in BufCtrl
    BY <1>1, <2>3, CtrlTypes DEF TypeOK
  <2>5. r1(r) \in RoundType /\ r1(r).owner = r.owner /\ r1(r).req = r.req /\ IsRecycle(r1(r)) /\ IsRecycle(r)
    <3> HIDE DEF Ok
    <3> QED BY <2>1, <2>3 DEF RoundType, IsRecycle
  <2> HIDE DEF r1, c
  <2>6. TypeOK'
    BY <1>1, <2>1, <2>2, <2>3, <2>4, <2>5 DEF TypeOK
  <2>7. EntrySound'
    BY <1>1, <2>2 DEF EntrySound, QueueServed
  <2>8. RoundsSound'
    BY <1>1, <2>1, <2>2, <2>5 DEF RoundsSound, IsRecycle
  <2> QED BY <2>6, <2>7, <2>8 DEF IInv, CatalogueSound
<1>5. CASE RecycleDone
  <2>1. PICK r \in inv : /\ IsRecycle(r) /\ inv' = inv \ {r}
                         /\ res' = IF r.ok THEN NoRes ELSE [res EXCEPT !.pending = FALSE]
                         /\ panic' \in BOOLEAN
    BY <1>1, <1>5 DEF RecycleDone, IsRecycle, TypeOK
  <2>2. UNCHANGED <<ctrl, ses, sn, msgs, mark, grp, cln, out, disk, hist>>
    BY <1>5 DEF RecycleDone
  <2>3. \A x \in inv' : x \in inv /\ ~ IsRecycle(x)
    BY <1>1, <2>1 DEF RoundsSound
  <2>4. res.pending /\ res.used
    BY <1>1, <2>1 DEF RoundsSound, EntrySound
  <2>5. CASE r.ok
    <3>1. res' = NoRes
      BY <2>1, <2>5
    <3>2. TypeOK'
      BY <1>1, <2>1, <2>2, <3>1, NoResType DEF TypeOK
    <3>3. EntrySound'
      BY <3>1, NoResType DEF EntrySound, QueueServed
    <3>4. RoundsSound'
      BY <1>1, <2>3 DEF RoundsSound, IsRecycle
    <3> QED BY <3>2, <3>3, <3>4 DEF IInv, CatalogueSound
  <2>6. CASE ~ r.ok
    <3>1. /\ res' \in BufRes /\ res'.used /\ res'.owner = res.owner /\ ~ res'.pending
          /\ res'.conv = res.conv /\ res'.q = res.q
      BY <1>2, <2>1, <2>4, <2>6 DEF BufRes
    <3>2. TypeOK'
      BY <1>1, <2>1, <2>2, <3>1 DEF TypeOK
    <3>3. EntrySound'
      BY <1>1, <2>4, <3>1 DEF EntrySound, QueueServed, Converting
    <3>4. RoundsSound'
      BY <1>1, <2>3 DEF RoundsSound, IsRecycle
    <3> QED BY <3>2, <3>3, <3>4 DEF IInv, CatalogueSound
  <2> QED BY <2>5, <2>6
<1> QED BY <1>3, <1>4, <1>5 DEF Recycle

-----------------------------------------------------------------------------
(***************************************************************************)
(* The owner and the checkpoint.                                           *)
(***************************************************************************)
\* Steps that touch neither the entry nor the rounds keep the catalogue sound.
LEMMA CatalogueUnchanged ==
    ASSUME CatalogueSound, UNCHANGED <<res, inv>>
    PROVE  CatalogueSound'
BY DEF CatalogueSound, EntrySound, QueueServed, RoundsSound, IsRecycle

\* The owner sends the page (dcs_owner_transfer_page).
LEMMA TypeTransfer ==
    ASSUME IInv, NEW o \in Inst, OwnerTransfer(o)
    PROVE  TypeOK'
<1>1. TypeOK
  BY DEF IInv
<1>2. PICK m \in msgs :
        /\ m.t = "own"
        /\ \/ Exchange(m, {PageReady(m.req, "need", ctrl[o])})
           \/ Exchange(m, {Reply("err", m.req)})
           \/ Exchange(m, {PageReady(m.req, "r2x", ctrl[o])})
           \/ Exchange(m, {PageReady(m.req, "page", ctrl[o])})
        /\ \/ ctrl' = [ctrl EXCEPT ![o] = OwnerAfterTransfer(@, m.req.mode)]
           \/ ctrl' = ctrl
  BY Zenon DEF OwnerTransfer
<1>3. UNCHANGED <<res, inv, ses, sn, mark, grp, cln, out, disk, hist, panic>>
  BY DEF OwnerTransfer
<1>4. m.req \in ReqInfo /\ m.req.mode \in LockMode /\ ctrl[o] \in BufCtrl
  BY <1>1, <1>2, MsgFields, ReqFields DEF TypeOK
<1>5. /\ PageReady(m.req, "need", ctrl[o]) \in Msg /\ Reply("err", m.req) \in Msg
      /\ PageReady(m.req, "r2x", ctrl[o]) \in Msg /\ PageReady(m.req, "page", ctrl[o]) \in Msg
  BY <1>4, SentTypes
<1>6. msgs' \in SUBSET Msg
  BY <1>1, <1>2, <1>5, NetType DEF TypeOK
<1>7. OwnerAfterTransfer(ctrl[o], m.req.mode) \in BufCtrl
  BY <1>4, CtrlModeTypes
<1>8. ctrl' \in [Inst -> BufCtrl]
  BY <1>1, <1>2, <1>7 DEF TypeOK
<1> QED BY <1>1, <1>3, <1>6, <1>8 DEF TypeOK

\* Adding lsns to a group of an instance (dtc_add_to_edp_group).
LEMMA GroupType ==
    ASSUME NEW f \in [Inst -> SUBSET Nat], NEW i \in Inst, NEW S \in SUBSET Nat
    PROVE  [f EXCEPT ![i] = @ \cup S] \in [Inst -> SUBSET Nat]
<1>1. f[i] \cup S \in SUBSET Nat
  OBVIOUS
<1> QED BY <1>1

\* The checkpoint of an instance (dcs_ckpt_remote_edp_prepare,
\* dcs_ckpt_clean_local_edp, ckpt_prepare_normal, ckpt_flush_pages).
LEMMA TypeCkpt ==
    ASSUME IInv, NEW i \in Inst,
           CkptRemotePrepare(i) \/ CkptCleanLocal(i) \/ CkptPrepareNormal(i) \/ CkptWrite(i)
    PROVE  TypeOK' /\ UNCHANGED <<res, inv>>
<1>1. TypeOK
  BY DEF IInv
<1>2. ctrl[i] \in BufCtrl /\ ctrl[i].lsn \in Nat
  BY <1>1 DEF TypeOK, BufCtrl
<1>3. CASE CkptRemotePrepare(i)
  <2> DEFINE C(g) == IF g.clean /\ ctrl[i].edp /\ g.lsn >= ctrl[i].lsn
                     THEN dcs_buf_clean_ctrl_edp(ctrl[i]) ELSE ctrl[i]
  <2>1. PICK g \in grp[i] :
          /\ grp' = [grp EXCEPT ![i] = @ \ {g}]
          /\ \/ out' = [out EXCEPT ![i] = @ \cup {g.lsn}] /\ UNCHANGED <<ctrl, mark, panic>>
             \/ /\ ctrl' = [ctrl EXCEPT ![i] = C(g)] /\ UNCHANGED <<out, mark>>
                /\ panic' = (panic \/ (C(g) # ctrl[i] /\ CleanEdpPanics(ctrl[i])))
             \/ /\ out' = [out EXCEPT ![i] = @ \cup {C(g).lsn}]
                /\ mark' = [mark EXCEPT ![i] = C(g).lsn]
                /\ ctrl' = [ctrl EXCEPT ![i] = CkptCopied(C(g))]
                /\ panic' = (panic \/ (C(g) # ctrl[i] /\ CleanEdpPanics(ctrl[i])))
    BY <1>3, Zenon DEF CkptRemotePrepare
  <2>2. UNCHANGED <<res, inv, ses, sn, msgs, cln, disk, hist>>
    BY <1>3 DEF CkptRemotePrepare
  <2>3. g.lsn \in Nat
    BY <1>1 DEF TypeOK
  <2>4. C(g) \in BufCtrl
    BY <1>2, CtrlTypes
  <2>5. CkptCopied(C(g)) \in BufCtrl /\ C(g).lsn \in Nat
    <3> HIDE DEF C
    <3> QED BY <2>4, CtrlTypes DEF BufCtrl
  <2> HIDE DEF C
  <2>6. grp' \in [Inst -> SUBSET [lsn : Nat, clean : BOOLEAN]]
    BY <1>1, <2>1 DEF TypeOK
  <2>7. ctrl' \in [Inst -> BufCtrl] /\ mark' \in [Inst -> Nat] /\ out' \in [Inst -> SUBSET Nat]
    <3> DEFINE c == C(g)
    <3>1. \/ UNCHANGED ctrl
          \/ ctrl' = [ctrl EXCEPT ![i] = c]
          \/ ctrl' = [ctrl EXCEPT ![i] = CkptCopied(c)]
      BY <2>1
    <3>2. mark' = mark \/ mark' = [mark EXCEPT ![i] = c.lsn]
      BY <2>1
    <3>3. \/ out' = out
          \/ out' = [out EXCEPT ![i] = @ \cup {g.lsn}]
          \/ out' = [out EXCEPT ![i] = @ \cup {c.lsn}]
      BY <2>1
    <3>4. c \in BufCtrl /\ CkptCopied(c) \in BufCtrl /\ c.lsn \in Nat
      BY <2>4, <2>5
    <3> HIDE DEF c
    <3>5. ctrl' \in [Inst -> BufCtrl]
      BY <1>1, <3>1, <3>4 DEF TypeOK
    <3>6. mark' \in [Inst -> Nat]
      BY <1>1, <3>2, <3>4 DEF TypeOK
    <3>7. out' \in [Inst -> SUBSET Nat]
      <4>1. {g.lsn} \in SUBSET Nat /\ {c.lsn} \in SUBSET Nat
        BY <2>3, <3>4
      <4>2. out \in [Inst -> SUBSET Nat]
        BY <1>1 DEF TypeOK
      <4> QED BY <3>3, <4>1, <4>2, GroupType
    <3> QED BY <3>5, <3>6, <3>7
  <2>8. panic' \in BOOLEAN
    BY <1>1, <2>1 DEF TypeOK
  <2> QED BY <1>1, <2>2, <2>6, <2>7, <2>8 DEF TypeOK
<1>4. CASE CkptCleanLocal(i)
  <2>1. PICK l \in cln[i] :
          /\ cln' = [cln EXCEPT ![i] = @ \ {l}]
          /\ ctrl' = [ctrl EXCEPT ![i] = IF ctrl[i].edp /\ l >= ctrl[i].lsn THEN dcs_buf_clean_ctrl_edp(@) ELSE @]
          /\ panic' \in BOOLEAN
    BY <1>1, <1>4 DEF CkptCleanLocal, TypeOK
  <2>2. UNCHANGED <<res, inv, ses, sn, msgs, mark, grp, out, disk, hist>>
    BY <1>4 DEF CkptCleanLocal
  <2>3. dcs_buf_clean_ctrl_edp(ctrl[i]) \in BufCtrl
    BY <1>2, CtrlTypes
  <2>4. ctrl' \in [Inst -> BufCtrl] /\ cln' \in [Inst -> SUBSET Nat]
    BY <1>1, <2>1, <2>3 DEF TypeOK
  <2> QED BY <1>1, <2>1, <2>2, <2>4 DEF TypeOK
<1>5. CASE CkptPrepareNormal(i)
  <2>1. \/ Send({CkptReq(ctrl[i].lsn)}) /\ UNCHANGED <<ctrl, mark, out>>
        \/ /\ out' = [out EXCEPT ![i] = @ \cup (IF ctrl[i].rdirty THEN {ctrl[i].lsn} ELSE {})]
           /\ mark' = [mark EXCEPT ![i] = IF @ = 0 THEN ctrl[i].lsn ELSE @]
           /\ ctrl' = [ctrl EXCEPT ![i] = IF mark[i] = 0 THEN CkptCopied(@) ELSE @]
           /\ UNCHANGED msgs
    BY <1>5 DEF CkptPrepareNormal
  <2>2. UNCHANGED <<res, inv, ses, sn, grp, cln, disk, hist>> /\ panic' \in BOOLEAN
    BY <1>1, <1>5 DEF CkptPrepareNormal, TypeOK
  <2>3. CkptReq(ctrl[i].lsn) \in Msg
    BY <1>2 DEF CkptReq, Msg
  <2>4. msgs' \in SUBSET Msg
    BY <1>1, <2>1, <2>3, NetType DEF TypeOK
  <2>5. CkptCopied(ctrl[i]) \in BufCtrl
    BY <1>2, CtrlTypes
  <2>6. ctrl' \in [Inst -> BufCtrl] /\ mark' \in [Inst -> Nat] /\ out' \in [Inst -> SUBSET Nat]
    <3> DEFINE S == IF ctrl[i].rdirty THEN {ctrl[i].lsn} ELSE {}
    <3>1. S \in SUBSET Nat
      BY <1>2
    <3>2. out' = out \/ out' = [out EXCEPT ![i] = @ \cup S]
      BY <2>1
    <3> HIDE DEF S
    <3>3. out' \in [Inst -> SUBSET Nat]
      <4>1. out \in [Inst -> SUBSET Nat]
        BY <1>1 DEF TypeOK
      <4> QED BY <3>1, <3>2, <4>1, GroupType
    <3>4. ctrl' \in [Inst -> BufCtrl]
      BY <1>1, <2>1, <2>5 DEF TypeOK
    <3>5. mark' = mark \/ mark' = [mark EXCEPT ![i] = ctrl[i].lsn]
      BY <1>1, <2>1 DEF TypeOK
    <3>6. mark' \in [Inst -> Nat]
      BY <1>1, <1>2, <3>5 DEF TypeOK
    <3> QED BY <3>3, <3>4, <3>6
  <2> QED BY <1>1, <2>2, <2>4, <2>6 DEF TypeOK
<1>6. CASE CkptWrite(i)
  <2>1. /\ disk' = mark[i] /\ mark' = [mark EXCEPT ![i] = 0]
        /\ UNCHANGED <<res, inv, ctrl, ses, sn, msgs, grp, cln, out, hist, panic>>
    BY <1>6 DEF CkptWrite
  <2>2. disk' \in Nat /\ mark' \in [Inst -> Nat]
    BY <1>1, <2>1 DEF TypeOK
  <2> QED BY <1>1, <2>1, <2>2 DEF TypeOK
<1> QED BY <1>3, <1>4, <1>5, <1>6

\* The master has early dirty pages cleaned (dcs_master_clean_edp).
LEMMA MasterCleanStep ==
    ASSUME IInv, NEW l \in Nat, NEW dbwr \in BOOLEAN, MasterClean(l, dbwr), UNCHANGED inv
    PROVE  res' \in BufRes /\ cln' \in [Inst -> SUBSET Nat] /\ CatalogueSound' /\ res'.used = res.used
<1>1. TypeOK /\ EntrySound /\ RoundsSound
  BY DEF IInv, CatalogueSound
<1>2. CASE UNCHANGED <<res, cln>>
  <2>1. CatalogueSound'
    BY <1>2, CatalogueUnchanged DEF IInv
  <2> QED BY <1>1, <1>2, <2>1 DEF TypeOK
<1>3. CASE ~ UNCHANGED <<res, cln>>
  <2>1. res.used /\ res' = drc_clean_edp_info(res, l)
    BY <1>3 DEF MasterClean
  <2> DEFINE to == (IF res.edp = {} THEN Inst ELSE res.edp) \ (IF dbwr THEN {Master} ELSE {})
  <2>2. cln' = [j \in Inst |-> IF j \in to THEN cln[j] \cup {l} ELSE cln[j]]
    BY <1>3, Zenon DEF MasterClean
  <2> HIDE DEF to
  <2>3. cln' \in [Inst -> SUBSET Nat]
    BY <1>1, <2>2 DEF TypeOK
  <2>4. /\ res' \in BufRes /\ res'.used = res.used /\ res'.owner = res.owner
        /\ res'.pending = res.pending /\ res'.conv = res.conv /\ res'.q = res.q
        /\ res.edp = {} => res'.edp = {}
    BY <1>1, <2>1, CleanType DEF TypeOK
  <2>5. EntrySound'
    BY <1>1, <2>1, <2>4 DEF EntrySound, QueueServed, Converting
  <2>6. RoundsSound'
    BY <1>1, <2>4, RoundsStep
  <2> QED BY <2>3, <2>4, <2>5, <2>6 DEF CatalogueSound
<1> QED BY <1>2, <1>3

\* Written pages are announced, and checkpoint requests passed on.
LEMMA AnnounceStep ==
    ASSUME IInv, (\E i \in Inst : CkptAnnounce(i)) \/ ProcCleanReq \/ ProcCkptReq
    PROVE  IInv' /\ res'.used = res.used
<1>1. TypeOK /\ CatalogueSound
  BY DEF IInv
<1>2. ASSUME NEW i \in Inst, CkptAnnounce(i)
      PROVE  IInv' /\ res'.used = res.used
  <2>1. PICK l \in out[i] :
          /\ out' = [out EXCEPT ![i] = @ \ {l}]
          /\ IF i = Master
             THEN MasterClean(l, TRUE) /\ UNCHANGED msgs
             ELSE Send({CleanReq(l)}) /\ UNCHANGED <<res, cln>>
    BY <1>2 DEF CkptAnnounce
  <2>2. UNCHANGED <<inv, ctrl, ses, sn, mark, grp, disk, hist, panic>>
    BY <1>2 DEF CkptAnnounce
  <2>3. l \in Nat /\ out' \in [Inst -> SUBSET Nat]
    BY <1>1, <2>1 DEF TypeOK
  <2>4. CleanReq(l) \in Msg
    BY <2>3 DEF CleanReq, Msg
  <2>5. msgs' \in SUBSET Msg
    BY <1>1, <2>1, <2>4, NetType DEF TypeOK
  <2>6. res' \in BufRes /\ cln' \in [Inst -> SUBSET Nat] /\ CatalogueSound' /\ res'.used = res.used
    <3>1. CASE i = Master
      BY <2>1, <2>2, <2>3, <3>1, MasterCleanStep
    <3>2. CASE i # Master
      <4>1. UNCHANGED <<res, inv, cln>>
        BY <2>1, <2>2, <3>2
      <4>2. CatalogueSound'
        BY <1>1, <4>1, CatalogueUnchanged
      <4> QED BY <1>1, <4>1, <4>2 DEF TypeOK
    <3> QED BY <3>1, <3>2
  <2>7. TypeOK'
    BY <1>1, <2>2, <2>3, <2>5, <2>6 DEF TypeOK
  <2> QED BY <2>6, <2>7 DEF IInv
<1>3. CASE ProcCleanReq
  <2>1. PICK m \in msgs : m.t = "clean" /\ MasterClean(m.lsn, FALSE) /\ Exchange(m, {})
    BY <1>3 DEF ProcCleanReq
  <2>2. UNCHANGED <<inv, ctrl, ses, sn, mark, grp, out, disk, hist, panic>>
    BY <1>3 DEF ProcCleanReq
  <2>3. m.lsn \in Nat
    BY <1>1, <2>1, MsgFields DEF TypeOK
  <2>4. res' \in BufRes /\ cln' \in [Inst -> SUBSET Nat] /\ CatalogueSound' /\ res'.used = res.used
    BY <2>1, <2>2, <2>3, MasterCleanStep
  <2>5. msgs' \in SUBSET Msg
    BY <1>1, <2>1, NetType DEF TypeOK
  <2>6. TypeOK'
    BY <1>1, <2>2, <2>4, <2>5 DEF TypeOK
  <2> QED BY <2>4, <2>6 DEF IInv
<1>4. CASE ProcCkptReq
  <2> DEFINE to == IF res.used THEN {res.owner} ELSE Inst
             G(m) == [lsn |-> m.lsn, clean |-> ~ res.used]
  <2>1. PICK m \in msgs :
          /\ m.t = "ckpt" /\ Exchange(m, {})
          /\ grp' = [j \in Inst |-> IF j \in to THEN grp[j] \cup {G(m)} ELSE grp[j]]
    BY <1>4 DEF ProcCkptReq
  <2>2. UNCHANGED <<res, inv, ctrl, ses, sn, mark, cln, out, disk, hist, panic>>
    BY <1>4 DEF ProcCkptReq
  <2>3. G(m) \in [lsn : Nat, clean : BOOLEAN]
    BY <1>1, <2>1, MsgFields DEF TypeOK
  <2> HIDE DEF to, G
  <2>4. grp' \in [Inst -> SUBSET [lsn : Nat, clean : BOOLEAN]]
    BY <1>1, <2>1, <2>3 DEF TypeOK
  <2>5. msgs' \in SUBSET Msg
    BY <1>1, <2>1, NetType DEF TypeOK
  <2>6. TypeOK'
    BY <1>1, <2>2, <2>4, <2>5 DEF TypeOK
  <2> QED BY <1>1, <2>2, <2>6, CatalogueUnchanged DEF IInv
<1> QED BY <1>2, <1>3, <1>4

\* IInv is inductive: every step of the specification keeps it.
LEMMA NextIInv ==
    ASSUME IInv, [Next]_vars
    PROVE  IInv'
<1>1. TypeOK /\ CatalogueSound
  BY DEF IInv
<1>2. ASSUME TypeOK', UNCHANGED <<res, inv>> PROVE IInv'
  BY <1>1, <1>2, CatalogueUnchanged DEF IInv
<1>3. ASSUME NEW i \in Inst, Session(i) PROVE IInv'
  <2>1. ASSUME NEW mode \in ReqMode, EnterLocal(i, mode) \/ EnterRemote(i, mode) PROVE IInv'
    <3>1. UNCHANGED <<res, inv>>
      BY <2>1 DEF EnterLocal, EnterRemote
    <3> QED BY <1>2, <2>1, <3>1, TypeEnter
  <2>2. CASE ModifyPage(i) \/ Evict(i)
    <3>1. UNCHANGED <<res, inv>>
      BY <2>2 DEF ModifyPage, Evict
    <3> QED BY <1>2, <2>2, <3>1, TypeLeave
  <2>3. CASE RequestTimeout(i)
    <3>1. UNCHANGED <<res, inv>>
      BY <2>3 DEF RequestTimeout
    <3> QED BY <1>2, <2>3, <3>1, TypeAnswer
  <2> QED BY <1>3, <2>1, <2>2, <2>3, Zenon DEF Session
<1>4. ASSUME NEW i \in Inst, Answer(i) \/ LeavePage(i) \/ OwnerTransfer(i) PROVE IInv'
  <2>1. UNCHANGED <<res, inv>>
    BY <1>4 DEF Answer, HandleError, HandleNeedLoad, HandleAlreadyOwner, HandlePageReady,
                LeavePage, OwnerTransfer
  <2> QED BY <1>2, <1>4, <2>1, TypeAnswer, TypeLeave, TypeTransfer
<1>5. ASSUME NEW i \in Inst, Ckpt(i) \/ CkptWrite(i) PROVE IInv'
  <2>1. CASE CkptAnnounce(i)
    BY <2>1, AnnounceStep
  <2>2. CASE CkptRemotePrepare(i) \/ CkptCleanLocal(i) \/ CkptPrepareNormal(i) \/ CkptWrite(i)
    BY <1>2, <2>2, TypeCkpt
  <2> QED BY <1>5, <2>1, <2>2 DEF Ckpt
<1>6. ASSUME NEW i \in Inst, NodeStep(i) PROVE IInv'
  BY <1>3, <1>4, <1>5, <1>6, AskStep, ClaimStep, InvalidateStep DEF NodeStep
<1>7. CASE Next
  BY <1>5, <1>6, <1>7, RoundDoneStep, RecycleStep, AnnounceStep, Zenon DEF Next
<1>8. CASE UNCHANGED vars
  BY <1>1, <1>2, <1>8 DEF vars, TypeOK
<1> QED BY <1>7, <1>8

\* Everything that is reachable satisfies IInv.
LEMMA AlwaysIInv == Spec => []IInv
<1>1. Init => IInv
  BY InitIInv
<1>2. IInv /\ [Next]_vars => IInv'
  BY NextIInv
<1> QED BY <1>1, <1>2, PTL DEF Spec

\* Only the end of a recycling forgets the entry (drc_recycle_items): no
\* request, claim, invalidation or checkpoint step removes it.
LEMMA Forgetting ==
    ASSUME IInv, [Next]_vars, res.used, ~ res'.used
    PROVE  RecycleDone
<1> SUFFICES ASSUME ~ RecycleDone PROVE FALSE
  OBVIOUS
<1>1. res \in BufRes
  BY DEF IInv, TypeOK
<1>2. ~ UNCHANGED res
  OBVIOUS
<1>3. ASSUME NEW i \in Inst PROVE ~ MasterAsk(i)
  <2>1. ~ AskGranted(i) /\ ~ AskRejected(i)
    BY <1>2 DEF AskGranted, AskRejected
  <2>2. ~ AskConverting(i)
    BY <1>1 DEF AskConverting, BufRes
  <2>3. ~ AskRetried(i)
    <3>1. SUFFICES ASSUME NEW r, res' = [res EXCEPT !.conv = r] PROVE FALSE
      BY Zenon DEF AskRetried
    <3> QED BY <1>1, <3>1 DEF BufRes
  <2>4. ~ AskQueued(i)
    <3>1. SUFFICES ASSUME NEW q, res' = [res EXCEPT !.q = q] PROVE FALSE
      BY <1>2 DEF AskQueued
    <3> QED BY <1>1, <3>1 DEF BufRes
  <2> QED BY <2>1, <2>2, <2>3, <2>4 DEF MasterAsk
<1>4. ASSUME NEW i \in Inst PROVE ~ NodeStep(i)
  <2>1. ~ Session(i)
    BY <1>2 DEF Session, EnterLocal, EnterRemote, ModifyPage, RequestTimeout, Evict
  <2>2. ~ Answer(i) /\ ~ LeavePage(i)
    BY <1>2 DEF Answer, HandleError, HandleNeedLoad, HandleAlreadyOwner, HandlePageReady, LeavePage
  <2>3. ~ MasterClaim(i)
    BY ClaimStep
  <2>4. ~ InvalidateCopy(i) /\ ~ OwnerTransfer(i)
    BY <1>2 DEF InvalidateCopy, OwnerTransfer
  <2>5. ~ Ckpt(i)
    BY <1>2, AnnounceStep DEF Ckpt, CkptRemotePrepare, CkptCleanLocal, CkptPrepareNormal
  <2> QED BY <1>3, <2>1, <2>2, <2>3, <2>4, <2>5 DEF NodeStep
<1>5. ~ RoundDone
  BY <1>1, <1>2 DEF RoundDone, BufRes
<1>6. ~ Recycle
  BY <1>1, <1>2 DEF Recycle, RecycleStart, RecycleOwner, BufRes
<1>7. ~ ProcCkptReq /\ ~ ProcCleanReq
  BY AnnounceStep
<1>8. ASSUME NEW i \in Inst PROVE ~ CkptWrite(i)
  BY <1>2 DEF CkptWrite
<1>9. ~ Next
  BY <1>4, <1>5, <1>6, <1>7, <1>8 DEF Next
<1> QED BY <1>2, <1>9 DEF vars

\* The variables keep their types, however many instances share the page and
\* however its requests, transfers, claims, time-outs and checkpoints
\* interleave.
THEOREM TypeCorrect == Spec => []TypeOK
<1>1. IInv => TypeOK
  BY DEF IInv
<1> QED BY <1>1, AlwaysIInv, PTL

\* The catalogue entry and the rounds that work on it stay consistent: one
\* recycling at a time, only of a pending entry, which converts nothing and
\* keeps its owner (drc_recycle_items, drc_request_page_owner,
\* drc_claim_page_owner).
THEOREM CatalogueCorrect == Spec => []CatalogueSound
<1>1. IInv => CatalogueSound
  BY DEF IInv
<1> QED BY <1>1, AlwaysIInv, PTL

\* The master forgets only an entry that converts nothing, keeps nobody
\* waiting and knows no early dirty page (drc_recycle_items).
THEOREM EntryForgottenIdle == Spec => ForgottenIdle
<1> DEFINE Idle == ~ Converting(res) /\ res.q = <<>> /\ res.edp = {}
<1>1. ASSUME IInv, [Next]_vars PROVE [res.used /\ ~ res'.used => Idle]_res
  <2>1. SUFFICES ASSUME res.used, ~ res'.used PROVE Idle
    OBVIOUS
  <2>2. RecycleDone
    BY <1>1, <2>1, Forgetting
  <2>3. PICK r \in inv : IsRecycle(r)
    BY <2>2 DEF RecycleDone, IsRecycle
  <2> QED BY <1>1, <2>3 DEF IInv, CatalogueSound, EntrySound, RoundsSound, QueueServed
<1> QED BY <1>1, AlwaysIInv, PTL DEF Spec, ForgottenIdle
=============================================================================
