----------------------------- MODULE DlsProofs -----------------------------
(***************************************************************************)
(* Theorems about module Dls, for any number of instances and sessions:    *)
(* type correctness of every behaviour, crashes and reforms included, and  *)
(* mutual exclusion, the agreement of the master's entry with the modes    *)
(* the instances keep, and the absence of panics until an instance         *)
(* crashes.                                                                *)
(***************************************************************************)
EXTENDS Dls, TLAPS, FiniteSetTheorems, SequenceTheorems

-----------------------------------------------------------------------------
(***************************************************************************)
(* The inductive invariant of the behaviour before a crash.                *)
(***************************************************************************)
\* The request of session s; without crashes a session uses request 0 only.
H(s) == hnd[s][0]

\* The handler of the request works on it as the converting one.
Converting == {"ask", "rel_ok", "rel_err"}

\* The request as the entry of the master keeps it (drc_request_info_t).
Req(s) == [inst |-> s[1], mode |-> H(s).mode, from |-> <<s, 0>>]

\* The sessions that share the latch on instance i.
Sharers(i) == {s \in Sess : s[1] = i /\ sess[s] = "S"}

\* The session has the latch for itself or has announced that it wants it.
Writer == {"X", "ix", "reqIX", "quit"}

\* Nobody crashed, no reform began, and every wait ended with an answer.
Calm ==
    /\ dead = NoInst /\ stray = {} /\ master = Master
    /\ ver = [i \in Inst |-> 0] /\ phase = [i \in Inst |-> "run"]
    /\ rsn = [s \in Sess |-> 0]
    /\ \A s \in Sess, r \in Rsn : r # 0 => hnd[s][r].pc = "none"

\* A session waits for an answer exactly while its request is under way, and
\* keeps the local spin lock for so long.
Requests ==
    /\ \A s \in Sess :
          /\ H(s).pc \in {"none", "sent", "queued", "ok", "err"} \union Converting
          /\ H(s).pc # "none" <=> sess[s] \in Asking
          /\ H(s).pc # "none" =>
               /\ H(s).at = Master /\ H(s).ver = 0
               /\ H(s).mode = IF sess[s] = "reqS" THEN DRC_LOCK_SHARE
                              ELSE DRC_LOCK_EXCLUSIVE
    /\ \A s, t \in Sess : s[1] = t[1] /\ sess[s] \in Asking /\ sess[t] \in Asking => s = t

\* The local entry of instance i agrees with what its sessions do.
LatchOK(i) ==
    /\ IsFiniteSet(Sharers(i)) /\ loc[i].shared_count = Cardinality(Sharers(i))
    /\ loc[i].stat = LATCH_STATUS_S => loc[i].shared_count > 0
    /\ \A s \in Sess : s[1] = i =>
          /\ sess[s] = "S" => /\ loc[i].stat \in {LATCH_STATUS_S, LATCH_STATUS_IX}
                              /\ loc[i].lock_mode # DRC_LOCK_NULL
          /\ sess[s] = "X" => /\ loc[i].stat = LATCH_STATUS_X
                              /\ loc[i].lock_mode = DRC_LOCK_EXCLUSIVE
          /\ sess[s] \in {"ix", "reqIX", "quit"} => loc[i].stat = LATCH_STATUS_IX
          /\ sess[s] = "reqIX" => loc[i].shared_count = 0
          /\ sess[s] \in {"reqS", "reqX"} => loc[i].stat = LATCH_STATUS_IDLE
          /\ sess[s] = "reqS" => loc[i].lock_mode = DRC_LOCK_NULL
    /\ \A s, t \in Sess :
          (s[1] = i /\ t[1] = i /\ sess[s] \in Writer /\ sess[t] \in Writer) => s = t

Latches == \A i \in Inst : LatchOK(i)

\* The converting request and the queue are those of the handlers, each once.
Queue ==
    /\ \A s \in Sess : H(s).pc \in Converting => res.conv = Req(s)
    /\ \A s \in Sess : H(s).pc = "queued" =>
          res.conv = Req(s) \/ \E n \in 1 .. Len(res.q) : res.q[n] = Req(s)
    /\ res.conv # NoReq =>
          \E s \in Sess : H(s).pc \in Converting \union {"queued"} /\ res.conv = Req(s)
    /\ \A n \in 1 .. Len(res.q) :
          \E s \in Sess : H(s).pc = "queued" /\ res.q[n] = Req(s)
    /\ \A n \in 1 .. Len(res.q) : res.q[n] # res.conv
    /\ \A m, n \in 1 .. Len(res.q) : res.q[m] = res.q[n] => m = n
    /\ res.conv = NoReq => res.q = << >>

\* The entry covers the modes kept and the ones granted by answers under way.
Covers(i, m) ==
    /\ i \in res.granted /\ m <= res.mode
    /\ m = DRC_LOCK_EXCLUSIVE => res.granted = {i}

Grants ==
    /\ res.mode = DRC_LOCK_NULL => res.granted = {}
    /\ \A i \in Inst : loc[i].lock_mode # DRC_LOCK_NULL => Covers(i, loc[i].lock_mode)
    /\ \A s \in Sess : H(s).pc = "ok" => Covers(s[1], H(s).mode)
    /\ \A i \in res.granted :
          \/ loc[i].lock_mode # DRC_LOCK_NULL
          \/ \E s \in Sess : s[1] = i /\ H(s).pc = "ok"
          \/ \E s \in Sess : /\ H(s).pc = "rel_ok" /\ H(s).own = i
                              /\ H(s).mode = DRC_LOCK_EXCLUSIVE

\* Who is converted has every conflicting owner still before it, and an owner
\* that released the lock has no mode left that conflicts.
TurnOf(s) ==
    /\ H(s).pc = "queued" => s[1] \notin res.granted
    /\ H(s).pc \in {"rel_ok", "rel_err"} => H(s).own \in H(s).todo
    /\ H(s).pc = "rel_ok" =>
         /\ \A t \in Sess : t[1] = H(s).own => H(t).pc # "ok"
         /\ loc[H(s).own].lock_mode # DRC_LOCK_EXCLUSIVE
         /\ H(s).mode = DRC_LOCK_EXCLUSIVE => loc[H(s).own].lock_mode = DRC_LOCK_NULL
    /\ H(s).pc \in Converting =>
         /\ H(s).mode = DRC_LOCK_SHARE => s[1] \notin res.granted
         /\ H(s).mode = DRC_LOCK_EXCLUSIVE => res.granted \subseteq H(s).todo \union {s[1]}
         /\ H(s).mode = DRC_LOCK_SHARE =>
              /\ \A i \in Inst : loc[i].lock_mode = DRC_LOCK_EXCLUSIVE => i \in H(s).todo
              /\ \A t \in Sess : H(t).pc = "ok" /\ H(t).mode = DRC_LOCK_EXCLUSIVE
                                   => t[1] \in H(s).todo

Turn == \A s \in Sess : TurnOf(s)

Sound == Calm /\ Requests /\ Latches /\ Queue /\ Grants /\ Turn
BeforeCrash == dead = NoInst => Sound

-----------------------------------------------------------------------------
(***************************************************************************)
(* The operators of LockRes and the records of Dls have their types.       *)
(***************************************************************************)
\* The entry of the master and the entry of an instance.
LockResType == [mode : LockMode, granted : SUBSET Inst, conv : Request \union {NoReq},
                q : Seq(Request)]
LocalType == [lock_mode : LockMode, stat : {"IDLE", "S", "IX", "X"}, shared_count : Nat,
              is_locked : BOOLEAN]
\* A request under way asks for a mode.
HandlerType ==
    {h \in [pc : HndPc, mode : LockMode, ver : {0, 1}, todo : SUBSET Inst,
            own : Inst \union {NoInst}, at : Inst \union {NoInst}] :
        h.pc # "none" => h.mode \in ReqMode}

\* The lock modes (drc_lock_mode_e).
LEMMA Modes ==
    /\ DRC_LOCK_NULL \in LockMode /\ DRC_LOCK_SHARE \in ReqMode
    /\ DRC_LOCK_EXCLUSIVE \in ReqMode /\ ReqMode \subseteq LockMode
BY DEF ReqMode, LockMode, DRC_LOCK_SHARE, DRC_LOCK_EXCLUSIVE, DRC_LOCK_NULL

\* The entry of a lock nobody holds (drc_create_lock_res).
LEMMA EmptyResType == EmptyRes \in LockResType
BY Modes DEF EmptyRes, LockResType

\* The next request becomes the converting one (drc_convert_lock_owner).
LEMMA ConvertOwnerType ==
    ASSUME NEW R \in LockResType
    PROVE  /\ drc_convert_lock_owner(R) \in LockResType
           /\ drc_convert_lock_owner(R).granted = R.granted
           /\ drc_convert_lock_owner(R).mode = R.mode
<1>1. R.q \in Seq(Request)
  BY DEF LockResType
<1>2. CASE R.q = << >>
  BY <1>2 DEF drc_convert_lock_owner, LockResType
<1>3. CASE R.q # << >>
  <2>1. Head(R.q) \in Request /\ Tail(R.q) \in Seq(Request)
    BY <1>1, <1>3, HeadTailProperties
  <2> QED BY <2>1, <1>3 DEF drc_convert_lock_owner, LockResType
<1> QED BY <1>2, <1>3

\* A cancelled conversion (drc_cancel_lock_owner_request).
LEMMA CancelType ==
    ASSUME NEW R \in LockResType, NEW i
    PROVE  /\ drc_cancel_lock_owner_request(R, i) \in LockResType
           /\ drc_cancel_lock_owner_request(R, i).granted = R.granted
           /\ drc_cancel_lock_owner_request(R, i).mode = R.mode
BY ConvertOwnerType DEF drc_cancel_lock_owner_request

\* A grant that is withdrawn (dls_clear_granted_map_for_inst).
LEMMA ClearType ==
    ASSUME NEW R \in LockResType, NEW i
    PROVE  dls_clear_granted_map_for_inst(R, i) \in LockResType
BY Modes DEF dls_clear_granted_map_for_inst, LockResType

\* A claim (drc_claim_lock_owner).
LEMMA ClaimType ==
    ASSUME NEW R \in LockResType, NEW i \in Inst, NEW m \in LockMode
    PROVE  /\ drc_claim_lock_owner(R, i, m) \in LockResType
           /\ drc_claim_lock_owner(R, i, m).mode = m
           /\ drc_claim_lock_owner(R, i, m).granted =
                  IF m = DRC_LOCK_EXCLUSIVE THEN {i} ELSE R.granted \union {i}
<1> DEFINE N == [R EXCEPT !.granted = IF m = DRC_LOCK_EXCLUSIVE THEN {i}
                                      ELSE @ \union {i}, !.mode = m]
<1>1. /\ N \in LockResType /\ N.mode = m
      /\ N.granted = IF m = DRC_LOCK_EXCLUSIVE THEN {i} ELSE R.granted \union {i}
  BY DEF LockResType
<1>2. drc_claim_lock_owner(R, i, m) = drc_convert_lock_owner(N)
  BY DEF drc_claim_lock_owner
<1> HIDE DEF N
<1>3. /\ drc_convert_lock_owner(N) \in LockResType
      /\ drc_convert_lock_owner(N).granted = N.granted
      /\ drc_convert_lock_owner(N).mode = N.mode
  BY <1>1, ConvertOwnerType
<1> QED BY <1>1, <1>2, <1>3, Zenon

\* The entry without an instance that left (drc_clean_lock_owner_by_part).
LEMMA CleanType ==
    ASSUME NEW R \in LockResType, NEW i
    PROVE  drc_clean_lock_owner(R, i) \in LockResType
<1> DEFINE E == [R EXCEPT !.q = << >>]
           C == drc_cancel_lock_owner_request(E, i)
<1>0. << >> \in Seq(Request)
  OBVIOUS
<1>1. E \in LockResType
  BY <1>0 DEF LockResType
<1>2. drc_clean_lock_owner(R, i) = dls_clear_granted_map_for_inst(C, i)
  BY DEF drc_clean_lock_owner
<1> HIDE DEF E
<1>3. C \in LockResType
  BY <1>1, CancelType
<1> HIDE DEF C
<1>4. dls_clear_granted_map_for_inst(C, i) \in LockResType
  BY <1>3, ClearType
<1> QED BY <1>2, <1>4, Zenon

\* The handlers of all requests after a change of one.
LEMMA HandlersType ==
    ASSUME hnd \in [Sess -> [Rsn -> HandlerType]], NEW s \in Sess, NEW r \in Rsn,
           NEW h \in HandlerType
    PROVE  /\ [hnd EXCEPT ![s][r] = h] \in [Sess -> [Rsn -> HandlerType]]
           /\ [hnd EXCEPT ![s][r] = h][s][r] = h
           /\ \A t \in Sess, n \in Rsn :
                 t # s \/ n # r => [hnd EXCEPT ![s][r] = h][t][n] = hnd[t][n]
OBVIOUS

\* The local entries after a change of one.
LEMMA LocalsType ==
    ASSUME loc \in [Inst -> LocalType], NEW i \in Inst, NEW l \in LocalType
    PROVE  /\ [loc EXCEPT ![i] = l] \in [Inst -> LocalType]
           /\ [loc EXCEPT ![i] = l][i] = l
           /\ \A j \in Inst : j # i => [loc EXCEPT ![i] = l][j] = loc[j]
OBVIOUS

\* No request, and an instance without a mode.
LEMMA IdleType == Idle \in HandlerType /\ UnusedLocal \in LocalType
BY Modes DEF Idle, HandlerType, UnusedLocal, LocalType, HndPc, LATCH_STATUS_IDLE

\* The records of all requests.
HandlersTyped == hnd \in [Sess -> [Rsn -> HandlerType]]

\* The type invariant that is inductive: it implies TypeOK.
TypeInv ==
    /\ master \in Inst /\ res \in LockResType /\ loc \in [Inst -> LocalType]
    /\ sess \in [Sess -> SessPc] /\ rsn \in [Sess -> Rsn] /\ HandlersTyped
    /\ stray \subseteq [own : Inst, mode : ReqMode, ver : {0, 1}, timed : BOOLEAN]
    /\ dead \in Inst \union {NoInst} /\ ver \in [Inst -> {0, 1}]
    /\ phase \in [Inst -> {"run", "closed", "assigned", "publish", "open"}]
    /\ target \in Inst \union {NoInst}
    /\ \A i \in Inst : phase[i] \in {"assigned", "publish", "open"} => target \in Inst

\* The inductive type invariant is at least as strong as TypeOK.
LEMMA Types == TypeInv => TypeOK
<1>1. HandlersTyped => hnd \in [Sess -> [Rsn -> [pc : HndPc, mode : LockMode, ver : {0, 1},
                                 todo : SUBSET Inst, own : Inst \union {NoInst},
                                 at : Inst \union {NoInst}]]]
  BY DEF HandlersTyped, HandlerType
<1> QED BY <1>1, Zenon DEF TypeInv, TypeOK, LockResType, LocalType

\* The records that the handlers write.
LEMMA HandlerRecords ==
    ASSUME NEW h \in HandlerType, NEW p \in HndPc, NEW o \in Inst \union {NoInst},
           NEW T \in SUBSET Inst, h.pc # "none"
    PROVE  /\ [h EXCEPT !.pc = p] \in HandlerType
           /\ [h EXCEPT !.pc = p, !.own = o] \in HandlerType
           /\ [h EXCEPT !.pc = p, !.todo = T] \in HandlerType
           /\ [h EXCEPT !.pc = p, !.own = o, !.todo = T] \in HandlerType
           /\ [h EXCEPT !.pc = p, !.todo = T, !.own = o] \in HandlerType
BY DEF HandlerType

\* The instance of a session.
LEMMA SessInst == \A s \in Sess : s[1] \in Inst
BY SessAssumption

\* A handler that ends (Reply).
LEMMA ReplyType ==
    ASSUME HandlersTyped, NEW s \in Sess, NEW r \in Rsn, NEW a \in HndPc, hnd[s][r].pc # "none",
           Reply(s, r, a)
    PROVE  HandlersTyped'
<1> DEFINE h == IF r = rsn[s] /\ s[1] # dead
                THEN [hnd[s][r] EXCEPT !.pc = a, !.todo = {}, !.own = NoInst] ELSE Idle
<1>1. hnd' = [hnd EXCEPT ![s][r] = h]
  BY DEF Reply
<1>2. hnd[s][r] \in HandlerType
  BY DEF HandlersTyped
<1>3. h \in HandlerType
  BY <1>2, HandlerRecords, IdleType
<1> HIDE DEF h
<1> QED BY <1>1, <1>3, HandlersType DEF HandlersTyped

\* A handler whose request is converted (Convert).
LEMMA ConvertType ==
    ASSUME HandlersTyped, res \in LockResType, NEW s \in Sess, NEW r \in Rsn,
           hnd[s][r].pc # "none", Convert(s, r)
    PROVE  HandlersTyped'
<1> DEFINE T == OldOwners(res, s[1], hnd[s][r].mode)
           h == [hnd[s][r] EXCEPT !.pc = "ask", !.todo = T]
<1>1. T \in SUBSET Inst
  BY DEF OldOwners, LockResType
<1>2. hnd' = [hnd EXCEPT ![s][r].pc = "ask", ![s][r].todo = T]
  BY DEF Convert
<1> HIDE DEF T
<1>3. hnd' = [hnd EXCEPT ![s][r] = h]
  BY <1>2 DEF HandlersTyped
<1>4. hnd[s][r] \in HandlerType /\ "ask" \in HndPc
  BY DEF HandlersTyped, HndPc
<1>5. h \in HandlerType
  BY <1>1, <1>4, HandlerRecords
<1> HIDE DEF h
<1> QED BY <1>3, <1>5, HandlersType DEF HandlersTyped

\* A request that is sent (NewRequest).
LEMMA NewRequestType ==
    ASSUME TypeInv, NEW s \in Sess, NEW m \in ReqMode, NewRequest(s, m)
    PROVE  HandlersTyped'
<1> DEFINE p == IF master = dead THEN "lost" ELSE "sent"
           h == [Idle EXCEPT !.pc = p, !.mode = m, !.ver = ver[s[1]], !.at = master]
<1>0. p \in {"lost", "sent"}
  OBVIOUS
<1>1. hnd' = [hnd EXCEPT ![s][rsn[s]] = h]
  BY DEF NewRequest
<1>2. master \in Inst /\ ver[s[1]] \in {0, 1} /\ rsn[s] \in Rsn
  BY SessInst DEF TypeInv
<1> HIDE DEF p
<1>3. p \in HndPc /\ m \in LockMode
  BY <1>0, Modes DEF HndPc
<1>5. h \in HandlerType
  BY <1>2, <1>3, IdleType DEF HandlerType
<1>4. HandlersTyped
  BY DEF TypeInv
<1> HIDE DEF h
<1> QED BY <1>1, <1>2, <1>4, <1>5, HandlersType DEF HandlersTyped

\* The local entry of a session whose request succeeded (Granted).
LEMMA GrantedLocal ==
    ASSUME loc \in [Inst -> LocalType], NEW s \in Sess, Granted(s)
    PROVE  \E l \in LocalType :
              /\ loc' = [loc EXCEPT ![s[1]] = l]
              /\ l.stat = (IF sess[s] = "reqS" THEN LATCH_STATUS_S ELSE LATCH_STATUS_X)
              /\ l.shared_count = (IF sess[s] = "reqS" THEN 1 ELSE loc[s[1]].shared_count)
              /\ l.lock_mode = (IF sess[s] = "reqS" THEN DRC_LOCK_SHARE
                                ELSE DRC_LOCK_EXCLUSIVE)
<1> DEFINE i == s[1]
           l1 == [loc[i] EXCEPT !.lock_mode = DRC_LOCK_SHARE, !.stat = LATCH_STATUS_S,
                                !.shared_count = 1, !.is_locked = TRUE]
           l2 == [loc[i] EXCEPT !.lock_mode = DRC_LOCK_EXCLUSIVE, !.stat = LATCH_STATUS_X,
                                !.is_locked = TRUE]
<1>1. loc[i] \in LocalType
  BY SessInst
<1>2. /\ l1 \in LocalType /\ l1.stat = LATCH_STATUS_S /\ l1.shared_count = 1
      /\ l1.lock_mode = DRC_LOCK_SHARE
  BY <1>1, Modes DEF LocalType, LATCH_STATUS_S
<1>3. /\ l2 \in LocalType /\ l2.stat = LATCH_STATUS_X
      /\ l2.shared_count = loc[i].shared_count /\ l2.lock_mode = DRC_LOCK_EXCLUSIVE
  BY <1>1, Modes DEF LocalType, LATCH_STATUS_X
<1>4. loc' = [loc EXCEPT ![i] = IF sess[s] = "reqS" THEN l1 ELSE l2]
  BY DEF Granted
<1> HIDE DEF l1, l2
<1>5. CASE sess[s] = "reqS"
  BY <1>2, <1>4, <1>5
<1>6. CASE sess[s] # "reqS"
  BY <1>3, <1>4, <1>6
<1> QED BY <1>5, <1>6

\* The local entry of a session that gives the latch back (dls_unlatch).
LEMMA UnlatchLocal ==
    ASSUME loc \in [Inst -> LocalType], NEW s \in Sess, Unlatch(s)
    PROVE  \E l \in LocalType :
              /\ loc' = [loc EXCEPT ![s[1]] = l]
              /\ l.lock_mode = loc[s[1]].lock_mode
              /\ l.shared_count = (IF loc[s[1]].shared_count > 0
                                   THEN loc[s[1]].shared_count - 1 ELSE 0)
              /\ l.stat = (IF /\ loc[s[1]].stat \in {LATCH_STATUS_S, LATCH_STATUS_X}
                              /\ l.shared_count = 0
                           THEN LATCH_STATUS_IDLE ELSE loc[s[1]].stat)
<1> DEFINE i == s[1]
           c == IF loc[i].shared_count > 0 THEN loc[i].shared_count - 1 ELSE 0
           t == IF loc[i].stat \in {LATCH_STATUS_S, LATCH_STATUS_X} /\ c = 0
                THEN LATCH_STATUS_IDLE ELSE loc[i].stat
           l == [loc[i] EXCEPT !.shared_count = c, !.stat = t, !.is_locked = FALSE]
<1>1. loc[i] \in LocalType
  BY SessInst
<1>2. c \in Nat /\ t \in {"IDLE", "S", "IX", "X"}
  BY <1>1 DEF LocalType, LATCH_STATUS_IDLE
<1>3. loc' = [loc EXCEPT ![i] = l]
  BY Zenon DEF Unlatch
<1> HIDE DEF c, t
<1>4. /\ l \in LocalType /\ l.lock_mode = loc[i].lock_mode /\ l.shared_count = c
      /\ l.stat = t
  BY <1>1, <1>2 DEF LocalType
<1> HIDE DEF l
<1> QED BY <1>3, <1>4 DEF c, t

\* The local entry of a session that shares the latch at once (dls_latch_s).
LEMMA LatchSLocal ==
    ASSUME loc \in [Inst -> LocalType], NEW s \in Sess, LatchS(s), loc' # loc
    PROVE  \E l \in LocalType :
              /\ loc' = [loc EXCEPT ![s[1]] = l]
              /\ l.lock_mode = loc[s[1]].lock_mode /\ l.stat = LATCH_STATUS_S
              /\ l.shared_count = (IF loc[s[1]].stat = LATCH_STATUS_IDLE THEN 1
                                   ELSE loc[s[1]].shared_count + 1)
<1> DEFINE i == s[1]
           c == IF loc[i].stat = LATCH_STATUS_IDLE THEN 1 ELSE loc[i].shared_count + 1
           l == [loc[i] EXCEPT !.stat = LATCH_STATUS_S, !.shared_count = c,
                               !.is_locked = TRUE]
<1>1. loc[i] \in LocalType /\ i \in Inst
  BY SessInst
<1>2. c \in Nat
  BY <1>1 DEF LocalType
<1>3. loc' = [loc EXCEPT ![i].stat = LATCH_STATUS_S, ![i].shared_count = c,
                         ![i].is_locked = TRUE]
  BY <1>1 DEF LatchS, LocalType
<1> HIDE DEF c
<1>4. loc' = [loc EXCEPT ![i] = l]
  BY <1>1, <1>3 DEF LocalType
<1>5. /\ l \in LocalType /\ l.lock_mode = loc[i].lock_mode /\ l.stat = LATCH_STATUS_S
      /\ l.shared_count = c
  BY <1>1, <1>2 DEF LocalType, LATCH_STATUS_S
<1> HIDE DEF l
<1> QED BY <1>4, <1>5 DEF c

\* The local entry of a session that takes the latch at once or announces
\* that it wants it (dls_latch_x), or withdraws (dls_latch_timed_x).
LEMMA StatLocal ==
    ASSUME loc \in [Inst -> LocalType], NEW s \in Sess, LatchX(s) \/ GiveUp(s), loc' # loc
    PROVE  \E l \in LocalType :
              /\ loc' = [loc EXCEPT ![s[1]] = l]
              /\ l.lock_mode = loc[s[1]].lock_mode
              /\ l.shared_count = loc[s[1]].shared_count
              /\ LatchX(s) => l.stat = (IF loc[s[1]].stat = LATCH_STATUS_IDLE
                                        THEN LATCH_STATUS_X ELSE LATCH_STATUS_IX)
              /\ GiveUp(s) => l.stat = (IF loc[s[1]].shared_count > 0
                                        THEN LATCH_STATUS_S ELSE LATCH_STATUS_IDLE)
<1> DEFINE i == s[1]
           gs == IF loc[i].shared_count > 0 THEN LATCH_STATUS_S ELSE LATCH_STATUS_IDLE
           l1 == [loc[i] EXCEPT !.stat = LATCH_STATUS_X, !.is_locked = TRUE]
           l2 == [loc[i] EXCEPT !.stat = LATCH_STATUS_IX]
           l3 == [loc[i] EXCEPT !.stat = gs]
<1>1. loc[i] \in LocalType /\ i \in Inst
  BY SessInst
<1>2. gs \in {"S", "IDLE"}
  BY DEF LATCH_STATUS_S, LATCH_STATUS_IDLE
<1>3. ~(LatchX(s) /\ GiveUp(s))
  BY DEF LatchX, GiveUp
<1>4. CASE loc' = [loc EXCEPT ![i].stat = LATCH_STATUS_X, ![i].is_locked = TRUE]
           /\ LatchX(s) /\ loc[i].stat = LATCH_STATUS_IDLE
  <2>1. loc' = [loc EXCEPT ![i] = l1]
    BY <1>1, <1>4 DEF LocalType
  <2>2. /\ l1 \in LocalType /\ l1.lock_mode = loc[i].lock_mode /\ l1.stat = LATCH_STATUS_X
        /\ l1.shared_count = loc[i].shared_count
    BY <1>1 DEF LocalType, LATCH_STATUS_X
  <2> HIDE DEF l1
  <2> QED BY <1>3, <1>4, <2>1, <2>2
<1>5. CASE loc' = [loc EXCEPT ![i].stat = LATCH_STATUS_IX]
           /\ LatchX(s) /\ loc[i].stat # LATCH_STATUS_IDLE
  <2>1. loc' = [loc EXCEPT ![i] = l2]
    BY <1>1, <1>5 DEF LocalType
  <2>2. /\ l2 \in LocalType /\ l2.lock_mode = loc[i].lock_mode /\ l2.stat = LATCH_STATUS_IX
        /\ l2.shared_count = loc[i].shared_count
    BY <1>1 DEF LocalType, LATCH_STATUS_IX
  <2> HIDE DEF l2
  <2> QED BY <1>3, <1>5, <2>1, <2>2
<1>6. CASE loc' = [loc EXCEPT ![i].stat = gs] /\ GiveUp(s)
  <2> HIDE DEF gs
  <2>1. loc' = [loc EXCEPT ![i] = l3]
    BY <1>1, <1>6 DEF LocalType
  <2>2. /\ l3 \in LocalType /\ l3.lock_mode = loc[i].lock_mode /\ l3.stat = gs
        /\ l3.shared_count = loc[i].shared_count
    BY <1>1, <1>2 DEF LocalType
  <2> HIDE DEF l3
  <2> QED BY <1>3, <1>6, <2>1, <2>2 DEF gs
<1>7. LATCH_STATUS_S # LATCH_STATUS_IDLE
  BY DEF LATCH_STATUS_S, LATCH_STATUS_IDLE
<1> HIDE DEF l1, l2, l3
<1> QED BY <1>4, <1>5, <1>6, <1>7, Zenon DEF LatchX, GiveUp

\* Type correctness of the steps of the sessions.
LEMMA TypeSession ==
    ASSUME TypeInv, NEW s \in Sess,
           Call(s) \/ LatchS(s) \/ LatchX(s) \/ Ix2x(s) \/ Answered(s) \/ WaitFails(s)
             \/ GiveUp(s) \/ Unlatch(s)
    PROVE  TypeInv'
<1> DEFINE i == s[1]
<1>1. /\ master \in Inst /\ res \in LockResType /\ loc \in [Inst -> LocalType]
      /\ sess \in [Sess -> SessPc] /\ rsn \in [Sess -> Rsn]
      /\ HandlersTyped
      /\ stray \subseteq [own : Inst, mode : ReqMode, ver : {0, 1}, timed : BOOLEAN]
      /\ dead \in Inst \union {NoInst} /\ ver \in [Inst -> {0, 1}]
      /\ phase \in [Inst -> {"run", "closed", "assigned", "publish", "open"}]
      /\ target \in Inst \union {NoInst}
      /\ \A j \in Inst : phase[j] \in {"assigned", "publish", "open"} => target \in Inst
  BY DEF TypeInv
<1>2. i \in Inst /\ rsn[s] \in Rsn
  BY <1>1, SessInst
<1>3. /\ res' = res /\ master' = master /\ stray' = stray /\ dead' = dead /\ ver' = ver
      /\ phase' = phase /\ target' = target
  <2>1. UNCHANGED <<res, clusterVars>>
    <3>1. CASE Call(s) \/ LatchS(s) \/ LatchX(s) \/ Ix2x(s)
      BY <3>1, Zenon DEF Call, LatchS, LatchX, Ix2x
    <3>2. CASE Answered(s) \/ WaitFails(s) \/ GiveUp(s) \/ Unlatch(s)
      BY <3>2, Zenon DEF Answered, WaitFails, GiveUp, Unlatch
    <3> QED BY <3>1, <3>2
  <2> QED BY <2>1 DEF clusterVars
<1>4. sess' \in [Sess -> SessPc]
  <2>1. CASE Call(s) \/ LatchS(s) \/ LatchX(s) \/ Ix2x(s)
    BY <1>1, <2>1 DEF Call, LatchS, LatchX, Ix2x, SessPc
  <2>2. CASE GiveUp(s) \/ Unlatch(s)
    BY <1>1, <2>2 DEF GiveUp, Unlatch, SessPc
  <2>3. CASE sess[s] \in Asking /\ (Granted(s) \/ Refused(s))
    BY <1>1, <2>3 DEF Granted, Refused, SessPc, Asking
  <2>4. Answered(s) \/ WaitFails(s) => sess[s] \in Asking /\ (Granted(s) \/ Refused(s))
    BY Zenon DEF Answered, WaitFails, Remote
  <2> QED BY <2>1, <2>2, <2>3, <2>4
<1>5. rsn' \in [Sess -> Rsn]
  BY <1>1 DEF Call, LatchS, LatchX, Ix2x, Answered, WaitFails, GiveUp, Unlatch
<1>6. HandlersTyped'
  <2>1. CASE \E m \in ReqMode : NewRequest(s, m)
    BY <2>1, NewRequestType
  <2>2. CASE UNCHANGED hnd
    BY <1>1, <2>2 DEF HandlersTyped
  <2>3. CASE hnd' = [hnd EXCEPT ![s][rsn[s]] = Idle]
    <3>1. hnd \in [Sess -> [Rsn -> HandlerType]]
      BY <1>1 DEF HandlersTyped
    <3>2. [hnd EXCEPT ![s][rsn[s]] = Idle] \in [Sess -> [Rsn -> HandlerType]]
      BY <1>2, <3>1, IdleType, HandlersType
    <3> QED BY <2>3, <3>2, Zenon DEF HandlersTyped
  <2> QED BY <2>1, <2>2, <2>3, Modes
          DEF Call, LatchS, LatchX, Ix2x, Answered, WaitFails, GiveUp, Unlatch
<1>7. loc' \in [Inst -> LocalType]
  <2>0. SUFFICES ASSUME loc' # loc
                 PROVE  \E l \in LocalType : loc' = [loc EXCEPT ![i] = l]
    BY <1>1, <1>2, LocalsType
  <2>1. CASE LatchS(s)
    BY <1>1, <2>0, <2>1, LatchSLocal
  <2>2. CASE LatchX(s) \/ GiveUp(s)
    BY <1>1, <2>0, <2>2, StatLocal
  <2>3. CASE Call(s) \/ Ix2x(s)
    BY <2>0, <2>3 DEF Call, Ix2x
  <2>5. CASE Unlatch(s)
    BY <1>1, <2>5, UnlatchLocal
  <2>6. CASE Granted(s)
    BY <1>1, <2>6, GrantedLocal
  <2>7. CASE Refused(s)
    <3>1. loc' = [loc EXCEPT ![i].is_locked = FALSE]
      BY <2>0, <2>7 DEF Refused
    <3>2. loc' = [loc EXCEPT ![i] = [loc[i] EXCEPT !.is_locked = FALSE]]
      BY <1>1, <1>2, <3>1 DEF LocalType
    <3>3. loc[i] \in LocalType
      BY <1>1, <1>2
    <3>4. [loc[i] EXCEPT !.is_locked = FALSE] \in LocalType
      BY <3>3 DEF LocalType
    <3> QED BY <3>2, <3>4
  <2> QED BY <2>1, <2>2, <2>3, <2>5, <2>6, <2>7 DEF Answered, WaitFails
<1> QED BY <1>1, <1>3, <1>4, <1>5, <1>6, <1>7 DEF TypeInv

\* The record of a request that is converting or queued (drc_request_info_t).
LEMMA RequestType ==
    ASSUME HandlersTyped, NEW s \in Sess, NEW r \in Rsn, hnd[s][r].pc # "none"
    PROVE  [inst |-> s[1], mode |-> hnd[s][r].mode, from |-> <<s, r>>] \in Request
BY SessInst DEF Request, HandlersTyped, HandlerType

\* The entry after a refusal (NotReleased).
LEMMA NotReleasedType ==
    ASSUME HandlersTyped, res \in LockResType, NEW s \in Sess, NEW r \in Rsn,
           hnd[s][r].pc # "none", NotReleased(s, r)
    PROVE  HandlersTyped' /\ res' \in LockResType
<1>1. "err" \in HndPc
  BY DEF HndPc
<1>2. HandlersTyped'
  BY <1>1, ReplyType DEF NotReleased
<1>3. drc_cancel_lock_owner_request(res, s[1]) \in LockResType
  BY CancelType
<1>4. res' = res \/ res' = drc_cancel_lock_owner_request(res, s[1])
  BY DEF NotReleased
<1> QED BY <1>2, <1>3, <1>4

\* The handler waits for the answer of an owner.
LEMMA OwnType ==
    ASSUME HandlersTyped, NEW s \in Sess, NEW r \in Rsn, NEW o \in Inst,
           NEW p \in {"rel_ok", "rel_err"}, hnd[s][r].pc # "none",
           hnd' = [hnd EXCEPT ![s][r].pc = p, ![s][r].own = o]
    PROVE  HandlersTyped'
<1> DEFINE h == [hnd[s][r] EXCEPT !.pc = p, !.own = o]
<1>1. hnd' = [hnd EXCEPT ![s][r] = h]
  BY DEF HandlersTyped
<1>2. hnd[s][r] \in HandlerType /\ p \in HndPc
  BY DEF HandlersTyped, HndPc
<1>3. h \in HandlerType
  BY <1>2, HandlerRecords
<1> HIDE DEF h
<1>4. [hnd EXCEPT ![s][r] = h] \in [Sess -> [Rsn -> HandlerType]]
  BY <1>3, HandlersType DEF HandlersTyped
<1> QED BY <1>1, <1>4, Zenon DEF HandlersTyped

\* The local entries after a release message.
LEMMA ReleaseType ==
    ASSUME loc \in [Inst -> LocalType], NEW o \in Inst, NEW m, NEW v, NEW timed,
           Release(o, m, v) \/ ReleaseRefused(o, v, timed)
    PROVE  loc' \in [Inst -> LocalType]
<1>1. CASE UNCHANGED loc
  BY <1>1
<1>2. CASE Release(o, m, v)
  <2> DEFINE n == IF m = DRC_LOCK_EXCLUSIVE THEN DRC_LOCK_NULL ELSE DRC_LOCK_SHARE
  <2>1. n \in LockMode
    BY Modes
  <2>2. loc' = [loc EXCEPT ![o].lock_mode = n]
    BY <1>2 DEF Release
  <2> HIDE DEF n
  <2> QED BY <2>1, <2>2 DEF LocalType
<1> QED BY <1>1, <1>2 DEF ReleaseRefused

\* Type correctness of the steps of the handlers.
LEMMA TypeHandler ==
    ASSUME TypeInv, NEW s \in Sess, NEW r \in Rsn,
           \/ drc_request_lock_owner(s, r) \/ Poll(s, r) \/ OwnerAnswered(s, r) \/ Claim(s, r)
           \/ \E o \in Inst : ReleaseOwnership(s, r, o) \/ OwnerWaitFails(s, r, o)
    PROVE  TypeInv'
<1>1. /\ master \in Inst /\ res \in LockResType /\ loc \in [Inst -> LocalType]
      /\ sess \in [Sess -> SessPc] /\ rsn \in [Sess -> Rsn]
      /\ HandlersTyped
      /\ stray \subseteq [own : Inst, mode : ReqMode, ver : {0, 1}, timed : BOOLEAN]
      /\ dead \in Inst \union {NoInst} /\ ver \in [Inst -> {0, 1}]
      /\ phase \in [Inst -> {"run", "closed", "assigned", "publish", "open"}]
      /\ target \in Inst \union {NoInst}
      /\ \A j \in Inst : phase[j] \in {"assigned", "publish", "open"} => target \in Inst
  BY DEF TypeInv
<1> DEFINE h == hnd[s][r]
<1>2. h \in HandlerType /\ s[1] \in Inst
  BY <1>1, SessInst DEF HandlersTyped
<1>0. h.pc # "none"
  BY DEF drc_request_lock_owner, Poll, OwnerAnswered, Claim, ReleaseOwnership,
         OwnerWaitFails
<1>3. {"err", "ok", "ask", "queued", "rel_ok", "rel_err"} \subseteq HndPc
  BY DEF HndPc
<1>4. /\ sess' = sess /\ rsn' = rsn /\ master' = master /\ dead' = dead /\ ver' = ver
      /\ phase' = phase /\ target' = target
  BY DEF drc_request_lock_owner, Poll, OwnerAnswered, Claim, ReleaseOwnership,
         OwnerWaitFails, clusterVars
<1>5. CASE drc_request_lock_owner(s, r)
  <2> DEFINE req == [inst |-> s[1], mode |-> h.mode, from |-> <<s, r>>]
  <2>1. UNCHANGED <<loc, stray>>
    BY <1>5 DEF drc_request_lock_owner, clusterVars
  <2>2. req \in Request
    BY <1>1, <1>5, RequestType DEF drc_request_lock_owner
  <2>3. CASE Reply(s, r, "err") /\ UNCHANGED res
    BY <1>1, <1>3, <1>4, <1>5, <2>1, <2>3, ReplyType DEF TypeInv, drc_request_lock_owner
  <2>4. CASE res' = [res EXCEPT !.conv = req] /\ Convert(s, r)
    <3>1. res' \in LockResType
      BY <1>1, <2>2, <2>4 DEF LockResType
    <3> QED BY <1>0, <1>1, <1>4, <2>1, <2>4, <3>1, ConvertType DEF TypeInv
  <2>5. CASE res' = Enqueue(res, req) /\ hnd' = [hnd EXCEPT ![s][r].pc = "queued"]
    <3>1. Append(res.q, req) \in Seq(Request)
      BY <1>1, <2>2, AppendProperties DEF LockResType
    <3>2. res' \in LockResType
      BY <1>1, <2>5, <3>1 DEF LockResType, Enqueue
    <3>3. hnd' = [hnd EXCEPT ![s][r] = [h EXCEPT !.pc = "queued"]]
      BY <1>1, <2>5 DEF HandlersTyped
    <3>4. [h EXCEPT !.pc = "queued"] \in HandlerType
      BY <1>0, <1>2, <1>3, HandlerRecords
    <3>5. HandlersTyped'
      BY <1>1, <3>3, <3>4, HandlersType DEF HandlersTyped
    <3> QED BY <1>1, <1>4, <2>1, <3>2, <3>5 DEF TypeInv
  <2> QED BY <1>5, <2>3, <2>4, <2>5 DEF drc_request_lock_owner
<1>6. CASE Poll(s, r)
  <2>1. UNCHANGED <<loc, stray, res>>
    BY <1>6 DEF Poll, clusterVars
  <2>2. HandlersTyped'
    BY <1>1, <1>3, <1>6, ReplyType, ConvertType DEF Poll
  <2> QED BY <1>1, <1>4, <2>1, <2>2 DEF TypeInv
<1>7. CASE OwnerAnswered(s, r)
  <2>1. UNCHANGED <<loc, stray>>
    BY <1>7 DEF OwnerAnswered, clusterVars
  <2>2. CASE NotReleased(s, r)
    BY <1>1, <1>4, <1>7, <2>1, <2>2, NotReleasedType DEF TypeInv, OwnerAnswered
  <2>3. CASE /\ res' = IF h.mode = DRC_LOCK_EXCLUSIVE
                       THEN dls_clear_granted_map_for_inst(res, h.own) ELSE res
             /\ hnd' = [hnd EXCEPT ![s][r].pc = "ask", ![s][r].own = NoInst,
                                   ![s][r].todo = @ \ {h.own}]
    <3>1. res' \in LockResType
      BY <1>1, <2>3, ClearType
    <3> DEFINE T == h.todo \ {h.own}
               g == [h EXCEPT !.pc = "ask", !.own = NoInst, !.todo = T]
    <3>2. T \in SUBSET Inst
      BY <1>2 DEF HandlerType
    <3>3. hnd' = [hnd EXCEPT ![s][r] = g]
      BY <1>1, <1>2, <2>3 DEF HandlersTyped, HandlerType
    <3> HIDE DEF T
    <3>4. g \in HandlerType
      BY <1>0, <1>2, <1>3, <3>2, HandlerRecords
    <3> HIDE DEF g
    <3>5. HandlersTyped'
      BY <1>1, <3>3, <3>4, HandlersType DEF HandlersTyped
    <3> QED BY <1>1, <1>4, <2>1, <3>1, <3>5 DEF TypeInv
  <2> QED BY <1>7, <2>2, <2>3 DEF OwnerAnswered
<1>8. CASE Claim(s, r)
  <2>1. UNCHANGED <<loc, stray>>
    BY <1>8 DEF Claim, clusterVars
  <2>2. HandlersTyped'
    BY <1>1, <1>3, <1>8, ReplyType DEF Claim
  <2>3. h.mode \in LockMode
    BY <1>2 DEF HandlerType
  <2>4. res' \in LockResType
    <3>1. /\ drc_cancel_lock_owner_request(res, s[1]) \in LockResType
          /\ drc_claim_lock_owner(res, s[1], h.mode) \in LockResType
      BY <1>1, <1>2, <2>3, CancelType, ClaimType
    <3> QED BY <1>1, <1>8, <3>1 DEF Claim
  <2> QED BY <1>1, <1>4, <2>1, <2>2, <2>4 DEF TypeInv
<1>9. ASSUME NEW o \in Inst, ReleaseOwnership(s, r, o)
      PROVE  TypeInv'
  <2>1. UNCHANGED <<res, stray>>
    BY <1>9 DEF ReleaseOwnership, clusterVars
  <2>2. HandlersTyped'
    <3>1. CASE hnd' = [hnd EXCEPT ![s][r].pc = "rel_ok", ![s][r].own = o]
      BY <1>0, <1>1, <3>1, OwnType
    <3>2. CASE hnd' = [hnd EXCEPT ![s][r].pc = "rel_err", ![s][r].own = o]
      BY <1>0, <1>1, <3>2, OwnType
    <3> QED BY <1>9, <3>1, <3>2 DEF ReleaseOwnership
  <2>3. loc' \in [Inst -> LocalType]
    <3>1. \/ Release(o, h.mode, h.ver)
          \/ ReleaseRefused(o, h.ver, s \in Timed)
      BY <1>9 DEF ReleaseOwnership
    <3>2. CASE Release(o, h.mode, h.ver)
      BY <1>1, <3>2, ReleaseType
    <3>3. CASE ReleaseRefused(o, h.ver, s \in Timed)
      BY <1>1, <3>3 DEF ReleaseRefused
    <3> QED BY <3>1, <3>2, <3>3
  <2> QED BY <1>1, <1>4, <2>1, <2>2, <2>3 DEF TypeInv
<1>10. ASSUME NEW o \in Inst, OwnerWaitFails(s, r, o)
       PROVE  TypeInv'
  <2>1. HandlersTyped' /\ res' \in LockResType /\ UNCHANGED loc
    BY <1>1, <1>10, NotReleasedType DEF OwnerWaitFails
  <2>2. StrayRelease(s, h, o) \in [own : Inst, mode : ReqMode, ver : {0, 1}, timed : BOOLEAN]
    <3>1. h.mode \in ReqMode /\ h.ver \in {0, 1} /\ (s \in Timed) \in BOOLEAN
      BY <1>2, <1>10 DEF OwnerWaitFails, HandlerType
    <3> QED BY <1>10, <3>1, Zenon DEF StrayRelease
  <2>3. stray' \subseteq [own : Inst, mode : ReqMode, ver : {0, 1}, timed : BOOLEAN]
    BY <1>1, <1>10, <2>2 DEF OwnerWaitFails
  <2> QED BY <1>1, <1>4, <2>1, <2>3 DEF TypeInv
<1> QED BY <1>5, <1>6, <1>7, <1>8, <1>9, <1>10

\* What a crash leaves of a handler (AfterCrash).
LEMMA AfterCrashType ==
    ASSUME HandlersTyped, NEW i, NEW s \in Sess, NEW r \in Rsn
    PROVE  AfterCrash(i, s, r) \in HandlerType
<1> DEFINE h == hnd[s][r]
           lost == [h EXCEPT !.pc = "lost", !.todo = {}, !.own = NoInst]
<1>1. h \in HandlerType /\ "lost" \in HndPc
  BY DEF HandlersTyped, HndPc
<1>2. h.pc # "none" => lost \in HandlerType
  BY <1>1, HandlerRecords
<1>3. \/ AfterCrash(i, s, r) = lost /\ h.pc # "none"
      \/ AfterCrash(i, s, r) = Idle
      \/ AfterCrash(i, s, r) = h
  BY Zenon DEF AfterCrash
<1> QED BY <1>1, <1>2, <1>3, IdleType

\* The messages of a crashed instance that may still arrive.
LEMMA ReleasesType ==
    ASSUME HandlersTyped, NEW i, NEW k \in Releases(i)
    PROVE  StrayRelease(k[1], hnd[k[1]][k[2]], k[3]) \in
             [own : Inst, mode : ReqMode, ver : {0, 1}, timed : BOOLEAN]
<1> DEFINE h == hnd[k[1]][k[2]]
<1>1. k[1] \in Sess /\ k[2] \in Rsn /\ k[3] \in Inst /\ h.pc = "ask"
  BY DEF Releases
<1>2. h.mode \in ReqMode /\ h.ver \in {0, 1} /\ (k[1] \in Timed) \in BOOLEAN
  BY <1>1 DEF HandlersTyped, HandlerType
<1> QED BY <1>1, <1>2, Zenon DEF StrayRelease

\* What MES_CMD_ERROR_MSG leaves of the handlers (ErrorMsgs).
LEMMA ErrorMsgsType ==
    ASSUME HandlersTyped, NEW i
    PROVE  ErrorMsgs(i) \in [Sess -> [Rsn -> HandlerType]]
<1>1. ASSUME NEW s \in Sess, NEW r \in Rsn
      PROVE  /\ hnd[s][r] \in HandlerType
             /\ hnd[s][r].pc = "queued" => [hnd[s][r] EXCEPT !.pc = "error_msg"] \in HandlerType
  <2>1. hnd[s][r] \in HandlerType /\ "error_msg" \in HndPc
    BY DEF HandlersTyped, HndPc
  <2> QED BY <2>1, HandlerRecords
<1> QED BY <1>1 DEF ErrorMsgs

\* Type correctness of the crash and of the reform.
LEMMA TypeReform ==
    ASSUME TypeInv,
           \/ \E m \in stray : Stray(m)
           \/ \E i \in Inst : Crash(i) \/ Trigger(i) \/ Freeze(i) \/ Remaster(i) \/ Open(i)
           \/ AssignTask
    PROVE  TypeInv'
<1>1. /\ master \in Inst /\ res \in LockResType /\ loc \in [Inst -> LocalType]
      /\ sess \in [Sess -> SessPc] /\ rsn \in [Sess -> Rsn]
      /\ HandlersTyped
      /\ stray \subseteq [own : Inst, mode : ReqMode, ver : {0, 1}, timed : BOOLEAN]
      /\ dead \in Inst \union {NoInst} /\ ver \in [Inst -> {0, 1}]
      /\ phase \in [Inst -> {"run", "closed", "assigned", "publish", "open"}]
      /\ target \in Inst \union {NoInst}
      /\ \A j \in Inst : phase[j] \in {"assigned", "publish", "open"} => target \in Inst
  BY DEF TypeInv
<1>2. ASSUME NEW m \in stray, Stray(m)
      PROVE  TypeInv'
  <2>1. m.own \in Inst
    BY <1>1
  <2>2. loc' \in [Inst -> LocalType]
    <3>1. CASE Release(m.own, m.mode, m.ver)
      BY <1>1, <2>1, <3>1, ReleaseType
    <3>2. CASE ReleaseRefused(m.own, m.ver, m.timed)
      BY <1>1, <3>2 DEF ReleaseRefused
    <3> QED BY <1>2, <3>1, <3>2 DEF Stray
  <2> QED BY <1>1, <1>2, <2>2 DEF Stray, TypeInv, HandlersTyped
<1>3. ASSUME NEW i \in Inst, Crash(i)
      PROVE  TypeInv'
  <2>1. HandlersTyped'
    <3>1. hnd' = [s \in Sess |-> [r \in Rsn |-> AfterCrash(i, s, r)]]
      BY <1>3 DEF Crash
    <3> QED BY <1>1, <3>1, AfterCrashType DEF HandlersTyped
  <2>2. res' \in LockResType
    BY <1>1, <1>3, EmptyResType DEF Crash
  <2>3. loc' \in [Inst -> LocalType]
    BY <1>1, <1>3, IdleType, LocalsType DEF Crash
  <2>4. sess' \in [Sess -> SessPc]
    BY <1>1, <1>3 DEF Crash, SessPc
  <2>5. stray' \subseteq [own : Inst, mode : ReqMode, ver : {0, 1}, timed : BOOLEAN]
    <3>1. PICK lost \in SUBSET {StrayRelease(k[1], hnd[k[1]][k[2]], k[3]) : k \in Releases(i)} :
             stray' = stray \union lost
      BY <1>3, Zenon DEF Crash
    <3>2. \A m \in lost : m \in [own : Inst, mode : ReqMode, ver : {0, 1}, timed : BOOLEAN]
      BY <1>1, ReleasesType
    <3> QED BY <1>1, <3>1, <3>2
  <2>6. dead' \in Inst \union {NoInst} /\ UNCHANGED <<master, rsn, ver, phase, target>>
    BY <1>3 DEF Crash
  <2> QED BY <1>1, <2>1, <2>2, <2>3, <2>4, <2>5, <2>6 DEF TypeInv
<1>4. ASSUME NEW i \in Inst, Trigger(i) \/ Freeze(i) \/ Open(i)
      PROVE  TypeInv'
  BY <1>1, <1>4 DEF Trigger, Freeze, Open, TypeInv, HandlersTyped
<1>5. ASSUME NEW i \in Inst, Remaster(i)
      PROVE  TypeInv'
  <2>1. /\ UNCHANGED <<master, loc, sess, rsn, stray, dead, ver, target>>
        /\ phase' = [phase EXCEPT ![i] = "publish"]
    BY <1>5 DEF Remaster
  <2>2. HandlersTyped'
    BY <1>1, <1>5, ErrorMsgsType DEF Remaster, HandlersTyped
  <2>3. loc[i].lock_mode \in LockMode
    BY <1>1 DEF LocalType
  <2>4. /\ drc_clean_lock_owner(res, dead) \in LockResType
        /\ drc_claim_lock_owner(EmptyRes, i, loc[i].lock_mode) \in LockResType
        /\ drc_claim_lock_owner(res, i, loc[i].lock_mode) \in LockResType
    BY <1>1, <2>3, CleanType, ClaimType, EmptyResType
  <2>5. res' \in LockResType
    BY <1>1, <1>5, <2>4 DEF Remaster, drc_recovery_lockinfo, drc_rcy_lock_res_info
  <2>6. /\ phase' \in [Inst -> {"run", "closed", "assigned", "publish", "open"}]
        /\ \A j \in Inst : phase'[j] \in {"assigned", "publish", "open"} => target \in Inst
    BY <1>1, <1>5, <2>1 DEF Remaster
  <2> QED BY <1>1, <2>1, <2>2, <2>5, <2>6 DEF TypeInv
<1>6. CASE AssignTask
  BY <1>1, <1>6 DEF AssignTask, TypeInv, Alive, HandlersTyped
<1> QED BY <1>2, <1>3, <1>4, <1>5, <1>6

\* The initial state is typed.
LEMMA InitTypeInv == Init => TypeInv
<1> SUFFICES ASSUME Init PROVE TypeInv
  OBVIOUS
<1>1. res \in LockResType /\ loc \in [Inst -> LocalType] /\ HandlersTyped
  BY EmptyResType, IdleType DEF Init, HandlersTyped
<1> QED BY <1>1, MasterAssumption, RsnAssumption DEF Init, TypeInv, SessPc

\* Every step keeps the types.
LEMMA NextTypeInv == TypeInv /\ [Next]_vars => TypeInv'
<1> SUFFICES ASSUME TypeInv, [Next]_vars PROVE TypeInv'
  OBVIOUS
<1>1. CASE UNCHANGED vars
  BY <1>1 DEF vars, TypeInv, HandlersTyped
<1>2. CASE Next
  BY <1>2, TypeSession, TypeHandler, TypeReform DEF Next
<1> QED BY <1>1, <1>2

\* The inductive type invariant always holds.
LEMMA AlwaysTypeInv == Spec => []TypeInv
BY InitTypeInv, NextTypeInv, PTL DEF Spec

\* The variables keep their types through every crash and reform: a new
\* master is always a living instance, a request under way always asks for
\* a mode (dtc_dls.c, dtc_drc.c).
THEOREM TypeCorrect == Spec => []TypeOK
BY AlwaysTypeInv, Types, PTL

-----------------------------------------------------------------------------
(***************************************************************************)
(* What a step before a crash does to the requests.                        *)
(***************************************************************************)
\* No request but that of s changes.
OnlyOf(s) == /\ \A t \in Sess : t # s => H(t)' = H(t)
             /\ \A t \in Sess, r \in Rsn : r # 0 => hnd'[t][r] = hnd[t][r]

\* The request of s is still the same request.
SameRequest(s) == H(s)'.mode = H(s).mode /\ H(s)'.ver = H(s).ver /\ H(s)'.at = H(s).at

\* No instance crashes or reforms, and no wait fails.
CalmVars == /\ dead' = dead /\ stray' = stray /\ master' = master /\ ver' = ver
            /\ phase' = phase /\ rsn' = rsn

\* The record of one request is replaced.
LEMMA OneHandler ==
    ASSUME HandlersTyped, NEW s \in Sess, NEW h \in HandlerType,
           hnd' = [hnd EXCEPT ![s][0] = h]
    PROVE  H(s)' = h /\ OnlyOf(s)
<1>1. 0 \in Rsn
  BY RsnAssumption
<1>2. /\ [hnd EXCEPT ![s][0] = h][s][0] = h
      /\ \A t \in Sess, n \in Rsn :
            t # s \/ n # 0 => [hnd EXCEPT ![s][0] = h][t][n] = hnd[t][n]
  BY <1>1, HandlersType DEF HandlersTyped
<1> QED BY <1>1, <1>2 DEF H, OnlyOf

\* Before a crash a session waits for request 0, and nothing is fenced.
LEMMA CalmFacts ==
    ASSUME Calm, TypeInv, NEW s \in Sess
    PROVE  /\ rsn[s] = 0 /\ s[1] # dead /\ s[1] \in Inst /\ Answer(s) = H(s)
           /\ H(s) \in HandlerType /\ 0 \in Rsn
           /\ \A i \in Inst : ~ Stop(i, 0) /\ ~ Broken(i)
BY SessInst, RsnAssumption, NoInstAssumption
   DEF Calm, Answer, H, Stop, Broken, TypeInv, HandlersTyped

\* The handler answers its session.
LEMMA ReplyEffect ==
    ASSUME Calm, TypeInv, NEW s \in Sess, NEW a \in HndPc, H(s).pc # "none", Reply(s, 0, a)
    PROVE  OnlyOf(s) /\ SameRequest(s) /\ H(s)'.pc = a
<1> DEFINE h == [H(s) EXCEPT !.pc = a, !.todo = {}, !.own = NoInst]
<1>1. rsn[s] = 0 /\ s[1] # dead /\ H(s) \in HandlerType /\ HandlersTyped
  BY CalmFacts DEF TypeInv
<1>2. hnd' = [hnd EXCEPT ![s][0] = h]
  BY <1>1 DEF Reply, H
<1>3. h \in HandlerType /\ h.pc = a /\ h.mode = H(s).mode /\ h.ver = H(s).ver /\ h.at = H(s).at
  BY <1>1 DEF HandlerType
<1> HIDE DEF h
<1>4. H(s)' = h /\ OnlyOf(s)
  BY <1>1, <1>2, <1>3, OneHandler
<1> QED BY <1>3, <1>4 DEF SameRequest

\* The handler starts to ask the owners.
LEMMA ConvertEffect ==
    ASSUME Calm, TypeInv, NEW s \in Sess, H(s).pc # "none", Convert(s, 0)
    PROVE  /\ OnlyOf(s) /\ SameRequest(s) /\ H(s)'.pc = "ask"
           /\ H(s)'.todo = OldOwners(res, s[1], H(s).mode)
<1> DEFINE T == OldOwners(res, s[1], H(s).mode)
           h == [H(s) EXCEPT !.pc = "ask", !.todo = T]
<1>1. H(s) \in HandlerType /\ HandlersTyped /\ 0 \in Rsn
  BY CalmFacts DEF TypeInv
<1>2. hnd' = [hnd EXCEPT ![s][0].pc = "ask", ![s][0].todo = T]
  BY DEF Convert, H
<1>3. T \in SUBSET Inst
  BY DEF OldOwners, TypeInv, LockResType
<1> HIDE DEF T
<1>4. hnd' = [hnd EXCEPT ![s][0] = h]
  BY <1>1, <1>2 DEF HandlersTyped, H
<1>5. /\ h \in HandlerType /\ h.pc = "ask" /\ h.mode = H(s).mode /\ h.ver = H(s).ver
      /\ h.at = H(s).at /\ h.todo = T
  BY <1>1, <1>3 DEF HandlerType, HndPc
<1> HIDE DEF h
<1>6. H(s)' = h /\ OnlyOf(s)
  BY <1>1, <1>4, <1>5, OneHandler
<1> QED BY <1>5, <1>6 DEF SameRequest, T

\* A handler goes on to p.
LEMMA PcEffect ==
    ASSUME Calm, TypeInv, NEW s \in Sess, H(s).pc # "none", NEW p \in HndPc,
           hnd' = [hnd EXCEPT ![s][0].pc = p]
    PROVE  /\ OnlyOf(s) /\ SameRequest(s)
           /\ H(s)'.pc = p
<1> DEFINE g == hnd[s][0]
           h == [g EXCEPT !.pc = p]
<1>1. /\ hnd \in [Sess -> [Rsn -> HandlerType]] /\ g \in HandlerType /\ 0 \in Rsn
      /\ HandlersTyped /\ g = H(s)
  BY CalmFacts DEF TypeInv, HandlersTyped, H
<1>2. hnd' = [hnd EXCEPT ![s][0] = h]
  BY <1>1
<1>3. /\ h \in HandlerType /\ h.pc = p /\ h.mode = g.mode /\ h.ver = g.ver
      /\ h.at = g.at
  BY <1>1 DEF HandlerType
<1> HIDE DEF h
<1>4. H(s)' = h /\ OnlyOf(s)
  BY <1>1, <1>2, <1>3, OneHandler
<1> QED BY <1>1, <1>3, <1>4 DEF SameRequest

\* The owner o has answered the handler.
LEMMA OwnEffect ==
    ASSUME Calm, TypeInv, NEW s \in Sess, H(s).pc # "none", NEW p \in HndPc, NEW o \in Inst,
           hnd' = [hnd EXCEPT ![s][0].pc = p, ![s][0].own = o]
    PROVE  /\ OnlyOf(s) /\ SameRequest(s)
           /\ H(s)'.pc = p /\ H(s)'.own = o /\ H(s)'.todo = H(s).todo
<1> DEFINE g == hnd[s][0]
           h == [g EXCEPT !.pc = p, !.own = o]
<1>1. /\ hnd \in [Sess -> [Rsn -> HandlerType]] /\ g \in HandlerType /\ 0 \in Rsn
      /\ HandlersTyped /\ g = H(s)
  BY CalmFacts DEF TypeInv, HandlersTyped, H
<1>2. hnd' = [hnd EXCEPT ![s][0] = h]
  BY <1>1
<1>3. /\ h \in HandlerType /\ h.pc = p /\ h.mode = g.mode /\ h.ver = g.ver
      /\ h.at = g.at /\ h.own = o /\ h.todo = g.todo
  BY <1>1 DEF HandlerType
<1> HIDE DEF h
<1>4. H(s)' = h /\ OnlyOf(s)
  BY <1>1, <1>2, <1>3, OneHandler
<1> QED BY <1>1, <1>3, <1>4 DEF SameRequest

\* The handler is done with the owners in T.
LEMMA TodoEffect ==
    ASSUME Calm, TypeInv, NEW s \in Sess, H(s).pc # "none", NEW p \in HndPc, NEW T,
           hnd' = [hnd EXCEPT ![s][0].pc = p, ![s][0].own = NoInst, ![s][0].todo = @ \ T]
    PROVE  /\ OnlyOf(s) /\ SameRequest(s)
           /\ H(s)'.pc = p /\ H(s)'.todo = H(s).todo \ T
<1> DEFINE g == hnd[s][0]
           h == [g EXCEPT !.pc = p, !.own = NoInst, !.todo = g.todo \ T]
<1>1. /\ hnd \in [Sess -> [Rsn -> HandlerType]] /\ g \in HandlerType /\ 0 \in Rsn
      /\ HandlersTyped /\ g = H(s)
  BY CalmFacts DEF TypeInv, HandlersTyped, H
<1>2. hnd' = [hnd EXCEPT ![s][0] = h]
  BY <1>1
<1>3. /\ h \in HandlerType /\ h.pc = p /\ h.mode = g.mode /\ h.ver = g.ver
      /\ h.at = g.at /\ h.todo = g.todo \ T
  BY <1>1 DEF HandlerType
<1> HIDE DEF h
<1>4. H(s)' = h /\ OnlyOf(s)
  BY <1>1, <1>2, <1>3, OneHandler
<1> QED BY <1>1, <1>3, <1>4 DEF SameRequest

\* A request is sent to the master, which is alive.
LEMMA NewRequestEffect ==
    ASSUME Calm, TypeInv, NEW s \in Sess, NEW m \in ReqMode, NewRequest(s, m)
    PROVE  /\ H(s).pc = "none" /\ OnlyOf(s)
           /\ H(s)'.pc = "sent" /\ H(s)'.mode = m /\ H(s)'.ver = 0 /\ H(s)'.at = Master
<1> DEFINE h == [Idle EXCEPT !.pc = "sent", !.mode = m, !.ver = 0, !.at = Master]
<1>1. /\ rsn[s] = 0 /\ s[1] \in Inst /\ ver[s[1]] = 0 /\ master = Master /\ master # dead
      /\ Answer(s) = H(s) /\ HandlersTyped
  BY CalmFacts, NoInstAssumption, MasterAssumption DEF Calm, TypeInv
<1>2. hnd' = [hnd EXCEPT ![s][0] = h] /\ H(s).pc = "none"
  BY <1>1 DEF NewRequest
<1>3. h \in HandlerType /\ h.pc = "sent" /\ h.mode = m /\ h.ver = 0 /\ h.at = Master
  BY Modes, IdleType, MasterAssumption DEF HandlerType, HndPc
<1> HIDE DEF h
<1>4. H(s)' = h /\ OnlyOf(s)
  BY <1>1, <1>2, <1>3, OneHandler
<1> QED BY <1>2, <1>3, <1>4

\* The session has its answer, the request is over.
LEMMA AnsweredEffect ==
    ASSUME Calm, TypeInv, NEW s \in Sess, hnd' = [hnd EXCEPT ![s][rsn[s]] = Idle]
    PROVE  OnlyOf(s) /\ H(s)'.pc = "none"
<1>1. rsn[s] = 0 /\ HandlersTyped
  BY CalmFacts DEF TypeInv
<1>2. H(s)' = Idle /\ OnlyOf(s)
  BY <1>1, IdleType, OneHandler
<1> QED BY <1>2 DEF Idle

\* Nothing of the cluster changes.
LEMMA CalmKept ==
    ASSUME Calm, CalmVars, hnd' = hnd \/ \E s \in Sess : OnlyOf(s)
    PROVE  Calm'
BY DEF Calm, CalmVars, OnlyOf

\* A handler goes on with its request.
LEMMA RequestsKept ==
    ASSUME Requests, NEW s \in Sess, OnlyOf(s), SameRequest(s), sess' = sess,
           H(s).pc # "none",
           H(s)'.pc \in {"sent", "queued", "ok", "err"} \union Converting
    PROVE  Requests'
BY DEF Requests, OnlyOf, SameRequest, Converting

-----------------------------------------------------------------------------
(***************************************************************************)
(* The converting request and the queue.                                   *)
(***************************************************************************)
\* The entry tells the requests of the sessions apart.
LEMMA ReqFacts ==
    ASSUME NEW s \in Sess, NEW t \in Sess
    PROVE  Req(s) # NoReq /\ Req(s).inst = s[1] /\ (Req(s) = Req(t) => s = t)
BY SessInst, NoInstAssumption DEF Req, NoReq

\* The requests are the same after a step of a handler.
LEMMA ReqKept ==
    ASSUME NEW s \in Sess, OnlyOf(s), SameRequest(s)
    PROVE  \A t \in Sess : Req(t)' = Req(t)
BY DEF Req, OnlyOf, SameRequest

\* Only one handler at a time is converting.
LEMMA OneConverting ==
    ASSUME Queue, NEW s \in Sess, NEW t \in Sess, H(s).pc \in Converting,
           H(t).pc \in Converting
    PROVE  s = t
BY ReqFacts DEF Queue

\* A handler stays converting, or has nothing to do with the queue.
LEMMA QueueSame ==
    ASSUME Queue, NEW s \in Sess, OnlyOf(s), SameRequest(s),
           res'.conv = res.conv, res'.q = res.q,
           \/ H(s).pc \in Converting /\ H(s)'.pc \in Converting
           \/ /\ H(s).pc \notin Converting \union {"queued"}
              /\ H(s)'.pc \notin Converting \union {"queued"}
    PROVE  Queue'
<1>1. \A t \in Sess : /\ Req(t)' = Req(t)
                      /\ H(t)'.pc \in Converting <=> H(t).pc \in Converting
                      /\ H(t)'.pc = "queued" <=> H(t).pc = "queued"
  BY ReqKept DEF OnlyOf, Converting
<1> QED BY <1>1 DEF Queue

\* The converting request ends, the next one of the queue is converted.
LEMMA QueuePop ==
    ASSUME Queue, NEW s \in Sess, OnlyOf(s), SameRequest(s), res \in LockResType,
           H(s).pc \in Converting, H(s)'.pc \notin Converting \union {"queued"},
           res.q = << >> => res'.conv = NoReq /\ res'.q = << >>,
           res.q # << >> => res'.conv = Head(res.q) /\ res'.q = Tail(res.q)
    PROVE  Queue'
<1>1. \A t \in Sess : /\ Req(t)' = Req(t)
                      /\ H(t)'.pc \in Converting <=> H(t).pc \in Converting /\ t # s
                      /\ H(t)'.pc = "queued" <=> H(t).pc = "queued"
  BY ReqKept DEF OnlyOf, Converting
<1>2. res.conv = Req(s) /\ \A t \in Sess : H(t)'.pc \notin Converting
  BY <1>1, ReqFacts DEF Queue
<1>3. CASE res.q = << >>
  BY <1>1, <1>2, <1>3, ReqFacts DEF Queue, Converting
<1>4. CASE res.q # << >>
  <2>1. /\ res.q \in Seq(Request) /\ Len(res.q) \in Nat /\ Len(res.q) >= 1
        /\ Len(res.q) = Len(Tail(res.q)) + 1 /\ Head(res.q) = res.q[1]
        /\ \A n \in 1 .. Len(Tail(res.q)) : Tail(res.q)[n] = res.q[n + 1]
    BY <1>4, HeadTailProperties, EmptySeq DEF LockResType
  <2>2. /\ Len(res'.q) = Len(res.q) - 1 /\ Len(res'.q) \in Nat
        /\ \A n \in 1 .. Len(res'.q) : n + 1 \in 1 .. Len(res.q) /\ res'.q[n] = res.q[n + 1]
        /\ res'.conv = res.q[1] /\ 1 \in 1 .. Len(res.q)
    <3>1. /\ res'.q = Tail(res.q) /\ res'.conv = Head(res.q)
          /\ Len(Tail(res.q)) = Len(res.q) - 1 /\ Len(Tail(res.q)) \in Nat
      BY <1>4, <2>1, HeadTailProperties
    <3>2. \A n \in 1 .. Len(Tail(res.q)) : n + 1 \in 1 .. Len(res.q)
      BY <2>1, <3>1
    <3> QED BY <2>1, <3>1, <3>2
  <2>3. \A n \in 1 .. Len(res.q) : n = 1 \/ (n - 1 \in 1 .. Len(res'.q)
                                             /\ res'.q[n - 1] = res.q[n])
    BY <2>1, <2>2
  <2>4. \E t \in Sess : H(t).pc = "queued" /\ res.q[1] = Req(t)
    BY <2>2 DEF Queue
  <2>5. \A t \in Sess : H(t).pc = "queued" =>
           \E n \in 1 .. Len(res.q) : res.q[n] = Req(t)
    <3> SUFFICES ASSUME NEW t \in Sess, H(t).pc = "queued"
                 PROVE  \E n \in 1 .. Len(res.q) : res.q[n] = Req(t)
      OBVIOUS
    <3>1. t # s
      BY DEF Converting
    <3> QED BY <1>2, <3>1, ReqFacts DEF Queue
  <2>6. \A t \in Sess : H(t)'.pc = "queued" =>
           res'.conv = Req(t)' \/ \E n \in 1 .. Len(res'.q) : res'.q[n] = Req(t)'
    <3> SUFFICES ASSUME NEW t \in Sess, H(t)'.pc = "queued"
                 PROVE  res'.conv = Req(t) \/ \E n \in 1 .. Len(res'.q) : res'.q[n] = Req(t)
      BY <1>1
    <3>1. PICK n \in 1 .. Len(res.q) : res.q[n] = Req(t)
      BY <1>1, <2>5
    <3>2. CASE n = 1
      BY <2>2, <3>1, <3>2
    <3>3. CASE n # 1
      BY <2>3, <3>1, <3>3
    <3> QED BY <3>2, <3>3
  <2>7. res'.conv # NoReq
    BY <2>2, <2>4, ReqFacts
  <2>8. \A n \in 1 .. Len(res'.q) :
           \E t \in Sess : H(t)'.pc = "queued" /\ res'.q[n] = Req(t)'
    <3> SUFFICES ASSUME NEW n \in 1 .. Len(res'.q)
                 PROVE  \E t \in Sess : H(t)'.pc = "queued" /\ res'.q[n] = Req(t)'
      OBVIOUS
    <3>1. n + 1 \in 1 .. Len(res.q) /\ res'.q[n] = res.q[n + 1]
      BY <2>2
    <3>2. PICK t \in Sess : H(t).pc = "queued" /\ res.q[n + 1] = Req(t)
      BY <3>1 DEF Queue
    <3> QED BY <1>1, <3>1, <3>2
  <2>9. \A n \in 1 .. Len(res'.q) : res'.q[n] # res'.conv
    <3> SUFFICES ASSUME NEW n \in 1 .. Len(res'.q)
                 PROVE  res.q[n + 1] # res.q[1]
      BY <2>2
    <3>1. n + 1 \in 1 .. Len(res.q) /\ 1 \in 1 .. Len(res.q) /\ n + 1 # 1
      BY <2>2
    <3>2. \A j, k \in 1 .. Len(res.q) : res.q[j] = res.q[k] => j = k
      BY DEF Queue
    <3> QED BY <3>1, <3>2
  <2>10. \A m, n \in 1 .. Len(res'.q) : res'.q[m] = res'.q[n] => m = n
    <3> SUFFICES ASSUME NEW m \in 1 .. Len(res'.q), NEW n \in 1 .. Len(res'.q),
                        res'.q[m] = res'.q[n]
                 PROVE  m = n
      OBVIOUS
    <3>1. m + 1 = n + 1
      BY <2>2 DEF Queue
    <3> QED BY <2>2, <3>1
  <2>11. \E t \in Sess : H(t)'.pc = "queued" /\ res'.conv = Req(t)'
    BY <1>1, <2>2, <2>4
  <2> QED BY <1>2, <2>6, <2>7, <2>8, <2>9, <2>10, <2>11 DEF Queue
<1> QED BY <1>3, <1>4

\* Nothing is converted: the request is converted at once.
LEMMA QueueEnter ==
    ASSUME Queue, NEW s \in Sess, OnlyOf(s), SameRequest(s),
           H(s).pc = "sent", H(s)'.pc \in Converting,
           res.conv = NoReq, res'.conv = Req(s), res'.q = res.q
    PROVE  Queue'
<1>1. \A t \in Sess : /\ Req(t)' = Req(t)
                      /\ H(t)'.pc \in Converting <=> H(t).pc \in Converting \/ t = s
                      /\ H(t)'.pc = "queued" <=> H(t).pc = "queued"
  BY ReqKept DEF OnlyOf, Converting
<1>2. /\ res.q = << >> /\ Len(res.q) = 0
      /\ \A t \in Sess : H(t).pc \notin Converting \union {"queued"}
  BY ReqFacts DEF Queue, Converting
<1> QED BY <1>1, <1>2, ReqFacts DEF Queue

\* The request waits behind the converting one.
LEMMA QueueAppend ==
    ASSUME Queue, NEW s \in Sess, OnlyOf(s), SameRequest(s), res \in LockResType,
           H(s).pc = "sent", H(s)'.pc = "queued", Req(s) \in Request,
           res.conv # NoReq, res'.conv = res.conv, res'.q = Append(res.q, Req(s))
    PROVE  Queue'
<1>1. \A t \in Sess : /\ Req(t)' = Req(t)
                      /\ H(t)'.pc \in Converting <=> H(t).pc \in Converting
                      /\ H(t)'.pc = "queued" <=> H(t).pc = "queued" \/ t = s
  BY ReqKept DEF OnlyOf, Converting
<1>2. /\ Len(res.q) \in Nat /\ Len(res'.q) = Len(res.q) + 1
      /\ \A n \in 1 .. Len(res.q) : res'.q[n] = res.q[n]
      /\ res'.q[Len(res.q) + 1] = Req(s)
  BY AppendProperties, LenProperties DEF LockResType
<1>3. \A n \in 1 .. Len(res'.q) : n \in 1 .. Len(res.q) \/ n = Len(res.q) + 1
  BY <1>2
<1>4. \A n \in 1 .. Len(res.q) : n \in 1 .. Len(res'.q)
  BY <1>2
<1>5. Len(res.q) + 1 \in 1 .. Len(res'.q)
  BY <1>2
<1>6. res.conv # Req(s) /\ \A n \in 1 .. Len(res.q) : res.q[n] # Req(s)
  BY ReqFacts DEF Queue, Converting
<1>7. \A t \in Sess : H(t)'.pc = "queued" =>
         res'.conv = Req(t)' \/ \E n \in 1 .. Len(res'.q) : res'.q[n] = Req(t)'
  BY <1>1, <1>2, <1>4, <1>5 DEF Queue
<1>8. \A n \in 1 .. Len(res'.q) :
         \E t \in Sess : H(t)'.pc = "queued" /\ res'.q[n] = Req(t)'
  BY <1>1, <1>2, <1>3 DEF Queue
<1>9. \A n \in 1 .. Len(res'.q) : res'.q[n] # res'.conv
  BY <1>2, <1>3, <1>6 DEF Queue
<1>10. \A m, n \in 1 .. Len(res'.q) : res'.q[m] = res'.q[n] => m = n
  BY <1>2, <1>3, <1>6 DEF Queue
<1>11. \A t \in Sess : H(t)'.pc \in Converting => res'.conv = Req(t)'
  BY <1>1 DEF Queue
<1>12. \E t \in Sess : H(t)'.pc \in Converting \union {"queued"} /\ res'.conv = Req(t)'
  BY <1>1 DEF Queue
<1> QED BY <1>7, <1>8, <1>9, <1>10, <1>11, <1>12 DEF Queue

\* The queued request has become the converting one.
LEMMA QueuePoll ==
    ASSUME Queue, Requests, NEW s \in Sess, OnlyOf(s), SameRequest(s),
           H(s).pc = "queued", H(s)'.pc \in Converting, res.conv.inst = s[1], res' = res
    PROVE  Queue' /\ res.conv = Req(s)
<1>1. \A t \in Sess : /\ Req(t)' = Req(t)
                      /\ H(t)'.pc \in Converting <=> H(t).pc \in Converting \/ t = s
                      /\ H(t)'.pc = "queued" <=> H(t).pc = "queued" /\ t # s
  BY ReqKept DEF OnlyOf, Converting
<1>2. PICK t \in Sess : H(t).pc \in Converting \union {"queued"} /\ res.conv = Req(t)
  BY SessInst, NoInstAssumption DEF Queue, NoReq
<1>3. t[1] = s[1]
  BY <1>2, ReqFacts
<1>4. t = s
  BY <1>2, <1>3 DEF Requests, Converting
<1>5. res.conv = Req(s)
  BY <1>2, <1>4
<1>6. \A n \in 1 .. Len(res.q) :
         \E u \in Sess : H(u)'.pc = "queued" /\ res.q[n] = Req(u)'
  BY <1>1, <1>5 DEF Queue
<1>7. \A u \in Sess : H(u)'.pc \in Converting => res.conv = Req(u)'
  BY <1>1, <1>5 DEF Queue
<1>8. \A u \in Sess : H(u)'.pc = "queued" =>
         res.conv = Req(u)' \/ \E n \in 1 .. Len(res.q) : res.q[n] = Req(u)'
  BY <1>1 DEF Queue
<1>9. \E u \in Sess : H(u)'.pc \in Converting \union {"queued"} /\ res.conv = Req(u)'
  BY <1>1, <1>5
<1> QED BY <1>5, <1>6, <1>7, <1>8, <1>9 DEF Queue

-----------------------------------------------------------------------------
(***************************************************************************)
(* The local entries.                                                      *)
(***************************************************************************)
\* Session s goes to w; no local entry but that of its instance changes.
Moves(s, w) == /\ sess' = [sess EXCEPT ![s] = w]
               /\ \A j \in Inst : j # s[1] => loc'[j] = loc[j]

\* Where the sessions are after one of them moved.
LEMMA MovesFacts ==
    ASSUME TypeInv, NEW s \in Sess, NEW w, Moves(s, w)
    PROVE  sess'[s] = w /\ \A t \in Sess : t # s => sess'[t] = sess[t]
BY DEF Moves, TypeInv

\* Without sharers the count is zero, and the other way round.
LEMMA CountZero ==
    ASSUME NEW i \in Inst, LatchOK(i)
    PROVE  /\ loc[i].shared_count = 0 <=> \A t \in Sess : t[1] = i => sess[t] # "S"
           /\ loc[i].shared_count \in Nat
<1>1. IsFiniteSet(Sharers(i)) /\ loc[i].shared_count = Cardinality(Sharers(i))
  BY DEF LatchOK
<1>2. Cardinality(Sharers(i)) = 0 <=> Sharers(i) = {}
  BY <1>1, FS_EmptySet
<1>3. Cardinality(Sharers(i)) \in Nat
  BY <1>1, FS_CardinalityType
<1> QED BY <1>1, <1>2, <1>3 DEF Sharers

\* How the sharers of an instance change.
LEMMA SharersStep ==
    ASSUME TypeInv, NEW s \in Sess, NEW w, Moves(s, w), IsFiniteSet(Sharers(s[1]))
    PROVE  /\ IsFiniteSet(Sharers(s[1]))'
           /\ Cardinality(Sharers(s[1]))' =
                CASE sess[s] # "S" /\ w = "S" -> Cardinality(Sharers(s[1])) + 1
                  [] sess[s] = "S" /\ w # "S" -> Cardinality(Sharers(s[1])) - 1
                  [] OTHER -> Cardinality(Sharers(s[1]))
<1> DEFINE S == Sharers(s[1])
<1>1. sess'[s] = w /\ \A t \in Sess : t # s => sess'[t] = sess[t]
  BY MovesFacts
<1>2. CASE sess[s] # "S" /\ w = "S"
  <2>1. Sharers(s[1])' = S \union {s} /\ s \notin S
    BY <1>1, <1>2 DEF Sharers
  <2>2. IsFiniteSet(S \union {s}) /\ Cardinality(S \union {s}) = Cardinality(S) + 1
    BY <2>1, FS_AddElement
  <2> QED BY <1>2, <2>1, <2>2
<1>3. CASE sess[s] = "S" /\ w # "S"
  <2>1. Sharers(s[1])' = S \ {s} /\ s \in S
    BY <1>1, <1>3 DEF Sharers
  <2>2. IsFiniteSet(S \ {s}) /\ Cardinality(S \ {s}) = Cardinality(S) - 1
    BY <2>1, FS_RemoveElement
  <2> QED BY <1>3, <2>1, <2>2
<1>4. CASE (sess[s] = "S" /\ w = "S") \/ (sess[s] # "S" /\ w # "S")
  <2>1. Sharers(s[1])' = S
    BY <1>1, <1>4 DEF Sharers
  <2> QED BY <1>4, <2>1
<1> QED BY <1>2, <1>3, <1>4

\* The entries of the other instances keep their agreement.
LEMMA OtherLatches ==
    ASSUME TypeInv, NEW s \in Sess, NEW w, Moves(s, w), NEW j \in Inst, j # s[1], LatchOK(j)
    PROVE  LatchOK(j)'
<1>1. \A t \in Sess : t[1] = j => sess'[t] = sess[t]
  BY MovesFacts
<1>2. loc'[j] = loc[j]
  BY DEF Moves
<1>3. Sharers(j)' = Sharers(j)
  BY <1>1 DEF Sharers
<1> QED BY <1>1, <1>2, <1>3 DEF LatchOK

\* A session that neither has the latch nor gets it moves on.
LEMMA LatchesWait ==
    ASSUME TypeInv, Latches, NEW s \in Sess, NEW w, Moves(s, w),
           sess[s] \notin {"S", "X"}, w \notin {"S", "X"},
           loc'[s[1]].stat = loc[s[1]].stat, loc'[s[1]].lock_mode = loc[s[1]].lock_mode,
           loc'[s[1]].shared_count = loc[s[1]].shared_count,
           w \in {"ix", "reqIX", "quit"} => sess[s] \in {"ix", "reqIX", "quit"},
           w = "reqIX" => loc[s[1]].shared_count = 0,
           w \in {"reqS", "reqX"} => loc[s[1]].stat = LATCH_STATUS_IDLE,
           w = "reqS" => loc[s[1]].lock_mode = DRC_LOCK_NULL
    PROVE  Latches'
<1>1. s[1] \in Inst /\ LatchOK(s[1])
  BY SessInst DEF Latches
<1>2. sess'[s] = w /\ \A t \in Sess : t # s => sess'[t] = sess[t]
  BY MovesFacts
<1>3. IsFiniteSet(Sharers(s[1]))' /\ Cardinality(Sharers(s[1]))' = Cardinality(Sharers(s[1]))
  BY <1>1, SharersStep DEF LatchOK
<1>4. LatchOK(s[1])'
  BY <1>1, <1>2, <1>3 DEF LatchOK, Writer
<1> QED BY <1>4, OtherLatches DEF Latches

\* A session joins the sharers or is the first one.
LEMMA LatchesShare ==
    ASSUME TypeInv, Latches, NEW s \in Sess, Moves(s, "S"), sess[s] \in {"wantS", "reqS"},
           \A t \in Sess : t[1] = s[1] /\ t # s => sess[t] \notin Asking,
           loc[s[1]].stat \in {LATCH_STATUS_IDLE, LATCH_STATUS_S},
           loc'[s[1]].stat = LATCH_STATUS_S, loc'[s[1]].lock_mode # DRC_LOCK_NULL,
           loc'[s[1]].shared_count =
              IF loc[s[1]].stat = LATCH_STATUS_IDLE THEN 1 ELSE loc[s[1]].shared_count + 1
    PROVE  Latches'
<1> USE DEF LATCH_STATUS_IDLE, LATCH_STATUS_S, LATCH_STATUS_IX, LATCH_STATUS_X
<1>1. s[1] \in Inst /\ LatchOK(s[1])
  BY SessInst DEF Latches
<1>2. sess'[s] = "S" /\ \A t \in Sess : t # s => sess'[t] = sess[t]
  BY MovesFacts
<1>3. /\ IsFiniteSet(Sharers(s[1]))'
      /\ Cardinality(Sharers(s[1]))' = Cardinality(Sharers(s[1])) + 1
  BY <1>1, SharersStep DEF LatchOK
<1>4. loc[s[1]].stat = LATCH_STATUS_IDLE => loc[s[1]].shared_count = 0
  <2>1. loc[s[1]].stat = LATCH_STATUS_IDLE => \A t \in Sess : t[1] = s[1] => sess[t] # "S"
    BY <1>1 DEF LatchOK
  <2> QED BY <1>1, <2>1, CountZero
<1>5. loc'[s[1]].shared_count = Cardinality(Sharers(s[1]))'
  BY <1>1, <1>3, <1>4, CountZero DEF LatchOK
<1>6. \A t \in Sess : t[1] = s[1] /\ t # s => sess[t] \notin Writer \union Asking
  BY <1>1 DEF LatchOK, Writer, Asking
<1>8. \A t \in Sess : t[1] = s[1] => sess'[t] \notin Writer \union Asking
  BY <1>2, <1>6 DEF Writer, Asking
<1>9. loc'[s[1]].shared_count > 0
  BY <1>1, CountZero
<1>7. LatchOK(s[1])'
  BY <1>3, <1>5, <1>8, <1>9 DEF LatchOK, Writer, Asking
<1> QED BY <1>7, OtherLatches DEF Latches

\* A session gets the latch for itself, or announces that it wants it.
LEMMA LatchesWrite ==
    ASSUME TypeInv, Latches, NEW s \in Sess, NEW w \in {"X", "ix"}, Moves(s, w),
           sess[s] \in {"wantX", "reqX", "reqIX"},
           \A t \in Sess : t[1] = s[1] /\ t # s => sess[t] \notin Asking,
           sess[s] # "reqIX" =>
              loc[s[1]].stat \in {LATCH_STATUS_IDLE, IF w = "X" THEN LATCH_STATUS_IDLE
                                                     ELSE LATCH_STATUS_S},
           loc'[s[1]].stat = IF w = "X" THEN LATCH_STATUS_X ELSE LATCH_STATUS_IX,
           loc'[s[1]].lock_mode = IF w = "X" THEN DRC_LOCK_EXCLUSIVE
                                  ELSE loc[s[1]].lock_mode,
           loc'[s[1]].shared_count = loc[s[1]].shared_count
    PROVE  Latches'
<1> USE DEF LATCH_STATUS_IDLE, LATCH_STATUS_S, LATCH_STATUS_IX, LATCH_STATUS_X
<1>1. s[1] \in Inst /\ LatchOK(s[1])
  BY SessInst DEF Latches
<1>2. sess'[s] = w /\ \A t \in Sess : t # s => sess'[t] = sess[t]
  BY MovesFacts
<1>3. /\ IsFiniteSet(Sharers(s[1]))'
      /\ Cardinality(Sharers(s[1]))' = Cardinality(Sharers(s[1]))
  BY <1>1, SharersStep DEF LatchOK
<1>4. loc'[s[1]].shared_count = Cardinality(Sharers(s[1]))'
  BY <1>1, <1>3 DEF LatchOK
<1>5. \A t \in Sess : t[1] = s[1] /\ t # s => sess[t] \notin Writer \union Asking
  BY <1>1 DEF LatchOK, Writer, Asking
<1>6. w = "X" => \A t \in Sess : t[1] = s[1] => sess[t] # "S"
  BY <1>1, CountZero DEF LatchOK
<1>7. LatchOK(s[1])'
  BY <1>1, <1>2, <1>3, <1>4, <1>5, <1>6 DEF LatchOK, Writer, Asking
<1> QED BY <1>7, OtherLatches DEF Latches

\* A session leaves the latch or withdraws its announcement.
LEMMA LatchesLeave ==
    ASSUME TypeInv, Latches, NEW s \in Sess, Moves(s, "idle"), sess[s] \in {"S", "X", "quit"},
           \A t \in Sess : t[1] = s[1] => sess[t] \notin Asking,
           loc'[s[1]].lock_mode = loc[s[1]].lock_mode,
           sess[s] # "quit" =>
              /\ loc'[s[1]].shared_count = (IF loc[s[1]].shared_count > 0
                                            THEN loc[s[1]].shared_count - 1 ELSE 0)
              /\ loc'[s[1]].stat = (IF /\ loc[s[1]].stat \in {LATCH_STATUS_S, LATCH_STATUS_X}
                                       /\ loc'[s[1]].shared_count = 0
                                    THEN LATCH_STATUS_IDLE ELSE loc[s[1]].stat),
           sess[s] = "quit" =>
              /\ loc'[s[1]].shared_count = loc[s[1]].shared_count
              /\ loc'[s[1]].stat = (IF loc[s[1]].shared_count > 0
                                    THEN LATCH_STATUS_S ELSE LATCH_STATUS_IDLE)
    PROVE  Latches'
<1> USE DEF LATCH_STATUS_IDLE, LATCH_STATUS_S, LATCH_STATUS_IX, LATCH_STATUS_X
<1>1. s[1] \in Inst /\ LatchOK(s[1])
  BY SessInst DEF Latches
<1>2. sess'[s] = "idle" /\ \A t \in Sess : t # s => sess'[t] = sess[t]
  BY MovesFacts
<1>3. IsFiniteSet(Sharers(s[1])) /\ loc[s[1]].shared_count = Cardinality(Sharers(s[1]))
  BY <1>1 DEF LatchOK
<1>4. /\ IsFiniteSet(Sharers(s[1]))'
      /\ Cardinality(Sharers(s[1]))' = IF sess[s] = "S" THEN loc[s[1]].shared_count - 1
                                       ELSE loc[s[1]].shared_count
  BY <1>3, SharersStep
<1>5. /\ loc[s[1]].shared_count \in Nat
      /\ sess[s] = "S" => loc[s[1]].shared_count > 0
      /\ sess[s] = "X" => loc[s[1]].shared_count = 0
  BY <1>1, CountZero DEF LatchOK
<1>6. loc'[s[1]].shared_count = Cardinality(Sharers(s[1]))'
  BY <1>4, <1>5
<1>7. (Cardinality(Sharers(s[1]))' = 0) => \A t \in Sess : t[1] = s[1] => sess'[t] # "S"
  <2>1. (Cardinality(Sharers(s[1]))' = 0) => (Sharers(s[1])' = {})
    BY <1>4, FS_EmptySet
  <2> QED BY <2>1 DEF Sharers
<1>8. \A t \in Sess : t[1] = s[1] /\ t # s /\ sess[s] # "S" => sess[t] \notin Writer
  BY <1>1 DEF LatchOK, Writer
<1>9. LatchOK(s[1])'
  BY <1>1, <1>2, <1>4, <1>5, <1>6, <1>7, <1>8 DEF LatchOK, Writer, Asking
<1> QED BY <1>9, OtherLatches DEF Latches

\* An owner gives up its mode while none of its sessions has the latch.
LEMMA LatchesRelease ==
    ASSUME TypeInv, Latches, NEW o \in Inst, LocalFree(o), Unlatched(o), sess' = sess,
           \A j \in Inst : j # o => loc'[j] = loc[j],
           loc'[o].stat = loc[o].stat, loc'[o].shared_count = loc[o].shared_count
    PROVE  Latches'
<1> USE DEF LATCH_STATUS_IDLE, LATCH_STATUS_S, LATCH_STATUS_IX, LATCH_STATUS_X
<1>1. \A i : Sharers(i)' = Sharers(i)
  BY DEF Sharers
<1>2. \A t \in Sess : t[1] = o => sess[t] \notin Asking \union {"S", "X"}
  <2>1. LatchOK(o)
    BY DEF Latches
  <2> QED BY <2>1, CountZero DEF LatchOK, LocalFree, Unlatched
<1>3. LatchOK(o)'
  BY <1>1, <1>2 DEF Latches, LatchOK, Asking
<1>4. ASSUME NEW j \in Inst, j # o PROVE LatchOK(j)'
  BY <1>1, <1>4 DEF Latches, LatchOK
<1> QED BY <1>3, <1>4 DEF Latches

-----------------------------------------------------------------------------
(***************************************************************************)
(* The grants and the turn of the converting request.                      *)
(***************************************************************************)
\* Neither the modes that the instances keep nor the grants change.
SameModes == \A i \in Inst : loc'[i].lock_mode = loc[i].lock_mode
SameGrants == res'.granted = res.granted /\ res'.mode = res.mode

\* The numbers of the modes.
LEMMA ModeFacts ==
    /\ DRC_LOCK_NULL = 0 /\ DRC_LOCK_SHARE = 1 /\ DRC_LOCK_EXCLUSIVE = 2
    /\ \A m \in LockMode : m = 0 \/ m = 1 \/ m = 2
    /\ \A m \in ReqMode : m = 1 \/ m = 2
BY DEF DRC_LOCK_NULL, DRC_LOCK_SHARE, DRC_LOCK_EXCLUSIVE, LockMode, ReqMode

\* The handlers, the modes and the grants stay as they are.
LEMMA TurnSame ==
    ASSUME TypeInv, Grants, Turn, \A t \in Sess : H(t)' = H(t), SameModes, SameGrants
    PROVE  Grants' /\ Turn'
<1>1. res.granted \subseteq Inst
  BY DEF TypeInv, LockResType
<1>2. \A t \in Sess : H(t).pc \in {"rel_ok", "rel_err"} => H(t).own \in Inst
  BY RsnAssumption DEF Turn, TurnOf, TypeInv, HandlersTyped, HandlerType, H
<1>3. Grants'
  BY <1>1 DEF Grants, Covers, SameModes, SameGrants
<1>4. Turn'
  BY <1>2 DEF Turn, TurnOf, SameModes, SameGrants
<1> QED BY <1>3, <1>4

\* A request begins, waits or ends without an answer that counts.
LEMMA TurnQuiet ==
    ASSUME TypeInv, Grants, Turn, NEW s \in Sess, OnlyOf(s), SameModes, SameGrants,
           H(s).pc \notin {"ok", "rel_ok"},
           H(s)'.pc \in {"none", "sent", "err"}
             \/ (H(s)'.pc = "queued" /\ s[1] \notin res.granted)
    PROVE  Grants' /\ Turn'
<1>1. res.granted \subseteq Inst
  BY DEF TypeInv, LockResType
<1>2. \A t \in Sess : H(t).pc \in {"rel_ok", "rel_err"} => H(t).own \in Inst
  BY RsnAssumption DEF Turn, TurnOf, TypeInv, HandlersTyped, HandlerType, H
<1>3. \A t \in Sess : /\ t # s => H(t)' = H(t)
                      /\ H(t)'.pc = "ok" <=> H(t).pc = "ok"
                      /\ H(t)'.pc = "rel_ok" <=> H(t).pc = "rel_ok"
  BY DEF OnlyOf
<1>4. \A t \in Sess : H(t).pc \in {"ok", "rel_ok"} => H(t)' = H(t)
  BY <1>3
<1>5. Grants'
  BY <1>1, <1>3, <1>4 DEF Grants, Covers, SameModes, SameGrants
<1>6. \A t \in Sess : H(t)'.pc \in Converting => H(t)' = H(t) /\ H(t).pc \in Converting
  BY <1>3 DEF Converting
<1>7. \A t \in Sess : H(t)'.pc = "queued" => t[1] \notin res.granted
  BY <1>3 DEF Turn, TurnOf
<1>8. Turn'
  BY <1>2, <1>3, <1>4, <1>6, <1>7 DEF Turn, TurnOf, SameModes, SameGrants, Converting
<1> QED BY <1>5, <1>8

\* The session takes the mode that was granted.
LEMMA TurnGranted ==
    ASSUME TypeInv, Grants, Turn, NEW s \in Sess, OnlyOf(s), SameGrants,
           H(s).pc = "ok", H(s)'.pc = "none",
           \A i \in Inst : i # s[1] => loc'[i].lock_mode = loc[i].lock_mode,
           loc'[s[1]].lock_mode = H(s).mode, H(s).mode \in ReqMode
    PROVE  Grants' /\ Turn'
<1>1. res.granted \subseteq Inst /\ s[1] \in Inst
  BY SessInst DEF TypeInv, LockResType
<1>2. \A t \in Sess : H(t).pc \in {"rel_ok", "rel_err"} => H(t).own \in Inst
  BY RsnAssumption DEF Turn, TurnOf, TypeInv, HandlersTyped, HandlerType, H
<1>3. \A t \in Sess : t # s => H(t)' = H(t)
  BY DEF OnlyOf
<1>4. Grants'
  <2>1. loc'[s[1]].lock_mode # DRC_LOCK_NULL
    BY ModeFacts
  <2>2. \A i \in Inst : loc'[i].lock_mode # DRC_LOCK_NULL => Covers(i, loc'[i].lock_mode)
    BY DEF Grants
  <2>4. \A i \in Inst : loc'[i].lock_mode # DRC_LOCK_NULL => Covers(i, loc[i].lock_mode)'
    BY <2>2 DEF Covers, SameGrants
  <2>5. \A t \in Sess : H(t)'.pc = "ok" => Covers(t[1], H(t).mode)'
    BY <1>3 DEF Grants, Covers, SameGrants
  <2>6. \A i \in res.granted :
          \/ loc'[i].lock_mode # DRC_LOCK_NULL
          \/ \E t \in Sess : t[1] = i /\ H(t)'.pc = "ok"
          \/ \E t \in Sess : /\ H(t)'.pc = "rel_ok" /\ H(t)'.own = i
                             /\ H(t)'.mode = DRC_LOCK_EXCLUSIVE
    BY <1>1, <1>3, <2>1 DEF Grants
  <2> QED BY <2>4, <2>5, <2>6 DEF Grants, SameGrants
<1>5. Turn'
  <2>1. \A t \in Sess : H(t)'.pc # "none" => t # s /\ H(t)' = H(t)
    BY <1>3
  <2>2. \A t \in Sess : H(t)'.pc = "rel_ok" =>
           H(t).own # s[1] /\ loc'[H(t).own].lock_mode = loc[H(t).own].lock_mode
    BY <1>2, <2>1 DEF Turn, TurnOf
  <2>3. \A t \in Sess : H(t)'.pc \in Converting /\ H(t).mode = DRC_LOCK_SHARE
           => \A i \in Inst : loc'[i].lock_mode = DRC_LOCK_EXCLUSIVE => i \in H(t).todo
    BY <2>1 DEF Turn, TurnOf, Converting
  <2> QED BY <2>1, <2>2, <2>3 DEF Turn, TurnOf, SameGrants, Converting
<1> QED BY <1>4, <1>5

\* The request is converted: the owners that conflict have to be asked.
LEMMA TurnConvert ==
    ASSUME TypeInv, Grants, Turn, NEW s \in Sess, OnlyOf(s), SameRequest(s), SameModes,
           SameGrants, H(s).pc \in {"sent", "queued"}, H(s)'.pc = "ask", H(s).mode \in ReqMode,
           H(s)'.todo = OldOwners(res, s[1], H(s).mode),
           H(s).mode = DRC_LOCK_SHARE => s[1] \notin res.granted
    PROVE  Grants' /\ Turn'
<1>1. res.granted \subseteq Inst /\ s[1] \in Inst /\ res.mode \in LockMode
  BY SessInst DEF TypeInv, LockResType
<1>2. \A t \in Sess : /\ H(t).pc \in {"rel_ok", "rel_err"} => H(t).own \in Inst
                      /\ H(t).mode \in LockMode
  BY RsnAssumption DEF Turn, TurnOf, TypeInv, HandlersTyped, HandlerType, H
<1>3. \A t \in Sess : /\ t # s => H(t)' = H(t)
                      /\ H(t)'.pc = "ok" <=> H(t).pc = "ok"
                      /\ H(t)'.pc = "rel_ok" <=> H(t).pc = "rel_ok"
  BY DEF OnlyOf
<1>4. \A t \in Sess : H(t).pc \in {"ok", "rel_ok"} => H(t)' = H(t)
  BY <1>3
<1>5. Grants'
  BY <1>1, <1>3, <1>4 DEF Grants, Covers, SameModes, SameGrants
<1>6. H(s).mode = DRC_LOCK_EXCLUSIVE => res.granted \subseteq H(s)'.todo \union {s[1]}
  BY <1>1, ModeFacts DEF OldOwners, Compatible, Grants
<1>7. ASSUME H(s).mode = DRC_LOCK_SHARE, NEW i \in Inst, Covers(i, DRC_LOCK_EXCLUSIVE)
      PROVE  i \in H(s)'.todo
  <2>1. res.mode = DRC_LOCK_EXCLUSIVE /\ i \in res.granted /\ i # s[1]
    BY <1>1, <1>7, ModeFacts DEF Covers
  <2> QED BY <1>7, <2>1, ModeFacts DEF OldOwners, Compatible
<1>8. H(s).mode = DRC_LOCK_SHARE =>
        /\ \A i \in Inst : loc[i].lock_mode = DRC_LOCK_EXCLUSIVE => i \in H(s)'.todo
        /\ \A t \in Sess : H(t).pc = "ok" /\ H(t).mode = DRC_LOCK_EXCLUSIVE
                             => t[1] \in H(s)'.todo
  BY <1>7, SessInst, ModeFacts DEF Grants
<1>9. Turn'
  <2>1. ASSUME NEW t \in Sess, t # s
        PROVE  TurnOf(t)'
    BY <1>2, <1>3, <1>4, <2>1 DEF Turn, TurnOf, SameModes, SameGrants
  <2> QED BY <1>3, <1>4, <1>6, <1>8, <2>1 DEF Turn, TurnOf, SameModes, SameGrants, SameRequest
<1> QED BY <1>5, <1>9

\* The facts about owners that the next lemmas share.
LEMMA OwnFacts ==
    ASSUME TypeInv, Turn
    PROVE  /\ res.granted \subseteq Inst /\ res.mode \in LockMode
           /\ \A t \in Sess : /\ H(t).pc \in {"rel_ok", "rel_err"} => H(t).own \in Inst
                              /\ H(t).mode \in LockMode /\ H(t).todo \subseteq Inst
           /\ \A i \in Inst : loc[i].lock_mode \in LockMode
<1>1. res.granted \subseteq Inst /\ res.mode \in LockMode
  BY DEF TypeInv, LockResType
<1>2. \A t \in Sess : /\ H(t).pc \in {"rel_ok", "rel_err"} => H(t).own \in Inst
                      /\ H(t).mode \in LockMode /\ H(t).todo \subseteq Inst
  BY RsnAssumption DEF Turn, TurnOf, TypeInv, HandlersTyped, HandlerType, H
<1>3. \A i \in Inst : loc[i].lock_mode \in LockMode
  BY DEF TypeInv, LocalType
<1> QED BY <1>1, <1>2, <1>3

\* The owner o releases the lock.
LEMMA TurnRelease ==
    ASSUME TypeInv, Requests, Queue, Grants, Turn, NEW s \in Sess, OnlyOf(s), SameRequest(s),
           SameGrants, NEW o \in Inst, LocalFree(o), H(s).pc = "ask", H(s).mode \in ReqMode,
           H(s)'.pc = "rel_ok", H(s)'.own = o, H(s)'.todo = H(s).todo, o \in H(s).todo,
           \A i \in Inst : i # o => loc'[i].lock_mode = loc[i].lock_mode,
           loc[o].lock_mode # DRC_LOCK_NULL,
           loc'[o].lock_mode = IF H(s).mode = DRC_LOCK_EXCLUSIVE THEN DRC_LOCK_NULL
                               ELSE DRC_LOCK_SHARE
    PROVE  Grants' /\ Turn'
<1>1. /\ res.granted \subseteq Inst /\ res.mode \in LockMode
      /\ \A i \in Inst : loc[i].lock_mode \in LockMode
  BY OwnFacts
<1>2. \A t \in Sess : t # s => H(t)' = H(t) /\ H(t).pc \notin Converting
  BY OneConverting DEF OnlyOf, Converting
<1>3. \A t \in Sess : /\ H(t)'.pc = "ok" <=> H(t).pc = "ok"
                      /\ H(t)'.pc = "ok" => H(t)' = H(t) /\ t[1] # o
                      /\ H(t)'.pc = "rel_ok" <=> t = s
                      /\ H(t).pc # "rel_ok"
  BY <1>2 DEF Requests, LocalFree, Converting
<1>4. Grants'
  <2>1. \A i \in Inst : loc'[i].lock_mode # DRC_LOCK_NULL =>
           loc[i].lock_mode # DRC_LOCK_NULL /\ Covers(i, loc'[i].lock_mode)
    BY <1>1, ModeFacts DEF Grants, Covers
  <2>2. \A i \in Inst : loc'[i].lock_mode # DRC_LOCK_NULL => Covers(i, loc[i].lock_mode)'
    BY <2>1 DEF Covers, SameGrants
  <2>3. \A t \in Sess : H(t)'.pc = "ok" => Covers(t[1], H(t).mode)'
    BY <1>3 DEF Grants, Covers, SameGrants
  <2>4. ASSUME NEW i \in res.granted, loc'[i].lock_mode = DRC_LOCK_NULL
        PROVE  \/ \E t \in Sess : t[1] = i /\ H(t)'.pc = "ok"
               \/ \E t \in Sess : /\ H(t)'.pc = "rel_ok" /\ H(t)'.own = i
                                  /\ H(t)'.mode = DRC_LOCK_EXCLUSIVE
    <3>1. CASE i = o
      BY <2>4, <3>1, ModeFacts DEF SameRequest
    <3>2. CASE i # o
      BY <1>1, <1>3, <2>4, <3>2 DEF Grants
    <3> QED BY <3>1, <3>2
  <2> QED BY <2>2, <2>3, <2>4 DEF Grants, SameGrants
<1>5. Turn'
  <2>1. ASSUME NEW t \in Sess, t # s
        PROVE  TurnOf(t)'
    BY <1>2, <2>1 DEF Turn, TurnOf, SameGrants, Converting
  <2>2. \A i \in Inst : loc'[i].lock_mode = DRC_LOCK_EXCLUSIVE
                          => loc[i].lock_mode = DRC_LOCK_EXCLUSIVE
    BY ModeFacts
  <2>3. TurnOf(s)'
    BY <1>3, <2>2, ModeFacts DEF Turn, TurnOf, SameGrants, SameRequest, Converting
  <2> QED BY <2>1, <2>3 DEF Turn
<1> QED BY <1>4, <1>5

\* The owner o refuses to release the lock.
LEMMA TurnRefuse ==
    ASSUME TypeInv, Queue, Grants, Turn, NEW s \in Sess, OnlyOf(s), SameRequest(s), SameModes,
           SameGrants, H(s).pc = "ask", H(s)'.pc = "rel_err", H(s)'.own \in H(s).todo,
           H(s)'.todo = H(s).todo
    PROVE  Grants' /\ Turn'
<1>1. res.granted \subseteq Inst
  BY OwnFacts
<1>2. \A t \in Sess : t # s => H(t)' = H(t) /\ H(t).pc \notin Converting
  BY OneConverting DEF OnlyOf, Converting
<1>3. \A t \in Sess : /\ H(t)'.pc = "ok" <=> H(t).pc = "ok"
                      /\ H(t)'.pc = "ok" => H(t)' = H(t)
                      /\ H(t)'.pc # "rel_ok" /\ H(t).pc # "rel_ok"
  BY <1>2 DEF Converting
<1>4. Grants'
  BY <1>1, <1>3 DEF Grants, Covers, SameModes, SameGrants
<1>5. Turn'
  <2>1. ASSUME NEW t \in Sess, t # s
        PROVE  TurnOf(t)'
    BY <1>2, <2>1 DEF Turn, TurnOf, SameGrants, Converting
  <2>2. TurnOf(s)'
    BY <1>3 DEF Turn, TurnOf, SameModes, SameGrants, SameRequest, Converting
  <2> QED BY <2>1, <2>2 DEF Turn
<1> QED BY <1>4, <1>5

\* The master hears that the owner released the lock.
LEMMA TurnReleased ==
    ASSUME TypeInv, Queue, Grants, Turn, NEW s \in Sess, OnlyOf(s), SameRequest(s), SameModes,
           H(s).pc = "rel_ok", H(s)'.pc = "ask", H(s).mode \in ReqMode,
           H(s)'.todo = H(s).todo \ {H(s).own},
           H(s).mode = DRC_LOCK_SHARE => SameGrants,
           H(s).mode = DRC_LOCK_EXCLUSIVE =>
              /\ res'.granted = res.granted \ {H(s).own}
              /\ res'.mode = IF res.granted \subseteq {H(s).own} THEN DRC_LOCK_NULL
                             ELSE res.mode
    PROVE  Grants' /\ Turn'
<1>1. /\ res.granted \subseteq Inst /\ res.mode \in LockMode /\ H(s).own \in Inst
      /\ \A i \in Inst : loc[i].lock_mode \in LockMode
  BY OwnFacts
<1>2. \A t \in Sess : t # s => H(t)' = H(t) /\ H(t).pc \notin Converting
  BY OneConverting DEF OnlyOf, Converting
<1>3. \A t \in Sess : /\ H(t)'.pc = "ok" <=> H(t).pc = "ok"
                      /\ H(t)'.pc = "ok" => H(t)' = H(t) /\ t[1] # H(s).own
                      /\ H(t)'.pc # "rel_ok" /\ (t # s => H(t).pc # "rel_ok")
  BY <1>2 DEF Converting, Turn, TurnOf
<1>4. CASE H(s).mode = DRC_LOCK_SHARE
  <2>1. SameGrants
    BY <1>4
  <2>2. Grants'
    BY <1>1, <1>3, <1>4, <2>1, ModeFacts DEF Grants, Covers, SameModes, SameGrants
  <2>3. ASSUME NEW t \in Sess, t # s
        PROVE  TurnOf(t)'
    BY <1>2, <2>1, <2>3 DEF Turn, TurnOf, SameGrants, Converting
  <2>4. TurnOf(s)'
    BY <1>3, <1>4, <2>1, ModeFacts
       DEF Turn, TurnOf, SameModes, SameGrants, SameRequest, Converting
  <2> QED BY <2>2, <2>3, <2>4 DEF Turn
<1>5. CASE H(s).mode = DRC_LOCK_EXCLUSIVE
  <2>1. /\ res'.granted = res.granted \ {H(s).own}
        /\ res'.mode = IF res.granted \subseteq {H(s).own} THEN DRC_LOCK_NULL ELSE res.mode
        /\ loc[H(s).own].lock_mode = DRC_LOCK_NULL
    BY <1>5 DEF Turn, TurnOf
  <2>2. ASSUME NEW i, NEW m, Covers(i, m), i # H(s).own
        PROVE  /\ i \in res'.granted /\ m <= res'.mode
               /\ m = DRC_LOCK_EXCLUSIVE => res'.granted = {i}
    <3>1. i \in res.granted /\ m <= res.mode /\ (m = DRC_LOCK_EXCLUSIVE => res.granted = {i})
      BY <2>2 DEF Covers
    <3>2. ~(res.granted \subseteq {H(s).own})
      BY <2>2, <3>1
    <3>3. res'.mode = res.mode
      BY <2>1, <3>2
    <3> QED BY <2>1, <2>2, <3>1, <3>3
  <2>3. \A i \in Inst : loc'[i].lock_mode # DRC_LOCK_NULL => Covers(i, loc[i].lock_mode)'
    BY <2>1, <2>2 DEF Grants, Covers, SameModes
  <2>4. \A t \in Sess : H(t)'.pc = "ok" => Covers(t[1], H(t).mode)'
    <3> SUFFICES ASSUME NEW t \in Sess, H(t)'.pc = "ok"
                 PROVE  Covers(t[1], H(t).mode)'
      OBVIOUS
    <3>1. H(t)' = H(t) /\ t[1] # H(s).own /\ Covers(t[1], H(t).mode)
      BY <1>3 DEF Grants
    <3>2. /\ t[1] \in res'.granted /\ H(t).mode <= res'.mode
          /\ H(t).mode = DRC_LOCK_EXCLUSIVE => res'.granted = {t[1]}
      BY <2>2, <3>1
    <3> QED BY <3>1, <3>2 DEF Covers
  <2>5. res'.mode = DRC_LOCK_NULL => res'.granted = {}
    BY <2>1 DEF Grants
  <2>6. \A i \in res'.granted :
           loc'[i].lock_mode # DRC_LOCK_NULL \/ \E t \in Sess : t[1] = i /\ H(t)'.pc = "ok"
    BY <1>1, <1>3, <2>1 DEF Grants, SameModes
  <2>7. Grants'
    BY <2>3, <2>4, <2>5, <2>6 DEF Grants
  <2>8. ASSUME NEW t \in Sess, t # s
        PROVE  TurnOf(t)'
    BY <1>2, <2>1, <2>8 DEF Turn, TurnOf, Converting
  <2>9. TurnOf(s)'
    BY <1>3, <1>5, <2>1, ModeFacts DEF Turn, TurnOf, SameRequest, Converting
  <2> QED BY <2>7, <2>8, <2>9 DEF Turn
<1> QED BY <1>4, <1>5, ModeFacts

\* The claim of the converting request.
LEMMA TurnClaim ==
    ASSUME TypeInv, Requests, Queue, Grants, Turn, NEW s \in Sess, OnlyOf(s), SameRequest(s),
           SameModes, H(s).pc = "ask", H(s).todo = {}, H(s)'.pc = "ok", H(s).mode \in ReqMode,
           res'.mode = H(s).mode,
           res'.granted = IF H(s).mode = DRC_LOCK_EXCLUSIVE THEN {s[1]}
                          ELSE res.granted \union {s[1]}
    PROVE  Grants' /\ Turn'
<1>1. /\ res.granted \subseteq Inst /\ res.mode \in LockMode /\ s[1] \in Inst
      /\ \A i \in Inst : loc[i].lock_mode \in LockMode
      /\ \A t \in Sess : H(t).mode \in LockMode
  BY OwnFacts, SessInst
<1>2. \A t \in Sess : t # s => H(t)' = H(t) /\ H(t).pc \notin Converting
  BY OneConverting DEF OnlyOf, Converting
<1>3. \A t \in Sess : t # s => H(t).pc # "rel_ok" /\ H(t)'.pc # "rel_ok"
  BY <1>2 DEF Converting
<1>4. \A t \in Sess : t # s /\ H(t).pc \in {"ok", "queued"} => t[1] # s[1]
  BY DEF Requests
<1>5. ASSUME NEW i \in Inst, NEW m \in LockMode, m # DRC_LOCK_NULL, Covers(i, m),
             H(s).mode = DRC_LOCK_EXCLUSIVE => i = s[1],
             H(s).mode = DRC_LOCK_SHARE => m # DRC_LOCK_EXCLUSIVE
      PROVE  /\ i \in res'.granted /\ m <= res'.mode
             /\ m = DRC_LOCK_EXCLUSIVE => res'.granted = {i}
  BY <1>5, ModeFacts DEF Covers
<1>6. \A i \in res.granted : H(s).mode = DRC_LOCK_EXCLUSIVE => i = s[1]
  BY DEF Turn, TurnOf, Converting
<1>7. \A i \in Inst : loc'[i].lock_mode # DRC_LOCK_NULL => Covers(i, loc[i].lock_mode)'
  <2> SUFFICES ASSUME NEW i \in Inst, loc[i].lock_mode # DRC_LOCK_NULL
               PROVE  /\ i \in res'.granted /\ loc[i].lock_mode <= res'.mode
                      /\ loc[i].lock_mode = DRC_LOCK_EXCLUSIVE => res'.granted = {i}
    BY DEF SameModes, Covers
  <2>1. Covers(i, loc[i].lock_mode) /\ i \in res.granted
    BY DEF Grants, Covers
  <2>2. H(s).mode = DRC_LOCK_SHARE => loc[i].lock_mode # DRC_LOCK_EXCLUSIVE
    BY DEF Turn, TurnOf, Converting
  <2> QED BY <1>1, <1>5, <1>6, <2>1, <2>2
<1>8. \A t \in Sess : H(t)'.pc = "ok" => Covers(t[1], H(t).mode)'
  <2> SUFFICES ASSUME NEW t \in Sess, H(t)'.pc = "ok"
               PROVE  /\ t[1] \in res'.granted /\ H(t)'.mode <= res'.mode
                      /\ H(t)'.mode = DRC_LOCK_EXCLUSIVE => res'.granted = {t[1]}
    BY DEF Covers
  <2>1. CASE t = s
    BY <1>1, <2>1, ModeFacts DEF SameRequest
  <2>2. CASE t # s
    <3>1. H(t)' = H(t) /\ H(t).pc = "ok" /\ t[1] # s[1] /\ t[1] \in Inst
      BY <1>2, <1>4, <2>2, SessInst
    <3>2. Covers(t[1], H(t).mode) /\ t[1] \in res.granted
      BY <3>1 DEF Grants, Covers
    <3>3. H(t).mode # DRC_LOCK_NULL
      BY <3>1, ModeFacts DEF Requests
    <3>4. H(s).mode = DRC_LOCK_SHARE => H(t).mode # DRC_LOCK_EXCLUSIVE
      BY <3>1 DEF Turn, TurnOf, Converting
    <3> QED BY <1>1, <1>5, <1>6, <3>1, <3>2, <3>3, <3>4
  <2> QED BY <2>1, <2>2
<1>9. \A i \in res'.granted :
         loc'[i].lock_mode # DRC_LOCK_NULL \/ \E t \in Sess : t[1] = i /\ H(t)'.pc = "ok"
  <2> SUFFICES ASSUME NEW i \in res'.granted, i # s[1]
               PROVE  \/ loc'[i].lock_mode # DRC_LOCK_NULL
                      \/ \E t \in Sess : t[1] = i /\ H(t)'.pc = "ok"
    OBVIOUS
  <2>1. i \in res.granted
    OBVIOUS
  <2>2. \/ loc[i].lock_mode # DRC_LOCK_NULL
        \/ \E t \in Sess : t[1] = i /\ H(t).pc = "ok"
    BY <1>3, <2>1 DEF Grants
  <2> QED BY <1>1, <1>2, <2>1, <2>2 DEF SameModes
<1>10. Grants'
  BY <1>7, <1>8, <1>9, ModeFacts DEF Grants
<1>11. Turn'
  <2>1. ASSUME NEW t \in Sess, t # s
        PROVE  TurnOf(t)'
    BY <1>2, <1>4, <2>1 DEF Turn, TurnOf, Converting
  <2>2. TurnOf(s)'
    BY DEF TurnOf, Converting
  <2> QED BY <2>1, <2>2 DEF Turn
<1> QED BY <1>10, <1>11

-----------------------------------------------------------------------------
(***************************************************************************)
(* The steps of the sessions keep the invariant.                           *)
(***************************************************************************)
\* A session moves that neither had a request nor has one now.
LEMMA RequestsMove ==
    ASSUME TypeInv, Requests, NEW s \in Sess, NEW w, Moves(s, w), hnd' = hnd,
           sess[s] \notin Asking, w \notin Asking
    PROVE  Requests'
<1>1. \A t \in Sess : H(t)' = H(t)
  BY DEF H
<1>2. sess'[s] = w /\ \A t \in Sess : t # s => sess'[t] = sess[t]
  BY MovesFacts
<1>3. H(s).pc = "none"
  BY DEF Requests
<1> QED BY <1>1, <1>2, <1>3 DEF Requests, Asking, Converting

\* A session sends its request; the spin lock of its instance was free.
LEMMA RequestsSent ==
    ASSUME TypeInv, Requests, NEW s \in Sess, NEW w \in Asking, Moves(s, w), LocalFree(s[1]),
           OnlyOf(s), H(s)'.pc = "sent", H(s)'.at = Master, H(s)'.ver = 0,
           H(s)'.mode = IF w = "reqS" THEN DRC_LOCK_SHARE ELSE DRC_LOCK_EXCLUSIVE
    PROVE  Requests'
<1>1. \A t \in Sess : t # s => H(t)' = H(t)
  BY DEF OnlyOf
<1>2. sess'[s] = w /\ \A t \in Sess : t # s => sess'[t] = sess[t]
  BY MovesFacts
<1>3. \A t \in Sess : t[1] = s[1] => sess[t] \notin Asking
  BY DEF LocalFree
<1> QED BY <1>1, <1>2, <1>3 DEF Requests, Asking, Converting

\* The request of a session is answered.
LEMMA RequestsDone ==
    ASSUME TypeInv, Requests, NEW s \in Sess, NEW w, Moves(s, w), w \notin Asking,
           OnlyOf(s), H(s)'.pc = "none"
    PROVE  Requests'
<1>1. \A t \in Sess : t # s => H(t)' = H(t)
  BY DEF OnlyOf
<1>2. sess'[s] = w /\ \A t \in Sess : t # s => sess'[t] = sess[t]
  BY MovesFacts
<1> QED BY <1>1, <1>2 DEF Requests

\* A request that is not at the entry begins or ends.
LEMMA QueueIdle ==
    ASSUME Queue, NEW s \in Sess, OnlyOf(s), res' = res,
           H(s).pc \notin Converting \union {"queued"},
           H(s)'.pc \notin Converting \union {"queued"}
    PROVE  Queue'
<1>1. \A t \in Sess : /\ t # s => Req(t)' = Req(t)
                      /\ H(t)'.pc \in Converting <=> H(t).pc \in Converting
                      /\ H(t)'.pc = "queued" <=> H(t).pc = "queued"
  BY DEF OnlyOf, Converting, Req
<1>2. \A t \in Sess : H(t).pc \in Converting \union {"queued"} => Req(t)' = Req(t)
  BY <1>1
<1> QED BY <1>1, <1>2 DEF Queue

\* A session moves without a request.
LEMMA SoundMove ==
    ASSUME TypeInv, Sound, NEW s \in Sess, NEW w, Moves(s, w), hnd' = hnd, res' = res,
           CalmVars, sess[s] \notin Asking, w \notin Asking, SameModes, Latches'
    PROVE  Sound'
<1>1. \A t \in Sess : H(t)' = H(t) /\ Req(t)' = Req(t)
  BY DEF H, Req
<1>2. Calm' /\ Requests'
  BY CalmKept, RequestsMove DEF Sound
<1>3. Queue'
  BY <1>1 DEF Sound, Queue
<1>4. Grants' /\ Turn'
  BY <1>1, TurnSame DEF Sound, SameGrants
<1> QED BY <1>2, <1>3, <1>4 DEF Sound

\* A session sends a request (LatchS, LatchX, Ix2x).
LEMMA SoundSend ==
    ASSUME TypeInv, Sound, NEW s \in Sess, NEW w \in Asking,
           NewRequest(s, IF w = "reqS" THEN DRC_LOCK_SHARE ELSE DRC_LOCK_EXCLUSIVE),
           sess' = [sess EXCEPT ![s] = w], LocalFree(s[1]),
           UNCHANGED <<res, loc, rsn, clusterVars>>,
           sess[s] \notin {"S", "X"},
           w = "reqIX" => sess[s] = "ix" /\ loc[s[1]].shared_count = 0,
           w # "reqIX" => loc[s[1]].stat = LATCH_STATUS_IDLE,
           w = "reqS" => loc[s[1]].lock_mode = DRC_LOCK_NULL
    PROVE  Sound'
<1> DEFINE m == IF w = "reqS" THEN DRC_LOCK_SHARE ELSE DRC_LOCK_EXCLUSIVE
<1>1. m \in ReqMode
  BY Modes
<1>2. CalmVars /\ SameModes /\ SameGrants /\ res' = res
  BY DEF CalmVars, SameModes, SameGrants, clusterVars
<1>3. /\ H(s).pc = "none" /\ OnlyOf(s)
      /\ H(s)'.pc = "sent" /\ H(s)'.mode = m /\ H(s)'.ver = 0 /\ H(s)'.at = Master
  BY <1>1, NewRequestEffect DEF Sound
<1> HIDE DEF m
<1>4. Moves(s, w)
  BY DEF Moves
<1>5. Calm'
  BY <1>2, <1>3, CalmKept DEF Sound
<1>6. Requests'
  BY <1>3, <1>4, RequestsSent DEF Sound, m
<1>7. Latches'
  BY <1>4, LatchesWait DEF Sound, Asking
<1>8. Queue'
  BY <1>2, <1>3, QueueIdle DEF Sound, Converting
<1>9. Grants' /\ Turn'
  BY <1>2, <1>3, TurnQuiet DEF Sound
<1> QED BY <1>5, <1>6, <1>7, <1>8, <1>9 DEF Sound

\* dls_latch_s and dls_latch_x are called.
LEMMA SoundCall ==
    ASSUME TypeInv, Sound, NEW s \in Sess, Call(s)
    PROVE  Sound'
<1>1. PICK w \in {"wantS", "wantX"} : sess' = [sess EXCEPT ![s] = w]
  BY DEF Call
<1>2. /\ sess[s] = "idle" /\ CalmVars /\ SameModes /\ hnd' = hnd /\ res' = res /\ loc' = loc
      /\ Moves(s, w)
  BY <1>1 DEF Call, CalmVars, SameModes, clusterVars, Moves
<1>3. w \notin Asking /\ sess[s] \notin Asking
  BY <1>2 DEF Asking
<1>4. Latches'
  BY <1>1, <1>2, LatchesWait DEF Sound
<1> QED BY <1>2, <1>3, <1>4, SoundMove

\* The latch is shared at once, or the shared mode is requested.
LEMMA SoundLatchS ==
    ASSUME TypeInv, Sound, NEW s \in Sess, LatchS(s)
    PROVE  Sound'
<1> DEFINE i == s[1]
<1>1. sess[s] = "wantS" /\ LocalFree(s[1]) /\ UNCHANGED <<res, rsn, clusterVars>>
  BY DEF LatchS
<1>2. CASE /\ loc[i].stat = LATCH_STATUS_IDLE /\ loc[i].lock_mode = DRC_LOCK_NULL
           /\ NewRequest(s, DRC_LOCK_SHARE)
           /\ sess' = [sess EXCEPT ![s] = "reqS"]
           /\ UNCHANGED loc
  <2>1. "reqS" \in Asking
    BY DEF Asking
  <2> QED BY <1>1, <1>2, <2>1, SoundSend
<1>3. CASE /\ \/ loc[i].stat = LATCH_STATUS_IDLE /\ loc[i].lock_mode # DRC_LOCK_NULL
              \/ loc[i].stat = LATCH_STATUS_S
           /\ loc' = [loc EXCEPT ![i].stat = LATCH_STATUS_S,
                                 ![i].shared_count =
                                     IF loc[i].stat = LATCH_STATUS_IDLE THEN 1 ELSE @ + 1,
                                 ![i].is_locked = TRUE]
           /\ sess' = [sess EXCEPT ![s] = "S"]
           /\ UNCHANGED hnd
  <2>0. i \in Inst /\ loc[i] \in LocalType /\ loc \in [Inst -> LocalType]
    BY SessInst DEF TypeInv
  <2>1. loc' # loc
    <3>1. loc'[i].stat = LATCH_STATUS_S
      BY <1>3, <2>0 DEF LocalType
    <3>2. loc'[i].shared_count = (IF loc[i].stat = LATCH_STATUS_IDLE THEN 1
                                  ELSE loc[i].shared_count + 1)
      BY <1>3, <2>0 DEF LocalType
    <3>3. LATCH_STATUS_S # LATCH_STATUS_IDLE /\ loc[i].shared_count \in Nat
      BY <2>0 DEF LATCH_STATUS_S, LATCH_STATUS_IDLE, LocalType
    <3> QED BY <3>1, <3>2, <3>3
  <2>2. PICK l \in LocalType :
              /\ loc' = [loc EXCEPT ![s[1]] = l]
              /\ l.lock_mode = loc[s[1]].lock_mode /\ l.stat = LATCH_STATUS_S
              /\ l.shared_count = (IF loc[s[1]].stat = LATCH_STATUS_IDLE THEN 1
                                   ELSE loc[s[1]].shared_count + 1)
    BY <2>0, <2>1, LatchSLocal
  <2>3. loc'[i] = l /\ \A j \in Inst : j # i => loc'[j] = loc[j]
    BY <2>0, <2>2, LocalsType
  <2>4. Moves(s, "S") /\ SameModes
    BY <1>3, <2>2, <2>3 DEF Moves, SameModes
  <2>5. loc[i].stat = LATCH_STATUS_S => loc[i].lock_mode # DRC_LOCK_NULL
    <3>1. LatchOK(i)
      BY <2>0 DEF Sound, Latches
    <3>2. (\A t \in Sess : t[1] = i => sess[t] # "S") => loc[i].shared_count = 0
      BY <2>0, <3>1, CountZero
    <3>3. loc[i].stat = LATCH_STATUS_S => loc[i].shared_count # 0
      BY <3>1 DEF LatchOK
    <3> QED BY <3>1, <3>2, <3>3 DEF LatchOK
  <2>6. CalmVars /\ sess[s] \notin Asking /\ "S" \notin Asking
    BY <1>1 DEF CalmVars, clusterVars, Asking
  <2>7. \A t \in Sess : t[1] = s[1] /\ t # s => sess[t] \notin Asking
    BY <1>1 DEF LocalFree
  <2>8. Latches'
    BY <1>1, <1>3, <2>2, <2>3, <2>4, <2>5, <2>7, LatchesShare DEF Sound
  <2> QED BY <1>1, <1>3, <2>4, <2>6, <2>8, SoundMove
<1> QED BY <1>2, <1>3 DEF LatchS

\* The latch is taken or announced at once, or the exclusive mode requested.
LEMMA SoundLatchX ==
    ASSUME TypeInv, Sound, NEW s \in Sess, LatchX(s)
    PROVE  Sound'
<1> DEFINE i == s[1]
<1> USE DEF LATCH_STATUS_IDLE, LATCH_STATUS_S, LATCH_STATUS_IX, LATCH_STATUS_X
<1>1. sess[s] = "wantX" /\ LocalFree(s[1]) /\ UNCHANGED <<res, rsn, clusterVars>>
  BY DEF LatchX
<1>2. CASE /\ loc[i].stat = LATCH_STATUS_IDLE /\ loc[i].lock_mode # DRC_LOCK_EXCLUSIVE
           /\ NewRequest(s, DRC_LOCK_EXCLUSIVE)
           /\ sess' = [sess EXCEPT ![s] = "reqX"]
           /\ UNCHANGED loc
  <2>1. "reqX" \in Asking
    BY DEF Asking
  <2> QED BY <1>1, <1>2, <2>1, SoundSend
<1>3. ASSUME NEW w \in {"X", "ix"}, sess' = [sess EXCEPT ![s] = w], UNCHANGED hnd,
             loc[i].stat = IF w = "X" THEN LATCH_STATUS_IDLE ELSE LATCH_STATUS_S,
             w = "X" => loc[i].lock_mode = DRC_LOCK_EXCLUSIVE, loc' # loc
      PROVE  Sound'
  <2>0. i \in Inst /\ loc[i] \in LocalType /\ loc \in [Inst -> LocalType]
    BY SessInst DEF TypeInv
  <2>2. PICK l \in LocalType :
              /\ loc' = [loc EXCEPT ![s[1]] = l]
              /\ l.lock_mode = loc[s[1]].lock_mode
              /\ l.shared_count = loc[s[1]].shared_count
              /\ l.stat = (IF loc[s[1]].stat = LATCH_STATUS_IDLE
                           THEN LATCH_STATUS_X ELSE LATCH_STATUS_IX)
    BY <1>3, <2>0, StatLocal
  <2>3. loc'[i] = l /\ \A j \in Inst : j # i => loc'[j] = loc[j]
    BY <2>0, <2>2, LocalsType
  <2>4. Moves(s, w) /\ SameModes
    BY <1>3, <2>2, <2>3 DEF Moves, SameModes
  <2>6. CalmVars /\ sess[s] \notin Asking /\ w \notin Asking /\ res' = res
    BY <1>1, <1>3 DEF CalmVars, clusterVars, Asking
  <2>7. \A t \in Sess : t[1] = s[1] /\ t # s => sess[t] \notin Asking
    BY <1>1 DEF LocalFree
  <2>8. Latches'
    BY <1>1, <1>3, <2>2, <2>3, <2>4, <2>7, LatchesWrite DEF Sound
  <2> QED BY <1>3, <2>4, <2>6, <2>8, SoundMove
<1>4. CASE /\ loc[i].stat = LATCH_STATUS_IDLE /\ loc[i].lock_mode = DRC_LOCK_EXCLUSIVE
           /\ loc' = [loc EXCEPT ![i].stat = LATCH_STATUS_X, ![i].is_locked = TRUE]
           /\ sess' = [sess EXCEPT ![s] = "X"]
           /\ UNCHANGED hnd
  <2>1. loc'[i].stat = LATCH_STATUS_X
    BY <1>4, SessInst DEF TypeInv, LocalType
  <2> QED BY <1>3, <1>4, <2>1
<1>5. CASE /\ loc[i].stat = LATCH_STATUS_S
           /\ loc' = [loc EXCEPT ![i].stat = LATCH_STATUS_IX]
           /\ sess' = [sess EXCEPT ![s] = "ix"]
           /\ UNCHANGED hnd
  <2>1. loc'[i].stat = LATCH_STATUS_IX
    BY <1>5, SessInst DEF TypeInv, LocalType
  <2> QED BY <1>3, <1>5, <2>1
<1> QED BY <1>2, <1>4, <1>5 DEF LatchX

\* The announced exclusive mode is requested.
LEMMA SoundIx2x ==
    ASSUME TypeInv, Sound, NEW s \in Sess, Ix2x(s)
    PROVE  Sound'
<1>1. "reqIX" \in Asking
  BY DEF Asking
<1> QED BY <1>1, SoundSend DEF Ix2x

\* A timed call gives up.
LEMMA SoundGiveUp ==
    ASSUME TypeInv, Sound, NEW s \in Sess, GiveUp(s)
    PROVE  Sound'
<1> DEFINE i == s[1]
<1>0. i \in Inst /\ loc[i] \in LocalType /\ loc \in [Inst -> LocalType]
  BY SessInst DEF TypeInv
<1>1. CalmVars /\ res' = res /\ hnd' = hnd
  BY DEF GiveUp, CalmVars, clusterVars
<1>2. ASSUME NEW w \in {"idle", "quit"}, sess' = [sess EXCEPT ![s] = w], UNCHANGED loc,
             sess[s] \in {"wantS", "wantX", "ix"}, w = "quit" => sess[s] = "ix"
      PROVE  Sound'
  <2>1. Moves(s, w) /\ SameModes /\ sess[s] \notin Asking /\ w \notin Asking
    BY <1>2 DEF Moves, SameModes, Asking
  <2>2. Latches'
    BY <1>2, <2>1, LatchesWait DEF Sound
  <2> QED BY <1>1, <2>1, <2>2, SoundMove
<1>3. CASE /\ sess[s] = "quit" /\ LocalFree(i)
           /\ loc' = [loc EXCEPT ![i].stat = IF loc[i].shared_count > 0
                                             THEN LATCH_STATUS_S ELSE LATCH_STATUS_IDLE]
           /\ sess' = [sess EXCEPT ![s] = "idle"]
  <2>1. /\ \A j \in Inst : j # i => loc'[j] = loc[j]
        /\ loc'[i].lock_mode = loc[i].lock_mode
        /\ loc'[i].shared_count = loc[i].shared_count
        /\ loc'[i].stat = IF loc[i].shared_count > 0 THEN LATCH_STATUS_S
                          ELSE LATCH_STATUS_IDLE
    BY <1>0, <1>3 DEF LocalType
  <2>2. Moves(s, "idle") /\ SameModes /\ sess[s] \notin Asking /\ "idle" \notin Asking
    BY <1>3, <2>1 DEF Moves, SameModes, Asking
  <2>3. \A t \in Sess : t[1] = s[1] => sess[t] \notin Asking
    BY <1>3 DEF LocalFree
  <2>4. Latches'
    BY <1>3, <2>1, <2>2, <2>3, LatchesLeave DEF Sound
  <2> QED BY <1>1, <2>2, <2>4, SoundMove
<1> QED BY <1>2, <1>3 DEF GiveUp

\* dls_unlatch.
LEMMA SoundUnlatch ==
    ASSUME TypeInv, Sound, NEW s \in Sess, Unlatch(s)
    PROVE  Sound'
<1> DEFINE i == s[1]
<1>0. i \in Inst /\ loc[i] \in LocalType /\ loc \in [Inst -> LocalType]
  BY SessInst DEF TypeInv
<1>1. /\ CalmVars /\ res' = res /\ hnd' = hnd /\ sess[s] \in {"S", "X"} /\ LocalFree(i)
      /\ sess' = [sess EXCEPT ![s] = "idle"]
  BY DEF Unlatch, CalmVars, clusterVars
<1>2. PICK l \in LocalType :
            /\ loc' = [loc EXCEPT ![s[1]] = l]
            /\ l.lock_mode = loc[s[1]].lock_mode
            /\ l.shared_count = (IF loc[s[1]].shared_count > 0
                                 THEN loc[s[1]].shared_count - 1 ELSE 0)
            /\ l.stat = (IF /\ loc[s[1]].stat \in {LATCH_STATUS_S, LATCH_STATUS_X}
                            /\ l.shared_count = 0
                         THEN LATCH_STATUS_IDLE ELSE loc[s[1]].stat)
  BY <1>0, UnlatchLocal
<1>3. loc'[i] = l /\ \A j \in Inst : j # i => loc'[j] = loc[j]
  BY <1>0, <1>2, LocalsType
<1>4. Moves(s, "idle") /\ SameModes /\ sess[s] \notin Asking /\ "idle" \notin Asking
  BY <1>1, <1>2, <1>3 DEF Moves, SameModes, Asking
<1>5. \A t \in Sess : t[1] = s[1] => sess[t] \notin Asking
  BY <1>1 DEF LocalFree
<1>6. /\ loc'[s[1]].lock_mode = loc[s[1]].lock_mode
      /\ loc'[s[1]].shared_count = (IF loc[s[1]].shared_count > 0
                                    THEN loc[s[1]].shared_count - 1 ELSE 0)
      /\ loc'[s[1]].stat = (IF /\ loc[s[1]].stat \in {LATCH_STATUS_S, LATCH_STATUS_X}
                               /\ loc'[s[1]].shared_count = 0
                            THEN LATCH_STATUS_IDLE ELSE loc[s[1]].stat)
  BY <1>2, <1>3, Zenon
<1>7. sess[s] # "quit" /\ sess[s] \in {"S", "X", "quit"} /\ Latches
  BY <1>1 DEF Sound
<1>8. Latches'
  BY <1>4, <1>5, <1>6, <1>7, LatchesLeave, Zenon
<1> QED BY <1>1, <1>4, <1>8, SoundMove

\* The answer arrives: the latch is taken or the call tries again.
LEMMA SoundAnswered ==
    ASSUME TypeInv, Sound, NEW s \in Sess, Answered(s)
    PROVE  Sound'
<1> DEFINE i == s[1]
<1>0. i \in Inst /\ loc[i] \in LocalType /\ loc \in [Inst -> LocalType]
  BY SessInst DEF TypeInv
<1>1. Calm /\ Requests /\ Latches /\ Queue /\ Grants /\ Turn
  BY DEF Sound
<1>2. /\ Answer(s) = H(s) /\ ~ Stop(i, 0) /\ H(s) \in HandlerType
  BY <1>0, <1>1, CalmFacts
<1>3. /\ sess[s] \in Asking /\ H(s).pc \in {"ok", "err"} /\ UNCHANGED <<res, rsn, clusterVars>>
      /\ hnd' = [hnd EXCEPT ![s][rsn[s]] = Idle]
  BY <1>1, <1>2 DEF Answered, Requests, Converting
<1>4. OnlyOf(s) /\ H(s)'.pc = "none" /\ CalmVars /\ res' = res /\ SameGrants
  BY <1>1, <1>3, AnsweredEffect DEF CalmVars, clusterVars, SameGrants
<1>5. /\ H(s).ver = 0 /\ H(s).mode = IF sess[s] = "reqS" THEN DRC_LOCK_SHARE
                                     ELSE DRC_LOCK_EXCLUSIVE
      /\ \A t \in Sess : t[1] = s[1] /\ t # s => sess[t] \notin Asking
  BY <1>1, <1>3 DEF Requests
<1>6. Calm' /\ Queue'
  BY <1>1, <1>3, <1>4, CalmKept, QueueIdle DEF Converting
<1>7. IF H(s).pc = "ok" THEN Granted(s) ELSE Refused(s)
  BY <1>2, <1>3, <1>5 DEF Answered, Succeeds
<1>8. CASE H(s).pc = "ok"
  <2>1. PICK l \in LocalType :
              /\ loc' = [loc EXCEPT ![s[1]] = l]
              /\ l.stat = (IF sess[s] = "reqS" THEN LATCH_STATUS_S ELSE LATCH_STATUS_X)
              /\ l.shared_count = (IF sess[s] = "reqS" THEN 1 ELSE loc[s[1]].shared_count)
              /\ l.lock_mode = (IF sess[s] = "reqS" THEN DRC_LOCK_SHARE
                                ELSE DRC_LOCK_EXCLUSIVE)
    BY <1>0, <1>7, <1>8, GrantedLocal
  <2>2. loc'[i] = l /\ \A j \in Inst : j # i => loc'[j] = loc[j]
    BY <1>0, <2>1, LocalsType
  <2>3. /\ Moves(s, IF sess[s] = "reqS" THEN "S" ELSE "X")
        /\ (IF sess[s] = "reqS" THEN "S" ELSE "X") \notin Asking
    BY <1>7, <1>8, <2>2 DEF Granted, Moves, Asking, TypeInv
  <2>4. Requests'
    BY <1>1, <1>4, <2>3, RequestsDone
  <2>5. /\ sess[s] \in {"reqS", "reqX"} => loc[i].stat = LATCH_STATUS_IDLE
    BY <1>0, <1>1 DEF Latches, LatchOK
  <2>6. Latches'
    <3>1. CASE sess[s] = "reqS"
      <4>1. loc'[i].lock_mode # DRC_LOCK_NULL
        BY <2>1, <2>2, <3>1, ModeFacts
      <4>2. Moves(s, "S")
        BY <2>3, <3>1
      <4> QED BY <1>1, <1>5, <2>1, <2>2, <4>2, <2>5, <3>1, <4>1, LatchesShare
    <3>2. CASE sess[s] # "reqS"
      <4>1. Moves(s, "X") /\ sess[s] \in {"reqX", "reqIX"}
        BY <1>3, <2>3, <3>2 DEF Asking
      <4>2. /\ sess[s] # "reqIX" => loc[s[1]].stat = LATCH_STATUS_IDLE
            /\ loc'[s[1]].stat = LATCH_STATUS_X /\ loc'[s[1]].lock_mode = DRC_LOCK_EXCLUSIVE
            /\ loc'[s[1]].shared_count = loc[s[1]].shared_count
        BY <2>1, <2>2, <2>5, <3>2, <4>1
      <4> QED BY <1>1, <1>5, <4>1, <4>2, LatchesWrite
    <3> QED BY <3>1, <3>2
  <2>7. Grants' /\ Turn'
    <3>1. loc'[s[1]].lock_mode = H(s).mode /\ H(s).mode \in ReqMode
      BY <1>5, <2>1, <2>2, Modes
    <3> QED BY <1>1, <1>4, <1>8, <2>2, <3>1, TurnGranted
  <2> QED BY <1>6, <2>4, <2>6, <2>7 DEF Sound
<1>9. CASE H(s).pc = "err"
  <2>1. PICK w \in {"wantS", "wantX", "ix", "idle"} :
              /\ sess' = [sess EXCEPT ![s] = w]
              /\ w = "ix" => sess[s] = "reqIX"
              /\ loc' = loc \/ loc' = [loc EXCEPT ![i].is_locked = FALSE]
    BY <1>3, <1>7, <1>9 DEF Refused, Asking, TypeInv
  <2>2. /\ \A j \in Inst : j # i => loc'[j] = loc[j]
        /\ loc'[i].lock_mode = loc[i].lock_mode
        /\ loc'[i].shared_count = loc[i].shared_count
        /\ loc'[i].stat = loc[i].stat
    BY <1>0, <2>1 DEF LocalType
  <2>3. Moves(s, w) /\ SameModes /\ w \notin Asking /\ sess[s] \notin {"S", "X"}
    BY <1>3, <2>1, <2>2 DEF Moves, SameModes, Asking
  <2>4. Requests'
    BY <1>1, <1>4, <2>3, RequestsDone
  <2>5. Latches'
    BY <1>1, <2>1, <2>2, <2>3, LatchesWait
  <2>6. Grants' /\ Turn'
    BY <1>1, <1>4, <1>9, <2>3, TurnQuiet
  <2> QED BY <1>6, <2>4, <2>5, <2>6 DEF Sound
<1> QED BY <1>3, <1>8, <1>9

-----------------------------------------------------------------------------
(***************************************************************************)
(* The steps of the master and of the owners keep the invariant.           *)
(***************************************************************************)
\* A request under way is request 0 of its session, and nothing fences it.
LEMMA UnderWay ==
    ASSUME TypeInv, Sound, NEW s \in Sess, NEW r \in Rsn, hnd[s][r].pc # "none"
    PROVE  /\ r = 0 /\ hnd[s][r] = H(s) /\ H(s).at = Master /\ H(s).ver = 0
           /\ ~ Stop(Master, 0) /\ H(s).mode \in ReqMode /\ s[1] \in Inst
<1>1. r = 0
  BY DEF Sound, Calm
<1>2. hnd[s][r] = H(s)
  BY <1>1 DEF H
<1>3. H(s).at = Master /\ H(s).ver = 0
  BY <1>2 DEF Sound, Requests
<1>4. ~ Stop(Master, 0) /\ H(s) \in HandlerType /\ s[1] \in Inst
  BY CalmFacts, MasterAssumption DEF Sound
<1> QED BY <1>1, <1>2, <1>3, <1>4 DEF HandlerType

\* Neither the local entries nor the sessions change.
LEMMA LatchesSame ==
    ASSUME Latches, sess' = sess, loc' = loc
    PROVE  Latches'
<1>1. \A i : Sharers(i)' = Sharers(i)
  BY DEF Sharers
<1> QED BY <1>1 DEF Latches, LatchOK

\* A step of the handler of s.
LEMMA SoundHandler ==
    ASSUME TypeInv, Sound, NEW s \in Sess, OnlyOf(s), SameRequest(s), H(s).pc # "none",
           H(s)'.pc \in {"sent", "queued", "ok", "err"} \union Converting,
           UNCHANGED <<sess, rsn, clusterVars>>, Latches', Queue', Grants', Turn'
    PROVE  Sound'
<1>1. CalmVars /\ sess' = sess
  BY DEF CalmVars, clusterVars
<1>2. Calm'
  BY <1>1, CalmKept DEF Sound
<1>3. Requests'
  BY <1>1, RequestsKept DEF Sound
<1> QED BY <1>2, <1>3 DEF Sound

\* Who requests the shared mode has no grant while nothing is converted.
LEMMA NewSharer ==
    ASSUME TypeInv, Sound, NEW s \in Sess, H(s).pc = "sent", H(s).mode = DRC_LOCK_SHARE,
           res.conv = NoReq
    PROVE  s[1] \notin res.granted
<1> SUFFICES ASSUME s[1] \in res.granted PROVE FALSE
  OBVIOUS
<1>1. sess[s] = "reqS" /\ sess[s] \in Asking
  BY ModeFacts DEF Sound, Requests, Asking
<1>2. loc[s[1]].lock_mode = DRC_LOCK_NULL
  BY <1>1, SessInst DEF Sound, Latches, LatchOK
<1>3. \A t \in Sess : t[1] = s[1] => H(t).pc # "ok"
  BY <1>1 DEF Sound, Requests
<1>4. \A t \in Sess : H(t).pc # "rel_ok"
  BY ReqFacts DEF Sound, Queue, Converting
<1> QED BY <1>2, <1>3, <1>4 DEF Sound, Grants

\* The request reaches the master: converted, queued or refused.
LEMMA SoundRequest ==
    ASSUME TypeInv, Sound, NEW s \in Sess, NEW r \in Rsn, drc_request_lock_owner(s, r)
    PROVE  Sound'
<1>1. /\ r = 0 /\ hnd[s][r] = H(s) /\ H(s).at = Master /\ H(s).ver = 0
      /\ ~ Stop(Master, 0) /\ H(s).mode \in ReqMode
  BY UnderWay DEF drc_request_lock_owner
<1>2. H(s).pc = "sent" /\ UNCHANGED <<loc, sess, rsn, clusterVars>> /\ H(s).pc # "none"
  BY <1>1 DEF drc_request_lock_owner
<1>3. Latches' /\ SameModes /\ UNCHANGED <<sess, rsn, clusterVars>>
  BY <1>2, LatchesSame DEF Sound, SameModes
<1>4. Calm /\ Queue /\ Grants /\ Turn /\ res \in LockResType
  BY DEF Sound, TypeInv
<1>5. [inst |-> s[1], mode |-> hnd[s][r].mode, from |-> <<s, r>>] = Req(s)
  BY <1>1 DEF Req
<1>6. CASE Reply(s, 0, "err") /\ UNCHANGED res
  <2>1. OnlyOf(s) /\ SameRequest(s) /\ H(s)'.pc = "err"
    BY <1>2, <1>4, <1>6, ReplyEffect DEF HndPc
  <2>2. Queue'
    BY <1>2, <1>4, <1>6, <2>1, QueueSame DEF Converting
  <2>3. Grants' /\ Turn'
    BY <1>2, <1>3, <1>4, <1>6, <2>1, TurnQuiet DEF SameGrants
  <2> QED BY <1>2, <1>3, <2>1, <2>2, <2>3, SoundHandler
<1>7. CASE res.conv = NoReq /\ res' = [res EXCEPT !.conv = Req(s)] /\ Convert(s, 0)
  <2>1. /\ OnlyOf(s) /\ SameRequest(s) /\ H(s)'.pc = "ask"
        /\ H(s)'.todo = OldOwners(res, s[1], H(s).mode)
    BY <1>2, <1>4, <1>7, ConvertEffect
  <2>2. SameGrants /\ res'.conv = Req(s) /\ res'.q = res.q
    BY <1>4, <1>7 DEF SameGrants, LockResType
  <2>3. Queue' /\ H(s)'.pc \in Converting
    BY <1>2, <1>4, <1>7, <2>1, <2>2, QueueEnter DEF Converting
  <2>4. Grants' /\ Turn'
    BY <1>1, <1>2, <1>3, <1>4, <1>7, <2>1, <2>2, NewSharer, TurnConvert
  <2> QED BY <1>2, <1>3, <2>1, <2>3, <2>4, SoundHandler
<1>8. CASE /\ res.conv # NoReq /\ s[1] \notin res.granted
           /\ res' = Enqueue(res, Req(s)) /\ hnd' = [hnd EXCEPT ![s][0].pc = "queued"]
  <2>1. /\ OnlyOf(s) /\ SameRequest(s) /\ H(s)'.pc = "queued"
    BY <1>2, <1>4, <1>8, PcEffect DEF HndPc
  <2>2. SameGrants /\ res'.conv = res.conv /\ res'.q = Append(res.q, Req(s))
    BY <1>4, <1>8 DEF SameGrants, LockResType, Enqueue
  <2>3. Req(s) \in Request
    BY <1>1, <1>2, RequestType DEF TypeInv, Req
  <2>4. Queue'
    BY <1>2, <1>4, <1>8, <2>1, <2>2, <2>3, QueueAppend
  <2>5. Grants' /\ Turn'
    BY <1>2, <1>3, <1>4, <1>8, <2>1, <2>2, TurnQuiet
  <2> QED BY <1>2, <1>3, <2>1, <2>4, <2>5, SoundHandler
<1> QED BY <1>1, <1>5, <1>6, <1>7, <1>8 DEF drc_request_lock_owner

\* The queued request is polled.
LEMMA SoundPoll ==
    ASSUME TypeInv, Sound, NEW s \in Sess, NEW r \in Rsn, Poll(s, r)
    PROVE  Sound'
<1>1. /\ r = 0 /\ hnd[s][r] = H(s) /\ H(s).at = Master /\ H(s).ver = 0
      /\ ~ Stop(Master, 0) /\ H(s).mode \in ReqMode
  BY UnderWay DEF Poll
<1>2. /\ H(s).pc = "queued" /\ UNCHANGED <<res, loc, sess, rsn, clusterVars>>
      /\ H(s).pc # "none" /\ res.conv.inst = s[1] /\ Convert(s, 0)
  BY <1>1 DEF Poll
<1>3. Latches' /\ SameModes /\ SameGrants /\ UNCHANGED <<sess, rsn, clusterVars>>
  BY <1>2, LatchesSame DEF Sound, SameModes, SameGrants
<1>4. Calm /\ Requests /\ Queue /\ Grants /\ Turn
  BY DEF Sound
<1>5. /\ OnlyOf(s) /\ SameRequest(s) /\ H(s)'.pc = "ask"
      /\ H(s)'.todo = OldOwners(res, s[1], H(s).mode)
  BY <1>2, <1>4, ConvertEffect
<1>6. Queue' /\ H(s)'.pc \in Converting
  BY <1>2, <1>4, <1>5, QueuePoll DEF Converting
<1>7. s[1] \notin res.granted
  BY <1>2, <1>4 DEF Turn, TurnOf
<1>8. Grants' /\ Turn'
  BY <1>1, <1>2, <1>3, <1>4, <1>5, <1>7, TurnConvert
<1> QED BY <1>2, <1>3, <1>5, <1>6, <1>8, SoundHandler

\* What Release does to the entry of the owner.
LEMMA ReleaseEffect ==
    ASSUME loc \in [Inst -> LocalType], NEW o \in Inst, NEW m, NEW v, Release(o, m, v)
    PROVE  /\ LocalFree(o) /\ Unlatched(o) /\ loc[o].lock_mode # DRC_LOCK_NULL
           /\ \A i \in Inst : i # o => loc'[i] = loc[i]
           /\ loc'[o].stat = loc[o].stat /\ loc'[o].shared_count = loc[o].shared_count
           /\ loc'[o].lock_mode = IF m = DRC_LOCK_EXCLUSIVE THEN DRC_LOCK_NULL
                                  ELSE DRC_LOCK_SHARE
BY DEF Release, LocalType

\* An owner releases the lock or refuses to.
LEMMA SoundRelease ==
    ASSUME TypeInv, Sound, NEW s \in Sess, NEW r \in Rsn, NEW o \in Inst,
           ReleaseOwnership(s, r, o)
    PROVE  Sound'
<1>1. r = 0 /\ hnd[s][r] = H(s) /\ H(s).mode \in ReqMode
  BY UnderWay DEF ReleaseOwnership
<1>2. /\ H(s).pc = "ask" /\ H(s).pc # "none" /\ o \in H(s).todo
      /\ UNCHANGED <<res, sess, rsn, clusterVars>>
  BY <1>1 DEF ReleaseOwnership
<1>3. Calm /\ Requests /\ Latches /\ Queue /\ Grants /\ Turn /\ loc \in [Inst -> LocalType]
  BY DEF Sound, TypeInv
<1>4. SameGrants /\ UNCHANGED <<sess, rsn, clusterVars>> /\ sess' = sess
  BY <1>2 DEF SameGrants
<1>5. H(s).todo \in SUBSET Inst
  BY <1>3, CalmFacts DEF HandlerType
<1>6. ASSUME NEW p \in {"rel_ok", "rel_err"},
             hnd' = [hnd EXCEPT ![s][0].pc = p, ![s][0].own = o]
      PROVE  /\ OnlyOf(s) /\ SameRequest(s) /\ H(s)'.pc = p /\ H(s)'.own = o
             /\ H(s)'.todo = H(s).todo /\ H(s)'.pc \in Converting /\ Queue'
  <2>1. p \in HndPc /\ o \in Inst \union {NoInst}
    BY <1>6 DEF HndPc
  <2>2. /\ OnlyOf(s) /\ SameRequest(s) /\ H(s)'.pc = p /\ H(s)'.own = o
        /\ H(s)'.todo = H(s).todo
    BY <1>2, <1>3, <1>6, <2>1, OwnEffect
  <2>3. H(s).pc \in Converting /\ H(s)'.pc \in Converting
    BY <1>2, <1>6, <2>2 DEF Converting
  <2> QED BY <1>2, <1>3, <2>2, <2>3, QueueSame
<1>7. CASE /\ Release(o, H(s).mode, H(s).ver)
           /\ hnd' = [hnd EXCEPT ![s][0].pc = "rel_ok", ![s][0].own = o]
  <2>1. /\ LocalFree(o) /\ Unlatched(o) /\ loc[o].lock_mode # DRC_LOCK_NULL
        /\ \A i \in Inst : i # o => loc'[i] = loc[i]
        /\ loc'[o].stat = loc[o].stat /\ loc'[o].shared_count = loc[o].shared_count
        /\ loc'[o].lock_mode = IF H(s).mode = DRC_LOCK_EXCLUSIVE THEN DRC_LOCK_NULL
                               ELSE DRC_LOCK_SHARE
    BY <1>3, <1>7, ReleaseEffect
  <2>2. Latches'
    BY <1>3, <1>4, <2>1, LatchesRelease
  <2>3. /\ OnlyOf(s) /\ SameRequest(s) /\ H(s)'.pc = "rel_ok" /\ H(s)'.own = o
        /\ H(s)'.todo = H(s).todo /\ H(s)'.pc \in Converting /\ Queue'
    BY <1>6, <1>7
  <2>4. Grants' /\ Turn'
    <3>1. \A i \in Inst : i # o => loc'[i].lock_mode = loc[i].lock_mode
      BY <2>1
    <3> QED BY <1>1, <1>2, <1>3, <1>4, <2>1, <2>3, <3>1, TurnRelease
  <2> QED BY <1>2, <1>4, <2>2, <2>3, <2>4, SoundHandler
<1>8. CASE /\ UNCHANGED loc
           /\ hnd' = [hnd EXCEPT ![s][0].pc = "rel_err", ![s][0].own = o]
  <2>1. Latches' /\ SameModes
    BY <1>3, <1>4, <1>8, LatchesSame DEF SameModes
  <2>2. /\ OnlyOf(s) /\ SameRequest(s) /\ H(s)'.pc = "rel_err" /\ H(s)'.own = o
        /\ H(s)'.todo = H(s).todo /\ H(s)'.pc \in Converting /\ Queue'
    BY <1>6, <1>8
  <2>3. Grants' /\ Turn'
    BY <1>2, <1>3, <1>4, <2>1, <2>2, TurnRefuse
  <2> QED BY <1>2, <1>4, <2>1, <2>2, <2>3, SoundHandler
<1> QED BY <1>1, <1>7, <1>8 DEF ReleaseOwnership, ReleaseRefused

\* The converting request ends: what drc_convert_lock_owner does to the queue.
LEMMA ConvertOwnerEffect ==
    ASSUME NEW R \in LockResType
    PROVE  /\ R.q = << >> => /\ drc_convert_lock_owner(R).conv = NoReq
                             /\ drc_convert_lock_owner(R).q = << >>
           /\ R.q # << >> => /\ drc_convert_lock_owner(R).conv = Head(R.q)
                             /\ drc_convert_lock_owner(R).q = Tail(R.q)
BY DEF drc_convert_lock_owner, LockResType

\* The owner's answer reaches the master.
LEMMA SoundOwnerAnswered ==
    ASSUME TypeInv, Sound, NEW s \in Sess, NEW r \in Rsn, OwnerAnswered(s, r)
    PROVE  Sound'
<1>1. /\ r = 0 /\ hnd[s][r] = H(s) /\ H(s).mode \in ReqMode /\ H(s).at = Master
      /\ H(s).ver = 0 /\ ~ Stop(Master, 0)
  BY UnderWay DEF OwnerAnswered
<1>2. /\ H(s).pc \in {"rel_ok", "rel_err"} /\ H(s).pc # "none" /\ H(s).pc \in Converting
      /\ UNCHANGED <<loc, sess, rsn, clusterVars>>
  BY <1>1 DEF OwnerAnswered, Converting
<1>3. Calm /\ Requests /\ Latches /\ Queue /\ Grants /\ Turn /\ res \in LockResType
  BY DEF Sound, TypeInv
<1>4. Latches' /\ SameModes /\ UNCHANGED <<sess, rsn, clusterVars>>
  BY <1>2, <1>3, LatchesSame DEF SameModes
<1>5. CASE H(s).pc = "rel_err"
  <2>1. res' = drc_cancel_lock_owner_request(res, s[1]) /\ Reply(s, 0, "err")
    BY <1>1, <1>5 DEF OwnerAnswered, NotReleased
  <2>2. res' = drc_convert_lock_owner(res)
    <3>1. res.conv.inst = s[1]
      BY <1>2, <1>3, ReqFacts DEF Queue
    <3> QED BY <2>1, <3>1 DEF drc_cancel_lock_owner_request
  <2>3. OnlyOf(s) /\ SameRequest(s) /\ H(s)'.pc = "err"
    BY <1>2, <1>3, <2>1, ReplyEffect DEF HndPc
  <2>4. SameGrants
    BY <1>3, <2>2, ConvertOwnerType DEF SameGrants
  <2>5. Queue'
    <3>1. /\ res.q = << >> => res'.conv = NoReq /\ res'.q = << >>
          /\ res.q # << >> => res'.conv = Head(res.q) /\ res'.q = Tail(res.q)
      BY <1>3, <2>2, ConvertOwnerEffect
    <3>2. H(s)'.pc \notin Converting \union {"queued"}
      BY <2>3 DEF Converting
    <3> QED BY <1>2, <1>3, <2>3, <3>1, <3>2, QueuePop
  <2>6. Grants' /\ Turn'
    BY <1>3, <1>4, <1>5, <2>3, <2>4, TurnQuiet
  <2> QED BY <1>2, <1>4, <2>3, <2>5, <2>6, SoundHandler
<1>6. CASE H(s).pc = "rel_ok"
  <2>1. /\ res' = IF H(s).mode = DRC_LOCK_EXCLUSIVE
                  THEN dls_clear_granted_map_for_inst(res, H(s).own) ELSE res
        /\ hnd' = [hnd EXCEPT ![s][0].pc = "ask", ![s][0].own = NoInst,
                              ![s][0].todo = @ \ {H(s).own}]
    BY <1>1, <1>6 DEF OwnerAnswered
  <2>2. /\ OnlyOf(s) /\ SameRequest(s) /\ H(s)'.pc = "ask"
        /\ H(s)'.todo = H(s).todo \ {H(s).own}
    <3>1. "ask" \in HndPc /\ NoInst \in Inst \union {NoInst}
      BY DEF HndPc
    <3> QED BY <1>2, <1>3, <2>1, <3>1, TodoEffect
  <2>3. /\ H(s).mode = DRC_LOCK_SHARE => SameGrants
        /\ H(s).mode = DRC_LOCK_EXCLUSIVE =>
              /\ res'.granted = res.granted \ {H(s).own}
              /\ res'.mode = IF res.granted \subseteq {H(s).own} THEN DRC_LOCK_NULL
                             ELSE res.mode
        /\ res'.conv = res.conv /\ res'.q = res.q
    BY <1>3, <2>1, ModeFacts DEF dls_clear_granted_map_for_inst, LockResType, SameGrants
  <2>4. H(s)'.pc \in Converting
    BY <2>2 DEF Converting
  <2>5. Queue'
    BY <1>2, <1>3, <2>2, <2>3, <2>4, QueueSame
  <2>6. Grants' /\ Turn'
    BY <1>1, <1>3, <1>4, <1>6, <2>2, <2>3, TurnReleased
  <2> QED BY <1>2, <1>4, <2>2, <2>4, <2>5, <2>6, SoundHandler
<1> QED BY <1>2, <1>5, <1>6

\* The request that was converted is claimed.
LEMMA SoundClaim ==
    ASSUME TypeInv, Sound, NEW s \in Sess, NEW r \in Rsn, Claim(s, r)
    PROVE  Sound'
<1>1. /\ r = 0 /\ hnd[s][r] = H(s) /\ H(s).mode \in ReqMode /\ H(s).at = Master
      /\ H(s).ver = 0 /\ ~ Stop(Master, 0) /\ s[1] \in Inst
  BY UnderWay DEF Claim
<1>2. /\ H(s).pc = "ask" /\ H(s).pc # "none" /\ H(s).pc \in Converting /\ H(s).todo = {}
      /\ UNCHANGED <<loc, sess, rsn, clusterVars>>
      /\ res' = drc_claim_lock_owner(res, s[1], H(s).mode) /\ Reply(s, 0, "ok")
  BY <1>1 DEF Claim, Converting
<1>3. Calm /\ Requests /\ Latches /\ Queue /\ Grants /\ Turn /\ res \in LockResType
  BY DEF Sound, TypeInv
<1>4. Latches' /\ SameModes /\ UNCHANGED <<sess, rsn, clusterVars>>
  BY <1>2, <1>3, LatchesSame DEF SameModes
<1>5. OnlyOf(s) /\ SameRequest(s) /\ H(s)'.pc = "ok"
  BY <1>2, <1>3, ReplyEffect DEF HndPc
<1>6. /\ res'.mode = H(s).mode
      /\ res'.granted = IF H(s).mode = DRC_LOCK_EXCLUSIVE THEN {s[1]}
                        ELSE res.granted \union {s[1]}
  BY <1>1, <1>2, <1>3, ClaimType, Modes
<1>7. Queue'
  <2> DEFINE N == [res EXCEPT !.granted = IF H(s).mode = DRC_LOCK_EXCLUSIVE THEN {s[1]}
                                          ELSE @ \union {s[1]}, !.mode = H(s).mode]
  <2>1. N \in LockResType /\ N.q = res.q
    BY <1>1, <1>3, Modes DEF LockResType
  <2>2. res' = drc_convert_lock_owner(N)
    BY <1>2 DEF drc_claim_lock_owner
  <2> HIDE DEF N
  <2>3. /\ res.q = << >> => res'.conv = NoReq /\ res'.q = << >>
        /\ res.q # << >> => res'.conv = Head(res.q) /\ res'.q = Tail(res.q)
    BY <2>1, <2>2, ConvertOwnerEffect
  <2>4. H(s)'.pc \notin Converting \union {"queued"}
    BY <1>5 DEF Converting
  <2> QED BY <1>2, <1>3, <1>5, <2>3, <2>4, QueuePop
<1>8. Grants' /\ Turn'
  BY <1>1, <1>2, <1>3, <1>4, <1>5, <1>6, TurnClaim
<1> QED BY <1>2, <1>4, <1>5, <1>7, <1>8, SoundHandler

-----------------------------------------------------------------------------
(***************************************************************************)
(* The invariant holds until an instance crashes.                          *)
(***************************************************************************)
\* Nothing is held and nothing is asked for at first.
LEMMA InitSound == Init => Sound
<1> SUFFICES ASSUME Init PROVE Sound
  OBVIOUS
<1>1. \A s \in Sess, r \in Rsn : hnd[s][r] = Idle
  BY DEF Init
<1>2. \A s \in Sess : H(s).pc = "none" /\ sess[s] = "idle" /\ s[1] \in Inst
  BY <1>1, RsnAssumption, SessInst DEF H, Idle, Init
<1>3. Calm
  BY <1>1 DEF Calm, Init, Idle
<1>4. Requests
  BY <1>2 DEF Requests, Asking
<1>5. Latches
  <2> SUFFICES ASSUME NEW i \in Inst PROVE LatchOK(i)
    BY DEF Latches
  <2>1. loc[i] = UnusedLocal
    BY DEF Init
  <2>2. Sharers(i) = {}
    BY <1>2 DEF Sharers
  <2>3. IsFiniteSet(Sharers(i)) /\ Cardinality(Sharers(i)) = 0
    BY <2>2, FS_EmptySet
  <2>4. \A s \in Sess : sess[s] = "idle"
    BY <1>2
  <2> QED BY <2>1, <2>3, <2>4
          DEF LatchOK, UnusedLocal, LATCH_STATUS_IDLE, LATCH_STATUS_S, Writer
<1>6. res = EmptyRes
  BY DEF Init
<1>7. Queue
  <2>1. res.conv = NoReq /\ res.q = << >> /\ Len(res.q) = 0
    BY <1>6 DEF EmptyRes
  <2>2. \A n \in 1 .. Len(res.q) : FALSE
    BY <2>1
  <2> QED BY <1>2, <2>1, <2>2 DEF Queue, Converting
<1>8. Grants
  <2>1. \A i \in Inst : loc[i].lock_mode = DRC_LOCK_NULL
    BY DEF Init, UnusedLocal
  <2> QED BY <1>2, <1>6, <2>1 DEF Grants, EmptyRes
<1>9. Turn
  BY <1>2 DEF Turn, TurnOf, Converting
<1> QED BY <1>3, <1>4, <1>5, <1>7, <1>8, <1>9 DEF Sound

\* Before a crash neither a wait fails nor a reform goes on.
LEMMA NoReform ==
    ASSUME TypeInv, Calm,
           \/ \E s \in Sess : WaitFails(s)
           \/ \E s \in Sess, r \in Rsn, o \in Inst : OwnerWaitFails(s, r, o)
           \/ \E m \in stray : Stray(m)
           \/ \E i \in Inst : Trigger(i) \/ Freeze(i) \/ Remaster(i) \/ Open(i)
           \/ AssignTask
    PROVE  FALSE
<1>1. ASSUME NEW s \in Sess, WaitFails(s) PROVE FALSE
  BY <1>1 DEF Calm, WaitFails, Broken
<1>2. ASSUME NEW s \in Sess, NEW r \in Rsn, NEW o \in Inst, OwnerWaitFails(s, r, o)
      PROVE  FALSE
  BY <1>2 DEF Calm, OwnerWaitFails, Broken
<1>3. ASSUME NEW m \in stray, Stray(m) PROVE FALSE
  BY <1>3 DEF Calm
<1>4. ASSUME NEW i \in Inst, Trigger(i) PROVE FALSE
  BY <1>4 DEF Calm, Trigger
<1>5. ASSUME NEW i \in Inst, Freeze(i) PROVE FALSE
  BY <1>5 DEF Calm, Freeze
<1>6. ASSUME NEW i \in Inst, Remaster(i) PROVE FALSE
  BY <1>6 DEF Calm, Remaster
<1>7. ASSUME NEW i \in Inst, Open(i) PROVE FALSE
  BY <1>7 DEF Calm, Open
<1>8. CASE AssignTask
  BY <1>8 DEF Calm, AssignTask
<1> QED BY <1>1, <1>2, <1>3, <1>4, <1>5, <1>6, <1>7, <1>8

\* Who is dead stays dead, and only a crash kills.
LEMMA DeadKept ==
    ASSUME Next, dead' = NoInst
    PROVE  dead = NoInst /\ \A i \in Inst : ~ Crash(i)
<1>1. \A i \in Inst : ~ Crash(i)
  BY NoInstAssumption DEF Crash
<1>2. ASSUME NEW s \in Sess, Call(s) \/ LatchS(s) \/ LatchX(s) \/ Ix2x(s) \/ Answered(s)
                               \/ WaitFails(s) \/ GiveUp(s) \/ Unlatch(s)
      PROVE  dead' = dead
  BY <1>2 DEF Call, LatchS, LatchX, Ix2x, Answered, WaitFails, GiveUp, Unlatch, clusterVars
<1>3. ASSUME NEW s \in Sess, NEW r \in Rsn,
             \/ drc_request_lock_owner(s, r) \/ Poll(s, r) \/ OwnerAnswered(s, r) \/ Claim(s, r)
             \/ \E o \in Inst : ReleaseOwnership(s, r, o) \/ OwnerWaitFails(s, r, o)
      PROVE  dead' = dead
  BY <1>3 DEF drc_request_lock_owner, Poll, OwnerAnswered, Claim, ReleaseOwnership,
              OwnerWaitFails, clusterVars
<1>4. ASSUME \/ \E m \in stray : Stray(m)
             \/ \E i \in Inst : Trigger(i) \/ Freeze(i) \/ Remaster(i) \/ Open(i)
             \/ AssignTask
      PROVE  dead' = dead
  BY <1>4 DEF Stray, Trigger, Freeze, Remaster, Open, AssignTask
<1> QED BY <1>1, <1>2, <1>3, <1>4 DEF Next

\* The inductive step.
LEMMA NextBeforeCrash == TypeInv /\ BeforeCrash /\ [Next]_vars => BeforeCrash'
<1> SUFFICES ASSUME TypeInv, BeforeCrash, [Next]_vars, dead' = NoInst PROVE Sound'
  BY DEF BeforeCrash
<1>1. CASE Next
  <2>1. dead = NoInst /\ \A i \in Inst : ~ Crash(i)
    BY <1>1, DeadKept
  <2>2. Sound /\ Calm
    BY <2>1 DEF BeforeCrash, Sound
  <2>3. ASSUME NEW s \in Sess, Call(s) \/ LatchS(s) \/ LatchX(s) \/ Ix2x(s) \/ Answered(s)
                                 \/ GiveUp(s) \/ Unlatch(s)
        PROVE  Sound'
    BY <2>2, <2>3, SoundCall, SoundLatchS, SoundLatchX, SoundIx2x, SoundAnswered, SoundGiveUp,
       SoundUnlatch
  <2>4. ASSUME NEW s \in Sess, NEW r \in Rsn,
               \/ drc_request_lock_owner(s, r) \/ Poll(s, r) \/ OwnerAnswered(s, r)
               \/ Claim(s, r) \/ \E o \in Inst : ReleaseOwnership(s, r, o)
        PROVE  Sound'
    BY <2>2, <2>4, SoundRequest, SoundPoll, SoundOwnerAnswered, SoundClaim, SoundRelease
  <2>5. ASSUME \/ \E s \in Sess : WaitFails(s)
               \/ \E s \in Sess, r \in Rsn, o \in Inst : OwnerWaitFails(s, r, o)
               \/ \E m \in stray : Stray(m)
               \/ \E i \in Inst : Trigger(i) \/ Freeze(i) \/ Remaster(i) \/ Open(i)
               \/ AssignTask
        PROVE  Sound'
    BY <2>2, <2>5, NoReform
  <2> QED BY <1>1, <2>1, <2>3, <2>4, <2>5 DEF Next
<1>2. CASE UNCHANGED vars
  <2>1. /\ sess' = sess /\ loc' = loc /\ hnd' = hnd /\ res' = res /\ CalmVars /\ dead = NoInst
    BY <1>2 DEF vars, CalmVars
  <2>2. Sound
    BY <2>1 DEF BeforeCrash
  <2>3. \A t \in Sess : H(t)' = H(t) /\ Req(t)' = Req(t)
    BY <2>1 DEF H, Req
  <2>4. Calm' /\ Latches'
    BY <2>1, <2>2, CalmKept, LatchesSame DEF Sound
  <2>5. Requests' /\ Queue'
    BY <2>1, <2>2, <2>3 DEF Sound, Requests, Queue
  <2>6. Grants' /\ Turn'
    BY <2>1, <2>2, <2>3, TurnSame DEF Sound, SameModes, SameGrants
  <2> QED BY <2>4, <2>5, <2>6 DEF Sound
<1> QED BY <1>1, <1>2

\* Until the first crash the entry of the master, the local entries, the
\* handlers and the sessions agree.
LEMMA AlwaysBeforeCrash == Spec => []BeforeCrash
<1>1. Init => BeforeCrash
  BY InitSound DEF BeforeCrash
<1>2. Spec => []TypeInv
  BY AlwaysTypeInv
<1> QED BY <1>1, <1>2, NextBeforeCrash, PTL DEF Spec

-----------------------------------------------------------------------------
(***************************************************************************)
(* What dls_latch_s, dls_latch_x and the lock functions of dtc_drc.c       *)
(* promise, for every set of instances and sessions.                       *)
(***************************************************************************)
\* A writer's instance is the only one with a grant, and its local entry
\* admits no other session.
LEMMA SoundExclusive == TypeInv /\ Sound => Exclusive
<1> SUFFICES ASSUME TypeInv, Sound, NEW s \in Sess, NEW t \in Sess, sess[s] = "X", s # t,
                    sess[t] \in {"S", "X"}
             PROVE  FALSE
  BY DEF Exclusive
<1> USE DEF LATCH_STATUS_S, LATCH_STATUS_IX, LATCH_STATUS_X
<1>1. LatchOK(s[1]) /\ LatchOK(t[1]) /\ s[1] \in Inst /\ t[1] \in Inst
  BY SessInst DEF Sound, Latches
<1>2. loc[s[1]].stat = LATCH_STATUS_X /\ loc[s[1]].lock_mode = DRC_LOCK_EXCLUSIVE
  BY <1>1 DEF LatchOK
<1>3. loc[t[1]].lock_mode # DRC_LOCK_NULL
  BY <1>1, ModeFacts DEF LatchOK
<1>4. res.granted = {s[1]} /\ t[1] \in res.granted
  BY <1>1, <1>2, <1>3, ModeFacts DEF Sound, Grants, Covers
<1>5. t[1] = s[1]
  BY <1>4
<1> QED BY <1>1, <1>2, <1>5 DEF LatchOK, Writer

\* The assertions of the lock functions follow from the invariant.
LEMMA SoundNoPanic == TypeInv /\ Sound => NoPanic
<1> SUFFICES ASSUME TypeInv, Sound PROVE NoPanic
  OBVIOUS
<1>1. res.conv = NoReq => res.q = << >>
  BY DEF Sound, Queue
<1>2. ASSUME NEW s \in Sess, NEW r \in Rsn, hnd[s][r].pc = "queued" PROVE res.conv # NoReq
  <2>1. H(s).pc = "queued"
    BY <1>2, UnderWay
  <2>2. res.conv = Req(s) \/ \E n \in 1 .. Len(res.q) : res.q[n] = Req(s)
    BY <2>1 DEF Sound, Queue
  <2>3. res.q = << >> => ~ \E n \in 1 .. Len(res.q) : TRUE
    BY EmptySeq
  <2> QED BY <1>1, <2>2, <2>3, ReqFacts
<1>3. ASSUME NEW s \in Sess, NEW r \in Rsn, hnd[s][r].pc = "ask"
      PROVE  ClaimFits(res, s[1], hnd[s][r].mode)
  <2>1. H(s).pc = "ask" /\ hnd[s][r] = H(s)
    BY <1>3, UnderWay
  <2>2. res.conv = Req(s)
    BY <2>1 DEF Sound, Queue, Converting
  <2>3. H(s).mode = DRC_LOCK_SHARE => s[1] \notin res.granted
    BY <2>1 DEF Sound, Turn, TurnOf, Converting
  <2> QED BY <2>1, <2>2, <2>3 DEF ClaimFits, Req
<1> QED BY <1>1, <1>2, <1>3 DEF NoPanic

\* Until an instance crashes, a session that holds the latch exclusively
\* (dls_latch_x) holds it alone: no other session of any instance shares it
\* or holds it exclusively, however the requests, releases and claims of all
\* instances interleave and whatever timed calls give up.
THEOREM MutualExclusion == Spec => [](dead = NoInst => Exclusive)
<1>1. TypeInv /\ BeforeCrash => (dead = NoInst => Exclusive)
  BY SoundExclusive DEF BeforeCrash
<1> QED BY <1>1, AlwaysTypeInv, AlwaysBeforeCrash, PTL

\* Until an instance crashes, the entry of the master (drc_master_res_t)
\* covers every mode that an instance keeps after its sessions gave the latch
\* back, so a conflicting request asks that instance first.
THEOREM MasterCovers == Spec => [](dead = NoInst => Covered)
<1>1. BeforeCrash => (dead = NoInst => Covered)
  BY DEF BeforeCrash, Sound, Grants, Covers, Covered, Alive
<1> QED BY <1>1, AlwaysBeforeCrash, PTL

\* Until an instance crashes, no knl_panic of the lock functions of dtc_drc.c
\* is reached: a queued request sees a converting one, and a claim is that of
\* the converting request.
THEOREM ClaimsFit == Spec => [](dead = NoInst => NoPanic)
<1>1. TypeInv /\ BeforeCrash => (dead = NoInst => NoPanic)
  BY SoundNoPanic DEF BeforeCrash
<1> QED BY <1>1, AlwaysTypeInv, AlwaysBeforeCrash, PTL
=============================================================================
