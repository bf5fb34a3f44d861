-------------------------------- MODULE Dls --------------------------------
(***************************************************************************)
(* The distributed latch of Cantian (dtc_dls.c): sessions of several       *)
(* instances share one latch.  An instance keeps the mode it was granted   *)
(* after its sessions gave the latch back, and serves its own sessions     *)
(* from it; the master of the lock asks it to release the mode when        *)
(* another instance needs a conflicting one.  One instance may crash; the  *)
(* reform then fences the requests of the old version, cleans the entry of *)
(* the lock or rebuilds it on a new master, and opens the lock again.      *)
(***************************************************************************)
EXTENDS LockRes, FiniteSets

CONSTANTS Master,   \* the instance that masters the lock at first
          Sess,     \* the sessions; s[1] is the instance of session s
          Timed,    \* the sessions that use the timed calls
          Mortal,   \* the instances that may crash; at most one does
          Rsn       \* the requests a session may have under way

ASSUME MasterAssumption == Master \in Inst
ASSUME SessAssumption == Sess \subseteq Inst \X Nat
ASSUME TimedAssumption == Timed \subseteq Sess
ASSUME MortalAssumption == Mortal \subseteq Inst
ASSUME RsnAssumption == Rsn \subseteq Nat /\ 0 \in Rsn

VARIABLES
    master,  \* the instance that the part maps name as the lock's master
    res,     \* drc_master_res_t on that instance
    loc,     \* per instance: drc_local_lock_res_t of the lock
    sess,    \* per session: where it is in its call
    rsn,     \* per session: the request whose answer it waits for
    hnd,     \* per session and request: the work of the master on it
    stray,   \* release messages whose sender no longer waits
    dead,    \* the instance that crashed, or NoInst
    ver,     \* per instance: g_rc_ctx->info.trigger_version
    phase,   \* per instance: progress of its reform
    target   \* the master that the reform chose

vars == <<master, res, loc, sess, rsn, hnd, stray, dead, ver, phase, target>>
clusterVars == <<master, stray, dead, ver, phase, target>>

\* LATCH_STATUS_*.
LATCH_STATUS_IDLE == "IDLE"
LATCH_STATUS_S == "S"
LATCH_STATUS_IX == "IX"
LATCH_STATUS_X == "X"

\* No request.  Otherwise: where the master's handler is (pc), mode and
\* version asked for, the owners still to be asked (todo), the owner that
\* has just answered (own) and the instance that handles it (at).
Idle == [pc |-> "none", mode |-> DRC_LOCK_NULL, ver |-> 0, todo |-> {}, own |-> NoInst,
         at |-> NoInst]
UnusedLocal == [lock_mode |-> DRC_LOCK_NULL, stat |-> LATCH_STATUS_IDLE,
                shared_count |-> 0, is_locked |-> FALSE]

Init ==
    /\ master = Master
    /\ res = EmptyRes
    /\ loc = [i \in Inst |-> UnusedLocal]
    /\ sess = [s \in Sess |-> "idle"]
    /\ rsn = [s \in Sess |-> 0]
    /\ hnd = [s \in Sess |-> [r \in Rsn |-> Idle]]
    /\ stray = {}
    /\ dead = NoInst
    /\ ver = [i \in Inst |-> 0]
    /\ phase = [i \in Inst |-> "run"]
    /\ target = NoInst

-----------------------------------------------------------------------------
(* Shared by the operations. *)

Alive == Inst \ {dead}
Asking == {"reqS", "reqX", "reqIX"}

\* The spin lock of the local entry (drc_lock_local_resx) is free: a session
\* keeps it during its whole request.
LocalFree(i) == \A s \in Sess : s[1] = i => sess[s] \notin Asking

\* DRC_STOP_DLS_REQ_FOR_REFORMING.
Stop(i, v) == phase[i] \notin {"run", "open"} \/ v < ver[i]

\* The answer of the request that the session waits for.
Answer(s) == hnd[s][rsn[s]]

\* mes_check_connect_ready fails, and with it every wait for an answer.
Broken(i) == dead # NoInst /\ i # dead

\* The session waits for an answer of another instance.
Remote(s) == sess[s] \in Asking /\ Answer(s).at # s[1]

-----------------------------------------------------------------------------
(* Sessions: dls_latch_s, dls_latch_x, their timed forms, dls_unlatch.     *)

\* A session calls for the latch.
Call(s) ==
    /\ sess[s] = "idle" /\ s[1] # dead
    /\ \E w \in {"wantS", "wantX"} : sess' = [sess EXCEPT ![s] = w]
    /\ UNCHANGED <<res, loc, rsn, hnd, clusterVars>>

\* A request is sent to the master, with the version of the reform that the
\* instance knows now; what is sent to a dead instance is lost.
NewRequest(s, m) ==
    /\ Answer(s).pc = "none"
    /\ hnd' = [hnd EXCEPT ![s][rsn[s]] =
                 [Idle EXCEPT !.pc = IF master = dead THEN "lost" ELSE "sent",
                              !.mode = m, !.ver = ver[s[1]], !.at = master]]

\* dls_latch_s: an idle latch is taken at once when the instance holds any
\* mode, and a shared one is joined; in any other state the session waits.
LatchS(s) ==
    LET i == s[1]
    IN  /\ sess[s] = "wantS" /\ i # dead /\ LocalFree(i)
        /\ \/ /\ loc[i].stat = LATCH_STATUS_IDLE /\ loc[i].lock_mode = DRC_LOCK_NULL
              /\ NewRequest(s, DRC_LOCK_SHARE)
              /\ sess' = [sess EXCEPT ![s] = "reqS"]
              /\ UNCHANGED loc
           \/ /\ \/ loc[i].stat = LATCH_STATUS_IDLE /\ loc[i].lock_mode # DRC_LOCK_NULL
                 \/ loc[i].stat = LATCH_STATUS_S
              /\ loc' = [loc EXCEPT ![i].stat = LATCH_STATUS_S,
                                    ![i].shared_count =
                                        IF loc[i].stat = LATCH_STATUS_IDLE THEN 1 ELSE @ + 1,
                                    ![i].is_locked = TRUE]
              /\ sess' = [sess EXCEPT ![s] = "S"]
              /\ UNCHANGED hnd
        /\ UNCHANGED <<res, rsn, clusterVars>>

\* dls_latch_x: an idle latch is taken at once when the instance holds the
\* exclusive mode; a shared one is announced (IX) and waited for.
LatchX(s) ==
    LET i == s[1]
    IN  /\ sess[s] = "wantX" /\ i # dead /\ LocalFree(i)
        /\ \/ /\ loc[i].stat = LATCH_STATUS_IDLE /\ loc[i].lock_mode # DRC_LOCK_EXCLUSIVE
              /\ NewRequest(s, DRC_LOCK_EXCLUSIVE)
              /\ sess' = [sess EXCEPT ![s] = "reqX"]
              /\ UNCHANGED loc
           \/ /\ loc[i].stat = LATCH_STATUS_IDLE /\ loc[i].lock_mode = DRC_LOCK_EXCLUSIVE
              /\ loc' = [loc EXCEPT ![i].stat = LATCH_STATUS_X, ![i].is_locked = TRUE]
              /\ sess' = [sess EXCEPT ![s] = "X"]
              /\ UNCHANGED hnd
           \/ /\ loc[i].stat = LATCH_STATUS_S
              /\ loc' = [loc EXCEPT ![i].stat = LATCH_STATUS_IX]
              /\ sess' = [sess EXCEPT ![s] = "ix"]
              /\ UNCHANGED hnd
        /\ UNCHANGED <<res, rsn, clusterVars>>

\* dls_latch_ix2x: the sharers are gone; the exclusive mode is requested
\* whatever mode the instance holds.
Ix2x(s) ==
    LET i == s[1]
    IN  /\ sess[s] = "ix" /\ i # dead /\ LocalFree(i)
        /\ loc[i].shared_count = 0
        /\ NewRequest(s, DRC_LOCK_EXCLUSIVE)
        /\ sess' = [sess EXCEPT ![s] = "reqIX"]
        /\ UNCHANGED <<res, loc, rsn, clusterVars>>

\* The request of the session succeeded: the mode is kept, the latch taken.
Granted(s) ==
    LET i == s[1]
    IN  /\ loc' = [loc EXCEPT ![i] =
                     IF sess[s] = "reqS"
                     THEN [@ EXCEPT !.lock_mode = DRC_LOCK_SHARE, !.stat = LATCH_STATUS_S,
                                    !.shared_count = 1, !.is_locked = TRUE]
                     ELSE [@ EXCEPT !.lock_mode = DRC_LOCK_EXCLUSIVE,
                                    !.stat = LATCH_STATUS_X, !.is_locked = TRUE]]
        /\ sess' = [sess EXCEPT ![s] = IF @ = "reqS" THEN "S" ELSE "X"]

\* Mutant: who failed to turn IX into X starts anew.
Bug_Refused(s) ==
    /\ sess' = [sess EXCEPT ![s] = IF @ = "reqS" THEN "wantS" ELSE "wantX"]
    /\ UNCHANGED loc

\* The request of the session failed.  It repeats the request, or gives the
\* local spin lock back and tries the latch again; a timed call may end
\* here, but not while it waits to turn IX into X.
Refused(s) ==
    LET i == s[1]
    IN  \/ /\ sess' = [sess EXCEPT ![s] = CASE @ = "reqS" -> "wantS"
                                          [] @ = "reqX" -> "wantX"
                                          [] @ = "reqIX" -> "ix"]
           /\ UNCHANGED loc
        \/ /\ s \in Timed /\ sess[s] # "reqIX"
           /\ sess' = [sess EXCEPT ![s] = "idle"]
           /\ loc' = [loc EXCEPT ![i].is_locked = FALSE]

\* dls_request_msg: the answer arrives.  An acknowledgement of an older
\* version, or one that arrives while the instance reforms, counts as an
\* error, but MES_CMD_ERROR_MSG as success; a request of the master's own
\* sessions returns without these checks (dls_request_lock).
Succeeds(s) == \/ Answer(s).pc = "error_msg"
               \/ Answer(s).pc = "ok" /\ ~(Remote(s) /\ Stop(s[1], Answer(s).ver))

Answered(s) ==
    /\ sess[s] \in Asking /\ s[1] # dead
    /\ Answer(s).pc \in {"ok", "err", "error_msg"}
    /\ hnd' = [hnd EXCEPT ![s][rsn[s]] = Idle]
    /\ IF Succeeds(s) THEN Granted(s) ELSE Refused(s)
    /\ UNCHANGED <<res, rsn, clusterVars>>

\* mes_recv_impl fails because a connection is broken.  The handler goes on;
\* its answer carries an rsn that nobody waits for any more and is dropped.
WaitFails(s) ==
    /\ Remote(s) /\ s[1] # dead /\ Broken(s[1])
    /\ Refused(s)
    /\ IF Answer(s).pc \in {"ok", "err", "error_msg", "lost"}
       THEN /\ hnd' = [hnd EXCEPT ![s][rsn[s]] = Idle]
            /\ UNCHANGED rsn
       ELSE /\ \E r \in Rsn : hnd[s][r].pc = "none" /\ rsn' = [rsn EXCEPT ![s] = r]
            /\ UNCHANGED hnd
    /\ UNCHANGED <<res, clusterVars>>

\* The timed calls give up while the latch is held by others here, and
\* dls_latch_timed_ix2x only while sharers are left; the announcement is
\* then withdrawn.
GiveUp(s) ==
    LET i == s[1]
    IN  /\ s \in Timed /\ i # dead
        /\ \/ /\ sess[s] \in {"wantS", "wantX"}
              /\ loc[i].stat \in {LATCH_STATUS_IX, LATCH_STATUS_X}
              /\ sess' = [sess EXCEPT ![s] = "idle"]
              /\ UNCHANGED loc
           \/ /\ sess[s] = "ix" /\ loc[i].shared_count > 0
              /\ sess' = [sess EXCEPT ![s] = "quit"]
              /\ UNCHANGED loc
           \/ /\ sess[s] = "quit" /\ LocalFree(i)
              /\ loc' = [loc EXCEPT ![i].stat = IF loc[i].shared_count > 0
                                                THEN LATCH_STATUS_S ELSE LATCH_STATUS_IDLE]
              /\ sess' = [sess EXCEPT ![s] = "idle"]
        /\ UNCHANGED <<res, rsn, hnd, clusterVars>>

\* Mutant: the exclusive latch is counted as a sharer.
Bug_Unlatch(s) ==
    LET i == s[1]
    IN  /\ sess[s] \in {"S", "X"} /\ i # dead /\ LocalFree(i)
        /\ loc' = [loc EXCEPT ![i].shared_count = @ - 1, ![i].is_locked = FALSE,
                              ![i].stat = IF loc[i].shared_count <= 1 THEN LATCH_STATUS_IDLE
                                          ELSE @]
        /\ sess' = [sess EXCEPT ![s] = "idle"]
        /\ UNCHANGED <<res, rsn, hnd, clusterVars>>

\* dls_unlatch: the instance keeps its mode.  is_locked is reset even when
\* other sharers are left.
Unlatch(s) ==
    LET i == s[1]
        count == IF loc[i].shared_count > 0 THEN loc[i].shared_count - 1 ELSE 0
    IN  /\ sess[s] \in {"S", "X"} /\ i # dead /\ LocalFree(i)
        /\ loc' = [loc EXCEPT ![i] =
                     [@ EXCEPT !.shared_count = count,
                               !.stat = IF /\ loc[i].stat \in {LATCH_STATUS_S, LATCH_STATUS_X}
                                           /\ count = 0
                                        THEN LATCH_STATUS_IDLE ELSE loc[i].stat,
                               !.is_locked = FALSE]]
        /\ sess' = [sess EXCEPT ![s] = "idle"]
        /\ UNCHANGED <<res, rsn, hnd, clusterVars>>

-----------------------------------------------------------------------------
(* The master: dls_process_ask_master_for_latch for a remote session,      *)
(* dls_request_lock for one of its own.                                    *)

\* The handler of request r of session s ends with the answer a.
Reply(s, r, a) ==
    hnd' = [hnd EXCEPT ![s][r] =
              IF r = rsn[s] /\ s[1] # dead
              THEN [@ EXCEPT !.pc = a, !.todo = {}, !.own = NoInst]
              ELSE Idle]

\* The request is converted now: who has to release the lock is settled.
Convert(s, r) ==
    hnd' = [hnd EXCEPT ![s][r].pc = "ask",
                       ![s][r].todo = OldOwners(res, s[1], hnd[s][r].mode)]

\* drc_request_lock_owner: converted at once, queued, or refused because the
\* instance is asked to release the lock itself.
drc_request_lock_owner(s, r) ==
    LET h == hnd[s][r]
        req == [inst |-> s[1], mode |-> h.mode, from |-> <<s, r>>]
    IN  /\ h.pc = "sent" /\ h.at # dead
        /\ \/ /\ Stop(h.at, h.ver) \/ (res.conv # NoReq /\ s[1] \in res.granted)
              /\ Reply(s, r, "err") /\ UNCHANGED res
           \/ /\ ~Stop(h.at, h.ver) /\ res.conv = NoReq
              /\ res' = [res EXCEPT !.conv = req] /\ Convert(s, r)
           \/ /\ ~Stop(h.at, h.ver) /\ res.conv # NoReq /\ s[1] \notin res.granted
              /\ res' = Enqueue(res, req) /\ hnd' = [hnd EXCEPT ![s][r].pc = "queued"]
        /\ UNCHANGED <<loc, sess, rsn, clusterVars>>

\* The queued request is polled: it goes on when a request of its instance
\* is the converting one.
Poll(s, r) ==
    LET h == hnd[s][r]
    IN  /\ h.pc = "queued" /\ h.at # dead
        /\ \/ Stop(h.at, h.ver) /\ Reply(s, r, "err")
           \/ ~Stop(h.at, h.ver) /\ res.conv.inst = s[1] /\ Convert(s, r)
        /\ UNCHANGED <<res, loc, sess, rsn, clusterVars>>

\* Mutant: the owner looks at is_locked alone.
Bug_Unlatched(o) == ~loc[o].is_locked

\* dls_process_release_ownership on the owner o: it waits until no session
\* of the instance uses the latch; a timed request may be refused.
Unlatched(o) ==
    /\ ~loc[o].is_locked
    /\ \/ loc[o].stat = LATCH_STATUS_IDLE
       \/ loc[o].stat = LATCH_STATUS_IX /\ loc[o].shared_count = 0

ReleaseRefused(o, v, timed) ==
    /\ \/ Stop(o, v)
       \/ LocalFree(o) /\ timed
       \/ LocalFree(o) /\ Unlatched(o) /\ loc[o].lock_mode = DRC_LOCK_NULL
    /\ UNCHANGED loc

Release(o, m, v) ==
    /\ ~Stop(o, v) /\ LocalFree(o) /\ Unlatched(o) /\ loc[o].lock_mode # DRC_LOCK_NULL
    /\ loc' = [loc EXCEPT ![o].lock_mode =
                 IF m = DRC_LOCK_EXCLUSIVE THEN DRC_LOCK_NULL ELSE DRC_LOCK_SHARE]

ReleaseOwnership(s, r, o) ==
    LET h == hnd[s][r]
    IN  /\ h.pc = "ask" /\ h.at # dead /\ o \in h.todo \ {dead}
        /\ \/ /\ Release(o, h.mode, h.ver)
              /\ hnd' = [hnd EXCEPT ![s][r].pc = "rel_ok", ![s][r].own = o]
           \/ /\ ReleaseRefused(o, h.ver, s \in Timed)
              /\ hnd' = [hnd EXCEPT ![s][r].pc = "rel_err", ![s][r].own = o]
        /\ UNCHANGED <<res, sess, rsn, clusterVars>>

\* The owner did not release: the request is cancelled, except by the
\* handler of a remote request that finds the instance reforming.
NotReleased(s, r) ==
    LET h == hnd[s][r]
    IN  /\ res' = IF h.at # s[1] /\ Stop(h.at, h.ver) THEN res
                  ELSE drc_cancel_lock_owner_request(res, s[1])
        /\ Reply(s, r, "err")

\* The answer of the owner: for an exclusive request its grant is cleared.
OwnerAnswered(s, r) ==
    LET h == hnd[s][r]
    IN  /\ h.pc \in {"rel_ok", "rel_err"} /\ h.at # dead
        /\ IF h.pc = "rel_err" \/ (h.own # h.at /\ Stop(h.at, h.ver))
           THEN NotReleased(s, r)
           ELSE /\ res' = IF h.mode = DRC_LOCK_EXCLUSIVE
                          THEN dls_clear_granted_map_for_inst(res, h.own) ELSE res
                /\ hnd' = [hnd EXCEPT ![s][r].pc = "ask", ![s][r].own = NoInst,
                                      ![s][r].todo = @ \ {h.own}]
        /\ UNCHANGED <<loc, sess, rsn, clusterVars>>

\* A release message that the owner still works on.
StrayRelease(s, h, o) == [own |-> o, mode |-> h.mode, ver |-> h.ver, timed |-> s \in Timed]

\* The master's wait for the owner o fails because a connection is broken;
\* the owner may still work on the message.
OwnerWaitFails(s, r, o) ==
    LET h == hnd[s][r]
    IN  /\ h.pc = "ask" /\ h.at # dead /\ o \in h.todo \ {h.at} /\ Broken(h.at)
        /\ NotReleased(s, r)
        /\ stray' = IF o = dead THEN stray ELSE stray \union {StrayRelease(s, h, o)}
        /\ UNCHANGED <<loc, sess, rsn, master, dead, ver, phase, target>>

\* dls_process_claim_ownership and the claim of dls_request_lock; only the
\* latter cancels the request when the claim is fenced.  A claim that does
\* not fit stops the instance (knl_panic, see NoPanic) and does nothing.
Claim(s, r) ==
    LET h == hnd[s][r]
    IN  /\ h.pc = "ask" /\ h.todo = {} /\ h.at # dead
        /\ IF Stop(h.at, h.ver)
           THEN /\ res' = IF h.at = s[1] THEN drc_cancel_lock_owner_request(res, s[1]) ELSE res
                /\ Reply(s, r, "err")
           ELSE /\ ClaimFits(res, s[1], h.mode)
                /\ res' = drc_claim_lock_owner(res, s[1], h.mode)
                /\ Reply(s, r, "ok")
        /\ UNCHANGED <<loc, sess, rsn, clusterVars>>

-----------------------------------------------------------------------------
(* Crash and reform.                                                       *)

\* A release message without sender is worked on.
Stray(m) ==
    /\ m \in stray /\ stray' = stray \ {m}
    /\ Release(m.own, m.mode, m.ver) \/ ReleaseRefused(m.own, m.ver, m.timed)
    /\ UNCHANGED <<master, res, sess, rsn, hnd, dead, ver, phase, target>>

\* The instance i stops.  Its sessions and handlers are gone; what it sent
\* before may still arrive.
AfterCrash(i, s, r) ==
    LET h == hnd[s][r]
        answered == h.pc \in {"ok", "err", "error_msg", "lost"}
    IN  CASE h.at = i /\ ~answered /\ s[1] # i /\ r = rsn[s] /\ h.pc # "none" ->
               [h EXCEPT !.pc = "lost", !.todo = {}, !.own = NoInst]
          [] IF s[1] = i THEN h.at = i \/ answered ELSE h.at = i /\ r # rsn[s] -> Idle
          [] OTHER -> h

\* The release messages under way, by request and owner, that i sent.
Releases(i) ==
    {k \in Sess \X Rsn \X (Inst \ {i}) :
        /\ hnd[k[1]][k[2]].at = i /\ hnd[k[1]][k[2]].pc = "ask"
        /\ k[3] \in hnd[k[1]][k[2]].todo}

Crash(i) ==
    /\ i \in Mortal /\ dead = NoInst /\ dead' = i
    /\ loc' = [loc EXCEPT ![i] = UnusedLocal]
    /\ sess' = [s \in Sess |-> IF s[1] = i THEN "idle" ELSE sess[s]]
    /\ hnd' = [s \in Sess |-> [r \in Rsn |-> AfterCrash(i, s, r)]]
    /\ res' = IF i = master THEN EmptyRes ELSE res
    /\ \E lost \in SUBSET {StrayRelease(k[1], hnd[k[1]][k[2]], k[3]) : k \in Releases(i)} :
          stray' = stray \union lost
    /\ UNCHANGED <<master, rsn, ver, phase, target>>

\* rc_detect_reform_triggered: the version of the reform is known.
Trigger(i) ==
    /\ dead # NoInst /\ i # dead /\ ver[i] = 0
    /\ ver' = [ver EXCEPT ![i] = 1]
    /\ UNCHANGED <<master, res, loc, sess, rsn, hnd, stray, dead, phase, target>>

\* rc_start_new_reform freezes the instance, drc_start_remaster closes its part map.
Freeze(i) ==
    /\ i # dead /\ ver[i] = 1 /\ phase[i] = "run"
    /\ phase' = [phase EXCEPT ![i] = "closed"]
    /\ UNCHANGED <<master, res, loc, sess, rsn, hnd, stray, dead, ver, target>>

\* drc_remaster_assign_task: once every survivor waits, the reformer gives
\* the lock of a dead master to one of them.
AssignTask ==
    /\ dead # NoInst /\ \A i \in Alive : phase[i] = "closed"
    /\ phase' = [i \in Inst |-> IF i = dead THEN phase[i] ELSE "assigned"]
    /\ IF dead = master THEN target' \in Alive ELSE target' = master
    /\ UNCHANGED <<master, res, loc, sess, rsn, hnd, stray, dead, ver>>

\* drc_clean_convert_q answers the queued requests of the survivors by
\* MES_CMD_ERROR_MSG; a session of the master itself waits for no message.
ErrorMsgs(i) ==
    [s \in Sess |-> [r \in Rsn |->
        IF /\ hnd[s][r].pc = "queued" /\ s[1] \notin {i, dead} /\ r = rsn[s]
           /\ \E n \in DOMAIN res.q : res.q[n].from = <<s, r>>
        THEN [hnd[s][r] EXCEPT !.pc = "error_msg"] ELSE hnd[s][r]]]

\* drc_remaster_step_migrate and drc_remaster_step_recover on instance i:
\* the master that lives cleans the entry; under a dead master the new one
\* recovers its own mode and the others report theirs to it.
Remaster(i) ==
    /\ phase[i] = "assigned"
    /\ phase' = [phase EXCEPT ![i] = "publish"]
    /\ CASE i = master -> res' = drc_clean_lock_owner(res, dead) /\ hnd' = ErrorMsgs(i)
         [] dead = master /\ i = target ->
                res' = drc_recovery_lockinfo(res, i, loc[i].lock_mode) /\ UNCHANGED hnd
         [] dead = master /\ i # target ->
                /\ res' = IF loc[i].lock_mode = DRC_LOCK_NULL THEN res
                          ELSE drc_rcy_lock_res_info(res, i, loc[i].lock_mode)
                /\ UNCHANGED hnd
         [] OTHER -> UNCHANGED <<res, hnd>>
    /\ UNCHANGED <<master, loc, sess, rsn, stray, dead, ver, target>>

\* The reform takes longer than a handler that is not waiting, and than one
\* round of the loops that notice it (mes_recv_impl, the poll of the queue,
\* dls_process_release_ownership: 5 ms or less): what was under way on the
\* instance has ended.
Settled(i) ==
    /\ \A s \in Sess : s[1] = i => ~Remote(s)
    /\ \A s \in Sess, r \in Rsn :
          hnd[s][r].at = i => hnd[s][r].pc \notin {"queued", "ask", "rel_ok", "rel_err"}
    /\ \A m \in stray : m.own # i

\* drc_remaster_step_publish: once every survivor is done the part map names
\* the new master; the instance then opens (REMASTER_DONE, RECOVER_DONE).
Open(i) ==
    /\ phase[i] = "publish" /\ Settled(i)
    /\ \A j \in Alive : phase[j] \in {"publish", "open"}
    /\ phase' = [phase EXCEPT ![i] = "open"]
    /\ master' = target
    /\ UNCHANGED <<res, loc, sess, rsn, hnd, stray, dead, ver, target>>

-----------------------------------------------------------------------------
Next ==
    \/ \E s \in Sess :
          \/ Call(s) \/ LatchS(s) \/ LatchX(s) \/ Ix2x(s) \/ Answered(s)
          \/ WaitFails(s) \/ GiveUp(s) \/ Unlatch(s)
    \/ \E s \in Sess, r \in Rsn :
          \/ drc_request_lock_owner(s, r) \/ Poll(s, r) \/ OwnerAnswered(s, r) \/ Claim(s, r)
          \/ \E o \in Inst : ReleaseOwnership(s, r, o) \/ OwnerWaitFails(s, r, o)
    \/ \E m \in stray : Stray(m)
    \/ \E i \in Inst : Crash(i) \/ Trigger(i) \/ Freeze(i) \/ Remaster(i) \/ Open(i)
    \/ AssignTask

Spec == Init /\ [][Next]_vars

\* What a session does once it has called for the latch, and what the master
\* and the owners do for its request.
SessionStep(s) == LatchS(s) \/ LatchX(s) \/ Ix2x(s) \/ Answered(s) \/ Unlatch(s)
HandlerStep(s) ==
    \E r \in Rsn : \/ drc_request_lock_owner(s, r) \/ Poll(s, r) \/ OwnerAnswered(s, r)
                   \/ Claim(s, r) \/ \E o \in Inst : ReleaseOwnership(s, r, o)

\* Every thread goes on, a session gives the latch back, and one that tries
\* for a spin lock again and again gets it at last.
Fairness == \A s \in Sess : SF_vars(SessionStep(s)) /\ SF_vars(HandlerStep(s))

FairSpec == Spec /\ Fairness

-----------------------------------------------------------------------------
(* Properties. *)

SessPc == {"idle", "wantS", "wantX", "reqS", "reqX", "ix", "reqIX", "quit", "S", "X"}
HndPc == {"none", "sent", "queued", "ask", "rel_ok", "rel_err", "ok", "err", "error_msg",
          "lost"}
Request == [inst : Inst, mode : ReqMode, from : Sess \X Rsn]

\* The variables have their types.
TypeOK ==
    /\ master \in Inst
    /\ res \in [mode : LockMode, granted : SUBSET Inst, conv : Request \union {NoReq},
                q : Seq(Request)]
    /\ loc \in [Inst -> [lock_mode : LockMode, stat : {"IDLE", "S", "IX", "X"},
                         shared_count : Nat, is_locked : BOOLEAN]]
    /\ sess \in [Sess -> SessPc]
    /\ rsn \in [Sess -> Rsn]
    /\ hnd \in [Sess -> [Rsn -> [pc : HndPc, mode : LockMode, ver : {0, 1},
                                 todo : SUBSET Inst, own : Inst \union {NoInst},
                                 at : Inst \union {NoInst}]]]
    /\ stray \subseteq [own : Inst, mode : ReqMode, ver : {0, 1}, timed : BOOLEAN]
    /\ dead \in Inst \union {NoInst}
    /\ ver \in [Inst -> {0, 1}]
    /\ phase \in [Inst -> {"run", "closed", "assigned", "publish", "open"}]
    /\ target \in Inst \union {NoInst}

\* Who holds the latch exclusively holds it alone in the whole cluster
\* (dls_latch_x): neither a sharer nor a second writer on any instance.
Exclusive ==
    \A s, t \in Sess : sess[s] = "X" /\ s # t => sess[t] \notin {"S", "X"}

\* No reform is under way: nobody died, or every survivor is open again.
Steady == dead = NoInst \/ \A i \in Alive : phase[i] = "open"

\* The entry of the master (drc_master_res_t) covers every mode that an
\* instance keeps in its drc_local_lock_res_t, so that a conflicting request
\* asks that instance first (drc_request_lock_owner); during a reform nothing
\* is promised.
Covered ==
    Steady => \A i \in Alive : loc[i].lock_mode # DRC_LOCK_NULL =>
                 /\ i \in res.granted /\ loc[i].lock_mode <= res.mode
                 /\ loc[i].lock_mode = DRC_LOCK_EXCLUSIVE => res.granted = {i}

\* No knl_panic of the lock functions of dtc_drc.c: nothing is queued while
\* nothing is converted, a queued request always sees a converting one, and
\* a claim is always that of the converting request of an instance that does
\* not hold the shared mode yet.
NoPanic ==
    /\ res.conv = NoReq => res.q = << >>
    /\ \A s \in Sess, r \in Rsn :
          LET h == hnd[s][r]
          IN  (h.at \in Alive /\ ~Stop(h.at, h.ver)) =>
                /\ h.pc = "queued" => res.conv # NoReq
                /\ h.pc = "ask" /\ h.todo = {} => ClaimFits(res, s[1], h.mode)

\* The session waits in dls_latch_s or dls_latch_x.
Waiting(s) == sess[s] \in {"wantS", "wantX", "reqS", "reqX", "ix", "reqIX"}

\* As long as sessions wait for the latch, one of them gets it: the requests
\* of several instances, each of which may hold what another one asks for,
\* never wait for each other in a circle nor refuse each other for ever
\* ("return error to avoid deadlock", drc_request_lock_owner).  A single
\* session may starve, because a refused request goes to the end of the queue.
LatchTaken == (\E s \in Sess : Waiting(s)) ~> (\E s \in Sess : sess[s] \in {"S", "X"})

\* No instance is occupied for ever by sessions that hold the latch in turn:
\* dls_process_release_ownership waits until all of them gave it back.
Vacated == \A i \in Inst : []<>(\A s \in Sess : s[1] = i => sess[s] \notin {"S", "X"})

\* A queued request is not refused any more: its session gets the latch,
\* however many requests of other instances are converted before it
\* (drc_request_lock_owner polls until its own is the converting one).
QueuedGranted ==
    Vacated => \A s \in Sess \ Timed :
                 (sess[s] \in Asking /\ Answer(s).pc = "queued") ~> sess[s] \in {"S", "X"}

\* Who announced an exclusive latch (IX) gets it, however often its requests
\* are refused: no sharer may pass it on its own instance (dls_latch_ix2x).
UpgradeGranted == Vacated => \A s \in Sess \ Timed : sess[s] = "ix" ~> sess[s] = "X"
=============================================================================
