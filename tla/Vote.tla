-------------------------------- MODULE Vote --------------------------------
(***************************************************************************)
(* The split-brain arbitration of CMS (cms_vote.c).  Nodes that miss the   *)
(* heartbeats of another one start a round of voting through the voting    *)
(* disk; the CMS master counts the votes, has the nodes outside the new    *)
(* cluster fenced, takes their resources offline and ends the round; the   *)
(* nodes outside stop themselves.  A node may crash at any step and        *)
(* another one becomes master.                                             *)
(***************************************************************************)
EXTENDS VoteCount

CONSTANTS Mortal,      \* the nodes that may crash
          Booting,     \* the nodes whose database need not have joined yet
          Cuts,        \* <<n, m>>: n may lose the heartbeats of m though it runs
          Clock,       \* per node: what its clock may read when it votes
          Period,      \* CMS_VOTE_VALID_PERIOD
          MaxRound,    \* bound: rounds of voting
          MaxFails,    \* bound: failed reads and writes of a master
          MaxStarts    \* bound: restarts of nodes

ASSUME MortalAssumption == Mortal \subseteq Node
ASSUME BootingAssumption == Booting \subseteq Node
ASSUME CutsAssumption == Cuts \subseteq Node \X Node
ASSUME ClockAssumption == Clock \in [Node -> (SUBSET (Nat \ {0})) \ {{}}] /\ Period \in Nat
ASSUME BoundsAssumption == MaxRound \in Nat /\ MaxFails \in Nat /\ MaxStarts \in Nat

NoNode == -1

VARIABLES
    up,       \* per node: its CMS server runs
    lost,     \* per node: the nodes with too many heartbeats lost
    db,       \* per node: status of its database in the cluster status
    master,   \* the node that has, or had when it stopped, the master lock
    disk,     \* vote_result on the voting disk
    trigger,  \* per node: CMS_VOTE_TRIGGER_ROUND on the voting disk
    vote,     \* per node: CMS_VOTE_INFO on the voting disk
    round,    \* per node: g_vote_ctx->vote_data.vote_round
    result,   \* per node: g_vote_ctx->vote_result
    event,    \* per node: voting_sync
    pc,       \* per node: where its voting thread is
    seen,     \* the next vote that the master that counts reads
    begin,    \* new_round_start_time of the master that counts
    rows,     \* all_nodes_vote_msg of the master that counts
    kicked,   \* per node: the last round in which its database was fenced
    carrier,  \* the node that carried out the last result (history)
    fails,    \* failures so far
    starts    \* restarts so far

voterVars == <<up, lost, round, result, event>>
diskVars == <<disk, trigger, vote>>
countVars == <<seen, begin, rows>>
fenceVars == <<kicked, carrier>>
boundVars == <<fails, starts>>
vars == <<voterVars, db, master, diskVars, pc, countVars, fenceVars, boundVars>>

\* cms_init_vote_result: new_cluster_bitmap has all bits set.
InitialResult == [round |-> 0, map |-> Node, done |-> FALSE, stat |-> "PREPARE"]
NoVote == [round |-> 0, time |-> 0, good |-> {}]
NoRows == [n \in Node |-> {}]

Init ==
    /\ up = [n \in Node |-> TRUE]
    /\ lost = [n \in Node |-> {}]
    /\ db \in [Node -> {"offline", "online", "joined"}]
    /\ \A n \in Node \ Booting : db[n] = "joined"
    /\ master \in Node
    /\ disk = InitialResult
    /\ trigger = [n \in Node |-> 0]
    /\ vote = [n \in Node |-> NoVote]
    /\ round = [n \in Node |-> 0]
    /\ result = [n \in Node |-> InitialResult]
    /\ event = [n \in Node |-> FALSE]
    /\ pc = [n \in Node |-> "idle"]
    /\ seen = 0 /\ begin = 0 /\ rows = NoRows
    /\ kicked = [n \in Node |-> 0]
    /\ carrier = NoNode
    /\ fails = 0
    /\ starts = 0

-----------------------------------------------------------------------------
(* Heartbeats, crashes and the master lock. *)

\* cms_hb_lost_handle: more than cms_node_fault_thr heartbeats of m are lost
\* because it does not run or the connection is broken; the counter is reset
\* by the next one received.
Heartbeat(n, m) ==
    /\ up[n] /\ n # m
    /\ \/ /\ ~up[m] \/ <<n, m>> \in Cuts
          /\ m \notin lost[n] /\ lost' = [lost EXCEPT ![n] = @ \union {m}]
       \/ /\ up[m] /\ m \in lost[n] /\ lost' = [lost EXCEPT ![n] = @ \ {m}]
    /\ UNCHANGED <<up, db, master, diskVars, round, result, event, pc, countVars,
                   fenceVars, boundVars>>

\* cms_trigger_voting.
Notify(n) == /\ result[n].stat # "FROZEN" /\ ~event[n]
             /\ event' = [event EXCEPT ![n] = TRUE]

\* cms_hb_lost_handle: a node of the cluster is lost.
HbLost(n) ==
    /\ up[n] /\ round[n] < MaxRound
    /\ lost[n] \intersect result[n].map # {}
    /\ Notify(n)
    /\ UNCHANGED <<up, lost, db, master, diskVars, round, result, pc, countVars, fenceVars,
                   boundVars>>

\* The process of n ends; it drops the master lock, but who had it last is
\* still recorded.
Stops(n) == /\ up' = [up EXCEPT ![n] = FALSE]
            /\ lost' = [lost EXCEPT ![n] = {}]
            /\ event' = [event EXCEPT ![n] = FALSE]
            /\ pc' = [pc EXCEPT ![n] = "idle"]
            /\ round' = [round EXCEPT ![n] = 0]

Crash(n) ==
    /\ up[n] /\ n \in Mortal
    /\ Stops(n)
    /\ result' = [result EXCEPT ![n] = InitialResult]
    /\ UNCHANGED <<db, master, diskVars, countVars, fenceVars, boundVars>>

\* cms_try_be_master: the lock is free.
BeMaster(n) ==
    /\ up[n] /\ (master = NoNode \/ (master # NoNode /\ ~up[master]))
    /\ master' = n
    /\ UNCHANGED <<db, diskVars, pc, countVars, fenceVars, voterVars, boundVars>>

\* cms_init_vote_info and the start of cms_server_loop.  When the disk
\* heartbeats of all others are old (cms_is_all_restart) the voting disk is
\* initialised; those of a node that stopped a moment ago are not.  Otherwise
\* the node waits until no arbitration goes on and takes over the round.  Then
\* it starts a voting.
Start(n) ==
    /\ ~up[n] /\ starts < MaxStarts /\ starts' = starts + 1
    /\ up' = [up EXCEPT ![n] = TRUE]
    /\ event' = [event EXCEPT ![n] = TRUE]
    /\ \/ /\ \A m \in Node : ~up[m]
          /\ master' = n
          /\ disk' = InitialResult
          /\ trigger' = [m \in Node |-> 0]
          /\ vote' = [m \in Node |-> NoVote]
          /\ kicked' = [m \in Node |-> 0]
          /\ carrier' = NoNode
          /\ result' = [result EXCEPT ![n] = InitialResult]
          /\ UNCHANGED round
       \/ /\ disk.stat \in {"PREPARE", "DONE"} /\ disk.round < MaxRound
          /\ master' = IF master = n THEN NoNode ELSE master
          /\ result' = [result EXCEPT ![n] = disk]
          /\ round' = [round EXCEPT ![n] = disk.round]
          /\ UNCHANGED <<diskVars, fenceVars>>
    /\ UNCHANGED <<lost, db, pc, countVars, fails>>

-----------------------------------------------------------------------------
(* cms_detect_voting_entry. *)

Goto(n, p) == pc' = [pc EXCEPT ![n] = p]

\* The last round failed.
DetectErr(n) ==
    /\ up[n] /\ result[n].stat = "ERR" /\ Notify(n)
    /\ UNCHANGED <<up, lost, db, master, diskVars, round, result, pc, countVars, fenceVars,
                   boundVars>>

\* Mutant: a node that missed a round waits for its own round.
Bug_DetectNewRound(n) ==
    LET ahead == {m \in Node \ {n} : trigger[m] > round[n]}
    IN  /\ up[n] /\ result[n].stat # "FROZEN" /\ ahead # {}
        /\ trigger[Min(ahead)] = round[n] + 1 /\ Notify(n)
        /\ UNCHANGED <<up, round, result, pc, lost>>
        /\ UNCHANGED <<db, master, diskVars, countVars, fenceVars, boundVars>>

\* detect_new_vote_round: the first node found in a later round decides.  The
\* node joins the next round, and stops when it has missed one.
DetectNewRound(n) ==
    LET ahead == {m \in Node \ {n} : trigger[m] > round[n]}
    IN  /\ up[n] /\ result[n].stat # "FROZEN" /\ ahead # {}
        /\ \/ /\ trigger[Min(ahead)] = round[n] + 1
              /\ Notify(n)
              /\ UNCHANGED <<up, round, result, pc, lost>>
           \/ /\ trigger[Min(ahead)] > round[n] + 1
              /\ Stops(n)
              /\ result' = [result EXCEPT ![n] = InitialResult]
        /\ UNCHANGED <<db, master, diskVars, countVars, fenceVars, boundVars>>

-----------------------------------------------------------------------------
(* cms_voting_entry, the voting thread. *)

\* cms_is_master is known: CMS_RETRY_IF_ERR waits for that.
MasterKnown == master # NoNode

\* The thread wakes up.
Wake(n) ==
    /\ up[n] /\ pc[n] = "idle" /\ event[n] /\ round[n] < MaxRound
    /\ event' = [event EXCEPT ![n] = FALSE]
    /\ Goto(n, "woken")
    /\ UNCHANGED <<up, lost, db, master, diskVars, round, result, countVars, fenceVars,
                   boundVars>>

\* Mutant: the round after the newest one that was triggered.
Bug_StartVoting(n) ==
    LET next == Max({trigger[m] : m \in Node} \union {round[n]}) + 1
    IN  /\ up[n] /\ pc[n] = "woken"
        /\ round' = [round EXCEPT ![n] = next]
        /\ result' = [result EXCEPT ![n].stat = "FROZEN", ![n].round = next, ![n].done = FALSE]
        /\ Goto(n, "frozen")
        /\ UNCHANGED <<up, lost, db, master, diskVars, event, countVars, fenceVars, boundVars>>

\* cms_start_new_voting: the node is frozen and in the next round.
StartVoting(n) ==
    /\ up[n] /\ pc[n] = "woken"
    /\ round' = [round EXCEPT ![n] = @ + 1]
    /\ result' = [result EXCEPT ![n].stat = "FROZEN", ![n].round = round[n] + 1,
                                ![n].done = FALSE]
    /\ Goto(n, "frozen")
    /\ UNCHANGED <<up, lost, db, master, diskVars, event, countVars, fenceVars, boundVars>>

\* The master writes the frozen result; when that fails it does not vote.
MarkFrozen(n) ==
    /\ up[n] /\ pc[n] = "frozen" /\ MasterKnown
    /\ \/ /\ disk' = IF master = n THEN result[n] ELSE disk
          /\ Goto(n, "marked") /\ UNCHANGED fails
       \/ /\ master = n /\ fails < MaxFails /\ fails' = fails + 1
          /\ Goto(n, "result") /\ UNCHANGED disk
    /\ UNCHANGED <<db, master, trigger, vote, countVars, fenceVars, starts, voterVars>>

\* The first lines of the vote: the round is triggered for the others.
SetTrigger(n) ==
    /\ up[n] /\ pc[n] = "marked"
    /\ trigger' = [trigger EXCEPT ![n] = round[n]]
    /\ Goto(n, "voting")
    /\ UNCHANGED <<db, master, disk, vote, countVars, fenceVars, voterVars, boundVars>>

\* cms_update_vote_info and the loop of cms_start_new_voting: the time of the
\* vote is fixed, what the node sees is written again and again.
CastVote(n) ==
    /\ up[n] /\ pc[n] \in {"voting", "voted"}
    /\ \E t \in IF pc[n] = "voting" THEN Clock[n] ELSE {vote[n].time} :
          vote' = [vote EXCEPT ![n] = [round |-> round[n], time |-> t,
                                       good |-> Node \ lost[n]]]
    /\ Goto(n, "voted")
    /\ UNCHANGED <<db, master, disk, trigger, countVars, fenceVars, voterVars, boundVars>>

\* cms_get_new_vote_result: the master begins to count.
RoundStart(n) ==
    /\ up[n] /\ pc[n] \in {"voted", "result"} /\ master = n
    /\ seen' = 0 /\ begin' = 0 /\ rows' = NoRows
    /\ Goto(n, "times")
    /\ UNCHANGED <<db, master, diskVars, fenceVars, voterVars, boundVars>>

\* The votes are read one after another; after the last one n goes to p.
ReadNext(n, p) == /\ seen' = (seen + 1) % N
                  /\ IF seen = N - 1 THEN Goto(n, p) ELSE UNCHANGED pc

\* cms_get_round_start_time, one node: the time of the first vote of the round.
ReadTime(n) ==
    /\ up[n] /\ pc[n] = "times"
    /\ begin' = IF vote[seen].round = round[n] /\ (begin = 0 \/ vote[seen].time < begin)
                THEN vote[seen].time ELSE begin
    /\ ReadNext(n, "count")
    /\ UNCHANGED <<db, master, diskVars, rows, fenceVars, voterVars, boundVars>>

\* Mutant: a vote older than the start of the round is taken for one in time.
Bug_ReadVote(n) ==
    /\ up[n] /\ pc[n] = "count"
    /\ LET valid == vote[seen].round = round[n] /\ vote[seen].time <= begin + Period
       IN  rows' = [rows EXCEPT ![seen] = IF valid THEN vote[seen].good ELSE {}]
    /\ ReadNext(n, "counted")
    /\ UNCHANGED <<db, master, diskVars, begin, fenceVars, voterVars, boundVars>>

\* cms_get_votes_count_res, one node: a vote of another round, or outside the
\* period, counts for nothing.
ReadVote(n) ==
    /\ up[n] /\ pc[n] = "count"
    /\ LET valid == vote[seen].round = round[n] /\ vote[seen].time \in begin .. begin + Period
       IN  rows' = [rows EXCEPT ![seen] = IF valid THEN vote[seen].good ELSE {}]
    /\ ReadNext(n, "counted")
    /\ UNCHANGED <<db, master, diskVars, begin, fenceVars, voterVars, boundVars>>

Online == {m \in Node : db[m] # "offline"}
Joined == {m \in Node : db[m] = "joined"}

\* cms_get_final_vote_res: who is online and who has joined.  With the last try
\* to read the cluster status all nodes count as online, whether it fails
\* or not.
Status == [online : {Online}, joined : {Joined}]
LateStatus == [online : {Node}, joined : {Joined, {}}]

\* cms_get_new_vote_result on the master; when the result cannot be written it
\* counts again.
CountVotes(n) ==
    /\ up[n] /\ pc[n] = "counted"
    /\ \E late, written \in BOOLEAN :
          /\ fails' = fails + (IF late THEN 1 ELSE 0) + (IF written THEN 0 ELSE 1)
          /\ fails' <= MaxFails
          /\ \E s \in IF late THEN LateStatus ELSE Status :
                result' = [result EXCEPT ![n].done = TRUE, ![n].round = round[n],
                    ![n].map = cms_get_max_full_connect(rows, s.online, s.joined)]
          /\ disk' = IF written THEN result'[n] ELSE disk
          /\ Goto(n, IF written THEN "got" ELSE "result")
    /\ begin' = 0 /\ rows' = NoRows
    /\ UNCHANGED <<up, lost, db, master, trigger, vote, round, event, seen, fenceVars, starts>>

\* cms_get_new_vote_result on another node: the result of this round, or of
\* a later one.
GetResult(n) ==
    /\ up[n] /\ pc[n] \in {"voted", "result"} /\ MasterKnown /\ master # n
    /\ disk.round >= round[n] /\ disk.done
    /\ result' = [result EXCEPT ![n].map = disk.map, ![n].done = TRUE]
    /\ Goto(n, "got")
    /\ UNCHANGED <<up, lost, db, master, diskVars, round, event, countVars, fenceVars,
                   boundVars>>

\* The master carries the result out, another node waits for that; first it
\* stops when it is not in the new cluster (cms_kill_self_by_vote_result).
Proceed(n) ==
    /\ up[n] /\ pc[n] = "got" /\ MasterKnown
    /\ \/ /\ master = n /\ Goto(n, "execute") /\ UNCHANGED <<voterVars>>
       \/ /\ master # n /\ n \in result[n].map /\ Goto(n, "wait")
          /\ UNCHANGED <<voterVars>>
       \/ /\ master # n /\ n \notin result[n].map
          /\ Stops(n) /\ result' = [result EXCEPT ![n] = InitialResult]
    /\ UNCHANGED <<db, master, diskVars, countVars, fenceVars, boundVars>>

-----------------------------------------------------------------------------
(* cms_master_execute_result. *)

Excluded(n) == Node \ result[n].map

\* The execution fails: the result is VOTE_ERR, on the disk too unless that
\* write fails as well (then, as a bound, only when another round can follow).
Fails(n) ==
    /\ fails < MaxFails /\ fails' = fails + 1
    /\ result' = [result EXCEPT ![n].stat = "ERR"]
    /\ disk' = result'[n] \/ (round[n] < MaxRound /\ UNCHANGED disk)

\* cms_execute_io_fence begins.  It fails when it does not find the resource;
\* then nobody is fenced and the master goes on, outside the new cluster too.
Execute(n) ==
    /\ up[n] /\ pc[n] = "execute"
    /\ \/ Goto(n, "fence") /\ UNCHANGED <<disk, result, fails>>
       \/ Goto(n, "idle") /\ Fails(n)
    /\ UNCHANGED <<up, lost, db, master, trigger, vote, round, event, countVars, fenceVars,
                   starts>>

\* cms_execute_io_fence, one node; when try_cms_kick_node fails the master
\* stops itself (see Crash).
Kick(n, m) ==
    /\ up[n] /\ pc[n] = "fence" /\ m \in Excluded(n) \ {n} /\ kicked[m] < result[n].round
    /\ kicked' = [kicked EXCEPT ![m] = result[n].round]
    /\ UNCHANGED <<db, master, diskVars, pc, countVars, carrier, voterVars, boundVars>>

\* Mutant: a node that is offline already need not be fenced again.
Bug_Fenced(n) ==
    /\ up[n] /\ pc[n] = "fence"
    /\ \A m \in Excluded(n) \ {n} : db[m] = "offline" \/ kicked[m] >= result[n].round
    /\ Goto(n, "refresh")
    /\ UNCHANGED <<db, master, diskVars, countVars, fenceVars, voterVars, boundVars>>

\* Every node outside the new cluster but the master is fenced.
Fenced(n) ==
    /\ up[n] /\ pc[n] = "fence"
    /\ \A m \in Excluded(n) \ {n} : kicked[m] >= result[n].round
    /\ Goto(n, "refresh")
    /\ UNCHANGED <<db, master, diskVars, countVars, fenceVars, voterVars, boundVars>>

\* cms_refresh_new_cluster_info, one node.
TakeOffline(n, m) ==
    /\ up[n] /\ pc[n] = "refresh" /\ m \in Excluded(n) /\ db[m] # "offline"
    /\ db' = [db EXCEPT ![m] = "offline"]
    /\ UNCHANGED <<master, diskVars, pc, countVars, fenceVars, voterVars, boundVars>>

\* The end of cms_refresh_new_cluster_info: the round is done.
Refresh(n) ==
    /\ up[n] /\ pc[n] = "refresh" /\ \A m \in Excluded(n) : db[m] = "offline"
    /\ result' = [result EXCEPT ![n].stat = "DONE"]
    /\ disk' = result'[n]
    /\ carrier' = n
    /\ Goto(n, "leave")
    /\ UNCHANGED <<up, lost, db, master, trigger, vote, round, event, countVars, kicked,
                   boundVars>>

\* cms_refresh_new_cluster_info cannot take a node offline or write the result.
RefreshFails(n) ==
    /\ up[n] /\ pc[n] = "refresh" /\ Fails(n)
    /\ Goto(n, "leave")
    /\ UNCHANGED <<up, lost, db, master, trigger, vote, round, event, countVars, fenceVars,
                   starts>>

\* cms_kill_self_by_vote_result: a master outside the new cluster gives the
\* lock back and stops.
Leave(n) ==
    /\ up[n] /\ pc[n] = "leave"
    /\ \/ n \in result[n].map /\ Goto(n, "idle") /\ UNCHANGED <<voterVars, master>>
       \/ /\ n \notin result[n].map
          /\ Stops(n) /\ result' = [result EXCEPT ![n] = InitialResult]
          /\ master' = IF master = n THEN NoNode ELSE master
    /\ UNCHANGED <<db, diskVars, countVars, fenceVars, boundVars>>

-----------------------------------------------------------------------------
(* wait_for_vote_done. *)

\* The result is read again; the round has failed, or the next one began.
WaitRead(n) ==
    /\ up[n] /\ pc[n] = "wait"
    /\ \/ /\ disk.stat = "ERR" \/ disk.round = round[n] + 1
          /\ result' = [result EXCEPT ![n] = [disk EXCEPT !.stat = "ERR"]]
          /\ Goto(n, "idle")
       \/ /\ disk.stat # "ERR" /\ disk.round # round[n] + 1
          /\ result' = [result EXCEPT ![n] = disk]
          /\ Goto(n, "check")
    /\ UNCHANGED <<up, lost, db, master, diskVars, round, event, countVars, fenceVars,
                   boundVars>>

\* Mutant: a new master believes that the old one has fenced the others.
BugFence_WaitCheck(n) ==
    /\ up[n] /\ pc[n] = "check" /\ MasterKnown
    /\ Goto(n, IF master = n THEN "refresh"
               ELSE IF result[n].stat = "DONE" THEN "idle" ELSE "wait")
    /\ UNCHANGED <<db, master, diskVars, countVars, fenceVars, voterVars, boundVars>>

\* Mutant: a node that becomes master goes on waiting.
BugWait_WaitCheck(n) ==
    /\ up[n] /\ pc[n] = "check" /\ MasterKnown
    /\ Goto(n, IF result[n].stat = "DONE" THEN "idle" ELSE "wait")
    /\ UNCHANGED <<db, master, diskVars, countVars, fenceVars, voterVars, boundVars>>

\* A new master carries the result out itself.
WaitCheck(n) ==
    /\ up[n] /\ pc[n] = "check" /\ MasterKnown
    /\ Goto(n, IF master = n THEN "execute"
               ELSE IF result[n].stat = "DONE" THEN "idle" ELSE "wait")
    /\ UNCHANGED <<db, master, diskVars, countVars, fenceVars, voterVars, boundVars>>

-----------------------------------------------------------------------------
VoteStep(n) ==
    \/ Wake(n) \/ StartVoting(n) \/ MarkFrozen(n) \/ SetTrigger(n) \/ CastVote(n)
    \/ RoundStart(n) \/ ReadTime(n) \/ ReadVote(n) \/ CountVotes(n) \/ GetResult(n)
    \/ Proceed(n) \/ Execute(n) \/ (\E m \in Node : Kick(n, m) \/ TakeOffline(n, m))
    \/ Fenced(n) \/ Refresh(n) \/ Leave(n) \/ WaitRead(n) \/ WaitCheck(n)

Next ==
    \/ \E n \in Node :
          \/ VoteStep(n) \/ RefreshFails(n) \/ HbLost(n) \/ DetectErr(n) \/ DetectNewRound(n)
          \/ BeMaster(n) \/ Crash(n) \/ Start(n)
    \/ \E n, m \in Node : Heartbeat(n, m)

Spec == Init /\ [][Next]_vars

\* The threads of a running node go on, and one of the running nodes gets a
\* free master lock.  A node need not vote again.
Fairness ==
    /\ \A n \in Node : /\ WF_vars(VoteStep(n) /\ (pc[n] = "voted" => pc'[n] # "voted"))
                       /\ WF_vars(DetectErr(n) \/ DetectNewRound(n))
    /\ WF_vars(\E n \in Node : BeMaster(n))

FairSpec == Spec /\ Fairness

-----------------------------------------------------------------------------
(* Properties. *)

Result == [round : 0 .. MaxRound, map : SUBSET Node, done : BOOLEAN,
           stat : {"PREPARE", "FROZEN", "DONE", "ERR"}]

\* Where a voting thread may be.
Places == {"idle", "woken", "frozen", "marked", "voting", "voted", "result", "times", "count",
           "counted", "got", "execute", "fence", "refresh", "leave", "wait", "check"}

\* The variables have their types.
TypeOK ==
    /\ up \in [Node -> BOOLEAN]
    /\ lost \in [Node -> SUBSET Node]
    /\ db \in [Node -> {"offline", "online", "joined"}]
    /\ master \in Node \union {NoNode}
    /\ disk \in Result
    /\ trigger \in [Node -> 0 .. MaxRound]
    /\ vote \in [Node -> [round : 0 .. MaxRound, time : Nat, good : SUBSET Node]]
    /\ round \in [Node -> 0 .. MaxRound]
    /\ result \in [Node -> Result]
    /\ event \in [Node -> BOOLEAN]
    /\ pc \in [Node -> Places]
    /\ seen \in Node /\ begin \in Nat /\ rows \in [Node -> SUBSET Node]
    /\ kicked \in [Node -> 0 .. MaxRound]
    /\ carrier \in Node \union {NoNode}
    /\ fails \in 0 .. MaxFails
    /\ starts \in 0 .. MaxStarts

\* An arbitration that is done has fenced the database of every node outside
\* the new cluster, that of the master that carried it out excepted, which
\* stops itself (cms_execute_io_fence, cms_kill_self_by_vote_result).
AllFenced ==
    disk.stat = "DONE" =>
        \A n \in Node \ disk.map : n = carrier \/ kicked[n] >= disk.round

\* A node is taken offline, which starts the reform that recovers its pages,
\* only after its database was fenced in the round that the master carries
\* out, also when an earlier master crashed between the two; the master does
\* not fence itself (cms_execute_io_fence, cms_refresh_new_cluster_info).
FencedFirst ==
    [][\A m \in Node : (db[m] # "offline" /\ db'[m] = "offline" /\ m # master)
          => kicked[m] >= result[master].round]_vars

\* The new cluster consists of nodes that voted in the round, and is a largest
\* group that sees each other by the votes as they were read, although votes
\* come, change and are read one by one, and whatever the cluster status
\* says (cms_get_votes_count_res, cms_solve_max_clique).
LargestGroup ==
    [][\A n \in Node : CountVotes(n) =>
          /\ result'[n].map \in Tops(Cliques(rows), Cardinality)
          /\ \A m \in result'[n].map : vote[m].round >= round[n]]_vars

\* The nodes of a new cluster have voted within one period of each other,
\* although the master reads the times first and the votes later, and an
\* earlier vote may be written in between (cms_get_round_start_time,
\* cms_get_votes_count_res).
VotesTogether ==
    [][\A n \in Node : CountVotes(n) =>
          LET Voters == {m \in result'[n].map : vote[m].round = round[n]}
          IN  \A m, k \in Voters : vote[m].time <= vote[k].time + Period]_vars

\* The new cluster is a largest group and, among those, the best one by the
\* nodes online and joined (comments of cms_get_max_num_index).
BestGroup ==
    [][\A n \in Node : CountVotes(n) => result'[n].map \in Best(rows, Online, Joined)]_vars

\* No node stays frozen in a vote (cms_cluster_is_voting), although the master
\* that counts the votes or carries out the result may crash at any step
\* (wait_for_vote_done, cms_get_new_vote_result).
VoteEnds ==
    \A n \in Node : (up[n] /\ result[n].stat = "FROZEN") ~> result[n].stat # "FROZEN"

\* Another node has triggered a later round.
Behind(n) == up[n] /\ \E m \in Node : trigger[m] > round[n]

\* No running node stays behind: it joins the round that others have started,
\* or stops because it missed one (detect_new_vote_round).
NobodyBehind == \A n \in Node : Behind(n) ~> ~Behind(n)
=============================================================================
