----------------------------- MODULE VoteProofs -----------------------------
(***************************************************************************)
(* Theorems about module Vote, for any number of nodes, any connections,   *)
(* crashes, restarts and failures: type correctness, and that no node is   *)
(* taken offline, and no arbitration ends, before the databases outside    *)
(* the new cluster are fenced.                                             *)
(***************************************************************************)
EXTENDS Vote, TLAPS

\* A voting node has not used up its rounds, and a node that does not run does
\* not vote (cms_voting_entry).
Threads == \A n \in Node : /\ pc[n] = "woken" => round[n] < MaxRound
                           /\ ~up[n] => pc[n] = "idle"

\* A node that waits for a result is frozen (cms_start_new_voting).
FrozenVoters ==
    \A n \in Node : pc[n] \in {"frozen", "marked", "voting", "voted", "result", "times", "count",
                              "counted", "got"}
                      => result[n].stat = "FROZEN"

\* Only the master carries a result out (cms_master_execute_result).
MasterExecutes == \A n \in Node : pc[n] \in {"execute", "fence", "refresh"} => master = n

\* What is taken offline has been fenced (cms_refresh_new_cluster_info).
FencedOnRefresh ==
    \A n \in Node : pc[n] = "refresh" =>
        \A m \in Node \ result[n].map : m = n \/ kicked[m] >= result[n].round

\* The inductive invariant.
IInv == TypeOK /\ Threads /\ FrozenVoters /\ MasterExecutes /\ FencedOnRefresh /\ AllFenced

-----------------------------------------------------------------------------
\* The new cluster consists of nodes (cms_get_final_vote_res).
LEMMA NewCluster ==
    ASSUME NEW good, NEW on, NEW jd
    PROVE  cms_get_max_full_connect(good, on, jd) \in SUBSET Node
BY DEF cms_get_max_full_connect

\* The result of a node that stopped, and one with other fields.
LEMMA ResultTypes ==
    /\ InitialResult \in Result
    /\ \A r \in Result, st \in {"PREPARE", "FROZEN", "DONE", "ERR"} :
          [r EXCEPT !.stat = st] \in Result
    /\ \A f \in [Node -> Result], n \in Node, r \in Result :
          [f EXCEPT ![n] = r] \in [Node -> Result]
<1>1. Node \in SUBSET Node /\ 0 \in 0 .. MaxRound
  BY BoundsAssumption
<1> QED BY <1>1 DEF InitialResult, Result

\* The vote read next is that of a node (cms_get_votes_count_res).
LEMMA NextSeen ==
    ASSUME NEW i \in Node
    PROVE  (i + 1) % N \in Node
BY NAssumption DEF Node

\* The initial states.
LEMMA InitIInv == Init => IInv
<1> SUFFICES ASSUME Init PROVE IInv OBVIOUS
<1> USE DEF Init, InitialResult, NoVote
<1>0. Node \in SUBSET Node /\ 0 \in 0 .. MaxRound /\ 0 \in 0 .. MaxFails /\ 0 \in 0 .. MaxStarts
  BY BoundsAssumption
<1>1. 0 \in Node
  BY NAssumption DEF Node
<1>2. TypeOK
  BY <1>0, <1>1 DEF TypeOK, Places, Result, NoRows
<1>3. Threads /\ FrozenVoters /\ MasterExecutes /\ FencedOnRefresh /\ AllFenced
  BY DEF Threads, FrozenVoters, MasterExecutes, FencedOnRefresh, AllFenced
<1> QED BY <1>2, <1>3 DEF IInv

\* cms_hb_lost_handle keeps the invariant.
LEMMA HeartbeatStep ==
    ASSUME IInv, NEW n \in Node, NEW m \in Node, Heartbeat(n, m)
    PROVE  IInv'
<1> USE DEF Heartbeat, voterVars, diskVars, countVars, fenceVars, boundVars
<1>1. TypeOK'
  <2>1. lost \in [Node -> SUBSET Node] /\ lost[n] \union {m} \in SUBSET Node /\ lost[n] \ {m} \in SUBSET Node
    BY DEF IInv, TypeOK, Places
  <2>2. lost' \in [Node -> SUBSET Node]
    BY <2>1
  <2> QED BY <2>2 DEF IInv, TypeOK, Places
<1>2. Threads'
  BY BoundsAssumption DEF IInv, TypeOK, Threads
<1>3. FrozenVoters'
  BY DEF IInv, TypeOK, Result, Threads, FrozenVoters
<1>4. MasterExecutes'
  BY DEF IInv, TypeOK, Threads, MasterExecutes
<1>5. FencedOnRefresh'
  BY BoundsAssumption DEF IInv, TypeOK, Result, Threads, FencedOnRefresh
<1>6. AllFenced'
  BY BoundsAssumption
     DEF IInv, TypeOK, Result, Threads, FrozenVoters, FencedOnRefresh, AllFenced
<1> QED BY <1>1, <1>2, <1>3, <1>4, <1>5, <1>6 DEF IInv

\* cms_hb_lost_handle keeps the invariant.
LEMMA HbLostStep ==
    ASSUME IInv, NEW n \in Node, HbLost(n)
    PROVE  IInv'
<1> USE DEF HbLost, voterVars, diskVars, countVars, fenceVars, boundVars, Notify
<1>1. TypeOK'
  BY BoundsAssumption DEF IInv, TypeOK, Places, Result, Threads
<1>2. Threads'
  BY BoundsAssumption DEF IInv, TypeOK, Threads
<1>3. FrozenVoters'
  BY DEF IInv, TypeOK, Result, Threads, FrozenVoters
<1>4. MasterExecutes'
  BY DEF IInv, TypeOK, Threads, MasterExecutes
<1>5. FencedOnRefresh'
  BY BoundsAssumption DEF IInv, TypeOK, Result, Threads, FencedOnRefresh
<1>6. AllFenced'
  BY BoundsAssumption
     DEF IInv, TypeOK, Result, Threads, FrozenVoters, FencedOnRefresh, AllFenced
<1> QED BY <1>1, <1>2, <1>3, <1>4, <1>5, <1>6 DEF IInv

\* the end of the process keeps the invariant.
LEMMA CrashStep ==
    ASSUME IInv, NEW n \in Node, Crash(n)
    PROVE  IInv'
<1> USE DEF Crash, voterVars, diskVars, countVars, fenceVars, boundVars, Stops
<1>1. TypeOK'
  <2>1. result' \in [Node -> Result]
    <3>1. result' = [result EXCEPT ![n] = InitialResult]
      BY DEF IInv, TypeOK, Places
    <3>2. disk \in Result /\ InitialResult \in Result /\ result \in [Node -> Result]
      BY ResultTypes DEF IInv, TypeOK, Places
    <3> QED BY <3>1, <3>2, ResultTypes
  <2>2. up' \in [Node -> BOOLEAN] /\ event' \in [Node -> BOOLEAN]
    BY DEF IInv, TypeOK, Places
  <2>3. lost' \in [Node -> SUBSET Node]
    BY DEF IInv, TypeOK, Places
  <2>4. round' \in [Node -> 0 .. MaxRound]
    BY BoundsAssumption DEF IInv, TypeOK, Places
  <2>5. pc' \in [Node -> Places]
    BY DEF IInv, TypeOK, Places
  <2> QED BY <2>1, <2>2, <2>3, <2>4, <2>5 DEF IInv, TypeOK, Places
<1>2. Threads'
  BY BoundsAssumption DEF IInv, TypeOK, Threads
<1>3. FrozenVoters'
  BY DEF IInv, TypeOK, Result, Threads, FrozenVoters
<1>4. MasterExecutes'
  BY DEF IInv, TypeOK, Threads, MasterExecutes
<1>5. FencedOnRefresh'
  BY BoundsAssumption DEF IInv, TypeOK, Result, Threads, FencedOnRefresh
<1>6. AllFenced'
  BY BoundsAssumption
     DEF IInv, TypeOK, Result, Threads, FrozenVoters, FencedOnRefresh, AllFenced
<1> QED BY <1>1, <1>2, <1>3, <1>4, <1>5, <1>6 DEF IInv

\* cms_try_be_master keeps the invariant.
LEMMA BeMasterStep ==
    ASSUME IInv, NEW n \in Node, BeMaster(n)
    PROVE  IInv'
<1> USE DEF BeMaster, voterVars, diskVars, countVars, fenceVars, boundVars
<1>1. TypeOK'
  BY BoundsAssumption DEF IInv, TypeOK, Places, Result, Threads
<1>2. Threads'
  BY BoundsAssumption DEF IInv, TypeOK, Threads
<1>3. FrozenVoters'
  BY DEF IInv, TypeOK, Result, Threads, FrozenVoters
<1>4. MasterExecutes'
  <2>1. \A k \in Node : pc[k] \in {"execute", "fence", "refresh"} => master = k /\ up[k]
    BY DEF IInv, Threads, MasterExecutes
  <2>2. NoNode \notin Node
    BY NAssumption DEF NoNode, Node
  <2> QED BY <2>1, <2>2 DEF MasterExecutes
<1>5. FencedOnRefresh'
  BY BoundsAssumption DEF IInv, TypeOK, Result, Threads, FencedOnRefresh
<1>6. AllFenced'
  BY BoundsAssumption
     DEF IInv, TypeOK, Result, Threads, FrozenVoters, FencedOnRefresh, AllFenced
<1> QED BY <1>1, <1>2, <1>3, <1>4, <1>5, <1>6 DEF IInv

\* cms_init_vote_info keeps the invariant.
LEMMA StartStep ==
    ASSUME IInv, NEW n \in Node, Start(n)
    PROVE  IInv'
<1> USE DEF Start, voterVars, diskVars, countVars, fenceVars, boundVars, NoVote
<1>1. TypeOK'
  <2>1. result' \in [Node -> Result]
    <3>1. \/ result' = [result EXCEPT ![n] = InitialResult]
         \/ result' = [result EXCEPT ![n] = disk]
      BY DEF IInv, TypeOK, Places
    <3>2. disk \in Result /\ InitialResult \in Result /\ result \in [Node -> Result]
      BY ResultTypes DEF IInv, TypeOK, Places
    <3> QED BY <3>1, <3>2, ResultTypes
  <2>2. disk' \in Result
    BY ResultTypes DEF IInv, TypeOK, Places
  <2>3. round' \in [Node -> 0 .. MaxRound]
    BY DEF IInv, TypeOK, Places, Result
  <2>4. trigger' \in [Node -> 0 .. MaxRound] /\ kicked' \in [Node -> 0 .. MaxRound]
    BY BoundsAssumption DEF IInv, TypeOK, Places
  <2>5. vote' \in [Node -> [round : 0 .. MaxRound, time : Nat, good : SUBSET Node]]
    BY BoundsAssumption DEF IInv, TypeOK, Places
  <2>6. starts' \in 0 .. MaxStarts
    BY BoundsAssumption DEF IInv, TypeOK, Places
  <2>7. up' \in [Node -> BOOLEAN] /\ event' \in [Node -> BOOLEAN] /\ master' \in Node \union {NoNode}
    BY DEF IInv, TypeOK, Places
  <2> QED BY <2>1, <2>2, <2>3, <2>4, <2>5, <2>6, <2>7 DEF IInv, TypeOK, Places
<1>2. Threads'
  BY BoundsAssumption DEF IInv, TypeOK, Threads
<1>3. FrozenVoters'
  BY DEF IInv, TypeOK, Result, Threads, FrozenVoters
<1>4. MasterExecutes'
  BY DEF IInv, TypeOK, Threads, MasterExecutes
<1>5. FencedOnRefresh'
  BY BoundsAssumption DEF IInv, TypeOK, Result, Threads, FencedOnRefresh
<1>6. AllFenced'
  BY DEF IInv, InitialResult, AllFenced
<1> QED BY <1>1, <1>2, <1>3, <1>4, <1>5, <1>6 DEF IInv

\* cms_detect_voting_entry keeps the invariant.
LEMMA DetectErrStep ==
    ASSUME IInv, NEW n \in Node, DetectErr(n)
    PROVE  IInv'
<1> USE DEF DetectErr, voterVars, diskVars, countVars, fenceVars, boundVars, Notify
<1>1. TypeOK'
  BY BoundsAssumption DEF IInv, TypeOK, Places, Result, Threads
<1>2. Threads'
  BY BoundsAssumption DEF IInv, TypeOK, Threads
<1>3. FrozenVoters'
  BY DEF IInv, TypeOK, Result, Threads, FrozenVoters
<1>4. MasterExecutes'
  BY DEF IInv, TypeOK, Threads, MasterExecutes
<1>5. FencedOnRefresh'
  BY BoundsAssumption DEF IInv, TypeOK, Result, Threads, FencedOnRefresh
<1>6. AllFenced'
  BY BoundsAssumption
     DEF IInv, TypeOK, Result, Threads, FrozenVoters, FencedOnRefresh, AllFenced
<1> QED BY <1>1, <1>2, <1>3, <1>4, <1>5, <1>6 DEF IInv

\* detect_new_vote_round keeps the invariant.
LEMMA DetectNewRoundStep ==
    ASSUME IInv, NEW n \in Node, DetectNewRound(n)
    PROVE  IInv'
<1> USE DEF DetectNewRound, voterVars, diskVars, countVars, fenceVars, boundVars, Notify, Stops
<1>1. TypeOK'
  <2>1. result' \in [Node -> Result]
    <3>1. \/ result' = result
         \/ result' = [result EXCEPT ![n] = InitialResult]
      BY DEF IInv, TypeOK, Places
    <3>2. disk \in Result /\ InitialResult \in Result /\ result \in [Node -> Result]
      BY ResultTypes DEF IInv, TypeOK, Places
    <3> QED BY <3>1, <3>2, ResultTypes
  <2>2. up' \in [Node -> BOOLEAN] /\ event' \in [Node -> BOOLEAN]
    BY DEF IInv, TypeOK, Places
  <2>3. lost' \in [Node -> SUBSET Node]
    BY DEF IInv, TypeOK, Places
  <2>4. round' \in [Node -> 0 .. MaxRound]
    <3>1. round \in [Node -> 0 .. MaxRound] /\ 0 \in 0 .. MaxRound
      BY BoundsAssumption DEF IInv, TypeOK
    <3>2. round' = round \/ round' = [round EXCEPT ![n] = 0]
      OBVIOUS
    <3> QED BY <3>1, <3>2
  <2>5. pc' \in [Node -> Places]
    BY DEF IInv, TypeOK, Places
  <2> QED BY <2>1, <2>2, <2>3, <2>4, <2>5 DEF IInv, TypeOK, Places
<1>2. Threads'
  <2>1. CASE Stops(n)
    BY <2>1 DEF IInv, TypeOK, Threads
  <2>2. CASE UNCHANGED <<up, round, pc>>
    BY <2>2 DEF IInv, Threads
  <2> QED BY <2>1, <2>2
<1>3. FrozenVoters'
  BY DEF IInv, TypeOK, Result, Threads, FrozenVoters
<1>4. MasterExecutes'
  BY DEF IInv, TypeOK, Threads, MasterExecutes
<1>5. FencedOnRefresh'
  BY BoundsAssumption DEF IInv, TypeOK, Result, Threads, FencedOnRefresh
<1>6. AllFenced'
  BY BoundsAssumption
     DEF IInv, TypeOK, Result, Threads, FrozenVoters, FencedOnRefresh, AllFenced
<1> QED BY <1>1, <1>2, <1>3, <1>4, <1>5, <1>6 DEF IInv

\* cms_voting_entry keeps the invariant.
LEMMA WakeStep ==
    ASSUME IInv, NEW n \in Node, Wake(n)
    PROVE  IInv'
<1> USE DEF Wake, voterVars, diskVars, countVars, fenceVars, boundVars, Goto
<1>1. TypeOK'
  BY BoundsAssumption DEF IInv, TypeOK, Places, Result, Threads
<1>2. Threads'
  BY BoundsAssumption DEF IInv, TypeOK, Threads
<1>3. FrozenVoters'
  BY DEF IInv, TypeOK, Result, Threads, FrozenVoters
<1>4. MasterExecutes'
  BY DEF IInv, TypeOK, Threads, MasterExecutes
<1>5. FencedOnRefresh'
  BY BoundsAssumption DEF IInv, TypeOK, Result, Threads, FencedOnRefresh
<1>6. AllFenced'
  BY BoundsAssumption
     DEF IInv, TypeOK, Result, Threads, FrozenVoters, FencedOnRefresh, AllFenced
<1> QED BY <1>1, <1>2, <1>3, <1>4, <1>5, <1>6 DEF IInv

\* cms_start_new_voting keeps the invariant.
LEMMA StartVotingStep ==
    ASSUME IInv, NEW n \in Node, StartVoting(n)
    PROVE  IInv'
<1> USE DEF StartVoting, voterVars, diskVars, countVars, fenceVars, boundVars, Goto
<1>1. TypeOK'
  <2>1. round' \in [Node -> 0 .. MaxRound]
    BY BoundsAssumption DEF IInv, TypeOK, Threads
  <2>2. result' \in [Node -> Result]
    <3> DEFINE new == [result[n] EXCEPT !.stat = "FROZEN", !.round = round[n] + 1,
                                     !.done = FALSE]
    <3>0. result[n] \in Result /\ disk.map \in SUBSET Node /\ round[n] \in 0 .. MaxRound
      BY DEF IInv, TypeOK, Places, Result
    <3>1. round[n] + 1 \in 0 .. MaxRound
      BY <3>0, BoundsAssumption DEF IInv, Threads
    <3>2. new \in Result
      BY <3>0, <3>1 DEF Result
    <3>3. result' = [result EXCEPT ![n] = new]
      BY DEF IInv, TypeOK, Places, Result
    <3>4. result \in [Node -> Result]
      BY DEF IInv, TypeOK, Places
    <3> HIDE DEF new, StartVoting
    <3> QED BY <3>2, <3>3, <3>4, ResultTypes
  <2>3. pc' \in [Node -> Places]
    BY DEF IInv, TypeOK, Places
  <2> QED BY <2>1, <2>2, <2>3 DEF IInv, TypeOK, Places
<1>2. Threads'
  BY BoundsAssumption DEF IInv, TypeOK, Threads
<1>3. FrozenVoters'
  BY DEF IInv, TypeOK, Result, Threads, FrozenVoters
<1>4. MasterExecutes'
  BY DEF IInv, TypeOK, Threads, MasterExecutes
<1>5. FencedOnRefresh'
  BY BoundsAssumption DEF IInv, TypeOK, Result, Threads, FencedOnRefresh
<1>6. AllFenced'
  BY BoundsAssumption
     DEF IInv, TypeOK, Result, Threads, FrozenVoters, FencedOnRefresh, AllFenced
<1> QED BY <1>1, <1>2, <1>3, <1>4, <1>5, <1>6 DEF IInv

\* cms_start_new_voting keeps the invariant.
LEMMA MarkFrozenStep ==
    ASSUME IInv, NEW n \in Node, MarkFrozen(n)
    PROVE  IInv'
<1> USE DEF MarkFrozen, voterVars, diskVars, countVars, fenceVars, boundVars, Goto, MasterKnown
<1>1. TypeOK'
  <2>1. disk' \in Result
    <3>1. disk' = disk \/ disk' = result[n]
      OBVIOUS
    <3> QED BY <3>1 DEF IInv, TypeOK, Places
  <2>2. pc' \in [Node -> Places]
    <3>1. pc' = [pc EXCEPT ![n] = "marked"] \/ pc' = [pc EXCEPT ![n] = "result"]
      OBVIOUS
    <3>2. pc \in [Node -> Places]
      BY DEF IInv, TypeOK, Places
    <3> HIDE DEF MarkFrozen
    <3> QED BY <3>1, <3>2 DEF Places
  <2>3. fails' \in 0 .. MaxFails
    BY BoundsAssumption DEF IInv, TypeOK, Places
  <2> QED BY <2>1, <2>2, <2>3 DEF IInv, TypeOK, Places
<1>2. Threads'
  BY BoundsAssumption DEF IInv, TypeOK, Threads
<1>3. FrozenVoters'
  BY DEF IInv, TypeOK, Result, Threads, FrozenVoters
<1>4. MasterExecutes'
  BY DEF IInv, TypeOK, Threads, MasterExecutes
<1>5. FencedOnRefresh'
  <2>1. /\ kicked' = kicked
        /\ \A k \in Node : pc'[k] = "refresh" => pc[k] = "refresh" /\ result'[k] = result[k]
    BY DEF IInv, TypeOK, Places
  <2> QED BY <2>1 DEF IInv, FencedOnRefresh
<1>6. AllFenced'
  BY BoundsAssumption
     DEF IInv, TypeOK, Result, Threads, FrozenVoters, FencedOnRefresh, AllFenced
<1> QED BY <1>1, <1>2, <1>3, <1>4, <1>5, <1>6 DEF IInv

\* cms_start_new_voting keeps the invariant.
LEMMA SetTriggerStep ==
    ASSUME IInv, NEW n \in Node, SetTrigger(n)
    PROVE  IInv'
<1> USE DEF SetTrigger, voterVars, diskVars, countVars, fenceVars, boundVars, Goto
<1>1. TypeOK'
  BY BoundsAssumption DEF IInv, TypeOK, Places, Result, Threads
<1>2. Threads'
  BY BoundsAssumption DEF IInv, TypeOK, Threads
<1>3. FrozenVoters'
  BY DEF IInv, TypeOK, Result, Threads, FrozenVoters
<1>4. MasterExecutes'
  BY DEF IInv, TypeOK, Threads, MasterExecutes
<1>5. FencedOnRefresh'
  BY BoundsAssumption DEF IInv, TypeOK, Result, Threads, FencedOnRefresh
<1>6. AllFenced'
  BY BoundsAssumption
     DEF IInv, TypeOK, Result, Threads, FrozenVoters, FencedOnRefresh, AllFenced
<1> QED BY <1>1, <1>2, <1>3, <1>4, <1>5, <1>6 DEF IInv

\* cms_update_vote_info keeps the invariant.
LEMMA CastVoteStep ==
    ASSUME IInv, NEW n \in Node, CastVote(n)
    PROVE  IInv'
<1> USE DEF CastVote, voterVars, diskVars, countVars, fenceVars, boundVars, Goto
<1>0. PICK t \in IF pc[n] = "voting" THEN Clock[n] ELSE {vote[n].time} :
        vote' = [vote EXCEPT ![n] = [round |-> round[n], time |-> t, good |-> Node \ lost[n]]]
  OBVIOUS
<1>1. TypeOK'
  <2>1. Clock[n] \subseteq Nat
    BY ClockAssumption
  <2>2. vote[n].time \in Nat
    BY DEF IInv, TypeOK
  <2>3. t \in Nat
    BY <1>0, <2>1, <2>2
  <2> QED BY <1>0, <2>3 DEF IInv, TypeOK, Places
<1>2. Threads'
  BY BoundsAssumption DEF IInv, TypeOK, Threads
<1>3. FrozenVoters'
  BY DEF IInv, TypeOK, Result, Threads, FrozenVoters
<1>4. MasterExecutes'
  BY DEF IInv, TypeOK, Threads, MasterExecutes
<1>5. FencedOnRefresh'
  BY BoundsAssumption DEF IInv, TypeOK, Result, Threads, FencedOnRefresh
<1>6. AllFenced'
  BY BoundsAssumption
     DEF IInv, TypeOK, Result, Threads, FrozenVoters, FencedOnRefresh, AllFenced
<1> QED BY <1>1, <1>2, <1>3, <1>4, <1>5, <1>6 DEF IInv

\* cms_get_new_vote_result keeps the invariant.
LEMMA RoundStartStep ==
    ASSUME IInv, NEW n \in Node, RoundStart(n)
    PROVE  IInv'
<1> USE DEF RoundStart, voterVars, diskVars, countVars, fenceVars, boundVars, Goto, NoRows
<1>1. TypeOK'
  <2>1. 0 \in Node /\ {} \in SUBSET Node
    BY NAssumption DEF Node
  <2>2. pc' \in [Node -> Places]
    BY DEF IInv, TypeOK, Places
  <2> QED BY <2>1, <2>2 DEF IInv, TypeOK
<1>2. Threads'
  BY BoundsAssumption DEF IInv, TypeOK, Threads
<1>3. FrozenVoters'
  BY DEF IInv, TypeOK, Result, Threads, FrozenVoters
<1>4. MasterExecutes'
  BY DEF IInv, TypeOK, Threads, MasterExecutes
<1>5. FencedOnRefresh'
  BY BoundsAssumption DEF IInv, TypeOK, Result, Threads, FencedOnRefresh
<1>6. AllFenced'
  BY BoundsAssumption
     DEF IInv, TypeOK, Result, Threads, FrozenVoters, FencedOnRefresh, AllFenced
<1> QED BY <1>1, <1>2, <1>3, <1>4, <1>5, <1>6 DEF IInv

\* cms_get_round_start_time keeps the invariant.
LEMMA ReadTimeStep ==
    ASSUME IInv, NEW n \in Node, ReadTime(n)
    PROVE  IInv'
<1> USE DEF ReadTime, voterVars, diskVars, countVars, fenceVars, boundVars, Goto, ReadNext
<1>1. TypeOK'
  <2>1. seen' \in Node
    BY NextSeen DEF IInv, TypeOK
  <2>2. pc' \in [Node -> Places]
    BY DEF IInv, TypeOK, Places
  <2>3. begin' \in Nat
    BY DEF IInv, TypeOK
  <2> QED BY <2>1, <2>2, <2>3 DEF IInv, TypeOK
<1>2. Threads'
  BY BoundsAssumption DEF IInv, TypeOK, Threads
<1>3. FrozenVoters'
  BY DEF IInv, TypeOK, Result, Threads, FrozenVoters
<1>4. MasterExecutes'
  BY DEF IInv, TypeOK, Threads, MasterExecutes
<1>5. FencedOnRefresh'
  BY BoundsAssumption DEF IInv, TypeOK, Result, Threads, FencedOnRefresh
<1>6. AllFenced'
  BY BoundsAssumption
     DEF IInv, TypeOK, Result, Threads, FrozenVoters, FencedOnRefresh, AllFenced
<1> QED BY <1>1, <1>2, <1>3, <1>4, <1>5, <1>6 DEF IInv

\* cms_get_votes_count_res keeps the invariant.
LEMMA ReadVoteStep ==
    ASSUME IInv, NEW n \in Node, ReadVote(n)
    PROVE  IInv'
<1> USE DEF ReadVote, voterVars, diskVars, countVars, fenceVars, boundVars, Goto, ReadNext
<1>1. TypeOK'
  <2>1. seen' \in Node
    BY NextSeen DEF IInv, TypeOK
  <2>2. pc' \in [Node -> Places]
    BY DEF IInv, TypeOK, Places
  <2>3. rows' \in [Node -> SUBSET Node]
    BY DEF IInv, TypeOK
  <2> QED BY <2>1, <2>2, <2>3 DEF IInv, TypeOK
<1>2. Threads'
  BY BoundsAssumption DEF IInv, TypeOK, Threads
<1>3. FrozenVoters'
  BY DEF IInv, TypeOK, Result, Threads, FrozenVoters
<1>4. MasterExecutes'
  BY DEF IInv, TypeOK, Threads, MasterExecutes
<1>5. FencedOnRefresh'
  BY BoundsAssumption DEF IInv, TypeOK, Result, Threads, FencedOnRefresh
<1>6. AllFenced'
  BY BoundsAssumption
     DEF IInv, TypeOK, Result, Threads, FrozenVoters, FencedOnRefresh, AllFenced
<1> QED BY <1>1, <1>2, <1>3, <1>4, <1>5, <1>6 DEF IInv

\* cms_count_votes keeps the invariant.
LEMMA CountVotesStep ==
    ASSUME IInv, NEW n \in Node, CountVotes(n)
    PROVE  IInv'
<1> USE DEF CountVotes, voterVars, diskVars, countVars, fenceVars, boundVars, Goto
<1>1. TypeOK'
  <2>0. PICK on, jd : result' = [result EXCEPT ![n].done = TRUE, ![n].round = round[n],
                            ![n].map = cms_get_max_full_connect(rows, on, jd)]
    OBVIOUS
  <2> DEFINE new == [result[n] EXCEPT !.done = TRUE, !.round = round[n],
                       !.map = cms_get_max_full_connect(rows, on, jd)]
  <2>1. new \in Result
    <3>1. cms_get_max_full_connect(rows, on, jd) \in SUBSET Node
      BY NewCluster
    <3>2. result[n] \in Result /\ round[n] \in 0 .. MaxRound
      BY DEF IInv, TypeOK
    <3> HIDE DEF CountVotes
    <3> QED BY <3>1, <3>2 DEF Result
  <2>2. result' = [result EXCEPT ![n] = new]
    BY <2>0 DEF IInv, TypeOK, Result
  <2> HIDE DEF new
  <2>3. result' \in [Node -> Result] /\ disk' \in Result
    <3>0. result \in [Node -> Result] /\ disk \in Result
      BY DEF IInv, TypeOK
    <3>1. result' \in [Node -> Result]
      BY <2>1, <2>2, <3>0, ResultTypes
    <3>2. disk' = new \/ disk' = disk
      BY <2>2 DEF IInv, TypeOK
    <3> QED BY <2>1, <3>0, <3>1, <3>2
  <2>4. begin' \in Nat /\ rows' \in [Node -> SUBSET Node]
    BY DEF NoRows
  <2>5. pc' \in [Node -> Places]
    BY DEF IInv, TypeOK, Places
  <2>6. fails' \in 0 .. MaxFails
    BY BoundsAssumption DEF IInv, TypeOK
  <2> QED BY <2>3, <2>4, <2>5, <2>6 DEF IInv, TypeOK
<1>2. Threads'
  BY BoundsAssumption DEF IInv, TypeOK, Threads
<1>3. FrozenVoters'
  BY DEF IInv, TypeOK, Result, Threads, FrozenVoters
<1>4. MasterExecutes'
  BY DEF IInv, TypeOK, Threads, MasterExecutes
<1>5. FencedOnRefresh'
  BY BoundsAssumption DEF IInv, TypeOK, Result, Threads, FencedOnRefresh
<1>6. AllFenced'
  BY BoundsAssumption
     DEF IInv, TypeOK, Result, Threads, FrozenVoters, FencedOnRefresh, AllFenced
<1> QED BY <1>1, <1>2, <1>3, <1>4, <1>5, <1>6 DEF IInv

\* cms_get_new_vote_result keeps the invariant.
LEMMA GetResultStep ==
    ASSUME IInv, NEW n \in Node, GetResult(n)
    PROVE  IInv'
<1> USE DEF GetResult, voterVars, diskVars, countVars, fenceVars, boundVars, Goto, MasterKnown
<1>1. TypeOK'
  <2>1. result' \in [Node -> Result]
    <3> DEFINE new == [result[n] EXCEPT !.map = disk.map, !.done = TRUE]
    <3>0. result[n] \in Result /\ disk.map \in SUBSET Node /\ round[n] \in 0 .. MaxRound
      BY DEF IInv, TypeOK, Places, Result
    <3>1. new \in Result
      BY <3>0 DEF Result
    <3>2. result' = [result EXCEPT ![n] = new]
      BY DEF IInv, TypeOK, Places, Result
    <3>3. result \in [Node -> Result]
      BY DEF IInv, TypeOK, Places
    <3> HIDE DEF new
    <3> QED BY <3>1, <3>2, <3>3, ResultTypes
  <2>2. pc' \in [Node -> Places]
    BY DEF IInv, TypeOK, Places
  <2> QED BY <2>1, <2>2 DEF IInv, TypeOK, Places
<1>2. Threads'
  BY BoundsAssumption DEF IInv, TypeOK, Threads
<1>3. FrozenVoters'
  BY DEF IInv, TypeOK, Result, Threads, FrozenVoters
<1>4. MasterExecutes'
  BY DEF IInv, TypeOK, Threads, MasterExecutes
<1>5. FencedOnRefresh'
  BY BoundsAssumption DEF IInv, TypeOK, Result, Threads, FencedOnRefresh
<1>6. AllFenced'
  BY BoundsAssumption
     DEF IInv, TypeOK, Result, Threads, FrozenVoters, FencedOnRefresh, AllFenced
<1> QED BY <1>1, <1>2, <1>3, <1>4, <1>5, <1>6 DEF IInv

\* cms_voting_entry keeps the invariant.
LEMMA ProceedStep ==
    ASSUME IInv, NEW n \in Node, Proceed(n)
    PROVE  IInv'
<1> USE DEF Proceed, voterVars, diskVars, countVars, fenceVars, boundVars, Goto, MasterKnown, Stops
<1>1. TypeOK'
  <2>1. result' \in [Node -> Result]
    <3>1. \/ result' = result
         \/ result' = [result EXCEPT ![n] = InitialResult]
      BY DEF IInv, TypeOK, Places
    <3>2. disk \in Result /\ InitialResult \in Result /\ result \in [Node -> Result]
      BY ResultTypes DEF IInv, TypeOK, Places
    <3> HIDE DEF Proceed, Stops
    <3> QED BY <3>1, <3>2, ResultTypes
  <2>2. up' \in [Node -> BOOLEAN] /\ event' \in [Node -> BOOLEAN]
    <3>1. /\ up' = up \/ up' = [up EXCEPT ![n] = FALSE]
          /\ event' = event \/ event' = [event EXCEPT ![n] = FALSE]
      OBVIOUS
    <3>2. up \in [Node -> BOOLEAN] /\ event \in [Node -> BOOLEAN]
      BY DEF IInv, TypeOK, Places
    <3> HIDE DEF Proceed, Stops
    <3> QED BY <3>1, <3>2
  <2>3. lost' \in [Node -> SUBSET Node]
    BY DEF IInv, TypeOK, Places
  <2>4. round' \in [Node -> 0 .. MaxRound]
    BY BoundsAssumption DEF IInv, TypeOK, Places
  <2>5. pc' \in [Node -> Places]
    <3>1. \E p \in {"execute", "wait", "idle"} : pc' = [pc EXCEPT ![n] = p]
      OBVIOUS
    <3> QED BY <3>1 DEF IInv, TypeOK, Places
  <2> QED BY <2>1, <2>2, <2>3, <2>4, <2>5 DEF IInv, TypeOK, Places
<1>2. Threads'
  BY BoundsAssumption DEF IInv, TypeOK, Threads
<1>3. FrozenVoters'
  <2>1. \A k \in Node : pc'[k] # "idle" => \/ pc[k] = pc'[k] /\ result'[k] = result[k]
                                          \/ pc'[k] \in {"execute", "wait"}
    BY DEF IInv, TypeOK, Places
  <2> QED BY <2>1 DEF IInv, FrozenVoters
<1>4. MasterExecutes'
  BY DEF IInv, TypeOK, Threads, MasterExecutes
<1>5. FencedOnRefresh'
  <2>1. /\ kicked' = kicked
        /\ \A k \in Node : pc'[k] = "refresh" => pc[k] = "refresh" /\ result'[k] = result[k]
    BY DEF IInv, TypeOK, Places
  <2> QED BY <2>1 DEF IInv, FencedOnRefresh
<1>6. AllFenced'
  BY BoundsAssumption
     DEF IInv, TypeOK, Result, Threads, FrozenVoters, FencedOnRefresh, AllFenced
<1> QED BY <1>1, <1>2, <1>3, <1>4, <1>5, <1>6 DEF IInv

\* cms_master_execute_result keeps the invariant.
LEMMA ExecuteStep ==
    ASSUME IInv, NEW n \in Node, Execute(n)
    PROVE  IInv'
<1> USE DEF Execute, voterVars, diskVars, countVars, fenceVars, boundVars, Goto, Fails
<1>1. TypeOK'
  <2>1. result' = [result EXCEPT ![n] = [result[n] EXCEPT !.stat = "ERR"]] \/ result' = result
    BY DEF IInv, TypeOK, Result
  <2>2. result' \in [Node -> Result]
    <3>1. result \in [Node -> Result] /\ [result[n] EXCEPT !.stat = "ERR"] \in Result
      BY ResultTypes DEF IInv, TypeOK
    <3> QED BY <2>1, <3>1, ResultTypes
  <2>3. disk' = disk \/ disk' = result'[n]
    OBVIOUS
  <2>4. disk' \in Result
    BY <2>2, <2>3 DEF IInv, TypeOK
  <2>5. pc' \in [Node -> Places]
    BY DEF IInv, TypeOK, Places
  <2>6. fails' \in 0 .. MaxFails
    BY BoundsAssumption DEF IInv, TypeOK
  <2> QED BY <2>2, <2>4, <2>5, <2>6 DEF IInv, TypeOK
<1>2. Threads'
  BY BoundsAssumption DEF IInv, TypeOK, Threads
<1>3. FrozenVoters'
  BY DEF IInv, TypeOK, Result, Threads, FrozenVoters
<1>4. MasterExecutes'
  BY DEF IInv, TypeOK, Threads, MasterExecutes
<1>5. FencedOnRefresh'
  BY BoundsAssumption DEF IInv, TypeOK, Result, Threads, FencedOnRefresh
<1>6. AllFenced'
  BY BoundsAssumption
     DEF IInv, TypeOK, Result, Threads, FrozenVoters, FencedOnRefresh, AllFenced
<1> QED BY <1>1, <1>2, <1>3, <1>4, <1>5, <1>6 DEF IInv

\* cms_execute_io_fence keeps the invariant.
LEMMA KickStep ==
    ASSUME IInv, NEW n \in Node, NEW m \in Node, Kick(n, m)
    PROVE  IInv'
<1> USE DEF Kick, voterVars, diskVars, countVars, fenceVars, boundVars, Excluded
<1>1. TypeOK'
  BY BoundsAssumption DEF IInv, TypeOK, Places, Result, Threads
<1>2. Threads'
  BY BoundsAssumption DEF IInv, TypeOK, Threads
<1>3. FrozenVoters'
  BY DEF IInv, TypeOK, Result, Threads, FrozenVoters
<1>4. MasterExecutes'
  BY DEF IInv, TypeOK, Threads, MasterExecutes
<1>5. FencedOnRefresh'
  <2>1. \A k \in Node : kicked'[k] >= kicked[k]
    BY DEF IInv, TypeOK, Places, Result
  <2>2. \A k, l \in Node : kicked[l] \in Int /\ kicked'[l] \in Int /\ result[k].round \in Int
    BY DEF IInv, TypeOK, Places, Result
  <2> QED BY <2>1, <2>2 DEF IInv, FencedOnRefresh
<1>6. AllFenced'
  BY BoundsAssumption
     DEF IInv, TypeOK, Result, Threads, FrozenVoters, FencedOnRefresh, AllFenced
<1> QED BY <1>1, <1>2, <1>3, <1>4, <1>5, <1>6 DEF IInv

\* cms_execute_io_fence keeps the invariant.
LEMMA FencedStep ==
    ASSUME IInv, NEW n \in Node, Fenced(n)
    PROVE  IInv'
<1> USE DEF Fenced, voterVars, diskVars, countVars, fenceVars, boundVars, Goto, Excluded
<1>1. TypeOK'
  BY BoundsAssumption DEF IInv, TypeOK, Places, Result, Threads
<1>2. Threads'
  BY BoundsAssumption DEF IInv, TypeOK, Threads
<1>3. FrozenVoters'
  BY DEF IInv, TypeOK, Result, Threads, FrozenVoters
<1>4. MasterExecutes'
  BY DEF IInv, TypeOK, Threads, MasterExecutes
<1>5. FencedOnRefresh'
  BY BoundsAssumption DEF IInv, TypeOK, Result, Threads, FencedOnRefresh
<1>6. AllFenced'
  BY BoundsAssumption
     DEF IInv, TypeOK, Result, Threads, FrozenVoters, FencedOnRefresh, AllFenced
<1> QED BY <1>1, <1>2, <1>3, <1>4, <1>5, <1>6 DEF IInv

\* cms_refresh_new_cluster_info keeps the invariant.
LEMMA TakeOfflineStep ==
    ASSUME IInv, NEW n \in Node, NEW m \in Node, TakeOffline(n, m)
    PROVE  IInv'
<1> USE DEF TakeOffline, voterVars, diskVars, countVars, fenceVars, boundVars, Excluded
<1>1. TypeOK'
  BY BoundsAssumption DEF IInv, TypeOK, Places, Result, Threads
<1>2. Threads'
  BY BoundsAssumption DEF IInv, TypeOK, Threads
<1>3. FrozenVoters'
  BY DEF IInv, TypeOK, Result, Threads, FrozenVoters
<1>4. MasterExecutes'
  BY DEF IInv, TypeOK, Threads, MasterExecutes
<1>5. FencedOnRefresh'
  BY BoundsAssumption DEF IInv, TypeOK, Result, Threads, FencedOnRefresh
<1>6. AllFenced'
  BY BoundsAssumption
     DEF IInv, TypeOK, Result, Threads, FrozenVoters, FencedOnRefresh, AllFenced
<1> QED BY <1>1, <1>2, <1>3, <1>4, <1>5, <1>6 DEF IInv

\* cms_refresh_new_cluster_info keeps the invariant.
LEMMA RefreshStep ==
    ASSUME IInv, NEW n \in Node, Refresh(n)
    PROVE  IInv'
<1> USE DEF Refresh, voterVars, diskVars, countVars, fenceVars, boundVars, Goto, Excluded
<1>1. TypeOK'
  <2>1. result' = [result EXCEPT ![n] = [result[n] EXCEPT !.stat = "DONE"]]
    BY DEF IInv, TypeOK, Result
  <2>2. result' \in [Node -> Result]
    <3>1. result \in [Node -> Result] /\ [result[n] EXCEPT !.stat = "DONE"] \in Result
      BY ResultTypes DEF IInv, TypeOK
    <3> QED BY <2>1, <3>1, ResultTypes
  <2>3. disk' \in Result
    BY <2>2
  <2>4. pc' \in [Node -> Places]
    BY DEF IInv, TypeOK, Places
  <2> QED BY <2>2, <2>3, <2>4 DEF IInv, TypeOK
<1>2. Threads'
  BY BoundsAssumption DEF IInv, TypeOK, Threads
<1>3. FrozenVoters'
  BY DEF IInv, TypeOK, Result, Threads, FrozenVoters
<1>4. MasterExecutes'
  BY DEF IInv, TypeOK, Threads, MasterExecutes
<1>5. FencedOnRefresh'
  BY BoundsAssumption DEF IInv, TypeOK, Result, Threads, FencedOnRefresh
<1>6. AllFenced'
  BY BoundsAssumption
     DEF IInv, TypeOK, Result, Threads, FrozenVoters, FencedOnRefresh, AllFenced
<1> QED BY <1>1, <1>2, <1>3, <1>4, <1>5, <1>6 DEF IInv

\* cms_master_execute_result keeps the invariant.
LEMMA RefreshFailsStep ==
    ASSUME IInv, NEW n \in Node, RefreshFails(n)
    PROVE  IInv'
<1> USE DEF RefreshFails, voterVars, diskVars, countVars, fenceVars, boundVars, Goto, Fails
<1>1. TypeOK'
  <2>1. result' = [result EXCEPT ![n] = [result[n] EXCEPT !.stat = "ERR"]] \/ result' = result
    BY DEF IInv, TypeOK, Result
  <2>2. result' \in [Node -> Result]
    <3>1. result \in [Node -> Result] /\ [result[n] EXCEPT !.stat = "ERR"] \in Result
      BY ResultTypes DEF IInv, TypeOK
    <3> QED BY <2>1, <3>1, ResultTypes
  <2>3. disk' = disk \/ disk' = result'[n]
    OBVIOUS
  <2>4. disk' \in Result
    BY <2>2, <2>3 DEF IInv, TypeOK
  <2>5. pc' \in [Node -> Places]
    BY DEF IInv, TypeOK, Places
  <2>6. fails' \in 0 .. MaxFails
    BY BoundsAssumption DEF IInv, TypeOK
  <2> QED BY <2>2, <2>4, <2>5, <2>6 DEF IInv, TypeOK
<1>2. Threads'
  BY BoundsAssumption DEF IInv, TypeOK, Threads
<1>3. FrozenVoters'
  BY DEF IInv, TypeOK, Result, Threads, FrozenVoters
<1>4. MasterExecutes'
  BY DEF IInv, TypeOK, Threads, MasterExecutes
<1>5. FencedOnRefresh'
  BY BoundsAssumption DEF IInv, TypeOK, Result, Threads, FencedOnRefresh
<1>6. AllFenced'
  BY BoundsAssumption
     DEF IInv, TypeOK, Result, Threads, FrozenVoters, FencedOnRefresh, AllFenced
<1> QED BY <1>1, <1>2, <1>3, <1>4, <1>5, <1>6 DEF IInv

\* cms_kill_self_by_vote_result keeps the invariant.
LEMMA LeaveStep ==
    ASSUME IInv, NEW n \in Node, Leave(n)
    PROVE  IInv'
<1> USE DEF Leave, voterVars, diskVars, countVars, fenceVars, boundVars, Goto, Stops
<1>1. TypeOK'
  <2>1. \/ UNCHANGED <<voterVars, master>> /\ pc' = [pc EXCEPT ![n] = "idle"]
        \/ /\ Stops(n)
           /\ result' = [result EXCEPT ![n] = InitialResult]
           /\ master' \in {master, NoNode}
    OBVIOUS
  <2>2. result' \in [Node -> Result]
    BY <2>1, ResultTypes DEF IInv, TypeOK
  <2>3. /\ up' \in [Node -> BOOLEAN] /\ event' \in [Node -> BOOLEAN]
        /\ lost' \in [Node -> SUBSET Node]
    BY <2>1 DEF IInv, TypeOK
  <2>4. round' \in [Node -> 0 .. MaxRound]
    BY <2>1, BoundsAssumption DEF IInv, TypeOK
  <2>5. pc' \in [Node -> Places]
    <3>1. pc' = [pc EXCEPT ![n] = "idle"]
      BY <2>1
    <3> QED BY <3>1 DEF IInv, TypeOK, Places
  <2>6. master' \in Node \union {NoNode}
    BY <2>1 DEF IInv, TypeOK
  <2> QED BY <2>2, <2>3, <2>4, <2>5, <2>6 DEF IInv, TypeOK
<1>2. Threads'
  BY BoundsAssumption DEF IInv, TypeOK, Threads
<1>3. FrozenVoters'
  BY DEF IInv, TypeOK, Result, Threads, FrozenVoters
<1>4. MasterExecutes'
  BY DEF IInv, TypeOK, Threads, MasterExecutes
<1>5. FencedOnRefresh'
  <2>1. /\ kicked' = kicked
        /\ \A k \in Node : pc'[k] = "refresh" => pc[k] = "refresh" /\ result'[k] = result[k]
    BY DEF IInv, TypeOK
  <2> QED BY <2>1 DEF IInv, FencedOnRefresh
<1>6. AllFenced'
  BY BoundsAssumption
     DEF IInv, TypeOK, Result, Threads, FrozenVoters, FencedOnRefresh, AllFenced
<1> QED BY <1>1, <1>2, <1>3, <1>4, <1>5, <1>6 DEF IInv

\* wait_for_vote_done keeps the invariant.
LEMMA WaitReadStep ==
    ASSUME IInv, NEW n \in Node, WaitRead(n)
    PROVE  IInv'
<1> USE DEF WaitRead, voterVars, diskVars, countVars, fenceVars, boundVars, Goto
<1>1. TypeOK'
  <2>1. result' \in [Node -> Result]
    <3>1. \/ result' = [result EXCEPT ![n] = [disk EXCEPT !.stat = "ERR"]]
         \/ result' = [result EXCEPT ![n] = disk]
      BY DEF IInv, TypeOK, Places
    <3>2. disk \in Result /\ InitialResult \in Result /\ result \in [Node -> Result]
      BY ResultTypes DEF IInv, TypeOK, Places
    <3> QED BY <3>1, <3>2, ResultTypes
  <2>2. pc' \in [Node -> Places]
    <3>1. pc' = [pc EXCEPT ![n] = "idle"] \/ pc' = [pc EXCEPT ![n] = "check"]
      OBVIOUS
    <3>2. pc \in [Node -> Places]
      BY DEF IInv, TypeOK, Places
    <3> HIDE DEF WaitRead
    <3> QED BY <3>1, <3>2 DEF Places
  <2> QED BY <2>1, <2>2 DEF IInv, TypeOK, Places
<1>2. Threads'
  BY BoundsAssumption DEF IInv, TypeOK, Threads
<1>3. FrozenVoters'
  <2>1. \A k \in Node : pc'[k] \notin {"idle", "check"}
                          => pc[k] = pc'[k] /\ result'[k] = result[k]
    BY DEF IInv, TypeOK, Places
  <2> QED BY <2>1 DEF IInv, FrozenVoters
<1>4. MasterExecutes'
  BY DEF IInv, TypeOK, Threads, MasterExecutes
<1>5. FencedOnRefresh'
  <2>1. /\ kicked' = kicked
        /\ \A k \in Node : pc'[k] = "refresh" => pc[k] = "refresh" /\ result'[k] = result[k]
    BY DEF IInv, TypeOK, Places
  <2> QED BY <2>1 DEF IInv, FencedOnRefresh
<1>6. AllFenced'
  BY BoundsAssumption
     DEF IInv, TypeOK, Result, Threads, FrozenVoters, FencedOnRefresh, AllFenced
<1> QED BY <1>1, <1>2, <1>3, <1>4, <1>5, <1>6 DEF IInv

\* wait_for_vote_done keeps the invariant.
LEMMA WaitCheckStep ==
    ASSUME IInv, NEW n \in Node, WaitCheck(n)
    PROVE  IInv'
<1> USE DEF WaitCheck, voterVars, diskVars, countVars, fenceVars, boundVars, Goto, MasterKnown
<1>1. TypeOK'
  BY BoundsAssumption DEF IInv, TypeOK, Places, Result, Threads
<1>2. Threads'
  BY BoundsAssumption DEF IInv, TypeOK, Threads
<1>3. FrozenVoters'
  BY DEF IInv, TypeOK, Result, Threads, FrozenVoters
<1>4. MasterExecutes'
  BY DEF IInv, TypeOK, Threads, MasterExecutes
<1>5. FencedOnRefresh'
  BY BoundsAssumption DEF IInv, TypeOK, Result, Threads, FencedOnRefresh
<1>6. AllFenced'
  BY BoundsAssumption
     DEF IInv, TypeOK, Result, Threads, FrozenVoters, FencedOnRefresh, AllFenced
<1> QED BY <1>1, <1>2, <1>3, <1>4, <1>5, <1>6 DEF IInv

\* Every step keeps the invariant.
LEMMA NextIInv ==
    ASSUME IInv, [Next]_vars
    PROVE  IInv'
<1>1. CASE UNCHANGED vars
  BY <1>1 DEF vars, voterVars, diskVars, countVars, fenceVars, boundVars, IInv, TypeOK,
              Threads, FrozenVoters, MasterExecutes, FencedOnRefresh, AllFenced
<1>2. ASSUME NEW n \in Node, HbLost(n) PROVE IInv'
  BY <1>2, HbLostStep
<1>3. ASSUME NEW n \in Node, Crash(n) PROVE IInv'
  BY <1>3, CrashStep
<1>4. ASSUME NEW n \in Node, BeMaster(n) PROVE IInv'
  BY <1>4, BeMasterStep
<1>5. ASSUME NEW n \in Node, Start(n) PROVE IInv'
  BY <1>5, StartStep
<1>6. ASSUME NEW n \in Node, DetectErr(n) PROVE IInv'
  BY <1>6, DetectErrStep
<1>7. ASSUME NEW n \in Node, DetectNewRound(n) PROVE IInv'
  BY <1>7, DetectNewRoundStep
<1>8. ASSUME NEW n \in Node, Wake(n) PROVE IInv'
  BY <1>8, WakeStep
<1>9. ASSUME NEW n \in Node, StartVoting(n) PROVE IInv'
  BY <1>9, StartVotingStep
<1>10. ASSUME NEW n \in Node, MarkFrozen(n) PROVE IInv'
  BY <1>10, MarkFrozenStep
<1>11. ASSUME NEW n \in Node, SetTrigger(n) PROVE IInv'
  BY <1>11, SetTriggerStep
<1>12. ASSUME NEW n \in Node, CastVote(n) PROVE IInv'
  BY <1>12, CastVoteStep
<1>13. ASSUME NEW n \in Node, RoundStart(n) PROVE IInv'
  BY <1>13, RoundStartStep
<1>14. ASSUME NEW n \in Node, ReadTime(n) PROVE IInv'
  BY <1>14, ReadTimeStep
<1>15. ASSUME NEW n \in Node, ReadVote(n) PROVE IInv'
  BY <1>15, ReadVoteStep
<1>16. ASSUME NEW n \in Node, CountVotes(n) PROVE IInv'
  BY <1>16, CountVotesStep
<1>17. ASSUME NEW n \in Node, GetResult(n) PROVE IInv'
  BY <1>17, GetResultStep
<1>18. ASSUME NEW n \in Node, Proceed(n) PROVE IInv'
  BY <1>18, ProceedStep
<1>19. ASSUME NEW n \in Node, Execute(n) PROVE IInv'
  BY <1>19, ExecuteStep
<1>20. ASSUME NEW n \in Node, Fenced(n) PROVE IInv'
  BY <1>20, FencedStep
<1>21. ASSUME NEW n \in Node, Refresh(n) PROVE IInv'
  BY <1>21, RefreshStep
<1>22. ASSUME NEW n \in Node, RefreshFails(n) PROVE IInv'
  BY <1>22, RefreshFailsStep
<1>23. ASSUME NEW n \in Node, Leave(n) PROVE IInv'
  BY <1>23, LeaveStep
<1>24. ASSUME NEW n \in Node, WaitRead(n) PROVE IInv'
  BY <1>24, WaitReadStep
<1>25. ASSUME NEW n \in Node, WaitCheck(n) PROVE IInv'
  BY <1>25, WaitCheckStep
<1>26. ASSUME NEW n \in Node, NEW m \in Node, Kick(n, m) PROVE IInv'
  BY <1>26, KickStep
<1>27. ASSUME NEW n \in Node, NEW m \in Node, TakeOffline(n, m) PROVE IInv'
  BY <1>27, TakeOfflineStep
<1>28. ASSUME NEW n \in Node, NEW m \in Node, Heartbeat(n, m) PROVE IInv'
  BY <1>28, HeartbeatStep
<1> QED
  BY <1>1, <1>2, <1>3, <1>4, <1>5, <1>6, <1>7, <1>8, <1>9, <1>10, <1>11, <1>12, <1>13,
     <1>14, <1>15, <1>16, <1>17, <1>18, <1>19, <1>20, <1>21, <1>22, <1>23, <1>24, <1>25,
     <1>26, <1>27, <1>28
     DEF Next, VoteStep

\* The invariant holds in every reachable state.
LEMMA Invariant == Spec => []IInv
<1>1. Init => IInv
  BY InitIInv
<1>2. IInv /\ [Next]_vars => IInv'
  BY NextIInv
<1> QED BY <1>1, <1>2, PTL DEF Spec

\* The variables keep their types: in particular a round never passes the bound,
\* and a result of cms_get_max_full_connect names nodes only.
THEOREM VoteTypes == Spec => []TypeOK
<1>1. IInv => TypeOK
  BY DEF IInv
<1> QED BY <1>1, Invariant, PTL

\* An arbitration that is done has fenced every database outside the new cluster
\* but its master's own, whatever nodes crashed, took over or came back meanwhile.
THEOREM DoneIsFenced == Spec => []AllFenced
<1>1. IInv => AllFenced
  BY DEF IInv
<1> QED BY <1>1, Invariant, PTL

\* The cluster status, whose change starts the reform, is written only for nodes
\* that were fenced in the round that is carried out.
THEOREM OfflineIsFenced == Spec => FencedFirst
<1> DEFINE Step == \A m \in Node : (db[m] # "offline" /\ db'[m] = "offline" /\ m # master)
                      => kicked[m] >= result[master].round
<1>1. IInv /\ [Next]_vars => [Step]_vars
  <2> SUFFICES ASSUME IInv, Next PROVE Step
    OBVIOUS
  <2>1. ASSUME NEW n \in Node, NEW k \in Node, TakeOffline(n, k) PROVE Step
    <3>1. master = n /\ k \in Node \ result[n].map
      BY <2>1 DEF IInv, MasterExecutes, TakeOffline, Excluded
    <3>2. k # n => kicked[k] >= result[n].round
      BY <2>1, <3>1 DEF IInv, FencedOnRefresh, TakeOffline
    <3>3. \A m \in Node : m # k => db'[m] = db[m]
      BY <2>1 DEF IInv, TypeOK, Places, TakeOffline
    <3> QED BY <3>1, <3>2, <3>3
  <2>2. ASSUME NEW n \in Node, HbLost(n) PROVE db' = db
    BY <2>2 DEF HbLost
  <2>3. ASSUME NEW n \in Node, Crash(n) PROVE db' = db
    BY <2>3 DEF Crash
  <2>4. ASSUME NEW n \in Node, BeMaster(n) PROVE db' = db
    BY <2>4 DEF BeMaster
  <2>5. ASSUME NEW n \in Node, Start(n) PROVE db' = db
    BY <2>5 DEF Start
  <2>6. ASSUME NEW n \in Node, DetectErr(n) PROVE db' = db
    BY <2>6 DEF DetectErr
  <2>7. ASSUME NEW n \in Node, DetectNewRound(n) PROVE db' = db
    BY <2>7 DEF DetectNewRound
  <2>8. ASSUME NEW n \in Node, Wake(n) PROVE db' = db
    BY <2>8 DEF Wake
  <2>9. ASSUME NEW n \in Node, StartVoting(n) PROVE db' = db
    BY <2>9 DEF StartVoting
  <2>10. ASSUME NEW n \in Node, MarkFrozen(n) PROVE db' = db
    BY <2>10 DEF MarkFrozen
  <2>11. ASSUME NEW n \in Node, SetTrigger(n) PROVE db' = db
    BY <2>11 DEF SetTrigger
  <2>12. ASSUME NEW n \in Node, CastVote(n) PROVE db' = db
    BY <2>12 DEF CastVote
  <2>13. ASSUME NEW n \in Node, RoundStart(n) PROVE db' = db
    BY <2>13 DEF RoundStart
  <2>14. ASSUME NEW n \in Node, ReadTime(n) PROVE db' = db
    BY <2>14 DEF ReadTime
  <2>15. ASSUME NEW n \in Node, ReadVote(n) PROVE db' = db
    BY <2>15 DEF ReadVote
  <2>16. ASSUME NEW n \in Node, CountVotes(n) PROVE db' = db
    BY <2>16 DEF CountVotes
  <2>17. ASSUME NEW n \in Node, GetResult(n) PROVE db' = db
    BY <2>17 DEF GetResult
  <2>18. ASSUME NEW n \in Node, Proceed(n) PROVE db' = db
    BY <2>18 DEF Proceed
  <2>19. ASSUME NEW n \in Node, Execute(n) PROVE db' = db
    BY <2>19 DEF Execute
  <2>20. ASSUME NEW n \in Node, Fenced(n) PROVE db' = db
    BY <2>20 DEF Fenced
  <2>21. ASSUME NEW n \in Node, Refresh(n) PROVE db' = db
    BY <2>21 DEF Refresh
  <2>22. ASSUME NEW n \in Node, RefreshFails(n) PROVE db' = db
    BY <2>22 DEF RefreshFails
  <2>23. ASSUME NEW n \in Node, Leave(n) PROVE db' = db
    BY <2>23 DEF Leave
  <2>24. ASSUME NEW n \in Node, WaitRead(n) PROVE db' = db
    BY <2>24 DEF WaitRead
  <2>25. ASSUME NEW n \in Node, WaitCheck(n) PROVE db' = db
    BY <2>25 DEF WaitCheck
  <2>26. ASSUME NEW n \in Node, NEW m \in Node, Kick(n, m) PROVE db' = db
    BY <2>26 DEF Kick
  <2>27. ASSUME NEW n \in Node, NEW m \in Node, Heartbeat(n, m) PROVE db' = db
    BY <2>27 DEF Heartbeat
  <2> QED
    BY <2>1, <2>2, <2>3, <2>4, <2>5, <2>6, <2>7, <2>8, <2>9, <2>10, <2>11, <2>12, <2>13,
       <2>14, <2>15, <2>16, <2>17, <2>18, <2>19, <2>20, <2>21, <2>22, <2>23, <2>24,
       <2>25, <2>26, <2>27
       DEF Next, VoteStep
<1>2. Spec => [][Step]_vars
  BY <1>1, Invariant, PTL DEF Spec
<1> QED BY <1>2 DEF FencedFirst
=============================================================================
