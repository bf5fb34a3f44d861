# The cluster protocols of Cantian in TLA+

Cantian lets several database instances on different nodes write the same data
files on shared storage. Three protocols make that safe: the page protocol
decides which instance may read or change a page and what is written to disk; the
lock protocol does the same for latches that are held across instances, through
the crash of an instance; and the cluster manager arbitrates which nodes go on
after some of them lose each other. This directory models all three, checks them
with TLC on small clusters and proves parts of them with TLAPS for every cluster.

Paths below are relative to `src/`; line numbers are those of the commit
modelled.

## 1. The system

| Component | Sources | State | Operations | Hard behaviour |
|---|---|---|---|---|
| Resource catalogue (DRC) | `pkg/src/cluster/dtc_drc.c` | per page on its master: owner, mode, request being converted, convert queue, read-only copies, early dirty pages (EDP), lsn | request, convert, claim, clean EDP, recycle an entry; the same for locks | requests cross claims; locks are given up while copies are invalidated; repeated requests |
| Page service (DCS) | `pkg/src/cluster/dtc_dcs.c` | messages between requester, master and owner | ask, transfer, claim, invalidate, clean EDP | late and repeated messages, page latch held while waiting |
| Cluster buffer access | `pkg/src/cluster/dtc_buffer.c` | lock mode and load status of a buffer block | `dtc_read_page`, retry after an error | decisions taken on a block that changes when the latch is given back |
| Buffer pool | `pkg/src/kernel/buffer` | control blocks, latches | allocate, latch, evict, invalidate | eviction tells nobody |
| Checkpoint | `pkg/src/kernel/persist/knl_ckpt.c`, `pkg/src/cluster/dtc_ckpt.c` | checkpoint queue, write group, EDP groups | prepare, write, ask the owner, announce, clean | two instances write one page; a request follows an owner that changes |
| Distributed locks (DLS) | `pkg/src/cluster/dtc_dls.c` | per lock on its master: mode, holders, converting request, queue; per instance: the mode kept and the local latch | latch shared, exclusive, upgrade, timed calls, unlatch, release, claim | an instance keeps a mode after its sessions gave it back; two holders ask for more at once |
| Remastering and crash cleaning | `dtc_drc.c`, `dtc_drc_util.c` | which instance masters which bucket | migrate, clean the entries of dead instances | a crash between transfer and claim |
| Reform control | `pkg/src/rc/rc_reform.c`, `pkg/src/cluster/dtc_reform.c` | cluster view, reform step, version | join, leave, fail-over | a reform during a reform, old messages |
| Recovery | `pkg/src/cluster/dtc_recovery.c` | recovery set, redo batches | analyse, replay | partial replay |
| Split-brain arbitration (CMS) with heartbeats, node status and fencing | `pkg/src/cms/cms/cms_vote.c`, `cms_node_fault.c`, `cms_stat.c` | votes, trigger rounds and the result on the voting disk; status of every database; master lock | trigger, vote, count, fence, take offline, stop oneself | the master crashes at any step; nodes see each other one way only; a node that was away |
| Rest of CMS | `pkg/src/cms/cms` | resources, configuration, disk locks | start, check, stop resources | input/output |
| Messaging (MES) | `pkg/src/mec` | queues, waiting sessions | send, broadcast, wait, retry | time-outs against late answers |
| Cluster transactions | `dtc_tran.c`, `dtc_smon.c` | remote transaction waits | wait, detect deadlocks | distributed deadlocks |
| Kernel, SQL, server, TSE/CTC connector, drivers, tools, deployment | `pkg/src/kernel`, `pkg/src/ctsql`, `pkg/src/server`, `pkg/src/tse`, ... | - | - | single-instance code or input/output |

How they interact. A session calls `dtc_read_page`, which latches the buffer
block and, when the block's cluster lock mode does not suffice, asks the page's
master (`dcs_request_page`). The master looks the page up in the catalogue
(`drc_request_page_owner`): it grants an unknown page, queues the request, or
converts it: it has the read-only copies dropped and asks the owner
for the page. The owner sends it (`dcs_owner_transfer_page`) and, when it gives
up a changed page, keeps it as an *early dirty page*, because its redo is only
safe once the page is on disk. The requester installs the page and *claims* it
(`dcs_claim_ownership_l`/`_r`); only the claim changes the owner in the
catalogue and lets the next request be converted. The checkpoint of a former
owner asks the current one, through the master, to write the page; once it is
written the former owners are told to drop their early dirty pages. A
background task recycles catalogue entries.

A distributed latch works alike, but what is transferred is only a mode: a session
asks the lock's master unless its instance already has the mode
(`dls_latch_s`, `dls_latch_x`), the master asks the holders of a conflicting mode to
release it (`dls_process_release_ownership`), each of which waits for its own
sessions, and then grants it (`drc_claim_lock_owner`). After a crash the reform
raises a version that fences the requests sent before, every instance closes its
part map, the masters that live drop what the dead instance had
(`drc_clean_lock_owner_by_part`), locks of a dead master get a new one to which
the survivors report their modes, and the part map is opened again.

Which instances are alive is decided below: CMS nodes that miss heartbeats start a
round of voting. Every node writes whom it sees to the voting disk, the CMS master
chooses the new cluster from the votes, fences the databases of the others, marks
them offline - this is what triggers the reform of the databases - and declares
the round done. A node that reads that it is outside stops itself. Until then all are
frozen.

What makes this correct. Pages: one writer at a time; whoever gets the page sees
every earlier change; the catalogue knows every instance that may use the page
without asking; no change that is not on disk is forgotten by the instance
whose redo has it; no request waits for ever; no assertion fires. Latches: an
exclusive latch excludes every session of the cluster; the master's entry covers
what the instances keep, also after a crash; requests that conflict do not wait
for each other in a circle. Arbitration: no database is taken offline, and its
pages recovered, while it can still write; the survivors are a largest group of
nodes that see each other; no node stays frozen or behind.

## 2. The modules

| Module | Models |
|---|---|
| `DrcLock` | the lock modes |
| `Drc` | the catalogue entry `drc_buf_res_t` and the bodies that change it under the bucket lock |
| `BufCtrl` | the control block `buf_ctrl_t` and what the protocol does to it under the page latch |
| `CoherentPage` | abstract: one page that many read or one changes |
| `Dcs` | the protocol: sessions, master, owner, invalidation, recycling, checkpoint; composes `Drc` and `BufCtrl`, is shown to implement `CoherentPage`, and states the properties |
| `LockRes` | the lock entry `drc_master_res_t` and the bodies that change it under its locks |
| `Dls` | the latch protocol: sessions, master, owners, crash and reform; uses `LockRes` |
| `VoteCount` | the algorithm that turns votes into the new cluster, and the reference definition (`Best`) it is compared with |
| `Vote` | the arbitration: heartbeats, voting threads, master lock, fencing, crashes and restarts; uses `VoteCount` |
| `MCDcs`, `MCDls`, `MCVote` | the instances for TLC: symmetry, sets of sessions, broken connections |
| `DcsProofs`, `DcsSafety`, `DcsFresh`, `DcsDisk` | the theorems about pages, each module on top of the one before |
| `DlsProofs`, `VoteProofs` | the theorems about latches and the arbitration |

### Pages

State of `Dcs` and the code it stands for:

| Variable | Code |
|---|---|
| `res` | the page's `drc_buf_res_t` |
| `inv` | sessions of the master waiting in `dcs_invalidate_readonly_copy` or in `drc_recycle_items`, with what they read before |
| `ctrl` | `buf_ctrl_t` per instance: `lock_mode`, `load_status`, page lsn, `is_dirty`/`in_ckpt`, `is_edp`, `is_remote_dirty` |
| `ses` | where the session is in `dtc_read_page`: not there, asleep before a retry, waiting for an answer, using the page |
| `sn` | number of requests given up; stands for `rsn` and `req_time` |
| `msgs` | page messages in flight |
| `mark` | `is_marked`, with the lsn of the page copied to the write group |
| `grp`, `cln`, `out` | `remote_edp_group`, `local_edp_clean_group`, `remote_edp_clean_group` (messages under way to a group are in it) |
| `disk`, `hist` | the lsn of the disk page; who wrote which lsn |
| `panic` | a `knl_panic` fired |

Actions of `Dcs`:

| Action | Code |
|---|---|
| `EnterLocal`, `EnterRemote`, `HandleError`, `RequestTimeout`, `LeavePage`, `ModifyPage` | `dtc_read_page`, `dtc_buf_try_remote`, `dtc_buf_finish`, `dcs_request_page` |
| `HandleNeedLoad`, `HandleAlreadyOwner`, `HandlePageReady` | the three answers to a request, each with the claim it makes |
| `AskGranted`, `AskRejected`, `AskConverting`, `AskRetried`, `AskQueued` | the outcomes of `drc_request_page_owner` and what `dcs_process_ask_master_for_page` does then |
| `ProcClaim`, `ProcClaimIgnored` | `drc_claim_page_owner` with the conversion of the next request |
| `InvalidateCopy`, `RoundDone` | `dcs_invalidate_readonly_copy` and its end |
| `RecycleStart`, `RecycleOwner`, `RecycleDone` | `drc_recycle_items`, split where it gives up its locks |
| `OwnerTransfer` | `dcs_owner_transfer_page` |
| `Evict` | buffer recycling |
| `CkptPrepareNormal`, `CkptRemotePrepare`, `CkptWrite`, `CkptAnnounce`, `CkptCleanLocal`, `ProcCkptReq`, `ProcCleanReq` | the checkpoint on both sides and the master's part |

What is abstracted:

- One page, and one session per instance, so that the session id, which tells
  requests of one instance apart (`dtc_drc.c:1179`), need not be compared.
  The hot-page and resident-page heuristics and the `BUF_RES_IS_OLD` time
  window are left out: what they allow may happen at any time.
- Messages are a set: MES neither loses nor duplicates them, and they arrive in
  any order. A reply to a request that was given up is dropped, as `mes_recv`
  does by its `rsn`. What the master answers a session of its own instance
  arrives at once, because it is a return value. A broadcast waits for all
  answers and collects their error codes (`pkg/src/mec/mes_func.c:1268-1312`).
- Sending the page and changing the owner's block are one step: the page latch
  is held exclusively throughout.
- `in_ckpt` is identified with "dirty": a dirty page is in the checkpoint queue.
- `dcs_master_clean_edp` reads the EDP map and clears it in one step (the code
  takes the lock twice; see the hazards in `PROJECT.json`).
- The branch of `buf_clean_edp` for an invalid page lsn is left out: no code
  announces one (`dtc_ckpt.c:532` and the write group pass the lsn of a page).
- The pool of lock items never runs out, and the write group never fills.
- No instance crashes. After a panic the specification stops, because what
  follows is reform.
- The recycling that notifies the owner (`dcs_process_recycle_owner`) is left
  out: `buf_expire_normal` invalidates the bucket id before
  `pkg/src/kernel/buffer/knl_buffer.c:848-851` looks at it.

### Latches

State of `Dls`:

| Variable | Code |
|---|---|
| `master`, `target` | the lock's master in the part map; the one that the reform assigns |
| `res` | `drc_master_res_t` on the master: `mode`, `granted_map`, `converting`, `convert_q` |
| `loc` | `drc_local_lock_res_t` per instance: `lock_mode`, `stat`, `shared_count`, `is_locked` |
| `sess` | where a session is: idle, trying (`wantS`, `wantX`), waiting for the master (`reqS`, `reqX`, `reqIX`), announced (`ix`), giving up (`quit`), holding (`S`, `X`) |
| `rsn`, `hnd` | the request a session waits for; per request what the master's handler has done: received, queued, asking the owners, answered |
| `stray` | release messages whose sender gave up waiting |
| `dead`, `ver`, `phase` | the instance that crashed; `trigger_version` and progress of the reform per instance |

Actions of `Dls`:

| Action | Code |
|---|---|
| `Call`, `LatchS`, `LatchX`, `Ix2x`, `GiveUp`, `Unlatch` | `dls_latch_s`, `dls_latch_x`, `dls_latch_ix2x`, their timed forms, `dls_unlatch` |
| `Answered`, `WaitFails` | `dls_request_msg`: an answer, or `mes_recv_impl` fails because a peer is dead |
| `drc_request_lock_owner`, `Poll` | the request on the master: converted, queued, refused; the poll of a queued one |
| `ReleaseOwnership`, `OwnerAnswered`, `OwnerWaitFails`, `Claim` | the loop over the owners in `dls_process_ask_master_for_latch` or `dls_request_lock`, the release on the owner, the claim |
| `Stray` | a release whose sender no longer waits |
| `Crash`, `Trigger`, `Freeze`, `AssignTask`, `Remaster`, `Open` | crash; detection of the reform; freeze and closed part map; remaster tasks; cleaning or rebuilding of the entry; publishing |

What is abstracted: one lock; the spin lock of a local entry is held during a whole
request, so the session and its request are one; owners are asked in any order
(the code: ascending); a timed call may give up at any of the points where the
code looks at the clock; at most one instance crashes, and it does not come back;
all survivors see the reform with one new version. `Settled` says that what was
under way on an instance (a wait of at most 5 ms) ends before its reform, which takes
barriers over all instances, does. Left out: spin locks without latch status
(`dls_spin_lock`), table locks, the shutdown lock, the recycling of local entries,
the broadcast of btree splits.

### Arbitration

State of `Vote`: on the voting disk `disk` (`vote_result`), `trigger`
(`CMS_VOTE_TRIGGER_ROUND`) and `vote` (`CMS_VOTE_INFO`) of every node; in the
cluster status `db`, the database of every node; per node `up`, `lost` (heartbeats over
the threshold), `round` (`vote_data.vote_round`), `result` (`vote_result` in memory),
`event` (`voting_sync`), `pc` (place in `cms_voting_entry`); `master`, who has or had the
master lock; of the master that counts `seen` (the next vote it reads), `begin` (the start
time it found) and `rows` (the votes it read, `all_nodes_vote_msg`); `kicked`, the last
round in which a database was fenced. `carrier`, the node that carried out the last
result, is a history variable: no action looks at it.

| Action | Code |
|---|---|
| `Heartbeat`, `HbLost` | `cms_hb_counter_update`, `cms_hb_lost_handle` |
| `DetectErr`, `DetectNewRound` | `cms_detect_voting_entry`, `detect_new_vote_round` |
| `Wake`, `StartVoting`, `MarkFrozen`, `SetTrigger`, `CastVote` | `cms_voting_entry`, `cms_start_new_voting`, one action per disk write |
| `RoundStart`, `ReadTime`, `ReadVote`, `CountVotes` | `cms_get_new_vote_result` on the master: start times and votes are read node by node, then the choice is made and written |
| `GetResult` | `cms_get_new_vote_result` on another node |
| `Proceed`, `Execute`, `Kick`, `Fenced`, `TakeOffline`, `Refresh`, `RefreshFails`, `Leave` | `cms_master_execute_result` |
| `WaitRead`, `WaitCheck` | `wait_for_vote_done`: its read of the result and the question whether the node is now master |
| `BeMaster`, `Crash`, `Start` | `cms_try_be_master`; a process ends; `cms_init_vote_info` |

What is abstracted: blocks of the voting disk are written and read atomically, and a
failed access is left out when the code repeats it without any other effect. The failures
that change the course are modelled and bounded by `MaxFails`:

- the frozen result cannot be written, and the master does not vote (`MarkFrozen`);
- the cluster status is read with the last try only, or not at all, and then every node
  counts as online (`LateStatus`, `cms_vote.c:654-665`); the count cannot be written and
  is repeated (`CountVotes`);
- `cms_execute_io_fence` fails: the result is `VOTE_ERR` and the master goes on, although
  it may be outside the new cluster (`Execute`, `cms_vote.c:965-972`). Only a failing
  `try_cms_kick_node` aborts the process, which is `Crash`;
- a node cannot be taken offline or the end cannot be written (`RefreshFails`); `VOTE_ERR`
  then is on the disk, or that write fails too.

A node that starts judges by the age of the disk heartbeats whether all others are down
(`cms_is_all_restart`): those of a running node are fresh, those of a node that stopped may be
fresh or old, so that `Start` may also find nobody running and keep the voting disk. The
status read for the count is the current one; the master lock is held until its process
ends; the broadcast of the offline status is left out; a database that was taken
offline does not join again.

## 3. The runs

### Pages

Constants and bounds, all named in `Dcs`: `MaxLsn` (last modification),
`Impatient` and `MaxTimeouts` (who gives up requests, how often), `MaxTraffic`
(checkpoint requests and notices under way when a checkpoint prepares the page),
`Evictors`, `Flushers`, `Recycling` (what runs in the background),
`ClaimsOrdered` (a claim reaches the master before later requests of its
instance), `SlowWrites` (a disk write may be overtaken). Two lsns make a page
older and newer than another; three let a page pass through an owner that has
changed it and one that has not. Two instances are master and non-master, each
as requester and as owner; three are needed only where requester, owner and copy
holder are different, which is what `trio_page` is for.

| Run | Setting | Shows |
|---|---|---|
| `trio_page` | three, recycling, eviction on all but the master | one writer at a time (`SingleWriter`), always the newest page (`Fresh`), an invalidation round never outlives its conversion (`RoundEntryConverting`), the master knows all holders (`DirCovers`) |
| `pair_page` | two, both checkpointing with slow writes, one evicting, three versions | the cluster implements one coherent page (`Coherent`), `DirCovers`, the newest page is never lost although an older one may be written over it (`NewestKept`) |
| `pair_checkpoint` | two, both checkpointing, three versions | no redo is given up early (`RedoKept`, `EdpOnDisk`), no assertion fires (`NoPanic`) |
| `pair_timeout` | the master instance gives up requests and evicts, the other one checkpoints, recycling | `SingleWriter`, `DirCovers`, `RoundEntryConverting`, types; the catalogue stays consistent and serves its queue (`CatalogueSound`); an entry is only forgotten when idle (`ForgottenIdle`) |
| `pair_answered` | two, no time-outs, fair | every request is answered (`AskAnswered`) |

`pair_page` has no recycling and no eviction on the master: with three versions and slow writes
it would not finish. Both are in other runs, and `ClusterCoherent`, `DirectoryCovers` and
`NewestIsKept` (section 4) cover the two together. `RedoKept` and `EdpOnDisk` do not hold with
evictions or with writes that overtake each other (hazards at `dtc_ckpt.c:532` and
`dtc_ckpt.c:577`), which is why `pair_checkpoint` has neither; `DcsDisk` proves
that nothing else breaks them.

Deadlock is checked in `pair_page`, `pair_checkpoint` and `pair_answered`. In
`trio_page` instances can come to wait for each other until a time-out: a copy holder
is queued behind a third instance's request whose invalidation needs the
holder's latch (`dtc_drc.c:966`). In `pair_timeout` a panic can stop the system: a
request that was given up reaches the master after its repetition was served
(`dtc_dcs.c:599`). The hazards of `PROJECT.json` list these and the other settings in
which a property of this list does not hold.

**Fairness** of `pair_answered`: weak fairness for handling a message, leaving the
page, ending a disk write and the steps of a started round, all of which are
threads that run on; strong fairness for getting a page latch that sessions take
and give back (`InvalidateCopy`, `OwnerTransfer`), because a waiting exclusive
latcher holds off later readers (`LATCH_STATUS_IX`,
`pkg/src/kernel/buffer/knl_buflatch.h:75-160`). Nobody has to ask for a page and no
checkpoint has to start. "Answered" includes an error, after which the session
sleeps and asks again: nothing in the code bounds how often.

### Latches

`Sess` and `Timed` say which sessions there are and which use timed calls, `Mortal` who
may crash, `Rsn` how many requests of a session may be worked on at once (a second
one only after a failed wait).

| Run | Setting | Shows |
|---|---|---|
| `latch_trio` | three instances, two sessions on one of them, one timed | an exclusive latch excludes the cluster (`Exclusive`), the master's entry covers every mode kept (`Covered`), no assertion fires (`NoPanic`), no deadlock |
| `latch_progress` | two sessions of the master, one of another instance, fair | while sessions wait one gets the latch (`LatchTaken`); a queued request is served (`QueuedGranted`), an announced upgrade succeeds (`UpgradeGranted`) |
| `latch_reform` | two instances with two sessions each, either may crash | the survivor's mode is `Covered` again after the reform, whichever of them was master |
| `reform_error_msg` (violation) | three instances, one that is not the master crashes | a queued request that the reform answers by `MES_CMD_ERROR_MSG` counts as granted, so that `Exclusive` fails |

Three instances are needed for a master that is neither requester nor owner, two
sessions on one instance for the local latch (sharers, `IX`, a second requester). In
`latch_reform` there are two instances, so that one survives; with two survivors
`Exclusive` fails, which is the finding `reform_error_msg`. The run stops where `NoPanic` fails (a claim that does not
fit the cleaned entry, `dtc_drc.c:2677`), and does not check deadlock for that reason.

**Fairness** of `latch_progress`: strong fairness of the steps of a session once it has
called, and of the handler of its request; a session that has the latch gives it
back, and one that tries again and again for a spin lock gets it at last. A single
session may starve before it is queued: a refused request starts over. `QueuedGranted`
and `UpgradeGranted` also assume (`Vacated`) that no instance is occupied for ever by
sessions in turn, which the code does not prevent.

### Arbitration

`Mortal`, `Cuts` and `Booting` say which nodes may crash, miss the heartbeats of which
others, and have a database that need not have joined; `MaxRound`, `MaxFails` and `MaxStarts`
bound rounds, failures of the master and restarts. `Clock` and `Period` are what the
clock of each voter may read and the time a vote is valid.

| Run | Setting | Shows |
|---|---|---|
| `vote_trio` | three nodes, two of which may crash, two rounds, one failure | a node is fenced before it is taken offline (`FencedFirst`), a finished arbitration has fenced everyone outside but the master that carried it out (`AllFenced`), the new cluster is a largest group of nodes that voted in the round and see each other by the votes as they were read (`LargestGroup`), and they voted within one period although start time and votes are read in two passes (`VotesTogether`) |
| `vote_pair` | two nodes that may crash, one restart, two rounds, one failure, fair | `FencedFirst`; no node stays frozen (`VoteEnds`) or behind the others' round (`NobodyBehind`) |
| `vote_tie` (violation) | three nodes lose each other, one has not joined | step 4 of the choice goes back to all the largest groups and takes one with fewer nodes joined |

Two rounds let a round begin while another is carried out; a third node lets the master
and a second node crash with one left. In `vote_trio` the
third node may vote too late, or first and after the start time was read; in the other
runs the clocks agree, and a vote is missed because it is not written yet when the master
counts. One-way cuts of the network are in `vote_tie` only:
together with crashes and votes read one by one they give more than ten million
states. The group of the code is grown greedily; enumerated outside the runs, it is a
largest one for up to six nodes. Which of several largest groups is taken is not
claimed, since `vote_tie` refutes what the comments of `cms_get_max_num_index` say
(`BestGroup`). A system in which all nodes have
stopped, or the bound of rounds is reached, may stop: deadlock is not checked.

**Fairness** of `vote_pair`: weak fairness of every voting and detecting thread and of
the free master lock, which some node that runs takes. The loop that votes again and
again ends (it lasts 4 s); nobody has to crash, start or lose a heartbeat.

## 4. The proofs

`DcsProofs` proves, for every set of instances, master and value of the bounds
(`DcsAssumption` and `NoInstAssumption` are all that is assumed):

- `TypeCorrect`: `Spec => []TypeOK`;
- `CatalogueCorrect`: `Spec => []CatalogueSound`;
- `EntryForgottenIdle`: `Spec => ForgottenIdle`.

The inductive invariant is `IInv == TypeOK /\ CatalogueSound`. Its part `QueueServed` alone
is not inductive: recycling resets the entry, so it must be known that a pending
entry converts nothing (and hence keeps nobody waiting); that in turn needs
that a recycling round exists only while the entry is pending, that there is at
most one, and that its owner is still the entry's. `TypeOK` is needed because a
request in the queue must differ from "no request" when it is popped. The
lemmas say what every operator of `Drc` and `BufCtrl` returns (`ClaimType`,
`PopType`, `CtrlTypes`, ...), then one lemma per group of actions shows that the step
keeps `IInv` (`AskStep`, `ClaimStep`, `RecycleStep`, ...), with one step per action.
Actions that leave the catalogue alone share `CatalogueUnchanged`.

`DcsSafety` builds on it. For every set of instances, master and value of the bounds,
with evictions, checkpoints, slow writes and recycling at any moment, and under
`Prompt == Impatient = {} /\ ClaimsOrdered` (no request times out, and a claim is handled
before later requests of its instance):

- `OneWriter`: `Spec => [](Prompt => SingleWriter)`;
- `DirectoryCovers`: `Spec => [](Prompt => DirCovers)`;
- `RoundsConvert`: `Spec => [](Prompt => RoundEntryConverting)`.

The order of claims is needed: without it a request that overtakes the claim of its
instance passes for a retry (`dtc_dcs.c:709`). Time-outs are left to the run
`pair_timeout`: then a request may be in several places at once, and the invariant below
does not hold. The inductive invariant is `IInv /\ Safe`. `SingleWriter` speaks of
sessions that use the page, but what keeps them apart is spread over the master, the
messages and the blocks, so `Safe` follows a request on its whole way:

- `Orderly`: a waiting session has its request in at most one place, a message, an
  invalidation round or the queue, and any other has none (`Alone`); who works on the page
  has its block and a sufficient lock (`LatchOK`); a request asks for no less than its
  session wants (`Wants`);
- `Serving`: whatever works on a request (a round, a message to the owner, an answer, a
  claim) works on the one that the entry converts, for the owner that the entry has;
- `Claims`: there is at most one claim under way, that of the converting request, and
  nothing else works on this request;
- `Power`: who holds the page exclusively, or will by an answer under way, holds it
  alone, and the entry knows every holder;
- `Giving`: which holders may be left at each stage: a round has the copies that are
  still to be invalidated, an owner asked for an exclusive transfer is the last one;
- `EdpSound`: an owner that may use the page keeps no early dirty page; otherwise
  `OwnerAfterTransfer` would leave it the lock it has just given away.

There is one lemma per action (`SafeEnter` to `SafeClaim`). TLC checked `Safe` on the
instances of `trio_page`, `pair_page` and `pair_checkpoint` before it was proved.

`DcsFresh` adds the contents of the page. Under `Prompt` again, with evictions, checkpoints,
slow writes and recycling at any moment and for any cluster:

- `PageFresh`: `Spec => [](Prompt => Fresh)`;
- `PanicFree`: `Spec => [](Prompt => NoPanic)`;
- `ClusterCoherent`: `Prompt /\ Spec => Coherent`, the refinement of `CoherentPage`.

`Fresh` is about sessions that got the page, but which page they get was decided when a
lock was given away, a block evicted or a write started. The inductive invariant is
`IInv /\ Safe /\ Current`, and `Current` says where the newest page is:

- `Blocks`: a block has the newest page exactly while it has a lock (or its session is about to
  load it), so an old page left in a frame is never used;
- `Writers`: only the owner, or who has taken the page exclusively from it, has changes to
  write, and a write of an older page is followed by another one;
- `Truthful`: a request under way states the lock that its instance has, so that the owner
  never takes a copy holder for one that needs the page, or the other way round;
- `Flow`: a page that is sent is the newest one and claims come with growing lsns (`Lsns`);
  when somebody loads the page, or was told to, the disk has the newest one and no write of
  an older one is under way (`Stored`); the newest page is on disk, or on its way to an owner
  that will write it, or with its keeper (`Kept`); owners and claimers have no early
  dirty page (`OwnerClean`, `ClaimsClean`);
- `Recycles`, `Served`: a recycling round remembers the copies that the entry has, and what is
  converted is worked on; and no panic has fired.

There is one lemma per action (`NowEnterLocal` to `NowClaim`). Two facts come out on the
way: the owner refuses no request, and the master drops no claim (`ClaimTaken`). For
the refinement, getting the page (`EnterLocal` and the three answers) is `Enter` of
`CoherentPage`, `LeavePage` is `Leave`, `ModifyPage` is `Change`, and every other action is a
stutter, since `Fresh` holds before and after it. TLC checked `Current` on the
instances of `trio_page`, `pair_page` and `pair_checkpoint` first.

`DcsDisk` is about the checkpoints, for any cluster, with evictions, slow writes and
recycling at any moment:

- `NewestIsKept`: `Spec => [](Prompt => NewestKept)`;
- `RedoIsKept`: `Prompt /\ Spec /\ []Grouped /\ NoneOlder => []RedoKept`;
- `EdpDroppedOnDisk`: `Prompt /\ Spec /\ []Grouped /\ NoneOlder => EdpOnDisk`.

`NewestIsKept` follows from `Current`: a write of an older page belongs to a block that has the
newest one and is dirty. The other two are about redo, and the code can lose redo in two
ways: a checkpoint request finds that its owner has sent the page away and evicted it, and
announces a page that is not written (`dtc_ckpt.c:532`); a slow write lands on a newer page
(`dtc_ckpt.c:577`). `Grouped` (what is about to be announced is on disk or in the write
group) and `NoneOlder` (no write makes the disk page older) are true of exactly the
behaviours without these two events, so the theorems say that nothing else loses redo,
whoever evicts and however slow the writes are. An early dirty page is dropped on the
word of another instance, so the invariant `Durable` follows that word: what is announced
is on disk, in every group and message it passes through, also when a request to write is
passed on because the master has no entry (`Announced`); a change that is not on disk is
in the dirty page of its instance, whose lsn covers it, or in the write group (`RedoHeld`);
disk and write groups are not ahead of the changes (`Bounded`). `GroupStep` shows that only the
newest page is copied into a write group, `HeldNext` what a step may do to a block, for
every action once; the `Plain` lemmas say that the page protocol announces nothing, and
`DurableNext` puts them together. TLC checked `Durable` on small instances first.

`DlsProofs` proves, for any instances, sessions, timed calls and mortal instances:

- `TypeCorrect`: `Spec => []TypeOK`, crashes and reforms included;
- `MutualExclusion`: `Spec => [](dead = NoInst => Exclusive)`;
- `MasterCovers`: `Spec => [](dead = NoInst => Covered)`;
- `ClaimsFit`: `Spec => [](dead = NoInst => NoPanic)`.

The last three hold until an instance crashes; afterwards they are false in general
(`reform_error_msg`, and the hazards at `dtc_drc.c:2677` and `dtc_drc.c:6098`), which is why
the crash is left to `latch_reform`. The inductive invariant is `TypeInv` and
`BeforeCrash == dead = NoInst => Sound`. `Exclusive` compares sessions of two instances
and no step looks at both, so `Sound` connects each with the master: the local latch
counts its sharers, has one writer at most, and covers what its sessions hold
(`Latches`); a session waits exactly while its request is under way (`Requests`); the
converting request and the queue are those of the handlers, each once (`Queue`); the entry
covers the modes kept and those granted by answers under way (`Grants`); and who is
converted still has every conflicting owner before it, while an owner that released the
lock keeps no conflicting mode (`Turn`). `Calm` says that nothing of a reform is seen. The
count of sharers uses the cardinality theorems of the library, the queue the sequence
theorems.

`VoteProofs` proves, for any number of nodes, rounds, failures and restarts, any
broken connections and any clocks (`NAssumption`, `ClockAssumption`, `BoundsAssumption`):

- `VoteTypes`: `Spec => []TypeOK`;
- `DoneIsFenced`: `Spec => []AllFenced`, where only the database of the node that carried
  the result out may be unfenced;
- `OfflineIsFenced`: `Spec => FencedFirst`.

Neither property is inductive. What a step that takes a node offline relies on is
that its thread has passed the fencing of this very result, and that is what the
inductive invariant `IInv` adds to `TypeOK` and `AllFenced`: a thread that refreshes has
fenced all nodes outside the result in its memory, in the round of that result
(`FencedOnRefresh`); only the node with the master lock executes, fences or refreshes, so two
masters do not undo each other's work (`MasterExecutes`); a node that waits for a
result is frozen, so that no other thread ends the round by an older result
(`FrozenVoters`); a thread whose process has ended is gone (`Threads`). A new master
that takes over in `wait_for_vote_done` begins by fencing again, which is the step that
the mutant `BugFence_WaitCheck` removes. There is one lemma per action; `NewCluster` and `ResultTypes` type
the result of the count, `NextSeen` the votes read one after another.

Only model-checked: in `Dcs` `SingleWriter`, `DirCovers` and `RoundEntryConverting` once requests
time out (`pair_timeout`); in `Dls` what holds after a crash; in `Vote` `VotesTogether` and `LargestGroup`,
whose proof would need induction over the greedy growth of a group; and the liveness
properties `AskAnswered`, `LatchTaken`, `QueuedGranted`, `UpgradeGranted`, `VoteEnds`,
`NobodyBehind`, since liveness under fairness is out of the prover's reach.

## 5. Plan

Done: page protocol, abstract page, checkpoint, recycling; distributed latches with
crash and reform; split-brain arbitration; types, catalogue and fencing theorems; one
writer, the directory, the freshness of the page, its refinement of one coherent page and
the redo kept for it, without time-outs; types of the latch protocol, and its mutual
exclusion until a crash.

Next:

1. Proofs: the invariant of `Dls` through a reform with one survivor; an invariant of `Dcs`
   in which a request may be in several places, for time-outs.
2. Crash cleaning of page entries (`drc_clean_page_owner_by_part`,
   `dtc_drc.c:1956-2138`), with a crash between transfer and claim.
3. `ckpt_merge_to_array` (`dtc_ckpt.c:77-128`) against a reference definition; the two
   locked parts of `dcs_master_clean_edp`; the spin locks of DLS.

## 6. Not modelled

SQL engine, server, drivers, connector, tools and deployment are outside the
multi-instance core. The storage engine below the page (heap, index, undo, redo,
tablespaces) is single-instance code that sees pages through the protocol modelled
here. Redo replay (`dtc_recovery.c`) is mostly log parsing. The disk lock, the
resources and the configuration of CMS are input/output and orchestration; the disk lock
is taken as a lock. MES is modelled from its use.
