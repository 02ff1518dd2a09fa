# TLA+ models of the EPaxos server in depfast-ae

This directory model-checks the EPaxos implementation in
`src/src/deptran/epaxos/server.cc` with TLC. It covers the consensus core
(the per-slot PreAccept, Accept, Commit and Prepare protocol of every
replica, and the coroutines that drive it) and the executor (the execution
loop, `StartExecution` and the dependency-graph walk `CreateEpaxosGraph`).
It also models the RO6 transaction coordinator in
`src/deptran/ro6/ro6_coord.cc` (see the section on `RO6Coord`).

## The system

An `EpaxosServer` is one replica. Its state (server.h) is:

- `cmds[replica_id][instance_no]`: an `EpaxosCommand` per slot, holding the
  command, its dkey, seq, deps, `highest_seen` ballot, state
  (NOT_STARTED → PRE_ACCEPTED → ACCEPTED → COMMITTED → EXECUTED) and the
  `preparing` flag.
- The key tracker: `dkey_seq`, `dkey_deps` and `received_till`. New commands
  take their seq and deps from it, and the execution loop reads
  `received_till`.
- `next_instance_no` and the queues `reqs` and `prepare_reqs`.

Work is done by rrr coroutines. A coroutine runs until it calls `ev->Wait` or
`Coroutine::Sleep`.

- `Setup` starts three loops:
  - The request loop turns each queued request into a `StartPreAccept` coroutine.
  - The execution loop starts `StartExecution` for every instance up to
    `received_till`. That calls `PrepareTillCommitted` on slots that are not
    yet committed.
  - The prepare loop serves `Prepare` and `PrepareAll`.
- The coordinator phases, each broadcasting and then waiting on a quorum event
  of `EpaxosCommo`:
  - `StartPreAccept`: fast path → `StartCommit`; slow path →
    `UpdateAttributes` + `StartAccept`; failure → `UpdateHighestSeenBallot`.
  - `StartAccept`, then `StartCommit`.
  - `StartPrepare`, for recovery.
- The RPC handlers `OnPreAcceptRequest`, `OnAcceptRequest`,
  `OnCommitRequest` and `OnPrepareRequest` run atomically under `mtx_`.

## Modules

| Module | Models |
|---|---|
| `Epaxos.tla` | The whole consensus core of one partition of N replicas, and `Disconnect`. |
| `EpaxosConsensus.tla` | The abstract promise of the core: each slot is decided once, with one value, and never changes. |
| `MCEpaxos.tla` | The model value `k1` and two workloads for TLC, taken from test.cc: `WorkloadOne` (sub test 1 of `testPrepareNoopCommandAgree`) and `WorkloadConflict` (`testConcurrentAgree`, two of its threads). |
| `EpaxosExec.tla` | The executor of one replica: execution loop, `PauseExecution`, `StartExecution`, `CreateEpaxosGraph`, `GetSortedVertices`. |
| `MCEpaxosExec.tla` | Three committed logs (with the values this replica first pre-accepted) for TLC, grouped into `Scenarios`. |
| `RO6Coord.tla` | The RO6 coordinator of one transaction: `do_one`, the send loops of `deptran_start` and `ro6_start_ro`, `deptran_finish`, and the start, finish and read-only RPC callbacks on poll-manager threads. |
| `MCRO6Coord.tla` | A three-piece, two-server transaction for TLC. |

### How `Epaxos` corresponds to the code

**State**
- `cmds`, `dkey_seq`, `dkey_deps`, `received_till`, `next_instance_no` and
  `reqs` are the server fields of the same names.
- An absent entry of a deps map is -1. This matches the code's
  `operator[]` default plus `max`.
- Ballots are `<<ballot_no, replica_id>>`. The epoch is always `curr_epoch = 0`.
  `NullBallot` is `EpaxosBallot()`.
- `coro[t]` is the program state of a coroutine `t = <<replica, slot, lane>>`:
  - `pc`: the phase it waits in;
  - `rnd`: the round of its current wait;
  - `bal`: the prepare ballot;
  - `self`: the `self_reply` snapshot taken before the wait;
  - `tries`: the count of prepare attempts.
  Lane 0 is the proposer coroutine from the request loop. Lanes
  1..`RecLanes` are `PrepareTillCommitted` coroutines.
- `msgs` holds requests in flight. `inbox[t]` holds the replies that reached
  coroutine `t` in its current round.

**Actions**, one per atomic stretch of code:

| Action | Code |
|---|---|
| `Start(r)` | `Start` + `CreateEpaxosRequest` |
| `ProcessRequest(r)` | request loop + the part of `StartPreAccept` before its wait |
| `Receive(m)` | `OnPreAcceptRequest`, `OnAcceptRequest`, `OnCommitRequest` or `OnPrepareRequest`; the reply goes to the sender's inbox (`Reply`) |
| `PreAcceptReplies`, `AcceptReplies`, `PrepareReplies` | The code after a wait returns. `Q ⊆ inbox[t]` are the replies the quorum event saw. Fast path, slow path or failure follows from `Q` exactly as `EpaxosCommo`'s quorum events decide. |
| `PrepareDecide` | The decision cascade of `StartPrepare` (lines 473-565): committed reply, then accepted reply, then N/2 identical default-ballot pre-accepted replies, then any pre-accepted reply, then NOOP. |
| `StartRecovery(t)`, `RetryPrepare(t)` | `PrepareTillCommitted` and its retry loop |

`StartRecovery` is enabled by the execution loop reaching the slot
(`ExecutionDue`) or by the `Prepare` API (`PrepareCalled`).

Every action includes all of its trailing calls. For example, `CommitStep`
sets COMMITTED and sends Commit, and `UpdateInternalAttributes` is part of
the handler that calls it.

`Disconnect(r)` flips `disconnected[r]` for a replica in the constant
`Disconnectable`. A disconnected replica's `Broadcast` sends nothing, because
its `rpc_par_proxies_` are taken away. Requests already sent, and replies to
its own requests, still arrive.

Message loss, delay and reordering come from three facts:
- `msgs` is a set;
- a request may stay in `msgs` forever;
- a coroutine may decide on any subset of its inbox. This also covers
  `Disconnect` and the timeouts of `ev->Wait`.

## Runs

All `MCEpaxos` runs use N = 3 and one conflict key. All but `exclusive` use `RecLanes = 1`.

| Run (cfg) | Workload | Recovery | Checks | Result |
|---|---|---|---|---|
| one | replica 0 proposes k1; replica 0 may be disconnected and reconnected | replica 2, 1 attempt | `Agreement`, `TrackerCovers`, `PreparingOwned`, `ConsensusRefined` | pass |
| conflict | replicas 0 and 1 propose k1 concurrently; `FairSpec` | none | `TypeOK`, `Agreement`, `ConflictDeps`, `CommitReachesAll` | pass |
| agreement_retry | as one, without `Disconnect` | replica 2, 2 attempts | `Agreement` | violation (F1) |
| agreement_promise | as conflict | replica 2 | `Agreement` | violation (F2) |
| stable | as one | | `CommittedStable` | violation (F3) |
| agreement_api | as one, plus the `Prepare` API | replica 2, 1 attempt | `Agreement` | violation (F4) |
| exclusive | as one, without `Disconnect` | replica 2, two coroutines (`RecLanes = 2`), 1 attempt each | `PrepareExclusive` | violation (F8) |

### Properties

- `Agreement`: no two replicas hold COMMITTED copies of a slot with
  different command, seq or deps (spec §8).
- `ConflictDeps`: of two committed client commands on the same key, at
  least one depends on the other at some replica. EPaxos needs this so that
  execution orders them.
- `TrackerCovers`: every replica's tracker dominates every client command it
  stores:
  - `dkey_seq` ≥ its seq;
  - `dkey_deps` and `received_till` ≥ its instance.
  
  Without this a later command misses its dependency, and the execution loop
  never reaches the instance.
- `PrepareExclusive`: at most one `PrepareTillCommitted` of a slot on a
  replica is past its wait for `preparing` (spec §7, RecoveryInProgress).
- `PreparingOwned`: a slot marked `preparing` on a replica has a
  `PrepareTillCommitted` of that replica still in its StartPrepare loop. A
  flag left set after its coroutine returned would keep every later
  recovery of the slot in its `Sleep` loop forever. This is the deadlock
  half of the retry-loop hazard at server.cc:575. `PrepareExclusive` is the
  other direction: F8 shows the flag is cleared too early.
- `CommittedStable` (action property): a COMMITTED slot never changes state
  or value.
- `CommitReachesAll` (liveness): a slot committed at any replica is
  eventually committed at every replica. `StartCommit` sends its commit
  requests once and never again, and `OnCommitRequest` must commit from any
  state.
- `ConsensusRefined` (refinement): `Epaxos` implements `EpaxosConsensus`
  under the mapping `Decided`, which maps slot s to the set of values of
  its committed copies. Every step must either decide an undecided slot
  with one value or leave all decisions alone. Because `Decided` is a union
  over replicas, this says that a decision keeps its value and that a
  decided slot keeps a committed copy at some replica. It does not say that
  each replica's copy stays committed: the per-replica regression F3 is
  masked by the mapping and is checked by `CommittedStable` instead. It is
  checked on `one`, where recovery and `Disconnect` take part. On
  `conflict` nothing can un-commit a copy, so there it would say no more
  than `Agreement`.

### Findings

All five are confirmed by TLC counterexamples. They are listed with their
source lines in `PROJECT.json`.

- **F1, retried prepare (server.cc:453).** `StartPrepare` stores its own
  prepare ballot in `highest_seen`, and prepare replies report
  `highest_seen` as the ballot of the stored value. A retry after a failed
  Prepare therefore skips the default-ballot shortcut and re-pre-accepts with
  a fresh seq. The result is a commit at seq 2 beside the leader's fast-path
  commit at seq 1.
- **F2, no promise (server.cc:608).** `OnPrepareRequest` never records the
  ballot it answered, so a replica still accepts the old leader's Accept. The
  leader commits deps [-, 0, -]. The recovery, through the N/2 shortcut,
  commits deps [-, -, -].
- **F3, committed slot regresses (server.cc:552, 305).** `StartPrepare`
  decides on replies gathered before its wait. If the slot was committed
  meanwhile, it rebuilds the record and `StartAccept` sets ACCEPTED.
- **F4, late StartPreAccept (server.cc:183).** `Start` only queues the
  request, so a `Prepare` for the returned instance can run first. The
  recovery at replica 2 runs at ballot <<1,2>> and pre-accepts a NOOP on
  itself and on the leader, replica 0. The late `StartPreAccept` then
  resets the leader's `highest_seen` to the default ballot <<0,0>> and
  overwrites the NOOP with the command. Replica 2 rejects the leader's
  default-ballot PreAccept, so the leader commits the command through
  replica 1 on the slow path. The recovery then accepts the NOOP at
  replicas 1 and 2 and commits it at replica 2.

- **F8, second recovery of a slot (server.cc:542, 552).**
  `PrepareTillCommitted` marks the slot `preparing` so that other recoveries
  of it wait. But adopting a value in `StartPrepare` replaces the whole
  record with `EpaxosCommand(...)`, which has `preparing = false`, while the
  first coroutine is still in `StartAccept`. A second
  `PrepareTillCommitted` (another execution pass, or a `Prepare` call)
  passes its wait and runs `StartPrepare` on the same slot with a higher
  ballot. TLC finds this in 8 steps.

Because of F1-F3, the passing `Agreement` runs are limited to two cases:
- a single recovery attempt that races the proposer;
- the failure-free conflicting workload.

`TrackerCovers` holds in all recovery configurations. It is checked on `one`. With two attempts (`MaxPrepares = 2`) it also holds, but that bound also reaches F1, so no passing run retries a prepare.

### Bounds

- N = 3 is the smallest N in which the fast quorum (2) and the recovery
  threshold N/2 (1) differ from a majority in interesting ways.
- One key is enough for conflicts: two commands on it reach every
  dependency case.
- `MaxPrepares` ≤ 2 lets a prepare fail once and retry, which is the path of F1.
- `RecoveryAt` is a single replica. With two recovering replicas and two
  attempts the state space exceeds the 5-minute budget.

No deadlock check (`CHECK_DEADLOCK FALSE`). With a finite workload and
bounded retries the system legitimately quiesces: the code's loops then just
`Sleep`.

### Fairness

`Spec` has no fairness. `FairSpec`, used by the conflict run, adds weak
fairness of request delivery (`Receive`). A connected replica's rrr proxies
deliver what was sent, and every handler runs to its end without waiting.
Coroutines get no fairness: their waits may time out at any point, as the
code's `ev->Wait(timeout)` can. Hence the liveness property is about the
spreading of a commit, not about a proposal committing. Under `Disconnect`
it would not hold, since a commit sent while disconnected is lost. It is
therefore checked only on the run without `Disconnect`.

## The executor: `EpaxosExec`

**Abstraction.** The consensus outcome is chosen in `Init` from the
constant `Scenarios` and never changes. `Log[s]` is the value slot `s`
commits with (what `Agreement` promises). `Tentative[s]` is the value this
replica first pre-accepted, or `None`. Commits arrive in any
order (`Commit(s)`: `OnCommitRequest`, or this replica's own recovery).
`PreAcceptArrive(s)` is `OnPreAcceptRequest` for a slot not yet seen. Both
raise `received_till` as `UpdateInternalAttributes` does.

**State.** `cmds`, `received_till`, `exec_started_till`, `in_process_dkeys`
and `pause_execution` are the server fields. `pass[s]` is the
`StartExecution` coroutine of slot `s`. `applied` is the sequence of
`app_next_` calls.

**Actions.**

| Action | Code |
|---|---|
| `ExecLoop` | one round of the execution loop (lines 43-69): a pass per new instance up to `received_till`; skipped while paused |
| `PauseExecution` | `PauseExecution(pause)`, when the constant `Pausable` holds |
| `Enter(s)` | `StartExecution` up to the first suspension: the `in_process_dkeys` wait, the claim, the graph walk |
| `Resume(s)` | `PrepareTillCommitted` returning inside the walk, and the walk going on |
| `Finish` | part of `Enter`/`Resume`: sort, mark EXECUTED, apply, release the dkey |

`CreateEpaxosGraph` suspends in `PrepareTillCommitted` in the middle of its
recursion and resumes with the values it read before. It is therefore an
interpreter over a stack of frames. Each `...Step` operator is one stretch
of the function between suspension points and recursive calls. `Run`
(RECURSIVE) steps the walk to its next suspension.

`GetSortedVertices` is in graph.h, which is not under src/. `SortedVertices`
is modelled from the spec: strongly connected components in dependency
order, members of a component by (seq, replica_id). Any valid order may be
chosen.

**Runs.** N = 3, one key `k1`.

The committed log and the tentative values are chosen in `Init` from the
constant `Scenarios` and stay fixed, so one run covers several logs.

| Run | Log | Checks | Result |
|---|---|---|---|
| exec | either `LogCycle` (two mutually dependent commands, a NOOP, a command depending on the NOOP) or `LogNoops` (a command depending on two NOOPs and a NOOP of its own replica); `PauseExecution` may toggle | `TypeOK`, `ExecOrder`, `AllExecuted` | pass |
| exec_order | a slot pre-accepted here with k1 but committed as a NOOP | `ExecOrder` | violation (F5) |
| exec_leak | as exec_order | `AllExecuted` | violation (F6) |

- `ExecOrder`: every client command is applied only after every command
  it transitively depends on, unless they are in one cycle. Here the
  dependency is on committed deps, with NOOPs bridged to the previous
  instance with the same key.
- `AllExecuted`: under the fairness below, and once execution stays
  unpaused, every client command is eventually applied.

Per-key mutual exclusion does not hold. The spec says `in_process_dkeys`
makes passes on one key exclusive, but a pass for a NOT_STARTED slot skips
the wait (server.cc:688) and claims the empty dkey. When that slot commits
with key k, two passes build on k at once. TLC shows this in 5 steps on
the `exec` scenarios. It is not a checked property, because the run budget
is used up and the overlap is harmless. What the exclusion is for still
holds: `ExecOrder`. A second pass that holds an already executed vertex
does not apply it again, because the state check at server.cc:708 runs
under the lock; this is a single guard and is not stated as a property.

**Fairness.** Weak fairness of `ExecLoop`, of each `Commit(s)`, and of each
`Enter(s)` and `Resume(s)`.
- The loops run forever and sleep for a bounded time, which justifies
  fairness for `ExecLoop`.
- `PrepareTillCommitted` retries until the slot is committed, and the
  consensus core delivers the commit. This is assumed, not checked; see the
  liveness hazard at line 575.
- `Enter` and `Resume` are coroutines polled by `Sleep` loops.

Weak fairness of `Enter` and `Resume` is written out as
`[]<>~Ready \/ []<><<A>>_vars`, with their enabledness as a state predicate.
TLC evaluates `ENABLED` of these actions through the recursive walk, which
is too slow. `AllExecuted` is stated as `Fairness => ...` under
`Spec == Init /\ [][Next]_vars`.

**Findings.**
- **F5, stale dkey in gap filling (server.cc:667).** The gap loop prepares
  only NOT_STARTED instances. It compares the dkey of a PRE_ACCEPTED one as
  it stands. If that instance commits as a NOOP, the walk links the NOOP
  and skips the real predecessor. The dependent command is applied first.
- **F6, dkey leak (server.cc:700, 716).** `StartExecution` claims the dkey
  the slot has when the pass starts, and releases the one it has at the
  end. A slot pre-accepted with k1 and committed as a NOOP releases
  NOOP_DKEY. k1 stays claimed, and every later pass on k1 sleeps forever.

**Bounds.** Each log has at most five slots and one key. That is enough to
reach a cycle, NOOP gaps of length two, and a pre-accepted value that
differs from the committed one. The walk and the sort enumerate
permutations of the graph, so larger logs are costly.

## The RO6 coordinator: `RO6Coord`

**The code.** `do_one` builds a `TxnChopper` for the request and calls
`deptran_start`, or `ro6_start_ro` for a read-only transaction. Each loops
on `ch->next_piece` and sends every ready piece with an asynchronous RPC.
The RPC callbacks run on the poll manager's threads.

- A start response is aggregated into the chopper's graph. A graph with
  more than one transaction turns off early return. The callback then
  counts `n_started_++` and calls `start_callback`. If that made pieces
  ready, it sends them. After the last piece, `deptran_finish` sends a
  finish request to each server in `proxies_`, and with early return the
  client is answered at once, after the block.
- A finish response counts `n_finished_++`. The last one answers the
  client, unless it was answered early, and deletes `ch`.
- A read-only response counts, sends more, or answers and deletes `ch`.

Every block starts with `ScopedLock(this->mtx_);`. That statement builds a
temporary that is destroyed at once, so no lock is held.

**Model.**
- `Threads` run `do_one` and the callbacks. Each callback is a sequence of
  steps (`...Response`, `...Store`, `...Decide`/`...Check`, `...Reply`).
  Each counter increment is a load (in the `...Response` step) and a store.
- `net` is the bag of responses whose callbacks have not run.
- `phase` records `delete ch`.
- `TxnChopper` is not in the tree. `next_piece` and `start_callback` become
  a relation `Needs` between pieces: a piece is ready once the pieces it
  needs have been recorded.
- Graph size and the initial `do_early_return()` are nondeterministic.

**Runs.** `MCRO6Coord`: pieces p1 and p2 are sent by `do_one`, p3 needs
p1's output, and p1 and p3 share server s1. `proxies_` therefore has two
entries while `n_pieces_` is three. Both transaction kinds and both
early-return settings are explored.

| Run | Threads | Checks | Result |
|---|---|---|---|
| ro6_serial | one (callbacks and `do_one` serialized) | `TypeOK`, `NoUseAfterFree`, `ReplyOnce`, `Answered` | pass |
| ro6_race | two | `NoUseAfterFree` | violation (F7) |

- `NoUseAfterFree`: once `ch` is deleted, no thread is inside code that
  reads it, and no response whose callback holds it is pending.
- `ReplyOnce`: the client is answered at most once, and only after every
  start response was counted.
- `Answered` (liveness): every transaction is eventually answered once and
  its chopper deleted.

**Fairness.** Weak fairness of `do_one` and of every thread: a poll thread
with a pending response runs its callback. Every RPC is answered, since
the callbacks `verify` error code 0.

**Finding F7 (ro6_coord.cc:185, also 30, 102, 232).** Because the lock is a
temporary, two read-only callbacks on two threads both count their
response and both see `n_started_ == n_pieces_`. The first deletes `ch`
while the second is still about to call `read_only_start_callback` on it.
The same gap lets a `do_one` thread still in its send loop, or an
early-return reply after the block, touch a deleted chopper. With one
thread, all four properties hold.

## Mutants

Each property of a passing run is broken by a plausible code bug in a
mapped definition (see `PROJECT.json`, "mutants"):

| Mutant | Breaks |
|---|---|
| recovery threshold `N/2+1` | `Agreement` and `ConsensusRefined` (one) |
| `StartCommit` that sends no commit requests | `CommitReachesAll` (conflict) |
| commit handler that keeps local attributes | `Agreement` (conflict) |
| slow-path merge that only merges seq | `ConflictDeps` |
| tracker update with an off-by-one or a dropped branch | `TypeOK` and `TrackerCovers` |
| `received_till` update one too high | `TypeOK` (exec) |
| edge added parent → child | `ExecOrder` (exec) |
| dkey never released | `AllExecuted` (exec) |
| `PrepareTillCommitted` returning without clearing `preparing` | `PreparingOwned` (one) |
| NOOP dependency dropped without the gap loop | `ExecOrder` (exec) |
| execution loop stops one instance short | `AllExecuted` (exec) |
| `deptran_finish` after every response that readies nothing (no `n_started_ == n_pieces_` check) | `TypeOK` (ro6_serial) |
| every finish response answers and deletes (no count check) | `NoUseAfterFree` |
| finish callback answering even after an early return | `ReplyOnce` |
| finish count compared with `n_pieces_` instead of `proxies_.size()` | `Answered` |

## Not modelled, and why

What remains is out of reach, for one of these reasons:
- the code's counterpart is absent from the tree (the MultiPaxos handlers,
  the classic coordinator);
- it has no state of its own (coroutine.h, `GetState`);
- it is a driver outside the protocol (client_worker.h);
- it needs a run, and the project has used all twelve.

The twelve are four passing runs and eight runs that each show one
finding.

- **`PrepareAll`'s list** (server.cc:123-140). It queues `instance_no <
  last_instance`, so the last known instance of each replica is never
  queued. On a replica that never started a command, `next_instance_no-1`
  wraps to 2^64-1. The model's `PrepareCalled` lets `Prepare` queue any
  slot, which covers every request `PrepareAll` can make. Both defects are
  listed as hazards without a property.

- **Executor across replicas.** `EpaxosExec` runs one replica on a fixed
  log. The same order on every replica is checked only through
  `ExecOrder`, which every replica must satisfy for the same log.
- **Composition of `Epaxos` and `EpaxosExec`.** Replacing the log
  scenarios by the core's commits is left for later; the state space of the
  product is beyond the 5-minute budget at N = 3.
- **Termination of `PrepareTillCommitted`** (retries forever, duelling
  ballots). The model bounds the retries by `MaxPrepares`, so the loop's
  termination cannot be stated. With a restart limit, eventual success
  holds or fails because of the bound, not because of the code.
  `PreparingOwned` covers the waiting side, and `CommitReachesAll` covers
  what happens after a commit.
- **`Agreement` with `RecLanes = 2`.** The second recovery that F8 lets
  start does not break `Agreement` on the one-command workload without
  `Disconnect` (2.7 million states). That run takes 7.5 minutes, so it is
  not one of the checked runs. The `exclusive` run shows only the overlap
  itself.
- **`GetState`** is read-only.
- **The test driver.** test.cc is modelled only through the workloads.
  client_worker.h, the performance driver, is not modelled. It throttles
  issued-minus-done requests per virtual client and waits until every
  `SendStart` callback has counted. Its counters are read and written
  between coroutine waits, so modelling it would check only the
  arithmetic of one loop, and it would need a run of its own. The
  spec puts the client driver out of scope.
- **MultiPaxos** (paxos/commo.cc, paxos/server.h). Only the quorum
  broadcasts and the declarations are in the tree; the acceptor handlers
  are not.
- **rrr coroutines** (coroutine.h). These are declarations. Their semantics
  (atomic between waits) is the model's notion of a step.
- **The classic coordinator** (classic/coord.h). This is a class
  declaration only.
