# TLA+ models of bndl

This directory holds TLA+ models of the scheduler, block manager and peer
layer of bndl, with the TLC configurations that check them. Every module is
translated from the Python under `src/bndl/`. `PROJECT.json` maps each
definition to the lines it models, lists the runs and their mutants, and
lists the hazards the properties are aimed at.

## 1. Inventory

### Components

| Component | Source | State it keeps | Operations |
|---|---|---|---|
| Job | `execute/job.py` `Job` | `stages`; Lifecycle flags (started, stopped, cancelled) | `execute` (generator over stage generators), `_stage_done` (listener), `cancel` |
| Stage scheduler | `execute/job.py` `Stage`, `Task` | per stage: `tasks`, Lifecycle; during `_execute_eagerly`: `to_schedule`, `to_yield`, `occupied`, the `workers_available` semaphore; per task: `future`, `preferred_workers`, `allowed_workers`, Lifecycle | `Stage.execute` (eager or one-by-one), `start_task`, `task_done` callback, `Stage.cancel`, `Task.execute/result/cancel` |
| Block manager | `rmi/blocks.py` `BlockManager` | `_blocks_cache` (name → list of blocks, `None` while missing), `_available_events` (name → Event), `_available_lock` | `serve_data`, `serve_blocks`, `remove_blocks`, `_remove_blocks` (RPC), `get_blocks`, `_get_block` (RPC), `_get_blocks_available` (RPC), `_next_download`, `_download` |
| Peer membership | `net/node.py` `Node` | `peers` (name → PeerNode), `_peer_table_lock`, `_iotasks` | `_peer_connected` (connection contest), `_discovered` (gossip), `_notifiy_peers` (fan-out) |
| Node server lifecycle | `net/node.py` `Node` | `servers` (address → server), cached `addresses` / `ip_addresses`, `seeds` | `start`, `_start_server`, `_start_tcp_server` (port probe), `_start_unix_server`, `stop` |
| Compute worker | `compute/worker.py` | services map | `main`, `run_workers` (CLI, supervisor) |
| Cassandra scan | `compute/cassandra/dataset.py` | query options | query building, paged scan with prefetch |
| Dashboard | `compute/dash/__init__.py` | none | Flask views |

`Lifecycle`, `PeerNode`, `Connection` and the RMI layer are not under
`src/`. Only the contracts `spec.md` states for them are modelled, and the
definitions that stand for them are marked `spec_modelled` in `PROJECT.json`.

### How the components interact

* The driver calls `Job.execute`, a generator that yields one stage generator
  per stage. `Job._stage_done` is registered as a Lifecycle listener of each
  stage and signals the job's stop when the last stage stops.
* The thread that consumes a stage generator runs the scheduling loop. It
  calls `worker.run_task` (an RPC over the peer layer), which returns a
  future. The future is resolved on the I/O thread, which then runs the done
  callbacks: `Task.signal_stop`, then `task_done` (semaphore release, then
  `occupied.remove`). The loop and the callbacks share `occupied` and the
  semaphore without a common lock.
* `Job.cancel` / `Stage.cancel` run on another thread and cancel the task
  futures under the running loop.
* Task bodies on workers call `get_blocks`. That RPCs `_get_blocks_available`
  to every worker peer and `_get_block` to the chosen sources, and falls back
  to the seeder. Concurrent callers on one node are coalesced through the
  event stored in `_available_events`.
* Nodes connect to seeds. Each accepted or initiated connection goes through
  `_peer_connected` under `_peer_table_lock`. `_notifiy_peers` then gossips
  the peer list, and receivers connect to unknown names in `_discovered`.

### What is hard

* **Concurrency.** Scheduler loop vs. future callbacks vs. cancel. Several
  `get_blocks` callers and `remove_blocks` on one node. Two nodes connecting
  to each other at the same time.
* **Failure.** Task errors, a caller closing the generator, availability
  queries timing out, download sources that have lost their blocks, a
  failing seeder, unreachable seeds.
* **Ordering.** In-order delivery of out-of-order completions. Gossip
  snapshots that are stale by the time they arrive.
* **Resources.** The per-stage semaphore sized to the number of workers.

### Properties that make each component correct

* Stage: results are yielded in task order and only from successful
  futures; no worker runs two tasks of the stage; a stopped stage has no
  running task; the stage generator terminates; a cancelled task is not
  dispatched.
* Job: stages run one after another; the job signals stop once it is done;
  cancellation reaches every stage.
* Block manager: at most one downloader per (node, name); every `get_blocks`
  caller eventually returns a complete block list; blocks returned equal the
  seeder's; `remove_blocks` does not leave a half-registered download;
  `_next_download` picks the most-advertised missing block.
* serve_data: the blocks concatenate to the data; there are ⌈len/size⌉ of
  them; each is at most `block_size` long and the last is non-empty.
* Membership: at most one peer entry per name; never a peer for the node
  itself; both ends of a contested pair keep the same connection; the
  started nodes eventually form a full mesh.

## 2. Plan

Modules, in order of importance (✔ = done):

1. ✔ `Stage`: `Stage.execute` in both modes, `start_task`/`task_done`,
   `Stage.cancel`, Task lifecycle. `MCStage` instantiates it.
2. ✔ `Job`: `Job.execute` / `_stage_done` / `cancel` over abstract stages. It
   uses an abstract `StageRun` specification, and `Stage` is shown to refine
   `StageRun` (INSTANCE … WITH mapping `pc`, `out` and `stage` to
   the abstract state).
3. ✔ `BlockManager`: several nodes with `get_blocks`, `remove_blocks`,
   `serve_blocks`, availability queries with timeouts, sources that fail or
   have lost their blocks, seeder fallback. Still to do: an abstract
   single-downloader cache (`BlockCache`) refined by `BlockManager`.
4. ✔ `BlockSplit`: `serve_data` as a pure operator checked against a reference
   split. `NextDownload`: the selection of `_next_download` as an operator,
   checked against "most advertisers".
5. ✔ `Membership`: `start` (seed contact), `_peer_connected`, `_discovered`
   and `_notifiy_peers` over three named nodes, with PeerNode
   connect/hello/disconnect from spec.md. Safety: the contest never
   disconnects a pair's last connection; no self-peer. Liveness: a full
   mesh with one shared connection per pair.
6. ✔ `CassandraScan`: the paged scan with one request fetched ahead in
   `CassandraScanPartition._materialize`, checked side by side with `Job`
   in `MCCompute`.
7. ✔ `NodeServer`: `start` and `stop` of `Node` for worker processes of one
   host: the UNIX server, the TCP port probe and its rename of the servers
   key, the seed loop with connects that can raise, and `stop` racing
   `start`. It is checked as the `server` part of `MCCompute`.

Bounds: 2–3 tasks and 1–2 workers per stage, 2 stages per job, 2–3 nodes,
1 block set of 2 blocks. These are enough for every interleaving of two
callbacks against the loop, and for two concurrent downloaders with a third
node as source.

## 3. Modules and runs

### Stage (`Stage.tla`, `MCStage.tla`)

State: `pc` is the control point of the thread running the stage generator.
`toSchedule` and `toYield` are the Python lists, with `pop()` taking the
last element. `occupied`, and `permits` (the semaphore's counter), are as in
the code. Per task there are Lifecycle flags, the future's state
(`none/pending/ok/error/cancelled`), how far its done callbacks have run,
and its worker. `out` is a history of the yielded task ids. `eager` and
each task's `preferred`/`allowed` list are chosen in `Init` and then fixed.

Actions follow the code: `Start`, `Loop` (the `while`/`if`), `Acquire`
(acquire, pop, choose, `start_task` or `insert(0, …)`), `Collect` (the
yield block), `Resume`/`Close` (the caller resumes or closes the generator
at a `yield`), `OneByOne`/`OneByOneWait`, `Finally` (except + finally of
`Stage.execute`), and `CancelStage` (another thread). The environment has
`Complete` (the worker answers with a result or an error) and the three
callback steps `TaskStopped`, `Release` and `Vacate`. `Release` and
`Vacate` are separate steps because `task_done` runs them on the
future's thread, one after the other, with the driver running in between.

Runs:

* `stage_safety` (`MCStage.cfg`, pass): three tasks, two workers, each task's
  hints any of `<<>>`, `<<1>>`, `<<2>>`, both modes. Checks `TypeOK`,
  `ResultsInOrder`, `NoWorkerOversubscribed`, `StoppedStageIsQuiet`, and the
  refinement `StageImplementsStageRun` (below). About 8M distinct states in
  about a minute. `CHECK_DEADLOCK FALSE`: the stage
  generator really stops, and the deadlock it can reach is the subject of
  `stage_permit_leak`.
* `stage_permit_leak` (`MCStageLiveness.cfg`, violation): `StageTerminates`
  under weak fairness of every thread. TLC finds the driver blocked in
  `acquire()` forever, with one worker and two tasks (see Findings).
* `stage_cancel_dispatch` (`MCStageCancel.cfg`, violation):
  `NoDispatchAfterCancel`. A task cancelled by `Stage.cancel` is still sent
  to a worker.

Fairness: weak fairness on each driver step, on the caller either resuming
or closing, and on each future's completion and callbacks (workers answer
and threads get scheduled). `CancelStage` has none: a cancel may never come.

### StageRun and the refinement (`StageRun.tla`, `MCStage.tla`)

`StageRun` is what a stage promises its job and caller. It has a status
(`new`, `running`, `stopped`), the results handed out (`out`) and the
cancelled flag. Its steps are `Begin`, `Yield` (the next result in task
order, while running), `Stop` (once; an exception also marks the stage
cancelled) and `Cancel` (at any time). `MCStage` maps `Stage` onto it. The
status comes from the stage's Lifecycle flags, and `out` and `cancelled`
map directly.

* `stage_safety` (`MCStage.cfg`) also checks `StageImplementsStageRun`
  under these bounds. Every step of
  `Stage` is a `StageRun` step or a stutter. In particular, no result is
  handed out before `signal_start` or after `signal_stop`.

### Job (`Job.tla`)

`Job.execute` as a generator thread: `JStart`, `JCheck` (the `for` loop with
`if not self.running: break`, `add_listener`, and the `yield`), `JResume`,
`JClose` (GeneratorExit caught by the bare `except`) and `JFinally`.
`Job.cancel` is split into `JobCancel` (the Lifecycle cancel) and one
`JobCancelStage` step per stage, because the job's loop runs between them.
Each stage is abstracted to the `StageRun` steps (`SBegin`, `SYield`,
`SStop`). This is sound because `Stage` implements `StageRun`. `SStop`
calls `_stage_done` (`StageDone`) when the stage is a listener. The caller
of `Job.execute` is not in `src/`. It is modelled from spec.md: it iterates
each stage to its end and then asks for the next. A stage that raises ends
the caller's loop, and the job generator is then closed. The caller may
also close the job generator at any yield.

* `compute` (`MCCompute.cfg`, pass; 3 stages of 2 tasks, together with
  the scan below): `JobTypeOK`, `StopMeansStagesDone` (spec.md 4.3: a
  stage's stop triggers the job's stop only when it is the last stage, so
  a job that signalled stop, other than by the `except` clause of a closed
  generator, has run every stage to its stop) and `JobTerminates` (the job
  is eventually stopped or cancelled).

  Mutants: `_stage_done` without `stage == self.stages[-1]` breaks
  `StopMeansStagesDone`; the listener never added breaks `JobTerminates`;
  `Job.cancel` looping one stage too far breaks `JobTypeOK`.

  The `finally` clause's cancel loop runs in one step; a property that every
  stage is stopped or cancelled when the generator ends would only restate
  it, so none is stated.

Fairness: weak fairness on the job generator's steps and on a started
cancel. The caller goes on or closes the generator; a collected generator
is closed by CPython. A running stage makes progress. This last assumption
does not hold for the real `Stage`, as `stage_permit_leak` shows, so
`JobTerminates` holds only for stages that terminate.

### CassandraScan (`CassandraScan.tla`, run through `MCCompute.tla`)

`CassandraScanPartition._materialize` is a generator. It reads the
partition's token ranges one after the other. Each range comes in pages.
While the consumer takes the rows of one page, the next page is already
being fetched: `start_fetching_next_page()` when the range has more pages,
otherwise `execute_async` for the next range. A page is named
`<<range, page>>` and its rows are abstracted to that name. State:

* `pages[r]` is the number of pages the query of range r returns, chosen in
  `Init` from `1..MaxPages` (an empty range still returns one empty page).
* `pc` is where the generator is; `cur` is `resultset`.
* `waiting` is the page `next_rs.result()` or `response_future.result()`
  blocks on.
* `reqs` is the set of requests at the driver, each pending, answered or
  failed. `out` is the sequence of pages whose rows were yielded.

Actions:

* `Begin`: the `execute_async` of the first range (line 154).
* `Receive`: `result()` returns the page and the loop body up to the yield
  runs: the request for the next page (`Prefetch`, lines 162–165) goes out,
  then the rows are yielded. A failed request raises out of the generator
  instead.
* `Resume`: the consumer asks for more. Either the while loop waits for the
  next page, or it breaks to the for loop, which waits for `next_rs`, or the
  generator ends after the last range. `Succ` is the page after a page, and
  `HasMore` is `has_more_pages`.
* `Close`: the consumer stops at a yield and the generator is closed.
* `Answer`: the driver answers a request or fails it (a read timeout or a
  cluster error). This is the environment, not code of the repository.

The consumer can close at every page, including empty pages where the code
yields nothing. This adds behaviours; it removes none.

Properties, in the `compute` run (3 token ranges of 1 or 2 pages):

* `ScanInOrder`: the pages yielded are a prefix of every page of the
  partition in range and page order (`AllPages`, built by `FlattenSeq`),
  and a scan that ends normally has yielded all of them.
* `PrefetchDepthOne`: at most one request is outstanding, and it is for the
  page right after the last one yielded. This also holds when the consumer
  closes the generator or a request fails.
* `ScanEnds`: the scan ends (done, failed or closed).

Mutants:

* `start_fetching_next_page()` without checking `has_more_pages`: a page
  beyond the range is requested, which breaks `ScanTypeOK`;
* `return` in place of `break` at the end of a range: breaks `ScanInOrder`;
* `if next_tr` in place of `elif`, so both requests go out: breaks
  `PrefetchDepthOne`;
* the next page of a range is never requested: the generator blocks, which
  breaks `ScanEnds`.

Fairness: weak fairness on the driver answering each request, on the
generator, and on the consumer going on or closing. The driver completes
every request: it answers it or fails it with its timeout. The consumer is a
task that either iterates the partition or drops the iterator.

`CassandraScan` is checked beside `Job` in the `compute` part of
`MCCompute` (below).

### BlockManager (`BlockManager.tla`, `MCBlockManager.tla`)

One block set (one `name`) of `NumBlocks` blocks, served by `Seeder`. Each
worker node runs one or more caller threads of `get_blocks`. State:

* `cache[n]` is `_blocks_cache[name]` on node n: the id of a block list or
  `Nil`. `slots[l]` is the content of list l, where a block is its own
  index and `None` is an empty slot. A list is identified by the event id
  of the download that allocated it. List 0 is the seeder's.
* `events[n]` is `_available_events[name]` (an event id or `Nil`), and
  `isSet[e]` records whether the event was set.
* Per caller: `pc`, the event `ev`, the list `lst` it fills, the loop
  counter `iter`, the chosen `idx` and `cands`, `calls` made, and the
  list id it `returned`. `regAt` records the node's removal count when the
  caller registered; it is used only by `SingleDownloader`.
* `pendingRm` holds `_remove_blocks` RPCs sent by `remove_blocks(from_peers)`
  and not yet handled.

Actions follow the code: `GetBlocks` (the block under `_available_lock`),
`Wait`, `Alloc` (top of `_download`), `NextDownload` (`_next_download`:
a KeyError if the cache entry is gone, the availability answers of any
subset of the worker peers, an advertised block, or a random missing one
from the seeder, or an IndexError when nothing is missing), `Fetch` (one
candidate: success or failure), `Fallback` (the seeder; it fails if the
seeder has lost its blocks), `SetEvent`, and `Return` (a KeyError if the
entry is gone). `RemoveBlocks` and `HandleRemove` are `remove_blocks` and
`_remove_blocks`. An exception in `_download` goes straight to `failed`,
skipping `available.set()` as the code does. The choice among advertised
blocks is left open: the model lets any advertised block be chosen, which
covers the sorted choice of line 206.

Runs (three callers: `a1`, `a2` on worker `a` and `b1` on worker `b`; two
blocks; one call per caller; `MaxRemovals` bounds `remove_blocks` calls):

* `blocks_safety` (`MCBlockManager.cfg`, pass, one removal): `TypeOK`,
  `SingleDownloader` (two downloaders on a node registered in different
  removal epochs), `FailsOnlyOnRemoval` (a call raises only after
  `remove_blocks` ran on its own node or on the seeder: a candidate that
  advertised a block and lost it before the fetch only sends the download
  to the next candidate or the seeder). About 3.5M distinct states, under
  a minute. Mutant: a candidate's error propagating out of `_download`
  (no `except Exception: pass`) breaks `FailsOnlyOnRemoval`.
* `compute` (`MCCompute.cfg`, pass, no removal, the `manager` part of
  `MCCompute`): `CompleteResult` and `GetBlocksReturns` (a PROPERTY under
  the fairness above). Without `remove_blocks` every caller returns a full
  list, however the availability answers go and whichever candidates fail.
  Mutants: the availability answers not filtered to missing blocks breaks
  `CompleteResult`; `available.set()` skipped breaks `GetBlocksReturns`.
* `blocks_stale_return` (`MCBlockManagerStale.cfg`, violation):
  `CompleteResult` with one removal.
* `blocks_hang` (`MCBlockManagerHang.cfg`, violation): `GetBlocksReturns`
  with one removal.

Fairness: weak fairness on every caller thread and on the handling of each
`_remove_blocks` RPC. `remove_blocks` has none: it may never be called.

### MCCompute: one run, five parts

`MCCompute.tla` checks the components that share no state in one run. A
variable `part` is chosen in `Init`:
* `compute`: `Job` (3 stages of 2 tasks) and `CassandraScan` (3 ranges of
  up to 2 pages), interleaved;
* `manager`: `BlockManager` with no removal and one call per caller;
* `split`: an input pair of `BlockSplit`;
* `choice`: an input of `DownloadChoice`;
* `server`: `NodeServer` with two workers.

The variables of the parts not chosen keep fixed values. The split and
choice parts are pure operators over their initial state, so every input is
an initial state and they take no steps. Each component's fairness is
written over its own variables with the part test inside the action
(`WF_jobVars(part = "compute" /\ J!JStart)`): in a behaviour of another
part the action is never enabled and the condition is vacuous. The liveness
properties carry the same test (`<>(part # "compute" \/ ...)`), so each
speaks of its own part's behaviours. `CHECK_DEADLOCK FALSE`: a finished job,
scan, manager or server behaviour, and every split or choice state, stops.
About 233,000 distinct states in a little over a minute.

### BlockSplit (`BlockSplit.tla`, run through `MCCompute.tla`)

`serve_data` as operators: `Parts` and `Step` (the integer forms of
`int((length - 1) / block_size)` and `math.ceil(length / (parts + 1))`),
`Slice` (a memoryview slice, clamped to the length as Python clamps it),
`Cut` (the `for _ in range(parts)` loop, RECURSIVE) and `ServeData`. The data
is the sequence 1..L, so a lost or repeated byte shows in the concatenation.
`ValidSplit` is the split spec.md states. The state is only the input pair
(`length`, `blockSize`), chosen in `Init`.

* `compute` (`MCCompute.cfg`, pass):
  `ServeDataSplitsData` for every length 1..40 and block size 1..12. This
  covers lengths equal to, one more than, and multiples of the block size.
Lengths start at 1. Empty data takes the `length <= block_size` branch and
serves one empty block, where spec.md's rule gives none and a non-empty last
block. That edge is noted here and not checked. The float division of line
94 rounds only beyond 2^53 and is not reached.

### DownloadChoice (`DownloadChoice.tla`, run through `MCCompute.tla`)

The choice `_next_download` makes, which `BlockManager` leaves open.
`Availability` folds the answers, in completion order, into the
insertion-ordered `defaultdict(list)` (a sequence of `<<idx, peers>>`).
`PeersLess` is Python's list comparison over the PeerNode order, and
`FirstMaximal` is the first element of the stable reverse sort. The input
is the missing slots, the answering peers in arrival order (a peer that
timed out or failed is absent), and what each peer holds.

* `compute` (`MCCompute.cfg`, pass): two blocks, three peers, all 4096
  inputs. `CandidatesAreAdvertisers`: the chosen block is
  missing, its candidates are exactly its advertisers in answer order (or
  the seeder alone), and there is no result only when nothing is missing.
* `choice_most_advertised` (`MCDownloadChoiceMost.cfg`, violation):
  `MostAdvertisedChosen`, the policy of spec.md.

### Membership (`Membership.tla`, `MCMembership.tla`)

The peer table of `net/node.py`. A connection is a record `[ini, acc, open,
pend]`:
* `ini` and `acc` are the initiating and accepting node;
* `open` is the set of ends that still consider it connected;
* `pend` is the set of ends whose hello and `_peer_connected` have still to
  run.

`peers[n][m]` is the connection of n's PeerNode for name m, or 0. Each
action is one stretch of a coroutine between two awaits; the lock makes each
of these one step:
* `StartSeed` is one iteration of the seed loop of `Node.start`.
* `PeerConnected` is the whole of `_peer_connected` for one end, under the
  lock. Its branches are: install a new name; the AssertionError on a closed
  connection; the self connect; the known peer wins (`KnownWins`); the new
  peer replaces it (`Replace`). Installing spawns `_notifiy_peers`.
* `NotifyPeers` is the snapshot of `peers.filter()` and the calls it makes.
  The names go to the new peer, and the new peer's name goes to the others.
* `Deliver` is one iteration of `_discovered`: connect if the name is not
  in `self.peers`.
* `Lose` is a call over a closed connection failing.
* `Hangup` is the far end of a connection noticing a disconnect. A
  disconnect closes only the local end at once. That delay is what makes
  the two ends of a pair race in the contest.

Modelled from spec.md because PeerNode is not in src/:
* connect, hello and disconnect;
* the tiebreak order `PeerLess`, a total order both ends agree on
  (initiator, then connection);
* `filter()`, the connected peers.

Abstractions:
* A discovery list is one call per name. `_discovered` takes the lock again
  for each name and the list is shuffled, so the order and the interleaving
  are the code's. The one extra behaviour is that the model may lose a later
  name when the connection closes.
* The fan-out may be handled before the new peer's call. The code's
  `wait_for` gives up on that call after 3 × HELLO_TIMEOUT, so this can
  happen.
* Connect failures and timeouts on open connections are not modelled.

Fairness is weak fairness on every task of the event loop: each start
loop, each end's hello, each notification task, and each call grouped by
receiver and connection. Only finitely many calls are made, so fairness of
a group reaches every call in it.

Bound: three nodes, `MaxConns = 4`. Every discovery that arrives before the
first connection of a name is installed opens another connection (see the
`node.py:145` hazard), so the number of connections is not small. Four is
enough for the two seed connections and a contested pair of gossip
connections between the two nodes that are not seeded with each other.
`BoundReached` marks a connect that the bound stopped. `MeshConverges` is
stated for the behaviours where that never happens.

* `membership` (`MCMembership.cfg`, pass, about 630,000 states with the
  NodeServer part below, about 1.5 min).
  Nodes 1 and 3 are seeded with 2, and 1 and 3 learn of each other only by
  gossip. It checks:
  * `TypeOK`, including that every table entry is a connection between the
    two nodes;
  * `PairKeepsConnection`: the contest never closes the last open
    connection of a pair that ever connected, even when the two ends decide
    at different times on half-closed connections;
  * `MeshConverges`: every pair ends with one shared open connection.

  Mutants:
  * the known peer always wins (no tiebreak key): breaks
    `PairKeepsConnection`, because both connections are closed;
  * the known peer is deleted but the new one is not installed: breaks
    `MeshConverges`.
* `membership_self_peer` (`MCMembershipSelf.cfg`, violation). Node 1's
  seeds include an alias of its own address. `NoSelfPeer` fails; see the
  findings.

### NodeServer (`NodeServer.tla`, run through `MCCompute.tla`)

The listening side of `Node` in `net/node.py`, for the worker processes that
`run_workers` starts on one host with the same arguments. Each process
listens on a UNIX socket of its own name and on `tcp://<fqdn>:5000`, or the
next port that binds. A port is its offset from 5000 (`PortSpan` ports,
standing for `range(port, port + 1000)`), and a seed is a port of the host.

`start` and `stop` are coroutines on the process's event loop, so a step of
the model runs from one suspension point to the next. Since Python 3.7,
`asyncio.start_server` and `start_unix_server` suspend once (`sleep(0)`)
after the socket listens and before the server is returned, so opening a
server and recording it in `self.servers` are two steps. The code's
`@asyncio.coroutine` / `yield from` style runs on 3.4 to 3.8.

State, per process:
* `pc`, where `start` is; `stopPc`, where `stop` is;
* `port`, the port the probe tries;
* `addr`, the TCP key of `self.servers`;
* `srv`, the port it listens on, or `NoServer`; `tcpRec`, whether that
  server is recorded in `self.servers`;
* `unixUp`, whether the UNIX server listens; `unixRec`, whether it is
  recorded;
* `si`, the seed loop index; `peers`, the processes reached through a seed;
* `lateStop`, whether stop was called after start ended.

Two more variables are chosen in `Init`. `foreign` is the ports other
programs hold. `alias` says whether the seed URLs spell the host
differently from `getfqdn()`, so that a process's own seed is not
recognised.

Actions of `start`:
* `StartUnix`, `StoreUnix`: `_start_unix_server`, the listen and the store.
* `Probe`: one iteration of the port loop. A free port listens; any
  OSError goes to the next port.
* `Store`: the rename of the placeholder key and the store.
* `GiveUp`: the range is exhausted. The placeholder key stays.
* `ContactSeed`: one iteration of the seed loop. A seed equal to the TCP key
  is skipped. A connect reaches the process listening on the port, or, if
  none does, raises (start ends) or returns.
* `EndStart`: the seed loop ends and `start` returns.

Actions of `stop`, one per segment between its suspension points:
* `RequestStop`: `stop_async`, at any time.
* `StopBegin`: up to the first `peer.disconnect()`, or, with no peers,
  through the servers loop to the first `wait_closed()` (or to the end).
* `StopAfterPeers`: `peers.clear()` and the servers loop up to its first
  `wait_closed()`.
* `StopAfterUnix`, `StopAfterTcp`: the rest of the loop after each
  `wait_closed()`.
* `ServersFromUnix`, `ServersFromTcp`, `CancelTasks`: the servers loop from
  its UNIX entry, from its TCP entry, and the cancel of the start task
  (`start` ends `cancelled` if still running). An entry is closed only when
  its server is recorded. This assumes Python 3.6+ dict order, in which the
  UNIX entry comes first.

Fairness: weak fairness on each process's start steps and on its stop steps.
The process's event loop runs every task that is ready. `stop_async` has no
fairness: it may never be called.

Bounds: two workers, `PortSpan = 2` (ports 5000 and 5001), seeds 5000 and
5001. Every set of foreign ports and both values of `alias` are initial
states. This is enough for:
* both processes probing the same port;
* one skipping a port the other holds;
* the range being exhausted;
* a seed that no process listens on;
* a stop at every suspension point of start.

Three processes gave more than 60M states, and symmetry is unsound beside
the liveness property of the same run.

* In `compute`:
  * `ServerTypeOK`;
  * `ListenersHaveDistinctAddresses`: two recorded listening servers never
    have the same TCP address;
  * `LateStopClosesServers`: a stop called after start closes both servers;
  * `StartEnds`: every start returns, raises or is cancelled, even with
    every port taken.

  Mutants:
  * one port past the range is probed: breaks `ServerTypeOK`;
  * the placeholder key is kept after a rename: breaks
    `ListenersHaveDistinctAddresses`;
  * the TCP entry is skipped by stop: breaks `LateStopClosesServers`;
  * the port loop never gives up: breaks `StartEnds`.
* `membership_seeds` (`MCComputeSeeds.cfg`, violation). A worker has
  seeds 5000 and 5001, and port 5000 is taken by another program.
  `SeedsAllAttempted` fails; see the findings.
* `node_stop_leak` (`MCComputeStop.cfg`, violation). `StopClosesServers`,
  the shutdown of spec.md 4.1 for a stop at any time, fails: `StartUnix`,
  `RequestStop`, and `StopBegin` cancels start while the UNIX server is
  listening but unrecorded. See the findings.

## 4. Findings

* **Semaphore permit leak (code bug, `job.py:122`).** A task that finds no
  free candidate is put back without `workers_available.release()`.
  `task_done` releases before it removes the worker from `occupied`, so the
  driver can take the freed permit while the worker still looks occupied.
  The permit is then lost and, with one worker, `acquire()` blocks forever.
  In general every such race loses one permit of the stage.
* **Cancelled tasks are dispatched (`job.py:109`).** The scheduling loops
  never check for cancellation. A task cancelled before it started is still
  sent with `run_task`.

* **get_blocks returns another download's list (code bug, `blocks.py:161`).**
  After `_download` returns, `get_blocks` reads `self._blocks_cache[name]`
  again. If `remove_blocks` ran during the download, another caller on the
  node has already registered a new event and installed an empty list. The
  first caller returns that list, with empty slots.
* **Waiters hang when a download fails (code bug, `blocks.py:159`).**
  `available.set()` is not in a `finally`. When `_download` raises (for
  example a KeyError in `_next_download` after `_remove_blocks` from the
  seeder), the event is never set and the callers waiting on it block
  forever. Later callers find the unset event and wait too.

* **A removal fails a later call on the node (`blocks.py:188`).** When
  `remove_blocks` runs during a download, a second caller on the node
  becomes a second downloader. If the first downloader's allocation comes
  after the second's, both work through the first's cache entry, because
  `_next_download` re-reads `self._blocks_cache[name]`. Once that list is
  full the second raises IndexError from `random.choice([])`, although
  nothing was removed during its own call. TLC found it while
  `FailsOnlyOnRemoval` was stated per call; the property is therefore
  stated per node (a removal on the node at any time).
* **The block with the most advertisers is not the one picked
  (`blocks.py:206`).** `sorted(..., key=itemgetter(1), reverse=True)` compares
  the lists of advertising peers element by element, so block 1 held by
  `[2]` beats block 0 held by `[1, 2]`. spec.md asks for the most advertisers.
  Only the download order changes: `CandidatesAreAdvertisers` still holds.

* **A job with no stages never stops (`job.py:31`).** The loop does
  nothing, and neither `_stage_done` nor the `except` clause runs. TLC shows
  this with `NumStages = 0` (`JobTerminates` is violated). spec.md (edge
  cases) says a job with zero stages signals stop immediately, so the code
  disagrees with it; every run models a non-empty stage list and this is
  not kept as a run.
* A Job.cancel that comes after the `running` check of `job.py:32`, while
  the caller holds the stage generator, does not stop the stage from
  starting. This is the same dispatch-after-cancel finding at the job
  level: `Stage.execute` never checks for cancellation.

* **A node installs itself as a peer (code bug, `node.py:170`).** The
  self-connect check is inside `if known_peer:`. The first end of a
  connection to the node's own address finds no entry for its name and is
  installed, with a `_notifiy_peers` task. The second end disconnects the
  connection, but the entry stays. `start` drops only seeds that equal one
  of `self.servers` as strings, so an alias address gets through. A
  worker started without seeds uses `tcp://<hostname>:5000`
  (`worker.py:47`). The worker that listens on port 5000 under another
  address seeds itself this way. spec.md 4.1 says a self-connection is disconnected.
* `_discovered` holds `_peer_table_lock` while it awaits `peer.connect()`
  (`node.py:148`). If connect awaits the initiator's `_peer_connected`, the
  node deadlocks on the non-reentrant lock. PeerNode is not in src/, so the
  model takes connect as returning once the connection exists.

* **One unreachable seed aborts start (`node.py:69`).** The seed loop has
  no try. A connect that raises leaves `start`, and the seeds after it are
  never tried. spec.md 4.1 says seed connection failures are surfaced but
  do not abort startup. TLC reaches this with two workers when port 5000 is
  taken by another program and the worker on 5001 has seeds 5000 and 5001.
  PeerNode.connect is not in src/, so whether an unreachable connect raises
  or returns is left open.
* **A stop during start leaks a listening server (`node.py:90`).** On
  Python 3.7 and later, `asyncio.start_unix_server` and `start_server`
  yield once (`sleep(0)`) after the socket listens and before the server
  is returned to `_start_unix_server` / `_start_tcp_server`. A `stop` whose
  first step comes then finds nothing recorded in `self.servers`, closes
  nothing, and cancels `start`: the socket keeps listening and the UNIX
  socket file stays. spec.md 4.1 (Shutdown) says stop closes each server
  and then cancels pending I/O. TLC reaches it in three steps
  (`node_stop_leak`). On Python 3.4–3.6 the listen and the return happen
  in one step and the leak cannot happen.
* **Exhausted port range (`node.py:121`).** If no port of the range binds,
  `_start_tcp_server` returns without a word. The placeholder
  `tcp://<fqdn>:5000` stays in `servers`, so the node advertises an address
  it does not own and skips seed 5000 as its own.

## 5. Not modelled

* The worker entry point beyond its defaults (the default seed is
  `SeedList`), the supervisor, the dashboard and the CLI: these are process
  start-up and views, with no shared state.
* The rest of the Cassandra connector: `select`, `limit`, `itake`, `count`,
  `as_tuples`/`as_dicts`, `query()` text building, the table metadata lookup,
  `parts()` and `_preferred_workers`. These build a query string or a list
  once, with no interleaving or state a property could tell apart. The
  partitioner behind `parts()` is not in `src/`. Row counts are abstracted,
  so the per-range `limit` clause is not modelled. Which read timeout
  applies (`dataset.py:165` passes none) is a matter of time, which is not
  modelled.
* The `lru_cache` of `addresses` and `ip_addresses` (`node.py:45`). Nothing
  in src/ reads them before `start` ends, so a stale cached value is never
  used in a way a run could show. The ValueError for an unknown address
  scheme (spec.md 4.1 names a ConfigurationError; the code raises
  ValueError at `node.py:102`) and listen addresses other than the default
  pair are not modelled either; `_serve` (`node.py:153`) hands a socket to
  `PeerNode`, which is not in `src/`.
* Task retries (spec.md 4.3). `src/` has no retry loop: the tests'
  `bndl.compute.attempts` belongs to Task subclasses that are not in
  `src/`, so a task here runs once.
* Connect failures in `Membership`. Seeds are taken as listening there:
  with an unreachable seed no mesh property can hold, and spec.md leaves
  retries to a supervisor. Connect failures are modelled in `NodeServer`.
* Byte contents of blocks, results and messages: they are abstracted to
  identities and outcomes.
