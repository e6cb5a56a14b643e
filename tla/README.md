# A TLA+ model of holbuild

holbuild builds HOL4 theories. A *build* on one machine reads a project, plans the theories to
check, runs HOL children for them and keeps outputs in a cache and proof checkpoints on disk.
With *remote execution* a client submits the plan as a batch of actions to a coordinator
(Python, PostgreSQL), and workers claim the actions, run `holbuild exec-action` and report.

This directory holds TLA+ modules of the parts of the system where order, crashes and
concurrency matter, the TLC runs that check them on small instances, and TLAPS proofs of most of
the safety properties for instances of every size. `PROJECT.json` gives, for every definition, the source lines it models, and lists
components, runs, mutants, findings, hazards and theorems.

## Contents

1. The system: components, state, operations, interaction
2. What is hard, and which properties answer it
3. The modules and the code
4. The runs
5. Bounds and abstractions
6. Fairness
7. What is proved
8. What is only model-checked, and what is not modelled
9. Where the code and its documentation disagree
10. Plan

## 1. The system

### Remote execution (`src/remote-exec/remote_exec`)

| Component | State | Operations |
|---|---|---|
| coordinator: batches, leases, dependencies | tables `batches`, `actions`, `edges`, `leases` | submit, claim, heartbeat, complete, expire_leases, release, cancel, fail_overdue, delete_expired |
| coordinator: claim order and run admission | the same tables, an advisory lock, `last_claimed` | the `CLAIM` statement, `_claim` |
| coordinator: waiting claims | `claim_waiters`, `made_ready` of a process | claim, `_wake_claim`, `_pass_wake` |
| coordinator: cache findings | `found_in_cache`, `cache_checks`, `cache_forgotten` of a process | `_in_cache`, `_check_cache`, `_forget_cache_findings` |
| coordinator: release tasks | `release_pending`, two tasks of a process | `request_release`, `_run_releases` |
| coordinator: change stream | `changed_xid` of the rows, `since` and `seen` of a client | `changes`, the events route |
| coordinator: burst scaling | table `burst_demand`, `scaled_to` of a process | sweep, `_scale` |
| coordinator: submission | none before the rows | the submit route, `parse_batch`, `dag_priorities`, `submit` |
| coordinator: results and retries | `attempts`, `tier`, `last_failure` of an action; table `peak_hints` | the complete route, `parse_result`, `complete`, `_record_peak`, `delete_expired` |
| worker: time and host reports | `Phases`, `ExecSpans`; the memory domain's lease files, which holbuild writes | `claim_reporting`, `HostMemory.read`, `wait_for_memory`, `report` |
| worker | two threads, a process group, scale-in protection | claim, execute, complete, heartbeat, SIGTERM |
| worker: releases | a directory shared by a host's workers, a lock file, a stamp | `Releases.holbuild`, `_build` |

The coordinator may run as several replicas on one database. Every transaction but a claim's, a
heartbeat's, a submit's and the deletion of old hints locks the batch's row first; retention locks
up to a hundred batches' rows in one statement. A completion marks the action done and asks for a
release; a release pass reads waiting actions whose parents are done, asks the cache over HTTP
whether the parents' entries are there, then makes the actions ready and wakes a waiting claim,
or re-queues a parent the cache lost. Workers reach the coordinator through requests that can be
lost in either direction. The cache is a separate service and may evict anything at any time.

### The build on one machine (`src/sml`)

| Component | State | Operations |
|---|---|---|
| parallel scheduler (`build_exec.sml`) | counters and sets under one mutex, one condition variable | next_work, finish_success, finish_failure, finish_inspected, checkpoint maintenance |
| checkpoint budget (`build_exec.sml`) | checkpoint families, `.index-v2`, `.index-dirty` | load or rebuild, evict, refresh after a node, finalize, gc |
| machine memory (`machine_memory.sml`) | a directory of lease files, `lock`, `budget` | acquire, release, resize |
| local cache (`fs_cache_backend.sml`, `cache.sml`, `build_exec.sml`) | manifests, blobs, lock files | publish, hydrate, alias, restore, gc |
| process groups, project lock, HOL shared cache, remote cache, git cache, client, plan, proof runtime, watch, ... | see section 8 | not modelled yet |

The scheduler's workers call the checkpoint budget after each node, reserve memory before each
HOL child and publish to the cache after each theory. Several holbuild processes share the cache
and the memory domain; one project is kept to one command by the project lock.

## 2. What is hard

Almost nothing here is hard to test when one thing happens at a time. The hazards (listed at
their lines in `PROJECT.json`) are of these kinds:

* **Interleavings of transactions**: a completion, an expiry, a cancel and a release pass at one
  batch (`LeasesMatchRunning`, `EndedBatchIsQuiet`, `RemainingDepsExact`, `ReadyParentsAreDone`,
  `LiveLeaseIsKept`); their statements among each other (`CommitsAreSerial`, `NoDeadlock`); claims
  counting run slots from snapshots (`RunsWithinSlots`).
* **State read before an await and used after it**: the cache's answers to a release pass
  (`OnlyMissingParentsAreRequeued`), shared checks forgotten while out (`FindingsAreFresh`),
  an action made ready between a claim's attempt and its sleep
  (`NoLostWake`), sizes measured before the lock (`EndedWithinLimit`).
* **Out-of-order commits**: the change stream (`ToldEverything`).
* **Crashes between steps**: publishers (`EntriesAreBacked`), builds with a dirty index
  (`AcceptedIndexNeverUndercounts`), release builds (`RunsOnCompleteRelease`), processes whose
  children live on (`AdmissionsFitBudget`).
* **Long legal sequences**: results, losses, outages and evictions of one action
  (`RetriesAsDocumented`), peaks over batches (`MemoryIsRemembered`), texts that pass the parser
  (`AcceptedBatchCanBeStored`, `PrioritiesAreExact`).
* **Lost and doubled messages**: the report a claim carries (`TimeIsCovered`).
* **Two programs, one protocol**: Python looks at lease files that SML admits children by
  (`GateFollowsAdmission`).
* **Concurrent garbage collection**: `GcKeepsLiveBlobs`, `RestoredIsWhole`,
  `ActiveFamiliesAreProtected`.
* **Progress**: `BatchEnds`, `EveryRequestIsServed`, `ToldEverything` (the stream ends too),
  `NoBatchStarves`, `ScalerIsToldDemand`, `RevokedActionEnds`, `BuildEnds`, `DomainGetsOn`.

## 3. The modules and the code

**Coordinator** models one batch: `batch`, `state`, `remaining`, `tier`, `attempts`, `lastDisk`,
`edges` and `leases` are the columns and tables of the same names; `pass` holds what a release
pass carries between its transactions, `trusted` the findings that some process trusts, `cached`
what the cache holds. A missing input makes one process forget its findings and leaves the others'
alone, so `ForgetFindings` forgets any part of them, and a process may ask about an entry that
another trusts. An action is a transaction: `Submit`, `Claim`, `Heartbeat`, `CompleteDone`,
`CompleteMemory`, `CompleteUnavailable`, `CompleteRetryable`, `CompleteFinal`,
`CompleteMissingTheory`, `CompleteMissingOther`, `CompleteMissingFinal` (the branches of
`complete`), `Cancel`, `FailOverdue`, `DeleteExpired`. What spans transactions spans actions:
expiry is `SelectExpired` then `ExpireLease`; a release pass is `StartPass`, one answer per
parent, `MakeReady`, then `RequeueEvicted` per evicted parent. `now()` in PostgreSQL is the start
of a transaction, so a request that began while its lease was live counts although it reaches the
row later (`BeginRequest`, the field `pending`).

**BatchLifecycle** is the abstract specification: what a client that polls a batch may see. Waiting
and ready are one phase to it, leases and passes are invisible. `Coordinator` states the
refinement mapping (the instance `Lifecycle`) and `ImplementsLifecycle`.

**Transactions** has the same transactions as programs of SQL statements over rows, at PostgreSQL's
READ COMMITTED: a statement starts on a snapshot (`Execute`), visits the rows it matched in any
order, waits for each lock and looks at the row again (`Visit`), or skips it (`Skip`, a claim's
`SKIP LOCKED`); locks and writes are kept to the `Commit`, and any transaction may `Abort`.
Beside the batch are others that have ended, of which only the rows that retention deletes are there.
`Touches` is a statement's WHERE, `Written` its SET, `GoesOn` the early returns between statements.
`Alone` runs a program with nothing beside it; `CommitsAreSerial` says that a commit leaves what
`Alone` would, which is what `Coordinator` assumes when it takes a transaction as one step.

**Submission** reads a batch text line by line as `parse_batch` does, with the route's check of run
batches, visits the accepted graph in any order `TopologicalSorter` may give, and stores it under
the tables' constraints: an answer of 500 stands for a text that got past the parser and failed
later. A theory name is one that does not match `THEORY`, one that does, or one that does and holds a
NUL, which the regular expression lets through and PostgreSQL takes in no text column; the profile of
the query may hold one as well. **Results** follows one build action through its attempts: how the worker fares with the
cache (`Fetches`), the record it reports, what `parse_result` and `complete` make of it, lost
leases and evictions, and the theory's peak hint from batch to batch. The history `past` keeps what
happened to the attempts, the cache's outages told by the fetch and not by the record, so that
`RetriesAsDocumented` can compare the columns' decisions with the README's table.

**RunSlots** is `_claim` statement by statement at PostgreSQL's isolation, with `SKIP LOCKED` row
locks and the advisory lock. **ClaimOrder** is the `ORDER BY` of `CLAIM`. **ClaimWake** is the
long poll on one event loop, cut at the awaits. An attempt leases an action (`Lease`), gets none,
whatever is ready, for rows that are locked and slots that are taken (`Miss`), is cancelled and hands
its wake on (`CancelAttempt`), or raises and loses it, since `claim` catches only a cancellation
(`AttemptRaises`); `forgone` counts the actions left behind in the second and the last way. **CacheFindings** is the shared cache checks, a
check being a task with its own identity. **ReleaseTasks** is the two background tasks.
**EventStream** has transactions that take their number with their first write and commit in any
order, and a stream that polls snapshots. **Scaling** has replicas that record demand samples, a
clock and an external command that may fail; with `LateEffect` a command that was timed out may
have had its effect.

**Worker** has the main thread's program counter along `run_one` and `execute`, the heartbeat
thread's, the processes of the action, the agent's protection and the lease as the coordinator has it.
The signal of `execute`'s `finally` (`Stop`) reaches holbuild, which is then waited for (`Reap`); a HOL
child is the leader of a session of its own (`launch_shell`), so it ends by itself, by holbuild's
handler (`HolEnds`) or, when holbuild has ended and left it behind (`orphan`), by the parent watch
beside it (`WatchEnds`). Protection lapses once it is `Lapse` rounds of the heartbeat old, and a
heartbeat that fails renews nothing; `missed` counts the rounds in a row without renewal.
`Terminate` is SIGTERM where a `finally` covers it; `TerminateUnguarded` is SIGTERM in the two
places it does not, remembered in `unguarded`. **ReleaseInstall** is `Releases.holbuild` by the
workers of a host. **WorkerTime** is where a worker's time goes: the stopwatch of the main thread,
`Phases`, the report a claim takes with it, and the split of `exec-action`'s time by the polls that
saw a HOL child; `due` is what a claim still owes the coordinator. **MemoryGate** puts
`HostMemory.read` and `shortfall` of `worker.py` beside `acquire` and `create_lease` of
`machine_memory.sml`, which are the same rule written twice and meet at the lease files' locks.

**BuildScheduler** is `build_parallel`: a block under the mutex is an action, a thread in
`ConditionVar.wait` goes on only after a broadcast (`Signal`). **CheckpointBudget** is the index,
the marker and the eviction loop, one family per step, of one process with one or more jobs.
**MachineMemory** is `acquire` and `with_reservation`: lock, read the budget, look at one lease
file per step, admit or wait; a lease counts while some descriptor holds its flock, the child's
included. **LocalCache** is publication (blobs, then the existing manifest, then the new one, under
the action's lock), hydration from the remote cache, aliases, restores blob by blob, and gc in two
stages, none of which takes the action's lock.

The MC modules put instances of components beside each other. Components of one MC module share
no variable, so an invariant of one of them is an invariant of all of them together exactly when
it is one of the component alone. A behaviour therefore moves one part (the variable `part`) and
leaves the others where they start; the number of states is the sum, not the product. The MC modules
declare the constants of their components as their own and assume each component's `Parameters` of
them; the `.cfg` files give them the concrete values, of which the MC modules define the larger ones.
(The cache is checked in two settings, `PublishingOneKey` and `CollectingOneBuild` of `MCStores`.) So the
proofs, which extend the MC modules, are about every value the assumptions allow, and the runs about
one.

**CoordinatorProofs**, **ProcessProofs**, **ServicesProofs**, **WorkerHostProofs**,
**StoresProofs**, **BuildProofs** and **DatabaseProofs** hold the theorems about the components of
the MC module each of them extends; **Sums** holds what the proofs need to know of sums.

## 4. The runs

| Run | What it checks |
|---|---|
| `coordinator` | `TypeOK`, `LeasesMatchRunning`, `EndedBatchIsQuiet`, `RemainingDepsExact`, `ReadyParentsAreDone`, `LiveLeaseIsKept`, `ImplementsLifecycle` for two actions, two passes, late workers |
| `coordinator_live` | `BatchEnds`, from every acyclic graph of two build actions, each reported unavailable up to twice |
| `coordinator_stale404` | expected violation of `OnlyMissingParentsAreRequeued` (section 9) |
| `process` | `RunsWithinSlots` with three claims, three runs and two slots; `NoLostWake` with three claims and two actions, attempts that miss and that raise; `FindingsAreFresh` with three callers and three checks of an entry |
| `services` | `EveryRequestIsServed`, `ToldEverything`, `NoBatchStarves`, `ScalerIsToldDemand` |
| `scaling_timeout` | expected violation of `ScalerIsToldDemand` (section 9) |
| `worker_host` | `NothingLeftRunning`, `ProtectionMatchesWork`, `RevokedActionEnds`; `RunsOnCompleteRelease` with three workers; `TimeIsCovered` |
| `worker_sigterm` | expected violation of `SigtermStopsAction` (section 9) |
| `stores` | `EntriesAreBacked`, `RestoredIsWhole`, `ContractNeverWeakens`, `GcKeepsLiveBlobs` of the cache; `AcceptedIndexNeverUndercounts`, `EndedWithinLimit` of the checkpoints |
| `build` | `DepsBuiltFirst`, `ActiveFamiliesAreProtected` of the scheduler; `MarginIsKept`, `AdmissionsFitBudget` of the memory domain; `GateFollowsAdmission` of a look beside two threads that admit children |
| `build_live` | `SuccessIsWhole`, `BuildEnds`; `DomainGetsOn` |
| `database` | `NoDeadlock`, `CommitsAreSerial` of every two transactions on a batch of two actions, build or run, beside one that has ended; `AcceptedBatchCanBeStored`, `PrioritiesAreExact` of every text over four keys with up to five edge lines; `RetriesAsDocumented`, `MemoryIsRemembered` of an action with three attempts in three batches |

Each property of a passing run has a mutant: a definition changed as a plausible bug would change
the code, under which the property fails. The mutated forms stand before the definitions they
replace, commented `Mutant`.

What the runs show beyond "it holds": `RemainingDepsExact` needs `REFRESH` of the children of
every action that enters or leaves done, including a theory named as missing after submission;
`LiveLeaseIsKept` rests on the second look at `expires_at`; `RunsWithinSlots` fails without the
advisory lock although one statement counts and chooses; `ToldEverything` fails if the stream
remembers the end of its snapshot instead of the oldest open transaction; `NoBatchStarves` fails
when claims take the oldest batch first whatever it has running (`OldestRank` for `Rank`); `ActiveFamiliesAreProtected` needs dispatch
to stay closed from the snapshot to the last eviction; `AdmissionsFitBudget` needs the parent to
close its descriptor without unlocking, since otherwise the next scan takes a living child's lease
for a stale one. `NoDeadlock` fails once a release locks actions before the batch, because the
UPDATE meets its rows in another order than a cancel; `CommitsAreSerial` fails once leases are
revoked before the actions are cancelled, because a claim that commits in between leaves a lease
that no later statement sees. `RetriesAsDocumented` needs a 429 from the cache to count as an outage;
`MemoryIsRemembered` needs a hint to keep its highest peak; `TimeIsCovered` fails if a refused claim
puts its report back; `GateFollowsAdmission` needs the look to take the domain's lock, since it would
otherwise lock a lease that an admission has created and is about to lock, and fail it.

## 5. Bounds and abstractions

Every bound is a named constant (`Max...`, the sizes of the sets). Why they are enough:

* Coordinator: two actions are a parent and a child, or two independent ones, in both orders, and
  two passes can overlap at one parent. Two attempts have a first, a last and one past the last.
  In `coordinator` the actions are claimed `MaxTotalClaims` times in all, enough for one
  that is built, lost by the cache and built again; in `coordinator_live` an action is reported
  unavailable up to `MaxOutages` times, which lets it go round more often than it has attempts.
  The invariants are also proved for every size (section 7).
* RunSlots: three runs for two slots is the least with something to exceed. ClaimWake: two
  sleepers and one that leaves with a wake, or raises with it.
  Worker: a protection of `Lapse` = 3 heartbeats outlives one that fails and may lapse under the
  third; in the code it is ten minutes. CacheFindings: a forgotten check, its successor and a
  third caller. EventStream: three transactions can commit in an order that leaves the middle one
  last. Scaling: two replicas, one restart, a hold of one tick and demands 0 to 2.
* BuildScheduler: a join, a chain and a bystander, with a retained failure that is not ready at
  the start (`build`) or is (`build_live`), and three workers: one in its turn, one waiting for
  its turn, one waiting for work.
* MachineMemory: charges 2 and 3 against 8 with reserve 2: either fits, both fit the budget, and a
  third only once something ended; four lease files, so a stale file can stay.
* LocalCache: two outputs that share a blob, two timeouts and two publishers; with gc, two keys
  that name the same blobs.
  CheckpointBudget: three families of up to 2 against 3, so that one
  eviction may not be enough; two nodes that write.
* Transactions: two sessions, since each property is about a pair, and two actions with an edge: an
  action of its own, a parent and a child. That no longer circle exists either is the theorem of
  section 7. One other batch (`OtherBatches`) makes two for retention to lock in either order; the run
  lets it go only once the batch itself has ended (`OthersGoLast`), since before that no transaction
  but another retention touches its row. The theorem has no such bound.
  Submission: four keys hold a diamond with two paths of
  different lengths, and a fifth edge line may repeat one. Results: three attempts, so that a
  second full disk comes before the last one; four claims, so that one is an outage; a TTL of two
  ticks and three batches.
* WorkerTime: `MaxTime` bounds what the coordinator has not been told at once, not the time that
  passes. MemoryGate: charges and `/proc/meminfo` on both sides of each comparison, with the
  budget file present and absent.

Abstractions. Names, hashes of contents and result logs are left out; in Coordinator the peak
hints that choose a tier are a free choice at submission (Results has them). In Transactions a
missing input names a parent the batch has an edge for, so that `_add_edge` inserts no edge and
updates no priority; `tier` and `expires_at`, which some WHERE clauses read, are left out, and a claim
and an expiry are asked for any ready action and any held lease instead; the token of a lease that is
gone stays gone; a hint is fresh, stale or not there, how high its peak is being for Results. An empty batch, which `submit` stores as done, is not in Coordinator. In MemoryGate `/proc/meminfo` does not
change during one look. The ready list of the scheduler is a set, and
eviction takes families in any order: both only add behaviours. The check whether the checkpoint
directory changed under a running build is a free choice. When the dirty marker cannot be written
the code removes the index instead; this removal is assumed to work. Blobs are content addressed,
so a blob is good, bad or absent. `Age` makes a file old for gc at any time between two
collections. Children of a memory domain use no more than their charge and allocate within their
startup time; `Other` is fixed during a run. One tier is modelled in ClaimWake.

Some steps are coarser than the code, where what could come between touches nothing the properties
tell. In CacheFindings a check's end and the callback that removes it from the table are one step.
In MachineMemory a budget file that was read counts as checked for the retries of an admission too,
which check it again. BuildScheduler leaves out the raises on a mismatch that its invariants exclude
(`build_exec.sml` 5434, 5451, 5458). In LocalCache the usability of a manifest that a publisher saw is
judged at the write, and verify, copy, verify of a blob is one step; the other writers and removers of
manifests (`build_exec.sml` 1827, 6162, 7960, 8412) are left out, so the cache counts as partly
modelled.

## 6. Fairness

* `coordinator_live`: workers of both tiers go on claiming (a worker's loop); an attempt's lease
  ends by a report or by running out, and the sweep, which the process repeats every few seconds,
  looks at expired ones and starts passes; from some time on the cache answers passes, no
  process is restarted in the middle of one and no worker reports `unavailable`. The last is an
  assumption about outages, not about the code: such a result takes no attempt and nothing bounds its
  retries, so while an outage lasts only the deadline ends a batch. Strong fairness is on the end of a lease only: a
  worker may heartbeat for long, not for ever. Neither the deadline nor the client is counted on.
* `services`: asyncio runs a task that can go on (`Work`), the stream's loop polls, workers claim
  and finish, replicas sweep and the clock ticks; the scale command, run again and again, succeeds
  some time (strong fairness).
* `worker_host`: both threads run; a heartbeat sent again and again is answered some time, and a
  report is not repeated past its deadline, which `complete` computes (strong fairness). A holbuild
  that has SIGTERM exits, by its handler, and the parent watch polls. No HOL child is assumed to end
  by itself.
* `build_live`: a thread that can take a step under the mutex takes one, nothing more: in
  particular no wake without a broadcast. A HOL child ends, and a lock that is polled for is had
  some time. `BuildEnds` assumes that a warning can be written (`WarnRaises = FALSE`).

## 7. What is proved

35 theorems, each for every value of the constants that the component's assumptions allow; 31 of
them state a property that a run checks. A component's `Parameters` say no more than what kind of
thing its constants are (a limit is a natural number, a set of nodes is finite, `None` is no
key). Each theorem is about the component's own `Spec` without fairness. Each
rests on an inductive invariant, which was checked with TLC on small instances first. The argument
is the same everywhere: the invariant holds of `Init`, one lemma per action or kind of action shows
that a step keeps it, it implies the property, and an action property follows from the invariant
before the step.

**CoordinatorProofs**, for any finite set of keys, any passes and any limit on attempts.

* `[]TypeOK`, `[]LeasesMatchRunning`, `[]EndedBatchIsQuiet`, `[]RemainingDepsExact`,
  `[]ReadyParentsAreDone`. None of these is inductive alone. `Inv` is their conjunction with
  `RunningIsCounted` (a running action has at least one attempt, without which the decrement of an
  unavailable worker could leave the naturals) and `FailedOnlyInRuns` (a running build batch has no
  failed action, without which a batch could end done with a failed build). They lean on each
  other: a completion finds its action through the lease, so that the action runs is
  `LeasesMatchRunning`; that a release makes ready only actions whose parents are done needs
  `RemainingDepsExact`, since the UPDATE looks at the count and not at the parents; that no ready
  action keeps an undone parent needs the count to be refreshed at the same moment. The lemmas
  about `REFRESH` say that it changes no action from or to done and leaves exact counts for the
  actions it is given, so a step has only to show that it gives it every action whose parents'
  states changed.
* `LiveLeaseIsKept`, an action property: each transaction either leaves a lease alone, ends the
  batch, or removes the one lease it was called with, which then was expired or its own.
* `ImplementsLifecycle`, the refinement: the initial state maps to an initial state of
  `BatchLifecycle`, and under `Inv` each of the coordinator's actions maps to one step of it or to
  none. What is asked of `Inv` is that a batch that ends has nothing left to do in the abstract
  state either, and that a re-queued action was done.
* `[]CanGoOn`, what `BatchEnds` needs besides fairness: a running batch has an action to claim, one
  a release pass would look at, or one that runs under a lease. `SomethingIsOpen`, that not every
  action of a running batch has finished, is shown of the lifecycle and comes down through the
  refinement; `EdgesLeadOn` says that the edges make no cycle, the ones added later included, so
  one of the open actions waits for none of them. It waits for no failed one either: only runs go
  on with those, and they have no edges. `RemainingDepsExact` then makes it releasable.

**ProcessProofs**. `RunsWithinSlots`, for any claims, runs and slots, from `SlotsInv`: what a claim
counted under the advisory lock is still true when it writes (`ChosenHasSlot`), because whoever
counts has the lock (`CounterHasLock`). `NoLostWake`, for any claims and actions, from `WakeInv`:
while a claim sleeps, the ready actions are no more than the wakes not given, the claims
that carry one (`Carriers`, `WakesAreEnough`) and the actions left behind by an attempt that looked in
vain or raised. Those wait for the recheck, as the docstring of `claim` says of actions another claim
took or lost; it does not speak of an attempt that raises. `FindingsAreFresh`, from `FindingsInv`: a check that
is shared began after the last forget, and so did the ones callers wait for.

**ServicesProofs**. The safety half of `ToldEverything` (a stream that ended has told the last
states), from `StreamInv`: a row that differs from what was sent is stamped at or past the stream's
position, and no open transaction is older than the position. The safety half of
`EveryRequestIsServed` (a request is pending or with a running task until served), from `TasksInv`.

**WorkerHostProofs**. `NothingLeftRunning` and `ProtectionMatchesWork`, from `WorkInv`: holbuild runs
without the signal only within the try, or where a SIGTERM fell outside it (`GroupIsGuarded`); and
while a lease is held the age of the protection is at most one round more than those missed in a
row (`RenewalsKeepUp`), so one that lapses has been missed for as long as it lasts. `RunsOnCompleteRelease`, for any number of workers, from
`InstallInv`: a stamp is written only after a whole build, by whoever has the lock.
`TimeIsCovered`, for actions with any number of polls, from `TimeInv`: the running sums of
`ExecSpans` are the README's split of the polls so far (`Splits`), which holds because every poll
takes time, so that `hol` is 0 exactly until a poll saw a HOL child. It assumes `~Unauthorised`:
after a 401 the report is lost (section 9).

**StoresProofs**. Of the cache, for any keys, outputs and processes: `EntriesAreBacked`,
`RestoredIsWhole`, `ContractNeverWeakens`, `GcKeepsLiveBlobs`, from `CacheInv`, each part of which
survives the steps of gc and of restores, since these take no lock. Of the checkpoints, for any
families, sizes, limit and nodes: `AcceptedIndexNeverUndercounts`, from `BudgetInv` (the index on
disk is marked or gone from before the first write to the index that replaces it, and the one in
memory covers the disk but for families of nodes not done with); `EndedWithinLimit`, from `LimitInv`
on top of it (what an eviction freed and what it has left add up to what it began with, and its
list forgets no family that it has not emptied).

**BuildProofs**. Of the scheduler, for any plan and any number of workers: `DepsBuiltFirst`,
`ActiveFamiliesAreProtected`, `SuccessIsWhole`, from `SchedulerInv` (`PlanInv`: a node's countdown is
the number of its dependencies not built; `WorkersInv`: who works on what and why a worker may
leave). `[]SomeoneIsAwake`, what `BuildEnds` needs besides fairness, for plans that are DAGs
(`build_plan.sml` raises on a cycle) and with warnings that can be written: while the build waits for
its workers, one of them is not waiting. It rests on `WaitsInv`: what a thread waits for on the
condition variable is only ever done by a step that broadcasts (`WaitHasReason`), the owner of a
refresh and every node in line for it have a worker that comes back for its turn (`LineIsKept`),
`priority_focus_remaining` counts the focus not built, and a node whose dependencies are built is
built, out or active. With everybody waiting nobody could own the refresh, so some worker waits for
work; but the focus, and the plan, are closed under dependencies, so one of their nodes is ready. Of
a worker's look:
`GateFollowsAdmission`, from `GateInv`. Of the memory domain: `AdmissionsFitBudget` and
`MarginIsKept`, from `MemoryInv`: a scan has counted at least what is held of the leases it has
looked at, though leases end meanwhile (`ScanCounts`); a child that has not taken its memory is
young, so that a later scan counts it among the starting ones (`GrowingIsYoung`); and what runs or
is about to be launched leaves the margin (`MarginInv`, stronger than `MarginIsKept`, which speaks
of running children only).

**DatabaseProofs**. Of results, for any peaks, limits and batches: `MemoryIsRemembered`, from `HintsInv`.
`RetriesAsDocumented`, from `ColumnsTell`: the column `attempts` is the number of attempts in the
history that met no outage, and one more while the action runs; `last_failure` is `disk` exactly
when the last attempt that came with a result ended so, the lost leases in between notwithstanding.
With it `Decided`, what the columns make of an end, is the entry of the README's table for it. The
lines of the table exclude each other in `Documented`. Of submitted texts, for any keys and any
number of edges: `AcceptedBatchCanBeStored` (500 only for a NUL) and `PrioritiesAreExact`, from `SubmitInv` (what is
accepted is well formed, and the actions visited so far have exact priorities). `Below`, a
recursive function, is shown to compute the ends of walks (`Reached`): these satisfy its equation,
and whatever satisfies it agrees with them at every length. Without a cycle no walk has as many
edges as there are keys, since it would meet a key twice; so the visits never get stuck, and the
priorities of the children give those of their parent.

Of the transactions, for any actions, edges and other batches and any number of connections: `NoDeadlock`, from
`LocksInv`. It says of every session what it holds at the statement it is at (`Fits`): nothing
before the batch's row, if it is a transaction on the batch (`BatchAt`); from then on the batch, and
of the leases only ones that were held when it locked them; no hint before the statement about its
own; a claim one ready action before its lease (`ClaimAt`), a heartbeat nothing. `Follows` is the
order the statements come in, which every program keeps (`ProgramOrdered`). That a transaction still
is what it was after another one commits (`FitsKept`) needs the committed rows to be sound
(`Quiet`: a held lease has a running action, a batch that does not run has no unfinished action),
and that needs the transactions to be seen through to their ends: a cancel leaves no unfinished
action although claims commit between its statements, since the actions it has still to visit
include every unfinished one (`Pending`). From `LocksInv` a circle is excluded by the sessions `s`
cannot reach by waiting: who waits for a row and holds nothing is in none (`HoldsNothing`); a
session that holds the batch waits for actions and leases, whose other holders are claims and
heartbeats that do not wait for it, or for one hint, whose holders wait for hints only
(`BatchApart`); and a claim waits for its lease, whose holders do not wait at all (`ClaimApart`).

Two techniques. Charges, sizes and times are added up by `MapThenSumSet`, whose definition takes
elements away in an order of its own. `Sums` shows, with a least subset on which they would differ,
that it is the number of units, pairs of an element and a number up to its value; that parts add up,
that fewer or smaller elements add up to less, are then facts about cardinalities. And a component
is an instance of its module, so its `Cardinality` is a definition of its own to the prover;
one lemma in each module says that the two are the same. A last point concerns the tools: the prover
reads `SUBSET S \ T` as the subsets of `S \ T` and TLC as the subsets of `S` without `T`, so the
modules always write the parentheses.

## 8. What is only model-checked, and what is not modelled

All liveness is checked by TLC on the instances above and not proved: the prover does not reach
fairness. For `BatchEnds` and `BuildEnds` the part without fairness, that some step is always left
to take, is a theorem (`CanGoOn`, `SomeoneIsAwake`); that the steps come to an end is TLC's. Of the safety properties one is only model-checked: `CommitsAreSerial`, which compares
with a run of the whole program, a fold over its statements, for each of its kinds.
`NoDeadlock` leaves three kinds of transaction out: submits and the deletion of old hints update
several hint rows in an order nobody fixes and can wait for each other, and so can the retentions of
two replicas, each of which deletes up to a hundred batches in one statement. The database then breaks
the circle; the submit answers 500, a sweep goes on next time. No other transaction is in such a
circle, though it may wait for one that is.
The priorities that `_add_edge` computes again are not covered by `PrioritiesAreExact`, which is about
submit's.

Each module also has `TypeOK` where that documents its state; only that of `Coordinator` is checked
as a property of its own, the others are parts of the inductive invariants.

Not modelled, as listed in `PROJECT.json`: authentication and the HTTP routes that only pass a
request on, host reports' CPU share and their table in the coordinator, process groups and the parent watch (but for what Worker has of them), the building of one theory node and
early cutoff, the checkpoint store's files, the project lock, the shared HOL cache and toolchains,
the remote cache's clients, the git cache, the remote-execution client, plan and dependency
analysis, the proof runtime, stat cache and hashing, status output, watch mode, commands, projects
and packages, diagnostics. Status output, diagnostics and commands are text and dispatch and stay
out; tactics run in HOL and are out of reach; the rest is planned.

## 9. Where the code and its documentation disagree

1. **A stale 404** (`coordinator_stale404`). `_requeue_evicted` acts on an answer of the cache its
   pass got before it locked the batch, and looks only at whether the parent is done. Two passes
   get the 404; the first re-queues the parent, which is built and published again; the second
   re-queues it once more, though the cache holds it, and once the attempts are used up fails the
   batch for it. The docstring speaks of a parent "whose key the cache no longer holds".
2. **A timed-out scale command** (`scaling_timeout`). A command that changed the fleet and then ran
   over its time raises, so `scaled_to` keeps the value before. If the target is that value again
   at the next sweep, the command is not run and the fleet keeps the size the timed-out command
   gave it. The README says that such a command is run again on the next sweep.
3. **SIGTERM outside the try** (`worker_sigterm`). SystemExit raised after `Popen` returned and
   before the `try`, or in the `finally` before `os.killpg`, leaves `execute` with the process
   group running. The comment there says that SIGTERM stops the action.

Smaller ones are seen in the modules and are not runs of their own. A NUL in a theory name or the
profile passes the route's checks and answers 500 instead of the 400 that the README gives a malformed
batch (`Submission`). Comments of `execute` say that holbuild's session stops its HOL children with it
and that its group outlives it while a HOL child is in it; these have sessions of their own, and the
parent watch ends them (`Worker`). The docstring of
`claim_reporting` says the coordinator has a report once it answered, "even with an error"; an answer
of 401 comes before the route and loses the report (`WorkerTime` with `Unauthorised = TRUE` violates
`TimeIsCovered`). And where a child's charge exceeds the budget while leases are held, a worker's
look waits though admission would fail; `GateFollowsAdmission` leaves this case open.

## 10. Plan

In this order, most important first.

1. *Theory node and early cutoff* (`build_exec.sml`): when outputs are up to date, when a changed
   input key keeps them, kills between replacing outputs and writing metadata. Composed with
   LocalCache in `MCStores`.
2. *Checkpoint store*: the order in which a heap, its `.ok` and its metadata are written and
   removed, beside CheckpointBudget.
3. *Remote cache* without compare-and-set, by several clients: what two publishers of a key leave.
4. *HOL shared cache* and toolchains: builds, users and gc of one checkout; *git cache*; *project
   lock* with owner records beside fcntl locks.
5. *Process groups*: launches racing a cleanup, deadlines, the parent watch, composed with
   BuildScheduler and MachineMemory; a clock for the startup window of MachineMemory.
6. *Client* (`remote_exec.sml`): submit, follow the stream, resubmit, composed with BatchLifecycle
   as the coordinator's promise.
7. *Plan and dependencies*, package resolution: operators checked against reference
   definitions over small graphs and inputs. *Proof runtime*: the step machine and its timeouts.
   *Stat cache*, *watch*: a digest kept while its file changes, changes during a build.

Theorems to come: the safety core of `NoBatchStarves`, that among claimable actions the one chosen
belongs to a batch with the fewest running, for which facts about `SelectSeq` have to be found first;
and that of `DomainGetsOn`.
