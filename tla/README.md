# Verification of Inspector_bottles

Inspector_bottles inspects bottles on a conveyor: cameras, image-processing
chains, robots and a GUI run as separate OS processes on one host and are held
together by `multiprocess_framework`. This directory holds TLA+ models of the
framework's concurrent core, the TLC instances that check them, and TLAPS proofs
of what holds for every instance.

Contents: [1 inventory](#1-inventory), [2 modules](#2-modules-and-how-they-follow-the-code),
[3 runs](#3-runs), [4 fairness](#4-fairness), [5 proofs](#5-proofs),
[6 disagreements](#6-where-the-code-and-its-own-words-disagree),
[7 not modelled](#7-not-modelled), [8 plan](#8-plan).

Paths below are relative to `src/multiprocess_framework/modules/`.

## 1. Inventory

A `ProcessManager` process (PM) starts one child per entry of a recipe. Each
process has a `system` queue (commands, heartbeats, release tickets; never
drops) and a `data` queue (items of the pipeline; drops the oldest), all of them
`multiprocessing.Queue`s that every process can write. Frames do not travel
through queues: the sender writes them into a ring of SharedMemory slots and
sends coordinates. A state store in PM holds a tree that every process publishes
to and subscribes to through a proxy.

| component | state | operations | hard behaviour | what makes it correct |
|---|---|---|---|---|
| **Supervision**: `process_manager_module/monitor`, `core/restart_policy.py`, `restart_process` | previous statuses, heartbeat times, restart history, planned and induced restarts, recovery set, deadlines, given-up set | poll, heartbeat, try-restart, cascade, dispatch, watchdog, forget | the monitor's thread races the message processor that executes restarts, stale heartbeats, lost commands, failing creates | structures in step, no lost process forgotten, nobody given up planned anew, protected and removed names untouched, every failure handled, no endless retry |
| **Process manager**: `process_manager_process.py`, `core/process_registry.py`, `topology/` | configs, OS processes, queues, snapshot, incarnations, unstoppable names | boot in waves, restart, create, start, topology switch in five phases, rollback | partial failure, unstoppable processes, readiness timeouts | after a failed switch the old topology runs again or the rest is named; no duplicate instance, nobody out of reach |
| **Frame slots**: `shared_resources_module/memory/format`, `memory/core` | generation, header, pixels | write, fail, wipe, copy-read, view-read | torn reads, a writer killed in mid-write | a reader gets whole frames, never an older one |
| **Frame pool**: `memory/pool`, `router_module/middleware/frame_shm_middleware.py`, `process_module/generic` | reference counts, reservations, released sets, cursor, ring; views and tickets of the readers | acquire, commit, abort, release, release-evicted, reclaim, reset; take, finish, flush | late, lost, repeated tickets; dead and restarted readers; reallocation; two threads of the owner in an unlocked ledger | no slot rewritten while in use, every slot comes back |
| **Queues and QoS**: `shared_resources_module/queues` | queues | send with eviction, drain | eviction and put are separate steps | control traffic is not dropped, a dropped frame is released |
| **Router**: `router_module` | channels, routes, pending requests | send, deliver, request, resolve, relay | late answers, blocked receiver | an answer reaches its own request or nobody |
| **State store**: `state_store_module` | tree, revision, subscriptions, proxy caches | set, merge, delete, subscribe with replay, publish deltas, coalesce, resync | lost and overtaken deltas, snapshots taken in pieces | a quiet proxy equals the store or knows that it does not |
| **Process module**: `process_module` | lifecycle status, worker threads, circuit breakers | initialise, run, stop, heartbeat, plugin chain | threads outliving a stop | a stopped process leaves no work |
| **Thread workers**: `worker_module`, the `worker.*` commands | registry of workers, thread, events and status of each | create, start, stop, restart, remove, update, pause, resume, drain, internal restart | an entry is changed field by field while its thread, the commands and the shutdown read it | one thread per worker, an honest answer, nobody runs on unseen |
| **Chain, dispatch, commands, messages, events** | handler tables | register, call | mostly sequential | covered by unit tests |
| **Actions** (undo/redo) | two stacks | do, undo, redo, coalesce | sequential | a bus is two stacks |
| **GUI, schemas, configuration, logging, statistics, plugins, services, prototype** | - | - | I/O, Qt, device drivers, assembly | outside these models |

`PROJECT.json` lists every component with its status, and the hazards of the
code line by line.

How the modelled parts meet: the monitor notices a dead reader and broadcasts
`shm_reclaim` (`ProcessSupervisor.MonHandleDead` / `FramePool.Notice`);
`restart_process` drains the reader's queue (`RestartRemove` / `FramePool.Restart`);
`LoanLedger.acquire` decides when a slot may be entered
(`FramePool.Acquire` / `SeqlockSlot.WBegin` with `Lessees`). A topology switch is
one step to the monitor (`ProcessSupervisor.SwitchReplace`), because it is paused
meanwhile; `TopologySwitch` is the inside of that step.

## 2. Modules and how they follow the code

### ProcessSupervisor

State: `os` is the registry entry of a child together with what the OS would say
of it; `psr` the status in `ProcessStateRegistry`; the others are the fields of
`ProcessMonitor` under their own names without the underscore (`prev` =
`previous_states`, `hb` = `_last_heartbeat`, `marks` = `_restart_history`,
`recovery` = `_pending_recovery`, ...). `inbox` is PM's system queue, `mon` and
`todo` the place of the monitor thread in its iteration, `pm` the place of the
message processor in `restart_process`. `beaten` is a history variable: the processes from
which a heartbeat was handled since their restart was last planned.

* `MonSync`, `MonHandleDead`, `MonCheckAlive`, `MonDispatch`,
  `MonRecoveryTimeout` and the `...Done` steps are one `_run_iteration`. Each
  process visited is one step; the message processor may run between any two.
* `TryAutoRestart` is `_try_auto_restart` with its four outcomes `Refuse`
  (twice), `GiveUp`, `Schedule`, the cascade included.
* `OnHeartbeat`, `RestartBegin/Stop/Remove/Create/Start` are the message
  processor; a restart stops, removes, creates and starts in steps of their own,
  as the code does, and may end at each.
* `SwitchReplace`, `SwitchRemove`, `OperatorRestart` are what a topology switch
  and the restart command do to supervision (the monitor is stopped meanwhile).
* `ChildMoves`, `ChildBeat`, `ChildHealth`, `BootStart` are the children;
  `HeartbeatAges` and `MarkExpires` the clocks.

Time is abstracted: a backoff may end, a heartbeat time out, a deadline expire
and a mark leave the window at any moment that the order of the comparisons in
the code allows. In particular a deadline lies after the due time of its own
plan, so an overdue name is no longer pending (`Overdue`). Registry accesses that
the code makes without a lock (`RestartRemove` under the monitor's loop over the
same list) may skip a process.

The restart set of a trigger is the constant `Induces`. Heartbeats are sent only
while the queue has room, restart commands are lost when it has none.
Notes and events for the GUI (`_emit_supervisor_event`, `_escalate_group_giveup`)
are left out: they write only telemetry paths.

### AtomicSlot and SeqlockSlot

`AtomicSlot` is the promise: a register of one whole frame. `SeqlockSlot` is the
code: every load and store of shared memory is one step, the payload is copied
in any order, and a word holds the number of the frame it was written for, so a
torn frame is one whose words differ. `WBegin`, `WHead`, `WCopy`, `WDone` are
`pack_images`; `WEmpty` and `WFail` the two stores of its exception path (no
images, then an even generation), `WWipe...` `clear_slot_seqlock`;
`WCrash` a kill. `RBegin`, `RLoad`, `RReject`, `RCopied` are `read_single_frame`
with a copy; `RViewed`, `RRecord`, `RAccept`, `RStale`, `RForward` the zero-copy
path of `ShmFrameReader` and `PipelineExecutor`. Readers differ in two ways,
fixed when the processes start: those of `Viewers` keep a view
(`FW_SHM_ZERO_COPY`), the `Copiers` copy; to those of `Lessees` frames are lent
(`FW_SHM_LOAN_PROTOCOL` without the copy-out targets). The set `lent` abstracts
the ledger: which lessee may read the frame and has not returned it. That
abstraction is what `FramePool` looks into. `NoTornFrame` speaks of copiers and
lessees, `NeverOlder` and the refinement of copiers, `LentIsReadable` of lessees
that keep views; a viewer without a loan is promised only
`RecheckCatchesFinishedWrites`.

Memory is sequentially consistent: on the x86 hosts the program targets, stores
are seen in order, and CPython adds no reordering of its own.

### FramePool

One owner with a ring of `Depth` slots, its writer thread (`src`), its message
processor (`OwnerHandle`, `Settle`), and `Readers`. `refcount`, `reserved`,
`released`, `cursor` are the fields of `LoanLedger`; `gen` and `pixels` what a slot holds;
`dataq`, `inbox` queues; `views` what a reader's chain queue holds; `tickets`
its `_pending_releases`.

* `Produce`, `Exhausted`, `Acquire`, `Reallocate`, `Commit`, `Abort`, `Deliver`
  send one item to every target in turn. The frame is written at the first send
  that finds a free slot and only announced by the later ones.
* `Deliver` is `send_to_queue` with its eviction hook. With `Lossy` a put may
  fail (the feeder has not flushed a full queue, so there is nothing to evict) and mail
  to a full system queue may be lost; nobody retries, as in the code.
* `OwnerHandle` applies one ticket, or a reclaim to one slot (`Return` if `Counts`).
  The ledger has no lock, so the writer may run between any two of these, and in
  the middle of one: when the count comes to zero the slot is free at once, and
  the rest of the return, which stores the zero and clears the readers, is a step of
  its own (`Settle`; `settling` is the slot). `raced` is a history variable: the
  slots the writer committed in between. The tests of one return and its lowering of
  the count are one step: in between the count is not zero, so nothing but a
  reallocation of the ring could come there.
* `Take`, `TakeNoView`, `Finish`, `IdleFlush` are `DataReceiver` and
  `PipelineExecutor`; a read that gives no view leaves no ticket.
* `Crash`, `Notice`, `Restart`, `Replace` are the death and the restart of a
  reader as the supervisor handles them.

A slot being written is one state (`Writing`); what happens inside it is the
subject of `SeqlockSlot`.

### SwitchTransaction and TopologySwitch

`SwitchTransaction` is the promise: seen from between the switches, the
configured processes change all at once, to what the recipe makes of them or
back to what there was, except for names that are excused. `TopologySwitch` is
the command thread of `ProcessManager` with its tables: `config`
(`_process_configs`), `registry` (the `Process` object `get_process_by_name`
finds, with what it was born with: incarnation, round, the peers' queues),
`queues`, `incarnation`, `alarm` (`_last_unstoppable`). `phase` and `left` are
where the thread is: which command of the list, which names are still to do.

* `BootOne`, `Booted` are `_create_processes_from_config` over the waves of
  `_compute_boot_waves` (`Placed`, `Wave`, `Cyclic`). The gate between waves
  has a timeout, so it orders nothing beyond the waves.
* `Begin` is `apply_topology` up to the plan (`Refuse` if the planner raises);
  `StopAll`, `Cleanup`, `Provision`, `Create`, `Start` are the commands the plan
  holds, in the order of the phases (`NextPhase`), each with its failure
  (`GiveUp`) except `Provision`: the code does not look at the answer of
  `register_process` and goes on, with a new incarnation and perhaps no queues.
  `Commit` is the success, `Raise` an exception after it.
* `RbStop`, `RbCleanup`, `RbProvision`, `RbCreate`, `RbStart` are
  `_rollback_to_snapshot`: best effort, one failure per name, the unstoppable
  names left out and reported.
* `Crash` may happen at any time; `Stubborn` names may outlive `stop_many`.
* `RestartProcess`, `CreateProcess`, `StartProcess` are the commands that share
  the tables, between switches.

`Object` is `create_and_register`: it copies the name's incarnation and the
queues registered at that moment, which is why provisioning all names must come
before creating the first one (`PeersKnown`). A configuration is named by the recipe
it comes from. `orphans`, `excused`, `ghosts`, `late` are history variables; `late`
are the names whose queues were made only with the process, because their
provisioning failed: who was built before does not know them.

### StateDelivery

The tree of `TreeStore` with its revision, the threads that change it, the
coalescing `DeltaDispatcher`, the bounded queue of class `state`, and one
`StateProxy`. Changing the tree (`Change`, `Delete`) and buffering the deltas
(`Dispatch`) are two critical sections of two locks, hence two steps; a replay
is four (`Subscribe`, `ReplayPairs`, `ReplayRevision`, `EnqueueReplay`). `Flush`
is the flusher, which sends one envelope (`Put`), `Poll` and
`OnStateChanged` the receive loop of the child, `Answer` and `ResyncTimeout` the
resync. The value of a leaf is the revision that wrote it. `Change` is `set` and
`merge`: several paths at once, and a dict put at a node, which is one delta at
the node while the leaves below it come and go (`Grafted`).

`Put` is the way of an envelope through `AsyncSender` and `send_to_queue`. Either
the queue takes it, at the price of the oldest when it is full (`Accept`), or the
newest is lost (`Refuse`): the sender's buffer is full, or the eviction finds
nothing to take and the put fails. Nobody retries either. Of the sender only this
loss is modelled; that it also delays an envelope changes no order.

The history variables name what the properties except. Five causes leave a copy
different from the tree: the subscriber has found a gap (`noticed`), the envelope
that would have set its base was lost (`baseLost`), deltas were buffered too late
(`late`), the last envelopes were refused and none has followed (`refused`), a leaf
was last changed through a node above it (`pruned`). All but the first go unnoticed;
the properties say that there is no sixth, and section 6 that these are real.
`late` is narrow (`Late`): deltas are buffered behind younger ones of the same
subscriber (`known` is the youngest it was ever sent), or a snapshot whose values
had been overtaken by a change that is not still to be dispatched. The ordinary
replay to a late subscriber, however many changes came before, is not `late`.

### ThreadWorkers

One named worker of a process: the registry's entry (`dict`), the threads that
execute its target one after another, the message processor with the worker
commands and the main thread with `stop_all_workers`. `Assign`, `Events`,
`Clear`, `Mark`, `Launch` install a thread field by field, as `start_worker` and
`_restart_worker_internal` do without a lock; `Enter` to `Die` are
`_worker_wrapper` with the loop of `IdleWorker`; the commands are sequences of
stages (`Plan`) that stop at the first failure, except where the code ignores a
result (`Fail`). Removed entries stay in the hands of whoever fetched them; what
nobody refers to is used again, so the number of restarts is not bounded.

### Faulty variants

Operators marked "Faulty variant" or "Mutant" are never used by a specification. Each is the
operator after it with one plausible mistake (a dropped guard, a forgotten
update). Replacing the operator by its variant makes TLC violate a property;
`PROJECT.json` ("mutants") says which one. They show that every property can
fail.

## 3. Runs

Every run checks for deadlock unless its `.cfg` says otherwise (the slot and the
pool stop when their bounded number of frames is used up).

| run | instance | checks | distinct states |
|---|---|---|---|
| `sup_one` | one process, sliding window, all faults, operator, health path | `TypeOK`, `RemovedStaysDown` | 954 thousand |
| `sup_pair` | two processes, `rest_for_one`, lifetime counter, crash, hang and failing create | `WatchdogPaired`, `InducedWatched`, `LostIsTracked`, `GivenUpNotReplanned` | 4.4 million |
| `sup_live` | one process, lifetime counter, all faults, health path, fairness | `SupervisorQuiesces`, `FirstCrashHandled` | 90 thousand |
| `slot_copy` | a copier and a lessee with views, 3 frames, a failing and a killed writer | `TypeOK`, `NoTornFrame`, `NeverOlder`, refinement of `AtomicSlot` | 4.9 million |
| `slot_owned` | two readers with views, one of them a lessee, 2 frames | `LentIsQuiet`, `LentIsReadable`, `RecheckCatchesFinishedWrites` | 167 thousand |
| `pool_calm` | one reader, no death, full queues, a failed write, fairness | `TypeOK`, `LoanExact`, `LoansReturn` | 430 thousand |
| `pool_faults` | two readers, a death, a replacement, losses, a reallocation | `LedgerConsistent`, `BystandersKeepFrames` | 4.4 million |
| `switch` | three names, two recipes, a stubborn process, dependencies with and without a cycle, fairness | `TypeOK`, `EveryLiveReachable`, `ConfigsMatchRegistry`, `BornCurrent`, `PeersKnown`, `OutlivedAreNamed`, `BootOrder`, `ShieldedUntouched`, `MonitorResumes`, refinement of `SwitchTransaction` | 1.8 million |
| `state_delivery` | two leaves and a node, two mutators, a queue of one envelope, refused envelopes, fairness | `TypeOK`, `RevisionIsHonest`, `NoSilentDivergence`, `SettlesCurrent` | 2.1 million |
| `workers` | both modes, one internal restart, three commands and the shutdown, fairness | `TypeOK`, `OneRunner`, `HonestStop`, `DrainHolds`, `AckedStartRuns`, `ToldThreadsEnd` | 598 thousand |
| `sup_bug_second_crash`, `state_bug_resync` | small instances | one statement of the source that fails, see section 6 | - |

Bounds and why they suffice:

* Supervisor: `MaxRetries` 1 or 2 reaches the first attempt, the last one and
  the give-up; `InboxCap` 2 lets a stale heartbeat and a stale restart command
  wait together (1 where two processes share it, which also loses commands). Two
  processes give every relation of trigger and member, since a cascade treats
  its members independently. No state of the supervisor is unbounded.
* Slot: with 3 frames a reader can start in one write, find a second one and end
  in a third; one kill leaves an odd generation that two later writes pass. Two pixel
  words show every tear. Two readers, one of each kind, since readers never look
  at one another.
* Pool: `Depth` 2 (3 in `pool_calm`), queues of 1 or 2 and 3 to 7 frames wrap
  the ring, fill queues and dry the free-list; every fault may happen once at
  any moment, the failed write in `pool_calm`, the others in `pool_faults`. With
  seven frames the writer comes round to a slot that is being settled and beyond.
* Switch: a name that both recipes have, one that is protected in both, one that
  only the new recipe has and protects (so that a failed switch adopts it);
  `MaxRounds` 3 allows a switch, its rollback and a switch after either. The
  theorems of section 5 do not depend on these bounds.
* State: two mutators and three revisions give every order of two changes, a
  replay and an eviction; a queue of one envelope evicts at the second.
* Workers: two entries and two threads are in use at a time at most before a
  command and an internal restart overlap; three commands let a stop or a drain
  meet the effects of the two before it. The run does not go on after an
  overlap (`CONSTRAINT Uncrossed`): from there on the properties claim nothing,
  and section 6 says what is lost.

What the properties say, beyond their comments in the modules:

* `InducedWatched` is the race the source names NEW-6b: the heartbeat of a member
  that was never ill must not disarm its watchdog.
* `LostIsTracked` is what the watchdog is for (R2): a process whose create failed is
  watched, given up on, or about to be restarted. It excepts a process from which a
  heartbeat was handled since the plan (`beaten`). Such a heartbeat may have been
  sent before the failure and have waited in the queue, and it disarms the watchdog:
  without the exception the statement is refuted (section 6).
* `GivenUpNotReplanned` is what is left of "given up is terminal": the restart that was
  planned before the give-up is executed (section 6), but nobody plans another.
* `SupervisorQuiesces` holds for the lifetime counter (`window_sec = 0`) only. With a
  window the loop may go on for ever by design.
* `FirstCrashHandled` is about crashes with status `running` and no restart under
  way; section 6 says what happens to the others.
* The properties of `StateDelivery` are silent about a copy whose divergence has one of
  the five causes of section 2; without the exceptions each of them is refuted
  (section 6). Subscribers that join late are inside the properties, and so is
  `RevisionIsHonest` of refused envelopes: the next one shows the gap.
* `AllOrNothing` and `ConfigsMatchRegistry` except the names a rollback could not
  bring back; `OutlivedAreNamed` says that those which run on are in the answer.
* `PeersKnown` is the reason the phases exist: with provision and create name by
  name a process is built with a queue its peer no longer has.
* `HonestStop` and `OneRunner` hold until a command meets an internal restart, and
  so do `AckedStartRuns` and `DrainHolds`. `AckedStartRuns` says that the thread behind
  a True is alive, and that nobody has told it to stop but a stop whose own join
  had run out (`outlived`) or the process going down. `DrainHolds` excepts a frame
  that had passed its pause check and raised its flag after the answer, and the
  pass of a task, which checks no pause (`slipped`); it fails when the drain does not
  wait for a frame and when a loop overlooks the pause.
* `LoanExact` (the count equals the readers that still owe the slot) holds while
  nobody dies, nothing is lost and there is one target. `BystandersKeepFrames`
  and `LedgerConsistent` hold under faults: what is lost costs slots, never frames.
  All except the slots a commit hit in the middle of a return (`raced`,
  section 6), `BystandersKeepFrames` everything after the first such commit.

## 4. Fairness

`sup_live`: the monitor loop and the message processor are threads that poll
for ever (weak fairness on their steps). A due restart and an expired deadline
are noticed because clocks advance and every iteration looks at them; since the
model lets an iteration pass before the time has come, this is strong fairness on
`MonDispatch` and `MonRecoveryTimeout`. A live child beats while the queue has
room and a created process is started. Nothing is assumed of faults, health
reports, ageing heartbeats or the operator.

`pool_calm`: the writer finishes the item it is sending (it may stop producing),
the message processor empties its queue and finishes the return it is at, a live
reader works off its queue and chain, the supervisor handles a death.

`switch`: the command thread takes its next step during boot and switch, since every
wait in it (join, readiness gate, readiness barrier) has a timeout. No command
has to arrive and no process has to die.

`state_delivery`: a thread that has begun a change, a replay or an answer ends
it; the flusher and the receive loop run while there is work; `request()` times
out. Nobody has to change the tree.

`workers`: a live thread runs and the frames of the target end. Commands need
not be given and joins need not succeed.

## 5. Proofs

All theorems hold for every value of the constants that satisfies the named
assumption of the module (`SupervisorAssumption`, `SlotAssumption`,
`PoolAssumption`, `SwitchAssumption`, `DeliveryAssumption`, `WorkerAssumption`: types,
finite sets, non-empty capacities, a process does not induce itself, a protected name
of a recipe is one of the recipe). TLC evaluates them on every instance. Two
theorems of `FrameLoans_proofs` have a hypothesis more, named where they are
described. Every safety invariant and every action property that a run checks is
proved, `LoanExact` as far as said below, and both refinements.

**ProcessSupervisor_proofs.** The inductive invariant is `SupInv`. None of its
parts is inductive alone: that an induced mark belongs to a planned restart
(`WatchdogPaired`) is needed for `InducedWatched`; that a removed name has no plan
needs that no restart of it is under way, which needs the config check of
`restart_process`. `AttemptInv` proves `_try_auto_restart` once for its four
callers; `MonitorStep`, `ManagerStep`, `OperatorStep`, `EnvironmentStep` are the
disjuncts of `Next`. Proved: `TypeOK`, `WatchdogPaired`, `InducedWatched`,
`LostIsTracked`, `GivenUpNotReplanned`, `ProtectedUntouched` (not checked by
a run: it needs a protected and an unprotected process in one group) and
`RemovedStaysDown`. `LostIsTracked` needs that everyone who is out of the registry
was once planned and has kept his watchdog since (`Tracked`), which only a heartbeat
handled since the plan may end (`HeardSincePlan`); `GivenUpNotReplanned` that with the
lifetime counter whoever is given up has used up his attempts (`GivenUpIsSpent`).

**SeqlockSlot_proofs.** Any mixture of readers: `Copiers` copy, `Viewers` keep
a view, `Lessees` hold a loan. For the copiers the invariant says that
the slot of an even, unmarked generation is frozen, how far the writer is, and
that what a reader has loaded is still there if the generation is. It gives
`NeverOlder` and the refinement of `AtomicSlot`, step by step (`RegisterStep`). For
the lessees it says that the writer is outside a slot that is lent, which gives
`LentIsQuiet` and `LentIsReadable`; `NoTornFrame` takes both. A view without a
loan has only the re-check: `Noted` says that, as long as the generation noted is
still the current one and even, what the plugins have seen of the pixels is in the
slot, which with the frozen slot gives `RecheckCatchesFinishedWrites`. None of
the theorems has a hypothesis beside the assumption on the constants.

**FramePool_proofs.** `PoolInv` adds to `LedgerConsistent` the shape of the
writer's item (a slot being written has count zero) and what a return in progress
may find (`SettlingShape`: the slot is free, or it was committed meanwhile and is in
`raced`). Proved: `TypeOK` (the count stays between zero and the number of readers,
so no release drives it below zero, races included) and `LedgerConsistent`, with
every fault enabled.

**FrameLoans_proofs.** Who holds which slot. Neither `BystandersKeepFrames` nor
`LoanExact` is inductive, and no sum of counts makes them so. What does is that a
reader's loan of a slot is at exactly one place: about to be sent, in its data
queue, in a view, in its batch of tickets, or in the owner's mail (`OnceEach`,
`Apart`), and that at each place it speaks of the frame that is in the slot
(`Faithful`). Then no message but the one that is the loan can lower the count
on the reader's behalf, and a slot somebody holds is not free (`KeepsLoans`).

* `BystandersKeepFrames`: `LoanInv` says this of every reader that never died, under
  every fault, until a commit comes in the middle of a return. Hypothesis `TargetsOnce`: the chain names no target twice.
  The code does not see to that: the owner counts the distinct loan-aware targets
  (`_count_loan_aware_consumers`, `generic_process.py:36-48`) and sends to each
  element of `chain_targets` (`pipeline_executor.py:364-390`,
  `source_producer.py:214-232`), so with a target listed twice one loan is
  sent twice, its first return frees the slot, and TLC finds the property
  violated. No recipe of the repository lists one twice.
* `LoanExact` needs the converse too, that every lent slot is at one of the places
  (`AllHeld`). Hypothesis `CalmPool`: one target and no death, loss or
  reallocation, as in `pool_calm`, but any ring, capacities and number of frames. What
  is proved holds until the first commit in the middle of a return (`raced = {}`);
  that afterwards the other slots stay exact is model-checked only.

**TopologySwitch_proofs.** The invariant is `IInv`, and its parts need one another:

* `Tables` relates the tables of the manager (registered, config, incarnation of
  the process object) and gives `ConfigsMatchRegistry` and `BornCurrent`;
* `Peers` says of every registered process which queues of its peers it was
  given. `PeersKnown` alone is not inductive: between provision and create a
  name has its new queue and no process yet, and that nobody else was
  built early (`NoneYet`) is what makes the next create right. That is the
  reason for the order of the phases;
* `Phases` says for each phase of a switch and of its rollback which names it
  has handled: who is dead, cleaned, provided with a queue, created, started.
  `OutlivedAreNamed` and the refinement need it: that a rollback has restored what
  the snapshot had, except what it names, is a fact about all its phases
  together;
* `Outlived` keeps the names that did not die for the answer.

There is one lemma per action (`StopAllInv`, `CleanupInv`, ... ) with one step per
part. `ShieldedUntouched` follows because a shielded name is in no set that a
phase works on (`ShieldedAreNone`). The refinement `AllOrNothing` has two steps that do not
stutter: `CommitApplies` (the answer of a successful switch is the new
table) and `RollbackRestores` (the answer of a failed one is the old table but for the
names excepted).

**BootWaves_proofs.** `BootOrder`, for every dependency graph. The waves are a
recursive function of the number of rounds, and the prover takes no induction rule
with a predicate as its parameter; each induction is therefore written as
a smallest counterexample (`Smallest`, from the well-foundedness of the naturals).
In this way: the function exists and is what its definition says
(`RoundsExist`, `PlacedRounds`), it grows (`PlacedGrows`), a round that adds a
name adds to its cardinality, so `Cardinality(Names)` rounds are enough
(`RoundsSuffice`), hence a process left out lies on or behind a cycle:
`FlatWaveOnlyOnLoops` says that the code's fallback to one flat wave is taken
exactly when there is one. The invariant of the boot is `InWaves`: whoever has been
handled is in no later wave than whoever is left.

**StateDelivery_proofs.** The copy is compared with the tree leaf by leaf, through
the deltas under way. `Inv` has two halves. The first holds always: nothing is ahead of the
tree's revision (`Bounded`), the subscriber hears only of what it watches
(`Unwatched`), a write no dispatch has covered is in a thread's hands
(`Undispatched`), the snapshot of a replay is what the tree was when it was read
(`SnapshotOK`), and as long as no delta was buffered behind a younger one, everything
under way is in the order of the revisions (`Sorted`). A refused envelope has the
place of a lost one: the next to arrive shows the gap. The second is `LeafOK`,
under the exceptions of the properties: a write that the subscriber has not reached is
carried or so lost that the next envelope shows a gap (`Reaching`,
`Arriving`), behind every pending write of a deleted leaf follows the delete
(`Vanishing`), and the youngest delta is true (`FreshIsTrue`).
`RevisionIsHonest` and `NoSilentDivergence` alone say nothing of what is under
way and are far from inductive.

**ThreadWorkers_proofs.** `WorkersInv` is `Typed`, which holds always, and
`Clean`, until a command and an internal restart overlap. `Typed` knows where
each command is in its plan (`Scripted`) and that whoever writes the fields of an
entry holds one. `Clean` says that the registry knows the thread in the target, that whoever
installs a thread is alone with it, that status and events say what the thread
does (`Running`, `AtRest`, `Marked`, `Paused`), and what a command may conclude from a join, a
flag or a status (`Joining`, `Over`; `Silent`: once drained, only a thread of
`slipped` is in a frame). That a start answers over a
thread told to stop needs a join that ran out before (`outlived`). `OneRunner`, `HonestStop` and
`DrainHolds` follow from it, `AckedStartRuns` from it and one step. An
overlap is noticed in the step that makes it, so the proof of each action may assume
that there is none after it.

TLC has checked each of these invariants before it was proved: on the
instances of section 3, `WorkersInv` with three threads and two internal
restarts as well, `Inv` with disjoint and with overlapping patterns.

Model-checked only: the liveness properties (`SupervisorQuiesces`,
`FirstCrashHandled`, `LoansReturn`, `MonitorResumes`, `SettlesCurrent`,
`ToldThreadsEnd`), since fairness and `ENABLED` are beyond this prover.

## 6. Where the code and its own words disagree

Listed as findings, each with a run that shows the trace:

1. `sup_bug_second_crash`: after the first crash the registry keeps `crashed`;
   the second crash of the recovered process is not handled at all.
2. `state_bug_resync`: the resync of a proxy waits for its answer on the only
   thread that could receive it; it times out, and what was lost stays lost.

Further statements that the models refute. The definitions are in the modules;
to see a trace, name one as the `INVARIANT` or `PROPERTY` of the instance.

| statement | instance | what happens |
|---|---|---|
| `GivenUpNotPlanned` ("статус FAILED, больше не пытаемся", `process_monitor.py:1167`) | as `sup_bug_second_crash`, `MaxRetries = 1` | a second failure during the backoff gives the process up and leaves its restart planned |
| `LostIsTracked` without its exception `p \in beaten` ("закрывает тихую дыру живучести", `process_monitor.py:142`) | as `sup_pair` with `Faults = {"hang", "create"}` | a heartbeat that waited in the queue since before the failure, or came between plan and dispatch, disarms the watchdog (`process_monitor.py:690-702`); the restart is executed all the same, its create fails and nobody retries |
| `NoTornForward` ("читатель в любом случае закончил с этими слотами", `pipeline_executor.py:200`) | `slot_owned` with one reader, `Viewers = Lessees = {r1}` | loans are returned before the results are sent, so a frame that a chain passes on unchanged may be torn |
| `NoTornPixels` (`frame_shm_middleware.py:395`) | the same with `Lessees = {}` | the view's generation is noted inside a later write and compared inside the same write |
| `NeedsNoLock` ("они трогают только READY-слоты", `loan_ledger.py:77`) | `pool_calm` | a return has lowered the count to zero and not yet ended; the writer takes the slot and commits a new frame in between, so the rest of the return resets the count of a lent frame, or leaves the old reader in `released` and the slot leaks |
| `LoanBacked` (`process_monitor.py:877`) | `pool_calm` with `Depth = 2`, `ViewCap = 1`, `Threshold = 2`, `MaxFrames = 4`, `MaxFaults = 0`, `MaxCrashes = 1` | frames delivered between a reader's reclaim and its restart are drained without a release and their slots stay lent |
| `LoanBacked` (`generic_process.py:44`) | the same with two readers, `TwoTargets`, `MaxCrashes = 0` | the free-list is dry for the first target and not for the second; both are counted |
| `AcceptedAsAnnounced` (`loan_ledger.py:178`) | the same with one reader, `Threshold = 1`, 6 frames, `MaxReallocs = 1`, no crash | an eviction sent for the old ring frees a slot of the new one |
| `AcceptedAsAnnounced` (`loan_ledger.py:20`) | the same with `MaxCrashes = 1` and no reallocation | a late reclaim takes the loans of the restarted reader |
| `StopIsFinal` ("True, только если поток ДЕЙСТВИТЕЛЬНО завершился", `worker_lifecycle.py:129`) | `workers` without the `CONSTRAINT` | a stop during the pause of an internal restart signals the old thread; the new one runs on |

What the exceptions of the properties stand for, and other behaviour met while
translating:

* State store. A replay reads leaves and revision in two steps, so a change
  between them is rolled back at the subscriber by an older value with a younger
  stamp (`late`). With two mutators the buffer is not in revision order, and an
  envelope may be dropped as stale (`late`). The replay of a second
  subscription is dropped as stale when a delta of its own revision has already
  gone out (`late`). The newest envelope may be lost instead of the oldest: the
  buffer of `AsyncSender` is full (`_sender.py:127-147`), or the eviction finds the
  queue empty and the put finds it full (`manager.py:232-255`, `:388-398`); the
  next envelope shows the gap, but when none follows nobody knows (`refused`). The
  delete of a node, or a dict put at it (`tree_store.py:297-321`), is one delta for
  the node, and the leaves below stay as they were in the cache (`pruned`). The loss
  of the very first envelope has no predecessor to be compared with (`baseLost`).
* Loan ledger. The return of a slot and the writer share no lock; a slot that is
  taken and committed in the middle of its return is out of balance
  (`raced`, the row of `NeedsNoLock`).
* Switch. A name that the failed switch itself made protected is adopted: the rollback
  neither stops nor removes it (`Adopted`). A create that fails in the
  rollback is logged and the answer still says `rolled_back: True`
  (`excused`). A process that dies at its start does not fail the switch, so
  `success` may be said over dead processes. A `register_process` that answers
  `False` is ignored (`process_manager_process.py:2589`): the switch goes on, and a
  process built before does not know that peer (`late`). `last_unstoppable` survives until
  the next switch.
* Workers. `stop_all_workers` writes `STOPPED` after a join that ran out. A start
  after a stop that timed out finds the old thread alive and answers True over a
  thread that has been told to stop (`outlived`, `worker_lifecycle.py:97-122`). A start
  that meets the last steps of a thread answers True and starts nothing. Manual starts
  use up the budget of automatic restarts. An internal restart makes fresh
  events, so a pause or a drain is forgotten. `drain_worker` misses a frame
  that has passed the pause check and not yet raised its flag, and any pass of a task,
  which checks no pause (`slipped`).
  `worker.update` ignores what the remove said. A start while
  `stop_all_workers` runs survives it.

## 7. Not modelled

* Wall-clock values: backoff, jitter, the stagger of a cascade, timeouts. The exponential
  backoff against `window_sec` decides whether a give-up is ever
  reached; that is arithmetic on settings, not a protocol.
* The 32-bit wrap of a generation: at 100 writes per second of one slot it takes
  eight months and a view kept that long.
* Several frames in one item or slot, one-off targets, frames handed on by
  reference, segment names and attachment, the handle cache of a reader.
* Several producers on one data queue, so the race of two evictions.
* Inside one return of a slot: the tests of `released` and count and the decrement are one step,
  since before the decrement the slot is lent and the writer does not take it.
  Only a reallocation could come between them.
* Of a switch: wires (`wire.setup`, broken and reissued), routing epochs, the replay of telemetry,
  the debounce of repeated requests (it cannot trigger on one command
  thread), `process.create` for a name that exists, a start that raises during
  the boot. `FW_DEPENDS_ON_BOOT_ORDER` is taken to be on.
* Of the state store: unsubscribing, covering patterns and their reference counts, the
  proxy's own writes (`exclude_self`), transactions, one merge that touches a
  node and a leaf below it in the same call, exceptions of the sender that
  `_send_state_changed` swallows (`delta_dispatcher.py:407-415`, which loses the
  envelope as `Refuse` does), the throttle, persistence.
* Of the workers: dependencies between workers, metrics, priorities.
* Everything marked `not_modelled` in `PROJECT.json`, with its reason there.

The repository is an application with its framework, GUI, device drivers and tools; the
map covers the framework's concurrent core and not the rest, so it is a small
share of all lines. What is left out there is I/O, Qt, image processing and
assembly, where a state machine says little that the code does not.

## 8. Plan

Written: `ProcessSupervisor`, `AtomicSlot` / `SeqlockSlot`, `FramePool`,
`SwitchTransaction` / `TopologySwitch`, `StateDelivery`, `ThreadWorkers`.

Next:

1. `ProxySubscriptions`: `subscribe`, `ensure_subscription`, `release` with covering
   patterns and reference counts against the server's table; property: no
   subscription outlives its last user at the server.
2. `RestartSets` (no state): `_resolve_restart_set` and `_topo_order` as
   recursive functions, checked against their graph definitions for all graphs
   of four processes; instantiates `Induces`.
3. `RequestSlots`: `request`, `_resolve_pending`, late and repeated answers, with
   callers on several threads.
4. `DataQueue`: `send_to_queue` with several producers, one step per queue call;
   then `FramePool.Deliver` is its image.
5. The throttle of the state middleware (its last value must arrive) and the undo
   bus against two stacks.
6. Proofs about the modules above as they are written. What stays with TLC is
   liveness.
