# TLA+ specifications of the QuickApp LVGL runtime

These modules model the part of this repository that decides *when* things happen: the
queue through which other threads reach the owner thread, the lifecycle of the backends,
the runtime host that starts, controls and tears down an application, and what carries a
transaction of Core to the screen: the mount bridge, the mount host and the surface host;
also the package source, the publication of font metrics, and the window of a virtual list.
They are written from the code under `src/` and `include/`; paths below are relative to the
repository root. Where the evidence documents say something the code does not do, a run of
its own shows it (see [Findings](#findings)).

    tlc -config OwnerTaskQueue.cfg MCOwnerTaskQueue.tla      # any row of "Runs"
    tlapm OwnerTaskQueueProofs.tla                           # any module *Proofs

## The system

The runtime hosts one application on a device. One thread, the *owner*, runs everything that
touches LVGL and the JavaScript services; it never blocks and calls `RuntimeHost::pumpOnce`
again and again. Other threads may only post (a task, a surface command, a mount
transaction), answer a request of Core, or read the active font snapshot. Nothing waits for
a lock: each operation tries once and answers `kBusy`, and the caller tries again. The hard
part of the program is therefore what is left half done by a `kBusy` or an error, and what
meets it when the operation is tried again.

| Component | State it keeps | Operations | Talks to |
|---|---|---|---|
| Owner task queue (`src/owner_task_queue.cpp`) | try-lock, ring of tasks, state, stop policy, depth snapshot | `bindOwner`, `post` (any thread), `pump`, `beginStop`, `finishStop` | notifies the wakeup port |
| Backend lifecycle coordinator (`src/backend_lifecycle.cpp`) | state, policy, what is open, whether the stop is prepared, first error | `open` with rollback, `beginStop`, `finishStop` | queue, display, input, wakeup port |
| Backends (`src/backends/`) | state of the device, ring of input samples | `open`, `beginStop`, `discard`, `close`, `present`, `drain` | device callbacks, SDL, libuv |
| Runtime host (`src/runtime_host.cpp`) | host state, pending controls, start and destroy completions, stage of the teardown | `start`, `control`, `destroy`, `postHostSignal` (any thread), `pumpOnce`; `onCoreStart`, `onCoreLifecycle` (Core) | coordinator, queue, Core, JavaScript services, package source |
| Surface host (`src/surface/surface_host.cpp`) | operation slots, surface records, completed requests; the page roots of its backend | `post` (any thread) of create, present, push, visibility, close, destroy; `markFullMountCommitted`, `service`, `close`, `finishClose` | owner queue, page root backend, contents of surfaces, Core's ingress |
| Core mount bridge (`src/integration/core_mount_bridge.cpp`) | pending transactions and their phase | `post` (Core), `complete`, `acceptSurfaceResult`, `service`, `close` | mount host, surface host, Core's ingress |
| Mount host (`src/mount/mount_host.cpp`) | objects, fonts, decoded images, event bindings, transaction slots | `post`, `preflight` and `execute`, `install...Handler`, `releaseSurface`, `setResource`, `close`, `finishClose` | owner queue, LVGL, surface host, result sink |
| Package source (`src/package_source.cpp`, `src/backends/libuv_file_package_source.cpp`) | read slots, closing and closed | `open`, `readAt`, `onRead` (libuv), `serviceCompletions`, `close` | libuv, completion port |
| Font snapshot publisher (`src/measure/font_metrics.cpp`) | two slots, reader counts, active slot, generation, pending notification | `acquire`, `release` (any thread), `publish`, `serviceNotifications`, `tryFinalizeClose` | Core's ingress |
| Virtual list (`src/list/virtual_list.cpp`) | configuration, window, slot of each row, objects | `configure`, `scrollTo`, `hitTest`, `reset` | LVGL objects, bind callback |
| Input adapter (`src/event/input_adapter.cpp`) | none of its own | drains samples to Core | input backend, event sink |
| Font measure, feature provider, C SDK, media, trace, composition | little or constant state | see `PROJECT.json` | - |

What makes each component right:

* **Queue**: an accepted task ends exactly once and in order; a sleeping owner is woken; a
  task is never admitted to a stop that will not see it; a drain runs everything; a
  critical section is left on every path.
* **Coordinator**: whatever answers busy or fails, and wherever a stop is resumed, it
  releases everything, in one order, after the queue has been drained, and converges.
* **Host**: every call it took is answered once; nothing is torn down under a callback of
  Core; a destroyed host owes nothing and holds nothing.
* **Surface host**: a command is executed once and answered once; the records and the page
  roots of LVGL never disagree; a closed host has nothing left.
* **Mount host**: a transaction takes effect as a whole or not at all and its result says
  which; the tree, the fonts and the event bindings agree after any of them.
* **Mount bridge**: Core is told once of each transaction, and told "mounted" only of one
  that is mounted as a whole.
* **Package source**: a read is called back once, and no buffer goes while libuv fills it.
* **Font snapshots**: a held snapshot does not change; generations are announced once, in
  order.
* **Virtual list**: what is seen is the window, without gaps, after any history of scrolls.

### What is hard

Posts interleave with pumps, stops and the owner falling asleep. A stop is cut short at any
of some ten places and resumed by being called again. Core's answers arrive between any two
steps of a pump. A surface command has taken effect long before its result fits into Core's
ingress, and closing may begin in between. A mount fails half way through a batch, and the
batches of a transaction before and after it are in the tree or in the queue. A page root is
destroyed under a mount, and takes with it what the mount host still has slots for. Signals
are posted to a host whose backends are half open. Readers of a font snapshot run between any two atomic accesses of
the publisher. The list reuses the objects of every window it ever had, also after a bind
that failed half way. `PROJECT.json` lists these hazards at their lines, with the property
that covers each, or why none does.

## Modules

| Module | Models |
|---|---|
| `OwnerTaskQueue` | the queue, its producers and its owner |
| `TaskLog` | what the queue promises: an ordered log of admitted and ended tasks |
| `BackendLifecycle` | the coordinator, over `OwnerTaskQueue` itself and the embedded backends |
| `LifecycleContract` | what the coordinator promises the host |
| `RuntimeHost` | the host; the coordinator appears through `LifecycleContract` |
| `SurfaceHost` | the surface host over its page roots |
| `MountHost` | the mount host |
| `CoreMountBridge` | the bridge between Core, the mount host and the surface host |
| `PackageReads`, `PackageSource` | the state of the file and the memory package source with its properties, and their operations and teardown |
| `FontSnapshot` | the publisher and its readers |
| `VirtualList` | the window, the slots and the objects |
| `MC*` | the modules the runs check, with their symmetry sets and inputs |
| `OwnerTaskQueueProofs`, `BackendLifecycleProofs`, `RuntimeHostProofs`, `SurfaceHostProofs`, `MountHostProofs`, `CoreMountBridgeProofs`, `ListAndPackageProofs`, `FontSnapshotProofs` | theorems about these modules |

    TaskLog <--implements-- OwnerTaskQueue <--INSTANCE-- BackendLifecycle --implements--> LifecycleContract
                                                                                                ^
                                                                          RuntimeHost --follows-'

The two sides of `LifecycleContract` fit together: `BackendLifecycle` implements it, with
the real queue and contending producers, and `RuntimeHost` takes only steps it allows. The
host's model so needs neither the queue's lock nor the backends.

The path of a transaction is three modules with a narrow seam. `CoreMountBridge` sees the
mount host as a bounded queue of batches that succeed or fail, and relies on just what
`MountHost` checks and proves as `AllOrNothing`: a failed batch empties its surface, or leaves it as it
was when it was a lone batch refused beforehand. One thing it relies on beyond that
(`MountSucceeds`): the last batch of a full mount refers to nodes of all the others, so that
it fails if one of them did. That is so of a connected tree, which Core's are; `preflight`
(`src/mount/mount_host.cpp:877-945`) does not ask for it. It sees the surface host as a present
executed once, with one result, which is `AnsweredOnce` of `SurfaceHost`; it may fail also
for a surface that is ready, when its page root is no longer valid.

### OwnerTaskQueue

A call takes the lock in one step (`Enter`, with its one attempt) and leaves it in a later
one, so other threads do meet it held and take their `kBusy` branch. Between, the fields the
lock protects are read by nobody else, so the body of a critical section is one step,
unless it has one that others can see. `pc` says where each thread is in the code, `call`
holds the owner's policy and remaining budget. `depth_snapshot_` is always stored with the
value of `size_` just written, so `size` stands for both; it is read outside the lock by
`pump` (`BudgetSpent`) and by the coordinator.

* `post`: `PostEnter` or `PostBusy`; then `PostReject` or `PostAccept`; `PostLeave`; and
  only when the queue was empty `PostNotify`, after the lock is released (lines 45-76).
* `bindOwner`: `BindEnter`, `Bind`. `pump`: `PumpBegin` with any requested budget or
  `PumpRefused`, then `PopEnter`/`PopBusy`, `PopTake`/`PopEmpty`, `EndTask`, `BudgetSpent`.
* `beginStop`: `BeginStopEnter`, `BeginStop` or `BeginStopReturns`, `RequestStop`, and for
  `Cancel` the loop of `cancelPending` through the same pop steps. `finishStop`:
  `FinishStopEnter`, `FinishStop`. `OwnerBusy` is the lock held.
* `Sleep` and `Wake` are the embedder's wait on its wakeup port (external).

`accepted`, `ended` and `cancelled` are history. A task's own code is not modelled; that it
might post again is covered, since any producer may post at that moment.

### BackendLifecycle

`Q == INSTANCE OwnerTaskQueue`: the coordinator's calls of the queue are the queue's own
actions, each `kBusy` on a held lock included, and run while producers post. One step per
port call, because any of them may answer busy or failed and end the operation there.
`step` says where the operation is; `reply` is what it returned. The three flags `open`
sets, `stop_prepared_`, `input_discarded_` and `stop_error_` are the state a resumed
operation goes on from. The device callbacks behind `embedded_backends.cpp` are external
and choose their answers, within `MaxDeviceBusy` and `MaxDeviceFail`.

### RuntimeHost

`at` and `cursor` say where `start` and `pumpOnce` are: in a pump, tasks, start result, control slots,
then the stages of `progressTeardown`. Core's answers and posts from other threads happen between
any two of these steps. `admits` is whether the queue takes tasks: from `bindOwner` on, which is
before `open` has opened display and input (`StartOpens`), to the beginning of a stop. A display or input that
fails to open (`StartOpenFails`) is rolled back task by task: what was posted meanwhile is
cancelled (`CancelTask`), or left in a queue whose lock was held just then (`OpenUndone`
with something in `inbox`), and in both cases is never answered. Each call has a completion of its own, and `answers` records every
result it was called with. `BeginStop` and the steps of stage `drain` are the coordinator's
`beginStop`: it may answer `kBusy` while still running (bounded by `MaxBusy`), or after it
has become stopping (`StopInterrupted`, bounded by `MaxInterrupts`): these differ, because
the host looks at the state before it calls again. Tasks run by the drain are signals, and
go through `handleRawSignal` like all others. The posted queue is a bounded log, as
`TaskLog` allows.

### SurfaceHost

A `post` is three steps (`PostEnter`, `PostAdmit`/`PostRefused`, `PostTask`/
`PostTaskRefused`), for the owner may close the host or change a slot between them, and
`inside` says where the post that holds the admission lock is. The owner's steps are whole
tasks (`Execute`, with the delivery of its result) and single slots of `service`
(`ServeResult`, `ServeDelivered`), since the lock that releasing a slot tries to take may be
held at one and free at the next. `slot` is `operations_`, `record` is `records_`, `root`
the handles of `LvglPageRootBackend`. Each command is an operator that gives its possible
outcomes (`CreateOutcomes`, `PresentRootOutcomes`, ...): one where all steps of the code
succeed, and one for each place where LVGL, an allocation or the content of the surface
refuses. `told` counts what became of the result of each slot; `recent` is the requests
cleared last, of which the code's ring must be a faithful copy; `overtaken` marks the one
post that is inside while `finishClose` ends.

### MountHost

A transaction is one step of the owner (`Execute`): `Preflight` says what is checked
beforehand, against the tree as it is then; `Operated` applies the operations one by one
until one fails; `Failure` is the rollback. Every creation, property and layout of an image
may also be refused by LVGL or the allocator (`Refusable`), so every prefix of a transaction
is a place to fail. `host.object` is `objects_`, with the parent that LVGL keeps; `font` is
`fonts_` with its reference counts, `bound` the handlers, `stray` those that LVGL reached
while it deleted. Only what can decide between success and failure of an operation is
kept of a property: the range of a slider, the items and selection of pickers and tabs,
the font size, the image. `Operations` are the shapes a `MountOperation` can have; the
transactions are sequences of them. A `post` is two steps, as it looks whether the host accepts
before it takes the lock, and not again.

A page root may be destroyed at any time (`SurfaceDestroyed`), also while transactions of its surface
are queued: `root` loses the surface and `host` does not change, since the one content port outside
the tests (`include/quickapp/lvgl/surface/page_root_backend.h:47-55`) does nothing. What stood on it is
then live in the slots but no longer `Native`, and `Destroy`, which like `destroySlot` finds
a subtree by its native objects, passes over it. A content port that calls `releaseSurface`
first is `ReleaseSurface` followed by `SurfaceDestroyed`.

### CoreMountBridge

Each operation of the bridge is an operator that returns the *set* of states it may leave:
one for each answer of its neighbours. This mirrors the code, where `complete` calls
`postBatch`, which calls the mount host, from within the mount host's own completion.
`pending` is `pending_`; `queue`, `phase` and `present` are what the bridge sees of its
neighbours; `applied` is which batches of each transaction are in its surface. `Serve` is
one slot of the loop of `service`, whose budget is the number of slots. A retry that is put
off changes nothing. Surfaces are destroyed at any time (`SurfaceDestroyed`).

### PackageSource

The state and its properties are in `PackageReads`, the operations in `PackageSource`. A read is in one of `operations`, in the `requests` of libuv too while it is being read, in
the completion port (`posted`), or called back (`calls`). `Deliverable` is every set of
completions one `serviceCompletions` may hand over to a port that is full or busy;
`Teardown` is what `RuntimeHost::progressTeardown` does (serve, close, and destroy the
source unless close was busy). Opening that fails, and a read that libuv refuses at once, end
in the steps that leave nothing behind (`Open`, `ReadAtOnce`).

### FontSnapshot

One step per atomic access, in the order of the code, and two steps for a copy of a
snapshot, in between which the slot is `Torn`. Contents are generations. `initialize` has
been done in `Init`, since readers come after it. The model is sequentially consistent (see
[Not modelled](#not-modelled)).

### VirtualList

The arithmetic of `rebuild` (clamp, first row, last row, assignment of slots) is in pure
operators with the parameters of the code; `ScrollTo` and `Configure` are one step each, as
the owner thread sees them. A failed bind leaves the window moved and any prefix of the
objects created and of the rows bound.

## Runs

All 12 are bounded; nothing else limits them. "Deadlock" is not checked: in each of these
systems the last call may have been made.

| Run | Module, config | Shows |
|---|---|---|
| `queue` | `MCOwnerTaskQueue`, `OwnerTaskQueue` | order and exactly-once, exclusion, no lost wakeup, a drain runs everything, the queue implements `TaskLog` (which admits nothing to a stop), every accepted task ends |
| `lifecycle` | `MCBackendLifecycle`, `BackendLifecycle` | a stop drains, then releases everything in order; nothing runs on closed backends; the contract; the stop converges when retried |
| `host` | `MCRuntimeHost`, `RuntimeHost` | no callback into a destroyed host; each call answered once, also one posted while the host opens; failures reported; the contract followed; the teardown ends unless its stop was interrupted |
| `host_interrupted_stop` | `MCRuntimeHost`, `RuntimeHost_interrupted_stop` | violation: finding 1 |
| `surface` | `MCSurfaceHost`, `SurfaceHost` | records and page roots in step; each command answered once; a push or close swaps one surface for one; no replay; a close converges, with nothing left |
| `mount` | `MCMountHost`, `MountHost` | all or nothing of a transaction; parents are there; a lone move closes no cycle; fonts counted; no callback for a node that is gone; a closed host has nothing that LVGL still has |
| `bridge` | `MCCoreMountBridge`, `CoreMountBridge` | one answer for each transaction, in the end; "mounted" means all of it, and shown |
| `bridge_close_strands` | `MCCoreMountBridge`, `CoreMountBridge_close` | violation: finding 3 |
| `package` | `MCPackageSource`, `PackageSource` | no request on a source that is gone; each accepted read called back once; reads and close converge |
| `font_snapshot` | `MCFontSnapshot`, `FontSnapshot` | held snapshots are stable; generations in order |
| `font_close_race` | `MCFontSnapshot`, `FontSnapshot_close_race` | violation: finding 2 |
| `list_window` | `MCVirtualList`, `VirtualList` | distinct slots, no gaps, what is seen is the window |

Every property of a passing run is broken by at least one plausible mistake in the code:
the modules keep these mistakes as definitions marked "Mistake" just before what they
change (a wakeup test inverted, a `kBusy` taken for success, a rollback left out),
and `PROJECT.json` says which property each one breaks.

### Bounds

* `queue`: a ring of two with three tasks wraps and fills, and leaves a third task to
  arrive during a stop; a budget of 2 lets a pump end by its budget and by an empty
  ring. Two producers contend with each other and with the owner. No symmetry, because the
  run also checks liveness.
* `lifecycle` has two producers and two tasks, one busy and one failed device answer, at any
  of the port calls; the two together reach an error that is remembered over a
  resumed stop. `kBusy` from the queue is not bounded: it comes from real contention.
* `host` has two calls besides the start, so a control, a signal or a destroy meets any
  other one, two control slots, and a queue of one task; one busy answer of any service,
  and one interrupted stop.
* `surface`: two surfaces, so that pushes, closes and conflicts happen; two operation slots,
  so one waits for its result while another is posted; two requests over a ring of one
  completed request, so that a request is forgotten and may legally come again; a queue of
  one task, so that it is full. A budget of 2 is spent on one result that is delivered and
  released, so the other slot waits for the next `service`.
* `mount`: eleven transactions, a full mount in one and in two batches among them, on three
  nodes and two surfaces. They can ask for four objects in three font sizes, one more than
  there are slots for either; there is one binding of each kind, and one transaction slot,
  so that a post meets a full host. The path of the image has one content. The
  transactions that `preflight` lets pass although they close a cycle, by several moves or
  inserts together, are left out: LVGL would follow it for ever.
* `bridge`: a full mount in three batches and an update share a surface, a full mount of one
  batch is on the other. Three batches let one be sent ahead of the result of another; two
  pending slots and two of the mount host are fewer than the transactions and batches.
* `package`: three reads, two slots and a port of one: slots run out, a slot is reused, and
  a completion waits for room.
* `font_snapshot` has two readers, so one may hold each slot, and four generations, so each
  slot is written twice and the last generation is reached. Readers are symmetric: they run
  the same code, and the run has no liveness.
* `list_window`: 4 slots; rows of 2 and 3 pixels in viewports of 4, 5 and 8, so that rows
  divide the viewport or do not and fit the slots or do not; lists shorter and
  longer than the viewport; every offset, one below 0 and some past the end included.

### Fairness

* Queue: a thread inside a call goes on (weak). The owner's loop pumps again and again, and
  once it stops it repeats `beginStop` with its policy and `finishStop`; these calls
  compete for a try-lock that producers may hold each time, so a weak assumption says
  nothing, and strong fairness states that contention is not for ever. Posting is finite.
  No fairness is assumed of posting, binding or beginning to stop.
* Lifecycle: the same for the coordinator's client, which repeats `beginStop` until the stop
  is prepared and then `finishStop`, as `tests/lv_s01_contract_tests.cpp` does. Busy devices
  are bounded: a device busy for ever keeps a stop from ending, in the code too.
* Host: the embedder pumps for ever, a start or a pump that has begun ends, and Core answers
  what it accepted (weak, all of them). No fairness on starting, posting, controlling or destroying.
* Surface host: a post that is inside leaves and a service that has begun ends (weak). The
  owner runs the tasks of its queue and repeats `finishClose`, while it answers `kBusy`; a
  service may be under way each time they are tried, hence strong. Core's
  ingress, full any number of times, takes a result it is offered again and again (strong).
* Bridge: the mount host executes what it has queued and the surface host presents (weak);
  `service` visits each slot again and again, and a neighbour that puts it off takes what
  it is offered in the end (strong: the slot changes its phase meanwhile).
* Package source: libuv answers each request and the port runs what it holds (weak); every
  pump serves completions, a teardown that began is repeated, and a port that was busy or
  full takes what it is offered in the end (strong).

## Proofs

Eight modules hold theorems. Each proves, for every value of the constants, what a run
checks for one; `PROJECT.json` lists them with the property each one states. The pattern is
the same throughout: an inductive invariant, named `IInv` (`ListInv` for the virtual list,
`Inv` for the package source, which share a module), that holds
at first and that each step keeps, one lemma for each kind of step, and each property as a
consequence of it. Every safety property that a passing run checks is stated by a theorem, and each type
invariant is a conjunct of one of them.
The assumptions are those named in the modules (`ASSUME`): capacities
and budgets of at least 1, null values that are none of the things they stand beside, and
these three:

* the readers of a font snapshot are finitely many (`ReadersAssumption`): they are threads,
  and are counted;
* the nodes are finitely many and the transactions have the shape of `MountTransaction` and
  `MountOperation`, in at least one batch, as the bridge sends them
  (`src/integration/core_mount_bridge.cpp:130`; `MountAssumption`);
* `finishClose` has a budget that reaches every slot (`SurfaceAssumption`), as the code takes the
  size of the array for it.

### Owner task queue

`OwnerTaskQueueProofs` proves for *every* capacity, pump budget, set of producers, set of
tasks and bound on attempts what `queue` checks of safety for one instance:
`ExactlyOnceInOrder` (with `TypeOK`), `MutualExclusion`, `NoLostWakeup`, `DrainRunsEverything`; also
`NoAdmissionAfterStop`, `ClosedIsEmpty` (what the destructor asserts), and
`RefinesTaskLog`: the queue implements its abstract specification. It assumes only the
named assumptions on the constants in `OwnerTaskQueue`: capacity and budget are at least 1,
the owner is no producer, and the two null values are no tasks and no threads.

The inductive invariant `IInv` is the conjunction of

* `TypeOK` and `MutualExclusion`, which need nothing else but each other's company: a thread
  inside the critical section is what makes `lock` non-free;
* `Hands`: a task is in a thread's hand exactly at the places between taking it and storing
  or ending it. Without it the task under way is lost to the argument;
* `RingHoldsBacklog`: slot `head + i - 1` of the ring (modulo its capacity) holds the
  accepted task that is `i` places after those taken. `ExactlyOnceInOrder` compares whole
  sequences and is awkward to carry through a wrap of the ring; this form changes at
  one index per step, and the sequence form follows from it at the end;
* `Fresh`: a task being posted is not accepted yet and no other thread posts it, so the
  log admits each task once;
* `OwnerPhases`: at each place of the owner, which call, state and policy it can be in. It
  is what keeps a cancelling pop out of a drain, and `finish` off a half-stopped queue;
* `ClosedStaysEmpty`: a closed queue is empty and everything accepted has ended;
* `WorkIsAnnounced`: when the owner sleeps, or has just been told that nothing remains and may
  go to sleep, and the ring is not empty, the signal is set or some producer is about to
  set it. `NoLostWakeup` alone is not inductive: the post may come before the sleep.

The lemmas on `%` (`ModLow`, `ModHigh`, `SlotOf`, `SlotsDiffer`, `HeadAdvances`) are all
the modular arithmetic the ring needs; the steps of `Next` are taken action by action, each
conjunct of the invariant in its own lemma. `RefinesTaskLog` maps each action to one of
`Admit`, `End`, `Open`, `Stop`, `Close` or a stutter, the backlog being `Capacity + 1`: the
ring and the task the owner has popped.

### Package source

`ListAndPackageProofs` proves, of its instance `Package` of the module, for every set of reads,
every number of slots and every capacity of the port that a read is answered once (`EveryReadOnce`) and that no source
closes or goes while libuv reads for it (`ClosedSourceIsNotRead`). The two are inductive
together, as `Inv`, and neither is alone: that the port takes a delivery without knowing the
read already needs each busy slot to hold a read that is nowhere else, and that a slot
given back has no request needs the requests to be just the slots that are reading.
`ServesKeepsReads`, the lemma for serving any set of slots at once, is shared by
`serviceCompletions` and the teardown; `DeliverKeepsReads` by the four ways a read ends at
once; the rest is one lemma for each kind of step.

### Virtual list

The same module proves `SlotsStayDistinct`, `ViewportStaysCovered` and `SeenStaysTheWindow`, for
every list, row height, viewport, number of slots and history of scrolls. A window is an
induction over its rows, each taking the slot it had or a free one. `AssignedExists` shows
that this defines something, and `SlotsAreApart` that no two rows get one slot; that a free one
is left is the pigeonhole principle, from the library's theorem on surjections. `ListInv` has
three parts, and they need each other in turn:

* `Viewed`: the window is the one `rebuild` makes of the offset, so it reaches over the viewport.
  The arithmetic of rows and pixels is nonlinear; `DivFacts`, `ProductOrder` and `RowAt` are
  all that is used of it;
* `Apart`: the slots are distinct, which a new window is whatever the old one was, and they
  are slots, which it is only if those of the old one were;
* `WhatIsSeenIsTheWindow` itself, inductive beside the others.

### Backend lifecycle

`BackendLifecycleProofs` proves `StopIsOrderly`, `StopReleases`, `TasksFindTheirBackends` and
`CoordinatorKeepsContract`: the coordinator, with the real queue and any producers, implements
`LifecycleContract`. The queue is not proved again. Each step of the coordinator is a step
of the queue (`QueueActionsAreSteps`), leaves its variables alone, or is the wakeup of the
closing input, so the queue's invariant holds here as it stands. What is added:

* `OwnerFollows` and `StopUnderWay`: which queue call the owner may be in at each step of the
  coordinator, under which policy. A `beginStop` cut short leaves the coordinator stopping
  and the queue in any of three states, and the next call meets all three;
* `QueueFollows`: the queue runs no longer than the coordinator does;
* `Emptied`: what the stop has found empty stays so, which rests on the queue admitting
  nothing while it stops;
* `Ports`: input closes before the display, the display before the wakeup port, and the queue
  last, through all resumptions;
* `MarkIsPast`: a drain pass is measured from a length the log of ended tasks has had.

### Runtime host

`RuntimeHostProofs` proves `NobodyCallsBack`, `AnsweredOnce`, `FailureIsReported` and
`HostFollowsContract`: the host takes only steps of the backends that `LifecycleContract`
allows. With `CoordinatorKeepsContract` both sides of the contract are proved. The teardown
looks once whether a callback of Core is pending and relies on it for many pumps; that this
look stays true (`Closing`) is what carries the proof, and follows from `Phases`: the states
of the host in which a control or a start may still be handed to Core are over. `Unanswered`
says where each call is: nowhere yet, in the queue, in a slot, with the teardown, or
answered; `Apart` that none is in two places, but for the call that destroys, which may be
in a slot and be the destroy call. `Results` ties the teardown's result to what failed.
`AnsweredOnce` makes one exception, and says exactly which: a host whose open failed
(`NeverOpened`) has run nothing and answered nothing, and what its queue had taken by then
is cancelled or still queued. Of a host that was open it says that its stop cancelled no
signal and left none.

### Surface host

`SurfaceHostProofs` proves `TablesInStep`, `ResultsLeaveOnce`, `NothingIsLeft`, and the two
action properties `ExchangesKeepTheScreen` and `RequestsTakenOnce`. `RootsSound` makes
the record table and the handles of the backend images of each other, and is shown of the
tables that each command may leave, at every place it can fail. `Queue` holds each queued
slot in the owner's queue exactly once, and one admitted slot at most, that of the post
inside; without it a task could execute a slot that was given back. `RingHolds` makes the ring
of completed requests, by place modulo its size, a copy of the requests cleared last, which is why a
request in it is not taken again.

### Core mount bridge

`CoreMountBridgeProofs` proves `CoreIsToldOnce`. Every operation of the bridge yields a set
of states, one for each answer of its neighbours, and they nest: `complete` posts the next
batches, and may fail over to a rollback. So each operator has a lemma of one form: from a
state that satisfies `Keeps` every state it may leave does. In `Keeps`, no
transaction is in two slots, one in a slot is accepted and has not been told, and one that is
accepted and in no slot has been told once (`Owed`).

It proves `MountedIsComplete` too, the action property `MountedMeansComplete`, with a
second invariant, `Underway`: a batch on its way belongs to a transaction still being mounted,
and those of one transaction are in the order they were sent (`Sent`); two transactions on
one surface are both crowded (`Sharing`); and what waits to be shown is in its surface as a
whole, unless the surface has gone (`Presenting`). A slot past its batches has none on its
way, so no late result finds it, and a surface that is emptied or changed is that of a slot not
past its batches, so no other on it waits to be shown unless crowded. `Moves` says how an
entry may change; each operation makes such moves, and `Sound` that what is a success
after it and was none before has arrived.

### Mount host

`MountHostProofs` proves, of what objects hold, `FontsCounted`, `CallbacksAreSafe` and
`NothingIsLeft`, and of what transactions do, `TreesHang`, `TransactionsAreWhole`, `FailureIsClean`
and `LoneMovesCloseNoCycle`. All of them hold with page roots that go at any time, under queued
transactions or not. What is destroyed is destroyed only of surfaces that are there, so the
lemmas about `DestroySurface` ask for the root, and a surface that is gone keeps its slots,
their fonts and their parents as they are (`GoneSurfaceStays`).

The core of the former is `Keeps(h, X)`, about one host `h`: the count of
each font slot is the number of objects drawn with it and no two slots have one size
(`Counted`), each handler names a live object it fits (`Heard`), nothing stray was reached,
and texts have a font (`Drawn`). `X` is what an operation that failed may have left
half made, such as a text without its font; each operation keeps `Keeps(h, {})` when it
succeeds and leaves an `X` within its surface when it does not, and the rollback removes
that. `CallbacksNameLiveNodes` alone is not inductive: it needs `Heard`, and that `Destroy`
retires the handlers of a whole subtree. With it goes `FailureIsClean`: a transaction touches
its own surface alone, and one that fails leaves it empty, or all as it was when it was a lone
batch refused beforehand or its surface had gone.

The tree has an invariant of its own, `TreeInv`: what an object hangs on is there (`Hangs`).
`Lineage` is the least set that has a node and, with each
object, what that hangs on (`LineageIsLeast`, `LineageIsClosed`): it is a climb of as many steps as
there are nodes, and a chain of sets that grows in each of them has no room to grow on
(`ChainStops`). So `Destroy` takes just what hangs below (`DeadFacts`), and an operation that
succeeds is of four shapes (`OperateShapes`): nothing moves, a new object is on the root, an
object is hung elsewhere, or one goes with all below it. `TreesHang` follows.

`TransactionsAreWhole` is all of `AllOrNothing`: a transaction that mounted leaves the tree
`Asked` describes. `Asked` knows no order, and operations have one. `Tracks` joins them: after `i`
operations the nodes there are the *greatest* set of those named so far and not removed, none of
which misses its parent (`Best`), and each has the parent it was last given. That a removal
keeps this is the point: it takes what hangs below the node now, and the greatest set loses
what hangs below it by the last parents given, which is the same since nothing is removed and made
again (`NextMakesNew`, from preflight). `Asked` finds that set by counting down, in as many rounds as
there are nodes (`LeftIsBest`, with `ChainStops` again).

`LoneMovesCloseNoCycle` says what preflight's look at the tree is worth. It looks at the tree
as it is before the transaction, and at each move by itself. For a transaction that places one object, by a
move, that is enough, whatever it creates, removes and changes before it: the tree at the move is the one
preflight looked at, less what was removed and plus what is new and hangs on nothing (`Sorted`,
`MoveClosesNone`). For several moves, or for inserts, which preflight does not check for cycles
at all, it is not, and no theorem says so.

`Operated`, `Lineage` and the counting down in `Asked` are recursive functions. The library's
induction theorems take an operator, which the provers cannot
instantiate; `NatSet` is induction for a *set* of numbers, from the well-foundedness of `<`, and
`ClimbExists`, `CourseExists` and `LeavesExist` show with it that these recursions define
something.

### Font snapshots

`FontSnapshotProofs` proves `SnapshotsAreStable` and `AnnouncedInOrder`. The invariant is
about the count of a slot as the agreement between readers and owner: it is the number of
readers between their increment and their decrement (`ReadersCounted`), and while the owner
writes a slot no reader is past its second look at it (`NobodyPast`). A reader that comes
later is counted, looks again, finds another slot active and goes. `Publishes` keeps the
generations apart: a publication only begins when the last one was announced. As in the
model, atomic accesses are sequentially consistent.

### Only model-checked

* Liveness: the prover has no fairness.

## Findings

1. **An interrupted stop is never resumed by the host** (`host_interrupted_stop`).
   `progressTeardown` calls `beginStop` only while the backends are `kRunning`
   (`src/runtime_host.cpp:348`). `beginStop` becomes `kStopping` first and may answer
   `kBusy` after it (`src/backend_lifecycle.cpp:63`, 69, 83, 99). From then on the host calls
   only `finishStop`, which refuses an unprepared stop. `evidence/lv-s02-verification.md:108`
   has a bounded later attempt converge; the coordinator does when `beginStop` is repeated
   (`lifecycle`, `StopConverges`), and the host does when this answer does not come (`host`,
   `UninterruptedTeardownConverges`).
2. **A reader admitted during the close reads an overwritten slot** (`font_close_race`). The
   readers are counted before `closed_` is stored (`src/measure/font_metrics.cpp:213`).
3. **A closed bridge strands what is pending** (`bridge_close_strands`). `close` stores
   `closed_` (`src/integration/core_mount_bridge.cpp:479`) and `service`, which alone retries
   batches, rollbacks, presents and results, refuses from then on (446). The destructor
   asserts that nothing is pending (81), and `evidence/lv-s04-verification.md:17` has the
   pending transactions down to zero after `close`.

Further places where code and documents differ, which the modules follow the code in and no
run is spent on:

* A start overtaken by a destroy is answered with the teardown's result, possibly a success
  (`src/runtime_host.cpp:273`, 381; `evidence/lv-s02-verification.md:70`, A05).
* The rollback of a failed open may leave the queue open. `closeAfterOpenFailure` calls
  `beginStop` and `finishStop` of the queue once and ignores `kBusy`
  (`src/backend_lifecycle.cpp:192-193`), though `bindOwner` has let other threads post since
  line 20. The coordinator is then `kClosed` over a queue that accepts tasks or holds some
  (steps `undoStop`, `undoFinish` of `BackendLifecycle`), where
  `evidence/lv-s02-verification.md:107` (N07) has lifecycle, task, input, display and wakeup closed.
* A mount host cannot be destroyed after a page root went with objects on it. `destroySlot`
  finds slots by walking up from valid native objects (`src/mount/mount_host.cpp:1550`); those
  LVGL deleted with their page root are never found, `finishClose` succeeds over them, and the
  destructor's assertion that no object is live fails
  (`include/quickapp/lvgl/mount/mount_host.h:51-55`). `executeDestroy` goes on when the
  content is busy (`src/surface/surface_host.cpp:519-541`), the one content port outside
  the tests is a no-op, and one that calls `releaseSurface` gets `kBusy` while a transaction of
  the surface waits. `ClosedIsEmpty` speaks of what LVGL still has (`Native`).
* A list row that stays visible may change its object when the list is scrolled back
  (`src/list/virtual_list.cpp:119`; `include/quickapp/lvgl/list/virtual_list.h:31`). No two
  rows ever share one (`SlotsAreDistinct`).

And behaviour that no document forbids, but that a reader may want to know of:

* The rollback of one transaction takes the content another has mounted on the same surface,
  which may have been answered "mounted" (`src/integration/core_mount_bridge.cpp:455`);
  `MountedMeansComplete` leaves such pairs out, as `crowded`.
* A post that has passed its check may be admitted to a surface host or mount host that
  has finished closing (`src/surface/surface_host.cpp:120`, `src/mount/mount_host.cpp:1440`);
  both `ClosedIsEmpty` except it, as `overtaken` and `late`.
* A signal posted while `start` opens the backends is never answered if the open then fails
  (`src/backend_lifecycle.cpp:188-192`, `src/runtime_host.cpp:86`); `AnsweredExactlyOnce`
  excepts it, as `NeverOpened`.
* A result the ingress refuses for another reason than overflow is dropped
  (`src/surface/surface_host.cpp:349`); `AnsweredOnce` of `SurfaceHost` counts it as told.
* Several moves in one transaction, each legal by itself, or an insert of a node under one
  that hangs on it, close a cycle (`src/mount/mount_host.cpp:945`).
* A path is decoded once: after `setResource` its images keep the old pixels
  (`src/mount/mount_host.cpp:1256`). A font slot keeps its size until the host closes
  (757). The bounds of a slider are applied one at a time, and an empty range in between
  fails the transaction (1135).

## Not modelled

* **Weak memory.** Atomic accesses are sequentially consistent here. `acquire` and `publish`
  of the font publisher use acquire and release orders, which permit each side to miss the
  other's store; no run shows that it happens or that it does not.
* **Core, the JavaScript services, LVGL, libuv, SDL and device drivers** are external. They
  answer as the code calling them allows for. Core answers each accepted request once; a
  Core that answers twice is outside the model.
* **Wrong-thread and invalid-argument calls**, except where they share a path with an error
  that is modelled: they return before anything changes.
* **Wording of errors, traces, counters of statistics**, the contents of tasks, fonts, rows,
  texts, packages and images.
* **Mount host**: styles, geometry, order of siblings, the values of switches, inputs and
  scroll views, the payload of callbacks, confirming and cancelling a picker, its queries.
  Of `preflight`, the checks of rectangles (938-939) and of the names of properties, and the
  truncation of texts, which decide about data alone. Transactions that close a cycle (see
  Findings). What becomes of a slot whose native object has gone with its page root: its
  address may be used again by LVGL, which makes it valid once more (1550), its surface id by
  Core, for which `evidence/card-wallet-embedded-acceptance.md:42` has fresh ids, and a
  handler installed on it, or a query, follows a dangling pointer.
* **Mount bridge**: the conversion of operations. A full mount whose source is a transaction
  rather than a request, which `tryPresent` can never present, is excluded: Core posts full
  mounts under a request.
* **Composition of all three modules of the mount path** in one state space: each is at its
  limit by itself. The seam is stated under "Modules".
* **SDL and input**: the ring of samples and its adapter, which belong together and come
  next; the libuv loop, mostly calls of libuv, stands behind the external wakeup port.
* **Feature provider, C SDK, font measure, generated font data, constant tables, media stub**:
  no state that an order of steps can put wrong, or callbacks that belong to the embedder.

## Plan

1. The ring of input samples with its adapter: a contact that began ends.
2. A mount host whose preflight follows the tree through the transaction, with the absence
   of cycles proved of every transaction, once the code does. Likewise that a closed host has no
   slot at all, once slots are cleared with their page root.
