# Kyron: a verification project

This directory holds TLA+ models of [kyron](../src), an asynchronous Rust runtime with
work stealing, dedicated workers, a safety worker, timers, I/O and channels. TLC
model-checks them on small instances; TLAPS proves the central invariants of the tasks and their join handles, of the
broadcast channel, of the engine and its builder, of I/O readiness and of the pools for all instances. Paths below are relative to
`src/src/kyron/src` (K) and `src/src/kyron-foundation/src` (F).

## 1. The system

A **task** wraps a future. Its life is governed by one atomic word of flags
(`K/scheduler/task/task_state.rs`): IDLE, RUNNING, COMPLETED, CANCELED, NOTIFIED,
NOTIFIED_SAFETY and JOIN_HANDLE_ATTACHED. **Wakers** raise NOTIFIED and, if the task was
idle, put a reference to it into a ready queue. A **JoinHandle** stores the waker of the
task that awaits it and later takes the result; it may also abort the task. References are counted by hand.

An **engine** runs *async workers*, each with its own work-stealing queue, all with one
global queue; *dedicated workers*, each with a blocking `TriggerQueue`; and at most one
*safety worker*, to which a task is moved when a safety task it awaits fails. An async
worker that finds nothing searches (steals), and then parks: on the I/O driver if it can get
it, on its condition variable otherwise. Whoever queues a task unparks a parked worker unless
somebody searches. A **runtime** owns the engines that its builders describe.

**Drivers** serve time and I/O: a timing wheel of six-bit levels whose next deadline some
parked worker sleeps for, and an I/O driver around a `poll(2)` selector that marks
registrations ready and wakes their waiters. **Channels** (SPSC, SPMC broadcast), TCP streams, iceoryx2
events, reusable boxed futures, `sleep`, `yield_now` and `select!` sit on top.

The correctness properties that matter: a future is polled by one thread at a time; no wake-up,
no join and no task is lost or duplicated; a join answers what the future returned; a worker never
sleeps beside work nobody looks for; an engine that is dropped ends, unless an async worker sleeps over the
request to stop; timers fire, not early and not never;
readiness and channel messages reach a waiting receiver; memory is freed once.

## 2. Modules

| Module | Models | Reads as |
|---|---|---|
| `TaskState` | `K/scheduler/task/task_state.rs` | A state is the set of its raised flags. Each compare-exchange loop is a pure operator from the old state to the new one and the caller's answer; a failed `assert!` answers `"Panic"`. |
| `AsyncTask` | `async_task.rs`, `join_handle.rs`, wakers, `run_task` of async and safety worker | Actions of the polling threads, from taking a task off a queue to requeueing it, and of foreign threads that fire wakers. `Parent` says who spawns and joins a task. |
| `TaskRefs` | `TaskRef`, `waker.rs`, `safety_waker.rs`, `AtomicWakerStore` | The count of each task beside all the places that hold a reference: queues, handles, wakers, hands. |
| `Spawning` | `K/lib.rs` spawn functions, `safety.rs`, `context.rs`, both schedulers' `respawn` | Where a task is queued, by the worker that spawns or wakes it, in several engines. |
| `WorkQueues` | what the queues promise | Bounded FIFO queues; a steal takes a prefix, a spill and a fetch move one. |
| `SpmcStealQueue` | `F/containers/spmc_queue.rs`, `mpmc_queue.rs` | Counters modulo `Wrap`, slots, one action per atomic access that others can observe. |
| `WorkerParking` | `worker.rs`, `worker_types.rs`, `scheduler_mt.rs` | The loop of an async worker, parking, unparking, notifying and stopping; queues are counted. |
| `TriggerQueue`, `EngineWorkers` | `F/containers/trigger_queue.rs`; `execution_engine.rs`, dedicated and safety worker, thread barrier | The blocking queues, and an engine from start to drop: threads that fail to start, the barrier, batches, requeues, stop, `JoinHandle::join`. |
| `GrowableVec`, `EngineBuilder` | `F/containers/growable_vec.rs`; runtime and engine builders | What calls of a program configure, the ids `build()` gives, and how an engine is found. |
| `DriverParking` | `K/scheduler/driver.rs` | How workers agree through `next_promised_wakeup` who sleeps for the next timer. |
| `Timers` | what the time driver promises | A set of deadlines and rounds that fire what is due and nothing else. |
| `TimeWheel` | `K/time/mod.rs`, `wheel.rs`, `clock.rs`, `futures/sleep.rs` | Levels, slots, cascading and the pool of entries; a round takes one step per slot. |
| `IoReadiness` | `K/io/driver.rs`, `async_registration.rs`, `bridgedfd.rs` | One descriptor, its registrations, readiness with tick, waiters, the driver's raw pointers. |
| `ReadinessWord` | `ReadinessState` of `async_registration.rs` | The word that readiness and tick are packed into, bit by bit; `IoReadiness` has them as a set and a number. |
| `PollSelector` | `K/mio/selector/unix/poll.rs` | The descriptor table and the hand-over between `select` and other threads. |
| `ReadBuf`, `TcpStreams` | `K/io/read_buf.rs`; `K/net/`, read and write futures | Operators on buffers; bytes that go from a connecting to an accepting side. |
| `UdpSockets` | `K/net/udp_socket.rs`, `K/mio` bridge, `net/utils.rs` | Sockets that tasks share: bind, connect, and calls that are tried again until the system takes them. |
| `SpscChannel`, `BroadcastChannel` | `K/channels/` | Each access to shared memory is a step; the broadcast channel is an array of the others and a set of free indices. |
| `IpcEvents` | `K/ipc/iceoryx2/event.rs` | `wait_one` and `wait_all` over a descriptor that is armed once. |
| `Select` | `K/macros/select.rs`, `yield_now` | The state machine the macro expands to. |
| `ReusablePool` | `F/containers/reusable_objects.rs`, vector pool, `reusable_box_future.rs` | Who frees a slot when pool and user are dropped on different threads. |
| `IntrusiveList` | `F/containers/intrusive_linked_list.rs` | The ring of pointers beside the sequence it stands for. |
| `MockRuntime`, `MockFn` | `K/testing/mock.rs`; `kyron-testing` `mock_fn.rs` | What unit tests get in place of runtime and callbacks. |
| `AsyncTaskProofs`, `AsyncTaskJoins`, `AsyncTaskJoinProofs` | - | Lemmas and theorems about `AsyncTask`. |
| `BroadcastInvariant`, `BroadcastLinkProofs`, `BroadcastChannelProofs` | - | The inductive invariant of `BroadcastChannel`, lemmas and theorems. |
| `EngineQueueProofs`, `EngineProofs` | - | Lemmas and theorems about `EngineWorkers`, and about `EngineBuilder`. |
| `ResourceProofs` | - | Lemmas and theorems about `ReusablePool` and `IoReadiness`. |
| `MC...` | - | Instances for TLC. |

### How the MC modules are built
Most components share no state with each other, and each needs an instance of its own. An MC module puts several of them
side by side: the variable `focus` is chosen in the initial state and never changes, the component in
focus moves, and the others rest in their initial states. A run thus checks the disjoint union of its components, never their product, and a
property reads `focus = "x" => X!P`, or the conjunction of a few that together say one thing. Fairness is asked of the component
in focus only. A component that occurs twice (`Bulk` and `Thieves`, `Running` and `Stopping`, `Within` and `Across`; `AsyncTask` and `Plain`,
`BroadcastChannel` and `Reused`, where the MC module extends the first) has two instances of the same module over the same
variables. A module whose theorems are listed in section 4 is extended, not instantiated, so that a run checks the very
definitions the theorems are about. Where members of a set are alike, `Symmetry` permutes them; runs with liveness properties use none.
`MCParking` narrows the environment of `WorkerParking` to the hardest case for liveness: one task from outside, and no sleep that
ends by itself.

Components that do interact are composed: `AsyncTask` over `TaskState`, `EngineWorkers` over `TriggerQueue`,
`BroadcastChannel` over `SpscChannel`, `TcpStreams` over `ReadBuf`, `EngineBuilder` over `GrowableVec`. Others meet through
an abstract specification that the one is shown to implement and the other takes for granted, in simpler variables of its own:
`DriverParking` has the timers of `Timers`, and `AsyncTask` and `WorkerParking` have the queues of `WorkQueues` as bags and counts.

### Notes on single modules

**AsyncTask.** `pc` says where a thread stands: `popped` (a reference in hand), `polling` (inside the future,
RUNNING is up), `set_waker` and `clear_stage` (between the two steps of a first join poll and of
an abort), `ready` (the stage holds the result, the flag does not), `wake`, `respawn`,
`respawn_safety`, `requeue`. What a future does is nondeterministic: spawn its children, poll or
abort their handles, hand its waker out (`armed`), return. It returns Pending only after it has looked at
the handles it holds and with a waker left somewhere. A panic ends the behaviour with its cause in `panic`.
The history variables `returned` and `dropped` are read only by properties.
Queues are bags with a bound; the batch of the safety worker is taken one task at a time (`EngineWorkers` has it whole).

**SpmcStealQueue.** `push_local_queue`, `fetch_from` and `steal_internal` are split at every access whose result may be
stale when used. `pop_local`, `push_to_mpmc` (under the lock of the global queue) and the last loop of
`steal_internal` are one step: nothing they do before the successful exchange is visible, and what they
read after it no one else writes. A moved-out slot holds `Moved`. `fetch_from` may overwrite slots that are being stolen (run
`StealQueueOverrun`); as that is a data race, the behaviour ends there (`overrun`).

**WorkerParking.** A step of a worker ends before the next access to shared state. The mutex of a worker is held by others for an
instant only, so it is a predicate of the owner's position (`Locked`). `parked` counts the entries of a
worker in `parked_workers_indexes`. The I/O driver is its holder and a wake token. The timeout of a park
is an input: none, some, or zero. `StopCalls` says how often every worker is asked to stop: once by
`ExecutionEngine::stop`, once more when the `Worker` is dropped.

**EngineWorkers.** Of the async workers only start, the poll of the entry task and stop are kept, and that the request to
stop may be lost on one of them (`StopIsLost`, what `WorkerParking` shows in detail): it then sleeps until something other than the drop ends its
sleep (`SleepEnds`). A critical section of a trigger queue is one step, the `notify_one` after the unlock another. A start may fail at any
thread, and the barrier's five seconds may pass at any time.

**Spawning.** A `JoinHandle` may be given to any task, so the one that awaits it need not be the one that spawned. What a woken task does next
is left to `AsyncTask`.

**TaskRefs.** A queue may refuse a reference, or there may be no queue for it; where the code ignores that, the reference is dropped (`RespawnRefused`,
`RequeueRefused`).

**MockRuntime.** A task that is being polled may call `step` itself: the steps that have not returned are a stack. What the inner step polls
and does not finish goes back to the queue, and the outer one polls it again.

**Select.** The underscores that the recursion of the macro puts before each case are a sequence, and the table that counts them is its length.
With as many cases as the table goes up to, 65, the mask of the last would be `1 << 64` (`select.rs:133`).

**ReadBuf.** `advance_filled` goes beyond the initialized bytes without the panic that `read_buf.rs:134` promises; `poll_read`, its only caller
here, never asks for that (`LayoutHolds`).

**DriverParking.** `park` is split where it reads the promise, computes the next deadline (with the lock if it can be got),
writes its promise and its stash, and sleeps. The clock is milliseconds; `process_work` holds the writer's side of the lock.

**TimeWheel.** The list of a slot and its bit in `occupied_slots` are one set of entries tagged with level and slot. The clock
ticks `TicksPerMs` times a millisecond, because `sleep` rounds and the wheel does not.

**IoReadiness.** A task calls on the descriptor, sees WouldBlock, arms the descriptor again, clears the readiness if its
tick is the one it saw, and leaves its waker in the slot of the registration or in the list of waiters. Driver
steps (report, mark, wake) come in between. A descriptor may be closed and opened again while the driver has its pointer.

**BroadcastChannel.** `late` are the indices whose receiver subscribed after the sender had begun to go, and `undrained` those of them at which
the sender's drop had written SENDER_GONE over the RECV_GONE of the last receiver, so that nothing was cleaned up. What the code does for them is in
the model, and the properties that fail for them say so.

## 3. Runs

Every property below is stated, with the code it is about, in the module it belongs to; where a run checks a
conjunction, the MC module names it.

| Run | Instance | Shows |
|---|---|---|
| `Tasks` | *safety*: a parent and two safety children, an async and a safety worker, a foreign waker, queue of three, safety queue of one. *plain*: a parent and a child, two async workers, the waker, queue of two. *within*: three tasks in an engine with each kind of worker. *across*: two tasks, two engines of which one has a dedicated and a safety worker, the other neither. *mock*: three tasks. *timed*: two async workers and a dedicated one, two milliseconds. | `StageIsExclusive`, `NoLostNotification`, `NoLostJoin`, `JoinAnswer`, `NoInconsistency` in both instances of tasks; `NothingFails` (in *plain* no assertion fails and a task has one queue entry); `WokenWhereItMayRun`; `MockStepIsFair`; `FutureTimerIsWatched` |
| `Live` | parent and child, two workers, one waker; four iceoryx2 events and one failing call, ticks modulo three; `select!` with four cases | under fairness `NotifiedIsPolled`, `JoinCompletes`, `EventIsDelivered`, `SelectEnds` |
| `Containers` | pool of two slots and three handles; two workers with four slots, five values and one steal; three workers with two slots and two steals; list of four items; mock function and a clone | `LentOnce`, `FreedExactlyOnce`; `IsWorkQueues` (the refinement) and `StealIsSafe`; `ListIsSequence`; `MockFnIsTruthful` |
| `Workers` | builders of up to three engines with three names for dedicated workers, ids of width six, of which the highest is the main thread's; two workers and a foreign thread with timeouts; the same without timeouts and with a stop | `WorkerIdsDistinct`, `FoundByName`; `SleepersAreReachable`, `NoIdleSibling` |
| `ParkLive` | two workers, one foreign thread, two tasks, no timeouts, fair | `WorkIsDone` |
| `Engine` | one worker of each kind, a producer, two tasks, the dedicated queue of two and the others of one; an entry task and a thread that joins it | `SleeperIsNotified`, `BuiltIsReady`, `ReferencesKept`; under fairness `DropEnds`, `QueuedIsPolled`, `JoinReturns` |
| `Wakers` | a broadcast channel of two indices with room for one value each, with two values and one subscription (*channel*) or one value and two subscriptions (*reused*); two tasks that may hold each other, two workers, a foreign thread (*refs*) | `ReceiverIsWoken`, `StreamInOrder`, `SentIsDelivered`; `ReferencesAreCounted` |
| `Drivers` | a reader and a writer on one descriptor with two registrations; two threads and the selector with room for two descriptors; a wheel of two levels of four slots; a connection of four bytes through a pipe of three; two UDP sockets, two tasks and two datagrams | `WaiterIsWoken`, `UsedIsAlive`; `SelectorHandsOver`; `SleepIsServed`, `IsTimerSet` (the refinement); `SocketsAreFaithful`; and, as an assumption evaluated once, `WordIsFaithful`: the packed readiness word behaves as the set and the tick of `IoReadiness`, for all readiness and all ticks of four bits |

Four further runs each end in a violation of what the source says:

| Run | What the source says and what happens |
|---|---|
| `AsyncTaskAssertIdle` | A task in both queues, which `async_task.rs:260` expects, completes on one worker; the other panics in `assert!(prev.is_idle())`. |
| `StealQueueOverrun` | `spmc_queue.rs:301` says that room is counted from the steal counter; `fetch_from` takes the tail and overwrites slots that a thief is copying. |
| `ReadinessStale` | `async_registration.rs:68` says that a user is woken once the interest is ready. A future taken off the list, which finds its readiness already cleared, waits without entering the list again. |
| `TimerUnwatched` | `driver.rs:112` wants to make sure that someone sleeps on time. A worker that goes by a promise it read before the promise was replaced lets all workers sleep past the earliest timer. |

Eight further disagreements show in the same way. The modules state the properties; TLC finds each violated with the constants below:

| Module, constants | Property that fails | Cause |
|---|---|---|
| `MCAsyncTask` with `MCTwoParents`: tasks p, q, c1, c2, the last two safety tasks; one async and one safety worker, one waker, queues of four and one | `NotifiedIsRescheduled` | The safety worker ignores that its queue is full and drops a notified task. |
| `WorkerParking`: two workers, one outsider, `Timeouts` {"none"}, `StopCalls` 2, `MaxWork` 1 | `StopIsNoticed` | A stop request is swallowed by a concurrent unpark; the worker sleeps on. |
| `TcpStreams`: one connection, `MaxBytes` 4, `PipeSize` and `BufSize` 3 | `ReadEndIsEnd` | An error of a read becomes `Ok(0)`, which `traits.rs:31` reserves for the end. |
| the same | `NothingIsEnd` | `poll_read` into a buffer without initialized room answers `Ok` without data while the stream goes on; `traits.rs:31` says that this is the end. |
| `BroadcastChannel`: two indices, `Size` 1, one value, `MaxSubscribe` 2 | `StaleIsCleared` | The drop of the sender writes over RECV_GONE (`spsc.rs:144`), and `enable_receiver` no longer knows that there is something to clear (`spsc.rs:175`): the new receiver gets values sent before it subscribed. |
| `SpmcStealQueue`: as in run `Containers` | `IndicesFit` | `dst_head + i` (`spmc_queue.rs:442`) is no wrapping addition, unlike those of the counters; neither is `head + num_items` (`:337`). With overflow checks they panic where the counter wraps. |
| `IntrusiveList`: four items | `UnlistedIsNull` | The item that is removed as the last keeps its links to itself. The debug assertions of `push_back` (`intrusive_linked_list.rs:115`, `251`) fail when it is pushed again; kyron pushes each item once. |
| `IntrusiveList` with `FairSpec`: three items | `RemoveReturns` | `remove` of an item that is not in the list walks round the ring for ever. |

### What the properties except
Some properties hold only with an exception that is spelled out in the module. Without it they fail, in the model as in
the code:

- `WaiterIsWoken` and `EventIsDelivered` except a future that was woken once in vain (run `ReadinessStale`), and
  `FutureTimerIsWatched` a worker that went by a replaced promise (run `TimerUnwatched`).
- `ReceiverIsWoken` excepts receivers that subscribe after the sender began to go: `subscribe` resets the channel, and they wait
  for ever (`EndWakesAll`; `spmc_broadcast.rs:131` and `277`).
- `SelectorHandsOver` excepts an access whose byte another access has read: it waits until `select` returns for another
  reason (`EveryAccessGetsThrough`; `poll.rs:614`).
- `WokenWhereItMayRun` excepts two uses. A task of an engine without a safety worker that is woken into safety is lost
  (`scheduler_mt.rs:127`, against `safety.rs:27`); and the process ends when a task of a dedicated worker awaits a handle that another task got from
  a safety spawn, and that safety task fails (`scheduler_mt.rs:291`).
- `DropEnds` excepts an async worker that sleeps over the request to stop (`StopIsNoticed` above): while it sleeps, `drop` waits for it. All other
  workers end, and when it wakes for another reason, `drop` returns.
- `StreamInOrder` excepts from freshness, and from nothing else, the receivers that find an index undrained (`StaleIsCleared` above).
- `ReferencesAreCounted` lets a notified task be freed where a queue has refused its reference, or there was no safety queue for it.
- `SleepIsServed` is checked below the top of the wheel; near a multiple of 2^30 ms the level of a timer is one more than there
  are (`time/mod.rs:292`).
- `ReferencesKept` speaks of workers to which no more tasks are spawned than their queue holds; `QueuedIsPolled` and
  `JoinReturns` of workers that are not stopped.

Lesser divergences are in the models as the code has them, without a property: a safety wake of a running task
requeues it to the async worker that polls it (`safety.rs:49` promises the safety worker); `push` gives a value
back during a steal though the global queue has room; more than half of the workers may search; after a lost
SHUTTINGDOWN a worker can park while it is still listed, so that the push to the full list panics; a `JoinHandle` polled
a second time keeps the waker of the first poll; events with only POLLHUP or POLLERR wake nobody.

### Bounds
- *Tasks.* Two safety children are the least with which a task can be woken twice during one poll and be in
  both queues; two workers and a waker are the least with a poll, a completion and a foreign wake at
  once. *timed* was also checked with three milliseconds. What is proved in section 4 does not depend on these bounds.
- *Queues.* Two slots make a queue of which half is one, four slots make steals and spills of several values; a global
  queue of one fills; `Start` is two below `Wrap`, so all counters wrap. One thief, one victim and the
  owner's operations meet with two workers, two thieves at one victim with three.
- *Parking.* Two workers are enough for one to hold the I/O driver and the other to sleep on its condition variable, and
  two tasks for one to be spawned while another runs; three workers with two tasks are beyond TLC.
- *Engine.* With two tasks the dedicated queue holds both and the safety queue overflows. Tasks are spawned to the
  blocking workers or an entry task is run, not both (`OneUse`): these meet only in the owner of the engine.
- *Builder.* `IdWidth` is the least in which the limits on workers and the id of the main thread fit, so one worker too many would
  collide with it; three names are one more than the dedicated workers an engine may have.
- *Channels.* Room for one value makes `send` meet a full and an empty queue; with two indices the second receiver
  comes late, leaves, and comes again (`MaxSubscribe` bounds how often). The theorems hold for any of the three.
- *References.* Two tasks can hold each other's waker; `MaxWakers` one still lets each place hold one at once.
- *I/O.* Ticks modulo three wrap; two registrations let one be in use while the other waits for its release; the
  container of the selector takes one event, so that it is full.
- *Wheel.* Two levels of four slots, deadlines now, in the lowest level and beyond one turn of it, and a clock that runs past the
  first turn.
- *Sockets.* Four bytes through a pipe and a buffer of three make partial reads and writes; two tasks on one UDP socket connect it
  while the other is in a call, and a queue of one makes the system drop.

`CHECK_DEADLOCK FALSE` stands where the bounds end a behaviour (all values pushed, all tasks done) or the system
has stopped.

### Fairness
- Tasks: a thread in the middle of an operation goes on, and a polled future returns, as cooperative
  scheduling presupposes; a queued task is taken in the end (strong fairness), since queues are FIFO and a worker
  returns to them after every poll. Futures need not do anything but return.
- Parking: weak fairness for every thread that can step. Timeouts, I/O events and spurious wake-ups are *not* fair, so work
  is done without their help.
- Engine: weak fairness for worker threads, the owner once it acts, and a pending `notify_one`; strong fairness for the
  return of the entry task, which is a future. Spawns, wakes and the decision to drop are free, and nothing ends the
  sleep of a worker that has lost the request to stop.
- iceoryx2 events: driver and task go on, and the program goes on calling; failing and abandoned calls are not fair.
- `select!`: a woken task is polled and a chosen block ends. Which future gets ready is free.

## 4. Theorems

`AsyncTaskProofs` proves, for any set of tasks, any spawn tree, any workers, safety workers and waker threads and any
queue sizes (`TaskAssumption`, `ThreadAssumption`, `SizeAssumption`: sets of threads are disjoint, `NoTask` is no task, sizes are
naturals):

- `TypeCorrect`: `TypeOK`;
- `StageExclusion`: `StageIsExclusive`, one poller per task, and no abort clears a stage that is being polled;
- `NotificationsKept`: `NoLostNotification`.

None is inductive alone. `TaskInv` adds what a thread refers to at each position (`ThreadInv`), that
a task is exactly one of idle, running and completed (`FlagInv`), and that RUNNING belongs to
a single poller while a stage is cleared by an abort only for an idle task already canceled
(`PollerInv`). The last is the crux: a canceled idle task can never become RUNNING, so the
clearing thread needs no lock. There is a lemma for each transition of the state word and one for each
action, and `TaskInvariance` puts them together.

`AsyncTaskJoinProofs` proves on top of that, from the same assumptions:

- `JoinsKept`: `NoLostJoin`, the completion or the abort of a joined task is not lost on the task that waits for it;
- `JoinsAnswered`: `JoinAnswer`, a handle answers what the future returned, or that it was aborted if it was canceled;
- `NothingInconsistent`: `NoInconsistency`, the branches that the source calls impossible are never reached.

The invariant is `TaskInv /\ JoinInv` (`JoinInvariance`). `JoinInv` says what a stage holds at each point of a task's life (`StageInv`),
that JOIN_HANDLE_ATTACHED is up only behind a stored waker and stays up while the handle waits, and that whoever owns a handle in use
is not over (`HandleInv`), and that an answer once given is final (`AnswerInv`). The argument about a lost join: the waker is stored before
the flag goes up, and the flag and COMPLETED are in one word, so either the completing worker sees the flag and is then about to wake
(`pc` is `wake`), or `set_waker` sees COMPLETED and the handle is ready at once. The lemmas of `AsyncTaskJoins` and
`AsyncTaskJoinProofs` go through the actions one by one.

`BroadcastChannelProofs` proves, for any number of indices, any capacity, any values and any number of subscriptions (`ChannelAssumption`:
there is room for one value, values are numbers; `IndexAssumption`: the channels are numbered from one; `SubscribeAssumption`):

- `ReceiversWoken`: `ReceiverIsWoken`, no wake by a send or by the drop of the sender is lost;
- `StreamsInOrder`: `StreamInOrder`, what any receiver gets is in order and each value once, the end is last, and the
  indices are kept in order; it is fresh too, unless the index was used before and the sender's drop has written over the mark of its last receiver;
- `SentDelivered`: `SentIsDelivered`, a send that answers Ok reached every receiver that was there when it began and still is.

`BroadcastInvariant` has the inductive invariant `ChannelInv` (`ChannelInvariance`). Two of its layers are about all channels: types, and the
indices (`IndexInv`): the free ones are those without a receiver, the ones never used lie above all others and are given out in their
order, so `subscriber_index_max` covers every receiver, and each handle being cloned is cloned by one subscription. The other four are about one channel,
`LinkOf(c)`:

- `ConnOf`: who has left a mark in the connection state, relative to where the sender's drop and the receiver are; in particular a receiver
  that is there is never hidden behind the RECV_GONE of its predecessor, and an index that was used is marked by one side or the other;
- `WakeOf`: a stored waker beside a value belongs to a receiver that will still look at the queue, or to a sender that is about to take
  it; beside a sender that has passed, to a receiver that will still see SENDER_GONE. It holds because either side writes before it
  looks at what the other one writes;
- `StreamOf`: `Seen(c)`, what was got followed by what is queued, increases, holds nothing of a send that has not come so far, and
  nothing older than the subscription, at an index that is not `undrained`. A pop does not change `Seen(c)`, a push appends the largest value, and only `enable_receiver` empties it;
- `DeliveryOf`: what was sent with Ok since the subscription is in `Seen(c)`, and the send under way has `c` in its range and, once past it,
  has put its value there or remembers that there was no room.

Each action is shown to keep `LinkOf(d)` for one arbitrary `d` (in `BroadcastLinkProofs` those of a send and a subscription, in
`BroadcastChannelProofs` the drop of the sender and the receivers), so that no step argues about all channels at once. TLC checked
`ChannelInv` before it was proved, for two indices, two values and two subscriptions.

`EngineProofs` proves, for any number of async, dedicated and safety workers, producers and tasks, any queue sizes and any size of a batch
(`EngineAssumption`: the sets are finite and disjoint, there is an async worker, the queue of a `JoinHandle` holds one result;
`CapacityAssumption` of `TriggerQueue`):

- `BuiltEngineIsReady`: `BuiltIsReady`, `build()` hands out an engine only when all its threads have reported;
- `NoSleeperIsForgotten`: `SleeperIsNotified`, no `notify_one` of a queue or of the barrier is lost;
- `ReferencesAreKept`: `ReferencesKept`, a task that waits or is polled has exactly one reference, on the worker it was spawned to, any other has
  none, and no task is lost or refused on a worker whose queue is as large as the tasks that were spawned to it.

The invariant is `EngineInv`. Its larger part, `PlaceInv`, is proved by itself in `EngineQueueProofs` (`PlacesKept`): the flag of a queue is up exactly
while its consumer sleeps, and whoever has yet to notify pushes nothing else meanwhile, so its `notify_one` cannot be forgotten (`QueueInv`); one worker polls
the entry task (`EntryInv`); the queue and the batch of a worker are disjoint, without repetitions, and together are the tasks that wait on it
(`HoldInv`); what a worker polls is the task that names it (`PollInv`). Counting references needs only these, through the cardinality of the sets of places.
`EngineProofs` adds the barrier, whose counter is the number of workers that have not reported (`BarrierInv`), and `NoLossInBounds`: all that is in a queue waits on its
worker, the task that is put back does not, so there is room for it. TLC checked `EngineInv` on the instance of run `Engine` before it was proved.

It also proves `WorkersAreDistinct`, for all limits on workers that fit into the width of the ids
(`BuilderAssumption`): in every configuration the builder's assertions let through, async, dedicated and safety workers have
different ids, none of them the main thread's. What makes it inductive is `LegalBuilder`, the limits those assertions keep.

`ResourceProofs` proves two components. First `IoReadiness`, for any number of tasks that read and write, through slots or futures, any number of
registrations, any width of the tick and any bounds (`ReadinessAssumption`: `poll_read` and `poll_write` are used by one task each, as they borrow the
descriptor mutably):

- `RegistrationOutlivesWake`: `UsedIsAlive`, the driver's pointer between `select` and `wake` is to a registration that is alive, and never one given to a
  later descriptor;
- `NoReadinessIsLost`: `WaiterIsWoken`, a call that waits will hear of what the kernel has for it.

The invariant `ReadinessInv` has a layer for each. `RegistrationInv` says which registrations are in use, put aside or in the driver's hand:
they are released only by the driver itself, and only while it holds none. `ArmedInv` says that each interest of an open descriptor is armed in the
selector, marked ready, or in the driver's hand, and that a task whose clearing will be accepted (its tick is still the current one) leaves none that is neither.
`WakerInv` says that a waker which has not been taken yet waits for a mark, or for the wake that follows one. The model keeps the tick from coming back all the
way to one that a task still holds (`NotOvertaken`): after exactly 2^16 marks during one call a stale clear would be accepted.

Second `ReusablePool`, for pools of any size and any set of handles (`PoolAssumption`: there is a slot):

- `PoolLendsOnce`: `LentOnce`, no slot is lent twice, and the memory of a handle is allocated while it lives;
- `PoolFreesExactlyOnce`: `FreedExactlyOnce`, memory is freed once, and when pool and handles are gone all of it;
- `PoolRestsClean`: `RestsClean`, what waits in the pool was cleared or dropped.

The inductive invariant is `PoolInv`: a slot that is neither free nor freed has a handle, and how far the drop of the pool
has come tells what the byte of a slot can be. Each side's compare-exchange then either sees the other's byte and frees, or is seen.

Only model-checked:

- liveness (`NotifiedIsPolled`, `JoinCompletes`, `EventIsDelivered`, `SelectEnds`, `WorkIsDone`, `DropEnds`, `QueuedIsPolled`,
  `JoinReturns`): liveness under fairness and `ENABLED` are out of the prover's reach;
- what recursive definitions compute, for every input: `RemoveIfIsFilter`, which compares with a filtered sequence, and `EngineIsFound`, whose
  vectors are the recursive functions of `GrowableVec`, would need an induction over data, which is out of reach as well. `WordIsFaithful` is about bits,
  which the provers do not know;
- `NothingFails`: it speaks of instances without safety tasks, as the assertion does fail with them (run `AsyncTaskAssertIdle`);
- the refinements `IsWorkQueues` and `IsTimerSet`, `ReferencesAreCounted`, and the invariants of the async workers, the selector, the wheel, the drivers' parking and the
  sockets: within reach as far as is known, and not proved.

## 5. Not modelled

- Memory orderings weaker than sequential consistency: the models interleave atomic accesses.
- Socket options of TCP and UDP sockets: one system call each.
- Atomics, cells and random numbers: thin wrappers, used as atomic variables and as free choice.
- Procedural macros, logging, `xtask`: they run at compile time, print or start other programs.
- The helpers `poller` and `waker` of `kyron-testing`, and `Sequence` of its mock functions, which compares two lists
  at its drop.
- Creation and priorities of threads (that a start can fail is modelled), allocation, the kernel's side of system calls.

`PROJECT.json` lists every part with its status, the lines each definition stands for, and every hazard with the properties that
cover it.
