# zeusOS in TLA+

zeusOS is a small user space for an embedded Linux device: a service manager
and an input manager that talk to their clients through the Android binder
driver, a thread pool, and the code that reads touch screens and keys.  This
directory models it in TLA+, checks the models with TLC on small instances and
proves theorems about them with TLAPS.

* [The system](#the-system): inventory of components
* [The modules](#the-modules): which module models what, and how
* [Runs](#runs): what TLC checks, with which bounds
* [Fairness](#fairness) and [deadlock](#deadlock)
* [Proofs](#proofs): what TLAPS proves, along which argument
* [What the models show](#what-the-models-show): flaws met on the way
* [Not modelled](#not-modelled) and the [plan](#plan)

Paths are relative to `src/`.

## The system

| component | source | state | operations |
|---|---|---|---|
| thread pool | `frameworks/threadpool/ThreadPool.cpp`, `include/ThreadPool.h` | a mutex with a flag of its own (`is_locked`), a condition variable, the deque `m_tasks`, `m_pool_state`, the ids `m_threads`, a start callback | `start`, `destroy_threadpool`, `add_task`, `execute_thread`, `~ThreadPool`, `~Mutex` |
| service manager | `frameworks/servicemanager/ServiceManager.cpp`, `packages/servicemanager/` | the linked list `svclist` of names and handles | `addService`, `getService`, `serviceManagerbinderDeath`, `onTransact` |
| binder calls and loopers | `system/binder/Binder.cpp` | the driver's descriptor, threads spawned on the driver's demand | `binderCall`, `binderDone`, `binderLoop`, `binderParse`, `binderSendReply`, `binderAcquire`, `binderRelease`, `binderLinkToDeath` |
| parcels | `system/binder/Parcel.cpp` | a buffer, a table of object offsets, the space left in each, an overflow flag | `put*`, `get*`, `bioInitFromTxn` |
| input manager | `frameworks/inputmanager/InputManager.cpp`, `packages/inputmanager/` | `mListenerDescList`, two thread pools | `addListener`, `delListener`, `inputBinderDeath`, `dispatchEvent`, `inputReaderThread` |
| input reader and devices | `frameworks/inputmanager/InputReader.cpp`, `Device.cpp` | `deviceList`, an epoll set | `addDevice`, `delDevice`, `findDevice`, `readOnce` |
| event cooking | `frameworks/inputmanager/EventDevice.cpp` | `iFlagPressure`, the `CookEvent` under construction | `scanDevice`, `process`, `CookTouchEvent`, `CookKeyEvent` |
| inotify device | `frameworks/inputmanager/InotifyDevice.cpp` | maps between watches and paths | `addWatch`, `delWatch`, `processCreate`, `processRemove` |
| calibration | `frameworks/calibrate/Calibrate.cpp` (not built) | `mtCalibrateInfo`, `mHasCalibrated`, the file `/etc/calibrateInfo` | `readConfigSetCalibrateInfo`, `startCalibrate`, `showTargetToLCD` |
| singletons | `getBinder`, `get`, `getInputReader`, ... in seven classes | a static pointer and a mutex | double-checked locking |
| test service and client | `frameworks/testservice/`, `packages/test*` | none | `hello` |

How they interact.  A client calls a manager by putting arguments into a
`Parcel` and calling `binderCall`; the driver gives the transaction to one of
the server's loopers, which runs `onTransact` and `binderSendReply`.  The
service manager's handles are kept alive by `binderAcquire` and given back by
`binderRelease`, and `binderLinkToDeath` has the driver call back when the
process behind a handle dies.  In the input manager's process four kinds of
thread meet: loopers change the list of listeners; the thread of
`mInputReaderthread` (a start callback that never returns) reads devices and
calls `add_task`; the thread of `mDispatchthread` runs those tasks, walks the
list of listeners and writes to their sockets.  All of them share singletons
that they may have to create.

What is hard, and what makes each part correct:

* *Thread pool.*  Interleavings around one condition variable: a wakeup must not
  be lost, a stop must reach every worker, the destructor must find nobody left
  and a flag that is clear; no task may be lost or run twice; a pool may be
  stopped, refilled and started again; `pthread_create` may fail half way.
* *Service manager.*  One table from names to services while services register
  again, die with registrations in flight and have their handle numbers given
  to others; every reference released exactly once; every registered service
  watched; several loopers on a list without a lock.
* *Parcels.*  Two limits (space and object slots) that can be hit in the middle
  of an item; a reader that has nothing but the order of the items to go by.
* *Input manager.*  A list walked by one thread and changed by others; writes
  that block or kill; deaths that race registrations and deletions; events in
  order, once, to whoever was listening.
* *Binder calls.*  A call must be carried out at most once though its thread
  enters the driver several times for it, and must return whoever dies; what a
  reply brings (a buffer, a reference) must be given back, and not before the
  caller has its own; loopers that are asked for may come late, never, or crash.
* *Devices.*  Descriptor numbers that are closed and given out again while the
  list still names them; one ready device starving others; partial events,
  short reads and a flag that devices share.
* *Calibration.*  A file that is removed, created and written without a rename;
  taps that the reader lumps together; five points on a panel that may be turned,
  mirrored or scaled.

`PROJECT.json` lists the hazards at their lines, with the properties that would
catch each going wrong, or the reason why none does yet.

## The modules

```
TaskQueue  <-- implemented by --  ThreadPool  <-- ThreadPoolProofs, MCThreadPool
    '-- used by -- InputManager <-- InputManagerProofs, MCInputManager
ServiceRegistry <-- implemented by -- ServiceManager <-- ServiceManagerProofs,
                                                         MCServiceManager
Parcel <-- ParcelProofs, MCParcel
InputReader <-- InputReaderProofs, MCInputReader
EventDevice <-- EventDeviceProofs, MCEventDevice
RemoteCall <-- implemented by -- BinderCall <-- BinderCallProofs, MCBinderCall
Calibrate <-- CalibrateProofs, MCCalibrate
```

Each definition is followed to its lines by `map` in `PROJECT.json`.  The
definitions whose comment begins with *Variant* are no part of the models: each
is the definition after it with one plausible bug, and the mutants of
`PROJECT.json` put it in that definition's place to show that a property can
fail.

### TaskQueue and ThreadPool

`TaskQueue` is what the pool promises: a FIFO queue; tasks begin in order, once,
and none while the pool is stopped.  `ThreadPool` has the threads.  Its
variables are the members of `ThreadPool`, `Mutex` and `CondVar`, plus `pc` and
`task` for each thread, the loop counter `i`, and three history variables.

* `m_task_mutex` and `is_locked` are separate, for the code keeps them separate:
  `pthread_cond_wait` releases and retakes the lock behind the flag's back.
* A worker goes through `WorkerLock`, then either `WorkerMustWait`,
  `WorkerSleep`, `WorkerWake`, or `WorkerExit`, or `WorkerPop`, `WorkerRun`.  The
  step between the test of the `while` and the wait is explicit, because that is
  where a wakeup could be lost.
* `AddTask` and `RefuseTask` are `add_task` from lock to unlock: other threads
  cannot tell its steps apart.
* The owner's `Start`, `CreateThread`, `DestroyLock`, `DestroyStop`,
  `DestroyBroadcast`, `JoinThread`, `JoinDone`, `DeletePool`, `DestroyMutex`
  follow the two methods and the destructors line by line.  `m_threads[i]` past
  the end, and the join of an id that was joined before, are undefined: the
  join fails (`JoinStaleFails`) or the process crashes (`JoinStaleCrashes`).
  `destroy_threadpool` has no test of its own, so that a caller may destroy a
  stopped pool once more; only the destructor looks at `m_pool_state`.

The mapping `TQ` takes `m_tasks` for the queue and the tasks of workers between
pop and delete for the running ones.

### ServiceRegistry and ServiceManager

`ServiceRegistry` is one table from names to services; a name changes hands only
by a registration or a death.  `ServiceManager` has `svclist`, the entries that
`malloc` gave out, the loopers with their program counters, and a model of the
driver (external): `node`, `strong` and `death` for each handle, and the queue
`todo` of work.  `Take` is a looper's return from `ioctl`; then `Find`,
`TestHandle`, `ReleaseHandle`, `ClearHandle`, `SetHandle`, `Allocate`, `Insert`,
`Acquire`, `LinkToDeath` and the replies are the lines of `getService`,
`addService` and `serviceManagerbinderDeath` in their order, each a step, since
no lock keeps another looper out.  Insertion takes two steps (`si->next =
svclist; svclist = si;`).  The driver gives a service the lowest free handle
number, so that numbers are used again.  A message is abstracted to whether
`addService` accepts it.  A service has one name (`NameOf`), as every service of the
tree does; see [Not modelled](#not-modelled) for one that has two.

The mapping `Registry` reads the table off the list and the driver: the service
behind the handle of the entry with the name.

### Parcel

`mBio` is `struct BinderIO` with the buffer it points to, in words of four
bytes.  A word knows the item it belongs to and, for the length of a string, its
value: this is all that a reader's course depends on.  `bioAlloc`,
`bioAllocObj`, `get` and `getObj` are operators from one `BinderIO` to the next;
`Put` and `Get` apply them.  `Send` is a reply, or a call that has not
overflowed; `CallFails` is the test at the head of `binderCall`.  Unsigned
lengths wrap at `UINT`.

### InputManager

The list, the `ListenerDesc`'s with the state of their memory, the driver as in
`ServiceManager` but with one handle to a process, the sockets, and the
dispatch thread with its iterator `at`.  `mDispatchthread` is not modelled
again: `ReadOnce`, `BeginWalk` and `EndWalk` are the actions `Accept`, `Begin`
and `Finish` of `TaskQueue`, which `ThreadPool` implements; that the pool has
one thread is the guard `running = {}` of `BeginWalk`.  `TestListener`,
`WriteEvent`, `NextListener` are the lines of the loop in `dispatchEvent`.

What is undefined in the code ends the model in `state = "undefined"`, a write to a
closed socket in `state = "killed"`.  The undefined steps:

* the walk reads or goes on from an element that was removed under it
  (`TestListener`, `StaleWrite`, `NextListener`);
* `delListener` reads `*iter` for its `binderRelease` and its two `free`s after
  `remove` has freed the node (`StaleIterator`): that step may also find the node
  as it was, and then the model goes on (`Release`, `Free`), or end it, for another
  thread may have been given the memory;
* a death is delivered through a cookie that was freed (`Take`), or a listener is
  released or freed a second time (`Release`, `Free`);
* two loopers are at the list at the same time, at least one of them to change it
  (`Overlaps`): `std::list` has no lock and the code none either.  Nothing is claimed
  of what comes after it.

To the walk, on the other hand, `push_back` and `remove` by a single looper are one
step: it follows the pointers from element to element, and one store of such a
pointer puts an element on the list or takes it off.

### InputReader

One thread, the reader's, against a world that does not wait for it.  `fds` is
the process's table of descriptors: the kernel gives the lowest free number
(`Lowest`), so numbers that the reader closed come back as other devices or as
`Other`, a descriptor of another thread (the dup of `addListener`, or one that
the binder driver installs).  `epoll` and `deviceList` are the reader's two
tables, and `pending` and `batch` what `epoll_wait` and the `read` of inotify
returned and the reader has yet to come to: both may be stale.

* `ScanNode`, `ScanGone`, `ScanEnd` are `scanDevice`.  A node that is gone is
  passed over by `stat` or ends the scan at `open` (and then the directory's own
  descriptor, which the model leaves out, is never closed).  `main` scans `/dev/input`
  and then `/dev`; the nodes are in one of them, and the scan of the other finds
  nothing.
* `EpollWait`, then `HangUp` or `ProcessEvents` for each item, then `WalkEnd`,
  are `readOnce`: the first device with input ends the walk.
* `ReadInotify`, then `CreateSeen` and `CreateOpened` or `CreateFailed`, or
  `CreateGone`, or `ProcessRemove` (with `delDevice`) for each event, then
  `NotifyEnd`, are `InotifyDevice::process`.  `iRet` is kept because a failing
  open subtracts from it, and it is an index.
* `watched` is chosen in `Init`: false is the program of
  `packages/inputmanager`, which only scans; true is one that has put the
  `InotifyDevice` in the list and watches `/dev/input`, as the class is made for.

### EventDevice

`Read` is the `read` of `process`, then one step is one turn of its loop: `CookAbs`,
`CookKey`, `CookReport` (a `SYN_REPORT`) or `CookOther` (any other `EV_SYN`), by the
type of `readBuffer[i + 1]`; `Return` leaves the loop at its end or where the array is
full (`Full`), and hands `iRet` cooked events to the dispatch thread, which `posted`
records.  The devices send while the loop runs (`Send`).  A frame is what a device
sends up to a `SYN_REPORT`: a press, a release or a key.  The value of an input event
is its frame's number, so that an element of the array tells which frames it was made
of.  `cookEvent` is the caller's array, never initialised and never reset;
`iFlagPressure` is the static variable that all devices share.  Reads may cut a frame
in two; `ended` notes which frames were not.

### RemoteCall and BinderCall

`RemoteCall` is what a process may expect of `binderCall`, "a blocking binder
call" that "returns zero on success" (`include/binder/Binder.h:349`): the call is
carried out at most once (`runs` counts) and only while its caller waits, a call that
succeeds has been carried out, and one that fails never is afterwards.  `BinderCall` composes the processes: a client,
services that register and then loop, and the service manager, over a model of
the driver (external): the caller's list of return commands `todo`, the handle
`table` of each client, the `buffers` in use in each mapping, the `queue` of each
server, and its requests for loopers.

* `Call` is `binderCall` up to its first `ioctl`; `TurnsAgain` (nothing but
  `BR_TRANSACTION_COMPLETE`), `HearsReply` and `HearsFailure` are the turns of its
  loop with what `binderParse` makes of each command; `Finishes` is the rest of
  `getService`, `addService`, `hello`, `addListener` or `delListener`, to their
  `binderDone`.  `Release` is `binderRelease`.
* `TakesCall`, `Transacts`, `SendsReply`, `Rests` are a looper's way through
  `binderLoop` or `binder_thread_loop`, `binderParse`, `onTransact` and
  `binderSendReply`.  The answers of `onTransact` are what it can answer to that
  method; the manager, which is also asked `hello` or `addListener` by a client
  whose lookup found nothing, answers by the numbers of the codes.
* `ComesBack` is the return of a looper's `ioctl`, with `BR_SPAWN_LOOPER` when the
  driver asks.  The new thread reads its `BinderThreadDesc` after the block that
  held it may be gone, which is undefined: it finds it whole, or finds a
  descriptor with which it never registers, or the process crashes
  (`LooperStarts`, `LooperCrashes`).
* A process that dies takes its queue, loopers and buffers with it, and everybody
  who waited for it is told `BR_DEAD_REPLY`.

`entry` is the service manager's list as the callers see it; `ServiceManager` has
the list itself.  In the mapping `Abstract` a caller has `called` while it waits, and
`runs` is the number of entries in `ran`, which counts every execution from the call to
the caller's next one.  So a second execution, and one after the caller was told how
the call ended, are steps that `RemoteCall` sees and does not have.

### Calibrate

A panel reports `kx * X + bx` and `ky * Y + by`, perhaps each on the other's
axis; the user touches and lifts, not quite at the target and perhaps twice; the
kernel keeps the frames until `showTargetToLCD` reads them (`ReadTouch`,
`ReadRelease`), and only the first event of a read counts.  After the second
target the orientation is decided (`Interchanged`), after the fifth `Info` is
computed; `RemoveFile`, `CreateFile` and `WriteFile` save it.  `NoFile`, `ReadFile`
and `OpenFails` are `readConfigSetCalibrateInfo`.  `StartAgain` ends the process
at any point and starts it again.  `startCalibrate` drains nothing before it begins:
what the user did while the system was up is still unread when it is called again
(`CalibrateAgain`), and is read as an answer to its first target.  The history variable
`hurried` says so, as it says that the user taps before the last tap was read.  The
doubles `iKx` and `iKy` are exact
fractions: that they are rounded is left out.

## Runs

| run | instance | properties |
|---|---|---|
| `pool` | 2 thread ids for a pool of 2, 1 submitter, 3 tasks, limit 1, 2 starts, 1 spurious wakeup | `MutexOwnership`, `TaskConservation`, `NoLostWakeup`, `NoSleeperAfterStop`, `FlagClearsAtRest`, `DeletedOnceStartedPoolIsQuiet`, `ImplementsTaskQueue`, `AcceptedTaskRuns`, `DestroyReturns` |
| `pool_restart` | 2 ids for a pool of 1, 2 starts | `MutexSafeAtDestruction`: **violated** |
| `registry` | 3 services of 2 names, one of which registers twice, 1 client, 1 looper | `OneEntryPerName`, `HandlesAreOurs`, `ReferencesBalance`, `DeathIsArmed`, `NobodyIsForgotten`, `ImplementsServiceRegistry` |
| `registry_loopers` | 2 services that register twice, 2 loopers | `OneEntryPerName`: **violated** |
| `parcel` | buffer of 13 words, 2 slots, up to 4 items, strings of length 0, 3 and 8 | `SpaceAddsUp`, `TablePointsAtObjects`, `LossIsFlagged`, `NeverAnother`, `NothingAfterAGap` |
| `listeners` | 2 processes, 2 `addListener` calls, 2 events of 2 types, sockets that hold 1 event, 1 looper, symmetry | `ListenersHearAll`, `ReferencesBalance`, `DeathIsArmed`, `NobodyIsForgotten`, `OnlyIteratorsDangle` |
| `input_reader` | 2 devices, 3 plugs or unplugs, 1 frame, 1 foreign descriptor, with and without inotify | `PolledIsListed`, `PluggedIsHeard`, `OthersAreSafeUntilAHangUp`, `ReadyIsServed` |
| `event_cooking` | a touchscreen and a key, 8 frames, reads of 6 input events, an array of 3 | `FramesInOrder`, `WholeFramesAreCooked`, `ReleaseAfterItsPress` |
| `event_complete` | the same with 6 frames, reads of 16, an array of 8 | `TouchIsComplete`: **violated** |
| `binder_call` | 1 mortal client with 3 calls, 2 services, one of which may get a second looper, the manager; 2 buffers for the manager, 1 for each other | `AnsweredByTheService`, `BuffersBalance`, `HandlesStand`, `ImplementsRemoteCall`, `CallsReturn` |
| `calibration` | 4 panels on a screen of 24 by 16, targets touched up to one pixel off, 6 frames of touch, 2 unread, 3 starts or calls of `startCalibrate` | `ColumnsAreRecovered`, `LastCalibrationIsUsed` |
| `calibration_rows` | the same, 2 starts | `RowsAreRecovered`: **violated** |

Why the bounds are enough to be interesting:

* Pool: two ids for two threads let a second start meet the ids of the first,
  stale ones included; three tasks against a limit of one fill the queue to its
  real maximum (two) and have one refused; two workers race for a task, a
  signal and the stop.  Several submitters differ from one only in the order of
  whole `add_task` calls, for each runs from lock to unlock; the theorems hold
  for any number of them.  The next task is any one never offered, since nothing
  tells tasks apart.
* Registry: two services of one name override each other; three handle numbers
  are enough for one to be released and given to another service while a third
  is in use; two registrations of one service make it override itself, while its
  namesake overrides it in turn.
* Parcel: three objects need 12 of the 13 words, so that the table can overflow
  before the buffer; strings make the buffer overflow first; four items leave
  room for items behind an overflow.  `UINT` is 65536 instead of 2^32, beyond
  what a TLC integer holds; only the wrap from `UINT - 1` to 0 matters.
* Listeners: two events are enough for one to be queued behind a walk and for
  an order to be wrong; sockets of size one fill; two listeners give the walk an
  element to remove before, at and behind its iterator.
* Input reader: three changes let a device go, its number be given to another,
  and that one go too; the foreign descriptor may take a number at any time.
  `MaxFd = 6` is never reached: at most two devices are opened by the scan,
  three after `IN_CREATE`, and one descriptor is opened by others.
* Event cooking: reads of 6 input events and an array of 3 keep the ratio of the
  code, 256 to 128, which is what `FramesInOrder` needs, for a frame is at least
  two input events.  A press is four events and a release two, so reads end
  within frames and at their ends, and the array is filled to the last element.
* Binder calls: one buffer in the client and the services makes every buffer
  that is not given back the one that fails the next call, and two in the manager
  let a lookup meet the registration of a service.  Three calls are a
  lookup, a method and another, or a lookup, a release and another lookup, which
  is given the same number for another service.  A service dies when the looper
  that `BR_SPAWN_LOOPER` made crashes, before, while and after it carries a call
  out.  `MaxThreads` is 1 instead of the 2 of `main_testservice.cpp`: a third
  looper is asked for on the same condition.
* Calibration: scales of 3 and 2 or -4 and offsets of 5 and 40 tell the axes apart
  and mirror one; one pixel of error at the targets is enough for a point taken
  from the wrong axis to show.  The errors of the four corners may add up to four
  columns, and with that of the centre make the worst calibration there is for
  that error: a bound of twice the error in `ColumnsAreRecovered` fails.  One target
  has two places where it may be touched and the others one, which keeps the taps
  short and leaves room for three starts or calls: a calibration that is saved, a
  second one that replaces the file, and a crash and a start at any point of it, so
  that the file that is found is of neither, of the first or of the second.  Six
  frames are one to a target and one more, so that one of the taps is double or
  moves.

## Fairness

Safety runs assume none.  `ThreadPool!LiveSpec` assumes weak fairness of each
thread that is between two statements: the scheduler runs it, a free mutex is
taken by a thread that waits for it alone, and `task->run()` returns.  It does
not assume that anybody calls a method, that a start callback returns (the input
reader's does not, and `DestroyReturns` says so), or that waits end spuriously.
`BinderCall!LiveSpec` assumes weak fairness of each thread that can go on, the
callers' and the loopers', not that anybody calls, that a service forgets a dead
one, or that a looper that was asked for ever comes.
`InputReader!Spec` assumes weak fairness of the reader's thread, all of whose
steps are between two blocking calls or after one that has returned; the devices
and the other threads, bounded in number, are free to do nothing.

## Deadlock

The runs say `CHECK_DEADLOCK FALSE` since all of them may end: calls are
bounded, a pool is deleted or its process crashes, a parcel has been read, the
input manager's process is killed or its behaviour undefined, all devices have
been read, no calls are left or a screen is calibrated.  That nobody waits
for ever is what the liveness properties and `NoLostWakeup` are for, and the two
properties `NobodyIsForgotten`: where no thread of the service manager or of the
input manager can go on (`~ENABLED`), no call is unanswered, no event undelivered
and no dead process still listed.  Their loopers have no loop without an `ioctl`,
and the dispatch thread walks a finite list, so to stop is the only way not to
finish.  For the input manager the statement is about listeners that have read what
was written to them, as `packages/testclient` does for ever: otherwise the only
dispatch thread blocks in `write`, and every listener with it.

## Proofs

`ThreadPoolProofs`, `ServiceManagerProofs`, `InputManagerProofs`, `ParcelProofs`,
`InputReaderProofs`, `EventDeviceProofs`, `BinderCallProofs` and `CalibrateProofs` hold
for every value of the constants.  Those of the two managers begin with the same lemmas
about queues and lists: what becomes of the places of a sequence, and of the number of
those with an element of a set, when an element is appended, taken from the front or
removed, all without induction.

### Thread pool

`NoLostWakeup` is not inductive: from a state in which a worker is about to
sleep although a task is queued it would not follow.  The inductive invariant
`IInv` adds to `TypeOK`, `MutexOwnership`, `NoSleeperAfterStop`,
`NoLostWakeup` and `QueueBound`:

* `SleepersWait`: only threads in `pthread_cond_wait` are asleep;
* `SleepTested`: a worker on its way to sleep still finds the queue empty and
  the pool not stopped, for it has held the mutex since it looked;
* `CallbackOrLoop`: threads that end early run a callback, in a pool in which
  nobody ever waits;
* `FlagHasOwner`: when `is_locked` is set somebody will reset it, the thread that
  holds the mutex or a waiter that left it set.

There is one lemma for each conjunct's step (`TypeStep`,
`MutexOwnershipStep`, ...), with one case for each action that can disturb it.
From `IInv` follow `TypeCorrect`, `MutexOwned`, `WakeupsAreNotLost`,
`NobodySleepsAfterStop`, `FlagClears` and `QueueBounded`.
`OnceStartedPoolIsQuiet` needs a second invariant, `JoinInv`: with one start,
`m_threads` holds every thread that was created, and the join loop leaves none
of those before its index behind.  The assumptions are those of the module: the
owner, the workers and the submitters are different threads, `NoThread` and
`NoTask` are neither, and sizes are natural numbers (the limit an integer).

Its second half proves the refinement (`PoolIsTaskQueue`) and `TaskConservation`
(`TasksAreConserved`).  Both need to know where a task is, which is the invariant
`Stages`: a task is with the submitter that adds it, in `m_tasks`, with the worker
that runs it, run, or refused, in one of these at a time (`OneStage`) and in one
of them once it was offered (`SomeStage`); and it is with one thread or in one slot
(`OneSubmitter`, `OneWorker`, `OneSlot`).  `QuietSteps` keeps `Stages` over the
steps that move no task, and the five that do have a lemma each.  `QueueStep` maps
each step: `AddTask` is `Accept`, `WorkerPop` is `Begin`, for it has found the pool not
stopped, `WorkerRun` is `Finish`, `DestroyStop` and `Start` are `Stop` and `Resume`
or nothing, and so is the rest.

### Service manager

The theorems assume `OneLooper`; what two loopers do to `svclist` is the run
`registry_loopers`.  One looper is what serves until the driver asks for another,
not what `packages/servicemanager` guarantees.  Any number of services, names and
clients take part, die and register again.  The invariants build on one another:

* `ListInv` says what a looper knows at each place
  (`LoopersKnow`): the entry it is at is listed, has the name of its registration,
  has a handle where it is to release one, has none where it is to store one, and
  nobody is listed under the name it allocates an entry for.  With `Allocated` (who
  has a name is listed, or about to be) and `OneHandle` (a service has one handle)
  this gives `OneLooperOneEntry`.  Two lemmas carry weight: `FindIs`, that the first
  entry of the name exists if any does (`Least`), and `HandleForIs`, that a
  service without a handle finds a free one, by counting.
* `RefInv` counts: the driver's references to a handle
  are the entries that hold it, the registrations that are queued with it and the
  buffer of the one in a looper's hands (`Balance`), except for an entry between
  release and clear or between store and acquire (`Unheld`).  `WithoutCounts` says
  what one element more or less in the queue does to the count.
  `Stand` says for whom a handle stands.  `ReferencesAreBalanced` and
  `HandlesStayOurs` follow.
* `DeathInv` is about the order of the queue
  (`Ordered`, `Follows`): no registration comes behind the death of its handle, no
  death is told twice, a process has one call.  So a death that a looper handles
  is that of the handle's last reference (`DeathIsHeld`) and cannot clear a
  registration that came later; `Notified`, `Told` and `DeathsTrue` say who is told,
  and of what.  `DeathsAreArmed` follows.
* `TableInv` adds what a looper with a lookup knows (`Looking`) and which
  clients wait (`Asking`).  With it each step is one of `ServiceRegistry` or a
  stutter (`TableNext`): `SetHandle` and `Insert` are `Register`, `ReleaseHandle` is
  `Withdraw`, with the death or the pending registration that justifies it,
  `RefuseAdd` and `OutOfMemory` are `Refuse`, and the rest of a looper's work is not
  seen.  `TheListIsATable` is the refinement.

`NothingIsLeftWhenIdle` puts the end of these together: where the looper is at rest and
the driver has no work for it (`Idle`), nobody waits for an answer and no name is held
by a service that has died (`NothingIsLeft`), even one that died while its registration
was queued.  It is `NobodyIsForgotten` but for the step from "no looper can go on" to
`Idle`, which speaks of `ENABLED`.

The assumptions are the module's: services and entries are finitely many
(`FiniteOK`), and the names of nothing are no services, names or entries.

### Input manager

`ListenersAreTold` (`ListenersHearAll`) holds for any number of processes,
listeners, events and loopers, up to the first undefined step; with several loopers
that is at the latest when two of them are at the list at once (`Overlaps`).  Its invariant, `WalkInv`, follows the dispatch thread along the list:

* `ListInv`: what a looper knows at each place (`LoopersKnow`), that a
  `ListenerDesc` is made before anything leads to it and keeps its process
  (`Owned`), that nobody is listed twice (`ListedOnce`), and that one which has not
  been pushed is in the hands of one looper only, which has not been near the walk
  and has heard nothing (`Fresh`);
* `Pool`: the events that have begun are the first of those read, in order, and the
  running one is the last of them;
* `Walked`: every listener on the list has had the dispatched events that it was
  due; of the running one, those that the walk has come past (`Past`) have had it
  and the others have not.  That `Past` survives `Push` and `RemoveListener` is the
  point: the places behind the removed one move up, and so does the iterator's
  (`RemoveDoes`, `RemoveListenerEvents`).  Where the iterator's own element is
  removed `Walked` has nothing to say of the running event, nor does the code;
* `InEventOrder`: events are heard in the order of reading; a listener pushed
  during the walk may miss the running event or hear it, and that one only.

The three others assume `OneLooper`, as for the service manager.
`ReferencesAreBalanced` (`ReferencesBalance`), for any number of listeners to a
process, counts with `Balance`: the driver's references to a process are the
listeners that hold one (`HoldersOf`: on the list, or in the looper's hands between
acquire and push, or removed and not yet released), the queued `addListener` calls
(`Queued`) and the buffer of the one being handled (`Buffer`).  `Handled` says that
a `ListenerDesc` in use is on the list or in the looper's hands, so that none is
released twice or lost.

`DeathsAreArmed` (`DeathIsArmed`) is about one listener to a process, the case in
which the code is right.  `DeathInv` adds `Single` (who has a listener, or asks for
one, has no other: `addListener` is called by a process that holds none), `Notified`
(the cookie of a process is the listener that holds its reference, except between
acquire and link), `Told` (a death is queued or in a looper's hands exactly while
its process is dead and the reference is held) and `DeathsTrue` (it leads to that
listener).  When `delListener` releases the one reference of a process, the driver
forgets the cookie and takes back the queued death, which is why it cannot lead to
freed memory.  `LoopersAreSafe` (`OnlyIteratorsDangle`) puts `DeathInv` and
`WalkInv` together: no death and no element of the list leads to a listener that was
freed, and what is left are the iterator of the walk and that of `delListener`, on an
element that has left the list.

`NothingIsLeftWhenIdle` is what all of this comes to where no thread has work (`Idle`):
every event that was read is dispatched (`Pool`), every call answered, and with one
listener to a process no dead process is listed.  As for the service manager it leaves
to TLC that a thread with work goes on.

The assumptions are the module's: the listeners are finitely many, a socket holds
one event or more, and the names of nothing are no listeners or processes.

### Parcel

`SpaceAddsUp` is inductive together with the types.  `Writable` and `Readable`
are its two halves as predicates on a `BinderIO`, and there is a lemma for each
operator of the module (`AllocKeeps`, `AllocObjKeeps`, `WrittenKeeps`,
`GetKeeps`, `GetObjKeeps`, ...) that says it preserves them.  `SpaceAccounted`
then says that no sequence of puts and gets leaves a buffer or a table, of any
size; `TypeCorrect` that the counters stay natural numbers.

The four properties of the contents speak of what is found in a buffer in which
nothing says where an item begins, so the argument supplies that: `Layout(b, P,
pos)` says that item `k` of `P` lies between `pos[k]` and `pos[k + 1]`, and is
either `Whole`, with its length and its entry in the table, or `Lost`.  `Lost` is
what is left of an item that did not fit, and why its getter will notice: there
was no room for it, an object has no entry, and a string whose length alone was
written promises more than there is.  The effect of a put is `Grows` (nothing that is
there changes) and `Added` (the item, or the flag); `LayoutPut` extends the layout
by one place.  The point of it is that what was lost stays lost: later puts may
fill the space behind, and `Flagged` keeps that no object will be stored once one
has not been (`Full`), for it could otherwise be taken for the lost one.

For the receiver, `WholeGives` and `LostGives` say what each getter makes of
either, `ZeroIsNoObject` that a reference to handle 0 is never found in the table,
and `EmptyGives` that after the first gap nothing is given: a length read there is
0, and a string of length 0 still wants a word (`PayloadIs`).  `Heard` is the
receiver's half of the invariant.  `TableIsOfObjects`, `NothingLostInSilence`,
`GivesNoOther` and `GivesNoneAfterAGap` follow.  The assumptions are that an
`unsigned int` has more than two values and holds the bytes of every string.

### Input reader

`PolledIsListed` is not inductive: its second half speaks of the items that
`epoll_wait` returned, which `delDevice` would make stale if it could run during
a walk, and `OthersAreSafeUntilAHangUp` needs to know what the list's
descriptors are open on when `delDevice` closes one.  `IInv` is made of

* `PolledIsInList`, `PolledIsADevice`: a polled descriptor is in the list and
  open on a device, so that the hang-up of a reported one robs nobody;
* `ListOwnsItsDescriptors`: as long as readOnce has closed nothing, the entries
  of the list have descriptors of their own, open on devices; delDevice of one
  then leaves the others theirs;
* `Items`: items are pending only in a walk, each is polled, and no descriptor
  occurs twice, so that a hang-up handled first takes nothing from the others;
* `UnwatchedIsQuiet`: without inotify there is nothing to remove;
* `TypeOK` and `OthersAreSafeUntilAHangUp` itself.

The lemmas follow the steps of the reader (`ScanKeeps`, `HangUpKeeps`,
`ReadOnceKeeps`, `CreateOpenedKeeps`, `ProcessRemoveKeeps`, ...), over lemmas for
what `AddDevice`, `Close` and `delDevice` do to the tables.  From `IInv` follow
`TypeCorrect`, `PolledAreListed` and `OthersAreSafe`.

`PluggedIsHeard` (theorem `PluggedAreHeard`) needs `PlugInv` on top of it, which
follows a device from the moment it is plugged in:

* `LastIsCreate`: behind every unread notice that a plugged device was removed there
  is one that it was created, so that no late removal is the last word on it;
* `AwaitedOrHeard`: such a device has an unread notice of its creation, or the scan
  has still to come to it, or it is polled on a descriptor that has not hung up;
* `ListIsTrue`: up to the first hang-up an entry of the list has a descriptor that is
  open on its own device, so that `delDevice` closes nothing of another's;
* `HungAreDevices`: only what is open on a device has hung up, so that a number
  which is given out again starts afresh;
* `BatchIsNotified`: notices that were read are pending only while they are handled.

The assumptions are the module's: bounds are natural numbers, the set of devices
is finite, and `closed` and `other` are not names of devices.

### Event cooking

The three properties of `EventDevice` hold for any number of devices, frames and
reads, and any sizes with `capacity <= 2 * iSize` (`ArrayHoldsARead`: 256 and 128 in
the code).  None is inductive: each speaks of what was posted, and what will be posted
depends on what lies in the buffer, in the kernel and in an array that nobody resets.
The invariant, `EventInv`, has four parts.

* `StreamInv`: what `process` has yet to cook of a device, followed by what the kernel
  has of it, is one stream of whole frames that a read has cut at some input event.  An
  event tells its place in its frame (`Pos`), so it is enough to say of neighbours that
  the second continues the frame of the first or begins the next (`Follows`, `Chain`),
  of two pieces that one goes on where the other stops (`Join`), and of the last piece
  that it ends with the last frame sent (`EndsWell`).  `CountOK` is the arithmetic of
  the array: reports are two events apart at least, so that a read of `capacity` events
  fills the array at its last report, and what `process` then forgets is one event of a
  frame that was cut, and no report (`LastOfBuffer`).
* `OrderInv`: the frames of a device are posted, ended, buffered and unread in the order
  of their numbers, each is in one of these places, and none is missing (`Covered`).
* `CookedInv`: what the element under construction and the flag hold after the first
  `p` events of a frame, all of them from this buffer (`CookedTo`, `PartlyCooked`).
  After `ABS_MT_POSITION_X` it is a touch with pressure and the flag is 0, whatever
  both were before; so a touch ends with the flag at 1 and a key is a key.
* `ReleaseInv`, for a board with one touchscreen (`OneTouch`, the hypothesis that
  `ReleaseAfterItsPress` states): after a touch that was cooked last the flag is 1,
  or else the next frame of the stream is already a touch again (`FrontIsPress`).  So the
  release that follows finds the flag at 1 and clears
  the pressure, through any number of reads.  With two touchscreens a release of one
  counts for the touch of the other, and the property is not claimed.

There is a lemma for what `Send`, `Read`, each turn of the loop and `Return` do to each
part.  `EventsInvariant` is `[]EventInv`; `FramesAreInOrder`, `WholeFramesAreRight` and
`ReleasesEndPresses` follow.

### Binder calls

`BinderCall` implements `RemoteCall` for any number of clients, services, loopers,
buffers and calls (`CallsAreRemoteCalls`).  That a step maps to one of `RemoteCall`
or to a stutter does not follow from the step: a looper could carry a call out
again, or one whose caller was told long ago that it failed; either would be a step
that `RemoteCall` does not have.  The inductive invariant `IInv` says where a call can be:

* `OneQueue`, `QueueOrLooper`, `OneLooper`: in one queue, once, or with one looper,
  and not in both;
* `LoopersWork`, `QueuedWait`, `WorkedOnWait`: a looper at work has a caller, that
  caller waits, and its call has been carried out if the looper is done and not
  before;
* `EndedLeft`: a caller that has an end to read (`Ended`) has no call in any place,
  so that nothing of a call is left when the next one is made;
* `RepliedRan`: an end that is a reply is of a call that was carried out;
* `RanOnce`: no call was carried out twice.

`FewerPlaces` and `QuietCallers` are the two halves of most steps: places that are
given up, and callers that are told nothing new.  `CallKeeps`, `TakesCallKeeps`,
`TransactsKeeps`, `SendsReplyKeeps` and `DiesKeeps` are the steps that take, move,
use or give up a place; `ToldKeeps` is common to the last two.  `CallsHavePlaces`
is `[]IInv`; `StepRefines` is the step simulation on top of it, with `OneMoves` to
lift the move of one caller to the functions of `RemoteCall`.  The assumptions are
the module's.

The second part keeps the accounts (`Accounts`, on top of `IInv`), for any
processes, of which those that serve are finitely many:

* `Reads`: a thread has something to read only in a call, and in what it reads only
  the last command can end the call (`Orderly`), so that no reply is passed over;
* `Buffers`: a process that lives has a buffer for each call that is queued for it
  or with one of its loopers, and one for the reply it has not yet freed;
* `Tables` and `Stand`: a handle in use stands for one service, and its strong count
  is the number of the client's proxies that hold it, plus one for the reply
  that is still to be read;
* `Asks`, `LookupsAnswered`, `LookupsReplied`: only a lookup brings a handle, and it
  stands for a service of that name;
* `CallsGoToFound`, `RanByFound`: a call is queued at, and carried out by, the
  process that the caller had found; `Manages` says the same of the answers that the
  service manager gives to a call not meant for it.

`HandleForIs` finds a free handle by counting (`AHandleIsFree`), `AcquireAndRelease`
and `ReferredIs` say what becomes of a table, `ReplyIs` what a reply brings;
`ReturnsAccounts` and `DiesAccounts` are the steps that move most at once: a caller
that returns, and a process that dies with calls queued and under way.
`BuffersAreBalanced`, `HandlesAlwaysStand` and `AnswersAreTheServices` follow.
`NoneIsNoHandle` is assumed in addition: the value that stands for no handle is not
one of the handles.

### Calibration

`ColumnsAreRecovered` (theorem `CalibrationIsRight`) has two halves.  The invariant
`Tapped` says what the frames and the points are while the user taps once at a time
and not before the first target is shown:
what is not yet read belongs to the target that is shown, only its last frame can be
a release, and when nothing is left of a tap but the release, the tap itself was
read (`Answered`).  So a release never moves on from a target that was not answered,
and after the second target `OrientationIsFound` and from the third on the points
are straight (`Straight`).  The arithmetic is in `ColumnsFollow`: the slope that is
computed is `K * (2w + e)` where `K` is the panel's, `w` the distance of the corners
and `e` what their four errors add up to, at most `4 * AimError`; the column that the
formula gives is off by `(m * e - 2w * d) / (2w + e)` for a touch `m` from the centre
whose error was `d`, which is at most `3 * AimError` (`CentreIsNear`).  The products of
variables are taken apart with `AbsTimes` and `TimesLeft`.  Two assumptions on the
constants say for which screens and panels this holds: `ScreenOK`, that the targets are
more than half of the screen apart (with the margin of 50 and 320 columns, for taps
that miss by up to 19), and `PanelsOK`, that two missed taps move the panel less across
a row than the first two targets move it along the row, which is what
`startCalibrate` takes for granted at `Calibrate.cpp:157`.

`LastCalibrationIsUsed` (theorem `TheLastIsUsed`) follows from `SavedInv`: the file is
absent, empty or what was computed last, it is absent when it is created and empty when
it is written, and a system that starts has no calibration.

### Model-checked only

Liveness (`AcceptedTaskRuns`, `DestroyReturns`, `CallsReturn`, `ReadyIsServed`) and
`ENABLED` are out of the prover's reach.  `NobodyIsForgotten`, of the service manager
and of the input manager, says of the states in which no thread can go on that they are
`Idle` and that `NothingIsLeft`; the theorems `NothingIsLeftWhenIdle` prove the second
from the first, and that no thread is stuck in the middle of its work is checked on the
instances of `registry` and `listeners` only.

## What the models show

Four statements of the repository are refuted by runs:

* `pool_restart`: `destroy_threadpool` joins `m_threads[0 .. m_pool_size - 1]`
  and never clears the vector, while `start` accepts a stopped pool.  After
  start, destroy, start, destroy the second worker is not joined.  In the run it
  waits for a task; the broadcast wakes it, it has the mutex again with `is_locked`
  still FALSE, and `~Mutex`, which looks at `is_locked` alone, unlocks and destroys the
  mutex while that worker is between `lock` and `unlock`, at a place that
  `include/ThreadPool.h:23` calls safe.  `MutexSafeAtDestruction` says that nobody is
  between the two when the owner is done; a worker in a start callback, which never
  comes there, does not count.
* `registry_loopers`: `addService` reads and writes `svclist` without a lock
  while four loopers are allowed; an insertion is lost, and a service that
  registers again is given a second entry, which the comment at
  `ServiceManager.cpp:63` says never happens.
* `event_complete`: what `process` hands over at a `SYN_REPORT` is not the
  complete event that the comment at `EventDevice.cpp:235` says it is.  A release
  holds neither coordinates nor `BTN_TOUCH` on a panel that reports
  `SYN_MT_REPORT`; read together with its press, it is cooked into an element
  whose `iType` was never set.  With a key's frame in between, it keeps the
  pressure too, since `iFlagPressure` counts the frames of all devices.
* `calibration_rows`: `startCalibrate` sets `iYLc` from `tPoint_L[4].iX`
  (`Calibrate.cpp:237`), so that the formula of `Calibrate.h:16` puts every touch
  in a wrong row.  With `iY` in its place the run finds no violation.

Others contradict no statement, so no run refutes anything; the models reach
them, and the properties are stated around them:

* the dispatch thread's iterator stands on a listener that a looper removes and
  frees, and `delListener` reads its own iterator three times after `remove` has freed
  the node (`state = "undefined"` in `InputManager`; `OnlyIteratorsDangle` says that
  with one looper and one listener to a process these are the only ways);
* two loopers change the list of listeners at once (`Overlaps`), as
  `main_inputmanager.cpp:49` allows;
* an event written to a listener that has died, before its death was handled,
  raises a SIGPIPE that nobody ignores (`WriteKills`);
* two listeners of one process share a handle and its one death notification:
  with `MaxListeners = 2` the first deletion leaves a freed cookie with the
  driver, and a death removes one listener only (`DeathIsArmed` and
  `NobodyIsForgotten` are stated for one listener to a process);
* a null string is read as a pointer to what follows it, and a reference to
  handle 0 ends the parcel (`NeverAnother`, `NothingAfterAGap` make the
  exceptions explicit);
* `readOnce` closes a device that hung up and leaves it in `deviceList`; when
  inotify tells of it, `delDevice` closes the number again, which may by then
  belong to another device, which is never read again, or to another thread
  (`PluggedIsHeard` and `OthersAreSafeUntilAHangUp` hold up to the first hang-up);
* a node that goes between `stat` and `open` ends `scanDevice`, and the devices
  behind it are never opened (`scanFailed` in `PluggedIsHeard`);
* after a failed open, `InotifyDevice::process` cooks the next event before the
  caller's array (`Underrun` in `ReadyIsServed`);
* a lookup that finds nothing answers 0, the handle of the service manager, and
  nobody tests for it: `hello` is then taken for a lookup and reported to have gone
  well, `addListener` is refused for the descriptor it carries (the exception in
  `AnsweredByTheService`);
* a second tap before the first is read answers the next target of a calibration,
  and one made before a calibration begins its first (`hurried` in `ColumnsAreRecovered`), and a save that fails half way
  leaves an empty file, which the next start takes for a calibration (the exception
  in `LastCalibrationIsUsed`).

## Not modelled

* The copies of descriptors that `addListener` makes and nobody closes; names
  that are only printed; parsing, layout and logging.
* In `ServiceManager`, one object under two names.  The name is a field of the message
  (`ServiceManager.cpp:196-210`), so that a process could register an object twice.  Its
  entries would share a handle; the driver refuses the second request for the death of
  a handle, so that only the first entry is withdrawn when the object dies.
* The directory's descriptor in `scanDevice`, which is not closed when a scan gives
  up (`EventDevice.cpp:164`): no property depends on it.
* In `InputReader`, a failing `epoll_ctl`, more than 16 descriptors or inotify
  events at once, directories and their recursive watches, regular files and
  block devices (cooked into events that nobody in the repository reads), and
  `delWatchDirectory`, which nobody calls.
* In `EventDevice`, the fields that are copied like the coordinates, and reads
  that fail: a blocking read of a device with input is not interrupted.
* In `BinderCall`, calls made from within `onTransact` and one-way calls, of which
  the tree has none; deaths as the services hear of them, which are in
  `ServiceManager` and `InputManager`; opening, mapping and closing the device.
* In `Calibrate`, what is drawn, and the rounding of doubles.
* The singletons' double-checked locking: it reads a plain pointer without the
  lock, but every program of `packages/` calls each `get` from `main` before it has
  a second thread, so that no behaviour of the system depends on it.
* The start-up in the `main` function of the input manager, apart from the
  constants it sets.
* `include/private`, `include/linux`, the makefiles: no behaviour.

## Plan

Done: `TaskQueue`, `ThreadPool` and the refinement, with proofs;
`ServiceRegistry`, `ServiceManager` and the refinement, with proofs for one
looper; `Parcel` with proofs; `InputManager` with proofs; `InputReader` with
proofs; `EventDevice` with proofs; `RemoteCall`, `BinderCall` with proofs;
`Calibrate` with proofs.  Every safety property of a passing run is a theorem, except
for what the last section says of `ENABLED`.  What would come next is the service
manager with several loopers and a lock around `svclist`, should the code get one.
