# Verification of the concurrency code of this repository

The repository is a collection of Objective-C studies (Grand Central Dispatch,
locks, run loops, memory management, the runtime) together with the system
sources they are read against: libdispatch, CoreFoundation and the GNUstep GUI
library.  What can go wrong in it that a reader or a test does not see is
concurrent: the synchronisation primitives of libdispatch and the programs under
`GCD/`, `runloop/` and `内存管理/` that use them.  This project models those, checks
the models with TLC and proves the most important results with TLAPS.

## The system: inventory

| part | state | operations | hard behaviour | what makes it correct |
|---|---|---|---|---|
| `dispatch_semaphore_t` (`semaphore.c`, `shims/lock.c`) | counter, value at creation, lazily created kernel port and its count | create, wait with a timeout, signal, dispose | a timeout racing a signal; two threads creating the port; the counter at `LONG_MAX` | wakeups and blocked threads balance; it is a counting semaphore; no lost wakeup |
| `dispatch_group_t` (`semaphore.c`, `os_mpsc` of `inline_internal.h`) | one word with generation, members and two bits; lock-free list of notifications; reference count | create, enter, leave, wait, notify, wake, dispose | a group entered again while its last leave is still waking; registration during a wake; release by the owner while in use | one thread is responsible for the list; waits return when the group was empty, and do return; freed only when unused |
| semaphore programs (`SemaphoreDemo.m`, `SBaseDemo.m`, `ViewController.m`) | ticket or money count, loop counters | sell, save, draw, test, the tasks of `semaphoreTaskTest` | the count is read, and written after a sleep | no lost update, at most as many workers as units, all tasks run |
| `GCDTimer.m` | table of timers by name, table of actions, a semaphore | schedule, cancel, the timer's handler | look-up, creation and use are separate steps; handlers run beside the calls | an action that was scheduled runs, one that was cancelled does not; calls return |
| lock programs (`MutexDemo*.m`, `NSLockDemo.m`, `OSSpinLock*.m`, `OSUnfairLockDemo.m`, `SynchronizedDemo.m`, `SerialQueueDemo.m`) | the same counts under other locks; recursive locks | the same | lock order, recursion, missing unlock | as for the semaphore programs |
| condition programs (`MutexDemo4.m`, `NSConditionDemo.m`, `NSConditionLockDemo.m`) | an array, a condition, a condition lock's value | add, remove; one, two, three | a wait that is not in a loop; several callers | nothing is removed from an empty array; the three steps run in order |
| permanent threads (`LFSPermenantThread.m`, `CLCustomThread.m`, over `CFRunLoop.c`) | inner thread, stopped flag, references; the run loop's signaled source, wake-up port, flags of the current run | run, execute task, stop, dealloc; a pass of the run loop, wake up, stop | stop against a queued task; a wakeup that is ignored; dealloc while the inner thread is between two runs | tasks run on the thread, stop ends it, no caller hangs, nothing is used after it was freed |
| timers and proxies (`内存管理/`) | retain cycle through a timer | start, invalidate | lifetime | the controller is freed |
| `dispatch_once` (`once.c`, the gate of `shims/lock.*`) | the token: unlocked, owner and waiters' bit, generation, done; the kernel's quiescent counter | the inlined test, `dispatch_once_f`, wait, broadcast, mark done | waiters published while the owner finishes; a return without a memory barrier | the block runs once; who returns sees its writes; sleepers are woken |
| unfair lock, thread event (`shims/lock.*`) | lock word, event value | lock, unlock; wait, signal | a waiter's bit against an unlock | mutual exclusion, no lost wakeup |
| queues, sources, I/O and the rest of libdispatch | queue state words, event lists | enqueue, drain, wake | lock-free hand-over, priorities, the kernel | beyond this project; the parts the others need are modelled with them |
| swizzling (`method exchange/`), KVO, design patterns, runtime, block and category studies | method tables, observers | exchange, observe | none is concurrent; order of exchanges | an exchange made once and undone once; the rest prints |
| CoreFoundation, GNUstep GUI, rewritten `.cpp` files | | | | third-party or generated: not modelled, but for what the permanent threads need of `CFRunLoop.c` |

The parts interact by calls: the programs call the primitives; a primitive's
threads meet in memory (one atomic word each) and in the kernel (a semaphore
port, a sleep on an address).

## Modules

| module | models | status |
|---|---|---|
| `Semaphore` | what a counting semaphore promises: units, and the phase of every thread | abstract specification |
| `DispatchSemaphore` | `dispatch_semaphore_t` | complete |
| `DispatchSemaphoreProofs` | theorems about it | complete |
| `SemaphoreDemo` | the semaphore programs, composed with `DispatchSemaphore` (EXTENDS) | complete |
| `SemaphoreDemoProofs` | theorems about it, on those about the semaphore | safety complete |
| `DispatchGroup` | `dispatch_group_t` with its list of notifications | complete |
| `DispatchGroupProofs` | theorems about its word, its sleepers, its references and its list | safety complete |
| `GCDTimer` | the timers by name of `GCDTimer.m` | one name, one calling thread |
| `GCDTimerProofs` | theorems about it, on any queue and on the main queue | safety complete |
| `Once` | what `dispatch_once` promises: the block's state and the phase of every caller | abstract specification |
| `DispatchOnce` | `dispatch_once` with its gate and the quiescent counter | complete, for Apple's arm64 |
| `DispatchOnceProofs` | theorems about it | complete |
| `LockDemo` | the lock and the condition programs | all but the endless recursion of `SynchronizedDemo`'s `otherTest` and the spinning of spin locks |
| `LockDemoProofs` | theorems about it, for any methods that lock well, and that the source's do | safety complete |
| `PermanentThread` | both classes of permanent threads, with the run loop below them | complete, for a thread started once |
| `PermanentThreadProofs` | theorems about it | safety complete |
| `SumTheorems` | lemmas about sums over finite sets, for both modules of programs | complete |
| `MC...` | instances for TLC | |

In every module a definition keeps the name of the function, field or local it
stands for where TLA+ allows it, and a step is one atomic access to shared memory
or one call into the kernel.  Operators named `X_Something` and marked "Slip" are
plausible mistakes in `X`; they are not part of a specification and show that the
properties tell the code from its near misses.

### DispatchSemaphore

`dsema_value`, `dsema_orig` and `dsema_sema` are the fields of
`struct dispatch_semaphore_s`, `kcount` is the kernel's count of each port, `pc`,
`timeout` and `orig` are the position and the locals of each thread.  `Signal` and
`Wait` are the fast paths, one atomic operation each.  `SignalCreate`,
`SignalCreateSlow`, `Sema4Signal` are `_dispatch_semaphore_signal_slow`;
`WaitCreate`, `WaitCreateSlow`, `Switch`, `Sema4TimedWait`, `Sema4TimedOut`,
`UndoLoad`, `UndoCas`, `UndoCasFail`, `Sema4Wait` are
`_dispatch_semaphore_wait_slow`, with its fall-throughs.  `Dispose` is
`_dispatch_semaphore_dispose`.  Decisions:

- the build is Darwin's (`USE_MACH_SEM`), with the cache of ports;
- a port is named by the thread that creates it; the loser of the exchange gives its port
  back at once;
- the counter is a `long` of `LONG_MAX`; it wraps.  The increment to `LONG_MIN` and
  the crash that answers it are one step;
- `cmpxchgvw` is weak: `UndoCasFail` may fail although the value is the expected one;
- a kernel wait that is aborted (`KERN_ABORTED`) is retried: a stuttering step.

### DispatchGroup

`dg_state` is the 64 bit word with its fields (generation, number of members, two
bits); `dg_notify_head`, `dg_notify_tail` and `do_next` are the list; `refs` is the
reference count.  `Enter` (32 bit subtraction) and `EnterRetain`; `Leave` (64 bit
addition with its carry) and `LeaveClearBits` (the compare-and-swap loop);
`WakeStart`, `CaptureHead`, `CaptureTail`, `Submit`, `WakeWaiters`, `Release`
(`_dispatch_group_wake`); `Notify`, `NotifyPushPrev`, `NotifySetNotifs`
(`_dispatch_group_notify`); `Wait`, `WaitOnAddress`, `SleepEnds`, `WaitCheck`,
`WaitReturns` (`dispatch_group_wait`).  Decisions:

- `dispatch_group_async` enters, and the thread that has run the block leaves: `Enter` and
  `Leave` of two threads, with the queue in between left out;
- the client keeps the contract: it leaves only for an enter that has returned, and
  its owner releases the group when none of its threads is in enter, notify or wait.
  An enter or leave too many stops the process (`life = "misused"`).  The change of the
  word by which `dispatch_group_enter` exceeds the maximum and the crash that answers it
  are one step: what others see of the group in between is not modelled;
- reading the head and storing NULL into it is one step, as there is one consumer
  (`NotifsIsALock`); so are the retain in `_dispatch_group_notify` and the link after
  it, between which the thread touches nothing shared but the reference count;
- the build is Darwin's (`HAVE_UL`): a sleep on `dg_gen` may end for no reason.

### SemaphoreDemo

`SemaphoreDemo` EXTENDS `DispatchSemaphore` and gives its threads the loop of the
programs: wait for ever, read the count, write the changed copy, signal.  A program
is a record (units, threads and what each adds, iterations, initial count), so one
specification stands for `ticketTest`, `moneyTest`, the pools of `otherTest` and
`viewDidLoad`, and `semaphoreTaskTest`.

### GCDTimer

`self` holds the two dictionaries' entries for the name and the semaphore, `sources`
what libdispatch knows of a timer, `arrays` the mutable arrays of actions (they are
objects: one that was removed from the dictionary may still be enumerated, or added
to), `proc` the position and locals of the calling thread and of every timer's
handler.  The semaphore is the abstract one-unit semaphore that
`DispatchSemaphore` implements.  Decisions:

- an event handler set while the old one runs takes effect before the next firing
  (`source.c` hands it to the source itself);
- ARC gives a source up when the table and the locals have dropped it, and
  libdispatch no longer invokes it: a timer that is overwritten or removed without
  being cancelled stops;
- two accesses to one dictionary at the same time, one of them a write, may end the
  program (`Race`), and so may adding to an array that is being enumerated;
- the look-up and the removal, both under the semaphore, exclude each other and do not
  race; no other two accesses do;
- the action blocks do not themselves schedule or cancel; the singleton outlives the
  timers; time is left out.

### DispatchOnce

`dgo_once` is the token, a record instead of a word with tag bits; `pc` and `v` are
the position and the local copy of every thread.  `FastPath` is the inlined test of
`dispatch/once.h`; `Call`, `LoadDone`, `LoadGen`, `LoadOther` are the load of
`dispatch_once_f`; `TryEnter`, `Callout`, `Recurse`, `ReadGeneration`, `Broadcast`,
`Wake` are the thread that runs the block; `WaitDone`, `WaitGen`, `WaitBit`, `Sleep`,
`SleepEnds` are `_dispatch_once_wait`; `MarkDone` is
`_dispatch_once_mark_done_if_quiesced`, with the unsigned difference of two shifted
generations.  Decisions:

- the build is Apple's for arm64 (`DISPATCH_ONCE_USE_QUIESCENT_COUNTER`,
  `HAVE_UL_UNFAIR_LOCK`), the one in which a return without a barrier has to be argued
  for;
- a plain load may return an old value.  For the counter `zone[t]` is the oldest
  generation that thread `t` may still read; for what the block wrote `sees[t]` says
  that an old value is impossible.  A context switch synchronises through `mask`, as
  the long comment of `shims/lock.h` describes the kernel.  Loads do not return values
  of the future (no load buffering), so the model shows that the distance of four
  generations is enough, which is the theorem of that comment, and not that a smaller
  one would fail;
- every thread has a CPU of its own, so a context switch names a thread;
- the block ends, or calls `dispatch_once` for the same token (`Recurse`), which ends the
  process.

### LockDemo

A method is a sequence of operations (`lock`, `read`, `write`, `wait`, ...), built by the
operators `saleTicket`, `otherTest`, `remove`, `add` and so on after the methods'
bodies; a program gives every thread a method, and `ip` is its position in it.  The
locks and conditions belong to the system and are modelled by what they promise: a
recursive lock counts, a wait gives the lock back and sleeps in one step, and may end
without a signal (`SpuriousWakeup`), `signal` wakes one of the sleepers and `broadcast`
all of them.  The seven programs that put `SBaseDemo`'s methods under two locks differ
in the kind of lock only and are one program here; the serial queue is such a lock.
`MutexDemo4` and `NSConditionDemo` are one program too, with a lock that its owner may
lock again, as in `MutexDemo4`; neither does.  `MutexDemo2` lets only its first ten calls
lock inside of the first lock; the model has these.

### PermanentThread

`object`, `refs`, `innerThread`, `isStop` are the object; `queue` holds the requests of
`performSelector:onThread:`; `rl` is the run loop (a run is under way, source signaled,
message in the wake-up port, wakeups ignored, stopped), `inner` the inner thread's
position, `pc` that of every caller.  `RunLoopEnter`, `RunLoopSources`, `RunLoopSleep`,
`RunLoopAgain`, `RunLoopReturns` are `CFRunLoopRunSpecific` and `__CFRunLoopRun`;
`PerformTask`, `PerformStop`, `PerformEnds` are the source's callback; `LoadFirst` to
`LeaveLoop` are the condition `weakSelf && !weakSelf.isStop` of `CLCustomThread`; `Run`,
`ExecuteTask`, `Stop`, `QueueTask`, `QueueStop`, `NoThread`, `WakeUp`, `Answered`,
`Release` are the callers.  Decisions:

- a load of `weakSelf` retains the object and releases it after its use: the inner
  thread may hold the last reference and run `dealloc`;
- a request retains the object until it was performed; the `__stop` of `dealloc`
  cannot;
- `performSelector:onThread:` queues the request, signals the source and wakes the run
  loop, in this order (Foundation is external).  Nothing is performed on a thread that
  has ended or is nil, and the call returns or waits for ever; an exception that
  Foundation may raise instead is not modelled;
- the run loop takes the message from its port and ignores further ones in one step; a
  message that comes in between would only make it look once more;
- the callback performs at least one request and signals again what it leaves;
- the run loop has this one source, no timers, observers or blocks.

## Runs

| run | instance | shows |
|---|---|---|
| `semaphore` | 2 threads, `LONG_MAX` 2 | `TypeOK`; `WakeupBalance`: every thread in a slow wait is either counted below zero or has exactly one wakeup on its way; `NoStaleWakeup`: no other port holds one, so a port goes back to the cache clean; `IsASemaphore`: the refinement of `Semaphore`; `NoLostWakeup`: with as many signals as waits nobody stays blocked |
| `demos` | 3 threads, 2 iterations, `ticketTest`, `moneyTest` and a pool of 2 | `PoolBound`, `NoLostUpdate`, `NeverCrashes` (released unused), `EveryTaskRuns` |
| `demo_tasks_of_zero` | 2 threads | violated: `EveryTaskRuns` of `semaphoreTaskTest` |
| `group_safety` | 3 threads, 2 notifications, 2 members, generations to 2, symmetry | `TypeOK`, `NotifsIsALock`, `WaitMeansEmpty`, `SleepersHaveAWaker`, `FreedWhenUnused`, `NotDisposedInUse` |
| `group_live` | 2 threads, 2 notifications | `NotificationsFire`, `WaitersReturn` |
| `group_notify_doc` | 2 threads | violated: `NotifiedWhenEmpty` |
| `timer` | 3 schedules on the main queue, 2 on a global one | `TypeOK`; on the main queue `NotLostInTurns` (a scheduled action is still to run or has run), `CancelledIsGone`, `RunsOnce`; on both `CallsReturn` |
| `timer_lost_schedule` | 2 schedules, global queue | violated: `NotLost` |
| `timer_merge_repeats` | main queue | violated: `RepeatsGoOn` |
| `once` | 2 threads, 6 generations | `TypeOK`; `Initialised`: who returns sees what the block wrote; `OwnerKept`: no crash for a foreign owner; `SleepersHaveAWaker`; `IsOnce`: the refinement of `Once`; `CallsReturn` |
| `locks` | all programs, 4 threads, recursion of 3 | `TypeOK`, `NoLostUpdate`; `NoElementSleptOver`: nobody sleeps over an element; `RemovesTheElement`: a remover misses its element only after a spurious wakeup or with a second remover; `EveryThreadEnds` |
| `permanent_thread` | 2 callers, 3 tasks, both classes | `TypeOK`; `NotSleptOver`: an ignored wakeup is not a lost one; `NotFreedInUse`; `StrandedForAReason`: who hangs came after another stop, stopped a `CLCustomThread` that was not run, or is the dealloc of one whose thread has left its loop; `TasksArePerformed`, `StopReturns`: requests ahead of a stop, and the first stop of a running thread, are performed; `ThreadEnds`: the thread ends when the object is gone, `LFSPermenantThread`'s always, `CLCustomThread`'s unless the object went away between the two tests of its loop's condition |

### Bounds, and why they are enough

- Semaphore: two threads are a waiter that gives up and a signaller that counts on it,
  or two that race for the port; `LONG_MAX` 2 reaches the overflow and a counter of -2.
  The safety properties are proved for any number of threads.  `LONG_MAX` is at least
  the number of threads, as in any real process; the proofs need the same.
- Group: a leaver, a thread that enters again and one that waits or notifies; two
  notifications make the list have a link; two generations make a waiter of an old
  generation meet a new one.  `GenBound` is in the guard of `Enter` only, so the last
  generation runs to its end.
- Programs: two iterations make a thread meet what it left behind.
- Timer: as many sources as schedules, so that creation never fails for the bound; a
  block is scheduled once; `runs` counts to 2.
- Once: an owner and a caller that comes at every point of it, and both again; six
  generations let DONE be stored (four after the block's) and two more pass.  The
  proofs hold for any number of threads and generations.
- Locks: two calls of a method by each of two threads; three recursions stand for ten;
  the condition programs once and twice, so that there are two removers.
- Permanent thread: two holders, so that one lets go while the other calls; three tasks
  allow one before, one behind a stop and one in between.
- Runs with liveness use no symmetry.

The bounds are for the runs: every safety property that a passing run checks is proved for any
number of threads, calls, members, notifications, tasks and timers.

Deadlock is not checked where an arbitrary client may leave every thread waiting
(semaphore, group), in `permanent_thread`, where everything may have ended, and in
`demo_tasks_of_zero`, whose question is the waiting itself.

### Fairness

`FairSpec` of the semaphore and of the group: a thread inside a call keeps running
(weak fairness of `Step`).  Nobody has to call anything, a sleep need not end by
itself, a time need not run out.  The programs and `GCDTimer` add strong fairness of
the acquisition of the semaphore: the port is created with `SYNC_POLICY_FIFO`
(`_DSEMA4_POLICY_FIFO`, `semaphore.c:113`), so the kernel does not pass a thread over
for ever.  `DispatchOnce`: weak fairness of `Step` while the process lives; the block is a
step and ends, a sleep need not end by itself, context switches need not happen.
`LockDemo`: weak fairness of every thread's `Step`; each has a bounded number of
operations, so an unfair lock cannot starve it, and spurious wakeups are not fair.
`PermanentThread`: the inner thread and a caller inside a call keep running; nobody has
to call.

## Findings

1. `ViewController.m:313`: `semaphoreTaskTest` creates its semaphore with 0, its
   comment says 1; neither task runs.
2. `semaphore.c:255`/`297`: a notification registered by a thread that has just
   entered the group is submitted with an earlier list, while that thread's block is
   in the group; `group.h` says that the group is empty.  The same happens when a leave
   that saw only the waiters' bit loads the state again and finds the new bit.
3. `GCDTimer.m:55`: a schedule whose timer is cancelled by its own earlier handler
   after the look-up is lost (handlers on a global queue).  A handler whose name was
   cancelled and scheduled again in the meantime cancels the new timer likewise.
4. `GCDTimer.m:97`: with `MergePreviousTimerAction` a repeating action runs once.

Seen while modelling, without a run: an action scheduled with
`CancelPreviousTimerAction` is not cached and so not merged by a later
`MergePreviousTimerAction`; on a global queue a timer that does not repeat and fires
twice between lines 111 and 113 runs its action twice.  Further:

- `CLCustomThread.m:33`/`51`: when `dealloc` runs on the main thread, `weakSelf` is nil
  from its start.  An inner thread that is at the condition of its loop leaves, and
  the `stop` in `dealloc` waits for ever for it (the last of the cases of `StrandedForAReason`).
- `CLCustomThread.m:33`: when the condition's own loads hold the last reference, `dealloc`
  runs on the inner thread outside of a run; `CFRunLoopStop` does nothing there,
  `nil.isStop` is NO, and the thread sleeps for ever.  After a `stop` it is enough that the
  last holder lets go between the two loads (`Overlooked`, the exception of `ThreadEnds`).
- `CLCustomThread.m:51`: `stop`, or the `dealloc` of an object that was not run, waits for
  a thread that has not been started.
- `MutexDemo4.m:58`, `NSConditionDemo.m:61`: the wait is under an `if`; with a spurious
  wakeup or two removers `removeLastObject` meets an empty array, which it ignores.
- `NSConditionLockDemo.m:39`: started twice, two `__one` in a row set the condition once
  for two `__two`, and one of these waits for ever.

No document of the repository says otherwise, so no run asserts the contrary; the
properties state these exceptions, and `EveryThreadEnds` is checked for one start.

## Proofs

Every theorem is of a specification without fairness, for every value of the constants that
satisfies the assumptions in the modules: threads, callers, timers and actions are finite
sets, the counter can count the threads (`PortAssumption`), the notifications are not
threads and not NULL, a timer is scheduled no more often than there are blocks and sources
(`TimerAssumption`).  Each module proves one inductive invariant, written as a conjunction of
layers with a lemma per layer that every step keeps it, one case per action; the
theorems about the properties follow from it.

| theorem of | states | for the property |
|---|---|---|
| `DispatchSemaphoreProofs` | `TypeCorrect`, `WakeupsBalance`, `CachedPortsAreClean`, `ImplementsSemaphore` | `TypeOK`, `WakeupBalance`, `NoStaleWakeup`, `IsASemaphore` |
| `DispatchOnceProofs` | `TypeCorrect`, `ReturnedSeeTheBlock`, `OwnerIsKept`, `GateIsKept`, `ImplementsOnce` | `TypeOK`, `Initialised`, `OwnerKept`, `SleepersHaveAWaker`, `IsOnce` |
| `DispatchGroupProofs` | `TypeCorrect`, `OneIsResponsible`, `SuccessMeansEmpty`, `WakesAreNotLost`, `DisposedWhenUnused`, `ListInvariant`, `NothingIsLost`, `SubmittedOnce` | `TypeOK`, `NotifsIsALock`, `WaitMeansEmpty`, `SleepersHaveAWaker`, `NotDisposedInUse`, `FreedWhenUnused` |
| `SemaphoreDemoProofs` | `PoolIsBounded`, `ProgramsDoNotCrash`, `WritesAddUp`, `NoUpdateIsLost` | `PoolBound`, `NeverCrashes`, `NoLostUpdate` |
| `LockDemoProofs` | `TypeCorrect`, `NobodySleepsOver`, `RemoverFindsElement`, `WritesAddUp`, `NoUpdateIsLost`, `SourceMethodsLockWell`, `LoopsLockWell` | `TypeOK`, `NoElementSleptOver`, `RemovesTheElement`, `NoLostUpdate` |
| `PermanentThreadProofs` | `TypeCorrect`, `RequestsAreNotSleptOver`, `FreedAfterUse`, `WhoHangsInStop` | `TypeOK`, `NotSleptOver`, `NotFreedInUse`, `StrandedForAReason` |
| `GCDTimerProofs` | `AnyQueue`, `TypeCorrect`, `SemaphoreIsGivenBack`, `NothingIsLost`, `CancelledStaysGone`, `OneRunWithoutRepeats` | `TypeOK`, `NotLostInTurns`, `CancelledIsGone`, `RunsOnce` |

### The semaphore

The inductive invariant has two layers.  `Shape` is `TypeOK` with two facts about
positions: a thread past the creation of the port finds a port (`PortReady`), and a
thread at its compare-and-swap holds a negative snapshot (`UndoReady`); `NextShape`
shows that every step keeps it.  `Balance` is `WakeupBalance` and `NoStaleWakeup`, and
needs `Shape`: without `PortReady` a signal could post to no port, and without
`UndoReady` a wait could take back a decrement that a signal has already answered.
Each step changes one thread's position, so the cardinalities move by at most one;
`CountUpdate` and `Counts` say by how much, and `NextBalance` is arithmetic on top of
them.  The refinement reads the units off the same balance: the
counter is the units minus the blocked threads (`AvailValue`), so a wait that finds it
positive takes a unit that nobody is owed, and one that gives up does so while there
are fewer units than blocked threads (`StepRefines`).

### The semaphore programs

A step of a program is a step of `DispatchSemaphore` or leaves it alone, so `Shape` and
`Balance` carry over (`NextShape`, `NextBalance` are used, not proved again).  What the
composition adds is the account of the units: `UnitsInv` says that the counter is the
value at creation less the number of threads between a wait and the signal that
answers it.  With the balance of the semaphore it follows that no more threads than
units are past their wait (`PoolIsBounded`), that a signal never takes the counter above
its first value, and that nothing is left in use at the end, when the semaphore is released
(`ProgramsDoNotCrash`).  With one unit two threads are not past their wait at once,
so what a thread has read is still the count when it writes (`FreshInv`, `WritesAddUp`), and
the count is the start and what all have written (`AccountInv`, `NoUpdateIsLost`).

### dispatch_once

The inductive invariant `Inv` has four layers above `TypeOK`, each with a lemma of its own.
`GateInv` (`NextGate`) ties the token to positions: an owner is in its critical part,
and a sleeper has its bit in the token or a thread about to wake it.  `RunsInv`
(`NextRuns`) counts the runs from the token.  `TwoGenerations` (`NextZones`) is Lemma 1
of the comment in `shims/lock.h`: a thread reads at most two values of the counter between two
context switches.  `SeesInv` (`NextSees`) is its Lemma 2, stated by `Behind`: a thread that does
not see the block's writes is at most one generation past the token's, and until the
mask has carried the writes somebody who sees them has not switched since.  It needs the
other three: that a generation at distance four was read means that every thread has
moved past the token's generation, so all of them see the writes when DONE is stored.
The refinement reads the block's state off the token (`BlockIs`, `StepRefines`).

### The group

`LockInv` is what makes the notifications' bit a lock: between a registration on an
empty list and the end of a wake exactly one thread has the list, and the bit is clear
meanwhile.  `WaitInv` ties a waiter's snapshot to the word: in its own generation the
group has members and the waiters' bit is set; in a later one the group was empty in
between.  `WakeInv` says who looks at the bits of an empty group: a thread in the loop of
`LeaveClearBits`, or one that has cleared the waiters' bit and is on its way to wake.
`MemberInv` and `RefsInv` are the accounts: members are the enters that have returned and
the first one's, which still has to retain the group; a reference is the owner's, the
members' (one for all), the list's, or of a thread that has taken one of these over to
release it.  `CallInv` and `OwnInv` then give that a group without references is in
nobody's use.

The second part of the module adds the order of registration: there is a numbering of the
registered notifications (`ListInv`, an existential over `r` and `k`) such that links lead from
each to the next (`Links`), and every registered notification is in the list, in the one
part that a single thread has taken, or submitted once (`Places`).  An exchange of the tail
gives the next number, so the chain may have gaps, where a registering thread has still
to link, but never a wrong link.  No notification is lost or submitted twice, although
the head and the tail are taken in two steps.

### The locks

The theorems hold for any programs whose methods lock well (`ProgramsLockWell`): a lock is
taken when it is not held and given back when it is, a count is read and then written under
its lock, a method writes nothing before it calls itself, a wait is directly ahead of a
removal.  `HeldAt` reads off a method which locks it holds before an operation.  That
hypothesis is not left open: `SourceMethodsLockWell` proves it of every method of the source,
and `LoopsLockWell` that a sale, a saving or a drawing may follow whatever can be repeated,
which is the inductive step for the loops.

`LockInv` says that a lock has the owner and depth which the positions of all threads say
(`OwnInv`, `DepthInv`) and that whoever sleeps or was woken is in its wait (`WaitInv`).  On top
of it what a thread has read is still the count when it writes (`FreshInv`); with one remover
and no spurious wakeup there is an element wherever one is about to be removed or announced
(`RemoveInv`); and the elements are no more than the removers that are awake and the
wakeups still to come (`NoElementSleptOver`, inductive with the others).

### The sums of NoLostUpdate

`NoLostUpdate` states a sum over the threads (in `LockDemo` one over a method's writes inside
of it), by the fold `MapThenSumSet`, which takes the elements of a set one by one in an order of
its own.  The library's induction theorems have an operator as a parameter, which the
provers cannot instantiate, so `SumTheorems` does the induction over finite sets by hand: if
some subset were a counterexample one of them would be smallest (`Smallest`, from the
well-foundedness of the strict subset ordering), and that one is not empty.  The fold is
any function that satisfies its recursion (`Sums`, `SumIs`), there is just one (`SumsOne`,
`SumsExist`), and any element may be taken first (`SumsElement`).  `SumChange` and
`SumElement` are what the programs need: a write changes one thread's share by the
amount it adds to the count (`AccountNext`).

### The permanent threads

`SignalInv` is why an ignored wakeup is no lost one: as long as a request is not being
performed the source is signaled, and from the look at the signal to the sleep wakeups
are not ignored.  `HoldInv` and `QueueInv` follow the references: who calls holds the
object or is the one thread in its dealloc, whose `__stop` is then the only request.
`EndInv` lists the reasons for which the inner thread may end, and says that only a
`CLCustomThread` may not have started.  A caller that hangs has no thread (`innerThread` is
nil), one that has not started or one that has ended: with `HoldInv`, which says that a
caller in `stop` holds the object unless it is in its dealloc, these are the cases of
`StrandedForAReason` (`WhoHangsInStop`).

### The timers

The first part, `AnyQueueInv`, holds on any queue, where handlers and calls interleave:
positions and what a process has in hand (`PlaceInv`), the semaphore (`SemInv`: one cancel at a
time is between the removal from the table and `dispatch_source_cancel`, so
`SemaphoreIsGivenBack`), the sources (`CountInv`), the arrays (`ArrayInv`: each block once),
and the blocks and sources that nobody has used yet (`FreshInv`).  On the main queue
`MainQueueInv` adds that one process at a time is under way (`TurnsInv`), that it and the
timer that fires are the one in the table (`TableInv`), that the cache is this timer's and
its handler is the one that runs it (`CacheInv`), how often a block has run from where the
enumeration is (`RunInv`, `Passed`), that what is due will run (`DueInv`, `WillRun`) and that
what was cancelled or replaced is neither cached nor set (`GoneInv`).  That
`NotLostInTurns` fails on a global queue (finding 3) is seen in the proof: it is `TurnsInv`
that the look-up and the use of the timer need.

### Only model-checked

- The liveness properties (`NoLostWakeup`, `EveryTaskRuns`, `NotificationsFire`,
  `WaitersReturn`, `CallsReturn`, `EveryThreadEnds`, `TasksArePerformed`, `StopReturns`,
  `ThreadEnds`): fairness and ENABLED are out of the prover's reach.
- The four runs that show a violation: each is a counterexample.

## Not modelled

See the components in `PROJECT.json`.  The queues, sources and I/O of libdispatch are
a project of their own; CoreFoundation (but for the protocol of the run loop in
`PermanentThread`) and the GNUstep GUI library are third-party code kept for reading;
the `.cpp` files of the studies, most of the repository's lines, are clang's output; the
studies of isa pointers, classes, blocks, categories and sizes print and keep no state.
`GroupQueue.m` and the run loop study's controllers make calls that `DispatchGroup` and
`PermanentThread` allow in any order, and only print.

## Plan

1. The exchange of methods (`method exchange/`) as an algorithm over the method tables
   of a class and its superclass.
2. `UnfairLock` and `ThreadEvent` (`shims/lock.*`), with the part of the queues that uses
   them.
3. Several names and several calling threads in `GCDTimer`.
