-------------------------- MODULE DispatchSemaphore --------------------------
(***************************************************************************)
(* dispatch_semaphore_t: semaphore.c and the Mach semaphore calls of       *)
(* shims/lock.c and shims/lock.h, one step per atomic access to shared     *)
(* memory or call into the kernel.                                         *)
(*                                                                         *)
(* dsema_value is decremented by a wait and incremented by a signal; while *)
(* it is negative its absolute value is the number of threads that have to *)
(* block.  A blocking wait and the signal that answers it meet on a kernel *)
(* semaphore whose port either of them creates on first use.  A wait that  *)
(* gives up takes its decrement back, unless a signal has been counted for *)
(* it, in which case it waits for that signal's wakeup after all.          *)
(***************************************************************************)
EXTENDS Integers, FiniteSets

CONSTANTS
    Threads,            \* the threads that use the semaphore
    LONG_MAX,           \* largest long; the source's is 2^63 - 1
    MACH_PORT_NULL,     \* no port created yet
    MACH_PORT_DEAD      \* the object has been disposed of

(* There are never as many threads as a long can count. *)
ASSUME ThreadsAssumption ==
    /\ IsFiniteSet(Threads)
    /\ LONG_MAX \in Nat \ {0}
    /\ Cardinality(Threads) <= LONG_MAX

ASSUME PortAssumption ==
    /\ MACH_PORT_NULL \notin Threads
    /\ MACH_PORT_DEAD \notin Threads

VARIABLES
    dsema_value,        \* the counter
    dsema_orig,         \* its value at creation
    dsema_sema,         \* the port: the thread that created it names it
    kcount,             \* the kernel's count for every port
    pc,                 \* the next step of every thread
    timeout,            \* the argument of the wait in progress
    orig,               \* the local of _dispatch_semaphore_wait_slow
    life                \* "live", "disposed" or "crashed"

vars == <<dsema_value, dsema_orig, dsema_sema, kcount, pc, timeout, orig, life>>

-----------------------------------------------------------------------------
LONG_MIN == -LONG_MAX - 1

(* os_atomic_inc2o and os_atomic_dec2o wrap around. *)
Inc(v) == IF v = LONG_MAX THEN LONG_MIN ELSE v + 1
Dec(v) == IF v = LONG_MIN THEN LONG_MAX ELSE v - 1

(* "later" stands for every timeout but the two constants. *)
Timeouts == {"DISPATCH_TIME_NOW", "DISPATCH_TIME_FOREVER", "later"}

(* In a wait that has been counted and has neither got a wakeup nor taken  *)
(* its decrement back.                                                     *)
WaitSlow == {"wait_create", "wait_create_slow", "switch", "timedwait",
             "undo_load", "undo_cas", "sema4_wait"}

(* In a signal that has been counted and owes a waiter a wakeup. *)
SignalSlow == {"signal_create", "signal_create_slow", "sema4_signal"}

Returning == {"acquired", "timedout", "signalled"}

PCs == {"idle"} \cup WaitSlow \cup SignalSlow \cup Returning

(* Past _dispatch_sema4_create: these steps use the port. *)
UsesPort == {"switch", "timedwait", "undo_load", "undo_cas", "sema4_wait",
             "sema4_signal"}

Init ==
    /\ dsema_orig \in 0..LONG_MAX
    /\ dsema_value = dsema_orig
    /\ dsema_sema = MACH_PORT_NULL
    /\ kcount = [p \in Threads |-> 0]
    /\ pc = [t \in Threads |-> "idle"]
    /\ timeout = [t \in Threads |-> "DISPATCH_TIME_FOREVER"]
    /\ orig = [t \in Threads |-> 0]
    /\ life = "live"

Goto(t, from, to) ==
    /\ pc[t] = from
    /\ pc' = [pc EXCEPT ![t] = to]

-----------------------------------------------------------------------------
(* _dispatch_sema4_create: tests for a port without a lock, then installs  *)
(* its own unless another thread has been faster.                          *)
Sema4Create(t, from, slow, done) ==
    /\ Goto(t, from, IF dsema_sema = MACH_PORT_NULL THEN slow ELSE done)
    /\ UNCHANGED <<dsema_value, dsema_orig, dsema_sema, kcount, timeout, orig, life>>

(* Slip: the port is stored without a compare-and-swap. *)
Sema4CreateSlow_Store(t, from, done) ==
    /\ Goto(t, from, done)
    /\ dsema_sema' = t
    /\ UNCHANGED <<dsema_value, dsema_orig, kcount, timeout, orig, life>>

Sema4CreateSlow(t, from, done) ==
    /\ Goto(t, from, done)
    /\ dsema_sema' = IF dsema_sema = MACH_PORT_NULL THEN t ELSE dsema_sema
    /\ UNCHANGED <<dsema_value, dsema_orig, kcount, timeout, orig, life>>

(* semaphore_signal and the successful semaphore_wait of the kernel.  A    *)
(* wait that the kernel aborts is called again, which changes nothing.     *)
KernelSignal == kcount' = [kcount EXCEPT ![dsema_sema] = @ + 1]

(* Slip: a wait that the kernel aborts is taken for a wakeup. *)
KernelWait_Aborted == kcount' = [kcount EXCEPT ![dsema_sema] = @ - 1]

KernelWait ==
    /\ kcount[dsema_sema] > 0
    /\ kcount' = [kcount EXCEPT ![dsema_sema] = @ - 1]

-----------------------------------------------------------------------------
(* Slip: the fast path of signal taken at zero, where a thread waits. *)
Signal_AtZero(t) ==
    /\ pc[t] = "idle"
    /\ LET value == Inc(dsema_value)
       IN  /\ dsema_value' = value
           /\ \/ /\ value >= 0
                 /\ pc' = [pc EXCEPT ![t] = "signalled"]
                 /\ UNCHANGED life
              \/ /\ value = LONG_MIN
                 /\ life' = "crashed"
                 /\ UNCHANGED pc
              \/ /\ value < 0 /\ value /= LONG_MIN
                 /\ pc' = [pc EXCEPT ![t] = "signal_create"]
                 /\ UNCHANGED life
    /\ UNCHANGED <<dsema_orig, dsema_sema, kcount, timeout, orig>>

(* dispatch_semaphore_signal *)
Signal(t) ==
    /\ pc[t] = "idle"
    /\ LET value == Inc(dsema_value)
       IN  /\ dsema_value' = value
           /\ \/ /\ value > 0
                 /\ pc' = [pc EXCEPT ![t] = "signalled"]
                 /\ UNCHANGED life
              \/ /\ value = LONG_MIN
                 /\ life' = "crashed"
                 /\ UNCHANGED pc
              \/ /\ value <= 0 /\ value /= LONG_MIN
                 /\ pc' = [pc EXCEPT ![t] = "signal_create"]
                 /\ UNCHANGED life
    /\ UNCHANGED <<dsema_orig, dsema_sema, kcount, timeout, orig>>

(* _dispatch_semaphore_signal_slow *)
SignalCreate(t) ==
    Sema4Create(t, "signal_create", "signal_create_slow", "sema4_signal")

SignalCreateSlow(t) ==
    Sema4CreateSlow(t, "signal_create_slow", "sema4_signal")

Sema4Signal(t) ==
    /\ Goto(t, "sema4_signal", "signalled")
    /\ KernelSignal
    /\ UNCHANGED <<dsema_value, dsema_orig, dsema_sema, timeout, orig, life>>

-----------------------------------------------------------------------------
(* Slip: the fast path of wait taken when the counter goes below zero. *)
Wait_BelowZero(t, time) ==
    /\ pc[t] = "idle"
    /\ dsema_value' = Dec(dsema_value)
    /\ pc' = [pc EXCEPT ![t] =
          IF Dec(dsema_value) >= -1 THEN "acquired" ELSE "wait_create"]
    /\ timeout' = [timeout EXCEPT ![t] = time]
    /\ UNCHANGED <<dsema_orig, dsema_sema, kcount, orig, life>>

(* dispatch_semaphore_wait *)
Wait(t, time) ==
    /\ pc[t] = "idle"
    /\ LET value == Dec(dsema_value)
       IN  /\ dsema_value' = value
           /\ pc' = [pc EXCEPT ![t] =
                 IF value >= 0 THEN "acquired" ELSE "wait_create"]
    /\ timeout' = [timeout EXCEPT ![t] = time]
    /\ UNCHANGED <<dsema_orig, dsema_sema, kcount, orig, life>>

(* _dispatch_semaphore_wait_slow *)
WaitCreate(t) ==
    Sema4Create(t, "wait_create", "wait_create_slow", "switch")

WaitCreateSlow(t) ==
    Sema4CreateSlow(t, "wait_create_slow", "switch")

Switch(t) ==
    /\ Goto(t, "switch",
            CASE timeout[t] = "DISPATCH_TIME_NOW" -> "undo_load"
              [] timeout[t] = "DISPATCH_TIME_FOREVER" -> "sema4_wait"
              [] OTHER -> "timedwait")
    /\ UNCHANGED <<dsema_value, dsema_orig, dsema_sema, kcount, timeout, orig, life>>

(* _dispatch_sema4_timedwait: the kernel hands over a wakeup ... *)
Sema4TimedWait(t) ==
    /\ Goto(t, "timedwait", "acquired")
    /\ KernelWait
    /\ UNCHANGED <<dsema_value, dsema_orig, dsema_sema, timeout, orig, life>>

(* ... or KERN_OPERATION_TIMED_OUT, also when a wakeup has just arrived. *)
Sema4TimedOut(t) ==
    /\ Goto(t, "timedwait", "undo_load")
    /\ UNCHANGED <<dsema_value, dsema_orig, dsema_sema, kcount, timeout, orig, life>>

(* Slip: a wait that is too late to undo does not drain its wakeup. *)
UndoTest_NoDrain(v) == IF v < 0 THEN "undo_cas" ELSE "timedout"

(* The loop condition, on the value just read: with a negative one the     *)
(* decrement is taken back, otherwise a wakeup is on its way.              *)
UndoTest(v) == IF v < 0 THEN "undo_cas" ELSE "sema4_wait"

UndoLoad(t) ==
    /\ Goto(t, "undo_load", UndoTest(dsema_value))
    /\ orig' = [orig EXCEPT ![t] = dsema_value]
    /\ UNCHANGED <<dsema_value, dsema_orig, dsema_sema, kcount, timeout, life>>

(* Slip: the counter is incremented whatever its value is by now. *)
UndoCas_Increment(t) ==
    /\ Goto(t, "undo_cas", "timedout")
    /\ dsema_value' = dsema_value + 1
    /\ UNCHANGED <<dsema_orig, dsema_sema, kcount, timeout, orig, life>>

UndoCas(t) ==
    /\ dsema_value = orig[t]
    /\ Goto(t, "undo_cas", "timedout")
    /\ dsema_value' = orig[t] + 1
    /\ UNCHANGED <<dsema_orig, dsema_sema, kcount, timeout, orig, life>>

(* The weak compare-and-swap fails: another value, or spuriously. *)
UndoCasFail(t) ==
    /\ Goto(t, "undo_cas", UndoTest(dsema_value))
    /\ orig' = [orig EXCEPT ![t] = dsema_value]
    /\ UNCHANGED <<dsema_value, dsema_orig, dsema_sema, kcount, timeout, life>>

Sema4Wait(t) ==
    /\ Goto(t, "sema4_wait", "acquired")
    /\ KernelWait
    /\ UNCHANGED <<dsema_value, dsema_orig, dsema_sema, timeout, orig, life>>

(* The call returns; its locals are gone. *)
Return(t) ==
    /\ pc[t] \in Returning
    /\ pc' = [pc EXCEPT ![t] = "idle"]
    /\ timeout' = [timeout EXCEPT ![t] = "DISPATCH_TIME_FOREVER"]
    /\ orig' = [orig EXCEPT ![t] = 0]
    /\ UNCHANGED <<dsema_value, dsema_orig, dsema_sema, kcount, life>>

(* _dispatch_semaphore_dispose, when the last reference is dropped: a      *)
(* thread inside a call still holds one.  The port goes back to a cache    *)
(* with the count it has.                                                  *)
Dispose ==
    /\ \A t \in Threads : pc[t] = "idle"
    /\ IF dsema_value < dsema_orig
         THEN /\ life' = "crashed"
              /\ UNCHANGED dsema_sema
         ELSE /\ life' = "disposed"
              /\ dsema_sema' = IF dsema_sema = MACH_PORT_NULL
                                 THEN MACH_PORT_NULL ELSE MACH_PORT_DEAD
    /\ UNCHANGED <<dsema_value, dsema_orig, kcount, pc, timeout, orig>>

-----------------------------------------------------------------------------
(* The steps inside a call, which a running thread takes by itself. *)
Step(t) ==
    \/ SignalCreate(t)
    \/ SignalCreateSlow(t)
    \/ Sema4Signal(t)
    \/ WaitCreate(t)
    \/ WaitCreateSlow(t)
    \/ Switch(t)
    \/ Sema4TimedWait(t)
    \/ Sema4TimedOut(t)
    \/ UndoLoad(t)
    \/ UndoCas(t)
    \/ UndoCasFail(t)
    \/ Sema4Wait(t)

(* Any client: it may wait for ever, and nothing happens in a process that *)
(* has stopped or to an object that is gone.                               *)
Next ==
    /\ life = "live"
    /\ \/ \E t \in Threads :
             \/ Signal(t)
             \/ \E time \in Timeouts : Wait(t, time)
             \/ Step(t)
             \/ Return(t)
       \/ Dispose

Spec == Init /\ [][Next]_vars

(* Threads inside a call keep running; nobody has to call anything. *)
FairSpec == Spec /\ \A t \in Threads : WF_vars(life = "live" /\ Step(t))

-----------------------------------------------------------------------------
SlowWaiters == {t \in Threads : pc[t] \in WaitSlow}
SlowSignallers == {t \in Threads : pc[t] \in SignalSlow}

(* The wakeups the kernel holds for this semaphore. *)
Tokens == IF dsema_sema \in Threads THEN kcount[dsema_sema] ELSE 0

Positive(v) == IF v > 0 THEN v ELSE 0

(* Every variable has its type; in particular a kernel count is never      *)
(* negative and the counter stays within a long.                           *)
TypeOK ==
    /\ dsema_value \in LONG_MIN..LONG_MAX
    /\ dsema_orig \in 0..LONG_MAX
    /\ dsema_sema \in Threads \cup {MACH_PORT_NULL, MACH_PORT_DEAD}
    /\ kcount \in [Threads -> Nat]
    /\ pc \in [Threads -> PCs]
    /\ timeout \in [Threads -> Timeouts]
    /\ orig \in [Threads -> LONG_MIN..LONG_MAX]
    /\ life \in {"live", "disposed", "crashed"}

(* Of the threads inside a slow wait, as many as the counter is below zero *)
(* have nobody to wake them; each of the others has exactly one wakeup,    *)
(* held by the kernel or by a signaller on its way to it.  This is what    *)
(* the undo loop and the lazy port creation of semaphore.c have to keep    *)
(* true: one wakeup fewer and a waiter hangs, one more and a later wait    *)
(* passes for nothing.                                                     *)
WakeupBalance ==
    life = "live" =>
        Cardinality(SlowWaiters) =
            Tokens + Cardinality(SlowSignallers) + Positive(-dsema_value)

(* Every wakeup is on the port of the semaphore, and when the semaphore is *)
(* disposed of the port that _dispatch_sema4_dispose_slow gives back to    *)
(* the cache, for another semaphore to use, has no wakeup left in it.      *)
NoStaleWakeup ==
    \A p \in Threads : p /= dsema_sema => kcount[p] = 0

-----------------------------------------------------------------------------
(* What the semaphore promises: the units are those of a positive counter, *)
(* those the kernel holds and those signallers are about to post.          *)
Avail ==
    IF life = "live"
      THEN Positive(dsema_value) + Tokens + Cardinality(SlowSignallers)
      ELSE 0

PhaseOf(p) ==
    IF p \in WaitSlow THEN "waiting"
    ELSE IF p \in SignalSlow THEN "signalled" ELSE p

Phase == [t \in Threads |-> PhaseOf(pc[t])]

Promise == INSTANCE Semaphore WITH
    avail <- Avail, phase <- Phase, first <- dsema_orig, state <- life

(* semaphore.c is a counting semaphore: no unit is made or lost, a unit    *)
(* that a blocked thread is owed is not taken by a thread that arrives     *)
(* later, and a wait times out only while there are fewer units than       *)
(* blocked threads.                                                        *)
IsASemaphore == Promise!Spec

(* No wakeup is lost: with as many signals as waits (the counter is not    *)
(* negative) no thread stays blocked in _dispatch_sema4_wait, whatever the *)
(* waits that time out and the threads that race to create the port do.    *)
NoLostWakeup ==
    \A t \in Threads :
        <>[](life = "live" /\ dsema_value >= 0) => []<>(pc[t] /= "sema4_wait")

=============================================================================
