----------------------- MODULE DispatchSemaphoreProofs -----------------------
(***************************************************************************)
(* Proofs about DispatchSemaphore, for any number of threads and any width *)
(* of the counter: its types, the balance of wakeups and waiters, and that *)
(* it implements Semaphore.                                                *)
(***************************************************************************)
EXTENDS DispatchSemaphore, FiniteSetTheorems, TLAPS

(* The port exists at every step that uses it, and is not dead while the   *)
(* object lives.                                                           *)
PortReady ==
    /\ life = "live" => dsema_sema \in Threads \cup {MACH_PORT_NULL}
    /\ \A t \in Threads : pc[t] \in UsesPort => dsema_sema \in Threads

(* The undo loop body runs only with a negative value. *)
UndoReady == \A t \in Threads : pc[t] = "undo_cas" => orig[t] < 0

(* The inductive invariant, in two layers. *)
Shape == TypeOK /\ PortReady /\ UndoReady

Balance == WakeupBalance /\ NoStaleWakeup

-----------------------------------------------------------------------------
Bit(b) == IF b THEN 1 ELSE 0

(* How many threads have a program counter in X. *)
Count(f, X) == Cardinality({u \in Threads : f[u] \in X})

(* Counting is well defined, and no more than all threads are counted. *)
LEMMA CountType ==
    ASSUME NEW f, NEW X
    PROVE  Count(f, X) \in Nat /\ Count(f, X) <= LONG_MAX
<1> DEFINE A == {u \in Threads : f[u] \in X}
<1>1. IsFiniteSet(Threads) /\ A \in SUBSET Threads
  BY ThreadsAssumption
<1>2. IsFiniteSet(A) /\ Cardinality(A) <= Cardinality(Threads)
  BY <1>1, FS_Subset
<1>3. Cardinality(A) \in Nat /\ Cardinality(Threads) \in Nat
  BY <1>1, <1>2, FS_CardinalityType
<1> QED  BY <1>2, <1>3, ThreadsAssumption DEF Count

(* Moving one thread changes a count by what that thread leaves and enters. *)
LEMMA CountUpdate ==
    ASSUME NEW S, NEW f \in [Threads -> S], NEW t \in Threads, NEW v, NEW X
    PROVE  Count([f EXCEPT ![t] = v], X) =
               Count(f, X) + Bit(v \in X) - Bit(f[t] \in X)
<1> DEFINE g == [f EXCEPT ![t] = v]
           A == {u \in Threads : f[u] \in X}
           B == {u \in Threads : g[u] \in X}
<1>1. IsFiniteSet(A)
  <2>1. A \in SUBSET Threads  OBVIOUS
  <2> QED  BY <2>1, FS_Subset, ThreadsAssumption
<1>2. Cardinality(A) \in Nat
  BY <1>1, FS_CardinalityType
<1>3. CASE v \in X /\ f[t] \in X
  <2>1. B = A  BY <1>3
  <2> QED  BY <2>1, <1>2, <1>3 DEF Count, Bit
<1>4. CASE v \in X /\ f[t] \notin X
  <2>1. B = A \cup {t} /\ t \notin A  BY <1>4
  <2>2. Cardinality(B) = Cardinality(A) + 1  BY <2>1, <1>1, FS_AddElement
  <2> QED  BY <2>2, <1>2, <1>4 DEF Count, Bit
<1>5. CASE v \notin X /\ f[t] \in X
  <2>1. B = A \ {t} /\ t \in A  BY <1>5
  <2>2. Cardinality(B) = Cardinality(A) - 1  BY <2>1, <1>1, FS_RemoveElement
  <2> QED  BY <2>2, <1>2, <1>5 DEF Count, Bit
<1>6. CASE v \notin X /\ f[t] \notin X
  <2>1. B = A  BY <1>6
  <2> QED  BY <2>1, <1>2, <1>6 DEF Count, Bit
<1> QED  BY <1>3, <1>4, <1>5, <1>6

(* The two counts of the balance. *)
LEMMA Counts ==
    /\ Cardinality(SlowWaiters) \in Nat /\ Cardinality(SlowWaiters) <= LONG_MAX
    /\ Cardinality(SlowSignallers) \in Nat
BY CountType DEF Count, SlowWaiters, SlowSignallers

(* A step of one thread moves each count by what the thread enters and     *)
(* leaves.                                                                 *)
LEMMA Moved ==
    ASSUME TypeOK, NEW t \in Threads, NEW s, pc' = [pc EXCEPT ![t] = s]
    PROVE  /\ Cardinality(SlowWaiters') = Cardinality(SlowWaiters)
                  + Bit(s \in WaitSlow) - Bit(pc[t] \in WaitSlow)
           /\ Cardinality(SlowSignallers') = Cardinality(SlowSignallers)
                  + Bit(s \in SignalSlow) - Bit(pc[t] \in SignalSlow)
<1>1. pc \in [Threads -> PCs]  BY DEF TypeOK
<1>2. Cardinality(SlowWaiters) = Count(pc, WaitSlow)
      /\ Cardinality(SlowSignallers) = Count(pc, SignalSlow)
  BY DEF Count, SlowWaiters, SlowSignallers
<1>3. Cardinality(SlowWaiters') = Count([pc EXCEPT ![t] = s], WaitSlow)
      /\ Cardinality(SlowSignallers') = Count([pc EXCEPT ![t] = s], SignalSlow)
  BY DEF Count, SlowWaiters, SlowSignallers
<1>4. Count([pc EXCEPT ![t] = s], WaitSlow) =
          Count(pc, WaitSlow) + Bit(s \in WaitSlow) - Bit(pc[t] \in WaitSlow)
  BY <1>1, CountUpdate, ZenonT(60)
<1>5. Count([pc EXCEPT ![t] = s], SignalSlow) =
          Count(pc, SignalSlow) + Bit(s \in SignalSlow) - Bit(pc[t] \in SignalSlow)
  BY <1>1, CountUpdate, ZenonT(60)
<1> QED  BY <1>2, <1>3, <1>4, <1>5

-----------------------------------------------------------------------------
(* Before the first call nobody is in a slow path and no port has a count. *)
LEMMA InitShape == Init => Shape /\ Balance
<1> SUFFICES ASSUME Init PROVE Shape /\ Balance  OBVIOUS
<1> USE ThreadsAssumption, PortAssumption
<1>1. Shape
  BY DEF Init, Shape, TypeOK, PortReady, UndoReady, UsesPort, LONG_MIN, PCs, Timeouts
<1>2. SlowWaiters = {} /\ SlowSignallers = {}
  BY DEF Init, SlowWaiters, SlowSignallers, WaitSlow, SignalSlow
<1>3. Cardinality(SlowWaiters) = 0 /\ Cardinality(SlowSignallers) = 0
  BY <1>2, FS_EmptySet
<1>4. Tokens = 0 /\ Positive(-dsema_value) = 0
  BY DEF Init, Tokens, Positive
<1> QED  BY <1>1, <1>3, <1>4 DEF Init, Balance, WakeupBalance, NoStaleWakeup

USE DEF UsesPort, PCs, WaitSlow, SignalSlow, Returning, Goto

(* The shape is preserved by each action. *)
LEMMA NextShape == Shape /\ [Next]_vars => Shape'
<1> SUFFICES ASSUME Shape, [Next]_vars PROVE Shape'  OBVIOUS
<1> USE ThreadsAssumption, PortAssumption DEF Shape, TypeOK, PortReady, UndoReady, LONG_MIN
<1>1. ASSUME life = "live", NEW t \in Threads, Signal(t) PROVE Shape'
  BY <1>1 DEF Signal, Inc
<1>2. ASSUME life = "live", NEW t \in Threads, NEW time \in Timeouts, Wait(t, time) PROVE Shape'
  BY <1>2 DEF Wait, Dec
<1>3. ASSUME life = "live", NEW t \in Threads, SignalCreate(t) PROVE Shape'
  BY <1>3 DEF SignalCreate, Sema4Create
<1>4. ASSUME life = "live", NEW t \in Threads, SignalCreateSlow(t) PROVE Shape'
  BY <1>4 DEF SignalCreateSlow, Sema4CreateSlow
<1>5. ASSUME life = "live", NEW t \in Threads, Sema4Signal(t) PROVE Shape'
  BY <1>5 DEF Sema4Signal, KernelSignal
<1>6. ASSUME life = "live", NEW t \in Threads, WaitCreate(t) PROVE Shape'
  BY <1>6 DEF WaitCreate, Sema4Create
<1>7. ASSUME life = "live", NEW t \in Threads, WaitCreateSlow(t) PROVE Shape'
  BY <1>7 DEF WaitCreateSlow, Sema4CreateSlow
<1>8. ASSUME life = "live", NEW t \in Threads, Switch(t) PROVE Shape'
  BY <1>8 DEF Switch, Timeouts
<1>9. ASSUME life = "live", NEW t \in Threads, Sema4TimedWait(t) PROVE Shape'
  BY <1>9 DEF Sema4TimedWait, KernelWait
<1>10. ASSUME life = "live", NEW t \in Threads, Sema4TimedOut(t) PROVE Shape'
  BY <1>10 DEF Sema4TimedOut
<1>11. ASSUME life = "live", NEW t \in Threads, UndoLoad(t) PROVE Shape'
  BY <1>11 DEF UndoLoad, UndoTest
<1>12. ASSUME life = "live", NEW t \in Threads, UndoCas(t) PROVE Shape'
  BY <1>12 DEF UndoCas
<1>13. ASSUME life = "live", NEW t \in Threads, UndoCasFail(t) PROVE Shape'
  BY <1>13 DEF UndoCasFail, UndoTest
<1>14. ASSUME life = "live", NEW t \in Threads, Sema4Wait(t) PROVE Shape'
  BY <1>14 DEF Sema4Wait, KernelWait
<1>15. ASSUME life = "live", NEW t \in Threads, Return(t) PROVE Shape'
  BY <1>15 DEF Return, Timeouts
<1>16. ASSUME life = "live", Dispose PROVE Shape'
  BY <1>16 DEF Dispose
<1>17. CASE UNCHANGED vars
  BY <1>17 DEF vars
<1> QED  BY <1>1, <1>2, <1>3, <1>4, <1>5, <1>6, <1>7, <1>8, <1>9, <1>10, <1>11,
            <1>12, <1>13, <1>14, <1>15, <1>16, <1>17 DEF Next, Step

-----------------------------------------------------------------------------
(* The balance is preserved by each action: a step moves one thread, and   *)
(* the counts, the counter and the kernel's count change together.         *)
LEMMA NextBalance == Shape /\ Balance /\ [Next]_vars => Balance'
<1> SUFFICES ASSUME Shape, Balance, [Next]_vars PROVE Balance'  OBVIOUS
<1> USE ThreadsAssumption, PortAssumption
<1> USE DEF Shape, TypeOK, PortReady, UndoReady, LONG_MIN, Balance,
            WakeupBalance, NoStaleWakeup, Tokens, Positive, Bit
<1>0. /\ Cardinality(SlowWaiters) \in Nat /\ Cardinality(SlowWaiters) <= LONG_MAX
      /\ Cardinality(SlowSignallers) \in Nat
  BY Counts
<1>1. ASSUME life = "live", NEW t \in Threads, Signal(t) PROVE Balance'
  <2>1. CASE life' = "crashed"
    BY <1>1, <2>1 DEF Signal
  <2>2. CASE life' /= "crashed"
    <3> DEFINE s == IF Inc(dsema_value) > 0 THEN "signalled" ELSE "signal_create"
    <3>1. pc' = [pc EXCEPT ![t] = s]
      BY <1>1, <2>2 DEF Signal, Inc
    <3>2. pc[t] = "idle" /\ dsema_value' = dsema_value + 1
      BY <1>1, <2>2 DEF Signal, Inc
    <3>3. /\ Cardinality(SlowWaiters') = Cardinality(SlowWaiters)
                + Bit(s \in WaitSlow) - Bit(pc[t] \in WaitSlow)
          /\ Cardinality(SlowSignallers') = Cardinality(SlowSignallers)
                + Bit(s \in SignalSlow) - Bit(pc[t] \in SignalSlow)
      BY <3>1, Moved
    <3> QED  BY <1>0, <1>1, <3>1, <3>2, <3>3 DEF Signal, Inc
  <2> QED  BY <2>1, <2>2
<1>2. ASSUME life = "live", NEW t \in Threads, NEW time \in Timeouts, Wait(t, time)
      PROVE Balance'
  <2> DEFINE s == IF Dec(dsema_value) >= 0 THEN "acquired" ELSE "wait_create"
  <2>1. pc' = [pc EXCEPT ![t] = s] /\ pc[t] = "idle"  BY <1>2 DEF Wait
  <2>2. Dec(dsema_value) = dsema_value - 1  BY <1>0, <1>2 DEF Dec
  <2> HIDE DEF s
  <2>4. /\ Cardinality(SlowWaiters') = Cardinality(SlowWaiters)
              + Bit(s \in WaitSlow) - Bit(pc[t] \in WaitSlow)
        /\ Cardinality(SlowSignallers') = Cardinality(SlowSignallers)
              + Bit(s \in SignalSlow) - Bit(pc[t] \in SignalSlow)
    BY <2>1, Moved
  <2> QED  BY <1>0, <1>2, <2>1, <2>2, <2>4 DEF Wait, s
(* Steps that change neither the counter nor a kernel count. *)
<1>3. ASSUME life = "live", NEW t \in Threads, NEW s, pc' = [pc EXCEPT ![t] = s],
             s \in WaitSlow <=> pc[t] \in WaitSlow,
             s \in SignalSlow <=> pc[t] \in SignalSlow,
             UNCHANGED <<dsema_value, kcount, life>>,
             UNCHANGED dsema_sema \/ dsema_sema \notin Threads
      PROVE Balance'
  <2>1. /\ Cardinality(SlowWaiters') = Cardinality(SlowWaiters)
              + Bit(s \in WaitSlow) - Bit(pc[t] \in WaitSlow)
        /\ Cardinality(SlowSignallers') = Cardinality(SlowSignallers)
              + Bit(s \in SignalSlow) - Bit(pc[t] \in SignalSlow)
    BY <1>3, Moved
  <2>2. Shape'  BY NextShape
  <2> QED  BY <1>0, <1>3, <2>1, <2>2
<1>4. ASSUME life = "live", NEW t \in Threads, SignalCreate(t) PROVE Balance'
  BY <1>3, <1>4 DEF SignalCreate, Sema4Create
<1>5. ASSUME life = "live", NEW t \in Threads, SignalCreateSlow(t) PROVE Balance'
  BY <1>3, <1>5 DEF SignalCreateSlow, Sema4CreateSlow
<1>6. ASSUME life = "live", NEW t \in Threads, WaitCreate(t) PROVE Balance'
  BY <1>3, <1>6 DEF WaitCreate, Sema4Create
<1>7. ASSUME life = "live", NEW t \in Threads, WaitCreateSlow(t) PROVE Balance'
  BY <1>3, <1>7 DEF WaitCreateSlow, Sema4CreateSlow
<1>8. ASSUME life = "live", NEW t \in Threads, Switch(t) PROVE Balance'
  BY <1>3, <1>8 DEF Switch, Timeouts
<1>9. ASSUME life = "live", NEW t \in Threads, Sema4TimedOut(t) PROVE Balance'
  BY <1>3, <1>9 DEF Sema4TimedOut
<1>10. ASSUME life = "live", NEW t \in Threads, UndoLoad(t) PROVE Balance'
  BY <1>3, <1>10 DEF UndoLoad, UndoTest
<1>11. ASSUME life = "live", NEW t \in Threads, UndoCasFail(t) PROVE Balance'
  BY <1>3, <1>11 DEF UndoCasFail, UndoTest
<1>12. ASSUME life = "live", NEW t \in Threads, Return(t) PROVE Balance'
  BY <1>3, <1>12 DEF Return
(* Steps that post a wakeup, take one, or take a decrement back. *)
<1>13. ASSUME life = "live", NEW t \in Threads, Sema4Signal(t) PROVE Balance'
  <2>0. pc[t] = "sema4_signal" /\ pc' = [pc EXCEPT ![t] = "signalled"]
    BY <1>13 DEF Sema4Signal
  <2>1. /\ Cardinality(SlowWaiters') = Cardinality(SlowWaiters)
              + Bit("signalled" \in WaitSlow) - Bit(pc[t] \in WaitSlow)
        /\ Cardinality(SlowSignallers') = Cardinality(SlowSignallers)
              + Bit("signalled" \in SignalSlow) - Bit(pc[t] \in SignalSlow)
    BY <2>0, Moved
  <2>2. /\ Cardinality(SlowWaiters') = Cardinality(SlowWaiters)
        /\ Cardinality(SlowSignallers') = Cardinality(SlowSignallers) - 1
    BY <1>0, <2>0, <2>1
  <2> QED  BY <1>0, <1>13, <2>2 DEF Sema4Signal, KernelSignal
<1>14. ASSUME life = "live", NEW t \in Threads, Sema4TimedWait(t) \/ Sema4Wait(t)
       PROVE Balance'
  <2>0. pc[t] \in {"timedwait", "sema4_wait"} /\ pc' = [pc EXCEPT ![t] = "acquired"]
    BY <1>14 DEF Sema4TimedWait, Sema4Wait
  <2>1. /\ Cardinality(SlowWaiters') = Cardinality(SlowWaiters)
              + Bit("acquired" \in WaitSlow) - Bit(pc[t] \in WaitSlow)
        /\ Cardinality(SlowSignallers') = Cardinality(SlowSignallers)
              + Bit("acquired" \in SignalSlow) - Bit(pc[t] \in SignalSlow)
    BY <2>0, Moved
  <2>2. /\ Cardinality(SlowWaiters') = Cardinality(SlowWaiters) - 1
        /\ Cardinality(SlowSignallers') = Cardinality(SlowSignallers)
    BY <1>0, <2>0, <2>1
  <2> QED  BY <1>0, <1>14, <2>2 DEF Sema4TimedWait, Sema4Wait, KernelWait
<1>15. ASSUME life = "live", NEW t \in Threads, UndoCas(t) PROVE Balance'
  <2>0. pc[t] = "undo_cas" /\ pc' = [pc EXCEPT ![t] = "timedout"]
    BY <1>15 DEF UndoCas
  <2>1. /\ Cardinality(SlowWaiters') = Cardinality(SlowWaiters)
              + Bit("timedout" \in WaitSlow) - Bit(pc[t] \in WaitSlow)
        /\ Cardinality(SlowSignallers') = Cardinality(SlowSignallers)
              + Bit("timedout" \in SignalSlow) - Bit(pc[t] \in SignalSlow)
    BY <2>0, Moved
  <2>2. /\ Cardinality(SlowWaiters') = Cardinality(SlowWaiters) - 1
        /\ Cardinality(SlowSignallers') = Cardinality(SlowSignallers)
    BY <1>0, <2>0, <2>1
  <2> QED  BY <1>0, <1>15, <2>2 DEF UndoCas
<1>16. ASSUME life = "live", Dispose PROVE Balance'
  <2>1. SlowWaiters = {}  BY <1>16 DEF Dispose, SlowWaiters
  <2>2. Cardinality(SlowWaiters) = 0  BY <2>1, FS_EmptySet
  <2> QED  BY <1>0, <1>16, <2>2 DEF Dispose
<1>17. CASE UNCHANGED vars
  BY <1>17 DEF vars, SlowWaiters, SlowSignallers
<1> QED  BY <1>1, <1>2, <1>4, <1>5, <1>6, <1>7, <1>8, <1>9, <1>10, <1>11, <1>12,
            <1>13, <1>14, <1>15, <1>16, <1>17 DEF Next, Step

-----------------------------------------------------------------------------
(* Every variable of semaphore.c keeps its type, the counter its width and *)
(* the kernel a count it can hold, for any number of threads.              *)
THEOREM TypeCorrect == Spec => []TypeOK
<1>1. Spec => []Shape
  BY InitShape, NextShape, PTL DEF Spec
<1> QED  BY <1>1, PTL DEF Shape

(* Wakeups and slow waiters of semaphore.c balance at every step, and no   *)
(* port but the semaphore's own ever holds a wakeup.                       *)
THEOREM WakeupsBalance == Spec => [](WakeupBalance /\ NoStaleWakeup)
<1>1. Spec => [](Shape /\ Balance)
  BY InitShape, NextShape, NextBalance, PTL DEF Spec
<1>2. Shape /\ Balance => WakeupBalance /\ NoStaleWakeup
  BY DEF Balance
<1> QED  BY <1>1, <1>2, PTL

(* The port that _dispatch_sema4_dispose_slow gives back to the cache for  *)
(* another semaphore holds no wakeup, and neither does a port that lost    *)
(* the race of _dispatch_sema4_create_slow.                                *)
THEOREM CachedPortsAreClean == Spec => []NoStaleWakeup
BY WakeupsBalance, PTL

-----------------------------------------------------------------------------
(* While the object lives the counter is the number of units less the      *)
(* number of blocked threads, which is how the fast paths can decide with  *)
(* one look at it what Semaphore decides with two numbers.                 *)
LEMMA AvailValue ==
    Shape /\ Balance /\ life = "live" =>
        /\ Avail = dsema_value + Cardinality(SlowWaiters)
        /\ Avail >= Tokens
BY Counts, ThreadsAssumption
DEF Shape, TypeOK, LONG_MIN, Balance, WakeupBalance, Tokens, Positive, Avail

(* The blocked threads of Semaphore are the slow waiters. *)
LEMMA WaitingIsSlow ==
    TypeOK => Promise!Cardinality(Promise!Waiting) = Cardinality(SlowWaiters)
<1>1. ASSUME NEW S PROVE Promise!Cardinality(S) = Cardinality(S)
  BY DEF Promise!Cardinality, Cardinality
<1>2. TypeOK => Promise!Waiting = SlowWaiters
  BY DEF TypeOK, Promise!Waiting, SlowWaiters, Phase, PhaseOf
<1> QED  BY <1>1, <1>2

(* A step changes the phase of one thread, if of any.                      *)
LEMMA PhaseMoved ==
    ASSUME TypeOK, NEW t \in Threads, NEW s, pc' = [pc EXCEPT ![t] = s]
    PROVE  /\ Phase' = [Phase EXCEPT ![t] = PhaseOf(s)]
           /\ Phase[t] = PhaseOf(pc[t])
           /\ PhaseOf(s) = PhaseOf(pc[t]) => Phase' = Phase
BY DEF TypeOK, Phase

(* A new semaphore has its initial value as units, and nobody waits.       *)
LEMMA InitRefines == Init => Promise!Init
<1> SUFFICES ASSUME Init PROVE Promise!Init  OBVIOUS
<1>1. SlowSignallers = {}
  BY DEF Init, SlowSignallers
<1>2. Cardinality(SlowSignallers) = 0
  BY <1>1, FS_EmptySet
<1>3. Avail = dsema_orig
  BY <1>2, PortAssumption, ThreadsAssumption DEF Init, Avail, Tokens, Positive
<1>4. Phase = [t \in Threads |-> "idle"]
  BY DEF Init, Phase, PhaseOf
<1> QED  BY <1>3, <1>4 DEF Init, Promise!Init

(* Every step of semaphore.c is one of Semaphore or changes nothing of it. *)
LEMMA StepRefines ==
    Shape /\ Balance /\ [Next]_vars => [Promise!Next]_(Promise!vars)
<1> SUFFICES ASSUME Shape, Balance, [Next]_vars
             PROVE  [Promise!Next]_(Promise!vars)
  OBVIOUS
<1> USE ThreadsAssumption, PortAssumption
<1> DEFINE W == Cardinality(SlowWaiters)
<1>1. /\ TypeOK /\ dsema_value \in Int /\ dsema_orig \in Int
      /\ W \in Nat /\ W <= LONG_MAX
      /\ Promise!Cardinality(Promise!Waiting) = W
  BY WaitingIsSlow, Counts DEF Shape, TypeOK, LONG_MIN
<1>2. life = "live" => Avail = dsema_value + W /\ Avail >= Tokens
  BY AvailValue
<1>3. Shape' /\ Balance'  BY NextShape, NextBalance
<1>4. life' = "live" => Avail' = dsema_value' + W'
  <2>1. (Shape /\ Balance /\ life = "live" =>
            /\ Avail = dsema_value + Cardinality(SlowWaiters)
            /\ Avail >= Tokens)'
    BY AvailValue, PTL
  <2> QED  BY <1>3, <2>1
<1>5. life' /= "live" => Avail' = 0  BY DEF Avail
<1>6. ASSUME NEW t \in Threads, NEW s, pc' = [pc EXCEPT ![t] = s]
      PROVE  /\ W' = W + Bit(s \in WaitSlow) - Bit(pc[t] \in WaitSlow)
             /\ Phase' = [Phase EXCEPT ![t] = PhaseOf(s)]
             /\ Phase[t] = PhaseOf(pc[t])
             /\ PhaseOf(s) = PhaseOf(pc[t]) => Phase' = Phase
  BY <1>1, <1>6, Moved, PhaseMoved
<1> HIDE DEF W
<1>7. ASSUME NEW t \in Threads, NEW s, pc' = [pc EXCEPT ![t] = s],
             s \in WaitSlow <=> pc[t] \in WaitSlow
      PROVE  W' = W
  <2>1. W' = W + Bit(s \in WaitSlow) - Bit(pc[t] \in WaitSlow)  BY <1>6, <1>7
  <2> QED  BY <1>1, <1>7, <2>1 DEF Bit
<1>8. ASSUME NEW t \in Threads, NEW s, pc' = [pc EXCEPT ![t] = s],
             s \notin WaitSlow, pc[t] \in WaitSlow
      PROVE  W' = W - 1
  <2>1. W' = W + Bit(s \in WaitSlow) - Bit(pc[t] \in WaitSlow)  BY <1>6, <1>8
  <2> QED  BY <1>1, <1>8, <2>1 DEF Bit
<1>9. ASSUME NEW t \in Threads, NEW s, pc' = [pc EXCEPT ![t] = s],
             s \in WaitSlow, pc[t] \notin WaitSlow
      PROVE  W' = W + 1
  <2>1. W' = W + Bit(s \in WaitSlow) - Bit(pc[t] \in WaitSlow)  BY <1>6, <1>9
  <2> QED  BY <1>1, <1>9, <2>1 DEF Bit
<1> USE DEF PhaseOf
<1>10. ASSUME life = "live", NEW t \in Threads, Signal(t) PROVE Promise!Next
  <2>1. CASE life' = "crashed"
    <3>1. /\ dsema_value = LONG_MAX /\ dsema_orig' = dsema_orig
          /\ Phase' = Phase /\ Phase[t] = "idle"
      BY <1>1, <1>10, <2>1 DEF Signal, Inc, LONG_MIN, Phase, Shape, TypeOK
    <3>2. Promise!Overflow(t)
      BY <1>1, <1>2, <1>5, <1>10, <2>1, <3>1 DEF Promise!Overflow
    <3> QED  BY <1>10, <3>2 DEF Promise!Next
  <2>2. CASE life' /= "crashed"
    <3> DEFINE s == IF Inc(dsema_value) > 0 THEN "signalled" ELSE "signal_create"
    <3>1. pc' = [pc EXCEPT ![t] = s]
      BY <1>1, <1>10, <2>2 DEF Signal, Inc, LONG_MIN, Shape, TypeOK
    <3>2. /\ pc[t] = "idle" /\ life' = life /\ dsema_orig' = dsema_orig
          /\ dsema_value < LONG_MAX /\ dsema_value' = dsema_value + 1
      BY <1>1, <1>10, <2>2 DEF Signal, Inc, LONG_MIN, Shape, TypeOK
    <3>3. W' = W /\ Phase' = [Phase EXCEPT ![t] = "signalled"] /\ Phase[t] = "idle"
      <4>1. s \notin WaitSlow /\ PhaseOf(s) = "signalled"  OBVIOUS
      <4> HIDE DEF s
      <4> QED  BY <1>6, <1>7, <3>1, <3>2, <4>1
    <3>4. Promise!Signal(t)
      BY <1>1, <1>2, <1>4, <1>10, <3>2, <3>3 DEF Promise!Signal
    <3> QED  BY <1>10, <3>4 DEF Promise!Next
  <2> QED  BY <2>1, <2>2
<1>11. ASSUME life = "live", NEW t \in Threads, NEW time \in Timeouts, Wait(t, time)
       PROVE Promise!Next
  <2>1. dsema_value' = dsema_value - 1
    <3>1. dsema_value /= LONG_MIN
      BY <1>1, <1>2, <1>11, Counts DEF Avail, Positive, Tokens, LONG_MIN, Shape, TypeOK
    <3> QED  BY <1>11, <3>1 DEF Wait, Dec
  <2>2. /\ pc[t] = "idle" /\ life' = life /\ dsema_orig' = dsema_orig
        /\ pc' = [pc EXCEPT ![t] = IF dsema_value - 1 >= 0 THEN "acquired"
                                                          ELSE "wait_create"]
    BY <1>11, <2>1 DEF Wait
  <2>3. CASE dsema_value > 0
    <3>1. pc' = [pc EXCEPT ![t] = "acquired"]
      <4>1. dsema_value - 1 >= 0  BY <1>1, <2>3
      <4> QED  BY <2>2, <4>1
    <3>2. W' = W /\ Phase' = [Phase EXCEPT ![t] = "acquired"] /\ Phase[t] = "idle"
      BY <1>6, <1>7, <2>2, <3>1
    <3>3. Promise!TakeOnArrival(t)
      BY <1>1, <1>2, <1>4, <1>11, <2>1, <2>2, <2>3, <3>2 DEF Promise!TakeOnArrival
    <3> QED  BY <1>11, <3>3 DEF Promise!Next
  <2>4. CASE ~(dsema_value > 0)
    <3>1. pc' = [pc EXCEPT ![t] = "wait_create"]
      <4>1. ~(dsema_value - 1 >= 0)  BY <1>1, <2>4
      <4> QED  BY <2>2, <4>1
    <3>2. W' = W + 1 /\ Phase' = [Phase EXCEPT ![t] = "waiting"] /\ Phase[t] = "idle"
      BY <1>6, <1>9, <2>2, <3>1, ZenonT(60)
    <3>3. Promise!Block(t)
      BY <1>1, <1>2, <1>4, <1>11, <2>1, <2>2, <2>4, <3>2 DEF Promise!Block
    <3> QED  BY <1>11, <3>3 DEF Promise!Next
  <2> QED  BY <2>3, <2>4
<1>12. ASSUME life = "live", NEW t \in Threads, Sema4TimedWait(t) \/ Sema4Wait(t)
       PROVE Promise!Next
  <2>1. /\ pc[t] \in {"timedwait", "sema4_wait"} /\ pc' = [pc EXCEPT ![t] = "acquired"]
        /\ life' = life /\ dsema_orig' = dsema_orig /\ dsema_value' = dsema_value
        /\ kcount[dsema_sema] > 0
    BY <1>12 DEF Sema4TimedWait, Sema4Wait, KernelWait
  <2>2. dsema_sema \in Threads /\ kcount[dsema_sema] \in Nat
    BY <2>1 DEF Shape, PortReady, TypeOK
  <2>3. Avail > 0
    BY <1>1, <1>2, <1>12, <2>1, <2>2 DEF Tokens
  <2>4. W' = W - 1 /\ Phase' = [Phase EXCEPT ![t] = "acquired"] /\ Phase[t] = "waiting"
    BY <1>6, <1>8, <2>1
  <2>5. Promise!TakeWhenWoken(t)
    BY <1>1, <1>2, <1>4, <1>12, <2>1, <2>3, <2>4 DEF Promise!TakeWhenWoken
  <2> QED  BY <1>12, <2>5 DEF Promise!Next
<1>13. ASSUME life = "live", NEW t \in Threads, UndoCas(t) PROVE Promise!Next
  <2>1. /\ pc[t] = "undo_cas" /\ pc' = [pc EXCEPT ![t] = "timedout"]
        /\ life' = life /\ dsema_orig' = dsema_orig
        /\ dsema_value < 0 /\ dsema_value' = dsema_value + 1
    BY <1>13 DEF UndoCas, Shape, UndoReady
  <2>2. W' = W - 1 /\ Phase' = [Phase EXCEPT ![t] = "timedout"] /\ Phase[t] = "waiting"
    BY <1>6, <1>8, <2>1
  <2>3. Promise!TimeOut(t)
    BY <1>1, <1>2, <1>4, <1>13, <2>1, <2>2 DEF Promise!TimeOut
  <2> QED  BY <1>13, <2>3 DEF Promise!Next
<1>14. ASSUME life = "live", NEW t \in Threads, Return(t) PROVE Promise!Next
  <2>1. /\ pc[t] \in Returning /\ pc' = [pc EXCEPT ![t] = "idle"]
        /\ life' = life /\ dsema_orig' = dsema_orig /\ dsema_value' = dsema_value
    BY <1>14 DEF Return
  <2>2. W' = W /\ Phase' = [Phase EXCEPT ![t] = "idle"] /\ Phase[t] \in Returning
    BY <1>6, <1>7, <2>1
  <2>3. Promise!Return(t)
    BY <1>1, <1>2, <1>4, <1>14, <2>1, <2>2 DEF Promise!Return
  <2> QED  BY <1>14, <2>3 DEF Promise!Next
<1>15. ASSUME life = "live", Dispose PROVE Promise!Next
  <2>1. /\ \A t \in Threads : pc[t] = "idle"
        /\ pc' = pc /\ dsema_orig' = dsema_orig
        /\ life' = IF dsema_value < dsema_orig THEN "crashed" ELSE "disposed"
    BY <1>15 DEF Dispose
  <2>2. /\ \A t \in Threads : Phase[t] = "idle"
        /\ Phase' = Phase
    BY <2>1 DEF Phase
  <2>3. W = 0
    <3>1. SlowWaiters = {}  BY <2>1 DEF SlowWaiters
    <3> QED  BY <3>1, FS_EmptySet DEF W
  <2>4. Promise!Dispose
    BY <1>1, <1>2, <1>5, <1>15, <2>1, <2>2, <2>3 DEF Promise!Dispose
  <2> QED  BY <1>15, <2>4 DEF Promise!Next
(* The other steps inside a call are invisible. *)
<1>16. ASSUME life = "live", NEW t \in Threads, NEW s, pc' = [pc EXCEPT ![t] = s],
              s \in WaitSlow <=> pc[t] \in WaitSlow,
              s \in SignalSlow \cup {"signalled"} <=> pc[t] \in SignalSlow,
              pc[t] \in WaitSlow \cup SignalSlow,
              UNCHANGED <<dsema_value, dsema_orig, life>>
       PROVE  UNCHANGED Promise!vars
  <2>1. W' = W /\ Phase' = Phase  BY <1>6, <1>7, <1>16
  <2> QED  BY <1>1, <1>2, <1>4, <1>16, <2>1 DEF Promise!vars
<1>17. ASSUME life = "live", NEW t \in Threads,
              \/ SignalCreate(t) \/ SignalCreateSlow(t)
              \/ WaitCreate(t) \/ WaitCreateSlow(t)
       PROVE  UNCHANGED Promise!vars
  BY <1>16, <1>17 DEF SignalCreate, SignalCreateSlow, WaitCreate, WaitCreateSlow,
                      Sema4Create, Sema4CreateSlow
<1>18. ASSUME life = "live", NEW t \in Threads, Sema4Signal(t)
       PROVE  UNCHANGED Promise!vars
  BY <1>16, <1>18 DEF Sema4Signal
<1>19. ASSUME life = "live", NEW t \in Threads, Switch(t) \/ Sema4TimedOut(t)
       PROVE  UNCHANGED Promise!vars
  BY <1>16, <1>19 DEF Switch, Sema4TimedOut
<1>20. ASSUME life = "live", NEW t \in Threads, UndoLoad(t) \/ UndoCasFail(t)
       PROVE  UNCHANGED Promise!vars
  BY <1>16, <1>20 DEF UndoLoad, UndoCasFail, UndoTest
<1>21. CASE UNCHANGED vars
  BY <1>21 DEF vars, Promise!vars, Avail, Tokens, Phase, SlowSignallers
<1> QED  BY <1>10, <1>11, <1>12, <1>13, <1>14, <1>15, <1>17, <1>18, <1>19, <1>20,
            <1>21 DEF Next, Step

(* semaphore.c implements the counting semaphore, for any number of        *)
(* threads: units are conserved, an arriving thread never takes one that a *)
(* blocked thread is owed, and a wait gives up only while units are short. *)
THEOREM ImplementsSemaphore == Spec => IsASemaphore
<1>1. Spec => [](Shape /\ Balance)
  BY InitShape, NextShape, NextBalance, PTL DEF Spec
<1> QED  BY <1>1, InitRefines, StepRefines, PTL DEF Spec, IsASemaphore, Promise!Spec

=============================================================================
