------------------------- MODULE SemaphoreDemoProofs -------------------------
(***************************************************************************)
(* Proofs about SemaphoreDemo, for any programs, any number of threads and *)
(* any width of the counter: the pool is bounded, nothing crashes, and     *)
(* with one unit no write of the count loses another.                      *)
(*                                                                         *)
(* Every step of a program is a step of DispatchSemaphore, so what is      *)
(* proved there holds here; the rest is the account of units that the      *)
(* threads of a program keep among themselves.                             *)
(***************************************************************************)
EXTENDS SemaphoreDemo, DispatchSemaphoreProofs, SumTheorems

(* A thread has called wait and has not called the signal that answers it. *)
Drawn == {"waiting", "read", "write", "signal"}

(* The types that the composition adds. *)
DemoType ==
    /\ program \in Programs
    /\ step \in [Threads -> Steps]
    /\ old \in [Threads -> Int]
    /\ count \in Int

(* Where a thread is in its loop and where it is in its call. *)
CallsMatch ==
    \A t \in Threads :
       /\ step[t] \in {"wait", "read", "write", "signal", "done"} => pc[t] = "idle"
       /\ step[t] = "waiting" =>
             /\ pc[t] \in WaitSlow \cup {"acquired"}
             /\ pc[t] \notin {"timedwait", "undo_load", "undo_cas"}
             /\ timeout[t] = "DISPATCH_TIME_FOREVER"
       /\ step[t] = "signalling" => pc[t] \in SignalSlow \cup {"signalled"}
       /\ step[t] /= "done" => t \in DOMAIN program.delta

(* The counter is what the semaphore was created with less what is drawn:  *)
(* so it is never signalled above that, nor released below it.             *)
UnitsInv ==
    /\ dsema_orig = program.value
    /\ dsema_value = program.value - Count(step, Drawn)
    /\ life /= "crashed"
    /\ life = "disposed" => \A t \in Threads : step[t] = "done"

(* With one unit the local of a thread about to write is still the count.  *)
FreshInv ==
    program.value = 1 => \A t \in Threads : step[t] = "write" => old[t] = count

Inv ==
    /\ Shape
    /\ Balance
    /\ DemoType
    /\ CallsMatch
    /\ UnitsInv
    /\ FreshInv

-----------------------------------------------------------------------------
(* Before the first iteration all units are free and no copy was taken.    *)
LEMMA DemoInitial == DemoInit => Inv
<1> SUFFICES ASSUME DemoInit PROVE Inv  OBVIOUS
<1> USE DemoAssumption, ThreadsAssumption
<1>1. Shape /\ Balance
  BY InitShape DEF DemoInit
<1>2. DemoType
  BY DEF DemoInit, DemoType, Steps
<1>3. CallsMatch
  BY DEF DemoInit, CallsMatch, Init
<1>4. Count(step, Drawn) = 0
  <2>1. {u \in Threads : step[u] \in Drawn} = {}  BY DEF DemoInit, Drawn
  <2> QED  BY <2>1, FS_EmptySet DEF Count
<1>5. program.value \in Int  BY DEF DemoInit
<1>6. UnitsInv
  BY <1>4, <1>5 DEF DemoInit, UnitsInv, Init
<1>7. FreshInv
  BY DEF DemoInit, FreshInv
<1> QED  BY <1>1, <1>2, <1>3, <1>6, <1>7 DEF Inv

(* A step of a program is a step of its semaphore, or leaves it alone. *)
LEMMA DemoStep == [DemoNext]_allVars => [Next]_vars
BY DEF DemoNext, allVars, Work, CallWait, WaitReturns, ReadCount, WriteCount,
       CallSignal, SignalReturns, InCall, ReleaseSemaphore, Next, Timeouts, vars

(* How a step of a thread's loop changes the number of units drawn. *)
LEMMA Draws ==
    ASSUME DemoType, NEW t \in Threads, NEW s, step' = [step EXCEPT ![t] = s]
    PROVE  /\ Count(step', Drawn) =
                  Count(step, Drawn) + Bit(s \in Drawn) - Bit(step[t] \in Drawn)
           /\ Count(step, Drawn) \in Nat /\ Count(step, Drawn) <= LONG_MAX
           /\ step[t] \in Drawn => Count(step, Drawn) > 0
<1>1. step \in [Threads -> Steps]  BY DEF DemoType
<1>2. Count(step', Drawn) =
          Count(step, Drawn) + Bit(s \in Drawn) - Bit(step[t] \in Drawn)
  BY <1>1, CountUpdate, ZenonT(60)
<1>3. Count(step, Drawn) \in Nat /\ Count(step, Drawn) <= LONG_MAX
  BY CountType
<1>4. ASSUME step[t] \in Drawn PROVE Count(step, Drawn) > 0
  <2> DEFINE A == {u \in Threads : step[u] \in Drawn}
  <2>1. IsFiniteSet(A)
    <3>1. A \in SUBSET Threads  OBVIOUS
    <3> QED  BY <3>1, FS_Subset, ThreadsAssumption
  <2>2. A /= {}  BY <1>4
  <2>3. Cardinality(A) /= 0  BY <2>1, <2>2, FS_EmptySet
  <2> QED  BY <1>3, <2>3 DEF Count
<1> QED  BY <1>2, <1>3, <1>4

(* Who has drawn a unit holds it or waits for it, so the balance of the    *)
(* semaphore bounds those who hold one.                                    *)
LEMMA HoldersFit == Shape /\ Balance /\ DemoType /\ CallsMatch /\ UnitsInv => PoolBound
<1> SUFFICES ASSUME Shape, Balance, DemoType, CallsMatch, UnitsInv PROVE PoolBound
  OBVIOUS
<1> DEFINE A == {t \in Threads : Holding(t)}
           D == {t \in Threads : step[t] \in Drawn}
<1>1. /\ A \cap SlowWaiters = {} /\ A \cup SlowWaiters = D
  BY DEF CallsMatch, Holding, SlowWaiters, Drawn, DemoType, Steps,
         WaitSlow, SignalSlow
<1>2. IsFiniteSet(A) /\ IsFiniteSet(SlowWaiters)
  <2>1. A \in SUBSET Threads /\ SlowWaiters \in SUBSET Threads  BY DEF SlowWaiters
  <2> QED  BY <2>1, FS_Subset, ThreadsAssumption
<1>3. Cardinality(A) \in Nat /\ Cardinality(SlowWaiters) \in Nat
  BY <1>2, FS_CardinalityType
<1>4. Cardinality(D) = Cardinality(A) + Cardinality(SlowWaiters)
  <2> DEFINE a == Cardinality(A)
             w == Cardinality(SlowWaiters)
  <2>1. Cardinality(A \cup SlowWaiters) = a + w - Cardinality(A \cap SlowWaiters)
    BY <1>2, FS_Union
  <2>2. Cardinality(A \cap SlowWaiters) = 0
    BY <1>1, FS_EmptySet
  <2>3. Cardinality(D) = a + w - 0
    BY <1>1, <2>1, <2>2
  <2>4. a \in Nat /\ w \in Nat  BY <1>3
  <2> HIDE DEF a, w
  <2>5. a + w - 0 = a + w  BY <2>4
  <2> QED  BY <2>3, <2>5 DEF a, w
<1>5. program.value \in Nat
  BY DemoAssumption, ThreadsAssumption DEF DemoType
<1>6. dsema_value = program.value - Cardinality(D)
  BY DEF UnitsInv, Count
<1>7. CASE life = "live"
  <2>1. Cardinality(SlowWaiters) >= -dsema_value
    <3>1. Tokens \in Nat  BY DEF Shape, TypeOK, Tokens
    <3>2. dsema_value \in Int
      BY ThreadsAssumption DEF Shape, TypeOK, LONG_MIN
    <3>3. Cardinality(SlowSignallers) \in Nat  BY Counts
    <3> QED  BY <1>7, <3>1, <3>2, <3>3 DEF Balance, WakeupBalance, Positive
  <2> HIDE DEF A, D
  <2>2. Cardinality(A) <= program.value
    BY <1>3, <1>4, <1>5, <1>6, <2>1
  <2> QED  BY <2>2 DEF PoolBound, A
<1>8. CASE life /= "live"
  <2>1. \A t \in Threads : step[t] = "done"
    BY <1>8 DEF UnitsInv, Shape, TypeOK
  <2>2. A = {}  BY <2>1 DEF Holding
  <2>3. Cardinality(A) = 0  BY <2>2, FS_EmptySet
  <2> QED  BY <1>5, <2>3 DEF PoolBound
<1> QED  BY <1>7, <1>8

(* With one unit no two threads are between their wait and their signal. *)
LEMMA Alone ==
    ASSUME PoolBound, program.value = 1,
           NEW t \in Threads, NEW u \in Threads, Holding(t), Holding(u)
    PROVE  t = u
<1> SUFFICES ASSUME t /= u PROVE FALSE  OBVIOUS
<1> DEFINE A == {r \in Threads : Holding(r)}
<1>1. IsFiniteSet(A)
  <2>1. A \in SUBSET Threads  OBVIOUS
  <2> QED  BY <2>1, FS_Subset, ThreadsAssumption
<1>2. Cardinality({t}) = 1 /\ IsFiniteSet({t})
  BY FS_Singleton
<1>3. Cardinality({t} \cup {u}) = 2
  <2>1. u \notin {t}  OBVIOUS
  <2> QED  BY <1>2, <2>1, FS_AddElement
<1>4. {t} \cup {u} \in SUBSET A  OBVIOUS
<1>5. 2 <= Cardinality(A)
  BY <1>1, <1>3, <1>4, FS_Subset
<1>6. Cardinality(A) \in Nat  BY <1>1, FS_CardinalityType
<1>7. Cardinality(A) <= 1  BY DEF PoolBound
<1> HIDE DEF A
<1> QED  BY <1>5, <1>6, <1>7

-----------------------------------------------------------------------------
USE DEF WaitSlow, SignalSlow, Returning, PCs, Goto

(* The invariant of the programs is preserved by each of their steps.      *)
LEMMA DemoNextInv == Inv /\ [DemoNext]_allVars => Inv'
<1> SUFFICES ASSUME Inv, [DemoNext]_allVars PROVE Inv'  OBVIOUS
<1>1. Shape' /\ Balance'
  BY DemoStep, NextShape, NextBalance DEF Inv
<1>2. /\ Shape /\ Balance /\ DemoType /\ CallsMatch /\ UnitsInv /\ FreshInv
      /\ PoolBound
  BY HoldersFit DEF Inv
<1>3. /\ program.value \in Nat /\ program.value <= LONG_MAX
      /\ \A t \in DOMAIN program.delta : program.delta[t] \in Int
      /\ LONG_MAX \in Nat /\ LONG_MIN = -LONG_MAX - 1
  BY <1>2, DemoAssumption, ThreadsAssumption DEF DemoType, LONG_MIN
<1>4. /\ pc \in [Threads -> PCs] /\ timeout \in [Threads -> Timeouts]
      /\ step \in [Threads -> Steps] /\ old \in [Threads -> Int] /\ count \in Int
      /\ life \in {"live", "disposed", "crashed"}
  BY <1>2 DEF Shape, TypeOK, DemoType
<1> DEFINE Rest == DemoType' /\ CallsMatch' /\ UnitsInv' /\ FreshInv'
<1>5. SUFFICES Rest
  BY <1>1 DEF Inv
<1>6. CASE UNCHANGED allVars
  BY <1>2, <1>6 DEF allVars, vars, demoVars, DemoType, CallsMatch, UnitsInv, FreshInv
<1>7. ASSUME life = "live", NEW t \in Threads, CallWait(t) PROVE Rest
  <2>1. /\ step[t] = "wait" /\ step' = [step EXCEPT ![t] = "waiting"]
        /\ dsema_value' = Dec(dsema_value) /\ UNCHANGED <<dsema_orig, life>>
        /\ pc' = [pc EXCEPT ![t] = IF Dec(dsema_value) >= 0 THEN "acquired"
                                                            ELSE "wait_create"]
        /\ timeout' = [timeout EXCEPT ![t] = "DISPATCH_TIME_FOREVER"]
        /\ UNCHANGED <<program, left, old, count>>
    BY <1>7 DEF CallWait, Go, Wait
  <2>2. DemoType'  BY <1>2, <2>1 DEF DemoType, Steps
  <2>3. CallsMatch'
    <3>1. PICK q \in {"acquired", "wait_create"} : pc' = [pc EXCEPT ![t] = q]
      BY <2>1
    <3> QED
      BY <1>2, <1>4, <2>1, <3>1 DEF CallsMatch
  <2>4. UnitsInv'
    <3> DEFINE n == Count(step, Drawn)
               m == Count(step', Drawn)
    <3>1. m = n + Bit("waiting" \in Drawn) - Bit(step[t] \in Drawn)
          /\ n \in Nat /\ n <= LONG_MAX
      BY <1>2, <2>1, Draws
    <3>2. Bit("waiting" \in Drawn) = 1 /\ Bit(step[t] \in Drawn) = 0
      BY <2>1 DEF Drawn, Bit
    <3>3. dsema_value = program.value - n  BY <1>2 DEF UnitsInv
    <3> HIDE DEF n, m
    <3>4. dsema_value' = program.value - m
      BY <1>3, <2>1, <3>1, <3>2, <3>3 DEF Dec
    <3> QED  BY <1>2, <1>7, <2>1, <3>4 DEF UnitsInv, m
  <2>5. FreshInv'  BY <1>2, <1>4, <2>1 DEF FreshInv
  <2> QED  BY <2>2, <2>3, <2>4, <2>5
<1>8. ASSUME life = "live", NEW t \in Threads, WaitReturns(t) PROVE Rest
  <2>1. /\ step[t] = "waiting" /\ step' = [step EXCEPT ![t] = "read"]
        /\ UNCHANGED <<dsema_value, dsema_orig, life, program, left, old, count>>
        /\ pc' = [pc EXCEPT ![t] = "idle"]
        /\ timeout' = [timeout EXCEPT ![t] = "DISPATCH_TIME_FOREVER"]
    BY <1>8 DEF WaitReturns, Go, Return
  <2>2. DemoType'  BY <1>2, <2>1 DEF DemoType, Steps
  <2>3. CallsMatch'
    BY <1>2, <1>4, <2>1 DEF CallsMatch
  <2>4. Count(step', Drawn) = Count(step, Drawn)
    <3>1. Count(step', Drawn) =
              Count(step, Drawn) + Bit("read" \in Drawn) - Bit(step[t] \in Drawn)
          /\ Count(step, Drawn) \in Nat
      BY <1>2, <2>1, Draws
    <3>2. Bit("read" \in Drawn) = 1 /\ Bit(step[t] \in Drawn) = 1
      BY <2>1 DEF Drawn, Bit
    <3> QED  BY <3>1, <3>2
  <2>5. UnitsInv'  BY <1>2, <1>8, <2>1, <2>4 DEF UnitsInv
  <2>6. FreshInv'  BY <1>2, <1>4, <2>1 DEF FreshInv
  <2> QED  BY <2>2, <2>3, <2>5, <2>6
<1>9. ASSUME life = "live", NEW t \in Threads, ReadCount(t) PROVE Rest
  <2>1. /\ step[t] = "read" /\ step' = [step EXCEPT ![t] = "write"]
        /\ old' = [old EXCEPT ![t] = count]
        /\ UNCHANGED <<vars, program, left, count>>
    BY <1>9 DEF ReadCount, Go
  <2>2. DemoType'  BY <1>2, <1>4, <2>1 DEF DemoType, Steps
  <2>3. CallsMatch'
    BY <1>2, <1>4, <2>1 DEF CallsMatch, vars
  <2>4. Count(step', Drawn) = Count(step, Drawn)
    <3>1. Count(step', Drawn) =
              Count(step, Drawn) + Bit("write" \in Drawn) - Bit(step[t] \in Drawn)
          /\ Count(step, Drawn) \in Nat
      BY <1>2, <2>1, Draws
    <3>2. Bit("write" \in Drawn) = 1 /\ Bit(step[t] \in Drawn) = 1
      BY <2>1 DEF Drawn, Bit
    <3> QED  BY <3>1, <3>2
  <2>5. UnitsInv'  BY <1>2, <1>9, <2>1, <2>4 DEF UnitsInv, vars
  <2>6. FreshInv'  BY <1>2, <1>4, <2>1 DEF FreshInv
  <2> QED  BY <2>2, <2>3, <2>5, <2>6
(* The write: with one unit nobody else is about to write what it has read *)
(* before.                                                                 *)
<1>10. ASSUME life = "live", NEW t \in Threads, WriteCount(t) PROVE Rest
  <2>1. /\ step[t] = "write" /\ step' = [step EXCEPT ![t] = "signal"]
        /\ count' = old[t] + program.delta[t]
        /\ UNCHANGED <<vars, program, left, old>>
    BY <1>10 DEF WriteCount, Go
  <2>2. DemoType'
    <3>1. program.delta[t] \in Int  BY <1>2, <1>3, <2>1 DEF CallsMatch
    <3> QED  BY <1>2, <1>4, <2>1, <3>1 DEF DemoType, Steps
  <2>3. CallsMatch'
    BY <1>2, <1>4, <2>1 DEF CallsMatch, vars
  <2>4. Count(step', Drawn) = Count(step, Drawn)
    <3>1. Count(step', Drawn) =
              Count(step, Drawn) + Bit("signal" \in Drawn) - Bit(step[t] \in Drawn)
          /\ Count(step, Drawn) \in Nat
      BY <1>2, <2>1, Draws
    <3>2. Bit("signal" \in Drawn) = 1 /\ Bit(step[t] \in Drawn) = 1
      BY <2>1 DEF Drawn, Bit
    <3> QED  BY <3>1, <3>2
  <2>5. UnitsInv'  BY <1>2, <1>10, <2>1, <2>4 DEF UnitsInv, vars
  <2>6. FreshInv'
    <3> SUFFICES ASSUME program.value = 1, NEW u \in Threads, step'[u] = "write"
                 PROVE  FALSE
      BY <2>1 DEF FreshInv
    <3>1. u /= t /\ step[u] = "write"  BY <1>4, <2>1
    <3>2. Holding(u) /\ Holding(t)  BY <2>1, <3>1 DEF Holding
    <3> QED  BY <1>2, <3>1, <3>2, Alone
  <2> QED  BY <2>2, <2>3, <2>5, <2>6
<1>11. ASSUME life = "live", NEW t \in Threads, CallSignal(t) PROVE Rest
  <2>1. /\ step[t] = "signal" /\ step' = [step EXCEPT ![t] = "signalling"]
        /\ dsema_value' = Inc(dsema_value)
        /\ UNCHANGED <<dsema_orig, timeout, program, left, old, count>>
    BY <1>11 DEF CallSignal, Go, Signal
  <2> DEFINE n == Count(step, Drawn)
             m == Count(step', Drawn)
  <2>2. m = n + Bit("signalling" \in Drawn) - Bit(step[t] \in Drawn)
        /\ n \in Nat /\ n <= LONG_MAX /\ (step[t] \in Drawn => n > 0)
    BY <1>2, <2>1, Draws
  <2>3. Bit("signalling" \in Drawn) = 0 /\ Bit(step[t] \in Drawn) = 1
        /\ step[t] \in Drawn
    BY <2>1 DEF Drawn, Bit
  <2>4. dsema_value = program.value - n  BY <1>2 DEF UnitsInv
  <2> HIDE DEF n, m
  <2>5. Inc(dsema_value) = dsema_value + 1 /\ dsema_value \in Int
        /\ dsema_value + 1 /= LONG_MIN
    BY <1>3, <2>2, <2>3, <2>4 DEF Inc
  <2>6. dsema_value' = program.value - m
    BY <1>3, <2>1, <2>2, <2>3, <2>4, <2>5
  <2>7. life' = life /\ \E q \in {"signalled", "signal_create"} :
                           pc' = [pc EXCEPT ![t] = q]
    BY <1>11, <2>5 DEF CallSignal, Signal
  <2>8. DemoType'  BY <1>2, <2>1 DEF DemoType, Steps
  <2>9. CallsMatch'
    <3>1. PICK q \in {"signalled", "signal_create"} : pc' = [pc EXCEPT ![t] = q]
      BY <2>7
    <3> QED
      BY <1>2, <1>4, <2>1, <3>1 DEF CallsMatch
  <2>10. UnitsInv'  BY <1>2, <1>11, <2>1, <2>6, <2>7 DEF UnitsInv, m
  <2>11. FreshInv'  BY <1>2, <1>4, <2>1 DEF FreshInv
  <2> QED  BY <2>8, <2>9, <2>10, <2>11
<1>12. ASSUME life = "live", NEW t \in Threads, SignalReturns(t) PROVE Rest
  <2>1. PICK s \in {"done", "wait"} : step' = [step EXCEPT ![t] = s]
    BY <1>12 DEF SignalReturns, Go
  <2>2. /\ step[t] = "signalling" /\ pc' = [pc EXCEPT ![t] = "idle"]
        /\ timeout' = [timeout EXCEPT ![t] = "DISPATCH_TIME_FOREVER"]
        /\ old' = [old EXCEPT ![t] = 0]
        /\ UNCHANGED <<dsema_value, dsema_orig, life, program, count>>
    BY <1>12 DEF SignalReturns, Go, Return
  <2>3. DemoType'  BY <1>2, <2>1, <2>2 DEF DemoType, Steps
  <2>4. CallsMatch'
    BY <1>2, <1>4, <2>1, <2>2 DEF CallsMatch
  <2>5. Count(step', Drawn) = Count(step, Drawn)
    <3>1. Count(step', Drawn) =
              Count(step, Drawn) + Bit(s \in Drawn) - Bit(step[t] \in Drawn)
          /\ Count(step, Drawn) \in Nat
      BY <1>2, <2>1, Draws
    <3>2. Bit(s \in Drawn) = 0 /\ Bit(step[t] \in Drawn) = 0
      BY <2>1, <2>2 DEF Drawn, Bit
    <3> QED  BY <3>1, <3>2
  <2>6. UnitsInv'  BY <1>2, <1>12, <2>2, <2>5 DEF UnitsInv
  <2>7. FreshInv'  BY <1>2, <1>4, <2>1, <2>2 DEF FreshInv
  <2> QED  BY <2>3, <2>4, <2>6, <2>7
(* Steps inside a call: a wait for ever neither times out nor gives up, so *)
(* none of them changes the counter.                                       *)
<1>13. ASSUME life = "live", NEW t \in Threads, InCall(t) PROVE Rest
  <2>1. UNCHANGED demoVars /\ Step(t)  BY <1>13 DEF InCall
  <2> DEFINE Inside(q) ==
               /\ step[t] \in {"waiting", "signalling"}
               /\ step[t] = "waiting" =>
                     /\ q \in WaitSlow \cup {"acquired"}
                     /\ q \notin {"timedwait", "undo_load", "undo_cas"}
               /\ step[t] = "signalling" => q \in SignalSlow \cup {"signalled"}
  <2>2. UNCHANGED <<dsema_value, dsema_orig, life, timeout>>
        /\ \E q \in PCs : pc' = [pc EXCEPT ![t] = q] /\ Inside(q)
    <3> USE <1>2, <1>4 DEF CallsMatch, Steps
    <3>0. step[t] \in Steps  OBVIOUS
    <3>1. CASE SignalCreate(t)
      BY <3>0, <3>1 DEF SignalCreate, Sema4Create
    <3>2. CASE SignalCreateSlow(t)
      BY <3>0, <3>2 DEF SignalCreateSlow, Sema4CreateSlow
    <3>3. CASE Sema4Signal(t)
      BY <3>0, <3>3 DEF Sema4Signal
    <3>4. CASE WaitCreate(t)
      BY <3>0, <3>4 DEF WaitCreate, Sema4Create
    <3>5. CASE WaitCreateSlow(t)
      BY <3>0, <3>5 DEF WaitCreateSlow, Sema4CreateSlow
    <3>6. CASE Switch(t)
      BY <3>0, <3>6 DEF Switch
    <3>7. CASE Sema4TimedWait(t) \/ Sema4TimedOut(t)
      BY <3>0, <3>7 DEF Sema4TimedWait, Sema4TimedOut
    <3>8. CASE UndoLoad(t) \/ UndoCas(t) \/ UndoCasFail(t)
      BY <3>0, <3>8 DEF UndoLoad, UndoCas, UndoCasFail
    <3>9. CASE Sema4Wait(t)
      BY <3>0, <3>9 DEF Sema4Wait
    <3> QED
      BY <2>1, <3>1, <3>2, <3>3, <3>4, <3>5, <3>6, <3>7, <3>8, <3>9 DEF Step
  <2>3. DemoType' /\ UnitsInv' /\ FreshInv'
    BY <1>2, <2>1, <2>2 DEF DemoType, UnitsInv, FreshInv, demoVars
  <2>4. CallsMatch'
    <3>1. PICK q \in PCs : pc' = [pc EXCEPT ![t] = q] /\ Inside(q)
      BY <2>2
    <3> QED
      BY <1>2, <1>4, <2>1, <2>2, <3>1 DEF CallsMatch, demoVars
  <2> QED  BY <2>3, <2>4
<1>14. ASSUME life = "live", ReleaseSemaphore PROVE Rest
  <2>1. /\ \A t \in Threads : step[t] = "done"
        /\ UNCHANGED <<demoVars, pc, timeout, dsema_value, dsema_orig>>
        /\ life' = IF dsema_value < dsema_orig THEN "crashed" ELSE "disposed"
    BY <1>14 DEF ReleaseSemaphore, Dispose
  <2>2. dsema_value = dsema_orig
    <3>1. {t \in Threads : step[t] \in Drawn} = {}  BY <2>1 DEF Drawn
    <3>2. Count(step, Drawn) = 0  BY <3>1, FS_EmptySet DEF Count
    <3> QED  BY <1>2, <1>3, <3>2 DEF UnitsInv
  <2>3. life' = "disposed"  BY <1>3, <1>2, <2>1, <2>2 DEF UnitsInv
  <2> QED
    BY <1>2, <2>1, <2>3 DEF DemoType, CallsMatch, UnitsInv, FreshInv, demoVars
<1> QED
  BY <1>6, <1>7, <1>8, <1>9, <1>10, <1>11, <1>12, <1>13, <1>14
  DEF DemoNext, Work

(* All of it holds in every state of every program. *)
THEOREM DemoInvariant == DemoSpec => []Inv
BY DemoInitial, DemoNextInv, PTL DEF DemoSpec

(* otherTest, viewDidLoad: whatever the number of threads, no more of them *)
(* are between their wait and their signal than the semaphore was created  *)
(* with.                                                                   *)
THEOREM PoolIsBounded == DemoSpec => []PoolBound
<1>1. Inv => PoolBound  BY HoldersFit DEF Inv
<1> QED  BY <1>1, DemoInvariant, PTL

(* Every wait of the programs is answered by one signal, so none overflows *)
(* the counter and the semaphore is not released below its original value. *)
THEOREM ProgramsDoNotCrash == DemoSpec => []NeverCrashes
<1>1. Inv => NeverCrashes  BY DEF Inv, UnitsInv, NeverCrashes
<1> QED  BY <1>1, DemoInvariant, PTL

(* ticketTest, moneyTest: with one unit every write of ticketsCount or     *)
(* money changes it by just what the thread sells, saves or draws, so no   *)
(* write undoes one that came between its read and itself.                 *)
THEOREM WritesAddUp ==
    DemoSpec => [][\A t \in Threads :
                     program.value = 1 /\ WriteCount(t) =>
                         count' = count + program.delta[t]]_allVars
<1> DEFINE AddsUp == \A t \in Threads :
                        program.value = 1 /\ WriteCount(t) =>
                            count' = count + program.delta[t]
<1>1. Inv => AddsUp
  BY DEF Inv, FreshInv, WriteCount, Go
<1> QED  BY <1>1, DemoInvariant, PTL DEF DemoSpec

-----------------------------------------------------------------------------
(* What every thread of the program has added to the count so far. *)
Share == [t \in DOMAIN program.delta |-> program.delta[t] * Written(t)]

AccountInv ==
    /\ left \in [Threads -> Int]
    /\ NoLostUpdate

(* The threads of a program are a finite set, and their shares are numbers. *)
LEMMA ShareType ==
    ASSUME DemoType, left \in [Threads -> Int]
    PROVE  /\ IsFiniteSet(DOMAIN program.delta) /\ DOMAIN program.delta \subseteq Threads
           /\ \A t \in DOMAIN program.delta :
                 program.delta[t] \in Int /\ Written(t) \in Int /\ Share[t] \in Int
           /\ program.start \in Int
<1>1. program.calls \in Nat \ {0} /\ program.start \in Int
      /\ DOMAIN program.delta \subseteq Threads
      /\ \A t \in DOMAIN program.delta : program.delta[t] \in Int
  BY DemoAssumption DEF DemoType
<1>2. IsFiniteSet(DOMAIN program.delta)  BY <1>1, ThreadsAssumption, FS_Subset
<1>3. \A t \in DOMAIN program.delta : Written(t) \in Int  BY <1>1 DEF Written
<1>4. ASSUME NEW t \in DOMAIN program.delta  PROVE Share[t] \in Int
  <2>1. \A i, j \in Int : i * j \in Int  OBVIOUS
  <2>2. Share[t] = program.delta[t] * Written(t)  BY DEF Share
  <2> QED  BY <1>1, <1>3, <2>1, <2>2
<1> QED  BY <1>1, <1>2, <1>3, <1>4

(* What all of them have added: the sum of NoLostUpdate. *)
Total == MapThenSumSet(LAMBDA t : program.delta[t] * Written(t), DOMAIN program.delta)

(* It is the sum of the shares. *)
LEMMA TotalIs ==
    IsFiniteSet(DOMAIN program.delta) => Total = Sum(Share, DOMAIN program.delta)
<1> SUFFICES ASSUME IsFiniteSet(DOMAIN program.delta)
             PROVE  Total = Sum(Share, DOMAIN program.delta)
  OBVIOUS
<1> DEFINE D == DOMAIN program.delta
<1>1. ASSUME NEW s \in SUBSET D, s /= {}
      PROVE  Share[Chosen(s)] = program.delta[Chosen(s)] * Written(Chosen(s))
  <2>1. Chosen(s) \in D  BY <1>1, ChosenIn
  <2> QED  BY <2>1 DEF Share
<1> DEFINE Goes(h) == h = [s \in SUBSET D |->
                             IF s = {} THEN 0
                             ELSE program.delta[Chosen(s)] * Written(Chosen(s))
                                     + h[s \ {Chosen(s)}]]
<1>2. ASSUME NEW h  PROVE Goes(h) <=> Sums(h, Share, D)
  BY <1>1, Zenon DEF Sums
<1>3. PICK g : Sums(g, Share, D) /\ Sum(Share, D) = g[D]  BY SumIs
<1>4. \E h : Goes(h) /\ Total = h[D]
  <2>1. Goes(g)  BY <1>2, <1>3
  <2> QED  BY <2>1 DEF Total, MapThenSumSet, MapThenFoldSet, Chosen
<1> HIDE DEF Goes
<1>5. PICK h : Sums(h, Share, D) /\ Total = h[D]  BY <1>2, <1>4
<1>6. g[D] = h[D]  BY <1>3, <1>5, SumsOne
<1> QED  BY <1>3, <1>5, <1>6

(* NoLostUpdate in terms of this sum. *)
LEMMA AccountIs ==
    NoLostUpdate <=> (program.value = 1 => count = program.start + Total)
BY Zenon DEF NoLostUpdate, Total

(* Before the first iteration no thread has a share. *)
LEMMA AccountInitial == DemoInit /\ DemoType => AccountInv
<1> SUFFICES ASSUME DemoInit, DemoType PROVE AccountInv  OBVIOUS
<1> DEFINE D == DOMAIN program.delta
<1>1. program.calls \in Nat  BY DemoAssumption DEF DemoInit
<1>2. left \in [Threads -> Int]  BY <1>1 DEF DemoInit
<1>3. /\ IsFiniteSet(D) /\ D \subseteq Threads /\ program.start \in Int
      /\ \A t \in D : program.delta[t] \in Int
  BY <1>2, ShareType
<1>4. ASSUME NEW t \in D  PROVE Share[t] = 0
  <2>1. Written(t) = 0  BY <1>1, <1>3 DEF Written, DemoInit
  <2>2. \A i \in Int : i * 0 = 0  OBVIOUS
  <2> QED  BY <1>3, <2>1, <2>2 DEF Share
<1>5. Sum(Share, D) = 0  BY <1>3, <1>4, SumZero
<1>6. Total = 0  BY <1>3, <1>5, TotalIs
<1>7. count = program.start + Total  BY <1>3, <1>6 DEF DemoInit
<1> QED  BY <1>2, <1>7, AccountIs DEF AccountInv

(* Every write adds to the count what it adds to the share of its thread,  *)
(* and no other step changes either.                                       *)
LEMMA AccountNext ==
    ASSUME Inv, Inv', AccountInv, [DemoNext]_allVars
    PROVE  AccountInv'
<1> DEFINE D == DOMAIN program.delta
<1>1. /\ DemoType /\ DemoType' /\ left \in [Threads -> Int]
      /\ step \in [Threads -> Steps] /\ count \in Int
  BY DEF Inv, DemoType, AccountInv
<1>2. program' = program
  BY DEF DemoNext, allVars, demoVars, Work, CallWait, WaitReturns, ReadCount, WriteCount,
         CallSignal, SignalReturns, InCall, ReleaseSemaphore
<1>3. /\ IsFiniteSet(D) /\ D \subseteq Threads /\ program.start \in Int
      /\ \A t \in D : program.delta[t] \in Int /\ Written(t) \in Int /\ Share[t] \in Int
  BY <1>1, ShareType
<1>4. left' \in [Threads -> Int]
  BY <1>1 DEF DemoNext, allVars, demoVars, Work, CallWait, WaitReturns, ReadCount, WriteCount,
         CallSignal, SignalReturns, InCall, ReleaseSemaphore
<1>5. Total = Sum(Share, D) /\ Total' = Sum(Share', D)
  <2>1. (IsFiniteSet(D) => Total = Sum(Share, D))'  BY TotalIs, PTL
  <2> QED  BY <1>2, <1>3, <2>1, TotalIs
<1>6. /\ NoLostUpdate <=> (program.value = 1 => count = program.start + Total)
      /\ NoLostUpdate' <=> (program'.value = 1 => count' = program'.start + Total')
  <2>1. (NoLostUpdate <=> (program.value = 1 => count = program.start + Total))'
    BY AccountIs, PTL
  <2> QED  BY <2>1, AccountIs
<1>7. SUFFICES ASSUME program.value = 1, count = program.start + Total
               PROVE  count' = program.start + Total'
  BY <1>2, <1>4, <1>6 DEF AccountInv
<1>8. Sum(Share, D) \in Int  BY <1>3, SumType
<1>9. CASE \E t \in Threads : WriteCount(t)
  <2>1. PICK t \in Threads : WriteCount(t)  BY <1>9
  <2>2. /\ step[t] = "write" /\ step' = [step EXCEPT ![t] = "signal"]
        /\ left' = left /\ count' = old[t] + program.delta[t]
    BY <2>1 DEF WriteCount, Go
  <2>3. t \in D /\ old[t] = count  BY <1>7, <2>2 DEF Inv, CallsMatch, FreshInv
  <2>4. Written(t)' = Written(t) + 1
    <3>1. program.calls - left[t] \in Int
      BY <1>1, DemoAssumption DEF DemoType
    <3> QED  BY <1>1, <1>2, <2>2, <3>1 DEF Written
  <2>5. \A u \in D \ {t} : Written(u)' = Written(u)
    BY <1>1, <1>2, <1>3, <2>2 DEF Written
  <2>6. Share' = [u \in D |-> program.delta[u] * Written(u)']  BY <1>2 DEF Share
  <2>7. \A u \in D \ {t} : Share'[u] = Share[u]  BY <2>5, <2>6 DEF Share
  <2>8. Share'[t] = Share[t] + program.delta[t]
    <3>1. \A i, j \in Int : i * (j + 1) = i * j + i  OBVIOUS
    <3>2. Share[t] = program.delta[t] * Written(t)  BY <2>3 DEF Share
    <3>3. Share'[t] = program.delta[t] * (Written(t) + 1)  BY <2>3, <2>4, <2>6
    <3> QED  BY <1>3, <2>3, <3>1, <3>2, <3>3
  <2>9. Share'[t] \in Int  BY <1>3, <2>3, <2>8
  <2>10. Sum(Share', D) = Sum(Share, D) + Share'[t] - Share[t]
    BY <1>3, <2>3, <2>7, <2>9, SumChange
  <2> QED  BY <1>1, <1>3, <1>5, <1>7, <1>8, <2>2, <2>3, <2>8, <2>10
<1>10. CASE ~\E t \in Threads : WriteCount(t)
  <2>1. count' = count
    BY <1>10 DEF DemoNext, allVars, demoVars, Work, CallWait, WaitReturns, ReadCount,
                 CallSignal, SignalReturns, InCall, ReleaseSemaphore
  <2>2. \A u \in D : Written(u)' = Written(u)
    <3>1. CASE \E t \in Threads : SignalReturns(t)
      <4>1. PICK t \in Threads : SignalReturns(t)  BY <3>1
      <4>2. PICK s \in {"done", "wait"} : step' = [step EXCEPT ![t] = s]
        BY <4>1 DEF SignalReturns, Go
      <4>3. step[t] = "signalling" /\ left' = [left EXCEPT ![t] = @ - 1]
        BY <4>1 DEF SignalReturns, Go
      <4>4. program.calls \in Int  BY <1>1, DemoAssumption DEF DemoType
      <4> QED  BY <1>1, <1>2, <1>3, <4>2, <4>3, <4>4 DEF Written
    <3>2. CASE ~\E t \in Threads : SignalReturns(t)
      <4>1. left' = left
        BY <1>10, <3>2 DEF DemoNext, allVars, demoVars, Work, CallWait, WaitReturns, ReadCount,
                 CallSignal, InCall, ReleaseSemaphore
      <4>2. \A u \in Threads : step'[u] \in {"signal", "signalling"}
                                 <=> step[u] \in {"signal", "signalling"}
        BY <1>1, <1>10, <3>2
        DEF DemoNext, allVars, demoVars, Work, CallWait, WaitReturns, ReadCount,
            CallSignal, InCall, ReleaseSemaphore, Go
      <4> QED  BY <1>2, <1>3, <4>1, <4>2 DEF Written
    <3> QED  BY <3>1, <3>2
  <2>3. \A u \in D : Share'[u] = Share[u]  BY <1>2, <2>2 DEF Share
  <2>4. Sum(Share', D) = Sum(Share, D)  BY <1>3, <2>3, SumSame
  <2> QED  BY <1>5, <1>7, <2>1, <2>4
<1> QED  BY <1>9, <1>10

(* ticketTest, moneyTest: in every state the count is the start plus what  *)
(* every thread has written, so no change is lost, whatever the number of  *)
(* threads, of iterations and of tickets.                                  *)
THEOREM NoUpdateIsLost == DemoSpec => []NoLostUpdate
<1>1. DemoInit => AccountInv  BY DemoInitial, AccountInitial DEF Inv
<1>2. Inv /\ Inv' /\ AccountInv /\ [DemoNext]_allVars => AccountInv'  BY AccountNext
<1>3. AccountInv => NoLostUpdate  BY DEF AccountInv
<1> QED  BY <1>1, <1>2, <1>3, DemoInvariant, PTL DEF DemoSpec

=============================================================================
