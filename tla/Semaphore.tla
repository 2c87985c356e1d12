------------------------------ MODULE Semaphore ------------------------------
(***************************************************************************)
(* What a counting semaphore of libdispatch promises, without its counter  *)
(* that goes negative, its lazily created kernel port or its timeouts that *)
(* undo themselves: a number of available units, and the phase of every    *)
(* thread.  The units that blocked threads are owed are theirs: a thread   *)
(* takes a unit on arrival only when there are more units than blocked     *)
(* threads, and gives up only when there are fewer.                        *)
(*                                                                         *)
(* DispatchSemaphore, the model of semaphore.c, is shown to implement it.  *)
(***************************************************************************)
EXTENDS Integers, FiniteSets

CONSTANTS
    Threads,        \* the threads that use the semaphore
    LONG_MAX        \* the largest value of the counter

VARIABLES
    avail,          \* units that can be taken
    phase,          \* what every thread is doing
    first,          \* the value given to dispatch_semaphore_create
    state           \* of the object: "live", "disposed" or "crashed"

vars == <<avail, phase, first, state>>

Phases == {"idle", "waiting", "acquired", "timedout", "signalled"}

Waiting == {t \in Threads : phase[t] = "waiting"}

Init ==
    /\ first \in 0..LONG_MAX
    /\ avail = first
    /\ phase = [t \in Threads |-> "idle"]
    /\ state = "live"

(* Takes a unit on arrival: one that no blocked thread is owed. *)
TakeOnArrival(t) ==
    /\ phase[t] = "idle"
    /\ avail > Cardinality(Waiting)
    /\ avail' = avail - 1
    /\ phase' = [phase EXCEPT ![t] = "acquired"]
    /\ UNCHANGED <<first, state>>

Block(t) ==
    /\ phase[t] = "idle"
    /\ avail <= Cardinality(Waiting)
    /\ phase' = [phase EXCEPT ![t] = "waiting"]
    /\ UNCHANGED <<avail, first, state>>

(* A blocked thread takes a unit. *)
TakeWhenWoken(t) ==
    /\ phase[t] = "waiting"
    /\ avail > 0
    /\ avail' = avail - 1
    /\ phase' = [phase EXCEPT ![t] = "acquired"]
    /\ UNCHANGED <<first, state>>

(* Gives up: only while some blocked thread has no unit to take. *)
TimeOut(t) ==
    /\ phase[t] = "waiting"
    /\ avail < Cardinality(Waiting)
    /\ phase' = [phase EXCEPT ![t] = "timedout"]
    /\ UNCHANGED <<avail, first, state>>

Signal(t) ==
    /\ phase[t] = "idle"
    /\ avail - Cardinality(Waiting) < LONG_MAX
    /\ avail' = avail + 1
    /\ phase' = [phase EXCEPT ![t] = "signalled"]
    /\ UNCHANGED <<first, state>>

(* One unit too many: the process is stopped, and nothing is promised of   *)
(* the object any more.                                                    *)
Overflow(t) ==
    /\ phase[t] = "idle"
    /\ avail - Cardinality(Waiting) = LONG_MAX
    /\ avail' = 0
    /\ state' = "crashed"
    /\ UNCHANGED <<phase, first>>

Return(t) ==
    /\ phase[t] \in {"acquired", "timedout", "signalled"}
    /\ phase' = [phase EXCEPT ![t] = "idle"]
    /\ UNCHANGED <<avail, first, state>>

(* The object is released by the last thread; units that were taken and    *)
(* not given back mean that it is still in use, which stops the process.   *)
Dispose ==
    /\ \A t \in Threads : phase[t] = "idle"
    /\ state' = IF avail < first THEN "crashed" ELSE "disposed"
    /\ avail' = 0
    /\ UNCHANGED <<phase, first>>

Next ==
    /\ state = "live"
    /\ \/ \E t \in Threads :
             \/ TakeOnArrival(t)
             \/ Block(t)
             \/ TakeWhenWoken(t)
             \/ TimeOut(t)
             \/ Signal(t)
             \/ Overflow(t)
             \/ Return(t)
       \/ Dispose

Spec == Init /\ [][Next]_vars

=============================================================================
