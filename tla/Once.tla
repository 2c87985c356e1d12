-------------------------------- MODULE Once --------------------------------
(***************************************************************************)
(* What dispatch_once promises (dispatch/once.h: "Execute a block once and *)
(* only once"): one of the threads that call it runs the block, the block  *)
(* is never run again, and nobody returns before it is done.               *)
(*                                                                         *)
(* DispatchOnce, the model of once.c, is shown to implement it.            *)
(***************************************************************************)
CONSTANT Threads

VARIABLES
    block,          \* "new", "running", "done", or "recursive": the process
                    \* was stopped because the block called dispatch_once
    phase           \* of every thread: "idle", "calling" or "returned"

vars == <<block, phase>>

Init ==
    /\ block = "new"
    /\ phase = [t \in Threads |-> "idle"]

Call(t) ==
    /\ phase[t] = "idle"
    /\ phase' = [phase EXCEPT ![t] = "calling"]
    /\ UNCHANGED block

(* The block goes from new to running to done, or the process stops. *)
Begin ==
    /\ block = "new" /\ \E t \in Threads : phase[t] = "calling"
    /\ block' = "running"
    /\ UNCHANGED phase

End ==
    /\ block = "running"
    /\ block' \in {"done", "recursive"}
    /\ UNCHANGED phase

Return(t) ==
    /\ block = "done" /\ phase[t] \in {"idle", "calling"}
    /\ phase' = [phase EXCEPT ![t] = "returned"]
    /\ UNCHANGED block

Again(t) ==
    /\ phase[t] = "returned"
    /\ phase' = [phase EXCEPT ![t] = "idle"]
    /\ UNCHANGED block

Next ==
    /\ block /= "recursive"
    /\ \/ Begin
       \/ End
       \/ \E t \in Threads : Call(t) \/ Return(t) \/ Again(t)

Spec == Init /\ [][Next]_vars

=============================================================================
