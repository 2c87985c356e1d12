---------------------------- MODULE DispatchOnce ----------------------------
(***************************************************************************)
(* dispatch_once: dispatch/once.h, once.c, and the once gate of            *)
(* shims/lock.h and shims/lock.c, in the build for Apple's arm64, with the *)
(* quiescent counter.                                                      *)
(*                                                                         *)
(* The token goes from unlocked to the owner, with a bit when somebody     *)
(* sleeps on it, to the generation at which the block was done, to DONE.   *)
(* A caller that finds DONE returns without a memory barrier; what makes   *)
(* that safe is that DONE is stored only when the kernel's count of        *)
(* context switches has moved on by DISPATCH_ONCE_GEN_SAFE_DELTA.  So the  *)
(* model keeps, for every thread, what its plain loads may still return:   *)
(* zone[t] is the oldest generation, sees[t] says whether the block's      *)
(* writes must be visible.  Every thread has a CPU of its own.             *)
(***************************************************************************)
EXTENDS Integers, FiniteSets

CONSTANTS
    Threads,        \* the callers
    NULL,
    GenBound        \* bound: the generations that are explored

ASSUME OnceAssumption ==
    /\ GenBound \in Nat
    /\ NULL \notin Threads

VARIABLES
    dgo_once,       \* the token
    pc,             \* the next step of every thread
    v,              \* its local copy of the token: v, old_v or new_v
    runs,           \* how often the block has run
    life,           \* "live" or the reason of the crash
    generation,     \* _COMM_PAGE_CPU_QUIESCENT_COUNTER
    mask,           \* the CPUs that have switched since it was incremented
    maskSees,       \* the block's writes are released with the mask
    zone, sees

memory == <<generation, mask, maskSees, zone, sees>>
vars == <<dgo_once, pc, v, runs, life, memory>>

-----------------------------------------------------------------------------
(* The values of the token, told apart by their low bits. *)
Token(state, owner, waiters, gen) ==
    [state |-> state, owner |-> owner, waiters |-> waiters, gen |-> gen]

DLOCK_ONCE_UNLOCKED == Token("unlocked", NULL, FALSE, 0)
DLOCK_ONCE_DONE == Token("done", NULL, FALSE, 0)
Locked(t, waiters) == Token("locked", t, waiters, 0)
Quiescing(gen) == Token("gen", NULL, FALSE, gen)

(* Slip: the generations of the token are shifted, the distance is not. *)
DISPATCH_ONCE_GEN_SAFE_DELTA_Unshifted == 4

(* Slip: the bit that marks a generation is taken off. *)
DISPATCH_ONCE_MAKE_GEN_Minus(gen) == 4 * gen - 2

DISPATCH_ONCE_MAKE_GEN(gen) == 4 * gen + 2
DISPATCH_ONCE_GEN_SAFE_DELTA == 4 * 4

PCs == {"idle", "load", "tryenter", "callout", "quiescing", "broadcast", "wake",
        "wait", "sleep", "asleep", "mark", "returned"}

TypeOK ==
    /\ dgo_once \in [state : {"unlocked", "locked", "gen", "done"},
                     owner : Threads \cup {NULL}, waiters : BOOLEAN, gen : Nat]
    /\ pc \in [Threads -> PCs]
    /\ v \in [Threads -> [state : {"unlocked", "locked", "gen", "done"},
                          owner : Threads \cup {NULL}, waiters : BOOLEAN, gen : Nat]]
    /\ runs \in Nat
    /\ life \in {"live", "recursive", "not_owned"}
    /\ generation \in Nat
    /\ mask \subseteq Threads
    /\ maskSees \in BOOLEAN
    /\ zone \in [Threads -> Nat]
    /\ sees \in [Threads -> BOOLEAN]

Init ==
    /\ dgo_once = DLOCK_ONCE_UNLOCKED
    /\ pc = [t \in Threads |-> "idle"]
    /\ v = [t \in Threads |-> DLOCK_ONCE_UNLOCKED]
    /\ runs = 0
    /\ life = "live"
    /\ generation = 0
    /\ mask = {}
    /\ maskSees = FALSE
    /\ zone = [t \in Threads |-> 0]
    /\ sees = [t \in Threads |-> FALSE]

Goto(t, from, to) ==
    /\ pc[t] = from
    /\ pc' = [pc EXCEPT ![t] = to]

(* A plain load of the counter: nothing older than the thread's last       *)
(* barrier or acquire.                                                     *)
Observable(t) == zone[t]..generation

(* A load of the token that synchronises with the release of value tok:    *)
(* the block's writes are visible, and the counter is not older than what  *)
(* the owner read.                                                         *)
Acquire(t, tok) ==
    /\ sees' = [sees EXCEPT ![t] = TRUE]
    /\ \E g \in Observable(t) :
          /\ DISPATCH_ONCE_MAKE_GEN(g) >= tok.gen
          /\ g = zone[t] \/ DISPATCH_ONCE_MAKE_GEN(g) = tok.gen
          /\ zone' = [zone EXCEPT ![t] = g]
    /\ UNCHANGED <<generation, mask, maskSees>>

-----------------------------------------------------------------------------
(* _dispatch_once, inlined into the caller: a plain load. *)
FastPath(t) ==
    /\ dgo_once = DLOCK_ONCE_DONE
    /\ Goto(t, "idle", "returned")
    /\ UNCHANGED <<dgo_once, v, runs, life, memory>>

(* dispatch_once_f, called for any other value, or a stale one. *)
Call(t) ==
    /\ Goto(t, "idle", "load")
    /\ UNCHANGED <<dgo_once, v, runs, life, memory>>

LoadDone(t) ==
    /\ dgo_once = DLOCK_ONCE_DONE
    /\ Goto(t, "load", "returned")
    /\ UNCHANGED <<dgo_once, v, runs, life, memory>>

LoadGen(t) ==
    /\ dgo_once.state = "gen"
    /\ Goto(t, "load", "mark")
    /\ v' = [v EXCEPT ![t] = dgo_once]
    /\ Acquire(t, dgo_once)
    /\ UNCHANGED <<dgo_once, runs, life>>

(* Unlocked or owned; the load may be stale, what follows is not. *)
LoadOther(t) ==
    /\ Goto(t, "load", "tryenter")
    /\ UNCHANGED <<dgo_once, v, runs, life, memory>>

(* Slip: a load and a store for the compare-and-swap. *)
TryEnter_NotAtomic(t) ==
    \/ /\ dgo_once.state \in {"unlocked", "locked"} /\ v[t] = DLOCK_ONCE_UNLOCKED
       /\ Goto(t, "tryenter", "callout")
       /\ dgo_once' = Locked(t, FALSE)
       /\ UNCHANGED <<v, runs, life, memory>>
    \/ /\ dgo_once /= DLOCK_ONCE_UNLOCKED
       /\ Goto(t, "tryenter", "wait")
       /\ UNCHANGED <<dgo_once, v, runs, life, memory>>

(* _dispatch_once_gate_tryenter *)
TryEnter(t) ==
    \/ /\ dgo_once = DLOCK_ONCE_UNLOCKED
       /\ Goto(t, "tryenter", "callout")
       /\ dgo_once' = Locked(t, FALSE)
       /\ UNCHANGED <<v, runs, life, memory>>
    \/ /\ dgo_once /= DLOCK_ONCE_UNLOCKED
       /\ Goto(t, "tryenter", "wait")
       /\ UNCHANGED <<dgo_once, v, runs, life, memory>>

(* _dispatch_once_callout: the block runs to its end ... *)
Callout(t) ==
    /\ Goto(t, "callout", "quiescing")
    /\ runs' = runs + 1
    /\ sees' = [sees EXCEPT ![t] = TRUE]
    /\ UNCHANGED <<dgo_once, v, life, generation, mask, maskSees, zone>>

(* ... or calls dispatch_once for the same token: it finds itself the      *)
(* owner in _dispatch_once_wait, after setting the waiters' bit.           *)
Recurse(t) ==
    /\ pc[t] = "callout"
    /\ dgo_once' = Locked(dgo_once.owner, TRUE)
    /\ life' = "recursive"
    /\ UNCHANGED <<pc, v, runs, memory>>

(* _dispatch_once_mark_quiescing reads the counter ... *)
ReadGeneration(t) ==
    /\ Goto(t, "quiescing", "broadcast")
    /\ \E g \in Observable(t) :
          v' = [v EXCEPT ![t] = Quiescing(DISPATCH_ONCE_MAKE_GEN(g))]
    /\ UNCHANGED <<dgo_once, runs, life, memory>>

(* Slip: the waiters' bit is not looked at. *)
Broadcast_NoWake(t) ==
    /\ dgo_once' = v[t]
    /\ Goto(t, "broadcast", "returned")
    /\ UNCHANGED <<v, runs, life, memory>>

(* ... and exchanges it for the owner, with release; the sleepers are      *)
(* woken unless the token was the owner and nothing else                   *)
(* (_dispatch_once_gate_broadcast, _dispatch_gate_broadcast_slow).         *)
Broadcast(t) ==
    /\ dgo_once' = v[t]
    /\ \/ /\ dgo_once = Locked(t, FALSE)
          /\ Goto(t, "broadcast", "returned")
          /\ UNCHANGED life
       \/ /\ dgo_once.owner = t /\ dgo_once /= Locked(t, FALSE)
          /\ Goto(t, "broadcast", "wake")
          /\ UNCHANGED life
       \/ /\ dgo_once.owner /= t
          /\ pc[t] = "broadcast" /\ life' = "not_owned"
          /\ UNCHANGED pc
    /\ UNCHANGED <<v, runs, memory>>

(* _dispatch_unfair_lock_wake with ULF_WAKE_ALL *)
Wake(t) ==
    /\ pc[t] = "wake"
    /\ pc' = [s \in Threads |-> IF s = t THEN "returned"
                                ELSE IF pc[s] = "asleep" THEN "wait" ELSE pc[s]]
    /\ UNCHANGED <<dgo_once, v, runs, life, memory>>

-----------------------------------------------------------------------------
(* _dispatch_once_wait: the read-modify-write loop finds DONE (relaxed) ... *)
WaitDone(t) ==
    /\ dgo_once = DLOCK_ONCE_DONE
    /\ Goto(t, "wait", "returned")
    /\ UNCHANGED <<dgo_once, v, runs, life, memory>>

(* ... or a generation, followed by an acquire fence ... *)
WaitGen(t) ==
    /\ dgo_once.state = "gen"
    /\ Goto(t, "wait", "mark")
    /\ v' = [v EXCEPT ![t] = dgo_once]
    /\ Acquire(t, dgo_once)
    /\ UNCHANGED <<dgo_once, runs, life>>

(* Slip: the waiter's own name is written with the bit. *)
WaitBit_Overwrite(t) ==
    /\ dgo_once.state = "locked"
    /\ Goto(t, "wait", "sleep")
    /\ dgo_once' = Locked(t, TRUE)
    /\ v' = [v EXCEPT ![t] = dgo_once']
    /\ UNCHANGED <<runs, life, memory>>

(* ... or an owner, to which it adds the waiters' bit. *)
WaitBit(t) ==
    /\ dgo_once.state = "locked"
    /\ Goto(t, "wait", "sleep")
    /\ dgo_once' = Locked(dgo_once.owner, TRUE)
    /\ v' = [v EXCEPT ![t] = dgo_once']
    /\ UNCHANGED <<runs, life, memory>>

(* Slip: sleeps without comparing. *)
Sleep_NoCompare(t) ==
    /\ Goto(t, "sleep", "asleep")
    /\ UNCHANGED <<dgo_once, v, runs, life, memory>>

(* _dispatch_unfair_lock_wait: the kernel compares and sleeps ... *)
Sleep(t) ==
    /\ Goto(t, "sleep", IF dgo_once = v[t] THEN "asleep" ELSE "wait")
    /\ UNCHANGED <<dgo_once, v, runs, life, memory>>

(* ... and may come back for no reason (EFAULT). *)
SleepEnds(t) ==
    /\ Goto(t, "asleep", "wait")
    /\ UNCHANGED <<dgo_once, v, runs, life, memory>>

(* The difference of two uintptr_t wraps around. *)
Quiesced(now, gen) == now < gen \/ now - gen >= DISPATCH_ONCE_GEN_SAFE_DELTA

(* _dispatch_once_mark_done_if_quiesced *)
MarkDone(t) ==
    /\ Goto(t, "mark", "returned")
    /\ \E g \in Observable(t) :
          dgo_once' = IF Quiesced(DISPATCH_ONCE_MAKE_GEN(g), v[t].gen)
                        THEN DLOCK_ONCE_DONE ELSE dgo_once
    /\ UNCHANGED <<v, runs, life, memory>>

(* The caller goes on, and may come back; its locals are gone. *)
Return(t) ==
    /\ Goto(t, "returned", "idle")
    /\ v' = [v EXCEPT ![t] = DLOCK_ONCE_UNLOCKED]
    /\ UNCHANGED <<dgo_once, runs, life, memory>>

-----------------------------------------------------------------------------
(* The kernel, as the comment in shims/lock.h gives it: a CPU that         *)
(* switches sets its bit with acquire and release, the last one increments *)
(* the counter and clears the mask.                                        *)
ContextSwitch(t) ==
    /\ LET full == mask \cup {t} = Threads
           gen == IF full THEN generation + 1 ELSE generation
       IN  /\ gen <= GenBound
           /\ generation' = gen
           /\ mask' = IF full THEN {} ELSE mask \cup {t}
           /\ zone' = [zone EXCEPT ![t] = gen]
    /\ maskSees' = (maskSees \/ sees[t])
    /\ sees' = [sees EXCEPT ![t] = maskSees \/ sees[t]]
    /\ UNCHANGED <<dgo_once, pc, v, runs, life>>

Step(t) ==
    \/ LoadDone(t) \/ LoadGen(t) \/ LoadOther(t) \/ TryEnter(t)
    \/ Callout(t) \/ ReadGeneration(t) \/ Broadcast(t) \/ Wake(t)
    \/ WaitDone(t) \/ WaitGen(t) \/ WaitBit(t) \/ Sleep(t)
    \/ MarkDone(t) \/ Return(t)

Next ==
    \/ /\ life = "live"
       /\ \E t \in Threads :
             \/ FastPath(t) \/ Call(t) \/ Step(t)
             \/ Recurse(t) \/ SleepEnds(t) \/ ContextSwitch(t)
    \/ life /= "live" /\ UNCHANGED vars

Spec == Init /\ [][Next]_vars

(* A thread inside a call keeps running, and the block ends. *)
FairSpec == Spec /\ \A t \in Threads : WF_vars(life = "live" /\ Step(t))

-----------------------------------------------------------------------------
(* Whoever returns from dispatch_once sees what the block wrote, also on   *)
(* the inlined path that reads DONE with a plain load: the distance of 4   *)
(* generations is enough (the theorem in the comment of shims/lock.h).     *)
Initialised == \A t \in Threads : pc[t] = "returned" => sees[t]

(* The owner is never overwritten, so the broadcast does not take the      *)
(* crash "lock not owned by current thread".                               *)
OwnerKept == life /= "not_owned"

(* A thread asleep on the token has somebody to wake it: the token still   *)
(* holds the owner with the waiters' bit, or the owner is about to wake.   *)
SleepersHaveAWaker ==
    (\E t \in Threads : pc[t] = "asleep") =>
       \E t \in Threads : dgo_once = Locked(t, TRUE) \/ pc[t] = "wake"

(* Every call returns, or the process was stopped for a recursive call. *)
CallsReturn ==
    \A t \in Threads : pc[t] /= "idle" ~> pc[t] = "idle" \/ life /= "live"

(* dispatch_once implements its abstract specification. *)
Block ==
    IF life = "recursive" THEN "recursive"
    ELSE IF dgo_once = DLOCK_ONCE_UNLOCKED THEN "new"
    ELSE IF runs = 0 THEN "running"
    ELSE IF runs = 1 THEN "done"
    ELSE "again"

Phase == [t \in Threads |->
    IF pc[t] \in {"idle", "returned"} THEN pc[t] ELSE "calling"]

Promise == INSTANCE Once WITH block <- Block, phase <- Phase

(* The block runs once and only once, and nobody returns before it has     *)
(* ended, whichever way the call takes.                                    *)
IsOnce == Promise!Spec

=============================================================================
