--------------------------- MODULE PermanentThread ---------------------------
(***************************************************************************)
(* The permanent threads of the run loop study: CLCustomThread and         *)
(* LFSPermenantThread, with the run loop they sleep in (CFRunLoop.c).      *)
(*                                                                         *)
(* A caller hands the inner thread a selector to perform; the request      *)
(* retains the object until it has been performed.  stop waits until       *)
(* __stop has been performed, and dealloc, on whichever thread drops the   *)
(* last reference, calls stop.                                             *)
(***************************************************************************)
EXTENDS Naturals, Sequences, FiniteSets

CONSTANTS
    Callers,        \* the threads that hold the object at first
    Classes,        \* of "CLCustomThread", "LFSPermenantThread"
    TaskBound       \* bound: the number of calls of executeTask

Inner == "inner"

ASSUME PermanentThreadAssumption ==
    /\ IsFiniteSet(Callers) /\ Inner \notin Callers
    /\ Classes \subseteq {"CLCustomThread", "LFSPermenantThread"}
    /\ TaskBound \in Nat

VARIABLES
    class,
    object,         \* "alive", "deallocating" or "gone"
    refs,           \* the threads that hold a strong reference
    innerThread,    \* the property is not nil
    isStop,         \* of CLCustomThread
    queue,          \* the requests, the oldest first
    tasks,          \* how often executeTask has queued a request
    pc,             \* the next step of every caller
    inner,          \* the next step of the inner thread
    handled,        \* sourceHandledThisLoop
    rl              \* the inner thread's run loop

vars == <<class, object, refs, innerThread, isStop, queue, tasks, pc, inner, handled, rl>>
self == <<object, refs, innerThread, isStop>>

Requests == [sel : {"__executeTask", "__stop"}, from : Callers, task : 0..TaskBound]

Tasks == {i \in DOMAIN queue : queue[i].sel = "__executeTask"}
Stops == {i \in DOMAIN queue : queue[i].sel = "__stop"}

TypeOK ==
    /\ class \in Classes
    /\ object \in {"alive", "deallocating", "gone"}
    /\ refs \subseteq Callers \cup {Inner}
    /\ object /= "alive" => refs = {}
    /\ innerThread \in BOOLEAN
    /\ isStop \in BOOLEAN
    /\ queue \in Seq(Requests)
    /\ tasks \in 0..TaskBound
    /\ pc \in [Callers -> {"idle", "execute", "stop", "wake", "wakeStop", "waiting",
                           "lost", "away"}]
    /\ inner \in {"new", "first", "firstEnd", "second", "secondGo", "secondStop",
                  "enter", "sources", "perform", "more", "sleep", "after", "ended"}
    /\ handled \in BOOLEAN
    /\ rl \in [running : BOOLEAN, signaled : BOOLEAN, wakeUpPort : BOOLEAN,
               ignoreWakeUps : BOOLEAN, stopped : BOOLEAN]

(* init: CLCustomThread makes the thread, LFSPermenantThread starts it too. *)
Init ==
    /\ class \in Classes
    /\ object = "alive" /\ refs = Callers
    /\ innerThread = TRUE /\ isStop = FALSE
    /\ queue = <<>> /\ tasks = 0
    /\ pc = [c \in Callers |-> "idle"]
    /\ inner = IF class = "CLCustomThread" THEN "new" ELSE "enter"
    /\ handled = FALSE
    /\ rl = [running |-> FALSE, signaled |-> FALSE, wakeUpPort |-> FALSE,
             ignoreWakeUps |-> FALSE, stopped |-> FALSE]

Goto(c, from, to) ==
    /\ pc[c] = from
    /\ pc' = [pc EXCEPT ![c] = to]

-----------------------------------------------------------------------------
(* CFRunLoop.c *)

(* CFRunLoopWakeUp: the port holds one message, more are not needed. *)
CFRunLoopWakeUp(loop) ==
    IF loop.ignoreWakeUps THEN loop ELSE [loop EXCEPT !.wakeUpPort = TRUE]

(* Slip: the run loop is told nothing. *)
CFRunLoopStop_Nothing(loop) == loop

(* CFRunLoopStop does nothing outside of a run. *)
CFRunLoopStop(loop) ==
    IF loop.running THEN CFRunLoopWakeUp([loop EXCEPT !.stopped = TRUE]) ELSE loop

(* CFRunLoopRunSpecific, on entry: the data of this run are new. *)
RunLoopEnter ==
    /\ inner = "enter"
    /\ inner' = "sources"
    /\ rl' = [rl EXCEPT !.running = TRUE, !.stopped = FALSE, !.ignoreWakeUps = FALSE]
    /\ UNCHANGED <<class, self, queue, tasks, pc, handled>>

(* Slip: wakeups stay ignored. *)
RunLoopSources_Ignore ==
    /\ inner = "sources"
    /\ inner' = IF rl.signaled THEN "perform" ELSE "sleep"
    /\ handled' = rl.signaled
    /\ rl' = [rl EXCEPT !.signaled = FALSE]
    /\ UNCHANGED <<class, self, queue, tasks, pc>>

(* __CFRunLoopRun: wakeups count again, and a signaled source is called    *)
(* (__CFRunLoopDoSources0), with the run loop unlocked.                    *)
RunLoopSources ==
    /\ inner = "sources"
    /\ inner' = IF rl.signaled THEN "perform" ELSE "sleep"
    /\ handled' = rl.signaled
    /\ rl' = [rl EXCEPT !.ignoreWakeUps = FALSE, !.signaled = FALSE]
    /\ UNCHANGED <<class, self, queue, tasks, pc>>

(* It sleeps on its ports, or only looks at them when a source was called; *)
(* from here on wakeups are ignored.  Taking the message and ignoring the  *)
(* next are one step: a message sent in between would only wake the loop   *)
(* once more.                                                              *)
RunLoopSleep ==
    /\ inner = "sleep" /\ (handled \/ rl.wakeUpPort)
    /\ inner' = "after"
    /\ rl' = [rl EXCEPT !.wakeUpPort = FALSE, !.ignoreWakeUps = TRUE]
    /\ UNCHANGED <<class, self, queue, tasks, pc, handled>>

(* runMode:beforeDate: returns when a source was handled, the call in      *)
(* LFSPermenantThread passes false.                                        *)
returnAfterSourceHandled_True == TRUE

returnAfterSourceHandled == class = "CLCustomThread"

RunReturns == (handled /\ returnAfterSourceHandled) \/ rl.stopped

RunLoopAgain ==
    /\ inner = "after" /\ ~RunReturns
    /\ inner' = "sources"
    /\ UNCHANGED <<class, self, queue, tasks, pc, handled, rl>>

-----------------------------------------------------------------------------
(* The references. *)

(* Neither the references in S nor the requests in q hold the object. *)
Unheld(S, q) ==
    /\ S = {}
    /\ inner = "ended" \/ \A i \in DOMAIN q : q[i].sel /= "__executeTask"

(* The inner thread lets go of its reference, q being left of the queue:   *)
(* dealloc there performs __stop at once.                                  *)
InnerRelease(q) ==
    /\ refs' = refs \ {Inner}
    /\ IF object = "alive" /\ Unheld(refs', q)
         THEN /\ object' = "gone"
              /\ isStop' = (isStop \/ innerThread) /\ innerThread' = FALSE
              /\ rl' = IF innerThread THEN CFRunLoopStop(rl) ELSE rl
         ELSE UNCHANGED <<object, isStop, innerThread, rl>>

(* The thread ends: what is still queued is never performed, but no longer *)
(* retains the object.                                                     *)
End ==
    /\ inner' = "ended"
    /\ object' = IF object = "alive" /\ refs = {} THEN "gone" ELSE object
    /\ UNCHANGED <<refs, innerThread, isStop>>

-----------------------------------------------------------------------------
(* The inner thread. *)

(* Slip: if for while. *)
RunLoopReturns_If ==
    /\ inner = "after" /\ RunReturns
    /\ rl' = [rl EXCEPT !.running = FALSE, !.stopped = FALSE, !.ignoreWakeUps = FALSE]
    /\ End
    /\ UNCHANGED <<class, queue, tasks, pc, handled>>

(* The run returns: back to the condition of the loop, or the end. *)
RunLoopReturns ==
    /\ inner = "after" /\ RunReturns
    /\ rl' = [rl EXCEPT !.running = FALSE, !.stopped = FALSE, !.ignoreWakeUps = FALSE]
    /\ IF class = "CLCustomThread" THEN inner' = "first" /\ UNCHANGED self ELSE End
    /\ UNCHANGED <<class, queue, tasks, pc, handled>>

(* while (weakSelf ...: the weak load retains, and releases after the test. *)
LoadFirst ==
    /\ inner = "first"
    /\ \/ /\ object = "alive"
          /\ inner' = "firstEnd" /\ refs' = refs \cup {Inner}
          /\ UNCHANGED <<object, innerThread, isStop>>
       \/ object /= "alive" /\ End
    /\ UNCHANGED <<class, queue, tasks, pc, handled, rl>>

ReleaseFirst ==
    /\ inner = "firstEnd" /\ inner' = "second"
    /\ InnerRelease(queue)
    /\ UNCHANGED <<class, queue, tasks, pc, handled>>

(* ... && !weakSelf.isStop): nil.isStop is NO. *)
LoadSecond ==
    /\ inner = "second"
    /\ IF object = "alive"
         THEN refs' = refs \cup {Inner} /\ inner' = IF isStop THEN "secondStop" ELSE "secondGo"
         ELSE inner' = "enter" /\ UNCHANGED refs
    /\ UNCHANGED <<class, object, innerThread, isStop, queue, tasks, pc, handled, rl>>

ReleaseSecond ==
    /\ inner = "secondGo" /\ inner' = "enter"
    /\ InnerRelease(queue)
    /\ UNCHANGED <<class, queue, tasks, pc, handled>>

(* isStop was read: innerThread is nil, so dealloc has nothing to stop. *)
LeaveLoop ==
    /\ inner = "secondStop" /\ inner' = "ended"
    /\ InnerRelease(<<>>)
    /\ UNCHANGED <<class, queue, tasks, pc, handled>>

(* Foundation's source: the oldest request is performed, __executeTask ... *)
PerformTask ==
    /\ inner \in {"perform", "more"} /\ inner' = "more" /\ queue /= <<>>
    /\ Head(queue).sel = "__executeTask"
    /\ queue' = Tail(queue)
    /\ InnerRelease(queue')
    /\ UNCHANGED <<class, tasks, pc, handled>>

(* ... or __stop. *)
PerformStop ==
    /\ inner \in {"perform", "more"} /\ inner' = "more" /\ queue /= <<>>
    /\ Head(queue).sel = "__stop"
    /\ queue' = Tail(queue)
    /\ isStop' = TRUE
    /\ rl' = CFRunLoopStop(rl)
    /\ innerThread' = FALSE
    /\ UNCHANGED <<class, object, refs, tasks, pc, handled>>

(* One request at least; what it leaves is signaled again. *)
PerformEnds ==
    /\ inner = "more" \/ (inner = "perform" /\ queue = <<>>)
    /\ inner' = "sleep"
    /\ rl' = [rl EXCEPT !.signaled = @ \/ (queue /= <<>>)]
    /\ UNCHANGED <<class, self, queue, tasks, pc, handled>>

-----------------------------------------------------------------------------
(* The callers. *)

(* run, of CLCustomThread *)
Run(c) ==
    /\ pc[c] = "idle" /\ c \in refs
    /\ inner = "new" /\ innerThread
    /\ inner' = "first"
    /\ UNCHANGED <<class, self, queue, tasks, pc, handled, rl>>

(* executeTask and stop look at innerThread ... *)
ExecuteTask(c) ==
    /\ c \in refs /\ innerThread
    /\ tasks + Cardinality({d \in Callers : pc[d] = "execute"}) < TaskBound
    /\ Goto(c, "idle", "execute")
    /\ UNCHANGED <<class, self, queue, tasks, inner, handled, rl>>

Stop(c) ==
    /\ c \in refs /\ innerThread
    /\ Goto(c, "idle", "stop")
    /\ UNCHANGED <<class, self, queue, tasks, inner, handled, rl>>

(* ... and read it again for performSelector:onThread:, which queues the   *)
(* request and signals the source ...                                      *)
Enqueue(c, from, sel, to) ==
    /\ innerThread
    /\ Goto(c, from, to)
    /\ tasks' = IF sel = "__executeTask" THEN tasks + 1 ELSE tasks
    /\ queue' = Append(queue, [sel |-> sel, from |-> c,
                               task |-> IF sel = "__executeTask" THEN tasks' ELSE 0])
    /\ rl' = [rl EXCEPT !.signaled = TRUE]
    /\ UNCHANGED <<class, self, inner, handled>>

QueueTask(c) == Enqueue(c, "execute", "__executeTask", "wake")

(* Slip: waitUntilDone:NO. *)
QueueStop_NoWait(c) == Enqueue(c, "stop", "__stop", "wake")

QueueStop(c) == Enqueue(c, "stop", "__stop", "wakeStop")

(* ... unless another thread's __stop has cleared it: no thread to perform *)
(* on, so the call returns or does not, and nothing is performed.          *)
(* (Foundation may also raise an exception; what it does is not in the     *)
(* repository.)                                                            *)
NoThread(c) ==
    /\ pc[c] \in {"execute", "stop"} /\ ~innerThread
    /\ \E q \in {"idle", "lost"} : pc' = [pc EXCEPT ![c] = q]
    /\ UNCHANGED <<class, self, queue, tasks, inner, handled, rl>>

(* What follows a call: idle, or the end of dealloc. *)
Returns(c) ==
    /\ pc' = [pc EXCEPT ![c] = IF c \in refs THEN "idle" ELSE "away"]
    /\ object' = IF c \in refs THEN object ELSE "gone"

(* ... and wakes the run loop. *)
WakeUp(c) ==
    /\ \/ pc[c] = "wake" /\ Returns(c)
       \/ Goto(c, "wakeStop", "waiting") /\ UNCHANGED object
    /\ rl' = CFRunLoopWakeUp(rl)
    /\ UNCHANGED <<class, refs, innerThread, isStop, queue, tasks, inner, handled>>

(* waitUntilDone:YES *)
Answered(c) ==
    /\ pc[c] = "waiting" /\ \A i \in Stops : queue[i].from /= c
    /\ Returns(c)
    /\ UNCHANGED <<class, refs, innerThread, isStop, queue, tasks, inner, handled, rl>>

(* Slip: dealloc at any release. *)
Release_Any(c) ==
    /\ pc[c] = "idle" /\ c \in refs
    /\ refs' = refs \ {c}
    /\ object' = IF innerThread THEN "deallocating" ELSE "gone"
    /\ pc' = [pc EXCEPT ![c] = IF innerThread THEN "stop" ELSE "away"]
    /\ UNCHANGED <<class, innerThread, isStop, queue, tasks, inner, handled, rl>>

(* The caller lets go of the object; the last one is in dealloc, which     *)
(* calls stop.  From here on weakSelf is nil.                              *)
Release(c) ==
    /\ pc[c] = "idle" /\ c \in refs
    /\ refs' = refs \ {c}
    /\ LET last == Unheld(refs', queue) IN
       /\ object' = IF ~last THEN object
                    ELSE IF innerThread THEN "deallocating" ELSE "gone"
       /\ pc' = [pc EXCEPT ![c] = IF last /\ innerThread THEN "stop" ELSE "away"]
    /\ UNCHANGED <<class, innerThread, isStop, queue, tasks, inner, handled, rl>>

-----------------------------------------------------------------------------
InnerStep ==
    \/ RunLoopEnter \/ RunLoopSources \/ RunLoopSleep \/ RunLoopAgain \/ RunLoopReturns
    \/ LoadFirst \/ ReleaseFirst \/ LoadSecond \/ ReleaseSecond \/ LeaveLoop
    \/ PerformTask \/ PerformStop \/ PerformEnds

CallerStep(c) == QueueTask(c) \/ QueueStop(c) \/ NoThread(c) \/ WakeUp(c) \/ Answered(c)

Next ==
    \/ InnerStep
    \/ \E c \in Callers :
          CallerStep(c) \/ Run(c) \/ ExecuteTask(c) \/ Stop(c) \/ Release(c)

Spec == Init /\ [][Next]_vars

(* A thread that can run does; whether a caller calls is its own affair. *)
FairSpec ==
    /\ Spec
    /\ WF_vars(InnerStep)
    /\ \A c \in Callers : WF_vars(CallerStep(c))

-----------------------------------------------------------------------------
(* The inner thread does not sleep over a request: whoever queued it has   *)
(* yet to wake it, or the port holds the message.  Ignored wakeups are not *)
(* lost ones.                                                              *)
NotSleptOver ==
    inner = "sleep" /\ ~handled /\ queue /= <<>> =>
       \/ rl.wakeUpPort
       \/ \E c \in Callers : pc[c] \in {"wake", "wakeStop"}

(* No request is left for an object that is gone: stop waits until __stop  *)
(* has been performed, in dealloc too.                                     *)
NotFreedInUse == object = "gone" /\ inner /= "ended" => queue = <<>>

(* The caller waits in stop for a thread that does not run, or hangs in a  *)
(* call for which there is no thread at all.                               *)
Stranded(c) ==
    \/ pc[c] = "lost"
    \/ pc[c] = "waiting" /\ inner \in {"new", "ended"} /\ \E i \in Stops : queue[i].from = c

(* Who hangs came after another thread's stop, or it called stop (also by  *)
(* dealloc) on a CLCustomThread that was not run, or it is the dealloc of  *)
(* one that was: the inner thread saw weakSelf nil and left before it      *)
(* could perform __stop.  Nobody hangs on an LFSPermenantThread but after  *)
(* another stop.                                                           *)
StrandedForAReason ==
    \A c \in Callers : Stranded(c) =>
       \/ ~innerThread
       \/ /\ class = "CLCustomThread"
          /\ inner = "new" \/ (inner = "ended" /\ object = "deallocating")

Ahead(i) == i \in DOMAIN queue /\ \A j \in Stops : j >= i

(* The thread runs, and no __stop has been performed. *)
InService == innerThread /\ inner \notin {"new", "ended"}

(* A task that was queued before any stop is performed, whoever lets go of *)
(* the object in the meantime.                                             *)
TasksArePerformed ==
    \A n \in 1..TaskBound :
       InService /\ (\E i \in Tasks : queue[i].task = n /\ Ahead(i))
          ~> \A i \in Tasks : queue[i].task /= n

(* The first stop of a running thread returns; for LFSPermenantThread that *)
(* of dealloc too.                                                         *)
StopReturns ==
    \A c \in Callers :
       InService /\ (class = "LFSPermenantThread" \/ object = "alive")
                 /\ (\E i \in Stops : queue[i].from = c /\ Ahead(i))
          ~> pc[c] \in {"idle", "away"}

(* The object went away between the two tests of the condition of          *)
(* CLCustomThread's loop: nil.isStop is NO, the thread runs its run loop   *)
(* once more, and nobody is left to stop it.                               *)
Overlooked == object = "gone" /\ inner \in {"second", "enter"}

(* When the object is gone the thread ends: LFSPermenantThread's always,   *)
(* CLCustomThread's unless the object went away between the two tests.     *)
ThreadEnds ==
    (class = "LFSPermenantThread" \/ []~Overlooked)
       => (object = "gone" ~> inner = "ended")

=============================================================================
