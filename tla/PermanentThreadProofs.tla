----------------------- MODULE PermanentThreadProofs -----------------------
(* Theorems about PermanentThread, for any number of callers and of tasks. *)
EXTENDS PermanentThread, FiniteSetTheorems, SequenceTheorems, TLAPS

Executing == {c \in Callers : pc[c] = "execute"}

(* In stop, from the look at innerThread to the answer. *)
Stopping(c) == pc[c] \in {"stop", "wakeStop", "waiting"}

(* The calls that are under way fit into the bound. *)
TasksFit == tasks + Cardinality(Executing) <= TaskBound

(* A request that nobody is performing has its signal, and from the look   *)
(* at the signal to the sleep wakeups count.                               *)
SignalInv ==
    /\ queue /= <<>> => rl.signaled \/ inner \in {"perform", "more"}
    /\ inner \in {"perform", "more", "sleep"} => ~rl.ignoreWakeUps
    /\ inner \in {"perform", "more"} => handled
    /\ NotSleptOver

(* Who calls holds the object, or is the one thread in dealloc. *)
HoldInv ==
    /\ \A c \in Callers : pc[c] \in {"execute", "wake"} => c \in refs
    /\ \A c \in Callers : Stopping(c) => c \in refs \/ object = "deallocating"
    /\ object = "deallocating" =>
          \A c, d \in Callers : Stopping(c) /\ Stopping(d) => c = d

(* A __stop in the queue has its caller waiting; beside dealloc's there is *)
(* no request once the object is no longer alive.                          *)
QueueInv ==
    /\ \A i \in Stops : pc[queue[i].from] \in {"wakeStop", "waiting"}
    /\ object = "deallocating" /\ inner /= "ended" => Tasks = {}
    /\ NotFreedInUse

(* The thread ends when it was stopped, and CLCustomThread's also when the *)
(* object is no longer alive.  A call finds no thread when it was stopped. *)
EndInv ==
    /\ \A c \in Callers : pc[c] = "lost" => ~innerThread
    /\ rl.stopped \/ isStop => ~innerThread
    /\ inner = "secondStop" => isStop
    /\ inner \in {"new", "first", "firstEnd", "second", "secondGo", "secondStop"} =>
          class = "CLCustomThread"
    /\ inner = "ended" /\ innerThread => class = "CLCustomThread" /\ object /= "alive"

Inv == TypeOK /\ TasksFit /\ SignalInv /\ HoldInv /\ QueueInv /\ EndInv

-----------------------------------------------------------------------------
(* What is left in the queue after a request was taken from it.            *)
LEMMA TailOf ==
    ASSUME queue \in Seq(Requests), queue /= <<>>
    PROVE  /\ Tail(queue) \in Seq(Requests)
           /\ 1 \in DOMAIN queue /\ Head(queue) = queue[1]
           /\ \A i \in DOMAIN Tail(queue) : \E j \in DOMAIN queue : Tail(queue)[i] = queue[j]
<1>1. Len(queue) \in Nat /\ DOMAIN queue = 1..Len(queue) /\ Len(queue) > 0
  BY EmptySeq, LenProperties
<1>2. /\ Tail(queue) \in Seq(Requests)
      /\ Len(Tail(queue)) = Len(queue) - 1
      /\ \A i \in 1..Len(Tail(queue)) : Tail(queue)[i] = queue[i + 1]
  BY HeadTailProperties
<1>3. DOMAIN Tail(queue) = 1..Len(queue) - 1  BY <1>1, <1>2, LenProperties
<1> QED  BY <1>1, <1>2, <1>3

(* Every request in the queue is one of a caller.                          *)
LEMMA Elements ==
    ASSUME TypeOK
    PROVE  \A i \in DOMAIN queue : queue[i] \in Requests /\ queue[i].from \in Callers
<1>1. queue \in Seq(Requests)  BY DEF TypeOK
<1>2. \A i \in DOMAIN queue : queue[i] \in Requests  BY <1>1, LenProperties, ElementOfSeq
<1> QED  BY <1>2 DEF Requests

(* What is in the queue after a request was added to it.                   *)
LEMMA AppendOf ==
    ASSUME queue \in Seq(Requests), NEW e \in Requests
    PROVE  /\ Append(queue, e) \in Seq(Requests) /\ Append(queue, e) /= <<>>
           /\ \A i \in DOMAIN Append(queue, e) :
                 \/ Append(queue, e)[i] = e
                 \/ i \in DOMAIN queue /\ Append(queue, e)[i] = queue[i]
BY AppendProperties, LenProperties, EmptySeq

(* CFRunLoopStop wakes the loop and marks the run, or does nothing. *)
LEMMA StopLoop ==
    ASSUME TypeOK
    PROVE  LET r == CFRunLoopStop(rl) IN
           /\ r \in [running : BOOLEAN, signaled : BOOLEAN, wakeUpPort : BOOLEAN,
                     ignoreWakeUps : BOOLEAN, stopped : BOOLEAN]
           /\ r.signaled = rl.signaled /\ r.ignoreWakeUps = rl.ignoreWakeUps
           /\ rl.wakeUpPort => r.wakeUpPort
BY DEF TypeOK, CFRunLoopStop, CFRunLoopWakeUp

(* What a release on the inner thread changes. *)
LEMMA InnerReleases ==
    ASSUME TypeOK, NEW q, InnerRelease(q)
    PROVE  /\ refs' = refs \ {Inner}
           /\ \/ UNCHANGED <<object, isStop, innerThread, rl>>
              \/ /\ object = "alive" /\ object' = "gone" /\ refs' = {}
                 /\ inner = "ended" \/ \A i \in DOMAIN q : q[i].sel /= "__executeTask"
                 /\ innerThread' = FALSE /\ isStop' \in BOOLEAN
                 /\ rl' \in {rl, CFRunLoopStop(rl)}
BY DEF TypeOK, InnerRelease, Unheld

(* There is room for the task of a call that is under way. *)
LEMMA Room ==
    ASSUME TypeOK, TasksFit, NEW c \in Callers, pc[c] = "execute"
    PROVE  tasks + 1 \in 0..TaskBound
<1>1. IsFiniteSet(Executing)
  BY PermanentThreadAssumption, FS_Subset DEF Executing
<1>2. c \in Executing  BY DEF Executing
<1>3. Cardinality(Executing) \in Nat /\ Cardinality(Executing) /= 0
  BY <1>1, <1>2, FS_CardinalityType, FS_EmptySet
<1> QED  BY <1>3, PermanentThreadAssumption DEF TypeOK, TasksFit

(* What a call puts into the queue. *)
LEMMA Enqueues ==
    ASSUME TypeOK, TasksFit, NEW c \in Callers, QueueTask(c) \/ QueueStop(c)
    PROVE  \E e \in Requests :
              /\ e.from = c
              /\ e.sel = IF QueueTask(c) THEN "__executeTask" ELSE "__stop"
              /\ queue' = Append(queue, e)
              /\ tasks' \in 0..TaskBound
<1>1. CASE QueueTask(c)
  <2>1. tasks' = tasks + 1 /\ pc[c] = "execute"  BY <1>1 DEF QueueTask, Enqueue, Goto
  <2>2. tasks' \in 0..TaskBound  BY <2>1, Room
  <2> DEFINE e == [sel |-> "__executeTask", from |-> c, task |-> tasks']
  <2>3. e \in Requests  BY <2>2, PermanentThreadAssumption DEF Requests
  <2>4. queue' = Append(queue, e)  BY <1>1 DEF QueueTask, Enqueue
  <2> QED  BY <1>1, <2>2, <2>3, <2>4
<1>2. CASE ~QueueTask(c)
  <2>1. QueueStop(c)  BY <1>2
  <2> DEFINE e == [sel |-> "__stop", from |-> c, task |-> 0]
  <2>2. e \in Requests  BY PermanentThreadAssumption DEF Requests
  <2>3. queue' = Append(queue, e) /\ tasks' = tasks  BY <2>1 DEF QueueStop, Enqueue
  <2> QED  BY <1>2, <2>2, <2>3 DEF TypeOK
<1> QED  BY <1>1, <1>2

(* When no reference is left but those of threads that wait for nothing,   *)
(* and no task in what is left of the queue, nothing is left of it.        *)
LEMMA NoRequests ==
    ASSUME TypeOK, HoldInv, QueueInv, object = "alive",
           \A d \in refs : d = Inner \/ ~Stopping(d),
           NEW q \in Seq(Requests),
           \A i \in DOMAIN q : \E j \in DOMAIN queue : q[i] = queue[j],
           \A i \in DOMAIN q : q[i].sel /= "__executeTask"
    PROVE  q = <<>>
<1>1. SUFFICES ASSUME q /= <<>>  PROVE FALSE  OBVIOUS
<1>2. 1 \in DOMAIN q  BY <1>1, EmptySeq, LenProperties
<1>3. PICK j \in DOMAIN queue : q[1] = queue[j]  BY <1>2
<1>4. q[1] \in Requests  BY <1>2, LenProperties, ElementOfSeq
<1>5. queue[j].sel = "__stop" /\ queue[j].from \in Callers
  BY <1>2, <1>3, <1>4 DEF Requests
<1>6. Stopping(queue[j].from)  BY <1>5 DEF QueueInv, Stops, Stopping
<1>7. queue[j].from \in refs  BY <1>5, <1>6 DEF HoldInv
<1> QED  BY <1>5, <1>6, <1>7, PermanentThreadAssumption

(* Every step keeps the types.                                             *)
LEMMA NextType ==
    ASSUME Inv, [Next]_vars
    PROVE  TypeOK'
<1> USE DEF Inv, TypeOK, self, Requests
<1>1. CASE RunLoopEnter
  BY <1>1 DEF RunLoopEnter
<1>2. CASE RunLoopSources
  BY <1>2 DEF RunLoopSources
<1>3. CASE RunLoopSleep
  BY <1>3 DEF RunLoopSleep
<1>4. CASE RunLoopAgain
  BY <1>4 DEF RunLoopAgain, RunReturns
<1>5. CASE RunLoopReturns
  BY <1>5 DEF RunLoopReturns, End, RunReturns, returnAfterSourceHandled
<1>6. CASE LoadFirst
  BY <1>6 DEF LoadFirst, End
<1>7. CASE ReleaseFirst
  BY <1>7, InnerReleases, StopLoop DEF ReleaseFirst
<1>8. CASE LoadSecond
  BY <1>8 DEF LoadSecond
<1>9. CASE ReleaseSecond
  BY <1>9, InnerReleases, StopLoop DEF ReleaseSecond
<1>10. CASE LeaveLoop
  BY <1>10, InnerReleases, StopLoop DEF LeaveLoop
<1>11. CASE PerformTask
  BY <1>11, TailOf, InnerReleases, StopLoop DEF PerformTask
<1>12. CASE PerformStop
  BY <1>12, TailOf DEF PerformStop, CFRunLoopStop, CFRunLoopWakeUp
<1>13. CASE PerformEnds
  BY <1>13 DEF PerformEnds
<1>14. ASSUME NEW c \in Callers, QueueTask(c)  PROVE TypeOK'
  BY <1>14, AppendOf, Enqueues DEF QueueTask, Enqueue, Goto
<1>15. ASSUME NEW c \in Callers, QueueStop(c)  PROVE TypeOK'
  BY <1>15, AppendOf, Enqueues DEF QueueStop, Enqueue, Goto
<1>16. ASSUME NEW c \in Callers, NoThread(c)  PROVE TypeOK'
  BY <1>16 DEF NoThread
<1>17. ASSUME NEW c \in Callers, WakeUp(c)  PROVE TypeOK'
  BY <1>17 DEF WakeUp, Goto, Returns, CFRunLoopWakeUp, HoldInv, Stopping
<1>18. ASSUME NEW c \in Callers, Answered(c)  PROVE TypeOK'
  BY <1>18 DEF Answered, Returns, HoldInv, Stopping
<1>19. ASSUME NEW c \in Callers, Run(c)  PROVE TypeOK'
  BY <1>19 DEF Run
<1>20. ASSUME NEW c \in Callers, ExecuteTask(c)  PROVE TypeOK'
  BY <1>20 DEF ExecuteTask, Goto, Executing
<1>21. ASSUME NEW c \in Callers, Stop(c)  PROVE TypeOK'
  BY <1>21 DEF Stop, Goto
<1>22. ASSUME NEW c \in Callers, Release(c)  PROVE TypeOK'
  BY <1>22 DEF Release, Unheld
<1>23. CASE UNCHANGED vars
  BY <1>23 DEF vars, self
<1> QED
  BY <1>1, <1>2, <1>3, <1>4, <1>5, <1>6, <1>7, <1>8, <1>9, <1>10, <1>11, <1>12, <1>13, <1>14, <1>15, <1>16, <1>17, <1>18, <1>19, <1>20, <1>21, <1>22, <1>23 DEF Next, InnerStep, CallerStep

(* Every step keeps the signal of a request: the callback signals again    *)
(* what it leaves, and the sleep comes after the last look at the signal.  *)
LEMMA NextSignal ==
    ASSUME Inv, [Next]_vars
    PROVE  SignalInv'
<1> USE DEF Inv, TypeOK, SignalInv, NotSleptOver, self
<1>1. CASE RunLoopEnter
  BY <1>1 DEF RunLoopEnter
<1>2. CASE RunLoopSources
  BY <1>2 DEF RunLoopSources
<1>3. CASE RunLoopSleep
  BY <1>3 DEF RunLoopSleep
<1>4. CASE RunLoopAgain
  BY <1>4 DEF RunLoopAgain, RunReturns
<1>5. CASE RunLoopReturns
  BY <1>5 DEF RunLoopReturns, End, RunReturns, returnAfterSourceHandled
<1>6. CASE LoadFirst
  BY <1>6 DEF LoadFirst, End
<1>7. CASE ReleaseFirst
  BY <1>7, InnerReleases, StopLoop DEF ReleaseFirst
<1>8. CASE LoadSecond
  BY <1>8 DEF LoadSecond
<1>9. CASE ReleaseSecond
  BY <1>9, InnerReleases, StopLoop DEF ReleaseSecond
<1>10. CASE LeaveLoop
  BY <1>10, InnerReleases, StopLoop DEF LeaveLoop
<1>11. CASE PerformTask
  BY <1>11, TailOf, InnerReleases, StopLoop DEF PerformTask
<1>12. CASE PerformStop
  BY <1>12, TailOf DEF PerformStop, CFRunLoopStop, CFRunLoopWakeUp
<1>13. CASE PerformEnds
  BY <1>13 DEF PerformEnds
<1>14. ASSUME NEW c \in Callers, QueueTask(c)  PROVE SignalInv'
  BY <1>14, AppendOf DEF QueueTask, Enqueue, Goto
<1>15. ASSUME NEW c \in Callers, QueueStop(c)  PROVE SignalInv'
  BY <1>15, AppendOf DEF QueueStop, Enqueue, Goto
<1>16. ASSUME NEW c \in Callers, NoThread(c)  PROVE SignalInv'
  BY <1>16 DEF NoThread
<1>17. ASSUME NEW c \in Callers, WakeUp(c)  PROVE SignalInv'
  BY <1>17 DEF WakeUp, Goto, Returns, CFRunLoopWakeUp
<1>18. ASSUME NEW c \in Callers, Answered(c)  PROVE SignalInv'
  BY <1>18 DEF Answered, Returns, Stops
<1>19. ASSUME NEW c \in Callers, Run(c)  PROVE SignalInv'
  BY <1>19 DEF Run
<1>20. ASSUME NEW c \in Callers, ExecuteTask(c)  PROVE SignalInv'
  BY <1>20 DEF ExecuteTask, Goto, Executing
<1>21. ASSUME NEW c \in Callers, Stop(c)  PROVE SignalInv'
  BY <1>21 DEF Stop, Goto
<1>22. ASSUME NEW c \in Callers, Release(c)  PROVE SignalInv'
  BY <1>22 DEF Release, Unheld
<1>23. CASE UNCHANGED vars
  BY <1>23 DEF vars, self
<1> QED
  BY <1>1, <1>2, <1>3, <1>4, <1>5, <1>6, <1>7, <1>8, <1>9, <1>10, <1>11, <1>12, <1>13, <1>14, <1>15, <1>16, <1>17, <1>18, <1>19, <1>20, <1>21, <1>22, <1>23 DEF Next, InnerStep, CallerStep

(* Every step keeps the references of those who call.                      *)
LEMMA NextHold ==
    ASSUME Inv, [Next]_vars
    PROVE  HoldInv'
<1> USE DEF Inv, TypeOK, HoldInv, Stopping, self
<1>1. CASE RunLoopEnter
  BY <1>1 DEF RunLoopEnter
<1>2. CASE RunLoopSources
  BY <1>2 DEF RunLoopSources
<1>3. CASE RunLoopSleep
  BY <1>3 DEF RunLoopSleep
<1>4. CASE RunLoopAgain
  BY <1>4 DEF RunLoopAgain, RunReturns
<1>5. CASE RunLoopReturns
  BY <1>5 DEF RunLoopReturns, End, RunReturns, returnAfterSourceHandled
<1>6. CASE LoadFirst
  BY <1>6 DEF LoadFirst, End
<1>7. CASE ReleaseFirst
  BY <1>7, InnerReleases, PermanentThreadAssumption DEF ReleaseFirst
<1>8. CASE LoadSecond
  BY <1>8 DEF LoadSecond
<1>9. CASE ReleaseSecond
  BY <1>9, InnerReleases, PermanentThreadAssumption DEF ReleaseSecond
<1>10. CASE LeaveLoop
  BY <1>10, InnerReleases, PermanentThreadAssumption DEF LeaveLoop
<1>11. CASE PerformTask
  BY <1>11, InnerReleases, PermanentThreadAssumption DEF PerformTask
<1>12. CASE PerformStop
  BY <1>12 DEF PerformStop, CFRunLoopStop, CFRunLoopWakeUp
<1>13. CASE PerformEnds
  BY <1>13 DEF PerformEnds
<1>14. ASSUME NEW c \in Callers, QueueTask(c)  PROVE HoldInv'
  BY <1>14 DEF QueueTask, Enqueue, Goto
<1>15. ASSUME NEW c \in Callers, QueueStop(c)  PROVE HoldInv'
  BY <1>15 DEF QueueStop, Enqueue, Goto
<1>16. ASSUME NEW c \in Callers, NoThread(c)  PROVE HoldInv'
  BY <1>16 DEF NoThread
<1>17. ASSUME NEW c \in Callers, WakeUp(c)  PROVE HoldInv'
  BY <1>17 DEF WakeUp, Goto, Returns, CFRunLoopWakeUp
<1>18. ASSUME NEW c \in Callers, Answered(c)  PROVE HoldInv'
  BY <1>18 DEF Answered, Returns, Stops
<1>19. ASSUME NEW c \in Callers, Run(c)  PROVE HoldInv'
  BY <1>19 DEF Run
<1>20. ASSUME NEW c \in Callers, ExecuteTask(c)  PROVE HoldInv'
  BY <1>20 DEF ExecuteTask, Goto, Executing
<1>21. ASSUME NEW c \in Callers, Stop(c)  PROVE HoldInv'
  BY <1>21 DEF Stop, Goto
<1>22. ASSUME NEW c \in Callers, Release(c)  PROVE HoldInv'
  BY <1>22 DEF Release, Unheld
<1>23. CASE UNCHANGED vars
  BY <1>23 DEF vars, self
<1> QED
  BY <1>1, <1>2, <1>3, <1>4, <1>5, <1>6, <1>7, <1>8, <1>9, <1>10, <1>11, <1>12, <1>13, <1>14, <1>15, <1>16, <1>17, <1>18, <1>19, <1>20, <1>21, <1>22, <1>23 DEF Next, InnerStep, CallerStep

(* Every step keeps the callers of the requests in the queue.              *)
LEMMA NextQueue ==
    ASSUME Inv, [Next]_vars
    PROVE  QueueInv'
<1> USE DEF Inv, TypeOK, HoldInv, QueueInv, NotFreedInUse, Stopping, Tasks, Stops, self, Requests
<1>1. CASE RunLoopEnter
  BY <1>1 DEF RunLoopEnter
<1>2. CASE RunLoopSources
  BY <1>2 DEF RunLoopSources
<1>3. CASE RunLoopSleep
  BY <1>3 DEF RunLoopSleep
<1>4. CASE RunLoopAgain
  BY <1>4 DEF RunLoopAgain, RunReturns
<1>5. CASE RunLoopReturns
  BY <1>5 DEF RunLoopReturns, End, RunReturns, returnAfterSourceHandled
<1>6. CASE LoadFirst
  BY <1>6 DEF LoadFirst, End
<1>7. CASE ReleaseFirst
  <2>1. InnerRelease(queue) /\ UNCHANGED <<queue, pc>> /\ inner /= "ended"
    BY <1>7 DEF ReleaseFirst
  <2>2. CASE object' = object
    BY <1>7, <2>1, <2>2 DEF ReleaseFirst
  <2>3. CASE object' /= object
    <3>1. /\ object = "alive" /\ object' = "gone" /\ refs \ {Inner} = {}
          /\ \A j \in DOMAIN queue : queue[j].sel /= "__executeTask"
      BY <2>1, <2>3, InnerReleases
    <3>2. queue = <<>>  BY <3>1, NoRequests
    <3> QED  BY <2>1, <3>1, <3>2
  <2> QED  BY <2>2, <2>3
<1>8. CASE LoadSecond
  BY <1>8 DEF LoadSecond
<1>9. CASE ReleaseSecond
  <2>1. InnerRelease(queue) /\ UNCHANGED <<queue, pc>> /\ inner /= "ended"
    BY <1>9 DEF ReleaseSecond
  <2>2. CASE object' = object
    BY <1>9, <2>1, <2>2 DEF ReleaseSecond
  <2>3. CASE object' /= object
    <3>1. /\ object = "alive" /\ object' = "gone" /\ refs \ {Inner} = {}
          /\ \A j \in DOMAIN queue : queue[j].sel /= "__executeTask"
      BY <2>1, <2>3, InnerReleases
    <3>2. queue = <<>>  BY <3>1, NoRequests
    <3> QED  BY <2>1, <3>1, <3>2
  <2> QED  BY <2>2, <2>3
<1>10. CASE LeaveLoop
  BY <1>10, InnerReleases, PermanentThreadAssumption DEF LeaveLoop
<1>11. CASE PerformTask
  <2>1. /\ InnerRelease(Tail(queue)) /\ queue' = Tail(queue) /\ UNCHANGED pc
        /\ inner /= "ended" /\ queue /= <<>>
    BY <1>11 DEF PerformTask
  <2>2. /\ queue' \in Seq(Requests)
        /\ \A i \in DOMAIN queue' : \E j \in DOMAIN queue : queue'[i] = queue[j]
    BY <2>1, TailOf
  <2>3. CASE object' = object
    <3>1. object /= "gone"  BY <2>1, <2>3
    <3> QED  BY <2>1, <2>2, <2>3, <3>1
  <2>4. CASE object' /= object
    <3>1. /\ object = "alive" /\ object' = "gone" /\ refs \ {Inner} = {}
          /\ \A j \in DOMAIN Tail(queue) : Tail(queue)[j].sel /= "__executeTask"
      BY <2>1, <2>4, InnerReleases
    <3>2. Tail(queue) = <<>>  BY <2>1, <2>2, <3>1, NoRequests
    <3> QED  BY <2>1, <2>2, <3>1, <3>2
  <2> QED  BY <2>3, <2>4
<1>12. CASE PerformStop
  BY <1>12, TailOf DEF PerformStop, CFRunLoopStop, CFRunLoopWakeUp
<1>13. CASE PerformEnds
  BY <1>13 DEF PerformEnds
<1>14. ASSUME NEW c \in Callers, QueueTask(c)  PROVE QueueInv'
  BY <1>14, AppendOf DEF QueueTask, Enqueue, Goto
<1>15. ASSUME NEW c \in Callers, QueueStop(c)  PROVE QueueInv'
  BY <1>15, AppendOf DEF QueueStop, Enqueue, Goto
<1>16. ASSUME NEW c \in Callers, NoThread(c)  PROVE QueueInv'
  BY <1>16 DEF NoThread
<1>17. ASSUME NEW c \in Callers, WakeUp(c)  PROVE QueueInv'
  <2>1. UNCHANGED <<object, queue, inner>>
    BY <1>17 DEF WakeUp, Goto, Returns
  <2>2. \A d \in Callers : pc[d] \in {"wakeStop", "waiting"} =>
                               pc'[d] \in {"wakeStop", "waiting"}
    BY <1>17 DEF WakeUp, Goto, Returns
  <2>3. \A i \in Stops' : pc'[queue'[i].from] \in {"wakeStop", "waiting"}
    BY <2>1, <2>2, Elements
  <2> QED  BY <2>1, <2>3
<1>18. ASSUME NEW c \in Callers, Answered(c)  PROVE QueueInv'
  <2>1. /\ pc[c] = "waiting" /\ UNCHANGED <<queue, inner>>
        /\ \A d \in Callers : d /= c => pc'[d] = pc[d]
        /\ \A i \in Stops : queue[i].from /= c
    BY <1>18 DEF Answered, Returns
  <2>2. \A i \in DOMAIN queue : queue[i] \in Requests
    BY Elements
  <2>3. \A i \in Stops' : pc'[queue'[i].from] \in {"wakeStop", "waiting"}
    BY <2>1, <2>2
  <2>4. CASE c \in refs
    BY <1>18, <2>1, <2>3, <2>4 DEF Answered, Returns
  <2>5. CASE c \notin refs
    <3>1. object = "deallocating" /\ object' = "gone"
      BY <1>18, <2>1, <2>5 DEF Answered, Returns
    <3>2. Stops = {}
      <4>1. ASSUME NEW i \in Stops  PROVE FALSE
        <5>1. queue[i].from \in Callers /\ pc[queue[i].from] \in {"wakeStop", "waiting"}
          BY <2>2
        <5>2. queue[i].from = c  BY <2>1, <3>1, <5>1
        <5> QED  BY <2>1, <5>2
      <4> QED  BY <4>1
    <3>3. inner /= "ended" => DOMAIN queue = {}
      BY <2>2, <3>1, <3>2
    <3>4. inner /= "ended" => queue = <<>>
      BY <3>3, EmptySeq, LenProperties
    <3> QED  BY <2>1, <2>3, <3>1, <3>4
  <2> QED  BY <2>4, <2>5
<1>19. ASSUME NEW c \in Callers, Run(c)  PROVE QueueInv'
  BY <1>19 DEF Run
<1>20. ASSUME NEW c \in Callers, ExecuteTask(c)  PROVE QueueInv'
  BY <1>20 DEF ExecuteTask, Goto, Executing
<1>21. ASSUME NEW c \in Callers, Stop(c)  PROVE QueueInv'
  BY <1>21 DEF Stop, Goto
<1>22. ASSUME NEW c \in Callers, Release(c)  PROVE QueueInv'
  <2>1. /\ pc[c] = "idle" /\ c \in refs /\ UNCHANGED <<queue, inner>> /\ object = "alive"
        /\ \A d \in Callers : pc[d] \in {"wakeStop", "waiting"} => pc'[d] = pc[d]
    BY <1>22 DEF Release
  <2>2. \A i \in DOMAIN queue : queue[i] \in Requests
    BY Elements
  <2>3. \A i \in Stops' : pc'[queue'[i].from] \in {"wakeStop", "waiting"}
    BY <2>1, <2>2
  <2>4. CASE object' = object
    BY <2>1, <2>3, <2>4
  <2>5. CASE object' /= object /\ inner = "ended"
    BY <2>1, <2>3, <2>5
  <2>6. CASE object' /= object /\ inner /= "ended"
    <3>1. refs \ {c} = {} /\ \A i \in DOMAIN queue : queue[i].sel /= "__executeTask"
      BY <1>22, <2>6 DEF Release, Unheld
    <3>2. queue = <<>>  BY <2>1, <3>1, NoRequests
    <3> QED  BY <2>1, <2>3, <3>1, <3>2
  <2> QED  BY <2>4, <2>5, <2>6
<1>23. CASE UNCHANGED vars
  BY <1>23 DEF vars, self
<1> QED
  BY <1>1, <1>2, <1>3, <1>4, <1>5, <1>6, <1>7, <1>8, <1>9, <1>10, <1>11, <1>12, <1>13, <1>14, <1>15, <1>16, <1>17, <1>18, <1>19, <1>20, <1>21, <1>22, <1>23 DEF Next, InnerStep, CallerStep

(* Every step keeps the reasons for which the thread may end.              *)
LEMMA NextEnd ==
    ASSUME Inv, [Next]_vars
    PROVE  EndInv'
<1> USE DEF Inv, TypeOK, EndInv, self
<1>1. CASE RunLoopEnter
  BY <1>1 DEF RunLoopEnter
<1>2. CASE RunLoopSources
  BY <1>2 DEF RunLoopSources
<1>3. CASE RunLoopSleep
  BY <1>3 DEF RunLoopSleep
<1>4. CASE RunLoopAgain
  BY <1>4 DEF RunLoopAgain, RunReturns
<1>5. CASE RunLoopReturns
  BY <1>5 DEF RunLoopReturns, End, RunReturns, returnAfterSourceHandled
<1>6. CASE LoadFirst
  BY <1>6 DEF LoadFirst, End
<1>7. CASE ReleaseFirst
  BY <1>7, InnerReleases, StopLoop DEF ReleaseFirst
<1>8. CASE LoadSecond
  BY <1>8 DEF LoadSecond
<1>9. CASE ReleaseSecond
  BY <1>9, InnerReleases, StopLoop DEF ReleaseSecond
<1>10. CASE LeaveLoop
  BY <1>10, InnerReleases, StopLoop DEF LeaveLoop
<1>11. CASE PerformTask
  BY <1>11, InnerReleases, StopLoop DEF PerformTask
<1>12. CASE PerformStop
  BY <1>12 DEF PerformStop, CFRunLoopStop, CFRunLoopWakeUp
<1>13. CASE PerformEnds
  BY <1>13 DEF PerformEnds
<1>14. ASSUME NEW c \in Callers, QueueTask(c)  PROVE EndInv'
  BY <1>14 DEF QueueTask, Enqueue, Goto
<1>15. ASSUME NEW c \in Callers, QueueStop(c)  PROVE EndInv'
  BY <1>15 DEF QueueStop, Enqueue, Goto
<1>16. ASSUME NEW c \in Callers, NoThread(c)  PROVE EndInv'
  BY <1>16 DEF NoThread
<1>17. ASSUME NEW c \in Callers, WakeUp(c)  PROVE EndInv'
  BY <1>17 DEF WakeUp, Goto, Returns, CFRunLoopWakeUp
<1>18. ASSUME NEW c \in Callers, Answered(c)  PROVE EndInv'
  BY <1>18 DEF Answered, Returns, Stops
<1>19. ASSUME NEW c \in Callers, Run(c)  PROVE EndInv'
  BY <1>19 DEF Run
<1>20. ASSUME NEW c \in Callers, ExecuteTask(c)  PROVE EndInv'
  BY <1>20 DEF ExecuteTask, Goto, Executing
<1>21. ASSUME NEW c \in Callers, Stop(c)  PROVE EndInv'
  BY <1>21 DEF Stop, Goto
<1>22. ASSUME NEW c \in Callers, Release(c)  PROVE EndInv'
  BY <1>22 DEF Release, Unheld
<1>23. CASE UNCHANGED vars
  BY <1>23 DEF vars, self
<1> QED
  BY <1>1, <1>2, <1>3, <1>4, <1>5, <1>6, <1>7, <1>8, <1>9, <1>10, <1>11, <1>12, <1>13, <1>14, <1>15, <1>16, <1>17, <1>18, <1>19, <1>20, <1>21, <1>22, <1>23 DEF Next, InnerStep, CallerStep

(* Every step keeps the number of calls within the bound.                  *)
LEMMA NextFit ==
    ASSUME Inv, [Next]_vars
    PROVE  TasksFit'
<1> USE DEF Inv, TypeOK, TasksFit, self
<1>1. IsFiniteSet(Executing) /\ Cardinality(Executing) \in Nat
  BY PermanentThreadAssumption, FS_Subset, FS_CardinalityType DEF Executing
<1>2. ASSUME NEW c \in Callers, QueueTask(c)  PROVE TasksFit'
  <2>1. tasks' = tasks + 1 /\ c \in Executing /\ Executing' = Executing \ {c}
    BY <1>2 DEF QueueTask, Enqueue, Goto, Executing
  <2>2. Cardinality(Executing') = Cardinality(Executing) - 1
    BY <1>1, <2>1, FS_RemoveElement
  <2> QED  BY <1>1, <2>1, <2>2, PermanentThreadAssumption
<1>3. ASSUME NEW c \in Callers, ExecuteTask(c)  PROVE TasksFit'
  <2>1. /\ tasks' = tasks /\ Executing' = Executing \cup {c}
        /\ tasks + Cardinality(Executing) < TaskBound
    BY <1>3 DEF ExecuteTask, Goto, Executing
  <2>2. IsFiniteSet(Executing') /\ Cardinality(Executing') <= Cardinality(Executing) + 1
    <3> DEFINE E == Executing \cup {c}
    <3>1. /\ IsFiniteSet(E)
          /\ Cardinality(E) = IF c \in Executing THEN Cardinality(Executing)
                              ELSE Cardinality(Executing) + 1
      BY <1>1, FS_AddElement
    <3> HIDE DEF E
    <3> QED  BY <1>1, <2>1, <3>1 DEF E
  <2>3. Cardinality(Executing') \in Nat
    BY <2>2, FS_CardinalityType
  <2> QED  BY <1>1, <2>1, <2>2, <2>3, PermanentThreadAssumption
<1>4. ASSUME tasks' = tasks, Executing' \subseteq Executing  PROVE TasksFit'
  <2>1. Cardinality(Executing') <= Cardinality(Executing) /\ Cardinality(Executing') \in Nat
    BY <1>1, <1>4, FS_Subset, FS_CardinalityType
  <2> QED  BY <1>1, <1>4, <2>1, PermanentThreadAssumption
<1>5. CASE InnerStep \/ UNCHANGED vars
  <2>1. tasks' = tasks /\ pc' = pc
    BY <1>5 DEF vars, InnerStep, RunLoopEnter, RunLoopSources, RunLoopSleep, RunLoopAgain,
      RunLoopReturns, LoadFirst, ReleaseFirst, LoadSecond, ReleaseSecond, LeaveLoop,
      PerformTask, PerformStop, PerformEnds
  <2> QED  BY <1>4, <2>1 DEF Executing
<1>6. ASSUME NEW c \in Callers,
             QueueStop(c) \/ NoThread(c) \/ WakeUp(c) \/ Answered(c) \/ Run(c) \/ Stop(c) \/ Release(c)
      PROVE  TasksFit'
  <2>1. tasks' = tasks /\ \A d \in Callers : pc'[d] = "execute" => pc[d] = "execute"
    BY <1>6 DEF QueueStop, Enqueue, NoThread, WakeUp, Answered, Returns, Run, Stop, Release, Goto
  <2> QED  BY <1>4, <2>1 DEF Executing
<1> QED  BY <1>2, <1>3, <1>5, <1>6 DEF Next, CallerStep

-----------------------------------------------------------------------------
(* A new object has an empty queue and no run.                             *)
LEMMA InitInv == Init => Inv
<1> SUFFICES ASSUME Init  PROVE Inv  OBVIOUS
<1> USE PermanentThreadAssumption DEF Init
<1>1. TypeOK
  <2>1. <<>> \in Seq(Requests)  BY EmptySeq
  <2>2. class \in Classes /\ object = "alive" /\ refs \subseteq Callers \cup {Inner}
    OBVIOUS
  <2>3. innerThread \in BOOLEAN /\ isStop \in BOOLEAN /\ handled \in BOOLEAN
    OBVIOUS
  <2>4. tasks \in 0..TaskBound
    OBVIOUS
  <2>5. inner \in {"new", "enter"}
    OBVIOUS
  <2>6. rl \in [running : BOOLEAN, signaled : BOOLEAN, wakeUpPort : BOOLEAN,
                ignoreWakeUps : BOOLEAN, stopped : BOOLEAN]
    OBVIOUS
  <2> QED  BY <2>1, <2>2, <2>3, <2>4, <2>5, <2>6 DEF TypeOK
<1>2. TasksFit
  <2>1. Executing = {}  BY DEF Executing
  <2> QED  BY <2>1, FS_EmptySet DEF TasksFit
<1>3. SignalInv /\ HoldInv /\ EndInv
  BY DEF SignalInv, NotSleptOver, HoldInv, Stopping, EndInv
<1>4. QueueInv
  <2>1. DOMAIN queue = {}  BY EmptySeq, LenProperties
  <2> QED  BY <2>1 DEF QueueInv, NotFreedInUse, Stops, Tasks
<1> QED  BY <1>1, <1>2, <1>3, <1>4 DEF Inv

(* The inductive invariant of the thread, its run loop and the callers.    *)
LEMMA Invariant == Spec => []Inv
<1>1. Inv /\ [Next]_vars => Inv'
  BY NextType, NextFit, NextSignal, NextHold, NextQueue, NextEnd DEF Inv
<1> QED  BY InitInv, <1>1, PTL DEF Spec

(* Every variable has its type; the inner thread is where its class lets   *)
(* it be, and no more tasks are queued than were called for.               *)
THEOREM TypeCorrect == Spec => []TypeOK
<1>1. Inv => TypeOK  BY DEF Inv
<1> QED  BY <1>1, Invariant, PTL

(* The run loop never sleeps over a request that nobody will wake it for,  *)
(* however its ignored wakeups and the callers' signals fall together.     *)
THEOREM RequestsAreNotSleptOver == Spec => []NotSleptOver
<1>1. Inv => NotSleptOver  BY DEF Inv, SignalInv
<1> QED  BY <1>1, Invariant, PTL

(* No request is left in the queue of a running thread for an object that  *)
(* is gone.                                                                *)
THEOREM FreedAfterUse == Spec => []NotFreedInUse
<1>1. Inv => NotFreedInUse  BY DEF Inv, QueueInv
<1> QED  BY <1>1, Invariant, PTL

(* Who hangs came after another thread's stop, or called stop on a         *)
(* CLCustomThread that was not run, or is the dealloc of one that was:     *)
(* LFSPermenantThread's first stop, its dealloc's too, always finds the    *)
(* thread running.                                                         *)
THEOREM WhoHangsInStop == Spec => []StrandedForAReason
<1>1. Inv => StrandedForAReason
  <2> SUFFICES ASSUME Inv, NEW c \in Callers, Stranded(c), innerThread
               PROVE  /\ class = "CLCustomThread"
                      /\ inner = "new" \/ (inner = "ended" /\ object = "deallocating")
    BY DEF StrandedForAReason
  <2>1. inner \in {"new", "ended"} /\ Stopping(c)
    BY DEF Stranded, Stopping, Inv, EndInv
  <2>2. CASE inner = "new"
    BY <2>2 DEF Inv, EndInv
  <2>3. CASE inner = "ended"
    <3>1. class = "CLCustomThread" /\ object /= "alive"  BY <2>3 DEF Inv, EndInv
    <3>2. refs = {}  BY <3>1 DEF Inv, TypeOK
    <3> QED  BY <2>1, <2>3, <3>1, <3>2 DEF Inv, HoldInv
  <2> QED  BY <2>1, <2>2, <2>3
<1> QED  BY <1>1, Invariant, PTL

=============================================================================
