------------------------------ MODULE GCDTimer ------------------------------
(***************************************************************************)
(* GCD/GCD/GCDTimer.m: timers by name.  scheduleGCDTimerWithName looks the *)
(* name's dispatch source up, creates it when there is none, and gives it  *)
(* a handler that runs one action, or all the actions cached for the name. *)
(*                                                                         *)
(* The dictionaries hold one entry per name, so one name is modelled.  The *)
(* calls come from one thread, as in the repository; handlers run on the   *)
(* queue that was passed: the main queue, where they and the calls take    *)
(* turns, or a global one, where they run beside them.  The semaphore      *)
(* guards the look-up (54-56) and the removal (110-114) and nothing else.  *)
(* Time is left out: a timer that is set may fire at any moment.           *)
(***************************************************************************)
EXTENDS Naturals, FiniteSets, Sequences, SequencesExt

CONSTANTS
    Timers,         \* the dispatch sources that can be created, one by a call
    Actions,        \* the blocks; a block is scheduled once
    Caller,         \* the thread that schedules and cancels
    Queues,         \* the queues a program passes, of "main" and "global"
    Schedules,      \* bound: the calls of schedule, by queue
    NULL

Options == {"Cancel", "Merge"}      \* ...PreviousTimerAction

ASSUME TimerAssumption ==
    /\ IsFiniteSet(Timers) /\ IsFiniteSet(Actions)
    /\ Queues \subseteq {"main", "global"}
    /\ \A q \in Queues :
          Schedules[q] \in 0..Cardinality(Actions) \cap 0..Cardinality(Timers)
    /\ Caller \notin Timers
    /\ NULL \notin Timers \cup Actions \cup [option : Options, repeats : BOOLEAN]

Processes == Timers \cup {Caller}   \* a timer stands for its handler

VARIABLES
    queue,          \* where the program has its handlers run
    self,           \* the singleton: the two dictionaries' entries, the semaphore
    arrays,         \* the arrays of actions, each named by its first action
    sources,        \* what libdispatch knows of every timer
    how,            \* option and repeats of every action that was scheduled
    proc,           \* position and locals of every process
    life,
    status, runs    \* what the interface says of an action; how often it has
                    \* run (2: twice or more)

ghosts == <<status, runs>>
vars == <<queue, self, arrays, sources, how, proc, life, ghosts>>

Calling == {"lookup", "create", "uncache", "readCache", "addCache", "setHandler"}
Cancelling == {"cancelRead", "cancelRemove", "cancelUncache", "cancelSource"}
Handling == {"run", "fetch", "enumerate", "uncacheRun"}

Idle == [pc |-> "idle", timer |-> NULL, act |-> NULL, arr |-> NULL, idx |-> 0]

TypeOK ==
    /\ queue \in Queues
    /\ self \in [timerArry : Timers \cup {NULL}, cache : Actions \cup {NULL},
                 semaphore : 0..1]
    /\ arrays \in [Actions -> Seq(Actions)]
    /\ sources \in [Timers -> [made : BOOLEAN, cancelled : BOOLEAN,
                               handler : Actions \cup {NULL}]]
    /\ how \in [Actions -> {NULL} \cup [option : Options, repeats : BOOLEAN]]
    /\ proc \in [Processes -> [pc : {"idle"} \cup Calling \cup Cancelling \cup Handling,
                               timer : Timers \cup {NULL},
                               act : Actions \cup {NULL}, arr : Actions \cup {NULL},
                               idx : Nat]]
    /\ life \in {"live", "crashed"}
    /\ status \in [Actions -> {"new", "due", "replaced", "cancelled", "done"}]
    /\ runs \in [Actions -> 0..2]

(* sharedInstance *)
Init ==
    /\ queue \in Queues
    /\ self = [timerArry |-> NULL, cache |-> NULL, semaphore |-> 1]
    /\ arrays = [a \in Actions |-> << >>]
    /\ sources = [t \in Timers |->
                    [made |-> FALSE, cancelled |-> FALSE, handler |-> NULL]]
    /\ how = [a \in Actions |-> NULL]
    /\ proc = [p \in Processes |-> Idle]
    /\ life = "live"
    /\ status = [a \in Actions |-> "new"]
    /\ runs = [a \in Actions |-> 0]

(* Process p goes on from a position.  On the main queue a call or a       *)
(* handler runs to its end before another begins.                          *)
At(p, from) ==
    /\ life = "live"
    /\ proc[p].pc = from
    /\ queue = "main" => \A q \in Processes \ {p} : proc[q].pc = "idle"

Goto(p, to) == proc' = [proc EXCEPT ![p].pc = to]
Finish(p) == proc' = [proc EXCEPT ![p] = Idle]

-----------------------------------------------------------------------------
(* - scheduleGCDTimerWithName: an interval that is not positive or an      *)
(* empty name returns at once, without effect.  Blocks, like the sources   *)
(* below, differ by name only, so any new one will do.                     *)
New == {a \in Actions : how[a] = NULL}

Schedule(option, repeats) ==
    /\ At(Caller, "idle") /\ Cardinality(Actions \ New) < Schedules[queue]
    /\ LET a == CHOOSE b \in New : TRUE IN
       /\ how' = [how EXCEPT ![a] = [option |-> option, repeats |-> repeats]]
       /\ proc' = [proc EXCEPT ![Caller].pc = "lookup", ![Caller].act = a]
    /\ UNCHANGED <<queue, self, arrays, sources, life, ghosts>>

me == proc[Caller]

(* Where the call goes on once it has its timer. *)
ByOption == IF how[me.act].option = "Cancel" THEN "uncache" ELSE "readCache"

(* Wait, read and signal in one step: nothing else is done in between. *)
Lookup ==
    /\ At(Caller, "lookup") /\ self.semaphore = 1
    /\ proc' = [proc EXCEPT
                  ![Caller].pc = IF self.timerArry = NULL THEN "create" ELSE ByOption,
                  ![Caller].timer = self.timerArry]
    /\ UNCHANGED <<queue, self, arrays, sources, how, life, ghosts>>

(* Created, resumed, and put into the table without the semaphore. *)
Create ==
    /\ At(Caller, "create")
    /\ LET t == CHOOSE s \in Timers : ~sources[s].made IN
       /\ sources' = [sources EXCEPT ![t].made = TRUE]
       /\ self' = [self EXCEPT !.timerArry = t]
       /\ proc' = [proc EXCEPT ![Caller].pc = ByOption, ![Caller].timer = t]
    /\ UNCHANGED <<queue, arrays, how, life, ghosts>>

(* CancelPreviousTimerAction: removeActionCacheForTimer. *)
Uncache ==
    /\ At(Caller, "uncache") /\ Goto(Caller, "setHandler")
    /\ self' = [self EXCEPT !.cache = NULL]
    /\ UNCHANGED <<queue, arrays, sources, how, life, ghosts>>

(* MergePreviousTimerAction: cacheAction:forTimer: reads the array ... *)
ReadCache ==
    /\ At(Caller, "readCache")
    /\ proc' = [proc EXCEPT ![Caller].pc = "addCache", ![Caller].arr = self.cache]
    /\ UNCHANGED <<queue, self, arrays, sources, how, life, ghosts>>

NewArray ==
    /\ arrays' = [arrays EXCEPT ![me.act] = <<me.act>>]
    /\ self' = [self EXCEPT !.cache = me.act]
    /\ UNCHANGED life

(* Slip: every action starts an array of its own. *)
AddCache_Overwrites ==
    /\ At(Caller, "addCache") /\ Goto(Caller, "setHandler")
    /\ NewArray
    /\ UNCHANGED <<queue, sources, how, ghosts>>

(* ... and adds to it, or starts a new one.  An array that is added to     *)
(* while a handler enumerates it may raise NSGenericException.             *)
AddCache ==
    /\ At(Caller, "addCache") /\ Goto(Caller, "setHandler")
    /\ \/ me.arr = NULL /\ NewArray
       \/ /\ me.arr /= NULL
          /\ arrays' = [arrays EXCEPT ![me.arr] = Append(@, me.act)]
          /\ \/ UNCHANGED life
             \/ /\ \E t \in Timers : proc[t].pc = "enumerate" /\ proc[t].arr = me.arr
                /\ life' = "crashed"
          /\ UNCHANGED self
    /\ UNCHANGED <<queue, sources, how, ghosts>>

(* dispatch_source_set_event_handler: the source takes the handler before  *)
(* it fires again.  The call returns, and its action is due.  A handler of *)
(* one action and one of cached actions replace each other.                *)
SetHandler ==
    /\ At(Caller, "setHandler") /\ Finish(Caller)
    /\ sources' = [sources EXCEPT ![me.timer].handler = me.act]
    /\ status' = [b \in Actions |->
         IF b = me.act THEN "due"
         ELSE IF status[b] = "due" /\ "Cancel" \in {how[me.act].option, how[b].option}
              THEN "replaced" ELSE status[b]]
    /\ UNCHANGED <<queue, self, arrays, how, life, runs>>

-----------------------------------------------------------------------------
(* - cancelTimerWithName, called by the thread or by a handler. *)
CancelCall ==
    /\ At(Caller, "idle") /\ Goto(Caller, "cancelRead")
    /\ UNCHANGED <<queue, self, arrays, sources, how, life, ghosts>>

(* When the caller's cancel has returned, all it had scheduled is cancelled. *)
CancelReturns(p) ==
    /\ Finish(p)
    /\ status' = [a \in Actions |->
                    IF p = Caller /\ how[a] /= NULL THEN "cancelled" ELSE status[a]]
    /\ UNCHANGED runs

(* The table is read without the semaphore. *)
CancelRead(p) ==
    /\ At(p, "cancelRead")
    /\ \/ self.timerArry = NULL /\ CancelReturns(p)
       \/ /\ self.timerArry /= NULL
          /\ proc' = [proc EXCEPT ![p].pc = "cancelRemove", ![p].timer = self.timerArry]
          /\ UNCHANGED ghosts
    /\ UNCHANGED <<queue, self, arrays, sources, how, life>>

(* Slip: the removal does not wait for the semaphore. *)
CancelRemove_NoWait(p) ==
    /\ At(p, "cancelRemove") /\ Goto(p, "cancelUncache")
    /\ self' = [self EXCEPT !.timerArry = NULL]
    /\ UNCHANGED <<queue, arrays, sources, how, life, ghosts>>

CancelRemove(p) ==
    /\ At(p, "cancelRemove") /\ Goto(p, "cancelUncache")
    /\ self.semaphore = 1
    /\ self' = [self EXCEPT !.semaphore = 0, !.timerArry = NULL]
    /\ UNCHANGED <<queue, arrays, sources, how, life, ghosts>>

(* Slip: the cached actions outlive the timer. *)
CancelUncache_Kept(p) ==
    /\ At(p, "cancelUncache") /\ Goto(p, "cancelSource")
    /\ UNCHANGED <<queue, self, arrays, sources, how, life, ghosts>>

CancelUncache(p) ==
    /\ At(p, "cancelUncache") /\ Goto(p, "cancelSource")
    /\ self' = [self EXCEPT !.cache = NULL]
    /\ UNCHANGED <<queue, arrays, sources, how, life, ghosts>>

(* Slip: the semaphore is not given back. *)
CancelSource_NoSignal(p) ==
    /\ At(p, "cancelSource") /\ CancelReturns(p)
    /\ sources' = [sources EXCEPT ![proc[p].timer].cancelled = TRUE]
    /\ UNCHANGED <<queue, self, arrays, how, life>>

(* dispatch_source_cancel and the signal. *)
CancelSource(p) ==
    /\ At(p, "cancelSource") /\ CancelReturns(p)
    /\ sources' = [sources EXCEPT ![proc[p].timer].cancelled = TRUE]
    /\ self' = [self EXCEPT !.semaphore = @ + 1]
    /\ UNCHANGED <<queue, arrays, how, life>>

Cancel(p) ==
    CancelRead(p) \/ CancelRemove(p) \/ CancelUncache(p) \/ CancelSource(p)

-----------------------------------------------------------------------------
(* ARC gives a source up when neither the table nor a local refers to it;  *)
(* libdispatch does not invoke it again, as if it had been cancelled.      *)
CanFire(t) ==
    /\ sources[t].made /\ ~sources[t].cancelled /\ sources[t].handler /= NULL
    /\ self.timerArry = t \/ \E p \in Processes : proc[p].timer = t

(* The handler begins on the queue; a source runs it once at a time. *)
Fire(t) ==
    /\ At(t, "idle") /\ CanFire(t)
    /\ LET a == sources[t].handler IN
       proc' = [proc EXCEPT
                  ![t].pc = IF how[a].option = "Cancel" THEN "run" ELSE "fetch",
                  ![t].act = a]
    /\ UNCHANGED <<queue, self, arrays, sources, how, life, ghosts>>

(* Action a runs; nothing is expected of it any more unless it repeats. *)
Runs(a) ==
    /\ runs' = [runs EXCEPT ![a] = IF @ = 2 THEN 2 ELSE @ + 1]
    /\ status' = [status EXCEPT ![a] =
                    IF @ = "due" /\ ~how[a].repeats THEN "done" ELSE @]

(* Slip: a timer that does not repeat is not cancelled. *)
EndHandler_NoCancel(t) == Finish(t)

(* if (!repeats) cancelTimerWithName *)
EndHandler(t) ==
    \/ how[proc[t].act].repeats /\ Finish(t)
    \/ ~how[proc[t].act].repeats /\ Goto(t, "cancelRead")

(* The handler of CancelPreviousTimerAction. *)
RunAction(t) ==
    /\ At(t, "run")
    /\ Runs(proc[t].act)
    /\ EndHandler(t)
    /\ UNCHANGED <<queue, self, arrays, sources, how, life>>

(* The handler of MergePreviousTimerAction: fetch the array, run its       *)
(* actions, remove the array under the name.                               *)
Fetch(t) ==
    /\ At(t, "fetch")
    /\ proc' = [proc EXCEPT ![t].pc = "enumerate", ![t].arr = self.cache, ![t].idx = 1]
    /\ UNCHANGED <<queue, self, arrays, sources, how, life, ghosts>>

(* The actions the handler has still to run (none in nil). *)
ToRun(t) ==
    IF proc[t].arr = NULL THEN << >>
    ELSE SubSeq(arrays[proc[t].arr], proc[t].idx, Len(arrays[proc[t].arr]))

Enumerate(t) ==
    /\ At(t, "enumerate")
    /\ \/ /\ ToRun(t) /= << >>
          /\ Runs(Head(ToRun(t)))
          /\ proc' = [proc EXCEPT ![t].idx = @ + 1]
       \/ /\ ToRun(t) = << >>
          /\ Goto(t, "uncacheRun")
          /\ UNCHANGED ghosts
    /\ UNCHANGED <<queue, self, arrays, sources, how, life>>

UncacheRun(t) ==
    /\ At(t, "uncacheRun")
    /\ EndHandler(t)
    /\ self' = [self EXCEPT !.cache = NULL]
    /\ UNCHANGED <<queue, arrays, sources, how, life, ghosts>>

Handler(t) == RunAction(t) \/ Fetch(t) \/ Enumerate(t) \/ UncacheRun(t) \/ Cancel(t)

-----------------------------------------------------------------------------
(* NSMutableDictionary is not thread safe.  The accesses, by the position  *)
(* of the process that is about to make one; two of one dictionary, one of *)
(* them a write, at the same time may end the program, unless both are     *)
(* under the semaphore.                                                    *)
Reads  == [lookup |-> "timers", cancelRead |-> "timers",
           readCache |-> "actions", fetch |-> "actions"]
Writes == [create |-> "timers", cancelRemove |-> "timers", cancelUncache |-> "actions",
           addCache |-> "actions", uncache |-> "actions", uncacheRun |-> "actions"]

Accesses(p, kind) ==
    {kind[pc] : pc \in {c \in DOMAIN kind :
        /\ c = proc[p].pc
        /\ c \in {"lookup", "cancelRemove"} => self.semaphore = 1
        /\ c = "addCache" => proc[p].arr = NULL
        /\ c \in {"uncache", "uncacheRun"} => self.cache /= NULL}}

Race ==
    /\ life = "live" /\ life' = "crashed"
    /\ \E p \in Processes : \E q \in Processes \ {p} :
          /\ ~({proc[p].pc, proc[q].pc} \subseteq {"lookup", "cancelRemove"})
          /\ Accesses(p, Writes) \cap (Accesses(q, Reads) \cup Accesses(q, Writes)) /= {}
    /\ UNCHANGED <<queue, self, arrays, sources, how, proc, ghosts>>

Call ==
    \/ Lookup \/ Create
    \/ Uncache \/ ReadCache \/ AddCache \/ SetHandler
    \/ Cancel(Caller)

Next ==
    \/ \E option \in Options, repeats \in BOOLEAN : Schedule(option, repeats)
    \/ CancelCall
    \/ Call
    \/ \E t \in Timers : Fire(t) \/ Handler(t)
    \/ Race
    \/ life = "crashed" /\ UNCHANGED vars

(* A call or a handler that has begun goes on; a waiter of the semaphore   *)
(* is not passed over for ever (its port has the policy FIFO).             *)
Spec ==
    /\ Init /\ [][Next]_vars
    /\ WF_vars(Call) /\ SF_vars(Lookup) /\ SF_vars(CancelRemove(Caller))
    /\ \A t \in Timers : WF_vars(Handler(t)) /\ SF_vars(CancelRemove(t))

-----------------------------------------------------------------------------
(* Action a is going to run: the timer in the table runs it when it next   *)
(* fires, or a handler that has begun has still to run it.                 *)
InTable(a) ==
    /\ self.timerArry /= NULL /\ CanFire(self.timerArry)
    /\ LET h == sources[self.timerArry].handler IN
       IF how[h].option = "Cancel" THEN h = a
       ELSE self.cache /= NULL /\ Contains(arrays[self.cache], a)

InHandler(a) ==
    \E t \in Timers :
       \/ proc[t].pc = "run" /\ proc[t].act = a
       \/ proc[t].pc = "enumerate" /\ Contains(ToRun(t), a)

Resting == life = "live" /\ me.pc = "idle"

(* An action that has not run since schedule returned is going to          *)
(* ("时间间隔到点时执行的block"), unless a later call or a cancel took it      *)
(* back: nothing is lost between the look-up of the timer and its use.     *)
NotLost ==
    Resting => \A a \in Actions :
                  status[a] = "due" /\ runs[a] = 0 => InTable(a) \/ InHandler(a)

(* Where the calls and the handlers take turns, on the main queue, that is *)
(* so: no action is lost.                                                  *)
NotLostInTurns == queue = "main" => NotLost

(* An action that was cancelled, or replaced by a later call, does not     *)
(* wait to run, neither as the timer's handler nor in the cache (on the    *)
(* main queue).                                                            *)
CancelledIsGone ==
    queue = "main" /\ Resting =>
       \A a \in Actions : status[a] \in {"cancelled", "replaced"} => ~InTable(a)

(* An action scheduled with repeats = NO runs at most once (on the main    *)
(* queue; on a global one the timer may fire again before its cancel).     *)
RunsOnce == queue = "main" => \A a \in Actions : runs[a] = 2 => how[a].repeats

(* A repeating action ("repeats timer是否循环调用") that has run is going to  *)
(* run again.                                                              *)
RepeatsGoOn ==
    Resting => \A a \in Actions :
                  status[a] = "due" /\ how[a].repeats /\ runs[a] > 0
                     => InTable(a) \/ InHandler(a)

(* Every call of schedule and cancel returns: the semaphore is given back  *)
(* on every path, by the thread and by the handlers.                       *)
CallsReturn == me.pc /= "idle" ~> me.pc = "idle" \/ life = "crashed"

=============================================================================
