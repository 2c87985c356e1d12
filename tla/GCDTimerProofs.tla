--------------------------- MODULE GCDTimerProofs ---------------------------
(***************************************************************************)
(* Proofs about GCDTimer, for any number of timers, actions and calls.     *)
(* The first part holds whatever queue the handlers run on, the second on  *)
(* the main queue, where they and the calls take turns.                    *)
(***************************************************************************)
EXTENDS GCDTimer, FiniteSetTheorems, SequenceTheorems, TLAPS

Pc(p) == proc[p].pc
Option(a) == how[a].option
Scheduled == Actions \ New
Made == {t \in Timers : sources[t].made}

(* The positions of a call that has its timer. *)
Using == {"uncache", "readCache", "addCache", "setHandler"}

Holds(p) == Pc(p) \in {"cancelUncache", "cancelSource"}

Holders == {p \in Processes : Holds(p)}

(* A call is at the side of its option, and whoever is under way has what  *)
(* it works on.                                                            *)
PlaceOf(p) ==
    /\ Pc(p) \in {"idle"} \cup Cancelling \cup (IF p = Caller THEN Calling ELSE Handling)
    /\ Pc(p) = "idle" => proc[p] = Idle
    /\ Pc(p) \in Calling \cup Handling => proc[p].act \in Scheduled
    /\ Pc(p) \in Using \cup (Cancelling \ {"cancelRead"}) => proc[p].timer \in Timers
    /\ Pc(p) = "uncache" => Option(proc[p].act) = "Cancel"
    /\ Pc(p) \in {"readCache", "addCache"} => Option(proc[p].act) = "Merge"
    /\ Pc(p) = "enumerate" => proc[p].idx > 0

PlaceInv == \A p \in Processes : PlaceOf(p)

(* The semaphore is taken while one process cancels, and only then. *)
SemInv ==
    /\ \A p, q \in Holders : p = q
    /\ self.semaphore = 0 <=> Holders /= {}

(* A call makes one source at most. *)
CountInv ==
    /\ Cardinality(Scheduled) <= Schedules[queue]
    /\ Cardinality(Made) <= Cardinality(Scheduled)
    /\ Pc(Caller) \in {"lookup", "create"} => Cardinality(Made) < Cardinality(Scheduled)

(* The arrays hold actions of MergePreviousTimerAction, each once. *)
ArrayInv ==
    \A b \in Actions : \A i \in 1..Len(arrays[b]) :
       LET a == arrays[b][i] IN
       /\ a \in Scheduled /\ Option(a) = "Merge"
       /\ Pc(Caller) \in Calling \ {"setHandler"} => a /= me.act
       /\ \A j \in 1..Len(arrays[b]) : arrays[b][j] = a => i = j

(* Before the call of an action has returned nothing is known of it; and   *)
(* a source has been made before it is used.                               *)
FreshInv ==
    /\ \A a \in Actions : a \notin Scheduled \/ (Pc(Caller) \in Calling /\ me.act = a) =>
          status[a] = "new" /\ \A t \in Timers : sources[t].handler /= a
    /\ \A a \in Actions \ Scheduled : runs[a] = 0
    /\ \A t \in Timers : ~sources[t].made => sources[t].handler = NULL
    /\ Pc(Caller) \in Using => sources[me.timer].made
    /\ self.timerArry /= NULL => sources[self.timerArry].made

AnyQueueInv == TypeOK /\ PlaceInv /\ SemInv /\ CountInv /\ ArrayInv /\ FreshInv

-----------------------------------------------------------------------------
Table == self.timerArry
Handler0 == sources[Table].handler   \* of the timer in the table
InCache(a) == self.cache /= NULL /\ Contains(arrays[self.cache], a)

(* What the timer in the table will run. *)
WillRun(a) ==
    /\ Table /= NULL /\ Handler0 /= NULL
    /\ IF Option(Handler0) = "Cancel" THEN Handler0 = a ELSE InCache(a)

TurnsInv == \A p, q \in Processes : Pc(p) /= "idle" /\ Pc(q) /= "idle" => p = q

(* A call and a handler work on the timer in the table, until they have    *)
(* taken it out.                                                           *)
TableInv ==
    /\ Table /= NULL =>
          /\ sources[Table].made /\ ~sources[Table].cancelled
          /\ Handler0 = NULL => Pc(Caller) \in Using
    /\ \A t \in Timers : sources[t].cancelled => sources[t].made
    /\ Pc(Caller) = "create" => Table = NULL
    /\ Pc(Caller) \in Using => Table = me.timer
    /\ \A p \in Processes :
          /\ Pc(p) = "cancelRemove" => Table = proc[p].timer
          /\ Holds(p) => Table = NULL /\ sources[proc[p].timer].made
    /\ \A t \in Timers :
          /\ Pc(t) \in Handling \cup {"cancelRead", "cancelRemove"} => Table = t
          /\ Pc(t) \in Handling => Handler0 = proc[t].act
          /\ Pc(t) \in Handling => (Pc(t) = "run" <=> Option(proc[t].act) = "Cancel")

(* Actions are cached for the timer in the table, whose handler runs them. *)
CacheInv ==
    /\ self.cache /= NULL /\ Table = NULL => \E p \in Processes : Pc(p) = "cancelUncache"
    /\ self.cache /= NULL /\ Table /= NULL =>
          \/ Handler0 /= NULL /\ Option(Handler0) = "Merge"
          \/ Pc(Caller) = "setHandler"
    /\ Pc(Caller) = "addCache" => me.arr = self.cache
    /\ Pc(Caller) = "setHandler" =>
          IF Option(me.act) = "Cancel" THEN self.cache = NULL ELSE InCache(me.act)
    /\ \A t \in Timers : Pc(t) = "enumerate" => proc[t].arr = self.cache

(* A cached action that a handler has passed. *)
Passed(i) ==
    \E t \in Timers : Pc(t) = "uncacheRun" \/ (Pc(t) = "enumerate" /\ i < proc[t].idx)

(* An action that has run is not run again, but for a repeating one of     *)
(* CancelPreviousTimerAction; and what a handler has passed has run.       *)
RunInv ==
    /\ Pc(Caller) \in Calling => runs[me.act] = 0
    /\ \A a \in Scheduled : Option(a) = "Cancel" /\ ~how[a].repeats /\ runs[a] > 0 =>
          /\ runs[a] = 1
          /\ Table /= NULL /\ Handler0 = a => Pc(Table) \in {"cancelRead", "cancelRemove"}
    /\ \A a \in Scheduled : Option(a) = "Merge" => runs[a] < 2
    /\ self.cache /= NULL =>
          \A i \in 1..Len(arrays[self.cache]) : runs[arrays[self.cache][i]] > 0 <=> Passed(i)

Unrun(a) == status[a] = "due" /\ runs[a] = 0

(* What is due and has not run will be, until a call or a cancel takes it  *)
(* back; when a handler cancels, nothing is.                               *)
DueInv ==
    \A a \in Actions : Unrun(a) =>
       /\ Pc(Caller) \notin {"setHandler", "cancelUncache", "cancelSource"} => WillRun(a)
       /\ Pc(Caller) = "setHandler" /\ Option(me.act) = "Merge" =>
             Option(a) = "Cancel" \/ InCache(a)
       /\ \A t \in Timers : Pc(t) \notin Cancelling

(* What was taken back does not come again. *)
GoneInv ==
    \A a \in Actions : status[a] \in {"cancelled", "replaced"} =>
       ~InCache(a) /\ (Table /= NULL => Handler0 /= a)

MainQueueInv ==
    TurnsInv /\ TableInv /\ CacheInv /\ RunInv /\ DueInv /\ GoneInv

Inv == AnyQueueInv /\ (queue = "main" => MainQueueInv)

-----------------------------------------------------------------------------
(* The caller and the handlers are the processes. *)
LEMMA TheProcesses ==
    /\ Caller \in Processes /\ Caller \notin Timers /\ Timers \subseteq Processes
    /\ \A p \in Processes : p = Caller \/ p \in Timers
    /\ NULL \notin Timers /\ NULL \notin Actions
BY TimerAssumption DEF Processes

(* What has been scheduled. *)
LEMMA Scheduling ==
    /\ Scheduled \subseteq Actions /\ IsFiniteSet(Scheduled)
    /\ \A a \in Actions : a \in Scheduled <=> how[a] /= NULL
    /\ TypeOK => \A a \in Scheduled :
          how[a] \in [option : Options, repeats : BOOLEAN] /\ Option(a) \in Options
<1>1. Scheduled \subseteq Actions  BY DEF Scheduled
<1>2. IsFiniteSet(Scheduled)  BY <1>1, FS_Subset, TimerAssumption
<1>3. \A a \in Actions : a \in Scheduled <=> how[a] /= NULL  BY DEF Scheduled, New
<1>4. ASSUME TypeOK, NEW a \in Scheduled
      PROVE  how[a] \in [option : Options, repeats : BOOLEAN] /\ Option(a) \in Options
  BY <1>1, <1>3, <1>4 DEF TypeOK, Option
<1> QED  BY <1>1, <1>2, <1>3, <1>4

(* A schedule takes a block that was not scheduled before. *)
LEMMA ScheduleTakesNew ==
    ASSUME TypeOK, NEW option \in Options, NEW repeats \in BOOLEAN, Schedule(option, repeats)
    PROVE  \E a \in Actions \ Scheduled :
              /\ how' = [how EXCEPT ![a] = [option |-> option, repeats |-> repeats]]
              /\ proc' = [proc EXCEPT ![Caller].pc = "lookup", ![Caller].act = a]
              /\ Scheduled' = Scheduled \cup {a}
<1>1. Cardinality(Scheduled) < Schedules[queue]  BY DEF Schedule, Scheduled
<1>2. Schedules[queue] \in 0..Cardinality(Actions) /\ Cardinality(Actions) \in Nat
      /\ Cardinality(Scheduled) \in Nat
  BY Scheduling, FS_CardinalityType, TimerAssumption DEF TypeOK
<1>3. Scheduled /= Actions  BY <1>1, <1>2
<1>4. New /= {} /\ New = Actions \ Scheduled  BY <1>3 DEF Scheduled, New
<1> DEFINE a == CHOOSE b \in New : TRUE
<1>5. a \in New  BY <1>4
<1>6. /\ how' = [how EXCEPT ![a] = [option |-> option, repeats |-> repeats]]
      /\ proc' = [proc EXCEPT ![Caller].pc = "lookup", ![Caller].act = a]
  BY DEF Schedule
<1> HIDE DEF a
<1>7. [option |-> option, repeats |-> repeats] /= NULL
  BY TimerAssumption
<1>8. New' = New \ {a}
  BY <1>5, <1>6, <1>7 DEF New, TypeOK
<1>9. Scheduled' = Scheduled \cup {a}  BY <1>4, <1>5, <1>8 DEF Scheduled
<1> QED  BY <1>4, <1>5, <1>6, <1>9

(* A create takes a source that is not made yet. *)
LEMMA CreateTakesNew ==
    ASSUME AnyQueueInv, Create
    PROVE  \E t \in Timers \ Made :
              /\ sources' = [sources EXCEPT ![t].made = TRUE]
              /\ self' = [self EXCEPT !.timerArry = t]
              /\ proc' = [proc EXCEPT ![Caller].pc = ByOption, ![Caller].timer = t]
              /\ Made' = Made \cup {t}
<1>1. Cardinality(Made) < Cardinality(Scheduled) /\ Cardinality(Scheduled) <= Schedules[queue]
  BY DEF AnyQueueInv, CountInv, Create, At, Pc
<1>2. Schedules[queue] \in 0..Cardinality(Timers) /\ Cardinality(Timers) \in Nat
      /\ Cardinality(Scheduled) \in Nat
  BY Scheduling, FS_CardinalityType, TimerAssumption DEF AnyQueueInv, TypeOK
<1>3. Made \subseteq Timers /\ IsFiniteSet(Made) /\ Cardinality(Made) \in Nat
  BY FS_Subset, FS_CardinalityType, TimerAssumption DEF Made
<1>4. Made /= Timers  BY <1>1, <1>2, <1>3
<1>5. \E s \in Timers : ~sources[s].made  BY <1>3, <1>4 DEF Made
<1> DEFINE t == CHOOSE s \in Timers : ~sources[s].made
<1>6. t \in Timers /\ ~sources[t].made  BY <1>5
<1>7. /\ sources' = [sources EXCEPT ![t].made = TRUE]
      /\ self' = [self EXCEPT !.timerArry = t]
      /\ proc' = [proc EXCEPT ![Caller].pc = ByOption, ![Caller].timer = t]
  BY DEF Create
<1> HIDE DEF t
<1>8. Made' = Made \cup {t}
  BY <1>6, <1>7 DEF Made, AnyQueueInv, TypeOK
<1> QED  BY <1>6, <1>7, <1>8 DEF Made

(* The call goes on at the side of its option. *)
LEMMA Sides ==
    ASSUME TypeOK, PlaceInv, Pc(Caller) \in Calling
    PROVE  /\ me.act \in Scheduled
           /\ \/ Option(me.act) = "Cancel" /\ ByOption = "uncache"
              \/ Option(me.act) = "Merge" /\ ByOption = "readCache"
BY Scheduling, TheProcesses DEF PlaceInv, PlaceOf, ByOption, Option, Options, me

Positions == {"idle"} \cup Calling \cup Cancelling \cup Handling

Locals == [pc : Positions, timer : Timers \cup {NULL},
           act : Actions \cup {NULL}, arr : Actions \cup {NULL}, idx : Nat]

(* A step of process p changes its position and locals only. *)
Moves(p, pc, timer, act, arr, idx) ==
    proc' = [proc EXCEPT ![p] = [pc |-> pc, timer |-> timer, act |-> act,
                                 arr |-> arr, idx |-> idx]]

(* What the ways to write it mean. *)
LEMMA Moving ==
    ASSUME TypeOK, NEW p \in Processes
    PROVE  LET m == proc[p] IN
           /\ \A to : Goto(p, to) => Moves(p, to, m.timer, m.act, m.arr, m.idx)
           /\ Finish(p) => Moves(p, "idle", NULL, NULL, NULL, 0)
           /\ \A to, t : proc' = [proc EXCEPT ![p].pc = to, ![p].timer = t] =>
                             Moves(p, to, t, m.act, m.arr, m.idx)
           /\ \A to, a : proc' = [proc EXCEPT ![p].pc = to, ![p].act = a] =>
                             Moves(p, to, m.timer, a, m.arr, m.idx)
           /\ \A to, b : proc' = [proc EXCEPT ![p].pc = to, ![p].arr = b] =>
                             Moves(p, to, m.timer, m.act, b, m.idx)
           /\ \A to, b, i : proc' = [proc EXCEPT ![p].pc = to, ![p].arr = b, ![p].idx = i] =>
                             Moves(p, to, m.timer, m.act, b, i)
           /\ \A i : proc' = [proc EXCEPT ![p].idx = i] =>
                             Moves(p, m.pc, m.timer, m.act, m.arr, i)
<1> DEFINE m == proc[p]
<1>0. /\ proc \in [Processes -> Locals]
      /\ m = [pc |-> m.pc, timer |-> m.timer, act |-> m.act, arr |-> m.arr, idx |-> m.idx]
  BY DEF TypeOK, Locals, Positions
<1> USE DEF Moves
<1>1. ASSUME NEW to, Goto(p, to) PROVE Moves(p, to, m.timer, m.act, m.arr, m.idx)
  <2>1. [m EXCEPT !.pc = to] =
           [pc |-> to, timer |-> m.timer, act |-> m.act, arr |-> m.arr, idx |-> m.idx]
    BY <1>0 DEF Locals
  <2>2. proc' = [proc EXCEPT ![p] = [m EXCEPT !.pc = to]]  BY <1>1 DEF Goto
  <2> QED  BY <2>1, <2>2
<1>2. Finish(p) => Moves(p, "idle", NULL, NULL, NULL, 0)
  BY DEF Finish, Idle
<1>3. ASSUME NEW to, NEW t, proc' = [proc EXCEPT ![p].pc = to, ![p].timer = t]
      PROVE  Moves(p, to, t, m.act, m.arr, m.idx)
  <2>1. [m EXCEPT !.pc = to, !.timer = t] =
           [pc |-> to, timer |-> t, act |-> m.act, arr |-> m.arr, idx |-> m.idx]
    <3>1. [m EXCEPT !.pc = to] =
             [pc |-> to, timer |-> m.timer, act |-> m.act, arr |-> m.arr, idx |-> m.idx]
      BY <1>0
    <3>2. [[pc |-> to, timer |-> m.timer, act |-> m.act, arr |-> m.arr, idx |-> m.idx] EXCEPT !.timer = t] =
             [pc |-> to, timer |-> t, act |-> m.act, arr |-> m.arr, idx |-> m.idx]
      BY <1>0
    <3> QED  BY <1>0, <3>1, <3>2
  <2>2. proc' = [proc EXCEPT ![p] = [m EXCEPT !.pc = to, !.timer = t]]  BY <1>3
  <2> QED  BY <2>1, <2>2
<1>4. ASSUME NEW to, NEW a, proc' = [proc EXCEPT ![p].pc = to, ![p].act = a]
      PROVE  Moves(p, to, m.timer, a, m.arr, m.idx)
  <2>1. [m EXCEPT !.pc = to, !.act = a] =
           [pc |-> to, timer |-> m.timer, act |-> a, arr |-> m.arr, idx |-> m.idx]
    <3>1. [m EXCEPT !.pc = to] =
             [pc |-> to, timer |-> m.timer, act |-> m.act, arr |-> m.arr, idx |-> m.idx]
      BY <1>0
    <3>2. [[pc |-> to, timer |-> m.timer, act |-> m.act, arr |-> m.arr, idx |-> m.idx] EXCEPT !.act = a] =
             [pc |-> to, timer |-> m.timer, act |-> a, arr |-> m.arr, idx |-> m.idx]
      BY <1>0
    <3> QED  BY <1>0, <3>1, <3>2
  <2>2. proc' = [proc EXCEPT ![p] = [m EXCEPT !.pc = to, !.act = a]]  BY <1>4
  <2> QED  BY <2>1, <2>2
<1>5. ASSUME NEW to, NEW b, proc' = [proc EXCEPT ![p].pc = to, ![p].arr = b]
      PROVE  Moves(p, to, m.timer, m.act, b, m.idx)
  <2>1. [m EXCEPT !.pc = to, !.arr = b] =
           [pc |-> to, timer |-> m.timer, act |-> m.act, arr |-> b, idx |-> m.idx]
    <3>1. [m EXCEPT !.pc = to] =
             [pc |-> to, timer |-> m.timer, act |-> m.act, arr |-> m.arr, idx |-> m.idx]
      BY <1>0
    <3>2. [[pc |-> to, timer |-> m.timer, act |-> m.act, arr |-> m.arr, idx |-> m.idx] EXCEPT !.arr = b] =
             [pc |-> to, timer |-> m.timer, act |-> m.act, arr |-> b, idx |-> m.idx]
      BY <1>0
    <3> QED  BY <1>0, <3>1, <3>2
  <2>2. proc' = [proc EXCEPT ![p] = [m EXCEPT !.pc = to, !.arr = b]]  BY <1>5
  <2> QED  BY <2>1, <2>2
<1>6. ASSUME NEW to, NEW b, NEW i, proc' = [proc EXCEPT ![p].pc = to, ![p].arr = b, ![p].idx = i]
      PROVE  Moves(p, to, m.timer, m.act, b, i)
  <2>1. [m EXCEPT !.pc = to, !.arr = b, !.idx = i] =
           [pc |-> to, timer |-> m.timer, act |-> m.act, arr |-> b, idx |-> i]
    <3>1. [m EXCEPT !.pc = to] =
             [pc |-> to, timer |-> m.timer, act |-> m.act, arr |-> m.arr, idx |-> m.idx]
      BY <1>0
    <3>2. [[pc |-> to, timer |-> m.timer, act |-> m.act, arr |-> m.arr, idx |-> m.idx] EXCEPT !.arr = b] =
             [pc |-> to, timer |-> m.timer, act |-> m.act, arr |-> b, idx |-> m.idx]
      BY <1>0
    <3>3. [[pc |-> to, timer |-> m.timer, act |-> m.act, arr |-> b, idx |-> m.idx] EXCEPT !.idx = i] =
             [pc |-> to, timer |-> m.timer, act |-> m.act, arr |-> b, idx |-> i]
      BY <1>0
    <3> QED  BY <1>0, <3>1, <3>2, <3>3
  <2>2. proc' = [proc EXCEPT ![p] = [m EXCEPT !.pc = to, !.arr = b, !.idx = i]]  BY <1>6
  <2> QED  BY <2>1, <2>2
<1>7. ASSUME NEW i, proc' = [proc EXCEPT ![p].idx = i]
      PROVE  Moves(p, m.pc, m.timer, m.act, m.arr, i)
  <2>1. [m EXCEPT !.idx = i] =
           [pc |-> m.pc, timer |-> m.timer, act |-> m.act, arr |-> m.arr, idx |-> i]
    BY <1>0
  <2>2. proc' = [proc EXCEPT ![p] = [m EXCEPT !.idx = i]]  BY <1>7
  <2> QED  BY <2>1, <2>2
<1> HIDE DEF m, Moves
<1> QED  BY <1>1, <1>2, <1>3, <1>4, <1>5, <1>6, <1>7 DEF m

(* Process p goes on from a position, and the others stay. *)
Goes(p, from, to, timer, act, arr, idx) ==
    /\ Pc(p) = from /\ Pc(p)' = to /\ to \in Positions
    /\ proc' \in [Processes -> Locals]
    /\ proc'[p] = [pc |-> to, timer |-> timer, act |-> act, arr |-> arr, idx |-> idx]
    /\ \A q \in Processes : q /= p => proc'[q] = proc[q] /\ Pc(q)' = Pc(q)

(* Where a process that moves goes to, and what it takes along.            *)
LEMMA Going ==
    ASSUME TypeOK, NEW p \in Processes, NEW pc \in Positions,
           NEW timer \in Timers \cup {NULL}, NEW act \in Actions \cup {NULL},
           NEW arr \in Actions \cup {NULL}, NEW idx \in Nat,
           Moves(p, pc, timer, act, arr, idx)
    PROVE  Goes(p, Pc(p), pc, timer, act, arr, idx)
<1>1. proc \in [Processes -> Locals]  BY DEF TypeOK, Locals, Positions
<1> DEFINE r == [pc |-> pc, timer |-> timer, act |-> act, arr |-> arr, idx |-> idx]
<1>2. r \in Locals /\ r.pc = pc  BY DEF Locals
<1>3. proc' = [proc EXCEPT ![p] = r]  BY DEF Moves
<1> HIDE DEF r
<1>4. proc' \in [Processes -> Locals] /\ proc'[p] = r
      /\ \A q \in Processes : q /= p => proc'[q] = proc[q]
  BY <1>1, <1>2, <1>3
<1>5. \A q \in Processes : q /= p => Pc(q)' = Pc(q)  BY <1>4 DEF Pc
<1>6. Pc(p)' = pc  BY <1>2, <1>4 DEF Pc
<1> QED  BY <1>4, <1>5, <1>6 DEF r, Goes

(* The steps of the calls. *)
LEMMA CallGoes ==
    ASSUME AnyQueueInv
    PROVE  /\ CancelCall => Goes(Caller, "idle", "cancelRead", NULL, NULL, NULL, 0)
           /\ Lookup => Goes(Caller, "lookup", IF Table = NULL THEN "create" ELSE ByOption,
                             Table, me.act, me.arr, me.idx)
           /\ \A t \in Timers :
                 Create /\ proc' = [proc EXCEPT ![Caller].pc = ByOption, ![Caller].timer = t] =>
                    Goes(Caller, "create", ByOption, t, me.act, me.arr, me.idx)
           /\ Uncache => Goes(Caller, "uncache", "setHandler", me.timer, me.act, me.arr, me.idx)
           /\ ReadCache =>
                 Goes(Caller, "readCache", "addCache", me.timer, me.act, self.cache, me.idx)
           /\ AddCache => Goes(Caller, "addCache", "setHandler", me.timer, me.act, me.arr, me.idx)
           /\ SetHandler => Goes(Caller, "setHandler", "idle", NULL, NULL, NULL, 0)
<1>1. TypeOK /\ PlaceInv  BY DEF AnyQueueInv
<1>2. /\ {"idle", "create", "uncache", "readCache", "addCache", "setHandler", "cancelRead"}
            \subseteq Positions
      /\ me = proc[Caller] /\ Caller \in Processes /\ 0 \in Nat
      /\ NULL \in Timers \cup {NULL} /\ NULL \in Actions \cup {NULL}
      /\ me.timer \in Timers \cup {NULL} /\ me.act \in Actions \cup {NULL}
      /\ me.arr \in Actions \cup {NULL} /\ me.idx \in Nat
      /\ Table \in Timers \cup {NULL} /\ self.cache \in Actions \cup {NULL}
      /\ ByOption \in {"uncache", "readCache"}
  BY <1>1, TheProcesses DEF TypeOK, Positions, Calling, Cancelling, me, Table, ByOption
<1>3. /\ Pc(Caller) = me.pc
      /\ me.pc = "idle" => me.timer = NULL /\ me.act = NULL /\ me.arr = NULL /\ me.idx = 0
  BY <1>1, <1>2 DEF PlaceInv, PlaceOf, Pc, Idle
<1>4. ASSUME CancelCall PROVE Goes(Caller, "idle", "cancelRead", NULL, NULL, NULL, 0)
  <2>1. Goto(Caller, "cancelRead") /\ me.pc = "idle"
    BY <1>4 DEF CancelCall, At, me
  <2>2. Moves(Caller, "cancelRead", NULL, NULL, NULL, 0)
    BY <1>1, <1>2, <1>3, <2>1, Moving
  <2> QED  BY <1>1, <1>2, <1>3, <2>1, <2>2, Going
<1>5. ASSUME Lookup
      PROVE  Goes(Caller, "lookup", IF Table = NULL THEN "create" ELSE ByOption,
                  Table, me.act, me.arr, me.idx)
  <2> DEFINE to == IF Table = NULL THEN "create" ELSE ByOption
  <2>1. me.pc = "lookup" /\ to \in Positions
        /\ proc' = [proc EXCEPT ![Caller].pc = to, ![Caller].timer = Table]
    BY <1>2, <1>5 DEF Lookup, At, me, Table
  <2> HIDE DEF to
  <2>2. Moves(Caller, to, Table, me.act, me.arr, me.idx)
    BY <1>1, <1>2, <2>1, Moving
  <2>3. Goes(Caller, Pc(Caller), to, Table, me.act, me.arr, me.idx)
    BY <1>1, <1>2, <2>1, <2>2, Going
  <2> QED  BY <1>3, <2>1, <2>3 DEF to
<1>6. ASSUME NEW t \in Timers, Create,
             proc' = [proc EXCEPT ![Caller].pc = ByOption, ![Caller].timer = t]
      PROVE  Goes(Caller, "create", ByOption, t, me.act, me.arr, me.idx)
  <2>1. me.pc = "create" /\ ByOption \in Positions  BY <1>2, <1>6 DEF Create, At, me
  <2>2. Moves(Caller, ByOption, t, me.act, me.arr, me.idx)
    BY <1>1, <1>2, <1>6, Moving
  <2>3. Goes(Caller, Pc(Caller), ByOption, t, me.act, me.arr, me.idx)
    BY <1>1, <1>2, <2>1, <2>2, Going
  <2> QED  BY <1>3, <2>1, <2>3
<1>7. ASSUME Uncache
      PROVE  Goes(Caller, "uncache", "setHandler", me.timer, me.act, me.arr, me.idx)
  <2>1. me.pc = "uncache" /\ Goto(Caller, "setHandler")  BY <1>7 DEF Uncache, At, me
  <2>2. Moves(Caller, "setHandler", me.timer, me.act, me.arr, me.idx)
    BY <1>1, <1>2, <2>1, Moving
  <2> QED  BY <1>1, <1>2, <1>3, <2>1, <2>2, Going, ZenonT(60)
<1>8. ASSUME ReadCache
      PROVE  Goes(Caller, "readCache", "addCache", me.timer, me.act, self.cache, me.idx)
  <2>1. /\ me.pc = "readCache"
        /\ proc' = [proc EXCEPT ![Caller].pc = "addCache", ![Caller].arr = self.cache]
    BY <1>8 DEF ReadCache, At, me
  <2>2. Moves(Caller, "addCache", me.timer, me.act, self.cache, me.idx)
    BY <1>1, <1>2, <2>1, Moving
  <2>3. Goes(Caller, Pc(Caller), "addCache", me.timer, me.act, self.cache, me.idx)
    BY <1>1, <1>2, <2>2, Going
  <2> QED  BY <1>3, <2>1, <2>3
<1>9. ASSUME AddCache
      PROVE  Goes(Caller, "addCache", "setHandler", me.timer, me.act, me.arr, me.idx)
  <2>1. me.pc = "addCache" /\ Goto(Caller, "setHandler")  BY <1>9 DEF AddCache, At, me
  <2>2. Moves(Caller, "setHandler", me.timer, me.act, me.arr, me.idx)
    BY <1>1, <1>2, <2>1, Moving
  <2> QED  BY <1>1, <1>2, <1>3, <2>1, <2>2, Going, ZenonT(60)
<1>10. ASSUME SetHandler PROVE Goes(Caller, "setHandler", "idle", NULL, NULL, NULL, 0)
  <2>1. me.pc = "setHandler" /\ Finish(Caller)  BY <1>10 DEF SetHandler, At, me
  <2>2. Moves(Caller, "idle", NULL, NULL, NULL, 0)
    BY <1>1, <1>2, <2>1, Moving
  <2>3. Goes(Caller, Pc(Caller), "idle", NULL, NULL, NULL, 0)
    BY <1>1, <1>2, <2>2, Going
  <2> QED  BY <1>3, <2>1, <2>3
<1> QED  BY <1>4, <1>5, <1>6, <1>7, <1>8, <1>9, <1>10

(* The steps of a cancel, by the caller or by a handler. *)
LEMMA CancelGoes ==
    ASSUME AnyQueueInv, NEW p \in Processes
    PROVE  LET m == proc[p] IN
           /\ CancelRead(p) =>
                 \/ /\ Table = NULL /\ CancelReturns(p)
                    /\ Goes(p, "cancelRead", "idle", NULL, NULL, NULL, 0)
                 \/ /\ Table /= NULL /\ UNCHANGED ghosts
                    /\ Goes(p, "cancelRead", "cancelRemove", Table, m.act, m.arr, m.idx)
           /\ CancelRemove(p) =>
                 Goes(p, "cancelRemove", "cancelUncache", m.timer, m.act, m.arr, m.idx)
           /\ CancelUncache(p) =>
                 Goes(p, "cancelUncache", "cancelSource", m.timer, m.act, m.arr, m.idx)
           /\ CancelSource(p) => Goes(p, "cancelSource", "idle", NULL, NULL, NULL, 0)
<1> DEFINE m == proc[p]
<1>1. TypeOK /\ PlaceInv  BY DEF AnyQueueInv
<1>2. /\ {"idle"} \cup Cancelling \subseteq Positions
      /\ NULL \in Timers \cup {NULL} /\ NULL \in Actions \cup {NULL} /\ 0 \in Nat
      /\ m.timer \in Timers \cup {NULL} /\ m.act \in Actions \cup {NULL}
      /\ m.arr \in Actions \cup {NULL} /\ m.idx \in Nat
      /\ Table \in Timers \cup {NULL} /\ Pc(p) = m.pc
  BY <1>1 DEF TypeOK, Positions, Table, Pc
<1>3. {"idle", "cancelRemove", "cancelUncache", "cancelSource"} \subseteq Positions
  BY <1>2 DEF Cancelling
<1>4. ASSUME CancelRead(p)
      PROVE  \/ /\ Table = NULL /\ CancelReturns(p)
                /\ Goes(p, "cancelRead", "idle", NULL, NULL, NULL, 0)
             \/ /\ Table /= NULL /\ UNCHANGED ghosts
                /\ Goes(p, "cancelRead", "cancelRemove", Table, m.act, m.arr, m.idx)
  <2>1. m.pc = "cancelRead"  BY <1>4 DEF CancelRead, At
  <2>2. CASE Table = NULL /\ CancelReturns(p)
    <3>1. Finish(p)  BY <2>2 DEF CancelReturns
    <3>2. Moves(p, "idle", NULL, NULL, NULL, 0)  BY <1>1, <3>1, Moving
    <3>3. Goes(p, Pc(p), "idle", NULL, NULL, NULL, 0)  BY <1>1, <1>2, <1>3, <3>2, Going
    <3> QED  BY <1>2, <2>1, <2>2, <3>3
  <2>3. CASE /\ Table /= NULL /\ UNCHANGED ghosts
             /\ proc' = [proc EXCEPT ![p].pc = "cancelRemove", ![p].timer = Table]
    <3>1. Moves(p, "cancelRemove", Table, m.act, m.arr, m.idx)  BY <1>1, <2>3, Moving
    <3>2. Goes(p, Pc(p), "cancelRemove", Table, m.act, m.arr, m.idx)
      BY <1>1, <1>2, <1>3, <3>1, Going
    <3> QED  BY <1>2, <2>1, <2>3, <3>2
  <2> QED  BY <1>4, <2>2, <2>3 DEF CancelRead, Table
<1>5. ASSUME NEW from, NEW to \in Positions, m.pc = from, Goto(p, to)
      PROVE  Goes(p, from, to, m.timer, m.act, m.arr, m.idx)
  <2>1. Moves(p, to, m.timer, m.act, m.arr, m.idx)  BY <1>1, <1>5, Moving
  <2>2. Goes(p, Pc(p), to, m.timer, m.act, m.arr, m.idx)  BY <1>1, <1>2, <2>1, Going
  <2> QED  BY <1>2, <1>5, <2>2
<1>6. CancelRemove(p) => Goes(p, "cancelRemove", "cancelUncache", m.timer, m.act, m.arr, m.idx)
  BY <1>3, <1>5 DEF CancelRemove, At
<1>7. CancelUncache(p) => Goes(p, "cancelUncache", "cancelSource", m.timer, m.act, m.arr, m.idx)
  BY <1>3, <1>5 DEF CancelUncache, At
<1>8. ASSUME CancelSource(p) PROVE Goes(p, "cancelSource", "idle", NULL, NULL, NULL, 0)
  <2>1. Finish(p) /\ m.pc = "cancelSource"  BY <1>8 DEF CancelSource, CancelReturns, At
  <2>2. Moves(p, "idle", NULL, NULL, NULL, 0)  BY <1>1, <2>1, Moving
  <2>3. Goes(p, Pc(p), "idle", NULL, NULL, NULL, 0)  BY <1>1, <1>2, <1>3, <2>2, Going
  <2> QED  BY <1>2, <2>1, <2>3
<1> QED  BY <1>4, <1>6, <1>7, <1>8

(* The steps of a handler. *)
LEMMA HandlerGoes ==
    ASSUME AnyQueueInv, NEW t \in Timers
    PROVE  LET m == proc[t] IN
           /\ Fire(t) =>
                 /\ sources[t].handler \in Actions
                 /\ Goes(t, "idle",
                         IF Option(sources[t].handler) = "Cancel" THEN "run" ELSE "fetch",
                         NULL, sources[t].handler, NULL, 0)
           /\ \A from : m.pc = from /\ EndHandler(t) =>
                 \/ how[m.act].repeats /\ Goes(t, from, "idle", NULL, NULL, NULL, 0)
                 \/ /\ ~how[m.act].repeats
                    /\ Goes(t, from, "cancelRead", m.timer, m.act, m.arr, m.idx)
           /\ Fetch(t) => Goes(t, "fetch", "enumerate", m.timer, m.act, self.cache, 1)
           /\ Enumerate(t) =>
                 \/ /\ ToRun(t) /= << >> /\ Runs(Head(ToRun(t)))
                    /\ Goes(t, "enumerate", "enumerate", m.timer, m.act, m.arr, m.idx + 1)
                 \/ /\ ToRun(t) = << >> /\ UNCHANGED ghosts
                    /\ Goes(t, "enumerate", "uncacheRun", m.timer, m.act, m.arr, m.idx)
<1> DEFINE m == proc[t]
<1>1. TypeOK /\ PlaceInv  BY DEF AnyQueueInv
<1>2. /\ {"idle", "run", "fetch", "enumerate", "uncacheRun", "cancelRead"} \subseteq Positions
      /\ NULL \in Timers \cup {NULL} /\ NULL \in Actions \cup {NULL} /\ 0 \in Nat
      /\ t \in Processes
      /\ m.timer \in Timers \cup {NULL} /\ m.act \in Actions \cup {NULL}
      /\ m.arr \in Actions \cup {NULL} /\ m.idx \in Nat /\ m.idx + 1 \in Nat
      /\ self.cache \in Actions \cup {NULL} /\ Pc(t) = m.pc
  BY <1>1, TheProcesses DEF TypeOK, Positions, Handling, Cancelling, Pc
<1>3. ASSUME Fire(t)
      PROVE  /\ sources[t].handler \in Actions
             /\ Goes(t, "idle",
                     IF Option(sources[t].handler) = "Cancel" THEN "run" ELSE "fetch",
                     NULL, sources[t].handler, NULL, 0)
  <2> DEFINE a == sources[t].handler
             to == IF Option(a) = "Cancel" THEN "run" ELSE "fetch"
  <2>1. m.pc = "idle" /\ a /= NULL /\ proc' = [proc EXCEPT ![t].pc = to, ![t].act = a]
    BY <1>3 DEF Fire, CanFire, At, Option
  <2>2. a \in Actions /\ to \in Positions  BY <1>1, <1>2, <2>1 DEF TypeOK
  <2>3. m.timer = NULL /\ m.arr = NULL /\ m.idx = 0
    BY <1>1, <1>2, <2>1 DEF PlaceInv, PlaceOf, Idle
  <2> HIDE DEF a, to
  <2>4. Moves(t, to, m.timer, a, m.arr, m.idx)  BY <1>1, <1>2, <2>1, Moving
  <2>5. Moves(t, to, NULL, a, NULL, 0)  BY <2>3, <2>4
  <2>6. Goes(t, Pc(t), to, NULL, a, NULL, 0)  BY <1>1, <1>2, <2>2, <2>5, Going
  <2> QED  BY <1>2, <2>1, <2>2, <2>6 DEF to, a
<1>4. ASSUME NEW from, NEW to \in Positions, m.pc = from, Goto(t, to)
      PROVE  Goes(t, from, to, m.timer, m.act, m.arr, m.idx)
  <2>1. Moves(t, to, m.timer, m.act, m.arr, m.idx)  BY <1>1, <1>2, <1>4, Moving
  <2>2. Goes(t, Pc(t), to, m.timer, m.act, m.arr, m.idx)  BY <1>1, <1>2, <2>1, Going
  <2> QED  BY <1>2, <1>4, <2>2
<1>5. ASSUME NEW from, m.pc = from, EndHandler(t)
      PROVE  \/ how[m.act].repeats /\ Goes(t, from, "idle", NULL, NULL, NULL, 0)
             \/ /\ ~how[m.act].repeats
                /\ Goes(t, from, "cancelRead", m.timer, m.act, m.arr, m.idx)
  <2>1. CASE how[m.act].repeats /\ Finish(t)
    <3>1. Moves(t, "idle", NULL, NULL, NULL, 0)  BY <1>1, <1>2, <2>1, Moving
    <3>2. Goes(t, Pc(t), "idle", NULL, NULL, NULL, 0)  BY <1>1, <1>2, <3>1, Going
    <3> QED  BY <1>2, <1>5, <2>1, <3>2
  <2>2. CASE ~how[m.act].repeats /\ Goto(t, "cancelRead")
    <3>1. Goes(t, from, "cancelRead", m.timer, m.act, m.arr, m.idx)  BY <1>2, <1>4, <1>5, <2>2
    <3> QED  BY <2>2, <3>1
  <2> QED  BY <1>5, <2>1, <2>2 DEF EndHandler
<1>6. ASSUME Fetch(t) PROVE Goes(t, "fetch", "enumerate", m.timer, m.act, self.cache, 1)
  <2>1. /\ m.pc = "fetch"
        /\ proc' = [proc EXCEPT ![t].pc = "enumerate", ![t].arr = self.cache, ![t].idx = 1]
    BY <1>6 DEF Fetch, At
  <2>2. Moves(t, "enumerate", m.timer, m.act, self.cache, 1)  BY <1>1, <1>2, <2>1, Moving
  <2>3. Goes(t, Pc(t), "enumerate", m.timer, m.act, self.cache, 1)
    BY <1>1, <1>2, <2>2, Going
  <2> QED  BY <1>2, <2>1, <2>3
<1>7. ASSUME Enumerate(t)
      PROVE  \/ /\ ToRun(t) /= << >> /\ Runs(Head(ToRun(t)))
                /\ Goes(t, "enumerate", "enumerate", m.timer, m.act, m.arr, m.idx + 1)
             \/ /\ ToRun(t) = << >> /\ UNCHANGED ghosts
                /\ Goes(t, "enumerate", "uncacheRun", m.timer, m.act, m.arr, m.idx)
  <2>1. m.pc = "enumerate"  BY <1>7 DEF Enumerate, At
  <2>2. CASE /\ ToRun(t) /= << >> /\ Runs(Head(ToRun(t)))
             /\ proc' = [proc EXCEPT ![t].idx = m.idx + 1]
    <3>1. Moves(t, m.pc, m.timer, m.act, m.arr, m.idx + 1)  BY <1>1, <1>2, <2>2, Moving
    <3>2. Goes(t, Pc(t), "enumerate", m.timer, m.act, m.arr, m.idx + 1)
      BY <1>1, <1>2, <2>1, <3>1, Going
    <3> QED  BY <1>2, <2>1, <2>2, <3>2
  <2>3. CASE ToRun(t) = << >> /\ UNCHANGED ghosts /\ Goto(t, "uncacheRun")
    <3>1. Goes(t, "enumerate", "uncacheRun", m.timer, m.act, m.arr, m.idx)
      BY <1>2, <1>4, <2>1, <2>3
    <3> QED  BY <2>3, <3>1
  <2> QED  BY <1>7, <2>2, <2>3 DEF Enumerate
<1> QED  BY <1>3, <1>5, <1>6, <1>7

(* The other processes keep their places. *)
LEMMA PlaceKept ==
    ASSUME PlaceInv, NEW p \in Processes,
           \A q \in Processes : q /= p => proc'[q] = proc[q] /\ Pc(q)' = Pc(q),
           Scheduled \subseteq Scheduled', \A a \in Scheduled : how'[a] = how[a],
           PlaceOf(p)'
    PROVE  PlaceInv'
<1>1. ASSUME NEW q \in Processes, q /= p PROVE PlaceOf(q)'
  <2>1. PlaceOf(q) /\ proc'[q] = proc[q] /\ Pc(q)' = Pc(q)
    BY <1>1 DEF PlaceInv
  <2>2. Pc(q) \in Calling \cup Handling => Option(proc[q].act)' = Option(proc[q].act)
    BY <2>1 DEF PlaceOf, Option
  <2>3. {"uncache", "readCache", "addCache"} \subseteq Calling  BY DEF Calling
  <2> QED  BY <2>1, <2>2, <2>3 DEF PlaceOf
<1> QED  BY <1>1 DEF PlaceInv

(* A step other than a schedule leaves what has been scheduled alone. *)
LEMMA PlaceOfMover ==
    ASSUME AnyQueueInv, UNCHANGED how, NEW p \in Processes,
           NEW from, NEW to, NEW timer, NEW act, NEW arr, NEW idx,
           Goes(p, from, to, timer, act, arr, idx),
           to \in {"idle"} \cup Cancelling \cup (IF p = Caller THEN Calling ELSE Handling),
           to = "idle" => timer = NULL /\ act = NULL /\ arr = NULL /\ idx = 0,
           to \in Calling \cup Handling => act \in Scheduled,
           to \in Using \cup (Cancelling \ {"cancelRead"}) => timer \in Timers,
           to = "uncache" => Option(act) = "Cancel",
           to \in {"readCache", "addCache"} => Option(act) = "Merge",
           to = "enumerate" => idx > 0
    PROVE  PlaceInv'
<1>1. PlaceInv  BY DEF AnyQueueInv
<1>2. Scheduled' = Scheduled /\ Option(act)' = Option(act)  BY DEF Scheduled, New, Option
<1>3. /\ Pc(p)' = to
      /\ proc'[p] = [pc |-> to, timer |-> timer, act |-> act, arr |-> arr, idx |-> idx]
      /\ \A q \in Processes : q /= p => proc'[q] = proc[q] /\ Pc(q)' = Pc(q)
  BY DEF Goes
<1>4. proc'[p].act = act /\ proc'[p].timer = timer /\ proc'[p].idx = idx  BY <1>3
<1>5. to = "idle" => proc'[p] = Idle  BY <1>3 DEF Idle
<1>6. Option(proc[p].act)' = Option(act)  BY <1>2, <1>4 DEF Option
<1>7. PlaceOf(p)'  BY <1>2, <1>3, <1>4, <1>5, <1>6 DEF PlaceOf
<1> QED  BY <1>1, <1>2, <1>3, <1>7, PlaceKept

(* Every process keeps its place and what belongs to it. *)
LEMMA NextPlace == ASSUME AnyQueueInv, [Next]_vars PROVE PlaceInv'
<1> USE TheProcesses, Scheduling
<1>1. TypeOK /\ PlaceInv /\ me = proc[Caller]  BY DEF AnyQueueInv, me
<1>2. /\ Calling \cap ({"idle"} \cup Cancelling) = {} /\ Handling \cap ({"idle"} \cup Cancelling) = {}
      /\ Calling \cap Handling = {} /\ "idle" \notin Cancelling
      /\ Using \subseteq Calling /\ "lookup" \in Calling \ Using /\ "create" \in Calling \ Using
      /\ {"uncache", "readCache", "addCache", "setHandler"} = Using
      /\ {"cancelRead", "cancelRemove", "cancelUncache", "cancelSource"} = Cancelling
      /\ {"run", "fetch", "enumerate", "uncacheRun"} = Handling
  BY DEF Calling, Cancelling, Handling, Using
<1>3. ASSUME NEW option \in Options, NEW repeats \in BOOLEAN, Schedule(option, repeats)
      PROVE  PlaceInv'
  <2>1. PICK a \in Actions \ Scheduled :
           /\ how' = [how EXCEPT ![a] = [option |-> option, repeats |-> repeats]]
           /\ proc' = [proc EXCEPT ![Caller].pc = "lookup", ![Caller].act = a]
           /\ Scheduled' = Scheduled \cup {a}
    BY <1>1, <1>3, ScheduleTakesNew
  <2>2. me.timer \in Timers \cup {NULL} /\ me.arr \in Actions \cup {NULL} /\ me.idx \in Nat
        /\ "lookup" \in Positions
    BY <1>1, <1>2 DEF TypeOK, Positions
  <2>3. Moves(Caller, "lookup", me.timer, a, me.arr, me.idx)  BY <1>1, <2>1, Moving
  <2>4. Goes(Caller, Pc(Caller), "lookup", me.timer, a, me.arr, me.idx)
    BY <1>1, <2>2, <2>3, Going
  <2>5. /\ Pc(Caller)' = "lookup" /\ proc'[Caller].act = a
        /\ \A q \in Processes : q /= Caller => proc'[q] = proc[q] /\ Pc(q)' = Pc(q)
    BY <2>4 DEF Goes
  <2>6. PlaceOf(Caller)'  BY <1>2, <2>1, <2>5 DEF PlaceOf
  <2>7. \A b \in Scheduled : how'[b] = how[b]  BY <1>1, <2>1 DEF TypeOK
  <2> QED  BY <1>1, <2>1, <2>5, <2>6, <2>7, PlaceKept
<1>4. CASE CancelCall
  <2>1. UNCHANGED how /\ Goes(Caller, "idle", "cancelRead", NULL, NULL, NULL, 0)
    BY <1>4, CallGoes DEF CancelCall
  <2> QED  BY <1>2, <2>1, PlaceOfMover
<1>5. CASE Lookup
  <2> DEFINE to == IF Table = NULL THEN "create" ELSE ByOption
  <2>1. UNCHANGED how /\ Goes(Caller, "lookup", to, Table, me.act, me.arr, me.idx)
    BY <1>5, CallGoes DEF Lookup
  <2>2. Pc(Caller) = "lookup"  BY <2>1 DEF Goes
  <2>3. /\ me.act \in Scheduled
        /\ \/ Option(me.act) = "Cancel" /\ ByOption = "uncache"
           \/ Option(me.act) = "Merge" /\ ByOption = "readCache"
    BY <1>1, <1>2, <2>2, Sides
  <2>4. to \in Using => Table \in Timers  BY <1>1, <1>2 DEF TypeOK, Table
  <2>5. to \in Calling /\ to \notin Handling \cup {"idle", "addCache"} \cup Cancelling
        /\ (to = "uncache" => Option(me.act) = "Cancel")
        /\ (to = "readCache" => Option(me.act) = "Merge")
    BY <1>2, <2>3
  <2> HIDE DEF to
  <2> QED  BY <1>2, <2>1, <2>3, <2>4, <2>5, PlaceOfMover
<1>6. CASE Create
  <2>1. PICK t \in Timers \ Made :
           proc' = [proc EXCEPT ![Caller].pc = ByOption, ![Caller].timer = t]
    BY <1>6, CreateTakesNew
  <2>2. UNCHANGED how /\ Goes(Caller, "create", ByOption, t, me.act, me.arr, me.idx)
    BY <1>6, <2>1, CallGoes DEF Create
  <2>3. Pc(Caller) = "create"  BY <2>2 DEF Goes
  <2>4. /\ me.act \in Scheduled
        /\ \/ Option(me.act) = "Cancel" /\ ByOption = "uncache"
           \/ Option(me.act) = "Merge" /\ ByOption = "readCache"
    BY <1>1, <1>2, <2>3, Sides
  <2> QED  BY <1>2, <2>2, <2>4, PlaceOfMover
<1>7. ASSUME NEW from \in Using, NEW to \in Using, NEW arr,
             UNCHANGED how, Goes(Caller, from, to, me.timer, me.act, arr, me.idx),
             to = "addCache" => from = "readCache", to \in {"addCache", "setHandler"}
      PROVE  PlaceInv'
  <2>1. Pc(Caller) = from  BY <1>7 DEF Goes
  <2>2. me.act \in Scheduled /\ me.timer \in Timers
        /\ (from = "readCache" => Option(me.act) = "Merge")
    BY <1>1, <1>2, <1>7, <2>1 DEF PlaceInv, PlaceOf
  <2> QED  BY <1>2, <1>7, <2>2, PlaceOfMover
<1>8. CASE Uncache
  <2>1. UNCHANGED how /\ Goes(Caller, "uncache", "setHandler", me.timer, me.act, me.arr, me.idx)
    BY <1>8, CallGoes DEF Uncache
  <2> QED  BY <1>2, <1>7, <2>1
<1>9. CASE ReadCache
  <2>1. UNCHANGED how
        /\ Goes(Caller, "readCache", "addCache", me.timer, me.act, self.cache, me.idx)
    BY <1>9, CallGoes DEF ReadCache
  <2> QED  BY <1>2, <1>7, <2>1
<1>10. CASE AddCache
  <2>1. UNCHANGED how /\ Goes(Caller, "addCache", "setHandler", me.timer, me.act, me.arr, me.idx)
    BY <1>10, CallGoes DEF AddCache
  <2> QED  BY <1>2, <1>7, <2>1
<1>11. CASE SetHandler
  <2>1. UNCHANGED how /\ Goes(Caller, "setHandler", "idle", NULL, NULL, NULL, 0)
    BY <1>11, CallGoes DEF SetHandler
  <2> QED  BY <1>2, <2>1, PlaceOfMover
<1>12. ASSUME NEW p \in Processes, Cancel(p) PROVE PlaceInv'
  <2> DEFINE m == proc[p]
  <2>1. UNCHANGED how
    BY <1>12 DEF Cancel, CancelRead, CancelRemove, CancelUncache, CancelSource
  <2>2. ASSUME NEW from, Goes(p, from, "idle", NULL, NULL, NULL, 0) PROVE PlaceInv'
    BY <1>2, <2>1, <2>2, PlaceOfMover
  <2>3. ASSUME NEW from, NEW to \in Cancelling, NEW timer \in Timers,
               Goes(p, from, to, timer, m.act, m.arr, m.idx)
        PROVE  PlaceInv'
    BY <1>2, <2>1, <2>3, PlaceOfMover
  <2>4. Table /= NULL => Table \in Timers  BY <1>1 DEF TypeOK, Table
  <2>5. Pc(p) \in {"cancelRemove", "cancelUncache"} => m.timer \in Timers
    BY <1>1, <1>2 DEF PlaceInv, PlaceOf
  <2>6. CASE CancelRead(p)
    <3>1. \/ Goes(p, "cancelRead", "idle", NULL, NULL, NULL, 0)
          \/ Table /= NULL /\ Goes(p, "cancelRead", "cancelRemove", Table, m.act, m.arr, m.idx)
      BY <2>6, CancelGoes
    <3> QED  BY <1>2, <2>2, <2>3, <2>4, <3>1
  <2>7. CASE CancelRemove(p)
    <3>1. Goes(p, "cancelRemove", "cancelUncache", m.timer, m.act, m.arr, m.idx)
      BY <2>7, CancelGoes
    <3>2. Pc(p) = "cancelRemove"  BY <3>1 DEF Goes
    <3> QED  BY <1>2, <2>3, <2>5, <3>1, <3>2
  <2>8. CASE CancelUncache(p)
    <3>1. Goes(p, "cancelUncache", "cancelSource", m.timer, m.act, m.arr, m.idx)
      BY <2>8, CancelGoes
    <3>2. Pc(p) = "cancelUncache"  BY <3>1 DEF Goes
    <3> QED  BY <1>2, <2>3, <2>5, <3>1, <3>2
  <2>9. CASE CancelSource(p)
    <3>1. Goes(p, "cancelSource", "idle", NULL, NULL, NULL, 0)  BY <2>9, CancelGoes
    <3> QED  BY <2>2, <3>1
  <2> QED  BY <1>12, <2>6, <2>7, <2>8, <2>9 DEF Cancel
<1>13. ASSUME NEW t \in Timers, Fire(t) PROVE PlaceInv'
  <2> DEFINE a == sources[t].handler
             to == IF Option(a) = "Cancel" THEN "run" ELSE "fetch"
  <2>1. UNCHANGED how /\ a \in Actions /\ Goes(t, "idle", to, NULL, a, NULL, 0)
    BY <1>13, HandlerGoes DEF Fire
  <2>2. a \in Scheduled  BY <2>1 DEF AnyQueueInv, FreshInv
  <2>3. to \in Handling /\ to /= "enumerate" /\ t /= Caller  BY <1>2
  <2> HIDE DEF a, to
  <2> QED  BY <1>2, <2>1, <2>2, <2>3, PlaceOfMover
<1>14. ASSUME NEW t \in Timers, NEW from \in Handling, proc[t].pc = from, EndHandler(t),
              UNCHANGED how
       PROVE  PlaceInv'
  <2>1. \/ Goes(t, from, "idle", NULL, NULL, NULL, 0)
        \/ Goes(t, from, "cancelRead", proc[t].timer, proc[t].act, proc[t].arr, proc[t].idx)
    BY <1>14, HandlerGoes
  <2> QED  BY <1>2, <1>14, <2>1, PlaceOfMover
<1>15. ASSUME NEW t \in Timers, NEW from \in Handling, NEW to \in Handling, NEW arr, NEW idx,
              Goes(t, from, to, proc[t].timer, proc[t].act, arr, idx), UNCHANGED how,
              to = "enumerate" => idx > 0
       PROVE  PlaceInv'
  <2>1. Pc(t) \in Handling /\ t \in Processes /\ t /= Caller  BY <1>15 DEF Goes
  <2>2. proc[t].act \in Scheduled  BY <1>1, <2>1 DEF PlaceInv, PlaceOf
  <2> QED  BY <1>2, <1>15, <2>1, <2>2, PlaceOfMover
<1>16. ASSUME NEW t \in Timers, RunAction(t) PROVE PlaceInv'
  <2>1. proc[t].pc = "run" /\ EndHandler(t) /\ UNCHANGED how  BY <1>16 DEF RunAction, At
  <2> QED  BY <1>2, <1>14, <2>1
<1>17. ASSUME NEW t \in Timers, Fetch(t) PROVE PlaceInv'
  <2>1. /\ UNCHANGED how
        /\ Goes(t, "fetch", "enumerate", proc[t].timer, proc[t].act, self.cache, 1)
    BY <1>17, HandlerGoes DEF Fetch
  <2>2. 1 > 0  OBVIOUS
  <2> QED  BY <1>2, <1>15, <2>1, <2>2
<1>18. ASSUME NEW t \in Timers, Enumerate(t) PROVE PlaceInv'
  <2>1. UNCHANGED how  BY <1>18 DEF Enumerate
  <2>2. \/ Goes(t, "enumerate", "enumerate", proc[t].timer, proc[t].act, proc[t].arr,
                proc[t].idx + 1)
        \/ Goes(t, "enumerate", "uncacheRun", proc[t].timer, proc[t].act, proc[t].arr,
                proc[t].idx)
    BY <1>18, HandlerGoes
  <2>3. proc[t].idx + 1 > 0  BY <1>1 DEF TypeOK
  <2> QED  BY <1>2, <1>15, <2>1, <2>2, <2>3
<1>19. ASSUME NEW t \in Timers, UncacheRun(t) PROVE PlaceInv'
  <2>1. proc[t].pc = "uncacheRun" /\ EndHandler(t) /\ UNCHANGED how  BY <1>19 DEF UncacheRun, At
  <2> QED  BY <1>2, <1>14, <2>1
<1>20. CASE UNCHANGED <<proc, how>>
  BY <1>1, <1>20 DEF PlaceInv, PlaceOf, Pc, Option, Scheduled, New
<1>21. Race \/ UNCHANGED vars => UNCHANGED <<proc, how>>  BY DEF Race, vars
<1> QED
  BY <1>3, <1>4, <1>5, <1>6, <1>8, <1>9, <1>10, <1>11, <1>12, <1>13, <1>16, <1>17, <1>18,
     <1>19, <1>20, <1>21
  DEF Next, Call, Handler

(* Where a step of one process leaves the positions of all. *)
Onward(p, from, to) ==
    /\ Pc(p) = from /\ Pc(p)' = to
    /\ proc' \in [Processes -> Locals]
    /\ \A q \in Processes : q /= p => proc'[q] = proc[q] /\ Pc(q)' = Pc(q)

(* The steps, as changes of position. *)
LEMMA Steps ==
    ASSUME AnyQueueInv
    PROVE  /\ \A option \in Options, repeats \in BOOLEAN :
                 Schedule(option, repeats) => Onward(Caller, "idle", "lookup")
           /\ CancelCall => Onward(Caller, "idle", "cancelRead")
           /\ Lookup => \E to \in {"create", "uncache", "readCache"} : Onward(Caller, "lookup", to)
           /\ Create => \E to \in {"uncache", "readCache"} : Onward(Caller, "create", to)
           /\ Uncache => Onward(Caller, "uncache", "setHandler")
           /\ ReadCache => Onward(Caller, "readCache", "addCache")
           /\ AddCache => Onward(Caller, "addCache", "setHandler")
           /\ SetHandler => Onward(Caller, "setHandler", "idle")
           /\ \A p \in Processes :
                 /\ CancelRead(p) =>
                       \E to \in {"idle", "cancelRemove"} : Onward(p, "cancelRead", to)
                 /\ CancelRemove(p) => Onward(p, "cancelRemove", "cancelUncache")
                 /\ CancelUncache(p) => Onward(p, "cancelUncache", "cancelSource")
                 /\ CancelSource(p) => Onward(p, "cancelSource", "idle")
           /\ \A t \in Timers :
                 /\ Fire(t) => \E to \in {"run", "fetch"} : Onward(t, "idle", to)
                 /\ RunAction(t) => \E to \in {"idle", "cancelRead"} : Onward(t, "run", to)
                 /\ Fetch(t) => Onward(t, "fetch", "enumerate")
                 /\ Enumerate(t) =>
                       \E to \in {"enumerate", "uncacheRun"} : Onward(t, "enumerate", to)
                 /\ UncacheRun(t) =>
                       \E to \in {"idle", "cancelRead"} : Onward(t, "uncacheRun", to)
<1> USE TheProcesses
<1>1. TypeOK /\ PlaceInv  BY DEF AnyQueueInv
<1>2. \A p, from, to, timer, act, arr, idx :
         Goes(p, from, to, timer, act, arr, idx) => Onward(p, from, to)
  BY DEF Goes, Onward
<1>3. ASSUME NEW option \in Options, NEW repeats \in BOOLEAN, Schedule(option, repeats)
      PROVE  Onward(Caller, "idle", "lookup")
  <2>1. PICK a \in Actions \ Scheduled :
           proc' = [proc EXCEPT ![Caller].pc = "lookup", ![Caller].act = a]
    BY <1>1, <1>3, ScheduleTakesNew
  <2>2. /\ me.timer \in Timers \cup {NULL} /\ me.arr \in Actions \cup {NULL} /\ me.idx \in Nat
        /\ "lookup" \in Positions /\ me = proc[Caller]
    BY <1>1 DEF TypeOK, Positions, Calling, me
  <2>3. Moves(Caller, "lookup", me.timer, a, me.arr, me.idx)  BY <1>1, <2>1, <2>2, Moving
  <2>4. Goes(Caller, Pc(Caller), "lookup", me.timer, a, me.arr, me.idx)
    BY <1>1, <2>2, <2>3, Going
  <2>5. Pc(Caller) = "idle"  BY <1>3 DEF Schedule, At, Pc
  <2> QED  BY <1>2, <2>4, <2>5
<1>4. CancelCall => Onward(Caller, "idle", "cancelRead")  BY <1>2, CallGoes
<1>5. ByOption \in {"uncache", "readCache"}  BY DEF ByOption
<1>6. ASSUME Lookup
      PROVE  \E to \in {"create", "uncache", "readCache"} : Onward(Caller, "lookup", to)
  <2>1. Onward(Caller, "lookup", IF Table = NULL THEN "create" ELSE ByOption)
    BY <1>2, <1>6, CallGoes
  <2> QED  BY <1>5, <2>1
<1>7. ASSUME Create PROVE \E to \in {"uncache", "readCache"} : Onward(Caller, "create", to)
  <2>1. PICK t \in Timers \ Made :
           proc' = [proc EXCEPT ![Caller].pc = ByOption, ![Caller].timer = t]
    BY <1>7, CreateTakesNew
  <2>2. Onward(Caller, "create", ByOption)  BY <1>2, <1>7, <2>1, CallGoes
  <2> QED  BY <1>5, <2>2
<1>8. Uncache => Onward(Caller, "uncache", "setHandler")  BY <1>2, CallGoes
<1>9. ReadCache => Onward(Caller, "readCache", "addCache")  BY <1>2, CallGoes
<1>10. AddCache => Onward(Caller, "addCache", "setHandler")  BY <1>2, CallGoes
<1>11. SetHandler => Onward(Caller, "setHandler", "idle")  BY <1>2, CallGoes
<1>12. ASSUME NEW p \in Processes
       PROVE  /\ CancelRead(p) =>
                    \E to \in {"idle", "cancelRemove"} : Onward(p, "cancelRead", to)
              /\ CancelRemove(p) => Onward(p, "cancelRemove", "cancelUncache")
              /\ CancelUncache(p) => Onward(p, "cancelUncache", "cancelSource")
              /\ CancelSource(p) => Onward(p, "cancelSource", "idle")
  <2>1. CancelRead(p) => \E to \in {"idle", "cancelRemove"} : Onward(p, "cancelRead", to)
    BY <1>2, CancelGoes
  <2>2. CancelRemove(p) => Onward(p, "cancelRemove", "cancelUncache")  BY <1>2, CancelGoes
  <2>3. CancelUncache(p) => Onward(p, "cancelUncache", "cancelSource")  BY <1>2, CancelGoes
  <2>4. CancelSource(p) => Onward(p, "cancelSource", "idle")  BY <1>2, CancelGoes
  <2> QED  BY <2>1, <2>2, <2>3, <2>4
<1>13. ASSUME NEW t \in Timers
       PROVE  /\ Fire(t) => \E to \in {"run", "fetch"} : Onward(t, "idle", to)
              /\ RunAction(t) => \E to \in {"idle", "cancelRead"} : Onward(t, "run", to)
              /\ Fetch(t) => Onward(t, "fetch", "enumerate")
              /\ Enumerate(t) =>
                    \E to \in {"enumerate", "uncacheRun"} : Onward(t, "enumerate", to)
              /\ UncacheRun(t) =>
                    \E to \in {"idle", "cancelRead"} : Onward(t, "uncacheRun", to)
  <2>1. ASSUME Fire(t) PROVE \E to \in {"run", "fetch"} : Onward(t, "idle", to)
    <3>1. Onward(t, "idle", IF Option(sources[t].handler) = "Cancel" THEN "run" ELSE "fetch")
      BY <1>2, <2>1, HandlerGoes
    <3> QED  BY <3>1
  <2>2. ASSUME NEW from, proc[t].pc = from, EndHandler(t)
        PROVE  \E to \in {"idle", "cancelRead"} : Onward(t, from, to)
    <3>1. \/ Goes(t, from, "idle", NULL, NULL, NULL, 0)
          \/ Goes(t, from, "cancelRead", proc[t].timer, proc[t].act, proc[t].arr, proc[t].idx)
      BY <2>2, HandlerGoes
    <3> QED  BY <1>2, <3>1
  <2>3. RunAction(t) => proc[t].pc = "run" /\ EndHandler(t)  BY DEF RunAction, At
  <2>4. UncacheRun(t) => proc[t].pc = "uncacheRun" /\ EndHandler(t)  BY DEF UncacheRun, At
  <2>5. Fetch(t) => Onward(t, "fetch", "enumerate")  BY <1>2, HandlerGoes
  <2>6. Enumerate(t) => \E to \in {"enumerate", "uncacheRun"} : Onward(t, "enumerate", to)
    BY <1>2, HandlerGoes
  <2> QED  BY <2>1, <2>2, <2>3, <2>4, <2>5, <2>6
<1> QED  BY <1>3, <1>4, <1>6, <1>7, <1>8, <1>9, <1>10, <1>11, <1>12, <1>13

(* The semaphore is taken by one process and given back by it. *)
LEMMA NextSem == ASSUME AnyQueueInv, [Next]_vars PROVE SemInv' /\ self.semaphore' \in 0..1
<1> USE TheProcesses
<1>1. TypeOK /\ SemInv /\ self.semaphore \in 0..1  BY DEF AnyQueueInv, TypeOK
<1>2. ASSUME NEW p \in Processes, NEW from, NEW to, Onward(p, from, to),
             from \notin {"cancelUncache", "cancelSource"} \/ to \in {"cancelUncache", "cancelSource"},
             to \notin {"cancelUncache", "cancelSource"} \/ from \in {"cancelUncache", "cancelSource"},
             self'.semaphore = self.semaphore
      PROVE  SemInv' /\ self.semaphore' \in 0..1
  <2>1. Holders' = Holders  BY <1>2 DEF Onward, Holders, Holds
  <2> QED  BY <1>1, <1>2, <2>1 DEF SemInv
<1>3. ASSUME UNCHANGED <<self, proc>> PROVE SemInv' /\ self.semaphore' \in 0..1
  <2>1. Holders' = Holders  BY <1>3 DEF Holders, Holds, Pc
  <2> QED  BY <1>1, <1>3, <2>1 DEF SemInv
<1>4. ASSUME NEW option \in Options, NEW repeats \in BOOLEAN, Schedule(option, repeats)
      PROVE  SemInv' /\ self.semaphore' \in 0..1
  BY <1>2, <1>4, Steps DEF Schedule
<1>5. CASE CancelCall  BY <1>2, <1>5, Steps DEF CancelCall
<1>6. CASE Lookup  BY <1>2, <1>6, Steps DEF Lookup
<1>7. CASE Create
  <2>1. self'.semaphore = self.semaphore  BY <1>1, <1>7 DEF Create, TypeOK
  <2> QED  BY <1>2, <1>7, <2>1, Steps
<1>8. CASE Uncache
  <2>1. self'.semaphore = self.semaphore  BY <1>1, <1>8 DEF Uncache, TypeOK
  <2> QED  BY <1>2, <1>8, <2>1, Steps
<1>9. CASE ReadCache  BY <1>2, <1>9, Steps DEF ReadCache
<1>10. CASE AddCache
  <2>1. self'.semaphore = self.semaphore  BY <1>1, <1>10 DEF AddCache, NewArray, TypeOK
  <2> QED  BY <1>2, <1>10, <2>1, Steps
<1>11. CASE SetHandler  BY <1>2, <1>11, Steps DEF SetHandler
<1>12. ASSUME NEW p \in Processes, CancelRead(p) PROVE SemInv' /\ self.semaphore' \in 0..1
  BY <1>2, <1>12, Steps DEF CancelRead
<1>13. ASSUME NEW p \in Processes, CancelRemove(p) PROVE SemInv' /\ self.semaphore' \in 0..1
  <2>1. self.semaphore = 1 /\ self'.semaphore = 0  BY <1>1, <1>13 DEF CancelRemove, TypeOK
  <2>2. Holders = {}  BY <1>1, <2>1 DEF SemInv
  <2>3. Onward(p, "cancelRemove", "cancelUncache")  BY <1>13, Steps
  <2>4. Holders' = {p}  BY <2>2, <2>3 DEF Holders, Holds, Onward
  <2> QED  BY <2>1, <2>4 DEF SemInv
<1>14. ASSUME NEW p \in Processes, CancelUncache(p) PROVE SemInv' /\ self.semaphore' \in 0..1
  <2>1. self'.semaphore = self.semaphore  BY <1>1, <1>14 DEF CancelUncache, TypeOK
  <2> QED  BY <1>2, <1>14, <2>1, Steps
<1>15. ASSUME NEW p \in Processes, CancelSource(p) PROVE SemInv' /\ self.semaphore' \in 0..1
  <2>1. Onward(p, "cancelSource", "idle")  BY <1>15, Steps
  <2>2. p \in Holders  BY <2>1 DEF Holders, Holds, Onward
  <2>3. self.semaphore = 0 /\ Holders = {p}  BY <1>1, <2>2 DEF SemInv
  <2>4. self'.semaphore = 1  BY <1>1, <1>15, <2>3 DEF CancelSource, TypeOK
  <2>5. Holders' = {}  BY <2>1, <2>3 DEF Holders, Holds, Onward
  <2> QED  BY <2>4, <2>5 DEF SemInv
<1>16. ASSUME NEW t \in Timers, Fire(t) PROVE SemInv' /\ self.semaphore' \in 0..1
  BY <1>2, <1>16, Steps DEF Fire
<1>17. ASSUME NEW t \in Timers, RunAction(t) PROVE SemInv' /\ self.semaphore' \in 0..1
  BY <1>2, <1>17, Steps DEF RunAction
<1>18. ASSUME NEW t \in Timers, Fetch(t) PROVE SemInv' /\ self.semaphore' \in 0..1
  BY <1>2, <1>18, Steps DEF Fetch
<1>19. ASSUME NEW t \in Timers, Enumerate(t) PROVE SemInv' /\ self.semaphore' \in 0..1
  BY <1>2, <1>19, Steps DEF Enumerate
<1>20. ASSUME NEW t \in Timers, UncacheRun(t) PROVE SemInv' /\ self.semaphore' \in 0..1
  <2>1. self'.semaphore = self.semaphore  BY <1>1, <1>20 DEF UncacheRun, TypeOK
  <2> QED  BY <1>2, <1>20, <2>1, Steps
<1>21. Race \/ UNCHANGED vars => UNCHANGED <<self, proc>>  BY DEF Race, vars
<1> QED
  BY <1>3, <1>4, <1>5, <1>6, <1>7, <1>8, <1>9, <1>10, <1>11, <1>12, <1>13, <1>14, <1>15,
     <1>16, <1>17, <1>18, <1>19, <1>20, <1>21
  DEF Next, Call, Handler, Cancel

(* What libdispatch may know of a source. *)
Source == [made : BOOLEAN, cancelled : BOOLEAN, handler : Actions \cup {NULL}]

(* Setting one field of a source keeps its type.                           *)
LEMMA SourceSet ==
    ASSUME TypeOK, NEW t \in Timers
    PROVE  /\ sources' = [sources EXCEPT ![t].made = TRUE] => sources' \in [Timers -> Source]
           /\ sources' = [sources EXCEPT ![t].cancelled = TRUE] =>
                 sources' \in [Timers -> Source]
           /\ \A a \in Actions \cup {NULL} :
                 sources' = [sources EXCEPT ![t].handler = a] => sources' \in [Timers -> Source]
<1> DEFINE r == sources[t]
<1>1. sources \in [Timers -> Source] /\ r \in Source  BY DEF TypeOK, Source
<1>2. /\ [r EXCEPT !.made = TRUE] \in Source /\ [r EXCEPT !.cancelled = TRUE] \in Source
      /\ \A a \in Actions \cup {NULL} : [r EXCEPT !.handler = a] \in Source
  BY <1>1 DEF Source
<1>3. \A x \in Source : [sources EXCEPT ![t] = x] \in [Timers -> Source]
  BY <1>1
<1>4. ASSUME sources' = [sources EXCEPT ![t].made = TRUE]
      PROVE  sources' \in [Timers -> Source]
  <2>1. sources' = [sources EXCEPT ![t] = [r EXCEPT !.made = TRUE]]  BY <1>4
  <2> DEFINE x == [r EXCEPT !.made = TRUE]
  <2>2. x \in Source /\ sources' = [sources EXCEPT ![t] = x]  BY <1>2, <2>1
  <2> HIDE DEF x
  <2> QED  BY <1>3, <2>2
<1>5. ASSUME sources' = [sources EXCEPT ![t].cancelled = TRUE]
      PROVE  sources' \in [Timers -> Source]
  <2>1. sources' = [sources EXCEPT ![t] = [r EXCEPT !.cancelled = TRUE]]  BY <1>5
  <2> DEFINE x == [r EXCEPT !.cancelled = TRUE]
  <2>2. x \in Source /\ sources' = [sources EXCEPT ![t] = x]  BY <1>2, <2>1
  <2> HIDE DEF x
  <2> QED  BY <1>3, <2>2
<1>6. ASSUME NEW a \in Actions \cup {NULL}, sources' = [sources EXCEPT ![t].handler = a]
      PROVE  sources' \in [Timers -> Source]
  <2>1. sources' = [sources EXCEPT ![t] = [r EXCEPT !.handler = a]]  BY <1>6
  <2> DEFINE x == [r EXCEPT !.handler = a]
  <2>2. x \in Source /\ sources' = [sources EXCEPT ![t] = x]  BY <1>2, <2>1
  <2> HIDE DEF x
  <2> QED  BY <1>3, <2>2
<1> QED  BY <1>4, <1>5, <1>6

(* The types. *)
LEMMA NextType == ASSUME AnyQueueInv, [Next]_vars PROVE TypeOK'
<1> USE TheProcesses
<1>1. TypeOK /\ self' .semaphore \in 0..1  BY NextSem DEF AnyQueueInv
<1>2. ASSUME NEW p, NEW from, NEW to, Onward(p, from, to)
      PROVE  proc' \in [Processes -> [pc : {"idle"} \cup Calling \cup Cancelling \cup Handling,
                               timer : Timers \cup {NULL},
                               act : Actions \cup {NULL}, arr : Actions \cup {NULL},
                               idx : Nat]]
  BY <1>2 DEF Onward, Locals, Positions
<1>3. ASSUME NEW option \in Options, NEW repeats \in BOOLEAN, Schedule(option, repeats)
      PROVE  TypeOK'
  <2>1. PICK a \in Actions :
           how' = [how EXCEPT ![a] = [option |-> option, repeats |-> repeats]]
    BY <1>1, <1>3, ScheduleTakesNew
  <2>2. [option |-> option, repeats |-> repeats] \in [option : Options, repeats : BOOLEAN]
    OBVIOUS
  <2>3. how' \in [Actions -> {NULL} \cup [option : Options, repeats : BOOLEAN]]
    BY <1>1, <2>1, <2>2 DEF TypeOK
  <2>4. Onward(Caller, "idle", "lookup")  BY <1>3, Steps
  <2> QED  BY <1>1, <1>2, <1>3, <2>3, <2>4 DEF Schedule, TypeOK, ghosts
<1>4. CASE CancelCall
  <2>1. Onward(Caller, "idle", "cancelRead")  BY <1>4, Steps
  <2> QED  BY <1>1, <1>2, <1>4, <2>1 DEF CancelCall, TypeOK, ghosts
<1>5. CASE Lookup
  <2>1. \E to : Onward(Caller, "lookup", to)  BY <1>5, Steps
  <2> QED  BY <1>1, <1>2, <1>5, <2>1 DEF Lookup, TypeOK, ghosts
<1>6. CASE Create
  <2>1. PICK t \in Timers :
           /\ sources' = [sources EXCEPT ![t].made = TRUE]
           /\ self' = [self EXCEPT !.timerArry = t]
    BY <1>6, CreateTakesNew
  <2>2. \E to : Onward(Caller, "create", to)  BY <1>6, Steps
  <2>3. sources' \in [Timers -> [made : BOOLEAN, cancelled : BOOLEAN,
                                 handler : Actions \cup {NULL}]]
    BY <1>1, <2>1, SourceSet DEF Source
  <2>4. self' \in [timerArry : Timers \cup {NULL}, cache : Actions \cup {NULL},
                   semaphore : 0..1]
    BY <1>1, <2>1 DEF TypeOK
  <2> QED  BY <1>1, <1>2, <1>6, <2>2, <2>3, <2>4 DEF Create, TypeOK, ghosts
<1>7. CASE Uncache
  <2>1. Onward(Caller, "uncache", "setHandler")  BY <1>7, Steps
  <2>2. self' \in [timerArry : Timers \cup {NULL}, cache : Actions \cup {NULL},
                   semaphore : 0..1]
    BY <1>1, <1>7 DEF Uncache, TypeOK
  <2> QED  BY <1>1, <1>2, <1>7, <2>1, <2>2 DEF Uncache, TypeOK, ghosts
<1>8. CASE ReadCache
  <2>1. Onward(Caller, "readCache", "addCache")  BY <1>8, Steps
  <2> QED  BY <1>1, <1>2, <1>8, <2>1 DEF ReadCache, TypeOK, ghosts
<1>9. CASE AddCache
  <2>1. Onward(Caller, "addCache", "setHandler")  BY <1>9, Steps
  <2>2. me.act \in Actions
    <3>1. Pc(Caller) \in Calling  BY <1>9 DEF AddCache, At, Pc, Calling
    <3> QED  BY <3>1, Scheduling DEF AnyQueueInv, PlaceInv, PlaceOf, me
  <2>3. self' \in [timerArry : Timers \cup {NULL}, cache : Actions \cup {NULL},
                   semaphore : 0..1]
    BY <1>1, <1>9, <2>2 DEF AddCache, NewArray, TypeOK
  <2>4. arrays' \in [Actions -> Seq(Actions)]
    <3>1. <<me.act>> \in Seq(Actions)  BY <2>2
    <3>2. ASSUME NEW b \in Actions PROVE Append(arrays[b], me.act) \in Seq(Actions)
      BY <1>1, <2>2, AppendProperties DEF TypeOK
    <3>3. /\ arrays \in [Actions -> Seq(Actions)]
          /\ \/ arrays' = [arrays EXCEPT ![me.act] = <<me.act>>]
             \/ arrays' = [arrays EXCEPT ![me.arr] = Append(arrays[me.arr], me.act)]
      BY <1>1, <1>9 DEF AddCache, NewArray, TypeOK
    <3>4. \A b : \A v \in Seq(Actions) : [arrays EXCEPT ![b] = v] \in [Actions -> Seq(Actions)]
      BY <3>3
    <3>5. CASE arrays' = [arrays EXCEPT ![me.act] = <<me.act>>]  BY <3>1, <3>4, <3>5
    <3>6. CASE arrays' = [arrays EXCEPT ![me.arr] = Append(arrays[me.arr], me.act)]
      <4>1. CASE me.arr \in Actions  BY <3>2, <3>4, <3>6, <4>1
      <4>2. CASE me.arr \notin Actions  BY <3>3, <3>6, <4>2
      <4> QED  BY <4>1, <4>2
    <3> QED  BY <3>3, <3>5, <3>6
  <2>5. life' \in {"live", "crashed"}  BY <1>1, <1>9 DEF AddCache, NewArray, TypeOK
  <2> QED  BY <1>1, <1>2, <1>9, <2>1, <2>3, <2>4, <2>5 DEF AddCache, TypeOK, ghosts
<1>10. CASE SetHandler
  <2>1. Onward(Caller, "setHandler", "idle")  BY <1>10, Steps
  <2>2. me.act \in Actions \cup {NULL} /\ me.timer \in Timers
    <3>1. Pc(Caller) \in Using  BY <1>10 DEF SetHandler, At, Pc, Using
    <3>2. me.timer \in Timers  BY <3>1 DEF AnyQueueInv, PlaceInv, PlaceOf, me
    <3> QED  BY <1>1, <3>2 DEF TypeOK, me
  <2>3. sources' \in [Timers -> [made : BOOLEAN, cancelled : BOOLEAN,
                                 handler : Actions \cup {NULL}]]
    BY <1>1, <1>10, <2>2, SourceSet DEF SetHandler, Source
  <2>4. status' \in [Actions -> {"new", "due", "replaced", "cancelled", "done"}]
    BY <1>1, <1>10 DEF SetHandler, TypeOK
  <2> QED  BY <1>1, <1>2, <1>10, <2>1, <2>3, <2>4 DEF SetHandler, TypeOK
<1>11. ASSUME NEW p \in Processes, CancelReturns(p)
       PROVE  status' \in [Actions -> {"new", "due", "replaced", "cancelled", "done"}]
  BY <1>1, <1>11 DEF CancelReturns, TypeOK
<1>12. ASSUME NEW p \in Processes, CancelRead(p) PROVE TypeOK'
  <2>1. \E to : Onward(p, "cancelRead", to)  BY <1>12, Steps
  <2>2. /\ status' \in [Actions -> {"new", "due", "replaced", "cancelled", "done"}]
        /\ runs' = runs
    BY <1>1, <1>11, <1>12 DEF CancelRead, CancelReturns, ghosts, TypeOK
  <2> QED  BY <1>1, <1>2, <1>12, <2>1, <2>2 DEF CancelRead, TypeOK
<1>13. ASSUME NEW p \in Processes, CancelRemove(p) PROVE TypeOK'
  <2>1. Onward(p, "cancelRemove", "cancelUncache")  BY <1>13, Steps
  <2>2. self' \in [timerArry : Timers \cup {NULL}, cache : Actions \cup {NULL},
                   semaphore : 0..1]
    BY <1>1, <1>13 DEF CancelRemove, TypeOK
  <2> QED  BY <1>1, <1>2, <1>13, <2>1, <2>2 DEF CancelRemove, TypeOK, ghosts
<1>14. ASSUME NEW p \in Processes, CancelUncache(p) PROVE TypeOK'
  <2>1. Onward(p, "cancelUncache", "cancelSource")  BY <1>14, Steps
  <2>2. self' \in [timerArry : Timers \cup {NULL}, cache : Actions \cup {NULL},
                   semaphore : 0..1]
    BY <1>1, <1>14 DEF CancelUncache, TypeOK
  <2> QED  BY <1>1, <1>2, <1>14, <2>1, <2>2 DEF CancelUncache, TypeOK, ghosts
<1>15. ASSUME NEW p \in Processes, CancelSource(p) PROVE TypeOK'
  <2>1. Onward(p, "cancelSource", "idle")  BY <1>15, Steps
  <2>2. self' \in [timerArry : Timers \cup {NULL}, cache : Actions \cup {NULL},
                   semaphore : 0..1]
    BY <1>1, <1>15 DEF CancelSource, TypeOK
  <2>3. sources' \in [Timers -> [made : BOOLEAN, cancelled : BOOLEAN,
                                 handler : Actions \cup {NULL}]]
    <3>1. Pc(p) \in Cancelling \ {"cancelRead"}
      BY <1>15 DEF CancelSource, At, Pc, Cancelling
    <3>2. proc[p].timer \in Timers  BY <3>1 DEF AnyQueueInv, PlaceInv, PlaceOf
    <3> QED  BY <1>1, <1>15, <3>2, SourceSet DEF CancelSource, Source
  <2>4. /\ status' \in [Actions -> {"new", "due", "replaced", "cancelled", "done"}]
        /\ runs' = runs
    BY <1>11, <1>15 DEF CancelSource, CancelReturns
  <2> QED  BY <1>1, <1>2, <1>15, <2>1, <2>2, <2>3, <2>4 DEF CancelSource, TypeOK
<1>16. ASSUME NEW t \in Timers, Fire(t) PROVE TypeOK'
  <2>1. \E to : Onward(t, "idle", to)  BY <1>16, Steps
  <2> QED  BY <1>1, <1>2, <1>16, <2>1 DEF Fire, TypeOK, ghosts
<1>17. ASSUME NEW a, Runs(a)
       PROVE  /\ status' \in [Actions -> {"new", "due", "replaced", "cancelled", "done"}]
              /\ runs' \in [Actions -> 0..2]
  <2> DEFINE Statuses == {"new", "due", "replaced", "cancelled", "done"}
             s == IF status[a] = "due" /\ ~how[a].repeats THEN "done" ELSE status[a]
             r == IF runs[a] = 2 THEN 2 ELSE runs[a] + 1
  <2>1. status \in [Actions -> Statuses] /\ runs \in [Actions -> 0..2]  BY <1>1 DEF TypeOK
  <2>2. status' = [status EXCEPT ![a] = s] /\ runs' = [runs EXCEPT ![a] = r]
    BY <1>17 DEF Runs
  <2>3. a \in Actions => s \in Statuses /\ r \in 0..2  BY <2>1
  <2> HIDE DEF s, r, Statuses
  <2>4. status' \in [Actions -> Statuses] /\ runs' \in [Actions -> 0..2]
    <3>1. CASE a \in Actions  BY <2>1, <2>2, <2>3, <3>1
    <3>2. CASE a \notin Actions  BY <2>1, <2>2, <3>2
    <3> QED  BY <3>1, <3>2
  <2> QED  BY <2>4 DEF Statuses
<1>18. ASSUME NEW t \in Timers, RunAction(t) PROVE TypeOK'
  <2>1. \E to : Onward(t, "run", to)  BY <1>18, Steps
  <2> QED  BY <1>1, <1>2, <1>17, <1>18, <2>1 DEF RunAction, TypeOK
<1>19. ASSUME NEW t \in Timers, Fetch(t) PROVE TypeOK'
  <2>1. Onward(t, "fetch", "enumerate")  BY <1>19, Steps
  <2> QED  BY <1>1, <1>2, <1>19, <2>1 DEF Fetch, TypeOK, ghosts
<1>20. ASSUME NEW t \in Timers, Enumerate(t) PROVE TypeOK'
  <2>1. \E to : Onward(t, "enumerate", to)  BY <1>20, Steps
  <2>2. /\ status' \in [Actions -> {"new", "due", "replaced", "cancelled", "done"}]
        /\ runs' \in [Actions -> 0..2]
    <3>1. Runs(Head(ToRun(t))) \/ UNCHANGED ghosts  BY <1>20 DEF Enumerate
    <3> QED  BY <1>1, <1>17, <3>1 DEF ghosts, TypeOK
  <2> QED  BY <1>1, <1>2, <1>20, <2>1, <2>2 DEF Enumerate, TypeOK
<1>21. ASSUME NEW t \in Timers, UncacheRun(t) PROVE TypeOK'
  <2>1. \E to : Onward(t, "uncacheRun", to)  BY <1>21, Steps
  <2>2. self' \in [timerArry : Timers \cup {NULL}, cache : Actions \cup {NULL},
                   semaphore : 0..1]
    BY <1>1, <1>21 DEF UncacheRun, TypeOK
  <2> QED  BY <1>1, <1>2, <1>21, <2>1, <2>2 DEF UncacheRun, TypeOK, ghosts
<1>22. CASE Race
  BY <1>1, <1>22 DEF Race, TypeOK, ghosts
<1>23. CASE UNCHANGED vars
  BY <1>1, <1>23 DEF vars, TypeOK, ghosts
<1> QED
  BY <1>3, <1>4, <1>5, <1>6, <1>7, <1>8, <1>9, <1>10, <1>12, <1>13, <1>14, <1>15,
     <1>16, <1>18, <1>19, <1>20, <1>21, <1>22, <1>23
  DEF Next, Call, Handler, Cancel

(* What a change of a source leaves. *)
LEMMA SourceFields ==
    ASSUME TypeOK, NEW t \in Timers, NEW u \in Timers
    PROVE  /\ sources' = [sources EXCEPT ![t].made = TRUE] =>
                 /\ sources'[u].made <=> (u = t \/ sources[u].made)
                 /\ sources'[u].cancelled = sources[u].cancelled
                 /\ sources'[u].handler = sources[u].handler
           /\ sources' = [sources EXCEPT ![t].cancelled = TRUE] =>
                 /\ sources'[u].made = sources[u].made
                 /\ sources'[u].cancelled <=> (u = t \/ sources[u].cancelled)
                 /\ sources'[u].handler = sources[u].handler
           /\ \A a : sources' = [sources EXCEPT ![t].handler = a] =>
                 /\ sources'[u].made = sources[u].made
                 /\ sources'[u].cancelled = sources[u].cancelled
                 /\ sources'[u].handler = IF u = t THEN a ELSE sources[u].handler
<1>1. sources \in [Timers -> Source]  BY DEF TypeOK, Source
<1>2. sources[u] \in Source /\ sources[t] \in Source  BY <1>1
<1>3. ASSUME sources' = [sources EXCEPT ![t].made = TRUE]
      PROVE  /\ sources'[u].made <=> (u = t \/ sources[u].made)
             /\ sources'[u].cancelled = sources[u].cancelled
             /\ sources'[u].handler = sources[u].handler
  BY <1>1, <1>2, <1>3 DEF Source
<1>4. ASSUME sources' = [sources EXCEPT ![t].cancelled = TRUE]
      PROVE  /\ sources'[u].made = sources[u].made
             /\ sources'[u].cancelled <=> (u = t \/ sources[u].cancelled)
             /\ sources'[u].handler = sources[u].handler
  BY <1>1, <1>2, <1>4 DEF Source
<1>5. ASSUME NEW a, sources' = [sources EXCEPT ![t].handler = a]
      PROVE  /\ sources'[u].made = sources[u].made
             /\ sources'[u].cancelled = sources[u].cancelled
             /\ sources'[u].handler = IF u = t THEN a ELSE sources[u].handler
  BY <1>1, <1>2, <1>5 DEF Source
<1> QED  BY <1>3, <1>4, <1>5

(* A call makes one source at most. *)
LEMMA NextCount == ASSUME AnyQueueInv, [Next]_vars PROVE CountInv'
<1> USE TheProcesses
<1>1. TypeOK /\ PlaceInv /\ CountInv  BY DEF AnyQueueInv
<1>2. /\ IsFiniteSet(Scheduled) /\ Cardinality(Scheduled) \in Nat
      /\ IsFiniteSet(Made) /\ Cardinality(Made) \in Nat
  <2>1. Made \subseteq Timers  BY DEF Made
  <2> QED  BY <2>1, Scheduling, FS_Subset, FS_CardinalityType, TimerAssumption
<1>3. ASSUME UNCHANGED queue, Scheduled' = Scheduled, Made' = Made,
             Pc(Caller)' \in {"lookup", "create"} => Pc(Caller) \in {"lookup", "create"}
      PROVE  CountInv'
  BY <1>1, <1>3 DEF CountInv
<1>4. UNCHANGED how => Scheduled' = Scheduled  BY DEF Scheduled, New
<1>5. UNCHANGED sources => Made' = Made  BY DEF Made
<1>6. ASSUME UNCHANGED <<queue, how>>, Made' = Made,
             NEW p \in Processes, NEW from, NEW to, Onward(p, from, to),
             to \in {"lookup", "create"} => from \in {"lookup", "create"}
      PROVE  CountInv'
  <2>1. Pc(Caller)' \in {"lookup", "create"} => Pc(Caller) \in {"lookup", "create"}
    BY <1>6 DEF Onward
  <2> QED  BY <1>3, <1>4, <1>6, <2>1
<1>7. ASSUME NEW option \in Options, NEW repeats \in BOOLEAN, Schedule(option, repeats)
      PROVE  CountInv'
  <2>1. PICK a \in Actions \ Scheduled : Scheduled' = Scheduled \cup {a}
    BY <1>1, <1>7, ScheduleTakesNew
  <2>2. Cardinality(Scheduled') = Cardinality(Scheduled) + 1
    BY <1>2, <2>1, FS_AddElement
  <2>3. Made' = Made /\ queue' = queue  BY <1>5, <1>7 DEF Schedule
  <2>4. Cardinality(Scheduled) < Schedules[queue] /\ Schedules[queue] \in Nat
    BY <1>1, <1>7, TimerAssumption DEF Schedule, Scheduled, TypeOK
  <2>5. Cardinality(Made) <= Cardinality(Scheduled)  BY <1>1 DEF CountInv
  <2> HIDE DEF Scheduled, Made
  <2>6. /\ Cardinality(Scheduled') <= Schedules[queue']
        /\ Cardinality(Made') <= Cardinality(Scheduled')
        /\ Cardinality(Made') < Cardinality(Scheduled')
    BY <1>2, <2>2, <2>3, <2>4, <2>5
  <2> QED  BY <2>6 DEF CountInv
<1>8. CASE Create
  <2>1. PICK t \in Timers \ Made : Made' = Made \cup {t}  BY <1>8, CreateTakesNew
  <2>2. Cardinality(Made') = Cardinality(Made) + 1  BY <1>2, <2>1, FS_AddElement
  <2>3. Scheduled' = Scheduled /\ queue' = queue  BY <1>4, <1>8 DEF Create
  <2>4. PICK to \in {"uncache", "readCache"} : Onward(Caller, "create", to)
    BY <1>8, Steps
  <2>5. Cardinality(Made) < Cardinality(Scheduled)
        /\ Cardinality(Scheduled) <= Schedules[queue]
    BY <1>1, <2>4 DEF CountInv, Onward
  <2>6. /\ Cardinality(Scheduled') <= Schedules[queue']
        /\ Cardinality(Made') <= Cardinality(Scheduled')
    BY <1>2, <2>2, <2>3, <2>5
  <2>7. Pc(Caller)' \notin {"lookup", "create"}  BY <2>4 DEF Onward
  <2> QED  BY <2>6, <2>7 DEF CountInv
<1>9. CASE CancelCall  BY <1>5, <1>6, <1>9, Steps DEF CancelCall
<1>10. CASE Lookup
  <2>1. UNCHANGED <<queue, how, sources>>  BY <1>10 DEF Lookup
  <2>2. PICK to : Onward(Caller, "lookup", to)  BY <1>10, Steps
  <2> QED  BY <1>5, <1>6, <2>1, <2>2
<1>11. CASE Uncache  BY <1>5, <1>6, <1>11, Steps DEF Uncache
<1>12. CASE ReadCache  BY <1>5, <1>6, <1>12, Steps DEF ReadCache
<1>13. CASE AddCache  BY <1>5, <1>6, <1>13, Steps DEF AddCache
<1>14. CASE SetHandler
  <2>1. me.timer \in Timers
    <3>1. Pc(Caller) \in Using  BY <1>14 DEF SetHandler, At, Pc, Using
    <3> QED  BY <1>1, <3>1 DEF PlaceInv, PlaceOf, me
  <2>2. sources' = [sources EXCEPT ![me.timer].handler = me.act]  BY <1>14 DEF SetHandler
  <2>3. Made' = Made  BY <1>1, <2>1, <2>2, SourceFields DEF Made
  <2> QED  BY <1>6, <1>14, <2>3, Steps DEF SetHandler
<1>15. ASSUME NEW p \in Processes, Cancel(p) PROVE CountInv'
  <2>1. CASE CancelRead(p)
    <3>1. UNCHANGED <<queue, how, sources>>  BY <2>1 DEF CancelRead
    <3>2. PICK to \in {"idle", "cancelRemove"} : Onward(p, "cancelRead", to)  BY <2>1, Steps
    <3> QED  BY <1>5, <1>6, <3>1, <3>2
  <2>2. CASE CancelRemove(p)  BY <1>5, <1>6, <2>2, Steps DEF CancelRemove
  <2>3. CASE CancelUncache(p)  BY <1>5, <1>6, <2>3, Steps DEF CancelUncache
  <2>4. CASE CancelSource(p)
    <3>1. Pc(p) \in Cancelling \ {"cancelRead"}
      BY <2>4 DEF CancelSource, At, Pc, Cancelling
    <3>2. proc[p].timer \in Timers  BY <1>1, <3>1 DEF PlaceInv, PlaceOf
    <3>3. Made' = Made  BY <1>1, <2>4, <3>2, SourceFields DEF Made, CancelSource
    <3> QED  BY <1>6, <2>4, <3>3, Steps DEF CancelSource
  <2> QED  BY <1>15, <2>1, <2>2, <2>3, <2>4 DEF Cancel
<1>16. ASSUME NEW t \in Timers, Fire(t) \/ RunAction(t) \/ Fetch(t) \/ Enumerate(t) \/ UncacheRun(t)
       PROVE  CountInv'
  <2>1. UNCHANGED <<queue, how, sources>>
    BY <1>16 DEF Fire, RunAction, Fetch, Enumerate, UncacheRun
  <2>2. PICK from, to \in {"idle", "run", "fetch", "enumerate", "uncacheRun", "cancelRead"} :
           Onward(t, from, to)
    BY <1>16, Steps
  <2> QED  BY <1>5, <1>6, <2>1, <2>2
<1>17. CASE UNCHANGED <<queue, how, sources, proc>>
  BY <1>3, <1>4, <1>5, <1>17 DEF Pc
<1>18. Race \/ UNCHANGED vars => UNCHANGED <<queue, how, sources, proc>>  BY DEF Race, vars
<1> QED
  BY <1>7, <1>8, <1>9, <1>10, <1>11, <1>12, <1>13, <1>14, <1>15, <1>16, <1>17, <1>18
  DEF Next, Call, Handler

(* What a handler has still to run. *)
LEMMA Enumerated ==
    ASSUME AnyQueueInv, NEW t \in Timers, Pc(t) = "enumerate"
    PROVE  LET b == proc[t].arr
               i == proc[t].idx
           IN  /\ ToRun(t) = << >> <=> b = NULL \/ i > Len(arrays[b])
               /\ ToRun(t) /= << >> =>
                     b \in Actions /\ i \in 1..Len(arrays[b]) /\ Head(ToRun(t)) = arrays[b][i]
<1> DEFINE b == proc[t].arr
           i == proc[t].idx
           n == Len(arrays[b])
<1>1. /\ TypeOK /\ PlaceOf(t) /\ t \in Processes
      /\ i \in Nat /\ i > 0 /\ b \in Actions \cup {NULL}
  BY TheProcesses DEF AnyQueueInv, PlaceInv, PlaceOf, TypeOK
<1>2. CASE b = NULL
  BY <1>2 DEF ToRun
<1>3. CASE b /= NULL
  <2>1. b \in Actions /\ arrays[b] \in Seq(Actions) /\ n \in Nat
        /\ \A j \in 1..n : arrays[b][j] \in Actions
    BY <1>1, <1>3 DEF TypeOK
  <2>2. ToRun(t) = SubSeq(arrays[b], i, n)  BY <1>3 DEF ToRun
  <2> HIDE DEF b, i, n
  <2>3. CASE i > n
    <3>1. ToRun(t) = << >>  BY <1>1, <2>1, <2>2, <2>3, SubSeqEmpty
    <3> QED  BY <1>1, <2>3, <3>1 DEF b, i, n
  <2>4. CASE i <= n
    <3>1. i \in 1..n /\ n \in i..n  BY <1>1, <2>1, <2>4
    <3>2. i \in Int /\ n \in Int /\ \A j \in i..n : arrays[b][j] \in Actions
      BY <1>1, <2>1
    <3>3. Len(ToRun(t)) = n - i + 1  BY <2>2, <2>4, <3>2, SubSeqProperties
    <3>4. ToRun(t) /= << >>  BY <3>1, <3>2, <3>3
    <3>5. Head(ToRun(t)) = arrays[b][i]  BY <2>1, <2>2, <3>1, HeadTailOfSubSeq DEF n
    <3>6. ~(i > n)  BY <2>4, <3>2
    <3> QED  BY <1>3, <2>1, <3>1, <3>4, <3>5, <3>6 DEF b, i, n
  <2> QED  BY <1>1, <2>1, <2>3, <2>4
<1> QED  BY <1>2, <1>3

(* The action that a handler runs has been scheduled, by a call that has   *)
(* its place in the table or the cache.                                    *)
LEMMA RunsScheduled ==
    ASSUME AnyQueueInv, NEW t \in Timers
    PROVE  /\ RunAction(t) => proc[t].act \in Scheduled
           /\ Enumerate(t) /\ ToRun(t) /= << >> => Head(ToRun(t)) \in Scheduled
<1>1. ASSUME RunAction(t) PROVE proc[t].act \in Scheduled
  <2>1. Pc(t) \in Handling  BY <1>1 DEF RunAction, At, Pc, Handling
  <2> QED  BY <2>1, TheProcesses DEF AnyQueueInv, PlaceInv, PlaceOf
<1>2. ASSUME Enumerate(t), ToRun(t) /= << >> PROVE Head(ToRun(t)) \in Scheduled
  <2>1. Pc(t) = "enumerate"  BY <1>2 DEF Enumerate, At, Pc
  <2>2. PICK b \in Actions : \E i \in 1..Len(arrays[b]) : Head(ToRun(t)) = arrays[b][i]
    BY <1>2, <2>1, Enumerated
  <2> QED  BY <2>2 DEF AnyQueueInv, ArrayInv
<1> QED  BY <1>1, <1>2

(* The call works on one action, until it returns. *)
LEMMA SameCall ==
    ASSUME AnyQueueInv
    PROVE  /\ Lookup \/ Create \/ Uncache \/ ReadCache \/ AddCache =>
                 Pc(Caller) \in Calling \ {"setHandler"} /\ me'.act = me.act
           /\ Uncache \/ ReadCache \/ AddCache => me'.timer = me.timer
           /\ Create => Pc(Caller) = "create"
<1>1. \A from, to, timer, act, arr, idx :
         Goes(Caller, from, to, timer, act, arr, idx) =>
            Pc(Caller) = from /\ me'.act = act /\ me'.timer = timer
  BY DEF Goes, me
<1>2. ASSUME Create PROVE Pc(Caller) = "create" /\ me'.act = me.act
  <2>1. PICK t \in Timers \ Made :
           proc' = [proc EXCEPT ![Caller].pc = ByOption, ![Caller].timer = t]
    BY <1>2, CreateTakesNew
  <2>2. Goes(Caller, "create", ByOption, t, me.act, me.arr, me.idx)  BY <1>2, <2>1, CallGoes
  <2> QED  BY <1>1, <2>2
<1>3. Lookup => Pc(Caller) = "lookup" /\ me'.act = me.act  BY <1>1, CallGoes
<1>4. Uncache => Pc(Caller) = "uncache" /\ me'.act = me.act /\ me'.timer = me.timer
  BY <1>1, CallGoes
<1>5. ReadCache => Pc(Caller) = "readCache" /\ me'.act = me.act /\ me'.timer = me.timer
  BY <1>1, CallGoes
<1>6. AddCache => Pc(Caller) = "addCache" /\ me'.act = me.act /\ me'.timer = me.timer
  BY <1>1, CallGoes
<1>7. {"lookup", "create", "uncache", "readCache", "addCache"} \subseteq Calling \ {"setHandler"}
  BY DEF Calling
<1> QED  BY <1>2, <1>3, <1>4, <1>5, <1>6, <1>7

(* A call begins with schedule only, and keeps its action. *)
LEMMA CallBegins ==
    ASSUME AnyQueueInv, [Next]_vars
    PROVE  \/ \E option \in Options, repeats \in BOOLEAN : Schedule(option, repeats)
           \/ /\ UNCHANGED how
              /\ Pc(Caller)' \in Calling => Pc(Caller) \in Calling /\ me'.act = me.act
              /\ Pc(Caller)' \in Calling \ {"setHandler"} => Pc(Caller) /= "setHandler"
<1> USE TheProcesses
<1> DEFINE Stays == /\ Pc(Caller)' \in Calling => Pc(Caller) \in Calling /\ me'.act = me.act
                    /\ Pc(Caller)' \in Calling \ {"setHandler"} => Pc(Caller) /= "setHandler"
<1>1. ASSUME NEW from, NEW to, Onward(Caller, from, to), to \in {"idle"} \cup Cancelling
      PROVE  Stays
  BY <1>1 DEF Onward, Calling, Cancelling
<1>2. ASSUME NEW t \in Timers, NEW from, NEW to, Onward(t, from, to) PROVE Stays
  <2>1. proc'[Caller] = proc[Caller] /\ Pc(Caller)' = Pc(Caller)  BY <1>2 DEF Onward
  <2> QED  BY <2>1 DEF me
<1>3. CASE CancelCall
  <2>1. Onward(Caller, "idle", "cancelRead") /\ UNCHANGED how  BY <1>3, Steps DEF CancelCall
  <2> QED  BY <1>1, <2>1 DEF Cancelling
<1>4. CASE Lookup \/ Create \/ Uncache \/ ReadCache \/ AddCache
  <2>1. UNCHANGED how  BY <1>4 DEF Lookup, Create, Uncache, ReadCache, AddCache
  <2> QED  BY <1>4, <2>1, SameCall
<1>5. CASE SetHandler
  <2>1. Onward(Caller, "setHandler", "idle") /\ UNCHANGED how  BY <1>5, Steps DEF SetHandler
  <2> QED  BY <1>1, <2>1
<1>6. ASSUME NEW p \in Processes, Cancel(p) PROVE Stays /\ UNCHANGED how
  <2>1. UNCHANGED how
    BY <1>6 DEF Cancel, CancelRead, CancelRemove, CancelUncache, CancelSource
  <2>2. PICK from, to \in {"idle"} \cup Cancelling : Onward(p, from, to)
    <3>1. {"cancelRead", "cancelRemove", "cancelUncache", "cancelSource"} \subseteq Cancelling
      BY DEF Cancelling
    <3>2. CASE CancelRead(p)
      <4>1. PICK to \in {"idle", "cancelRemove"} : Onward(p, "cancelRead", to)  BY <3>2, Steps
      <4> QED  BY <3>1, <4>1
    <3>3. CASE CancelRemove(p)  BY <3>1, <3>3, Steps
    <3>4. CASE CancelUncache(p)  BY <3>1, <3>4, Steps
    <3>5. CASE CancelSource(p)  BY <3>1, <3>5, Steps
    <3> QED  BY <1>6, <3>2, <3>3, <3>4, <3>5 DEF Cancel
  <2> HIDE DEF Stays
  <2>3. CASE p = Caller  BY <1>1, <2>1, <2>2, <2>3
  <2>4. CASE p \in Timers  BY <1>2, <2>1, <2>2, <2>4
  <2> QED  BY <2>3, <2>4
<1>7. ASSUME NEW t \in Timers, Fire(t) \/ RunAction(t) \/ Fetch(t) \/ Enumerate(t) \/ UncacheRun(t)
      PROVE  Stays /\ UNCHANGED how
  <2>1. UNCHANGED how  BY <1>7 DEF Fire, RunAction, Fetch, Enumerate, UncacheRun
  <2>2. PICK from, to : Onward(t, from, to)  BY <1>7, Steps
  <2> HIDE DEF Stays
  <2> QED  BY <1>2, <2>1, <2>2
<1>8. CASE Race \/ UNCHANGED vars
  BY <1>8 DEF Race, vars, me, Pc
<1> QED
  BY <1>3, <1>4, <1>5, <1>6, <1>7, <1>8 DEF Next, Call, Handler

(* The arrays hold what was merged, each action once. *)
LEMMA NextArray == ASSUME AnyQueueInv, [Next]_vars PROVE ArrayInv'
<1> USE TheProcesses
<1>1. TypeOK /\ PlaceInv /\ ArrayInv /\ FreshInv  BY DEF AnyQueueInv
<1>2. CASE \E option \in Options, repeats \in BOOLEAN : Schedule(option, repeats)
  <2>1. PICK option \in Options, repeats \in BOOLEAN : Schedule(option, repeats)  BY <1>2
  <2>2. PICK a \in Actions \ Scheduled :
           /\ how' = [how EXCEPT ![a] = [option |-> option, repeats |-> repeats]]
           /\ proc' = [proc EXCEPT ![Caller].pc = "lookup", ![Caller].act = a]
           /\ Scheduled' = Scheduled \cup {a}
    BY <1>1, <2>1, ScheduleTakesNew
  <2>3. me'.act = a  BY <1>1, <2>2 DEF TypeOK, me
  <2>4. arrays' = arrays  BY <2>1 DEF Schedule
  <2>5. \A b \in Scheduled : b /= a /\ Option(b)' = Option(b)
    BY <1>1, <2>2 DEF TypeOK, Option
  <2> QED  BY <1>1, <2>2, <2>3, <2>4, <2>5 DEF ArrayInv
<1>3. ASSUME UNCHANGED how,
             Pc(Caller)' \in Calling => Pc(Caller) \in Calling /\ me'.act = me.act,
             Pc(Caller)' \in Calling \ {"setHandler"} => Pc(Caller) /= "setHandler",
             UNCHANGED arrays
      PROVE  ArrayInv'
  <2>1. Scheduled' = Scheduled /\ \A a : Option(a)' = Option(a)
    BY <1>3 DEF Scheduled, New, Option
  <2> QED  BY <1>1, <1>3, <2>1 DEF ArrayInv
<1>4. CASE AddCache
  <2> DEFINE a == me.act
  <2>1. Onward(Caller, "addCache", "setHandler") /\ UNCHANGED how
    BY <1>4, Steps DEF AddCache
  <2>2. Pc(Caller) = "addCache" /\ Pc(Caller)' = "setHandler"  BY <2>1 DEF Onward
  <2>3. Pc(Caller) \in Calling \ {"setHandler"}  BY <2>2 DEF Calling
  <2>4. a \in Scheduled /\ Option(a) = "Merge" /\ a \in Actions
    BY <1>1, <2>2, <2>3, Scheduling DEF PlaceInv, PlaceOf, me
  <2>5. Scheduled' = Scheduled /\ \A b : Option(b)' = Option(b)
    BY <2>1 DEF Scheduled, New, Option
  <2>6. \A b \in Actions : \A i \in 1..Len(arrays[b]) : arrays[b][i] /= a
    BY <1>1, <2>3 DEF ArrayInv
  <2>7. arrays \in [Actions -> Seq(Actions)]
        /\ \/ arrays' = [arrays EXCEPT ![a] = <<a>>]
           \/ arrays' = [arrays EXCEPT ![me.arr] = Append(arrays[me.arr], a)]
    BY <1>1, <1>4 DEF AddCache, NewArray, TypeOK
  <2> HIDE DEF a
  <2>8. ASSUME NEW b \in Actions
        PROVE  \A i \in 1..Len(arrays'[b]) :
                  LET c == arrays'[b][i] IN
                  /\ c \in Scheduled /\ Option(c) = "Merge"
                  /\ \A j \in 1..Len(arrays'[b]) : arrays'[b][j] = c => i = j
    <3>1. CASE arrays'[b] = arrays[b]
      BY <1>1, <3>1 DEF ArrayInv
    <3>2. CASE arrays'[b] = <<a>>
      BY <2>4, <3>2
    <3>3. CASE arrays'[b] = Append(arrays[b], a)
      <4>1. /\ Len(arrays'[b]) = Len(arrays[b]) + 1 /\ Len(arrays[b]) \in Nat
            /\ \A i \in 1..Len(arrays[b]) : arrays'[b][i] = arrays[b][i]
            /\ arrays'[b][Len(arrays[b]) + 1] = a
        BY <2>4, <2>7, <3>3, AppendProperties
      <4>2. \A i \in 1..Len(arrays'[b]) : i \in 1..Len(arrays[b]) \/ i = Len(arrays[b]) + 1
        BY <4>1
      <4> QED  BY <1>1, <2>4, <2>6, <4>1, <4>2, SMTT(30) DEF ArrayInv
    <3> QED  BY <2>7, <3>1, <3>2, <3>3
  <2> QED  BY <2>2, <2>5, <2>8 DEF ArrayInv
<1>5. UNCHANGED arrays \/ AddCache
  BY DEF Next, Call, Handler, Cancel, Schedule, CancelCall, Lookup, Create, Uncache, ReadCache,
         SetHandler, CancelRead, CancelRemove, CancelUncache, CancelSource, Fire, RunAction,
         Fetch, Enumerate, UncacheRun, Race, vars
<1> QED  BY <1>2, <1>3, <1>4, <1>5, CallBegins

(* What the steps do to the sources. *)
LEMMA SourceSteps ==
    ASSUME AnyQueueInv, [Next]_vars
    PROVE  \/ UNCHANGED sources
           \/ \E t \in Timers \ Made :
                 /\ Create /\ sources' = [sources EXCEPT ![t].made = TRUE]
                 /\ self' = [self EXCEPT !.timerArry = t] /\ me'.timer = t
           \/ /\ SetHandler /\ me.timer \in Timers
              /\ sources' = [sources EXCEPT ![me.timer].handler = me.act]
           \/ \E p \in Processes :
                 /\ CancelSource(p) /\ proc[p].timer \in Timers
                 /\ sources' = [sources EXCEPT ![proc[p].timer].cancelled = TRUE]
<1> USE TheProcesses
<1>1. TypeOK /\ PlaceInv  BY DEF AnyQueueInv
<1>2. CASE Create
  <2>1. PICK t \in Timers \ Made :
           /\ sources' = [sources EXCEPT ![t].made = TRUE]
           /\ self' = [self EXCEPT !.timerArry = t]
           /\ proc' = [proc EXCEPT ![Caller].pc = ByOption, ![Caller].timer = t]
    BY <1>2, CreateTakesNew
  <2>2. Goes(Caller, "create", ByOption, t, me.act, me.arr, me.idx)  BY <1>2, <2>1, CallGoes
  <2>3. me'.timer = t  BY <2>2 DEF Goes, me
  <2> QED  BY <1>2, <2>1, <2>3
<1>3. CASE SetHandler
  <2>1. Pc(Caller) \in Using  BY <1>3 DEF SetHandler, At, Pc, Using
  <2>2. me.timer \in Timers  BY <1>1, <2>1 DEF PlaceInv, PlaceOf, me
  <2> QED  BY <1>3, <2>2 DEF SetHandler
<1>4. ASSUME NEW p \in Processes, CancelSource(p)
      PROVE  /\ proc[p].timer \in Timers
             /\ sources' = [sources EXCEPT ![proc[p].timer].cancelled = TRUE]
  <2>1. Pc(p) \in Cancelling \ {"cancelRead"}  BY <1>4 DEF CancelSource, At, Pc, Cancelling
  <2> QED  BY <1>1, <1>4, <2>1 DEF PlaceInv, PlaceOf, CancelSource
<1>5. \/ UNCHANGED sources \/ Create \/ SetHandler
      \/ \E p \in Processes : CancelSource(p)
  BY DEF Next, Call, Handler, Cancel, Schedule, CancelCall, Lookup, Uncache, ReadCache,
         AddCache, CancelRead, CancelRemove, CancelUncache, Fire, RunAction,
         Fetch, Enumerate, UncacheRun, Race, vars
<1> QED  BY <1>2, <1>3, <1>4, <1>5

(* The steps that change what is said of the actions. *)
LEMMA GhostSteps ==
    ASSUME AnyQueueInv, [Next]_vars
    PROVE  \/ UNCHANGED ghosts
           \/ SetHandler
           \/ \E p \in Processes : (CancelRead(p) \/ CancelSource(p)) /\ CancelReturns(p)
           \/ \E t \in Timers : RunAction(t) /\ proc[t].act \in Scheduled /\ Runs(proc[t].act)
           \/ \E t \in Timers : /\ Enumerate(t) /\ ToRun(t) /= << >>
                                /\ Head(ToRun(t)) \in Scheduled /\ Runs(Head(ToRun(t)))
<1> USE TheProcesses
<1>1. ASSUME NEW t \in Timers, RunAction(t)
      PROVE  proc[t].act \in Scheduled /\ Runs(proc[t].act)
  BY <1>1, RunsScheduled DEF RunAction
<1>2. ASSUME NEW t \in Timers, Enumerate(t)
      PROVE  \/ UNCHANGED ghosts
             \/ ToRun(t) /= << >> /\ Head(ToRun(t)) \in Scheduled /\ Runs(Head(ToRun(t)))
  BY <1>2, RunsScheduled DEF Enumerate
<1>3. ASSUME NEW p \in Processes, CancelRead(p) \/ CancelSource(p)
      PROVE  UNCHANGED ghosts \/ CancelReturns(p)
  BY <1>3 DEF CancelRead, CancelSource
<1>4. \/ UNCHANGED ghosts \/ SetHandler
      \/ \E p \in Processes : CancelRead(p) \/ CancelSource(p)
      \/ \E t \in Timers : RunAction(t) \/ Enumerate(t)
  BY DEF Next, Call, Handler, Cancel, Schedule, CancelCall, Lookup, Create, Uncache, ReadCache,
         AddCache, CancelRemove, CancelUncache, Fire, Fetch, UncacheRun, Race, vars
<1> QED  BY <1>1, <1>2, <1>3, <1>4

(* The steps that change the table. *)
LEMMA TableSteps ==
    ASSUME AnyQueueInv, [Next]_vars
    PROVE  \/ Table' = Table
           \/ Create
           \/ \E p \in Processes : CancelRemove(p) /\ Table' = NULL
<1> USE TheProcesses
<1>1. TypeOK  BY DEF AnyQueueInv
<1>2. UNCHANGED self => Table' = Table  BY DEF Table
<1>3. Uncache \/ AddCache => Table' = Table
  BY <1>1 DEF Uncache, AddCache, NewArray, Table, TypeOK
<1>4. \A p \in Processes : CancelRemove(p) => Table' = NULL
  BY <1>1 DEF CancelRemove, Table, TypeOK
<1>5. \A p \in Processes : CancelUncache(p) \/ CancelSource(p) => Table' = Table
  BY <1>1 DEF CancelUncache, CancelSource, Table, TypeOK
<1>6. \A t \in Timers : UncacheRun(t) => Table' = Table
  BY <1>1 DEF UncacheRun, Table, TypeOK
<1>7. \/ UNCHANGED self \/ Create \/ Uncache \/ AddCache
      \/ \E p \in Processes : CancelRemove(p) \/ CancelUncache(p) \/ CancelSource(p)
      \/ \E t \in Timers : UncacheRun(t)
  BY DEF Next, Call, Handler, Cancel, Schedule, CancelCall, Lookup, ReadCache,
         SetHandler, CancelRead, RunAction, Fire, Fetch, Enumerate, Race, vars
<1> QED  BY <1>2, <1>3, <1>4, <1>5, <1>6, <1>7

(* A timer is made before it is used, and an action is not run, replaced   *)
(* or cancelled before its call has returned it to be due.                 *)
LEMMA NextFresh == ASSUME AnyQueueInv, [Next]_vars PROVE FreshInv'
<1> USE TheProcesses, Scheduling
<1>1. TypeOK /\ PlaceInv /\ FreshInv /\ TypeOK'  BY NextType DEF AnyQueueInv
<1> DEFINE Fresh(a) == a \notin Scheduled \/ (Pc(Caller) \in Calling /\ me.act = a)
<1>2. ASSUME NEW a \in Actions, Fresh(a)' PROVE Fresh(a)
  <2>1. CASE \E option \in Options, repeats \in BOOLEAN : Schedule(option, repeats)
    <3>1. PICK b \in Actions \ Scheduled :
             /\ proc' = [proc EXCEPT ![Caller].pc = "lookup", ![Caller].act = b]
             /\ Scheduled' = Scheduled \cup {b}
      BY <1>1, <2>1, ScheduleTakesNew
    <3>2. me'.act = b  BY <1>1, <3>1 DEF TypeOK, me
    <3> QED  BY <1>2, <3>1, <3>2
  <2>2. CASE /\ UNCHANGED how
             /\ Pc(Caller)' \in Calling => Pc(Caller) \in Calling /\ me'.act = me.act
    <3>1. Scheduled' = Scheduled  BY <2>2 DEF Scheduled, New
    <3> QED  BY <1>2, <2>2, <3>1
  <2> QED  BY <2>1, <2>2, CallBegins
<1>3. \A a \in Actions : Fresh(a) => status[a] = "new" /\ \A t \in Timers : sources[t].handler /= a
  BY <1>1 DEF FreshInv
<1>4. Scheduled \subseteq Scheduled'
  <2>1. CASE \E option \in Options, repeats \in BOOLEAN : Schedule(option, repeats)
    BY <1>1, <2>1, ScheduleTakesNew
  <2>2. CASE UNCHANGED how  BY <2>2 DEF Scheduled, New
  <2> QED  BY <2>1, <2>2, CallBegins
<1> HIDE DEF Fresh
<1>5. ASSUME NEW a \in Actions, Fresh(a)' PROVE status'[a] = "new"
  <2>1. Fresh(a) /\ status[a] = "new"  BY <1>2, <1>3, <1>5
  <2>2. CASE UNCHANGED ghosts  BY <2>1, <2>2 DEF ghosts
  <2>3. CASE SetHandler
    <3>1. Onward(Caller, "setHandler", "idle") /\ UNCHANGED how  BY <2>3, Steps DEF SetHandler
    <3>2. Pc(Caller) \in Calling /\ Pc(Caller)' \notin Calling
      BY <3>1 DEF Onward, Calling
    <3>3. a \notin Scheduled' /\ Scheduled' = Scheduled
      BY <1>5, <3>1, <3>2 DEF Fresh, Scheduled, New
    <3>4. a /= me.act  BY <1>1, <3>2, <3>3 DEF PlaceInv, PlaceOf, me
    <3> QED  BY <1>1, <2>1, <2>3, <3>4 DEF SetHandler, TypeOK
  <2>4. ASSUME NEW p \in Processes, CancelRead(p) \/ CancelSource(p), CancelReturns(p)
        PROVE  status'[a] = "new"
    <3>1. p = Caller => Pc(Caller)' = "idle" /\ UNCHANGED how
      <4>1. CancelReturns(p) => proc'[p] = Idle
        BY <1>1 DEF CancelReturns, Finish, TypeOK
      <4> QED  BY <2>4, <4>1 DEF Idle, Pc, CancelRead, CancelSource
    <3>2. p = Caller => a \notin Scheduled  BY <1>5, <3>1 DEF Fresh, Calling, Scheduled, New
    <3>3. p = Caller => how[a] = NULL  BY <3>2
    <3> QED  BY <1>1, <2>1, <2>4, <3>3 DEF CancelReturns, TypeOK
  <2>5. ASSUME NEW b, Runs(b) PROVE status'[a] = "new"
    BY <1>1, <2>1, <2>5 DEF Runs, TypeOK
  <2> QED  BY <2>2, <2>3, <2>4, <2>5, GhostSteps
<1>6. ASSUME NEW a \in Actions, Fresh(a)', NEW t \in Timers PROVE sources'[t].handler /= a
  <2>1. Fresh(a) /\ \A u \in Timers : sources[u].handler /= a  BY <1>2, <1>3, <1>6
  <2>2. CASE UNCHANGED sources  BY <2>1, <2>2
  <2>3. CASE \E u \in Timers \ Made : sources' = [sources EXCEPT ![u].made = TRUE]
    BY <1>1, <2>1, <2>3, SourceFields
  <2>4. CASE SetHandler /\ me.timer \in Timers
             /\ sources' = [sources EXCEPT ![me.timer].handler = me.act]
    <3>1. Onward(Caller, "setHandler", "idle") /\ UNCHANGED how  BY <2>4, Steps DEF SetHandler
    <3>2. Pc(Caller) \in Calling /\ Pc(Caller)' \notin Calling
      BY <3>1 DEF Onward, Calling
    <3>3. a \notin Scheduled' /\ Scheduled' = Scheduled
      BY <1>6, <3>1, <3>2 DEF Fresh, Scheduled, New
    <3>4. a /= me.act  BY <1>1, <3>2, <3>3 DEF PlaceInv, PlaceOf, me
    <3> QED  BY <1>1, <2>1, <2>4, <3>4, SourceFields
  <2>5. CASE \E p \in Processes :
                /\ proc[p].timer \in Timers
                /\ sources' = [sources EXCEPT ![proc[p].timer].cancelled = TRUE]
    BY <1>1, <2>1, <2>5, SourceFields
  <2> QED  BY <2>2, <2>3, <2>4, <2>5, SourceSteps
<1>7. ASSUME NEW a \in Actions \ Scheduled' PROVE runs'[a] = 0
  <2>1. a \in Actions \ Scheduled /\ runs[a] = 0  BY <1>1, <1>4 DEF FreshInv
  <2>2. ASSUME NEW b \in Scheduled, Runs(b) PROVE runs'[a] = 0
    BY <1>1, <2>1, <2>2 DEF Runs, TypeOK
  <2>3. UNCHANGED ghosts \/ SetHandler \/ (\E p \in Processes : CancelReturns(p)) => runs' = runs
    BY DEF ghosts, SetHandler, CancelReturns
  <2> QED  BY <2>1, <2>2, <2>3, GhostSteps
<1>8. ASSUME NEW t \in Timers
      PROVE  /\ sources[t].made => sources'[t].made
             /\ ~sources'[t].made => sources'[t].handler = NULL
  <2>1. ~sources[t].made => sources[t].handler = NULL  BY <1>1 DEF FreshInv
  <2>2. CASE UNCHANGED sources  BY <2>1, <2>2
  <2>3. CASE \E u \in Timers \ Made : sources' = [sources EXCEPT ![u].made = TRUE]
    BY <1>1, <2>1, <2>3, SourceFields
  <2>4. CASE SetHandler /\ me.timer \in Timers
             /\ sources' = [sources EXCEPT ![me.timer].handler = me.act]
    <3>1. Pc(Caller) \in Using  BY <2>4 DEF SetHandler, At, Pc, Using
    <3>2. sources[me.timer].made  BY <1>1, <3>1 DEF FreshInv
    <3> QED  BY <1>1, <2>1, <2>4, <3>2, SourceFields
  <2>5. CASE \E p \in Processes :
                /\ proc[p].timer \in Timers
                /\ sources' = [sources EXCEPT ![proc[p].timer].cancelled = TRUE]
    BY <1>1, <2>1, <2>5, SourceFields
  <2> QED  BY <2>2, <2>3, <2>4, <2>5, SourceSteps
<1>9. Table' /= NULL => sources'[Table'].made
  <2>1. CASE Table' = Table
    <3>1. Table \in Timers \cup {NULL} /\ (Table /= NULL => sources[Table].made)
      BY <1>1 DEF TypeOK, FreshInv, Table
    <3> QED  BY <1>8, <2>1, <3>1
  <2>2. CASE Create
    <3>1. PICK t \in Timers : /\ sources' = [sources EXCEPT ![t].made = TRUE]
                              /\ self' = [self EXCEPT !.timerArry = t]
      BY <2>2, CreateTakesNew
    <3>2. Table' = t  BY <1>1, <3>1 DEF Table, TypeOK
    <3> QED  BY <1>1, <3>1, <3>2, SourceFields
  <2> QED  BY <2>1, <2>2, TableSteps
<1>10. Pc(Caller)' \in Using => sources'[me'.timer].made
  <2> SUFFICES ASSUME Pc(Caller)' \in Using PROVE sources'[me'.timer].made  OBVIOUS
  <2>1. ASSUME Pc(Caller) \in Using, me'.timer = me.timer PROVE sources'[me'.timer].made
    <3>1. sources[me.timer].made  BY <1>1, <2>1 DEF FreshInv
    <3>2. me.timer \in Timers  BY <1>1, <2>1 DEF PlaceInv, PlaceOf, me
    <3> QED  BY <1>8, <2>1, <3>1, <3>2
  <2>2. CASE Lookup
    <3>1. Goes(Caller, "lookup", IF Table = NULL THEN "create" ELSE ByOption,
               Table, me.act, me.arr, me.idx)
      BY <2>2, CallGoes DEF AnyQueueInv
    <3>2. Table /= NULL /\ me'.timer = Table
      BY <3>1 DEF Goes, me, Using
    <3>3. Table \in Timers /\ sources[Table].made  BY <1>1, <3>2 DEF TypeOK, FreshInv, Table
    <3> QED  BY <1>8, <3>2, <3>3
  <2>3. CASE Create
    <3>1. PICK t \in Timers \ Made :
             /\ sources' = [sources EXCEPT ![t].made = TRUE]
             /\ proc' = [proc EXCEPT ![Caller].pc = ByOption, ![Caller].timer = t]
      BY <2>3, CreateTakesNew
    <3>2. Goes(Caller, "create", ByOption, t, me.act, me.arr, me.idx)  BY <2>3, <3>1, CallGoes
    <3>3. me'.timer = t  BY <3>2 DEF Goes, me
    <3> QED  BY <1>1, <3>1, <3>3, SourceFields
  <2>4. CASE Uncache \/ ReadCache \/ AddCache
    <3>1. Pc(Caller) \in Using
      BY <2>4 DEF Uncache, ReadCache, AddCache, At, Pc, Using
    <3> QED  BY <2>1, <2>4, <3>1, SameCall
  <2>5. CASE proc' = proc  BY <2>1, <2>5 DEF me, Pc
  <2>6. ASSUME NEW from, NEW to, Onward(Caller, from, to), to \notin Using PROVE FALSE
    BY <2>6 DEF Onward
  <2>7. ASSUME NEW t \in Timers, NEW from, NEW to, Onward(t, from, to)
        PROVE  sources'[me'.timer].made
    <3>1. proc'[Caller] = proc[Caller] /\ Pc(Caller)' = Pc(Caller)  BY <2>7 DEF Onward
    <3> QED  BY <2>1, <3>1 DEF me
  <2>8. ASSUME NEW option \in Options, NEW repeats \in BOOLEAN, Schedule(option, repeats)
        PROVE  FALSE
    <3>1. Onward(Caller, "idle", "lookup")  BY <2>8, Steps
    <3> QED  BY <2>6, <3>1 DEF Using
  <2>9. CASE CancelCall \/ SetHandler
    <3>1. Onward(Caller, "idle", "cancelRead") \/ Onward(Caller, "setHandler", "idle")
      BY <2>9, Steps
    <3> QED  BY <2>6, <3>1 DEF Using
  <2>10. ASSUME NEW p \in Processes, Cancel(p) PROVE sources'[me'.timer].made
    <3>1. PICK from, to \in {"idle", "cancelRead", "cancelRemove", "cancelUncache", "cancelSource"} :
             Onward(p, from, to)
      <4>1. CASE CancelRead(p)  BY <4>1, Steps
      <4>2. CASE CancelRemove(p)  BY <4>2, Steps
      <4>3. CASE CancelUncache(p)  BY <4>3, Steps
      <4>4. CASE CancelSource(p)  BY <4>4, Steps
      <4> QED  BY <2>10, <4>1, <4>2, <4>3, <4>4 DEF Cancel
    <3>2. p /= Caller  BY <2>6, <3>1 DEF Using
    <3> QED  BY <2>7, <3>1, <3>2
  <2>11. ASSUME NEW t \in Timers,
                Fire(t) \/ RunAction(t) \/ Fetch(t) \/ Enumerate(t) \/ UncacheRun(t)
         PROVE  sources'[me'.timer].made
    <3>1. PICK from, to : Onward(t, from, to)  BY <2>11, Steps
    <3> QED  BY <2>7, <3>1
  <2>12. Race \/ UNCHANGED vars => proc' = proc  BY DEF Race, vars
  <2> QED
    BY <2>2, <2>3, <2>4, <2>5, <2>8, <2>9, <2>10, <2>11, <2>12 DEF Next, Call, Handler
<1> QED
  BY <1>5, <1>6, <1>7, <1>8, <1>9, <1>10 DEF FreshInv, Fresh, Table

(* At the start nothing is scheduled, and no timer is made. *)
LEMMA InitAny == ASSUME Init PROVE AnyQueueInv
<1> USE TheProcesses
<1>1. TypeOK  BY TimerAssumption DEF Init, TypeOK, Idle
<1>2. Scheduled = {} /\ Made = {}  BY DEF Init, Scheduled, New, Made
<1>3. \A p \in Processes : Pc(p) = "idle" /\ proc[p] = Idle  BY DEF Init, Pc, Idle
<1>4. PlaceInv /\ Holders = {}
  BY <1>3 DEF PlaceInv, PlaceOf, Holders, Holds, Calling, Cancelling, Handling, Using
<1>5. SemInv  BY <1>4 DEF SemInv, Init
<1>6. CountInv
  <2>1. Schedules[queue] \in Nat  BY TimerAssumption DEF Init
  <2> QED  BY <1>2, <1>3, <2>1, FS_EmptySet DEF CountInv
<1>7. ArrayInv /\ FreshInv
  <2>1. \A b \in Actions : 1..Len(arrays[b]) = {}  BY DEF Init
  <2>2. self.timerArry = NULL  BY DEF Init
  <2> QED  BY <1>3, <2>1, <2>2 DEF Init, ArrayInv, FreshInv, Using, Calling
<1> QED  BY <1>1, <1>4, <1>5, <1>6, <1>7 DEF AnyQueueInv

(* Every step keeps the invariant of every queue.                          *)
LEMMA NextAny == ASSUME AnyQueueInv, [Next]_vars PROVE AnyQueueInv'
BY NextType, NextPlace, NextSem, NextCount, NextArray, NextFresh DEF AnyQueueInv

(* Whatever the queue and however often the timer is scheduled: the        *)
(* invariant of every queue.                                               *)
THEOREM AnyQueue == Spec => []AnyQueueInv
<1>1. Init => AnyQueueInv  BY InitAny
<1>2. AnyQueueInv /\ [Next]_vars => AnyQueueInv'  BY NextAny
<1> QED  BY <1>1, <1>2, PTL DEF Spec

(* Every variable has its type: the semaphore's count is 0 or 1, so it is  *)
(* never signalled without a wait before.                                  *)
THEOREM TypeCorrect == Spec => []TypeOK
<1>1. AnyQueueInv => TypeOK  BY DEF AnyQueueInv
<1> QED  BY <1>1, AnyQueue, PTL

(* On any queue: the semaphore is taken by one cancel at a time, of the    *)
(* caller or of a handler, and while nobody is between its removal of the  *)
(* timer and its dispatch_source_cancel the semaphore is there.            *)
THEOREM SemaphoreIsGivenBack ==
    Spec => [](/\ \A p, q \in Processes : Holds(p) /\ Holds(q) => p = q
               /\ self.semaphore = 1 <=> \A p \in Processes : ~Holds(p))
<1>1. AnyQueueInv => /\ \A p, q \in Processes : Holds(p) /\ Holds(q) => p = q
                     /\ self.semaphore = 1 <=> \A p \in Processes : ~Holds(p)
  BY DEF AnyQueueInv, SemInv, TypeOK, Holders
<1> QED  BY <1>1, AnyQueue, PTL

-----------------------------------------------------------------------------
(* On the main queue. *)
MainInv == queue = "main" /\ AnyQueueInv /\ MainQueueInv

(* What a step leaves alone. *)
LEMMA Frame ==
    /\ UNCHANGED how => Scheduled' = Scheduled /\ \A a : Option(a)' = Option(a)
    /\ UNCHANGED self => Table' = Table
    /\ UNCHANGED <<self, sources>> => Handler0' = Handler0
    /\ UNCHANGED <<self, arrays>> => \A a : InCache(a)' <=> InCache(a)
    /\ UNCHANGED ghosts => \A a : Unrun(a)' <=> Unrun(a)
BY DEF Scheduled, New, Option, Table, Handler0, InCache, Unrun, ghosts

(* Who goes on is alone, before the step and after it. *)
LEMMA Alone ==
    ASSUME MainInv, NEW p \in Processes, NEW from, NEW to,
           At(p, from), Onward(p, from, to)
    PROVE  /\ \A q \in Processes \ {p} :
                 /\ Pc(q) = "idle" /\ proc[q] = Idle
                 /\ Pc(q)' = "idle" /\ proc'[q] = Idle
           /\ TurnsInv'
<1>1. \A q \in Processes \ {p} : Pc(q) = "idle"  BY DEF MainInv, At, Pc
<1>2. \A q \in Processes \ {p} : proc[q] = Idle
  BY <1>1 DEF MainInv, AnyQueueInv, PlaceInv, PlaceOf
<1>3. \A q \in Processes \ {p} : Pc(q)' = "idle" /\ proc'[q] = Idle
  BY <1>1, <1>2 DEF Onward
<1> QED  BY <1>1, <1>2, <1>3 DEF TurnsInv

(* What is cached has not run while no handler is under way. *)
LEMMA NothingPassed ==
    ASSUME MainInv, \A t \in Timers : Pc(t) = "idle"
    PROVE  /\ \A i : ~Passed(i)
           /\ \A a \in Actions : InCache(a) => runs[a] = 0
<1>1. \A i : ~Passed(i)  BY DEF Passed
<1>2. ASSUME NEW a \in Actions, InCache(a) PROVE runs[a] = 0
  <2>1. runs[a] \in 0..2  BY DEF MainInv, AnyQueueInv, TypeOK
  <2>2. PICK i \in 1..Len(arrays[self.cache]) : arrays[self.cache][i] = a
    BY <1>2 DEF InCache, Contains
  <2>3. ~(runs[a] > 0)  BY <1>1, <1>2, <2>2 DEF MainInv, MainQueueInv, RunInv, InCache
  <2> QED  BY <2>1, <2>3
<1> QED  BY <1>1, <1>2

(* A schedule adds an action to those that are known. *)
LEMMA MainSchedule ==
    ASSUME MainInv, NEW option \in Options, NEW repeats \in BOOLEAN, Schedule(option, repeats)
    PROVE  MainQueueInv'
<1> USE TheProcesses, Scheduling
<1>1. TypeOK /\ PlaceInv /\ FreshInv /\ MainQueueInv  BY DEF MainInv, AnyQueueInv
<1>2. PICK a \in Actions \ Scheduled :
         /\ how' = [how EXCEPT ![a] = [option |-> option, repeats |-> repeats]]
         /\ proc' = [proc EXCEPT ![Caller].pc = "lookup", ![Caller].act = a]
         /\ Scheduled' = Scheduled \cup {a}
  BY <1>1, ScheduleTakesNew
<1>3. At(Caller, "idle") /\ UNCHANGED <<self, arrays, sources, ghosts, status, runs>>
  BY DEF Schedule, ghosts
<1>4. Onward(Caller, "idle", "lookup")  BY Steps DEF MainInv
<1>5. /\ \A t \in Timers : Pc(t) = "idle" /\ Pc(t)' = "idle"
      /\ TurnsInv'
  BY <1>3, <1>4, Alone
<1>6. Pc(Caller) = "idle" /\ Pc(Caller)' = "lookup" /\ me'.act = a
  BY <1>1, <1>2, <1>4 DEF Onward, me, TypeOK
<1>7. /\ Table' = Table /\ Handler0' = Handler0 /\ \A b : InCache(b)' <=> InCache(b)
      /\ \A b : Unrun(b)' <=> Unrun(b)
  BY <1>3, Frame
<1>8. \A b \in Scheduled : how'[b] = how[b] /\ Option(b)' = Option(b)
  BY <1>1, <1>2 DEF TypeOK, Option
<1>9. /\ Table /= NULL => Table \in Timers
      /\ Table /= NULL /\ Handler0 /= NULL => Handler0 \in Scheduled
  BY <1>1 DEF TypeOK, FreshInv, Table, Handler0
<1>10. TableInv'
  BY <1>1, <1>3, <1>5, <1>6, <1>7 DEF MainQueueInv, TableInv, Holds, Using, Handling
<1>11. CacheInv'
  BY <1>1, <1>3, <1>5, <1>6, <1>7, <1>8, <1>9 DEF MainQueueInv, CacheInv
<1>12. RunInv'
  <2>1. runs[a] = 0  BY <1>1, <1>2 DEF FreshInv
  <2>2. \A i : ~Passed(i) /\ ~Passed(i)'  BY <1>5 DEF Passed
  <2>3. Table /= NULL => Pc(Table) = "idle" /\ Pc(Table)' = "idle"
    BY <1>5, <1>7, <1>9 DEF Pc
  <2>4. \A b \in Scheduled' : b = a \/ b \in Scheduled  BY <1>2
  <2>5. (\A b \in Scheduled : Option(b) = "Merge" => runs[b] < 2)
        /\ (\A b \in Scheduled : Option(b) = "Cancel" /\ ~how[b].repeats /\ runs[b] > 0 =>
              runs[b] = 1 /\ (Table /= NULL /\ Handler0 = b => Pc(Table) \in {"cancelRead", "cancelRemove"}))
        /\ (self.cache /= NULL =>
              \A i \in 1..Len(arrays[self.cache]) : runs[arrays[self.cache][i]] > 0 <=> Passed(i))
    BY <1>1 DEF MainQueueInv, RunInv
  <2>6. self'.cache = self.cache /\ arrays' = arrays /\ runs' = runs  BY <1>3
  <2> QED  BY <1>6, <1>7, <1>8, <2>1, <2>2, <2>3, <2>4, <2>5, <2>6 DEF RunInv
<1>13. DueInv'
  <2>1. \A b \in Actions : Unrun(b) => WillRun(b)
    BY <1>1, <1>6 DEF MainQueueInv, DueInv
  <2>2. \A b \in Actions : WillRun(b) => WillRun(b)'
    BY <1>7, <1>8, <1>9 DEF WillRun
  <2> QED  BY <1>5, <1>6, <1>7, <2>1, <2>2 DEF DueInv, Cancelling
<1>14. GoneInv'
  BY <1>1, <1>3, <1>7 DEF MainQueueInv, GoneInv
<1> QED  BY <1>5, <1>10, <1>11, <1>12, <1>13, <1>14 DEF MainQueueInv

(* The caller moves on, and changes nothing else. *)
LEMMA CallerMoves ==
    ASSUME MainInv, UNCHANGED <<self, arrays, sources, how, ghosts>>,
           NEW from, NEW to, NEW timer, NEW act, NEW arr, NEW idx,
           At(Caller, from), Goes(Caller, from, to, timer, act, arr, idx),
           from \notin {"setHandler", "cancelUncache", "cancelSource"},
           to \notin {"setHandler", "cancelUncache", "cancelSource"},
           from \in Using => to \in Using,
           to \in Calling => from \in Calling /\ act = me.act,
           to = "create" => Table = NULL,
           to \in Using \cup {"cancelRemove"} => Table = timer,
           to = "addCache" => arr = self.cache
    PROVE  MainQueueInv'
<1> USE TheProcesses, Scheduling
<1>1. TypeOK /\ PlaceInv /\ FreshInv /\ MainQueueInv  BY DEF MainInv, AnyQueueInv
<1>2. Onward(Caller, from, to)  BY DEF Goes, Onward
<1>3. /\ \A t \in Timers : Pc(t) = "idle" /\ Pc(t)' = "idle"
      /\ TurnsInv'
  BY <1>2, Alone
<1>4. /\ Pc(Caller) = from /\ Pc(Caller)' = to /\ me'.act = act /\ me'.timer = timer
      /\ me'.arr = arr
  BY DEF Goes, me
<1>5. /\ Table' = Table /\ Handler0' = Handler0 /\ \A b : InCache(b)' <=> InCache(b)
      /\ \A b : Unrun(b)' <=> Unrun(b)
      /\ Scheduled' = Scheduled /\ \A b : Option(b)' = Option(b)
      /\ runs' = runs /\ status' = status
  BY Frame DEF ghosts
<1>6. Table /= NULL => Table \in Timers  BY <1>1 DEF TypeOK, Table
<1>7. TableInv'
  <2>1. sources' = sources /\ ~Holds(Caller)'  BY <1>4 DEF Holds
  <2>2. \A p \in Processes : ~Holds(p)'  BY <1>3, <1>4 DEF Holds
  <2>3. \A p \in Processes : Pc(p)' = "cancelRemove" => p = Caller  BY <1>3
  <2> QED
    BY <1>1, <1>3, <1>4, <1>5, <2>1, <2>2, <2>3
    DEF MainQueueInv, TableInv, Handling, me
<1>8. CacheInv'
  BY <1>1, <1>3, <1>4, <1>5 DEF MainQueueInv, CacheInv
<1>9. RunInv'
  <2>1. \A i : ~Passed(i) /\ ~Passed(i)'  BY <1>3 DEF Passed
  <2>2. Table /= NULL => Pc(Table) = "idle" /\ Pc(Table)' = "idle"
    BY <1>3, <1>5, <1>6 DEF Pc
  <2> QED  BY <1>1, <1>4, <1>5, <2>1, <2>2 DEF MainQueueInv, RunInv
<1>10. DueInv'
  <2>1. \A b \in Actions : WillRun(b) => WillRun(b)'  BY <1>5 DEF WillRun
  <2> QED  BY <1>1, <1>3, <1>4, <1>5, <2>1 DEF MainQueueInv, DueInv, Cancelling
<1>11. GoneInv'
  BY <1>1, <1>5 DEF MainQueueInv, GoneInv
<1> QED  BY <1>3, <1>7, <1>8, <1>9, <1>10, <1>11 DEF MainQueueInv

(* The calls' look-up of the timer and of the cached actions. *)
LEMMA MainLook ==
    ASSUME MainInv, CancelCall \/ Lookup \/ ReadCache
    PROVE  MainQueueInv'
<1> USE TheProcesses
<1>1. AnyQueueInv /\ PlaceInv /\ TableInv  BY DEF MainInv, AnyQueueInv, MainQueueInv
<1>2. CASE CancelCall
  <2>1. /\ UNCHANGED <<self, arrays, sources, how, ghosts>> /\ At(Caller, "idle")
        /\ Goes(Caller, "idle", "cancelRead", NULL, NULL, NULL, 0)
    BY <1>1, <1>2, CallGoes DEF CancelCall
  <2> QED  BY <2>1, CallerMoves DEF Using, Calling
<1>3. CASE Lookup
  <2> DEFINE to == IF Table = NULL THEN "create" ELSE ByOption
  <2>1. /\ UNCHANGED <<self, arrays, sources, how, ghosts>> /\ At(Caller, "lookup")
        /\ Goes(Caller, "lookup", to, Table, me.act, me.arr, me.idx)
    BY <1>1, <1>3, CallGoes DEF Lookup
  <2>2. to \in {"create", "uncache", "readCache"} /\ (to = "create" => Table = NULL)
    BY DEF ByOption
  <2> HIDE DEF to
  <2> QED  BY <2>1, <2>2, CallerMoves DEF Using, Calling
<1>4. CASE ReadCache
  <2>1. /\ UNCHANGED <<self, arrays, sources, how, ghosts>> /\ At(Caller, "readCache")
        /\ Goes(Caller, "readCache", "addCache", me.timer, me.act, self.cache, me.idx)
    BY <1>1, <1>4, CallGoes DEF ReadCache
  <2>2. Table = me.timer  BY <1>1, <2>1 DEF TableInv, Goes, Using
  <2> QED  BY <2>1, <2>2, CallerMoves DEF Using, Calling
<1> QED  BY <1>2, <1>3, <1>4

(* The timer that is created is the one in the table, and has no handler   *)
(* yet; there was none before, so nothing is due.                          *)
LEMMA MainCreate == ASSUME MainInv, Create PROVE MainQueueInv'
<1> USE TheProcesses, Scheduling
<1>1. TypeOK /\ PlaceInv /\ FreshInv /\ MainQueueInv /\ AnyQueueInv
  BY DEF MainInv, AnyQueueInv
<1>2. PICK t \in Timers \ Made :
         /\ sources' = [sources EXCEPT ![t].made = TRUE]
         /\ self' = [self EXCEPT !.timerArry = t]
         /\ proc' = [proc EXCEPT ![Caller].pc = ByOption, ![Caller].timer = t]
  BY <1>1, CreateTakesNew
<1>3. Goes(Caller, "create", ByOption, t, me.act, me.arr, me.idx)  BY <1>1, <1>2, CallGoes
<1>4. /\ Pc(Caller) = "create" /\ Pc(Caller)' \in {"uncache", "readCache"}
      /\ me'.act = me.act /\ me'.timer = t
  BY <1>3 DEF Goes, me, ByOption
<1>5. Onward(Caller, "create", ByOption) /\ At(Caller, "create")
  BY <1>3 DEF Goes, Onward, Create
<1>6. /\ \A u \in Timers : Pc(u) = "idle" /\ Pc(u)' = "idle"
      /\ TurnsInv'
  BY <1>5, Alone
<1>7. UNCHANGED <<how, arrays, ghosts, status, runs>>  BY DEF Create, ghosts
<1>8. /\ Scheduled' = Scheduled /\ \A b : Option(b)' = Option(b)
      /\ \A b : Unrun(b)' <=> Unrun(b)
  BY <1>7, Frame
<1>9. Table = NULL /\ self.cache = NULL
  BY <1>1, <1>4, <1>6 DEF MainQueueInv, TableInv, CacheInv
<1>10. Table' = t /\ self'.cache = NULL  BY <1>1, <1>2, <1>9 DEF Table, TypeOK
<1>11. Handler0' = NULL /\ sources'[t].made /\ ~sources'[t].cancelled
       /\ \A b : ~InCache(b)'
  <2>1. sources[t].handler = NULL /\ ~sources[t].cancelled
    BY <1>1, <1>2 DEF FreshInv, Made, MainQueueInv, TableInv
  <2>2. sources'[t].handler = NULL /\ sources'[t].made /\ ~sources'[t].cancelled
    BY <1>1, <1>2, <2>1, SourceFields
  <2> QED  BY <1>10, <2>2 DEF Handler0, InCache
<1>12. TableInv'
  <2>1. \A p \in Processes : ~Holds(p)' /\ Pc(p)' /= "cancelRemove"  BY <1>4, <1>6 DEF Holds
  <2>2. \A u \in Timers : sources'[u].cancelled => sources'[u].made
    BY <1>1, <1>2, SourceFields DEF MainQueueInv, TableInv
  <2> QED
    BY <1>4, <1>6, <1>10, <1>11, <2>1, <2>2 DEF TableInv, Using, Handling
<1>13. CacheInv'
  BY <1>4, <1>6, <1>10 DEF CacheInv
<1>14. RunInv'
  BY <1>1, <1>4, <1>7, <1>8, <1>10, <1>11 DEF MainQueueInv, RunInv, Calling
<1>15. DueInv'
  <2>1. \A b \in Actions : ~Unrun(b)
    BY <1>1, <1>4, <1>9 DEF MainQueueInv, DueInv, WillRun
  <2> QED  BY <1>8, <2>1 DEF DueInv
<1>16. GoneInv'
  BY <1>10, <1>11 DEF GoneInv
<1> QED  BY <1>6, <1>12, <1>13, <1>14, <1>15, <1>16 DEF MainQueueInv

(* Nothing is cached any more for a call of CancelPreviousTimerAction. *)
LEMMA MainUncache == ASSUME MainInv, Uncache PROVE MainQueueInv'
<1> USE TheProcesses, Scheduling
<1>1. TypeOK /\ PlaceInv /\ FreshInv /\ MainQueueInv /\ AnyQueueInv
  BY DEF MainInv, AnyQueueInv
<1>2. Goes(Caller, "uncache", "setHandler", me.timer, me.act, me.arr, me.idx)
  BY <1>1, CallGoes
<1>3. /\ Pc(Caller) = "uncache" /\ Pc(Caller)' = "setHandler"
      /\ me'.act = me.act /\ me'.timer = me.timer
  BY <1>2 DEF Goes, me
<1>4. Onward(Caller, "uncache", "setHandler") /\ At(Caller, "uncache")
  BY <1>2 DEF Goes, Onward, Uncache
<1>5. /\ \A u \in Timers : Pc(u) = "idle" /\ Pc(u)' = "idle"
      /\ TurnsInv'
  BY <1>4, Alone
<1>6. /\ how' = how /\ arrays' = arrays /\ sources' = sources /\ status' = status /\ runs' = runs
      /\ UNCHANGED ghosts
  BY DEF Uncache, ghosts
<1>7. /\ Scheduled' = Scheduled /\ \A b : Option(b)' = Option(b)
      /\ \A b : Unrun(b)' <=> Unrun(b)
  BY <1>6, Frame
<1>8. Table' = Table /\ Handler0' = Handler0 /\ self'.cache = NULL /\ \A b : ~InCache(b)'
  BY <1>1, <1>6 DEF Uncache, Table, Handler0, TypeOK, InCache
<1>9. Option(me.act) = "Cancel"  BY <1>1, <1>3 DEF PlaceInv, PlaceOf, me
<1>10. TableInv'
  <2>1. \A p \in Processes : ~Holds(p)' /\ Pc(p)' /= "cancelRemove"  BY <1>3, <1>5 DEF Holds
  <2>2. Table /= NULL => sources[Table].made /\ ~sources[Table].cancelled
    BY <1>1 DEF MainQueueInv, TableInv
  <2>3. Table = me.timer /\ \A t \in Timers : sources[t].cancelled => sources[t].made
    BY <1>1, <1>3 DEF MainQueueInv, TableInv, Using
  <2> QED
    BY <1>3, <1>5, <1>6, <1>8, <2>1, <2>2, <2>3 DEF TableInv, Using, Handling
<1>11. CacheInv'
  BY <1>3, <1>5, <1>7, <1>8, <1>9 DEF CacheInv
<1>12. RunInv'
  <2>1. Table /= NULL => Pc(Table)' = Pc(Table)
    <3>1. Table /= NULL => Table \in Timers  BY <1>1 DEF TypeOK, Table
    <3> QED  BY <1>5, <1>8, <3>1 DEF Pc
  <2> QED
    BY <1>1, <1>3, <1>6, <1>7, <1>8, <2>1 DEF MainQueueInv, RunInv, Calling
<1>13. DueInv'
  BY <1>3, <1>5, <1>7, <1>9 DEF DueInv, Cancelling
<1>14. GoneInv'
  BY <1>1, <1>6, <1>8 DEF MainQueueInv, GoneInv
<1> QED  BY <1>5, <1>10, <1>11, <1>12, <1>13, <1>14 DEF MainQueueInv

(* What is cached after an action was added, if handlers wait their turn. *)
LEMMA Added ==
    ASSUME MainInv, AddCache
    PROVE  /\ self'.cache /= NULL /\ Table' = Table
           /\ \A b : InCache(b)' <=> (InCache(b) \/ b = me.act)
           /\ me.act \in Actions
<1>1. TypeOK /\ PlaceInv /\ TypeOK' /\ AnyQueueInv
  BY NextType DEF MainInv, AnyQueueInv, Next, Call
<1>2. Pc(Caller) = "addCache"  BY DEF AddCache, At, Pc
<1>3. me.arr = self.cache /\ me.act \in Actions
  BY <1>1, <1>2, TheProcesses, Scheduling
     DEF MainInv, MainQueueInv, CacheInv, PlaceInv, PlaceOf, Calling, me
<1> DEFINE a == me.act
           c == self.cache
<1> HIDE DEF a
<1>4. CASE c = NULL /\ NewArray
  <2>1. self'.cache = a /\ Table' = Table /\ arrays'[a] = <<a>> /\ a \in Actions
    BY <1>1, <1>3, <1>4 DEF NewArray, TypeOK, Table, a
  <2>2. a /= NULL /\ Len(<<a>>) = 1 /\ <<a>>[1] = a  BY <2>1, TheProcesses
  <2>3. \A b : InCache(b)' <=> b = a
    BY <2>1, <2>2 DEF InCache, Contains
  <2> QED  BY <1>4, <2>1, <2>2, <2>3 DEF InCache, a
<1>5. CASE c /= NULL /\ self' = self /\ arrays' = [arrays EXCEPT ![c] = Append(@, a)]
  <2>1. c \in Actions /\ arrays[c] \in Seq(Actions) /\ a \in Actions
        /\ arrays'[c] = Append(arrays[c], a)
    BY <1>1, <1>3, <1>5 DEF TypeOK, a
  <2> DEFINE n == Len(arrays[c])
  <2>2. /\ Len(arrays'[c]) = n + 1 /\ n \in Nat
        /\ \A i \in 1..n : arrays'[c][i] = arrays[c][i]
        /\ arrays'[c][n + 1] = a
    BY <2>1, AppendProperties
  <2>3. \A b : InCache(b)' <=> \E i \in 1..n + 1 : arrays'[c][i] = b
    BY <1>5, <2>2 DEF InCache, Contains
  <2>4. \A b : InCache(b) <=> \E i \in 1..n : arrays[c][i] = b
    BY <1>5 DEF InCache, Contains
  <2> HIDE DEF n
  <2>5. \A i : i \in 1..n + 1 <=> i \in 1..n \/ i = n + 1  BY <2>2
  <2>6. \A b : InCache(b)' <=> (InCache(b) \/ b = a)
    BY <2>2, <2>3, <2>4, <2>5
  <2> QED  BY <1>3, <1>5, <2>6 DEF Table, a
<1> QED  BY <1>3, <1>4, <1>5 DEF AddCache, a

(* The action is cached with those that were. *)
LEMMA MainAddCache == ASSUME MainInv, AddCache PROVE MainQueueInv'
<1> USE TheProcesses, Scheduling
<1>1. TypeOK /\ PlaceInv /\ FreshInv /\ MainQueueInv /\ AnyQueueInv /\ TypeOK'
  BY NextType DEF MainInv, AnyQueueInv, Next, Call
<1>2. Goes(Caller, "addCache", "setHandler", me.timer, me.act, me.arr, me.idx)
  BY <1>1, CallGoes
<1>3. /\ Pc(Caller) = "addCache" /\ Pc(Caller)' = "setHandler"
      /\ me'.act = me.act /\ me'.timer = me.timer
  BY <1>2 DEF Goes, me
<1>4. Onward(Caller, "addCache", "setHandler") /\ At(Caller, "addCache")
  BY <1>2 DEF Goes, Onward, AddCache
<1>5. /\ \A u \in Timers : Pc(u) = "idle" /\ Pc(u)' = "idle"
      /\ TurnsInv'
  BY <1>4, Alone
<1>6. /\ how' = how /\ sources' = sources /\ status' = status /\ runs' = runs
      /\ UNCHANGED ghosts
  BY DEF AddCache, ghosts
<1>7. /\ Scheduled' = Scheduled /\ \A b : Option(b)' = Option(b)
      /\ \A b : Unrun(b)' <=> Unrun(b)
  BY <1>6, Frame
<1>8. /\ self'.cache /= NULL /\ Table' = Table /\ Handler0' = Handler0
      /\ \A b : InCache(b)' <=> (InCache(b) \/ b = me.act)
      /\ me.act \in Actions
  BY <1>6, Added DEF Handler0, Table
<1>9. Option(me.act) = "Merge" /\ runs[me.act] = 0 /\ status[me.act] = "new"
      /\ \A t \in Timers : sources[t].handler /= me.act
  BY <1>1, <1>3, <1>8
  DEF PlaceInv, PlaceOf, me, MainQueueInv, RunInv, FreshInv, Calling
<1>10. TableInv'
  <2>1. \A p \in Processes : ~Holds(p)' /\ Pc(p)' /= "cancelRemove"  BY <1>3, <1>5 DEF Holds
  <2>2. Table /= NULL => sources[Table].made /\ ~sources[Table].cancelled
    BY <1>1 DEF MainQueueInv, TableInv
  <2>3. Table = me.timer /\ \A t \in Timers : sources[t].cancelled => sources[t].made
    BY <1>1, <1>3 DEF MainQueueInv, TableInv, Using
  <2> QED
    BY <1>3, <1>5, <1>6, <1>8, <2>1, <2>2, <2>3 DEF TableInv, Using, Handling
<1>11. CacheInv'
  <2>1. Table = me.timer /\ me.timer \in Timers
    BY <1>1, <1>3 DEF MainQueueInv, TableInv, Using, PlaceInv, PlaceOf, me
  <2> QED  BY <1>3, <1>5, <1>7, <1>8, <1>9, <2>1 DEF CacheInv
<1>12. RunInv'
  <2>1. Table /= NULL => Pc(Table)' = Pc(Table)
    <3>1. Table /= NULL => Table \in Timers  BY <1>1 DEF TypeOK, Table
    <3> QED  BY <1>5, <1>8, <3>1 DEF Pc
  <2>2. \A b \in Actions : InCache(b)' => runs[b] = 0
    BY <1>5, <1>8, <1>9, NothingPassed
  <2>3. /\ self'.cache \in Actions /\ arrays'[self'.cache] \in Seq(Actions)
        /\ \A i \in 1..Len(arrays'[self'.cache]) : arrays'[self'.cache][i] \in Actions
    BY <1>1, <1>8 DEF TypeOK
  <2>4. \A i \in 1..Len(arrays'[self'.cache]) :
           runs[arrays'[self'.cache][i]] = 0
    BY <1>8, <2>2, <2>3 DEF InCache, Contains
  <2>5. \A i : ~Passed(i)'  BY <1>5 DEF Passed
  <2> QED
    BY <1>1, <1>3, <1>6, <1>7, <1>8, <1>9, <2>1, <2>4, <2>5 DEF MainQueueInv, RunInv
<1>13. DueInv'
  <2>1. \A b \in Actions : Unrun(b) => Option(b) = "Cancel" \/ InCache(b)
    BY <1>1, <1>3 DEF MainQueueInv, DueInv, WillRun
  <2> QED  BY <1>3, <1>5, <1>7, <1>8, <2>1 DEF DueInv, Cancelling
<1>14. GoneInv'
  BY <1>1, <1>6, <1>8, <1>9 DEF MainQueueInv, GoneInv
<1> QED  BY <1>5, <1>10, <1>11, <1>12, <1>13, <1>14 DEF MainQueueInv

(* The timer in the table gets the handler that runs the action, and what  *)
(* it takes the place of is in no cache.                                   *)
LEMMA MainSetHandler == ASSUME MainInv, SetHandler PROVE MainQueueInv'
<1> USE TheProcesses, Scheduling
<1>1. TypeOK /\ PlaceInv /\ FreshInv /\ ArrayInv /\ MainQueueInv /\ AnyQueueInv
  BY DEF MainInv, AnyQueueInv
<1>2. Goes(Caller, "setHandler", "idle", NULL, NULL, NULL, 0)  BY <1>1, CallGoes
<1>3. Pc(Caller) = "setHandler" /\ Pc(Caller)' = "idle"  BY <1>2 DEF Goes
<1>4. Onward(Caller, "setHandler", "idle") /\ At(Caller, "setHandler")
  BY <1>2 DEF Goes, Onward, SetHandler
<1>5. /\ \A u \in Timers : Pc(u) = "idle" /\ Pc(u)' = "idle"
      /\ TurnsInv'
  BY <1>4, Alone
<1> DEFINE a == me.act
           t == me.timer
<1>6. /\ how' = how /\ arrays' = arrays /\ self' = self /\ runs' = runs
      /\ sources' = [sources EXCEPT ![t].handler = a]
      /\ status' = [b \in Actions |->
           IF b = a THEN "due"
           ELSE IF status[b] = "due" /\ "Cancel" \in {Option(a), Option(b)}
                THEN "replaced" ELSE status[b]]
  BY DEF SetHandler, Option
<1>7. /\ a \in Scheduled /\ t \in Timers /\ Table = t
      /\ sources[t].made /\ ~sources[t].cancelled /\ runs[a] = 0 /\ a /= NULL
      /\ IF Option(a) = "Cancel" THEN self.cache = NULL ELSE InCache(a)
  BY <1>1, <1>3 DEF PlaceInv, PlaceOf, Calling, Using, me, MainQueueInv, TableInv, RunInv, CacheInv
<1> HIDE DEF a, t
<1>8. /\ Scheduled' = Scheduled /\ \A b : Option(b)' = Option(b)
      /\ Table' = Table /\ \A b : InCache(b)' <=> InCache(b)
  BY <1>6, Frame
<1>9. \A u \in Timers :
         /\ sources'[u].made = sources[u].made
         /\ sources'[u].cancelled = sources[u].cancelled
         /\ sources'[u].handler = IF u = t THEN a ELSE sources[u].handler
  <2>1. sources' = [sources EXCEPT ![t].handler = a] /\ t \in Timers  BY <1>6, <1>7
  <2>2. sources \in [Timers -> Source]  BY <1>1 DEF TypeOK, Source
  <2> QED  BY <2>1, <2>2 DEF Source
<1>10. Handler0' = a  BY <1>7, <1>8, <1>9 DEF Handler0
<1>11. TableInv'
  <2>1. \A p \in Processes : ~Holds(p)' /\ Pc(p)' /= "cancelRemove"  BY <1>3, <1>5 DEF Holds
  <2>2. \A u \in Timers : sources[u].cancelled => sources[u].made
    BY <1>1 DEF MainQueueInv, TableInv
  <2> QED
    BY <1>3, <1>5, <1>7, <1>8, <1>9, <1>10, <2>1, <2>2 DEF TableInv, Using, Handling
<1>12. CacheInv'
  <2>1. Option(a) \in {"Cancel", "Merge"}  BY <1>1, <1>7 DEF Options
  <2>2. self'.cache = self.cache  BY <1>6
  <2> QED  BY <1>3, <1>5, <1>7, <1>8, <1>10, <2>1, <2>2 DEF CacheInv
<1>13. RunInv'
  <2>1. \A i : ~Passed(i) /\ ~Passed(i)'  BY <1>5 DEF Passed
  <2> QED
    BY <1>1, <1>3, <1>6, <1>7, <1>8, <1>10, <2>1 DEF MainQueueInv, RunInv, Calling
<1>14. DueInv'
  <2>1. ASSUME NEW b \in Actions, Unrun(b)' PROVE WillRun(b)'
    <3>1. CASE b = a
      BY <1>7, <1>8, <1>10, <3>1 DEF WillRun
    <3>2. CASE b /= a
      <4>1. Unrun(b) /\ Option(a) /= "Cancel" /\ Option(b) /= "Cancel"
        BY <1>6, <2>1, <3>2 DEF Unrun
      <4>2. Option(a) = "Merge"  BY <1>1, <1>7, <4>1 DEF Options
      <4>3. InCache(b)  BY <1>1, <1>3, <4>1, <4>2 DEF MainQueueInv, DueInv, a
      <4> QED  BY <1>7, <1>8, <1>10, <4>1, <4>3 DEF WillRun
    <3> QED  BY <3>1, <3>2
  <2> QED  BY <1>3, <1>5, <2>1 DEF DueInv, Cancelling
<1>15. GoneInv'
  <2>1. ASSUME NEW b \in Actions, status'[b] \in {"cancelled", "replaced"}
        PROVE  ~InCache(b) /\ b /= a
    <3>1. b /= a  BY <1>6, <2>1
    <3>2. CASE status[b] \in {"cancelled", "replaced"}
      BY <1>1, <3>1, <3>2 DEF MainQueueInv, GoneInv
    <3>3. CASE status[b] = "due" /\ Option(a) = "Cancel"
      BY <1>7, <3>1, <3>3 DEF InCache
    <3>4. CASE status[b] = "due" /\ Option(b) = "Cancel"
      <4>1. \A c \in Actions : ~Contains(arrays[c], b)
        BY <1>1, <3>4 DEF ArrayInv, Contains
      <4> QED  BY <1>1, <3>1, <4>1 DEF InCache, TypeOK
    <3> QED  BY <1>6, <2>1, <3>1, <3>2, <3>3, <3>4
  <2> QED  BY <1>8, <1>10, <2>1 DEF GoneInv
<1> QED  BY <1>5, <1>11, <1>12, <1>13, <1>14, <1>15 DEF MainQueueInv

(* All that was scheduled is cancelled when the caller's cancel returns.   *)
LEMMA AllCancelled ==
    ASSUME MainInv, CancelReturns(Caller), UNCHANGED how
    PROVE  \A a \in Actions : ~Unrun(a)'
<1>1. TypeOK /\ FreshInv  BY DEF MainInv, AnyQueueInv
<1>2. ASSUME NEW a \in Actions PROVE status'[a] /= "due"
  <2>1. status'[a] = IF how[a] /= NULL THEN "cancelled" ELSE status[a]
    BY DEF CancelReturns
  <2>2. how[a] = NULL => status[a] = "new"  BY <1>1, Scheduling DEF FreshInv
  <2> QED  BY <2>1, <2>2
<1> QED  BY <1>2 DEF Unrun

(* Whoever cancels finds the timer in the table that it is to cancel; when *)
(* a handler does, nothing is due.                                         *)
LEMMA MainCancelRead ==
    ASSUME MainInv, NEW p \in Processes, CancelRead(p) PROVE MainQueueInv'
<1> USE TheProcesses, Scheduling
<1>1. TypeOK /\ PlaceInv /\ FreshInv /\ MainQueueInv /\ AnyQueueInv
  BY DEF MainInv, AnyQueueInv
<1>2. /\ At(p, "cancelRead")
      /\ how' = how /\ self' = self /\ arrays' = arrays /\ sources' = sources
  BY DEF CancelRead
<1>3. Pc(p) = "cancelRead"  BY <1>2 DEF At, Pc
<1>4. p \in Timers => Table = p  BY <1>1, <1>3 DEF MainQueueInv, TableInv
<1> DEFINE m == proc[p]
<1>5. /\ Scheduled' = Scheduled /\ \A b : Option(b)' = Option(b)
      /\ Table' = Table /\ Handler0' = Handler0 /\ \A b : InCache(b)' <=> InCache(b)
  BY <1>2, Frame
<1>6. ASSUME Table = NULL, CancelReturns(p), Goes(p, "cancelRead", "idle", NULL, NULL, NULL, 0)
      PROVE  MainQueueInv'
  <2>1. p = Caller  BY <1>4, <1>6
  <2>2. Onward(p, "cancelRead", "idle")  BY <1>6 DEF Goes, Onward
  <2>3. /\ \A t \in Timers : Pc(t) = "idle" /\ Pc(t)' = "idle"
        /\ TurnsInv'
    BY <1>2, <2>1, <2>2, Alone
  <2>4. Pc(Caller)' = "idle"  BY <1>6, <2>1 DEF Goes
  <2>5. \A a \in Actions : ~Unrun(a)'  BY <1>2, <1>6, <2>1, AllCancelled
  <2>6. runs' = runs  BY <1>6 DEF CancelReturns
  <2>7. self.cache = NULL
    BY <1>1, <1>3, <1>6, <2>1, <2>3 DEF MainQueueInv, CacheInv
  <2>8. TableInv'
    <3>1. \A q \in Processes : ~Holds(q)' /\ Pc(q)' /= "cancelRemove"
      BY <2>3, <2>4 DEF Holds
    <3> QED
      BY <1>1, <1>2, <1>5, <1>6, <2>3, <2>4, <3>1 DEF MainQueueInv, TableInv, Using, Handling
  <2>9. CacheInv'  BY <1>2, <1>5, <2>3, <2>4, <2>7 DEF CacheInv
  <2>10. RunInv'
    BY <1>1, <1>2, <1>5, <1>6, <2>4, <2>6, <2>7 DEF MainQueueInv, RunInv, Calling
  <2>11. DueInv'  BY <2>5 DEF DueInv
  <2>12. GoneInv'  BY <1>2, <1>5, <1>6, <2>7 DEF GoneInv, InCache
  <2> QED  BY <2>3, <2>8, <2>9, <2>10, <2>11, <2>12 DEF MainQueueInv
<1>7. ASSUME Table /= NULL, UNCHANGED ghosts,
             Goes(p, "cancelRead", "cancelRemove", Table, m.act, m.arr, m.idx)
      PROVE  MainQueueInv'
  <2>1. CASE p = Caller
    <3>1. UNCHANGED <<self, arrays, sources, how, ghosts>>  BY <1>2, <1>7
    <3> QED  BY <1>2, <1>7, <2>1, <3>1, CallerMoves DEF Using, Calling
  <2>2. CASE p \in Timers
    <3>1. Onward(p, "cancelRead", "cancelRemove")  BY <1>7 DEF Goes, Onward
    <3>2. /\ \A q \in Processes \ {p} : Pc(q) = "idle" /\ Pc(q)' = "idle"
          /\ TurnsInv'
      BY <1>2, <3>1, Alone
    <3>3. /\ Pc(p)' = "cancelRemove" /\ proc'[p].timer = Table
          /\ Pc(Caller) = "idle" /\ Pc(Caller)' = "idle"
      BY <1>7, <2>2, <3>2 DEF Goes
    <3>4. status' = status /\ runs' = runs /\ \A b : Unrun(b)' <=> Unrun(b)
      BY <1>7, Frame DEF ghosts
    <3>5. \A q \in Processes : ~Holds(q)' /\ (q /= p => Pc(q)' /= "cancelRemove")
      BY <3>2, <3>3 DEF Holds
    <3>6. TableInv'
      BY <1>1, <1>2, <1>4, <1>5, <2>2, <3>2, <3>3, <3>5
      DEF MainQueueInv, TableInv, Using, Handling
    <3>7. CacheInv'
      BY <1>1, <1>2, <1>5, <1>7, <2>2, <3>2, <3>3 DEF MainQueueInv, CacheInv
    <3>8. RunInv'
      <4>1. \A i : ~Passed(i) /\ ~Passed(i)'
        BY <1>3, <3>2, <3>3 DEF Passed
      <4>2. Pc(Table)' = "cancelRemove"  BY <1>4, <1>5, <2>2, <3>3 DEF Pc
      <4> QED
        BY <1>1, <1>2, <1>5, <3>3, <3>4, <4>1, <4>2 DEF MainQueueInv, RunInv, Calling
    <3>9. DueInv'
      BY <1>1, <1>3, <2>2, <3>4 DEF MainQueueInv, DueInv, Cancelling
    <3>10. GoneInv'
      BY <1>1, <1>5, <3>4 DEF MainQueueInv, GoneInv
    <3> QED  BY <3>2, <3>6, <3>7, <3>8, <3>9, <3>10 DEF MainQueueInv
  <2> QED  BY <2>1, <2>2
<1> QED  BY <1>1, <1>6, <1>7, CancelGoes

(* It takes the timer out of the table, ...  *)
LEMMA MainCancelRemove ==
    ASSUME MainInv, NEW p \in Processes, CancelRemove(p) PROVE MainQueueInv'
<1> USE TheProcesses, Scheduling
<1>1. TypeOK /\ PlaceInv /\ FreshInv /\ MainQueueInv /\ AnyQueueInv
  BY DEF MainInv, AnyQueueInv
<1> DEFINE m == proc[p]
<1>2. /\ At(p, "cancelRemove")
      /\ how' = how /\ arrays' = arrays /\ sources' = sources /\ status' = status /\ runs' = runs
      /\ UNCHANGED ghosts
      /\ Table' = NULL /\ self'.cache = self.cache
  BY <1>1 DEF CancelRemove, Table, TypeOK, ghosts
<1>3. Goes(p, "cancelRemove", "cancelUncache", m.timer, m.act, m.arr, m.idx)
  BY <1>1, CancelGoes
<1>4. Pc(p) = "cancelRemove" /\ Pc(p)' = "cancelUncache" /\ proc'[p].timer = m.timer
  BY <1>3 DEF Goes
<1>5. Onward(p, "cancelRemove", "cancelUncache")  BY <1>3 DEF Goes, Onward
<1>6. /\ \A q \in Processes \ {p} : Pc(q) = "idle" /\ Pc(q)' = "idle"
      /\ TurnsInv'
  BY <1>2, <1>5, Alone
<1>7. sources[m.timer].made
  <2>1. m.timer \in Timers  BY <1>1, <1>4 DEF PlaceInv, PlaceOf, Cancelling
  <2> QED  BY <1>1, <1>4, <2>1 DEF MainQueueInv, TableInv
<1>8. /\ Scheduled' = Scheduled /\ \A b : Option(b)' = Option(b)
      /\ \A b : InCache(b)' <=> InCache(b)
      /\ \A b : Unrun(b)' <=> Unrun(b)
  <2>1. \A b : InCache(b)' <=> InCache(b)  BY <1>2 DEF InCache
  <2> QED  BY <1>2, <2>1, Frame
<1>9. Pc(Caller)' \notin Calling \cup {"setHandler", "create"} \cup Using
  BY <1>4, <1>6 DEF Calling, Using
<1>10. TableInv'
  <2>1. \A q \in Processes : Pc(q)' /= "cancelRemove" /\ (Holds(q)' => q = p)
    BY <1>4, <1>6 DEF Holds
  <2>2. \A t \in Timers : Pc(t)' \notin Handling \cup {"cancelRead", "cancelRemove"}
    BY <1>4, <1>6 DEF Handling
  <2> QED
    BY <1>1, <1>2, <1>4, <1>7, <1>9, <2>1, <2>2 DEF MainQueueInv, TableInv
<1>11. CacheInv'
  BY <1>2, <1>4, <1>6, <1>9 DEF CacheInv, Calling
<1>12. RunInv'
  <2>1. \A i : ~Passed(i) /\ ~Passed(i)'  BY <1>4, <1>6 DEF Passed
  <2> QED  BY <1>1, <1>2, <1>8, <1>9, <2>1 DEF MainQueueInv, RunInv
<1>13. DueInv'
  <2>1. CASE p = Caller
    BY <1>4, <1>6, <2>1 DEF DueInv, Cancelling
  <2>2. CASE p \in Timers
    <3>1. \A b \in Actions : ~Unrun(b)
      BY <1>1, <1>4, <2>2 DEF MainQueueInv, DueInv, Cancelling
    <3> QED  BY <1>8, <3>1 DEF DueInv
  <2> QED  BY <2>1, <2>2
<1>14. GoneInv'
  BY <1>1, <1>2, <1>8 DEF MainQueueInv, GoneInv
<1> QED  BY <1>6, <1>10, <1>11, <1>12, <1>13, <1>14 DEF MainQueueInv

(* ... drops what was cached for it, ...  *)
LEMMA MainCancelUncache ==
    ASSUME MainInv, NEW p \in Processes, CancelUncache(p) PROVE MainQueueInv'
<1> USE TheProcesses, Scheduling
<1>1. TypeOK /\ PlaceInv /\ FreshInv /\ MainQueueInv /\ AnyQueueInv
  BY DEF MainInv, AnyQueueInv
<1> DEFINE m == proc[p]
<1>2. /\ At(p, "cancelUncache")
      /\ how' = how /\ arrays' = arrays /\ sources' = sources /\ status' = status /\ runs' = runs
      /\ UNCHANGED ghosts
      /\ Table' = Table /\ self'.cache = NULL
  BY <1>1 DEF CancelUncache, Table, TypeOK, ghosts
<1>3. Goes(p, "cancelUncache", "cancelSource", m.timer, m.act, m.arr, m.idx)
  BY <1>1, CancelGoes
<1>4. Pc(p) = "cancelUncache" /\ Pc(p)' = "cancelSource" /\ proc'[p].timer = m.timer
  BY <1>3 DEF Goes
<1>5. Onward(p, "cancelUncache", "cancelSource")  BY <1>3 DEF Goes, Onward
<1>6. /\ \A q \in Processes \ {p} : Pc(q) = "idle" /\ Pc(q)' = "idle"
      /\ TurnsInv'
  BY <1>2, <1>5, Alone
<1>7. Table = NULL /\ sources[m.timer].made
  BY <1>1, <1>4 DEF MainQueueInv, TableInv, Holds
<1>8. /\ Scheduled' = Scheduled /\ \A b : Option(b)' = Option(b)
      /\ \A b : ~InCache(b)'
      /\ \A b : Unrun(b)' <=> Unrun(b)
  <2>1. \A b : ~InCache(b)'  BY <1>2 DEF InCache
  <2> QED  BY <1>2, <2>1, Frame
<1>9. Pc(Caller)' \notin Calling \cup {"setHandler", "create"} \cup Using
  BY <1>4, <1>6 DEF Calling, Using
<1>10. TableInv'
  <2>1. \A q \in Processes : Pc(q)' /= "cancelRemove" /\ (Holds(q)' => q = p)
    BY <1>4, <1>6 DEF Holds
  <2>2. \A t \in Timers : Pc(t)' \notin Handling \cup {"cancelRead", "cancelRemove"}
    BY <1>4, <1>6 DEF Handling
  <2> QED
    BY <1>1, <1>2, <1>4, <1>7, <1>9, <2>1, <2>2 DEF MainQueueInv, TableInv
<1>11. CacheInv'
  BY <1>2, <1>4, <1>6, <1>9 DEF CacheInv, Calling
<1>12. RunInv'
  BY <1>1, <1>2, <1>7, <1>8, <1>9 DEF MainQueueInv, RunInv
<1>13. DueInv'
  <2>1. CASE p = Caller
    BY <1>4, <1>6, <2>1 DEF DueInv, Cancelling
  <2>2. CASE p \in Timers
    <3>1. \A b \in Actions : ~Unrun(b)
      BY <1>1, <1>4, <2>2 DEF MainQueueInv, DueInv, Cancelling
    <3> QED  BY <1>8, <3>1 DEF DueInv
  <2> QED  BY <2>1, <2>2
<1>14. GoneInv'
  BY <1>2, <1>7, <1>8 DEF GoneInv
<1> QED  BY <1>6, <1>10, <1>11, <1>12, <1>13, <1>14 DEF MainQueueInv

(* ... and cancels it: there is no timer, and nothing is cached.           *)
LEMMA MainCancelSource ==
    ASSUME MainInv, NEW p \in Processes, CancelSource(p) PROVE MainQueueInv'
<1> USE TheProcesses, Scheduling
<1>1. TypeOK /\ PlaceInv /\ FreshInv /\ MainQueueInv /\ AnyQueueInv
  BY DEF MainInv, AnyQueueInv
<1> DEFINE t == proc[p].timer
<1>2. /\ At(p, "cancelSource") /\ CancelReturns(p)
      /\ how' = how /\ arrays' = arrays /\ runs' = runs
      /\ sources' = [sources EXCEPT ![t].cancelled = TRUE]
      /\ Table' = Table /\ self'.cache = self.cache
  BY <1>1 DEF CancelSource, CancelReturns, Table, TypeOK
<1>3. Goes(p, "cancelSource", "idle", NULL, NULL, NULL, 0)
  BY <1>1, CancelGoes
<1>4. Pc(p) = "cancelSource" /\ Pc(p)' = "idle"
  BY <1>3 DEF Goes
<1>5. Onward(p, "cancelSource", "idle")  BY <1>3 DEF Goes, Onward
<1>6. /\ \A q \in Processes \ {p} : Pc(q) = "idle"
      /\ \A q \in Processes : Pc(q)' = "idle"
      /\ TurnsInv'
  BY <1>2, <1>4, <1>5, Alone
<1>7. Table = NULL /\ sources[t].made /\ t \in Timers /\ self.cache = NULL
  <2>1. Table = NULL /\ sources[t].made  BY <1>1, <1>4 DEF MainQueueInv, TableInv, Holds
  <2>2. \A q \in Processes : Pc(q) /= "cancelUncache"  BY <1>4, <1>6
  <2> QED
    BY <1>1, <1>4, <2>1, <2>2 DEF MainQueueInv, CacheInv, PlaceInv, PlaceOf, Cancelling
<1>8. /\ Scheduled' = Scheduled /\ \A b : Option(b)' = Option(b)
      /\ \A b : ~InCache(b)'
  <2>1. \A b : ~InCache(b)'  BY <1>2, <1>7 DEF InCache
  <2> QED  BY <1>2, <2>1, Frame
<1>9. TableInv'
  <2>1. \A q \in Processes : ~Holds(q)' /\ Pc(q)' /= "cancelRemove"  BY <1>6 DEF Holds
  <2>2. \A u \in Timers : sources'[u].cancelled => sources'[u].made
    <3>1. \A u \in Timers : sources[u].cancelled => sources[u].made
      BY <1>1 DEF MainQueueInv, TableInv
    <3> QED  BY <1>1, <1>2, <1>7, <3>1, SourceFields
  <2>3. \A u \in Timers : Pc(u)' \notin Handling \cup {"cancelRead", "cancelRemove"}
    BY <1>6 DEF Handling
  <2> QED  BY <1>2, <1>6, <1>7, <2>1, <2>2, <2>3 DEF TableInv, Using
<1>10. CacheInv'  BY <1>2, <1>6, <1>7 DEF CacheInv
<1>11. RunInv'
  BY <1>1, <1>2, <1>6, <1>7, <1>8 DEF MainQueueInv, RunInv, Calling
<1>12. DueInv'
  <2>1. CASE p = Caller
    <3>1. \A b \in Actions : ~Unrun(b)'  BY <1>2, <2>1, AllCancelled
    <3> QED  BY <3>1 DEF DueInv
  <2>2. CASE p \in Timers
    <3>1. \A b \in Actions : ~Unrun(b)
      BY <1>1, <1>4, <2>2 DEF MainQueueInv, DueInv, Cancelling
    <3>2. \A b \in Actions : status'[b] = status[b]
      BY <1>2, <2>2 DEF CancelReturns
    <3> QED  BY <1>2, <3>1, <3>2 DEF DueInv, Unrun
  <2> QED  BY <2>1, <2>2
<1>13. GoneInv'
  BY <1>2, <1>7, <1>8 DEF GoneInv
<1> QED  BY <1>6, <1>9, <1>10, <1>11, <1>12, <1>13 DEF MainQueueInv

(* Only the timer in the table fires: nobody is under way that could hold  *)
(* another.                                                                *)
LEMMA MainFire ==
    ASSUME MainInv, NEW t \in Timers, Fire(t) PROVE MainQueueInv'
<1> USE TheProcesses, Scheduling
<1>1. TypeOK /\ PlaceInv /\ FreshInv /\ MainQueueInv /\ AnyQueueInv
  BY DEF MainInv, AnyQueueInv
<1> DEFINE a == sources[t].handler
           to == IF Option(a) = "Cancel" THEN "run" ELSE "fetch"
<1>2. /\ At(t, "idle") /\ CanFire(t) /\ UNCHANGED ghosts
      /\ how' = how /\ arrays' = arrays /\ self' = self /\ sources' = sources
      /\ status' = status /\ runs' = runs
  BY DEF Fire, ghosts
<1>3. a \in Actions /\ Goes(t, "idle", to, NULL, a, NULL, 0)
  BY <1>1, HandlerGoes
<1>4. a \in Scheduled  BY <1>1, <1>3 DEF FreshInv
<1>5. Pc(t) = "idle" /\ Pc(t)' = to /\ proc'[t].act = a /\ Onward(t, "idle", to)
  BY <1>3 DEF Goes, Onward
<1>6. to \in {"run", "fetch"} /\ (to = "run" <=> Option(a) = "Cancel")  OBVIOUS
<1>7. /\ \A q \in Processes : Pc(q) = "idle" /\ proc[q] = Idle
      /\ \A q \in Processes \ {t} : Pc(q)' = "idle"
      /\ TurnsInv'
  <2>1. proc[t] = Idle  BY <1>1, <1>5 DEF PlaceInv, PlaceOf
  <2> QED  BY <1>2, <1>5, <2>1, Alone
<1>8. Table = t /\ Handler0 = a
  <2>1. \A q \in Processes : proc[q].timer /= t  BY <1>7 DEF Idle
  <2> QED  BY <1>2, <2>1 DEF CanFire, Table, Handler0
<1> HIDE DEF a, to
<1>9. /\ Scheduled' = Scheduled /\ \A b : Option(b)' = Option(b)
      /\ Table' = Table /\ Handler0' = Handler0
      /\ \A b : InCache(b)' <=> InCache(b)
      /\ \A b : Unrun(b)' <=> Unrun(b)
  BY <1>2, Frame
<1>10. TableInv'
  <2>1. \A q \in Processes : ~Holds(q)' /\ Pc(q)' /= "cancelRemove" /\ Pc(q)' \notin Using
    BY <1>5, <1>6, <1>7 DEF Holds, Using
  <2>2. Pc(Caller)' = "idle"  BY <1>7
  <2>3. /\ sources[Table].made /\ ~sources[Table].cancelled
        /\ \A u \in Timers : sources[u].cancelled => sources[u].made
    BY <1>1, <1>8 DEF MainQueueInv, TableInv
  <2>4. Option(proc[t].act)' = Option(a)  BY <1>5, <1>9 DEF Option
  <2>5. \A u \in Timers : Pc(u)' \in Handling \cup {"cancelRead", "cancelRemove"} => u = t
    BY <1>7 DEF Handling
  <2> QED
    BY <1>2, <1>3, <1>5, <1>6, <1>8, <1>9, <2>1, <2>2, <2>3, <2>4, <2>5 DEF TableInv
<1>11. CacheInv'
  BY <1>1, <1>2, <1>5, <1>6, <1>7, <1>8, <1>9 DEF MainQueueInv, CacheInv
<1>12. RunInv'
  <2>1. \A i : ~Passed(i) /\ ~Passed(i)'  BY <1>5, <1>6, <1>7 DEF Passed
  <2>2. Pc(Table) = "idle" /\ Pc(Caller)' = "idle"  BY <1>7, <1>8
  <2> QED
    BY <1>1, <1>2, <1>8, <1>9, <2>1, <2>2 DEF MainQueueInv, RunInv, Calling
<1>13. DueInv'
  <2>1. \A b \in Actions : WillRun(b) => WillRun(b)'  BY <1>9 DEF WillRun
  <2>2. \A b \in Actions : Unrun(b) => WillRun(b)
    BY <1>1, <1>7 DEF MainQueueInv, DueInv
  <2>3. \A u \in Timers : Pc(u)' \notin Cancelling  BY <1>5, <1>6, <1>7 DEF Cancelling
  <2> QED  BY <1>7, <1>9, <2>1, <2>2, <2>3 DEF DueInv
<1>14. GoneInv'
  BY <1>1, <1>2, <1>9 DEF MainQueueInv, GoneInv
<1> QED  BY <1>7, <1>10, <1>11, <1>12, <1>13, <1>14 DEF MainQueueInv

(* Where a handler is, and what it leaves alone. *)
HandlerAt(t, pc, b) ==
    /\ Pc(t) = pc /\ Table = t /\ Handler0 = proc[t].act /\ proc[t].act \in Scheduled
    /\ sources[t].made /\ ~sources[t].cancelled
    /\ pc = "run" <=> Option(proc[t].act) = "Cancel"
    /\ \A q \in Processes \ {t} : Pc(q) = "idle" /\ Pc(q)' = "idle" /\ proc'[q] = Idle
    /\ Pc(t)' = b
    /\ TurnsInv'

(* A handler on the main queue moves alone, for the timer in the table.    *)
LEMMA InTurn ==
    ASSUME MainInv, NEW t \in Timers, NEW pc \in Handling, NEW to,
           At(t, pc), Onward(t, pc, to)
    PROVE  HandlerAt(t, pc, to)
<1>1. TypeOK /\ PlaceInv /\ MainQueueInv  BY DEF MainInv, AnyQueueInv
<1>2. Pc(t) = pc /\ Pc(t)' = to  BY DEF Onward
<1>3. \A q \in Processes \ {t} : Pc(q) = "idle" /\ Pc(q)' = "idle" /\ proc'[q] = Idle
  BY TheProcesses, Alone
<1>4. /\ Table = t /\ Handler0 = proc[t].act /\ Table /= NULL
      /\ pc = "run" <=> Option(proc[t].act) = "Cancel"
  BY <1>1, <1>2, TheProcesses DEF MainQueueInv, TableInv
<1>5. sources[t].made /\ ~sources[t].cancelled
  BY <1>1, <1>4 DEF MainQueueInv, TableInv
<1>6. proc[t].act \in Scheduled  BY <1>1, <1>2, TheProcesses DEF PlaceInv, PlaceOf
<1>7. TurnsInv'  BY TheProcesses, Alone
<1> QED  BY <1>2, <1>3, <1>4, <1>5, <1>6, <1>7 DEF HandlerAt

(* A handler's step leaves the table and the sources alone. *)
LEMMA HandlerTable ==
    ASSUME MainInv, NEW t \in Timers, NEW pc, NEW to, HandlerAt(t, pc, to),
           to \in Handling \cup {"idle", "cancelRead"},
           to \in Handling => proc'[t].act = proc[t].act,
           to = "run" <=> pc = "run" /\ to \in Handling,
           Table' = Table, sources' = sources, how' = how
    PROVE  TableInv'
<1> USE TheProcesses
<1>1. Handler0' = Handler0 /\ \A b : Option(b)' = Option(b)  BY DEF Handler0, Option
<1>2. \A q \in Processes : ~Holds(q)' /\ Pc(q)' /= "cancelRemove" /\ Pc(q)' \notin Using
  BY DEF HandlerAt, Holds, Using, Handling
<1>3. Pc(Caller)' = "idle" /\ Pc(t)' = to  BY DEF HandlerAt
<1>4. \A u \in Timers : sources[u].cancelled => sources[u].made
  BY DEF MainInv, MainQueueInv, TableInv
<1>5. to \in Handling => Option(proc[t].act)' = Option(proc[t].act)  BY <1>1 DEF Option
<1>6. \A u \in Timers : Pc(u)' \in Handling \cup {"cancelRead", "cancelRemove"} => u = t
  BY DEF HandlerAt, Handling
<1>7. Handler0 /= NULL  BY Scheduling DEF HandlerAt
<1> QED
  BY <1>1, <1>2, <1>3, <1>4, <1>5, <1>6, <1>7 DEF TableInv, HandlerAt

(* What the run of action a does to what is said of the actions. *)
LEMMA RunsOf ==
    ASSUME TypeOK, NEW a \in Actions, Runs(a)
    PROVE  /\ runs'[a] = (IF runs[a] = 2 THEN 2 ELSE runs[a] + 1) /\ runs'[a] > 0
           /\ \A b \in Actions : b /= a => runs'[b] = runs[b]
           /\ \A b \in Actions : Unrun(b)' => Unrun(b) /\ b /= a
           /\ \A b \in Actions : status'[b] \in {"cancelled", "replaced"} => status'[b] = status[b]
<1>1. /\ runs \in [Actions -> 0..2] /\ status \in [Actions -> {"new", "due", "replaced", "cancelled", "done"}]
      /\ runs' = [runs EXCEPT ![a] = IF @ = 2 THEN 2 ELSE @ + 1]
      /\ status' = [status EXCEPT ![a] = IF @ = "due" /\ ~how[a].repeats THEN "done" ELSE @]
  BY DEF TypeOK, Runs
<1>2. runs'[a] = (IF runs[a] = 2 THEN 2 ELSE runs[a] + 1) /\ runs'[a] > 0
      /\ \A b \in Actions : b /= a => runs'[b] = runs[b]
  BY <1>1
<1>3. \A b \in Actions : status'[b] = status[b] \/ (b = a /\ status'[b] = "done")
  BY <1>1
<1> QED  BY <1>2, <1>3 DEF Unrun

(* The handler's action is the one that was due. *)
LEMMA MainRunAction ==
    ASSUME MainInv, NEW t \in Timers, RunAction(t) PROVE MainQueueInv'
<1> USE TheProcesses, Scheduling
<1>1. TypeOK /\ PlaceInv /\ FreshInv /\ ArrayInv /\ MainQueueInv /\ AnyQueueInv
  BY DEF MainInv, AnyQueueInv
<1> DEFINE a == proc[t].act
<1>2. /\ At(t, "run") /\ Runs(a)
      /\ how' = how /\ arrays' = arrays /\ self' = self /\ sources' = sources
  BY DEF RunAction
<1>3. PICK to \in {"idle", "cancelRead"} :
         Onward(t, "run", to) /\ (to = "idle" => how[a].repeats)
  <2>1. \/ how[a].repeats /\ Goes(t, "run", "idle", NULL, NULL, NULL, 0)
        \/ ~how[a].repeats /\ Goes(t, "run", "cancelRead", proc[t].timer, a, proc[t].arr, proc[t].idx)
    BY <1>1, HandlerGoes DEF RunAction, At
  <2> QED  BY <2>1 DEF Goes, Onward
<1>4. HandlerAt(t, "run", to)  BY <1>2, <1>3, InTurn DEF Handling
<1>5. a \in Scheduled /\ Option(a) = "Cancel" /\ Table = t /\ Handler0 = a
  BY <1>4 DEF HandlerAt
<1>6. Pc(t) = "run" /\ Pc(t)' = to /\ Pc(Caller)' = "idle" /\ TurnsInv'
      /\ \A q \in Processes \ {t} : Pc(q) = "idle" /\ Pc(q)' = "idle"
  BY <1>4 DEF HandlerAt
<1> HIDE DEF a
<1>7. /\ Scheduled' = Scheduled /\ \A b : Option(b)' = Option(b)
      /\ Table' = Table /\ Handler0' = Handler0
      /\ \A b : InCache(b)' <=> InCache(b)
  BY <1>2, Frame
<1>8. /\ runs'[a] = (IF runs[a] = 2 THEN 2 ELSE runs[a] + 1) /\ runs'[a] > 0
      /\ \A b \in Actions : b /= a => runs'[b] = runs[b]
      /\ \A b \in Actions : Unrun(b)' => Unrun(b) /\ b /= a
      /\ \A b \in Actions : status'[b] \in {"cancelled", "replaced"} => status'[b] = status[b]
  BY <1>1, <1>2, <1>5, RunsOf
<1>9. TableInv'
  BY <1>2, <1>4, <1>7, HandlerTable DEF Handling
<1>10. CacheInv'
  BY <1>1, <1>2, <1>3, <1>5, <1>6, <1>7 DEF MainQueueInv, CacheInv
<1>11. RunInv'
  <2>1. ~how[a].repeats => runs[a] = 0 /\ to = "cancelRead"
    <3>1. ~how[a].repeats /\ runs[a] > 0 => FALSE
      BY <1>1, <1>5, <1>6 DEF MainQueueInv, RunInv
    <3>2. runs[a] \in 0..2  BY <1>1, <1>5 DEF TypeOK
    <3>3. runs[a] > 0 \/ runs[a] = 0  BY <3>2
    <3> QED  BY <1>3, <3>1, <3>3
  <2>2. \A i : ~Passed(i) /\ ~Passed(i)'  BY <1>3, <1>6 DEF Passed
  <2>3. self.cache /= NULL =>
           \A i \in 1..Len(arrays[self.cache]) :
              /\ arrays[self.cache][i] \in Actions /\ arrays[self.cache][i] /= a
              /\ ~(runs[arrays[self.cache][i]] > 0)
    BY <1>1, <1>5, <2>2 DEF ArrayInv, TypeOK, MainQueueInv, RunInv
  <2>4. \A b \in Scheduled : Option(b) = "Cancel" /\ ~how[b].repeats /\ runs'[b] > 0 =>
           /\ runs'[b] = 1
           /\ Handler0 = b => Pc(t)' \in {"cancelRead", "cancelRemove"}
    BY <1>1, <1>5, <1>6, <1>8, <2>1 DEF MainQueueInv, RunInv
  <2>5. \A b \in Scheduled : Option(b) = "Merge" => runs'[b] < 2
    BY <1>1, <1>5, <1>8 DEF MainQueueInv, RunInv
  <2>6. Pc(Table)' = Pc(t)'  BY <1>5, <1>7 DEF Pc
  <2>7. self.cache /= NULL =>
           \A i \in 1..Len(arrays[self.cache]) : ~(runs'[arrays[self.cache][i]] > 0)
    BY <1>8, <2>3
  <2>8. self'.cache = self.cache /\ Pc(Caller)' \notin Calling  BY <1>2, <1>6 DEF Calling
  <2> QED
    BY <1>2, <1>7, <2>2, <2>4, <2>5, <2>6, <2>7, <2>8 DEF RunInv
<1>12. DueInv'
  <2>1. \A b \in Actions : Unrun(b) => b = a
    BY <1>1, <1>5, <1>6 DEF MainQueueInv, DueInv, WillRun
  <2> QED  BY <1>8, <2>1 DEF DueInv
<1>13. GoneInv'
  BY <1>1, <1>7, <1>8 DEF MainQueueInv, GoneInv
<1> QED  BY <1>6, <1>9, <1>10, <1>11, <1>12, <1>13 DEF MainQueueInv

(* The handler has the array that is cached. *)
LEMMA MainFetch ==
    ASSUME MainInv, NEW t \in Timers, Fetch(t) PROVE MainQueueInv'
<1> USE TheProcesses, Scheduling
<1>1. TypeOK /\ PlaceInv /\ FreshInv /\ ArrayInv /\ MainQueueInv /\ AnyQueueInv
  BY DEF MainInv, AnyQueueInv
<1>2. /\ At(t, "fetch") /\ UNCHANGED ghosts
      /\ how' = how /\ arrays' = arrays /\ self' = self /\ sources' = sources
      /\ status' = status /\ runs' = runs
  BY DEF Fetch, ghosts
<1>3. Goes(t, "fetch", "enumerate", proc[t].timer, proc[t].act, self.cache, 1)
  BY <1>1, HandlerGoes
<1>4. /\ Onward(t, "fetch", "enumerate")
      /\ proc'[t].arr = self.cache /\ proc'[t].idx = 1 /\ proc'[t].act = proc[t].act
  BY <1>3 DEF Goes, Onward
<1>5. HandlerAt(t, "fetch", "enumerate")  BY <1>2, <1>4, InTurn DEF Handling
<1>6. /\ Pc(t) = "fetch" /\ Pc(t)' = "enumerate" /\ Pc(Caller)' = "idle" /\ TurnsInv'
      /\ Pc(Caller) = "idle" /\ Table = t
      /\ \A q \in Processes \ {t} : Pc(q) = "idle" /\ Pc(q)' = "idle"
  BY <1>5 DEF HandlerAt
<1>7. /\ Scheduled' = Scheduled /\ \A b : Option(b)' = Option(b)
      /\ Table' = Table /\ Handler0' = Handler0
      /\ \A b : InCache(b)' <=> InCache(b)
      /\ \A b : Unrun(b)' <=> Unrun(b)
  BY <1>2, Frame
<1>8. TableInv'
  BY <1>2, <1>4, <1>5, <1>7, HandlerTable DEF Handling
<1>9. CacheInv'
  BY <1>1, <1>2, <1>4, <1>6, <1>7 DEF MainQueueInv, CacheInv
<1>10. RunInv'
  <2>1. \A i \in Nat \ {0} : ~Passed(i) /\ ~Passed(i)'  BY <1>4, <1>6 DEF Passed
  <2>2. \A b : 1..Len(arrays[b]) \subseteq Nat \ {0}  OBVIOUS
  <2>3. Pc(Table) = "fetch" /\ Pc(Caller)' \notin Calling  BY <1>6 DEF Calling
  <2> QED
    BY <1>1, <1>2, <1>7, <2>1, <2>2, <2>3 DEF MainQueueInv, RunInv
<1>11. DueInv'
  <2>1. \A b \in Actions : WillRun(b) => WillRun(b)'  BY <1>7 DEF WillRun
  <2>2. \A b \in Actions : Unrun(b) => WillRun(b)
    BY <1>1, <1>6 DEF MainQueueInv, DueInv
  <2>3. \A u \in Timers : Pc(u)' \notin Cancelling  BY <1>6 DEF Cancelling
  <2> QED  BY <1>6, <1>7, <2>1, <2>2, <2>3 DEF DueInv
<1>12. GoneInv'
  BY <1>1, <1>2, <1>7 DEF MainQueueInv, GoneInv
<1> QED  BY <1>6, <1>8, <1>9, <1>10, <1>11, <1>12 DEF MainQueueInv

(* Every cached action is run in its turn, and for the first time. *)
LEMMA MainEnumerate ==
    ASSUME MainInv, NEW t \in Timers, Enumerate(t) PROVE MainQueueInv'
<1> USE TheProcesses, Scheduling
<1>1. TypeOK /\ PlaceInv /\ FreshInv /\ ArrayInv /\ MainQueueInv /\ AnyQueueInv
  BY DEF MainInv, AnyQueueInv
<1> DEFINE m == proc[t]
           c == self.cache
           n == Len(arrays[c])
<1>2. /\ At(t, "enumerate")
      /\ how' = how /\ arrays' = arrays /\ self' = self /\ sources' = sources
  BY DEF Enumerate
<1>3. Pc(t) = "enumerate" /\ m.arr = c /\ m.idx \in Nat \ {0}
  <2>1. Pc(t) = "enumerate"  BY <1>2 DEF At, Pc
  <2>2. m.idx \in Nat /\ m.idx > 0  BY <1>1, <2>1 DEF TypeOK, PlaceInv, PlaceOf
  <2> QED  BY <1>1, <2>1, <2>2 DEF MainQueueInv, CacheInv
<1>4. /\ ToRun(t) = << >> <=> c = NULL \/ m.idx > n
      /\ ToRun(t) /= << >> => c \in Actions /\ m.idx \in 1..n /\ Head(ToRun(t)) = arrays[c][m.idx]
  BY <1>1, <1>3, Enumerated
<1>5. c /= NULL => /\ c \in Actions /\ n \in Nat
                   /\ \A i \in 1..n : /\ arrays[c][i] \in Scheduled
                                      /\ Option(arrays[c][i]) = "Merge"
                                      /\ runs[arrays[c][i]] > 0 <=> Passed(i)
                                      /\ \A j \in 1..n : arrays[c][j] = arrays[c][i] => i = j
  BY <1>1 DEF TypeOK, ArrayInv, MainQueueInv, RunInv
<1>6. /\ Scheduled' = Scheduled /\ \A b : Option(b)' = Option(b)
      /\ Table' = Table /\ Handler0' = Handler0
      /\ \A b : InCache(b)' <=> InCache(b)
  BY <1>2, Frame
<1>7. \A b \in Actions : WillRun(b) => WillRun(b)'  BY <1>6 DEF WillRun
<1>8. ASSUME NEW to \in {"enumerate", "uncacheRun"}, NEW idx,
             Goes(t, "enumerate", to, m.timer, m.act, m.arr, idx)
      PROVE  /\ \A q \in Processes \ {t} : Pc(q) = "idle" /\ Pc(q)' = "idle"
             /\ Pc(t)' = to /\ proc'[t].idx = idx /\ Table = t
             /\ TurnsInv' /\ TableInv' /\ CacheInv'
  <2>1. /\ Onward(t, "enumerate", to) /\ proc'[t].act = m.act /\ proc'[t].arr = m.arr
        /\ proc'[t].idx = idx
    BY <1>8 DEF Goes, Onward
  <2>2. HandlerAt(t, "enumerate", to)  BY <1>2, <2>1, InTurn DEF Handling
  <2>3. /\ \A q \in Processes \ {t} : Pc(q) = "idle" /\ Pc(q)' = "idle"
        /\ Pc(t)' = to /\ Table = t /\ TurnsInv'
    BY <2>2 DEF HandlerAt
  <2>4. TableInv'
    BY <1>2, <1>6, <2>1, <2>2, HandlerTable DEF Handling
  <2>5. CacheInv'
    BY <1>1, <1>2, <1>3, <1>6, <2>1, <2>3 DEF MainQueueInv, CacheInv
  <2> QED  BY <2>1, <2>3, <2>4, <2>5
<1>9. \A b \in Actions : Unrun(b) => WillRun(b)
  <2>1. Pc(Caller) = "idle"  BY <1>2, <1>3 DEF At, Pc, MainInv
  <2> QED  BY <1>1, <2>1 DEF MainQueueInv, DueInv
<1>10. ASSUME ToRun(t) /= << >>, Runs(Head(ToRun(t))),
              Goes(t, "enumerate", "enumerate", m.timer, m.act, m.arr, m.idx + 1)
       PROVE  MainQueueInv'
  <2> DEFINE a == arrays[c][m.idx]
  <2>1. c \in Actions /\ c /= NULL /\ m.idx \in 1..n /\ Runs(a)  BY <1>4, <1>10
  <2>2. a \in Scheduled /\ Option(a) = "Merge" /\ (runs[a] > 0 <=> Passed(m.idx))
        /\ \A i \in 1..n : arrays[c][i] = a => i = m.idx
    BY <1>5, <2>1
  <2>3. /\ \A q \in Processes \ {t} : Pc(q) = "idle" /\ Pc(q)' = "idle"
        /\ Pc(t)' = "enumerate" /\ proc'[t].idx = m.idx + 1 /\ Table = t
        /\ TurnsInv' /\ TableInv' /\ CacheInv'
    BY <1>8, <1>10
  <2>4. \A i \in Nat : (Passed(i) <=> i < m.idx) /\ (Passed(i)' <=> i < m.idx + 1)
    BY <1>3, <2>3 DEF Passed
  <2>5. runs[a] = 0
    <3>1. runs[a] \in 0..2  BY <1>1, <2>2 DEF TypeOK
    <3>2. ~(m.idx < m.idx)  BY <1>3
    <3>3. ~(runs[a] > 0)  BY <1>3, <2>2, <2>4, <3>2
    <3> QED  BY <3>1, <3>3
  <2> HIDE DEF a
  <2>6. /\ runs'[a] = 1
        /\ \A b \in Actions : b /= a => runs'[b] = runs[b]
        /\ \A b \in Actions : Unrun(b)' => Unrun(b) /\ b /= a
        /\ \A b \in Actions : status'[b] \in {"cancelled", "replaced"} => status'[b] = status[b]
    BY <1>1, <2>1, <2>2, <2>5, RunsOf
  <2>7. RunInv'
    <3>1. \A i \in 1..n : runs'[arrays[c][i]] > 0 <=> Passed(i)'
      <4> SUFFICES ASSUME NEW i \in 1..n PROVE runs'[arrays[c][i]] > 0 <=> Passed(i)'
        OBVIOUS
      <4>1. CASE arrays[c][i] = a
        BY <1>3, <2>2, <2>4, <2>6, <4>1
      <4>2. CASE arrays[c][i] /= a
        <5>1. i /= m.idx  BY <4>2 DEF a
        <5>2. runs'[arrays[c][i]] = runs[arrays[c][i]] /\ (runs[arrays[c][i]] > 0 <=> Passed(i))
          BY <1>5, <2>1, <2>6, <4>2
        <5>3. i < m.idx <=> i < m.idx + 1  BY <1>3, <5>1
        <5> QED  BY <2>4, <5>2, <5>3
      <4> QED  BY <4>1, <4>2
    <3>2. Pc(Caller)' \notin Calling /\ Pc(Table) = "enumerate" /\ Pc(Table)' = "enumerate"
      BY <1>3, <1>6, <2>3 DEF Calling, Pc
    <3>3. \A b \in Scheduled : Option(b) = "Cancel" => runs'[b] = runs[b]  BY <2>2, <2>6
    <3>4. \A b \in Scheduled : Option(b) = "Merge" => runs'[b] < 2
      BY <1>1, <2>6 DEF MainQueueInv, RunInv
    <3>5. self'.cache = c  BY <1>2
    <3>6. \A b \in Scheduled : Option(b) = "Cancel" /\ ~how[b].repeats /\ runs[b] > 0 =>
             runs[b] = 1 /\ Handler0 /= b
      BY <1>1, <1>3, <2>3, <3>2 DEF MainQueueInv, RunInv
    <3> QED  BY <1>2, <1>6, <3>1, <3>2, <3>3, <3>4, <3>5, <3>6 DEF RunInv
  <2>8. DueInv'
    <3>1. \A b \in Actions : Unrun(b)' => WillRun(b)'  BY <1>7, <1>9, <2>6
    <3>2. Pc(Caller)' = "idle" /\ \A u \in Timers : Pc(u)' \notin Cancelling
      BY <2>3 DEF Cancelling
    <3> QED  BY <3>1, <3>2 DEF DueInv
  <2>9. GoneInv'
    BY <1>1, <1>6, <2>6 DEF MainQueueInv, GoneInv
  <2> QED  BY <2>3, <2>7, <2>8, <2>9 DEF MainQueueInv
<1>11. ASSUME ToRun(t) = << >>, UNCHANGED ghosts,
              Goes(t, "enumerate", "uncacheRun", m.timer, m.act, m.arr, m.idx)
       PROVE  MainQueueInv'
  <2>1. c = NULL \/ m.idx > n  BY <1>4, <1>11
  <2>2. /\ \A q \in Processes \ {t} : Pc(q) = "idle" /\ Pc(q)' = "idle"
        /\ Pc(t)' = "uncacheRun" /\ Table = t
        /\ TurnsInv' /\ TableInv' /\ CacheInv'
    BY <1>8, <1>11
  <2>3. status' = status /\ runs' = runs /\ \A b : Unrun(b)' <=> Unrun(b)
    BY <1>11, Frame DEF ghosts
  <2>4. RunInv'
    <3>1. \A i \in Nat : (Passed(i) <=> i < m.idx) /\ Passed(i)'
      BY <1>3, <2>2 DEF Passed
    <3>2. c /= NULL => \A i \in 1..n : runs[arrays[c][i]] > 0
      BY <1>3, <1>5, <2>1, <3>1
    <3>3. Pc(Caller)' \notin Calling /\ Pc(Table) = "enumerate"
      BY <1>3, <2>2 DEF Calling
    <3>4. self'.cache = c /\ arrays' = arrays  BY <1>2
    <3>5. \A i \in 1..n : Passed(i)'  BY <3>1
    <3>6. \A b \in Scheduled : Option(b) = "Cancel" /\ ~how[b].repeats /\ runs[b] > 0 =>
             runs[b] = 1 /\ Handler0 /= b
      BY <1>1, <1>3, <2>2, <3>3 DEF MainQueueInv, RunInv
    <3>7. \A b \in Scheduled : Option(b) = "Merge" => runs[b] < 2
      BY <1>1 DEF MainQueueInv, RunInv
    <3> QED  BY <1>2, <1>6, <2>3, <3>2, <3>3, <3>4, <3>5, <3>6, <3>7 DEF RunInv
  <2>5. DueInv'
    <3>1. Pc(Caller)' = "idle" /\ \A u \in Timers : Pc(u)' \notin Cancelling
      BY <2>2 DEF Cancelling
    <3> QED  BY <1>7, <1>9, <2>3, <3>1 DEF DueInv
  <2>6. GoneInv'
    BY <1>1, <1>6, <2>3 DEF MainQueueInv, GoneInv
  <2> QED  BY <2>2, <2>4, <2>5, <2>6 DEF MainQueueInv
<1> QED  BY <1>1, <1>10, <1>11, HandlerGoes

(* All that was cached has run. *)
LEMMA MainUncacheRun ==
    ASSUME MainInv, NEW t \in Timers, UncacheRun(t) PROVE MainQueueInv'
<1> USE TheProcesses, Scheduling
<1>1. TypeOK /\ PlaceInv /\ FreshInv /\ ArrayInv /\ MainQueueInv /\ AnyQueueInv
  BY DEF MainInv, AnyQueueInv
<1> DEFINE a == proc[t].act
<1>2. /\ At(t, "uncacheRun") /\ UNCHANGED ghosts
      /\ how' = how /\ arrays' = arrays /\ sources' = sources
      /\ status' = status /\ runs' = runs
      /\ Table' = Table /\ self'.cache = NULL
  BY <1>1 DEF UncacheRun, ghosts, Table, TypeOK
<1>3. PICK to \in {"idle", "cancelRead"} : Onward(t, "uncacheRun", to)
  BY <1>1, Steps
<1>4. HandlerAt(t, "uncacheRun", to)  BY <1>2, <1>3, InTurn DEF Handling
<1>5. /\ Pc(t) = "uncacheRun" /\ Pc(t)' = to /\ Pc(Caller)' = "idle" /\ TurnsInv'
      /\ \A q \in Processes \ {t} : Pc(q) = "idle" /\ Pc(q)' = "idle"
      /\ a \in Scheduled /\ Option(a) /= "Cancel" /\ Table = t /\ Handler0 = a
  BY <1>4 DEF HandlerAt
<1>6. /\ Scheduled' = Scheduled /\ \A b : Option(b)' = Option(b)
      /\ Handler0' = Handler0
      /\ \A b : ~InCache(b)'
      /\ \A b : Unrun(b)' <=> Unrun(b)
  <2>1. \A b : ~InCache(b)'  BY <1>2 DEF InCache
  <2> QED  BY <1>2, <2>1, Frame DEF Handler0
<1>7. TableInv'
  BY <1>2, <1>4, HandlerTable DEF Handling
<1>8. CacheInv'
  BY <1>2, <1>3, <1>5 DEF CacheInv
<1>9. RunInv'
  <2>1. \A b \in Scheduled : Option(b) = "Cancel" => Handler0 /= b  BY <1>5
  <2> QED
    BY <1>1, <1>2, <1>5, <1>6, <2>1 DEF MainQueueInv, RunInv, Calling
<1>10. DueInv'
  <2>1. ASSUME NEW b \in Actions, Unrun(b) PROVE FALSE
    <3>1. InCache(b)  BY <1>1, <1>5, <2>1 DEF MainQueueInv, DueInv, WillRun
    <3>2. PICK i \in 1..Len(arrays[self.cache]) : arrays[self.cache][i] = b
      BY <3>1 DEF InCache, Contains
    <3>3. Passed(i)  BY <1>5 DEF Passed
    <3>4. runs[b] > 0  BY <1>1, <3>1, <3>2, <3>3 DEF MainQueueInv, RunInv, InCache
    <3> QED  BY <2>1, <3>4 DEF Unrun
  <2> QED  BY <1>6, <2>1 DEF DueInv
<1>11. GoneInv'
  BY <1>1, <1>2, <1>6 DEF MainQueueInv, GoneInv
<1> QED  BY <1>5, <1>7, <1>8, <1>9, <1>10, <1>11 DEF MainQueueInv

(* A step that leaves all but the program's life alone. *)
LEMMA MainStays ==
    ASSUME MainInv, UNCHANGED <<self, arrays, sources, how, proc, ghosts>> PROVE MainQueueInv'
<1>1. /\ Scheduled' = Scheduled /\ \A b : Option(b)' = Option(b)
      /\ Table' = Table /\ Handler0' = Handler0
      /\ \A b : InCache(b)' <=> InCache(b)
      /\ \A b : Unrun(b)' <=> Unrun(b)
      /\ \A p : Pc(p)' = Pc(p)
      /\ \A i : Passed(i)' <=> Passed(i)
      /\ me' = me
  BY Frame DEF Pc, Passed, me
<1>2. /\ proc' = proc /\ sources' = sources /\ self' = self /\ arrays' = arrays
      /\ how' = how /\ runs' = runs /\ status' = status
  BY DEF ghosts
<1>3. MainQueueInv  BY DEF MainInv
<1>4. TurnsInv'  BY <1>1, <1>3 DEF MainQueueInv, TurnsInv
<1>5. TableInv'
  BY <1>1, <1>2, <1>3 DEF MainQueueInv, TableInv, Holds, Table, Handler0, Pc, me, Option
<1>6. CacheInv'
  BY <1>1, <1>2, <1>3 DEF MainQueueInv, CacheInv, Table, Handler0, Pc, me, Option
<1>7. RunInv'
  BY <1>1, <1>2, <1>3 DEF MainQueueInv, RunInv, Table, Handler0, Pc, me, Option
<1>8. DueInv'
  <2>1. \A b : WillRun(b)' <=> WillRun(b)  BY <1>1, <1>2 DEF WillRun, Option
  <2> QED  BY <1>1, <1>2, <1>3, <2>1 DEF MainQueueInv, DueInv, Pc, me, Option
<1>9. GoneInv'
  BY <1>1, <1>2, <1>3 DEF MainQueueInv, GoneInv
<1> QED  BY <1>4, <1>5, <1>6, <1>7, <1>8, <1>9 DEF MainQueueInv

(* Before the first call the main queue has nothing to perform.            *)
LEMMA InitMain == ASSUME Init PROVE MainQueueInv
<1> USE TheProcesses
<1>1. \A p \in Processes : Pc(p) = "idle"  BY DEF Init, Pc, Idle
<1>2. Table = NULL /\ self.cache = NULL /\ \A a : ~InCache(a)  BY DEF Init, Table, InCache
<1>3. /\ Scheduled = {} /\ \A a \in Actions : status[a] = "new"
      /\ \A t \in Timers : ~sources[t].cancelled
  BY DEF Init, Scheduled, New
<1>4. TableInv
  <2>1. \A p \in Processes : ~Holds(p) /\ Pc(p) \notin Using \cup Handling
    BY <1>1 DEF Holds, Using, Handling
  <2>2. \A t \in Timers :
           /\ Pc(t) \notin Handling /\ Pc(t) /= "cancelRead" /\ Pc(t) /= "cancelRemove"
           /\ ~sources[t].cancelled
    BY <1>1, <1>3, <2>1
  <2>3. Pc(Caller) \notin Using /\ Pc(Caller) /= "create"
        /\ \A p \in Processes : Pc(p) /= "cancelRemove"
    BY <1>1, <2>1
  <2> QED  BY <1>2, <2>1, <2>2, <2>3 DEF TableInv
<1>5. TurnsInv /\ CacheInv
  BY <1>1, <1>2 DEF TurnsInv, CacheInv
<1>6. RunInv /\ DueInv /\ GoneInv
  BY <1>1, <1>2, <1>3 DEF RunInv, DueInv, GoneInv, Calling, Unrun
<1> QED  BY <1>4, <1>5, <1>6 DEF MainQueueInv

(* Every step keeps what the turns of the main queue add.                  *)
LEMMA NextMain == ASSUME MainInv, [Next]_vars PROVE MainInv'
<1>1. AnyQueueInv'  BY NextAny DEF MainInv
<1>2. queue' = queue
  BY DEF Next, Call, Handler, Cancel, Schedule, CancelCall, Lookup, Create, Uncache, ReadCache,
         AddCache, SetHandler, CancelRead, CancelRemove, CancelUncache, CancelSource, Fire,
         RunAction, Fetch, Enumerate, UncacheRun, Race, vars
<1>3. ASSUME NEW p \in Processes, Cancel(p) PROVE MainQueueInv'
  BY <1>3, MainCancelRead, MainCancelRemove, MainCancelUncache, MainCancelSource DEF Cancel
<1>4. ASSUME NEW option \in Options, NEW repeats \in BOOLEAN, Schedule(option, repeats)
      PROVE  MainQueueInv'
  BY <1>4, MainSchedule
<1>5. ASSUME CancelCall \/ Call PROVE MainQueueInv'
  BY <1>3, <1>5, MainLook, MainCreate, MainUncache, MainAddCache, MainSetHandler, TheProcesses
     DEF Call
<1>6. ASSUME NEW t \in Timers, Fire(t) \/ Handler(t) PROVE MainQueueInv'
  BY <1>3, <1>6, MainFire, MainRunAction, MainFetch, MainEnumerate, MainUncacheRun, TheProcesses
     DEF Handler
<1>7. ASSUME Race \/ UNCHANGED vars PROVE MainQueueInv'
  BY <1>7, MainStays DEF Race, vars
<1>8. MainQueueInv'  BY <1>4, <1>5, <1>6, <1>7 DEF Next
<1> QED  BY <1>1, <1>2, <1>8 DEF MainInv

(* The invariant of every queue, and where calls and handlers take turns   *)
(* that of the main queue.                                                 *)
THEOREM Invariant == Spec => []Inv
<1>1. Init => Inv  BY InitAny, InitMain DEF Inv
<1>2. ASSUME Inv, [Next]_vars PROVE Inv'
  <2>1. queue' = queue
    BY <1>2 DEF Next, Call, Handler, Cancel, Schedule, CancelCall, Lookup, Create, Uncache,
         ReadCache, AddCache, SetHandler, CancelRead, CancelRemove, CancelUncache,
         CancelSource, Fire, RunAction, Fetch, Enumerate, UncacheRun, Race, vars
  <2>2. AnyQueueInv'  BY <1>2, NextAny DEF Inv
  <2>3. queue = "main" => MainQueueInv'  BY <1>2, NextMain DEF Inv, MainInv
  <2> QED  BY <2>1, <2>2, <2>3 DEF Inv
<1> QED  BY <1>1, <1>2, PTL DEF Spec

(* On the main queue no action is lost: when the caller is at rest, what   *)
(* is due and has not run is going to run when the timer fires.            *)
THEOREM NothingIsLost == Spec => []NotLostInTurns
<1>1. ASSUME Inv PROVE NotLostInTurns
  <2> SUFFICES ASSUME queue = "main", Resting, NEW a \in Actions, status[a] = "due", runs[a] = 0
               PROVE  InTable(a) \/ InHandler(a)
    BY DEF NotLostInTurns, NotLost
  <2>1. MainQueueInv /\ Unrun(a) /\ Pc(Caller) = "idle"
    BY <1>1 DEF Inv, Unrun, Resting, me, Pc
  <2>2. WillRun(a)  BY <2>1 DEF MainQueueInv, DueInv
  <2>3. CanFire(Table)  BY <2>1, <2>2 DEF MainQueueInv, TableInv, WillRun, CanFire, Table, Handler0
  <2> QED  BY <2>2, <2>3 DEF WillRun, InTable, InCache, Table, Handler0, Option
<1> QED  BY <1>1, Invariant, PTL

(* On the main queue what was cancelled or replaced does not wait to run.  *)
THEOREM CancelledStaysGone == Spec => []CancelledIsGone
<1>1. ASSUME Inv PROVE CancelledIsGone
  <2> SUFFICES ASSUME queue = "main", NEW a \in Actions, status[a] \in {"cancelled", "replaced"}
               PROVE  ~InTable(a)
    BY DEF CancelledIsGone
  <2> QED  BY <1>1 DEF Inv, MainQueueInv, GoneInv, InCache, InTable, Table, Handler0
<1> QED  BY <1>1, Invariant, PTL

(* On the main queue an action runs twice only if it repeats.              *)
THEOREM OneRunWithoutRepeats == Spec => []RunsOnce
<1>1. ASSUME Inv PROVE RunsOnce
  <2> SUFFICES ASSUME queue = "main", NEW a \in Actions, runs[a] = 2 PROVE how[a].repeats
    BY DEF RunsOnce
  <2>1. TypeOK /\ FreshInv /\ RunInv  BY <1>1 DEF Inv, AnyQueueInv, MainQueueInv
  <2>2. a \in Scheduled /\ Option(a) \in Options  BY <2>1, Scheduling DEF FreshInv
  <2> QED  BY <2>1, <2>2 DEF RunInv, Options
<1> QED  BY <1>1, Invariant, PTL

=============================================================================
