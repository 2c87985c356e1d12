---------------------------- MODULE SemaphoreDemo ----------------------------
(***************************************************************************)
(* The programs of GCD/GCD that guard work with a dispatch semaphore,      *)
(* composed with DispatchSemaphore:                                        *)
(*                                                                         *)
(*   SemaphoreDemo.m over SBaseDemo.m  three threads sell tickets, two     *)
(*                                     save and draw money; the semaphore  *)
(*                                     has one unit                        *)
(*   SemaphoreDemo.m otherTest and     more threads than units, no shared  *)
(*   ViewController.m viewDidLoad      state: a pool                       *)
(*   ViewController.m                  two tasks that are to run one after *)
(*   semaphoreTaskTest                 the other                           *)
(*                                                                         *)
(* All of them repeat: wait for ever, do the work, signal.  The work reads *)
(* a count into a local, sleeps, and writes the changed local back, so two *)
(* threads doing it together lose one of the two changes.                  *)
(***************************************************************************)
EXTENDS DispatchSemaphore, FiniteSetsExt

CONSTANT Programs
    (* A program: value, the argument of dispatch_semaphore_create; delta,  *)
    (* what the work of each of its threads adds to the count; calls, how   *)
    (* often every thread does the work; start, the count at the start.     *)

ASSUME DemoAssumption ==
    \A p \in Programs :
       /\ p.value \in 0..LONG_MAX
       /\ p.calls \in Nat \ {0}
       /\ p.start \in Int
       /\ DOMAIN p.delta \subseteq Threads
       /\ p.delta \in [DOMAIN p.delta -> Int]

VARIABLES
    program,        \* the program that runs
    step,           \* where every thread is in its loop
    left,           \* iterations it has left
    old,            \* its local copy of the count
    count           \* ticketsCount or money

demoVars == <<program, step, left, old, count>>
allVars == <<vars, demoVars>>

Steps == {"wait", "waiting", "read", "write", "signal", "signalling", "done"}

DemoInit ==
    /\ program \in Programs
    /\ Init /\ dsema_orig = program.value
    /\ step = [t \in Threads |-> IF t \in DOMAIN program.delta THEN "wait" ELSE "done"]
    /\ left = [t \in Threads |-> program.calls]
    /\ old = [t \in Threads |-> 0]
    /\ count = program.start

Go(t, from, to) ==
    /\ step[t] = from
    /\ step' = [step EXCEPT ![t] = to]

-----------------------------------------------------------------------------
(* dispatch_semaphore_wait(semaphore, DISPATCH_TIME_FOREVER) *)
CallWait(t) ==
    /\ Go(t, "wait", "waiting")
    /\ Wait(t, "DISPATCH_TIME_FOREVER")
    /\ UNCHANGED <<program, left, old, count>>

WaitReturns(t) ==
    /\ Go(t, "waiting", "read")
    /\ Return(t)
    /\ UNCHANGED <<program, left, old, count>>

(* __saleTicket, __saveMoney, __drawMoney: the count is read before the    *)
(* sleep and written after it.                                             *)
ReadCount(t) ==
    /\ Go(t, "read", "write")
    /\ old' = [old EXCEPT ![t] = count]
    /\ UNCHANGED <<vars, program, left, count>>

WriteCount(t) ==
    /\ Go(t, "write", "signal")
    /\ count' = old[t] + program.delta[t]
    /\ UNCHANGED <<vars, program, left, old>>

(* Slip: the work returns early, past the signal. *)
CallSignal_Skipped(t) ==
    \/ /\ Go(t, "signal", "signalling")
       /\ Signal(t)
       /\ UNCHANGED <<program, left, old, count>>
    \/ /\ Go(t, "signal", "done")
       /\ UNCHANGED <<vars, program, left, old, count>>

(* dispatch_semaphore_signal(semaphore) *)
CallSignal(t) ==
    /\ Go(t, "signal", "signalling")
    /\ Signal(t)
    /\ UNCHANGED <<program, left, old, count>>

(* The loop goes on; the local goes out of scope. *)
SignalReturns(t) ==
    /\ Go(t, "signalling", IF left[t] = 1 THEN "done" ELSE "wait")
    /\ Return(t)
    /\ left' = [left EXCEPT ![t] = @ - 1]
    /\ old' = [old EXCEPT ![t] = 0]
    /\ UNCHANGED <<program, count>>

InCall(t) == Step(t) /\ UNCHANGED demoVars

(* The last block that holds the semaphore has run. *)
ReleaseSemaphore ==
    /\ \A t \in Threads : step[t] = "done"
    /\ Dispose
    /\ UNCHANGED demoVars

Work(t) ==
    \/ CallWait(t)
    \/ WaitReturns(t)
    \/ ReadCount(t)
    \/ WriteCount(t)
    \/ CallSignal(t)
    \/ SignalReturns(t)

DemoNext ==
    \/ /\ life = "live"
       /\ \/ \E t \in Threads : Work(t) \/ InCall(t)
          \/ ReleaseSemaphore
    \/ life = "disposed" /\ UNCHANGED allVars

(* Threads run.  The port has the policy SYNC_POLICY_FIFO, so a thread     *)
(* blocked in the kernel is not passed over for ever: strong fairness.     *)
DemoSpec ==
    /\ DemoInit /\ [][DemoNext]_allVars
    /\ \A t \in Threads :
          /\ WF_allVars(life = "live" /\ Work(t))
          /\ WF_allVars(life = "live" /\ InCall(t))
          /\ SF_allVars(life = "live" /\ Sema4Wait(t) /\ UNCHANGED demoVars)
    /\ WF_allVars(life = "live" /\ ReleaseSemaphore)

-----------------------------------------------------------------------------
(* Threads that hold a unit: from the wait that got it to the signal. *)
Holding(t) ==
    \/ step[t] \in {"read", "write", "signal"}
    \/ step[t] = "waiting" /\ pc[t] = "acquired"

(* At most as many threads as the semaphore was created with are between   *)
(* their wait and their signal ("最多几个资源可访问").                        *)
PoolBound == Cardinality({t \in Threads : Holding(t)}) <= program.value

(* How often a thread has written the count. *)
Written(t) ==
    program.calls - left[t] + (IF step[t] \in {"signal", "signalling"} THEN 1 ELSE 0)

(* No change of ticketsCount or money is lost although the work reads it,  *)
(* sleeps and writes: with one unit the count is the start plus every      *)
(* change written.                                                         *)
NoLostUpdate ==
    program.value = 1 =>
       count = program.start
                 + MapThenSumSet(LAMBDA t : program.delta[t] * Written(t),
                                 DOMAIN program.delta)

(* The semaphore is never released while its value is below the original   *)
(* one, which _dispatch_semaphore_dispose answers with a crash, nor does a *)
(* signal overflow.                                                        *)
NeverCrashes == life /= "crashed"

(* Every task gets its turn, and runs to its end. *)
EveryTaskRuns == <>(\A t \in Threads : step[t] = "done")

=============================================================================
