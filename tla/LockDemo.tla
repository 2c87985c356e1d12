------------------------------ MODULE LockDemo ------------------------------
(***************************************************************************)
(* The programs of GCD/GCD that use locks and conditions:                  *)
(*                                                                         *)
(*   NSLockDemo, MutexDemo, OSSpinLockDemo, OSSPinLockDemo2,               *)
(*   OSUnfairLockDemo, SynchronizedDemo, SerialQueueDemo                   *)
(*                         SBaseDemo's tickets and money under two locks   *)
(*   MutexDemo2            a second lock inside of the first               *)
(*   MutexDemo3            a recursive lock, locked again by its owner     *)
(*   MutexDemo4,           a thread that removes an element waits for one  *)
(*   NSConditionDemo       that adds it                                    *)
(*   NSConditionLockDemo   three threads that take turns                   *)
(*                                                                         *)
(* A method is a sequence of operations, and a program gives every thread  *)
(* its method.  Locks and conditions are the system's, with the spurious   *)
(* wakeups that POSIX allows.                                              *)
(***************************************************************************)
EXTENDS Integers, Sequences, FiniteSets, FiniteSetsExt

CONSTANTS
    Threads,
    NULL,
    Programs,       \* of functions from threads to methods
    RecursionBound  \* bound: 10 in MutexDemo3

ASSUME LockDemoAssumption ==
    IsFiniteSet(Threads) /\ NULL \notin Threads /\ RecursionBound \in Nat

VARIABLES
    program,
    ip,             \* the next operation of every thread
    cond,           \* of every thread: "running", "asleep" or "woken" in a wait
    owner, depth,   \* of every lock
    condition,      \* of the NSConditionLock
    old,            \* oldMoney, oldTicketsCount
    counts,         \* money and ticketsCount
    data,           \* the number of elements of the array
    calls,          \* the static count of MutexDemo3
    spurious,       \* some wait has returned without a signal
    missed          \* removeLastObject has found the array empty

vars == <<program, ip, cond, owner, depth, condition, old, counts, data, calls,
          spurious, missed>>

Locks == {"ticket", "money", "mutex", "mutex2", "recursive", "data", "conditionLock"}

(* PTHREAD_MUTEX_RECURSIVE: MutexDemo3's, and that of MutexDemo4's data.   *)
(* NSConditionDemo's condition is not recursive, but no method of either   *)
(* program locks the data twice.                                           *)
RecursiveLocks == {"recursive", "data"}

-----------------------------------------------------------------------------
(* The methods. *)
Op(op, on, arg) == [op |-> op, on |-> on, arg |-> arg]

Locked(lock, body) == <<Op("lock", lock, 0)>> \o body \o <<Op("unlock", lock, 0)>>

(* Reads into a local, sleeps, and writes the changed local back. *)
Change(count, by) == <<Op("read", count, 0), Op("write", count, by)>>

(* Slip: one lock for the saving, another for the drawing. *)
drawMoney_OtherLock == Locked("ticket", Change("money", -50))

saleTicket == Locked("ticket", Change("tickets", -1))
saveMoney == Locked("money", Change("money", 50))
drawMoney == Locked("money", Change("money", -50))

(* Slip: otherTest2 takes the lock of its caller. *)
otherTest2_SameLock == Locked("mutex", <<>>)

(* MutexDemo2: the calls that lock inside of the first lock.  The static   *)
(* count lets only the first ten do so; the others take one lock.          *)
otherTest2 == Locked("mutex2", <<>>)
otherTest == Locked("mutex", otherTest2)

(* MutexDemo3: otherTest calls itself with the lock held. *)
recursiveTest == Locked("recursive", <<Op("recurse", "recursive", 0)>>)

(* MutexDemo4, NSConditionDemo *)
remove == Locked("data", <<Op("wait", "data", 0), Op("remove", "data", 0)>>)

(* Slip: wakes before there is an element, and outside of the lock. *)
add_Early(wake) == <<Op(wake, "data", 0)>> \o Locked("data", <<Op("add", "data", 0)>>)

add(wake) == Locked("data", <<Op("add", "data", 0), Op(wake, "data", 0)>>)

(* NSConditionLockDemo *)
one == <<Op("lock", "conditionLock", 0), Op("unlockWith", "conditionLock", 2)>>
two == <<Op("lockWhen", "conditionLock", 2), Op("unlockWith", "conditionLock", 3)>>
three == <<Op("lockWhen", "conditionLock", 3), Op("unlock", "conditionLock", 0)>>

-----------------------------------------------------------------------------
TypeOK ==
    /\ program \in Programs
    /\ ip \in [Threads -> Nat]
    /\ \A t \in Threads : ip[t] \in 1..Len(program[t]) + 1
    /\ cond \in [Threads -> {"running", "asleep", "woken"}]
    /\ owner \in [Locks -> Threads \cup {NULL}]
    /\ depth \in [Locks -> 0..RecursionBound + 1]
    /\ \A l \in Locks : owner[l] = NULL <=> depth[l] = 0
    /\ condition \in 1..3
    /\ old \in [Threads -> Int] /\ counts \in [{"tickets", "money"} -> Int]
    /\ data \in Nat /\ calls \in 0..RecursionBound
    /\ spurious \in BOOLEAN /\ missed \in BOOLEAN

Init ==
    /\ program \in Programs
    /\ ip = [t \in Threads |-> 1]
    /\ cond = [t \in Threads |-> "running"]
    /\ owner = [l \in Locks |-> NULL]
    /\ depth = [l \in Locks |-> 0]
    /\ condition = 1
    /\ old = [t \in Threads |-> 0]
    /\ counts = [c \in {"tickets", "money"} |-> IF c = "tickets" THEN 15 ELSE 0]
    /\ data = 0 /\ calls = 0
    /\ spurious = FALSE /\ missed = FALSE

Done(t) == ip[t] > Len(program[t])

(* The thread's next operation is one of ops. *)
At(t, ops) == ~Done(t) /\ cond[t] = "running" /\ program[t][ip[t]].op \in ops

On(t) == program[t][ip[t]].on
Arg(t) == program[t][ip[t]].arg

Advance(t) == ip' = [ip EXCEPT ![t] = @ + 1]

-----------------------------------------------------------------------------
Take(t, l) ==
    /\ owner[l] = NULL \/ (owner[l] = t /\ l \in RecursiveLocks)
    /\ owner' = [owner EXCEPT ![l] = t]
    /\ depth' = [depth EXCEPT ![l] = @ + 1]

(* Slip: unlocking once sets a recursive lock free. *)
Give_Free(l) ==
    /\ depth' = [depth EXCEPT ![l] = @ - 1]
    /\ owner' = [owner EXCEPT ![l] = NULL]

Give(l) ==
    /\ depth' = [depth EXCEPT ![l] = @ - 1]
    /\ owner' = [owner EXCEPT ![l] = IF depth[l] = 1 THEN NULL ELSE @]

(* lock, and lockWhenCondition: *)
Lock(t) ==
    /\ At(t, {"lock", "lockWhen"})
    /\ program[t][ip[t]].op = "lockWhen" => condition = Arg(t)
    /\ Take(t, On(t)) /\ Advance(t)
    /\ UNCHANGED <<program, cond, condition, old, counts, data, calls, spurious, missed>>

(* unlock, and unlockWithCondition:; a recursive method unlocks once for   *)
(* every call it returns from.                                             *)
Unlock(t) ==
    /\ At(t, {"unlock", "unlockWith"})
    /\ owner[On(t)] = t
    /\ condition' = IF program[t][ip[t]].op = "unlockWith" THEN Arg(t) ELSE condition
    /\ Give(On(t))
    /\ IF depth[On(t)] = 1 THEN Advance(t) ELSE UNCHANGED ip
    /\ UNCHANGED <<program, cond, old, counts, data, calls, spurious, missed>>

Read(t) ==
    /\ At(t, {"read"}) /\ Advance(t)
    /\ old' = [old EXCEPT ![t] = counts[On(t)]]
    /\ UNCHANGED <<program, cond, owner, depth, condition, counts, data, calls, spurious, missed>>

Write(t) ==
    /\ At(t, {"write"}) /\ Advance(t)
    /\ counts' = [counts EXCEPT ![On(t)] = old[t] + Arg(t)]
    /\ old' = [old EXCEPT ![t] = 0]
    /\ UNCHANGED <<program, cond, owner, depth, condition, data, calls, spurious, missed>>

(* MutexDemo3 calls itself until its count is at the bound. *)
Recurse(t) ==
    /\ At(t, {"recurse"})
    /\ IF calls < RecursionBound
         THEN calls' = calls + 1 /\ ip' = [ip EXCEPT ![t] = 1]
         ELSE Advance(t) /\ UNCHANGED calls
    /\ UNCHANGED <<program, cond, owner, depth, condition, old, counts, data, spurious, missed>>

(* if (self.data.count == 0): the wait gives the lock back and sleeps. *)
Wait(t) ==
    /\ At(t, {"wait"})
    /\ IF data = 0
         THEN cond' = [cond EXCEPT ![t] = "asleep"] /\ Give(On(t)) /\ UNCHANGED ip
         ELSE Advance(t) /\ UNCHANGED <<cond, owner, depth>>
    /\ UNCHANGED <<program, condition, old, counts, data, calls, spurious, missed>>

(* A wait may return although nobody has signaled. *)
SpuriousWakeup(t) ==
    /\ cond[t] = "asleep"
    /\ cond' = [cond EXCEPT ![t] = "woken"]
    /\ spurious' = TRUE
    /\ UNCHANGED <<program, ip, owner, depth, condition, old, counts, data, calls, missed>>

(* It has the lock again when it returns, and goes on behind the if. *)
WaitReturns(t) ==
    /\ cond[t] = "woken"
    /\ cond' = [cond EXCEPT ![t] = "running"]
    /\ Take(t, On(t)) /\ Advance(t)
    /\ UNCHANGED <<program, condition, old, counts, data, calls, spurious, missed>>

(* removeLastObject, on an empty array too. *)
Remove(t) ==
    /\ At(t, {"remove"}) /\ Advance(t)
    /\ data' = IF data = 0 THEN 0 ELSE data - 1
    /\ missed' = (missed \/ data = 0)
    /\ UNCHANGED <<program, cond, owner, depth, condition, old, counts, calls, spurious>>

Add(t) ==
    /\ At(t, {"add"}) /\ Advance(t)
    /\ data' = data + 1
    /\ UNCHANGED <<program, cond, owner, depth, condition, old, counts, calls, spurious, missed>>

Asleep == {t \in Threads : cond[t] = "asleep"}

(* Slip: wakes only when the array was empty before. *)
Wake_First(t) ==
    /\ At(t, {"signal", "broadcast"}) /\ Advance(t)
    /\ \E S \in SUBSET Asleep :
          /\ Cardinality(S) = IF Asleep = {} \/ data > 1 THEN 0 ELSE 1
          /\ cond' = [s \in Threads |-> IF s \in S THEN "woken" ELSE cond[s]]
    /\ UNCHANGED <<program, owner, depth, condition, old, counts, data, calls, spurious, missed>>

(* signal wakes one of the sleepers, if there are any, broadcast all. *)
Wake(t) ==
    /\ At(t, {"signal", "broadcast"}) /\ Advance(t)
    /\ \E S \in SUBSET Asleep :
          /\ IF program[t][ip[t]].op = "broadcast" THEN S = Asleep
             ELSE Cardinality(S) = IF Asleep = {} THEN 0 ELSE 1
          /\ cond' = [s \in Threads |-> IF s \in S THEN "woken" ELSE cond[s]]
    /\ UNCHANGED <<program, owner, depth, condition, old, counts, data, calls, spurious, missed>>

Step(t) ==
    \/ Lock(t) \/ Unlock(t) \/ Read(t) \/ Write(t) \/ Recurse(t)
    \/ Wait(t) \/ WaitReturns(t) \/ Remove(t) \/ Add(t) \/ Wake(t)

Finished == \A t \in Threads : Done(t)

Next ==
    \/ \E t \in Threads : Step(t) \/ SpuriousWakeup(t)
    \/ Finished /\ UNCHANGED vars

Spec == Init /\ [][Next]_vars

(* Threads run.  Every one has a bounded number of operations, so a lock   *)
(* need not be fair.                                                       *)
FairSpec == Spec /\ \A t \in Threads : WF_vars(Step(t))

-----------------------------------------------------------------------------
(* How much the thread has added to the count. *)
Written(t, c) ==
    MapThenSumSet(LAMBDA i : program[t][i].arg,
                  {i \in 1..ip[t] - 1 : program[t][i].op = "write" /\ program[t][i].on = c})

(* No sale, deposit or withdrawal is lost, although each reads the count,  *)
(* sleeps and writes.                                                      *)
NoLostUpdate ==
    /\ counts["tickets"] = 15 + MapThenSumSet(LAMBDA t : Written(t, "tickets"), Threads)
    /\ counts["money"] = MapThenSumSet(LAMBDA t : Written(t, "money"), Threads)

Removers == {t \in Threads : \E i \in DOMAIN program[t] : program[t][i].op = "remove"}

(* A remover that is awake and has not removed: it came late, was woken,   *)
(* or holds the lock.                                                      *)
AboutToRemove == {t \in Threads : cond[t] = "woken" \/ At(t, {"remove"})}

(* While a remover sleeps, every element of the array has been promised to *)
(* one that is awake, or the thread that added it has yet to wake somebody.*)
NoElementSleptOver ==
    Asleep /= {} =>
       data <= Cardinality(AboutToRemove)
                 + Cardinality({t \in Threads : At(t, {"signal", "broadcast"})})

(* The remover that was woken finds the element ("线程被唤醒，加锁，继续执行  *)
(* 代码，移出元素"), unless a wait returned without a signal or there is a   *)
(* second remover: the test is an if, and is not repeated.                 *)
RemovesTheElement == missed => spurious \/ Cardinality(Removers) > 1

(* Every thread comes to its end: no lock is waited for by its owner, no   *)
(* wakeup is lost, and the three threads of NSConditionLockDemo take turns.*)
EveryThreadEnds == <>Finished

=============================================================================
