--------------------------- MODULE LockDemoProofs ---------------------------
(***************************************************************************)
(* Proofs about LockDemo, for any number of threads and any methods that   *)
(* use their locks as the methods of GCD/GCD do.  What that means is       *)
(* WellLocked, which is proved of the methods themselves.                  *)
(***************************************************************************)
EXTENDS LockDemo, SumTheorems, SequenceTheorems, TLAPS

OpNames == {"lock", "lockWhen", "unlock", "unlockWith", "read", "write",
            "recurse", "wait", "remove", "add", "signal", "broadcast"}
CountNames == {"tickets", "money"}
Operations == [op : OpNames, on : Locks \cup CountNames, arg : Int]

LockOps == {"lock", "lockWhen"}
UnlockOps == {"unlock", "unlockWith"}
WakeOps == {"signal", "broadcast"}

(* The lock that ticketTest and moneyTest take around a count. *)
Guard(c) == IF c = "tickets" THEN "ticket" ELSE "money"

(* The locks a method holds before its operation i. *)
HeldAt(m, i) ==
    {l \in Locks : \E j \in 1..i - 1 :
        /\ m[j].op \in LockOps /\ m[j].on = l
        /\ \A k \in j + 1..i - 1 : ~(m[k].op \in UnlockOps /\ m[k].on = l)}

(* A method takes no lock it holds and gives back only what it holds; a    *)
(* count is read and written, and the array changed, under its lock; only  *)
(* a method that begins with the recursive lock calls itself, before it    *)
(* writes; the test of the array and the removal, the addition and the     *)
(* wakeup belong together.                                                 *)
WellLockedAt(m, i) ==
    LET op == m[i].op
        on == m[i].on
        held == HeldAt(m, i)
    IN  /\ op \in LockOps => on \in Locks \ held
        /\ op \in UnlockOps => on \in held
        /\ op = "unlockWith" => m[i].arg \in 1..3
        /\ op \in {"read", "write"} => on \in CountNames /\ Guard(on) \in held
        /\ op = "write" => i > 1 /\ m[i - 1].op = "read" /\ m[i - 1].on = on
        /\ op = "recurse" =>
              held = {"recursive"} /\ m[1].op = "lock" /\ m[1].on = "recursive"
              /\ \A j \in 1..i - 1 : m[j].op /= "write"
        /\ op \in {"wait", "remove", "add"} \cup WakeOps => on = "data" /\ "data" \in held
        /\ op = "wait" => i < Len(m) /\ m[i + 1].op = "remove"
        /\ op = "remove" => i > 1 /\ m[i - 1].op = "wait"
        /\ op = "add" => i < Len(m) /\ m[i + 1].op \in WakeOps
        /\ op \in WakeOps => i > 1 /\ m[i - 1].op = "add"

WellLocked(m) == m \in Seq(Operations) /\ \A i \in 1..Len(m) : WellLockedAt(m, i)

ProgramsLockWell ==
    \A p \in Programs : p \in [Threads -> Seq(Operations)] /\ \A t \in Threads : WellLocked(p[t])

-----------------------------------------------------------------------------
(* The locks a thread keeps: a wait gives its lock back. *)
Keeps(t) ==
    {l \in HeldAt(program[t], ip[t]) : cond[t] = "running" \/ l /= "data"}

(* A recursive method has called itself and is about to lock again. *)
Again(t) == ip[t] = 1 /\ At(t, {"lock"}) /\ On(t) = "recursive"

(* A lock has the owner that the position of its method says. *)
OwnInv ==
    \A t \in Threads, l \in Locks :
       /\ l \in Keeps(t) => owner[l] = t
       /\ owner[l] = t => l \in Keeps(t) \/ (l = "recursive" /\ Again(t))

(* Only the recursive lock is taken again, once for each call. *)
DepthInv ==
    /\ \A l \in Locks \ {"recursive"} : depth[l] <= 1
    /\ depth["recursive"] <= calls + 1
    /\ \A t \in Threads :
          owner["recursive"] = t /\ Again(t) => depth["recursive"] <= calls

(* Whoever sleeps or has been woken is in its wait. *)
WaitInv ==
    \A t \in Threads :
       cond[t] /= "running" => ~Done(t) /\ program[t][ip[t]].op = "wait"

(* The local of a thread about to write is still the count. *)
FreshInv == \A t \in Threads : At(t, {"write"}) => old[t] = counts[On(t)]

(* With one remover, and no wait that returns by itself, there is an       *)
(* element wherever one is going to be removed or announced.               *)
RemoveInv ==
    ~spurious /\ Cardinality(Removers) <= 1 =>
       /\ ~missed
       /\ \A t \in Threads :
             cond[t] = "woken" \/ At(t, {"remove"} \cup WakeOps) => data > 0

(* What the locks are, whatever the threads do. *)
LockTypes ==
    /\ owner \in [Locks -> Threads \cup {NULL}]
    /\ depth \in [Locks -> 0..RecursionBound + 1]
    /\ \A l \in Locks : owner[l] = NULL <=> depth[l] = 0
    /\ calls \in 0..RecursionBound

LocksKept == LockTypes /\ OwnInv /\ DepthInv

LockInv == TypeOK /\ OwnInv /\ DepthInv /\ WaitInv

Inv == LockInv /\ FreshInv /\ RemoveInv /\ NoElementSleptOver

-----------------------------------------------------------------------------
(* Nothing is held before the first operation. *)
LEMMA HeldFirst == ASSUME NEW m PROVE HeldAt(m, 1) = {}
BY DEF HeldAt

(* What an operation does to the locks that are held. *)
LEMMA HeldNext ==
    ASSUME NEW m, NEW i \in Nat \ {0}
    PROVE  /\ m[i].op \in LockOps /\ m[i].on \in Locks =>
                  HeldAt(m, i + 1) = HeldAt(m, i) \cup {m[i].on}
           /\ m[i].op \in UnlockOps => HeldAt(m, i + 1) = HeldAt(m, i) \ {m[i].on}
           /\ m[i].op \notin LockOps \cup UnlockOps => HeldAt(m, i + 1) = HeldAt(m, i)
<1>1. i + 1 - 1 = i /\ \A j \in 1..i : j \in 1..i - 1 \/ j = i
  OBVIOUS
<1>2. LockOps \cap UnlockOps = {}  BY DEF LockOps, UnlockOps
<1>3. ASSUME m[i].op \in LockOps, m[i].on \in Locks
      PROVE  HeldAt(m, i + 1) = HeldAt(m, i) \cup {m[i].on}
  BY <1>1, <1>2, <1>3 DEF HeldAt
<1>4. ASSUME m[i].op \in UnlockOps
      PROVE  HeldAt(m, i + 1) = HeldAt(m, i) \ {m[i].on}
  BY <1>1, <1>2, <1>4 DEF HeldAt
<1>5. ASSUME m[i].op \notin LockOps \cup UnlockOps
      PROVE  HeldAt(m, i + 1) = HeldAt(m, i)
  BY <1>1, <1>2, <1>5 DEF HeldAt
<1> QED  BY <1>3, <1>4, <1>5

(* A method holds locks only. *)
LEMMA HeldAreLocks == ASSUME NEW m, NEW i PROVE HeldAt(m, i) \subseteq Locks
BY DEF HeldAt

(* What a thread that has not ended is about to do. *)
LEMMA Method ==
    ASSUME ProgramsLockWell, TypeOK, NEW t \in Threads, ~Done(t)
    PROVE  /\ ip[t] \in Nat \ {0} /\ ip[t] <= Len(program[t]) /\ Len(program[t]) \in Nat
           /\ program[t] \in Seq(Operations) /\ program[t][ip[t]] \in Operations
           /\ WellLockedAt(program[t], ip[t])
<1>1. program[t] \in Seq(Operations) /\ WellLocked(program[t])
      /\ ip[t] \in 1..Len(program[t]) + 1
  BY DEF ProgramsLockWell, TypeOK
<1>2. Len(program[t]) \in Nat  BY <1>1
<1>3. ip[t] \in 1..Len(program[t])  BY <1>1, <1>2 DEF Done
<1> QED  BY <1>1, <1>2, <1>3 DEF WellLocked

(* The other threads stay where they are, or are woken. *)
LEMMA OthersStay ==
    ASSUME NEW t \in Threads, program' = program,
           NEW u \in Threads, u /= t, ip'[u] = ip[u],
           cond'[u] = cond[u] \/ (cond[u] = "asleep" /\ cond'[u] = "woken")
    PROVE  /\ Keeps(u)' = Keeps(u) /\ Again(u)' = Again(u)
           /\ At(u, {"write"})' = At(u, {"write"})
           /\ At(u, {"remove"})' = At(u, {"remove"})
           /\ At(u, WakeOps)' = At(u, WakeOps)
           /\ On(u)' = On(u)
BY DEF Keeps, Again, At, On, Done

(* A thread that goes on to its next operation. *)
LEMMA GoesOn ==
    ASSUME ProgramsLockWell, TypeOK, NEW t \in Threads, ~Done(t),
           program' = program, Advance(t), cond'[t] = "running"
    PROVE  /\ LET op == program[t][ip[t]].op
                  held == HeldAt(program[t], ip[t])
              IN  Keeps(t)' = IF op \in LockOps THEN held \cup {On(t)}
                              ELSE IF op \in UnlockOps THEN held \ {On(t)} ELSE held
           /\ ip'[t] = ip[t] + 1 /\ ip'[t] \in 1..Len(program[t]) + 1
           /\ ~Again(t)'
<1> DEFINE m == program[t]
           i == ip[t]
<1>1. i \in Nat \ {0} /\ i <= Len(m) /\ Len(m) \in Nat /\ WellLockedAt(m, i)
  BY Method
<1>2. ip'[t] = i + 1
  BY DEF Advance, TypeOK
<1>3. Keeps(t)' = HeldAt(m, i + 1)
  BY <1>2, HeldAreLocks DEF Keeps
<1>4. LockOps \cap UnlockOps = {}  BY DEF LockOps, UnlockOps
<1>5. m[i].op \in LockOps => m[i].on \in Locks
  BY <1>1 DEF WellLockedAt
<1> HIDE DEF m, i
<1>6. Keeps(t)' = IF m[i].op \in LockOps THEN HeldAt(m, i) \cup {m[i].on}
                  ELSE IF m[i].op \in UnlockOps THEN HeldAt(m, i) \ {m[i].on}
                  ELSE HeldAt(m, i)
  BY <1>1, <1>3, <1>4, <1>5, HeldNext
<1>7. ip'[t] \in 1..Len(m) + 1 /\ ip'[t] /= 1
  BY <1>1, <1>2
<1> QED  BY <1>2, <1>6, <1>7 DEF m, i, On, Again

(* The locks of the threads that stay where they are. *)
Stay(t) ==
    \A u \in Threads \ {t} : Keeps(u)' = Keeps(u) /\ Again(u)' = Again(u)

(* A thread takes a lock it does not keep. *)
LEMMA Took ==
    ASSUME LocksKept, NEW t \in Threads, NEW l \in Locks, Stay(t),
           l \notin Keeps(t), Take(t, l), Keeps(t)' = Keeps(t) \cup {l},
           Again(t) => l = "recursive", ~Again(t)', calls' = calls
    PROVE  LocksKept'
<1> USE LockDemoAssumption DEF LocksKept, LockTypes
<1>1. t /= NULL /\ "recursive" \in Locks  BY DEF Locks
<1>2. owner[l] = NULL \/ (owner[l] = t /\ l = "recursive" /\ Again(t))
  BY DEF OwnInv, Take
<1>3. owner' = [owner EXCEPT ![l] = t] /\ depth' = [depth EXCEPT ![l] = depth[l] + 1]
  BY DEF Take
<1>4. depth[l] + 1 \in 1..RecursionBound + 1
      /\ (l /= "recursive" => depth[l] + 1 <= 1)
      /\ (l = "recursive" => depth[l] + 1 <= calls + 1)
  BY <1>2 DEF DepthInv
<1>5. LockTypes'
  BY <1>1, <1>3, <1>4
<1>6. OwnInv'
  <2> SUFFICES ASSUME NEW u \in Threads, NEW k \in Locks
               PROVE  /\ k \in Keeps(u)' => owner'[k] = u
                      /\ owner'[k] = u => k \in Keeps(u)' \/ (k = "recursive" /\ Again(u)')
    BY DEF OwnInv
  <2>1. /\ k \in Keeps(u) => owner[k] = u
        /\ owner[k] = u => k \in Keeps(u) \/ (k = "recursive" /\ Again(u))
    BY DEF OwnInv
  <2>2. CASE u = t
    BY <1>3, <2>1, <2>2
  <2>3. CASE u /= t
    <3>1. Keeps(u)' = Keeps(u) /\ Again(u)' = Again(u)  BY <2>3 DEF Stay
    <3> QED  BY <1>1, <1>2, <1>3, <2>1, <2>3, <3>1
  <2> QED  BY <2>2, <2>3
<1>7. DepthInv'
  <2>1. \A u \in Threads \ {t} : Again(u)' = Again(u)  BY DEF Stay
  <2> QED  BY <1>1, <1>3, <1>4, <2>1 DEF DepthInv
<1> QED  BY <1>5, <1>6, <1>7

(* A thread gives back a lock it keeps, once. *)
LEMMA Gave ==
    ASSUME LocksKept, NEW t \in Threads, NEW l \in Locks, Stay(t),
           l \in Keeps(t), Give(l), ~Again(t), ~Again(t)', calls' = calls,
           Keeps(t)' = IF depth[l] = 1 THEN Keeps(t) \ {l} ELSE Keeps(t)
    PROVE  LocksKept'
<1> USE LockDemoAssumption DEF LocksKept, LockTypes
<1>1. t /= NULL /\ "recursive" \in Locks  BY DEF Locks
<1>2. owner[l] = t /\ depth[l] >= 1
  <2>1. owner[l] = t  BY DEF OwnInv
  <2> QED  BY <1>1, <2>1
<1>3. /\ owner' = [owner EXCEPT ![l] = IF depth[l] = 1 THEN NULL ELSE owner[l]]
      /\ depth' = [depth EXCEPT ![l] = depth[l] - 1]
  BY DEF Give
<1>4. LockTypes'
  BY <1>1, <1>2, <1>3
<1>5. OwnInv'
  <2> SUFFICES ASSUME NEW u \in Threads, NEW k \in Locks
               PROVE  /\ k \in Keeps(u)' => owner'[k] = u
                      /\ owner'[k] = u => k \in Keeps(u)' \/ (k = "recursive" /\ Again(u)')
    BY DEF OwnInv
  <2>1. /\ k \in Keeps(u) => owner[k] = u
        /\ owner[k] = u => k \in Keeps(u) \/ (k = "recursive" /\ Again(u))
    BY DEF OwnInv
  <2>2. CASE u = t
    BY <1>1, <1>2, <1>3, <2>1, <2>2
  <2>3. CASE u /= t
    <3>1. Keeps(u)' = Keeps(u) /\ Again(u)' = Again(u)  BY <2>3 DEF Stay
    <3> QED  BY <1>1, <1>2, <1>3, <2>1, <2>3, <3>1
  <2> QED  BY <2>2, <2>3
<1>6. DepthInv'
  <2>1. \A u \in Threads \ {t} : Again(u)' = Again(u)  BY DEF Stay
  <2>2. \A u \in Threads : owner'["recursive"] = u => owner["recursive"] = u
    BY <1>1, <1>3, LockDemoAssumption
  <2> QED  BY <1>1, <1>2, <1>3, <2>1, <2>2 DEF DepthInv
<1> QED  BY <1>4, <1>5, <1>6

(* A thread does something else. *)
LEMMA Kept ==
    ASSUME LocksKept, NEW t \in Threads, Stay(t), UNCHANGED <<owner, depth, calls>>,
           Keeps(t)' = Keeps(t), ~Again(t), ~Again(t)'
    PROVE  LocksKept'
<1> USE DEF LocksKept, LockTypes
<1>1. \A u \in Threads :
         Keeps(u)' = Keeps(u) /\ (Again(u)' => Again(u)) /\ (Again(u) => Again(u)')
  BY DEF Stay
<1>2. OwnInv'
  BY <1>1 DEF OwnInv
<1>3. DepthInv'
  BY <1>1 DEF DepthInv
<1> QED  BY <1>2, <1>3

-----------------------------------------------------------------------------
(* Nothing has been locked and nobody waits. *)
LEMMA InitLock == ProgramsLockWell /\ Init => LockInv
<1> SUFFICES ASSUME ProgramsLockWell, Init PROVE LockInv  OBVIOUS
<1> USE LockDemoAssumption
<1>1. \A t \in Threads : program[t] \in Seq(Operations)
  BY DEF Init, ProgramsLockWell
<1>2. \A t \in Threads : ip[t] \in 1..Len(program[t]) + 1
  <2> SUFFICES ASSUME NEW t \in Threads PROVE 1 \in 1..Len(program[t]) + 1
    BY DEF Init
  <2>1. Len(program[t]) \in Nat  BY <1>1
  <2> QED  BY <2>1
<1>3. TypeOK
  <2>1. /\ owner \in [Locks -> Threads \cup {NULL}]
        /\ depth \in [Locks -> 0..RecursionBound + 1]
        /\ \A l \in Locks : owner[l] = NULL <=> depth[l] = 0
        /\ calls \in 0..RecursionBound
    BY DEF Init
  <2>2. old \in [Threads -> Int] /\ ip \in [Threads -> Nat]
    BY DEF Init
  <2>3. counts \in [{"tickets", "money"} -> Int]
    <3>1. \A c \in {"tickets", "money"} : (IF c = "tickets" THEN 15 ELSE 0) \in Int
      OBVIOUS
    <3>2. counts = [c \in {"tickets", "money"} |-> IF c = "tickets" THEN 15 ELSE 0]
      BY DEF Init
    <3> QED  BY <3>1, <3>2
  <2>4. program \in Programs /\ data \in Nat /\ condition \in 1..3
    BY DEF Init
  <2>5. cond \in [Threads -> {"running", "asleep", "woken"}]
    BY DEF Init
  <2>6. spurious \in BOOLEAN /\ missed \in BOOLEAN
    BY DEF Init
  <2> QED  BY <1>2, <2>1, <2>2, <2>3, <2>4, <2>5, <2>6 DEF TypeOK
<1>4. \A t \in Threads : Keeps(t) = {}
  BY HeldFirst DEF Init, Keeps
<1>5. OwnInv /\ DepthInv /\ WaitInv
  BY <1>4 DEF Init, OwnInv, DepthInv, WaitInv, Locks
<1> QED  BY <1>3, <1>5 DEF LockInv

(* Every thread's lock, wait and position in its method stay in step. *)
LEMMA NextLock == ProgramsLockWell /\ LockInv /\ [Next]_vars => LockInv'
<1> SUFFICES ASSUME ProgramsLockWell, LockInv, [Next]_vars PROVE LockInv'  OBVIOUS
<1> USE LockDemoAssumption
<1>1. TypeOK /\ OwnInv /\ DepthInv /\ WaitInv /\ LocksKept
  BY DEF LockInv, LocksKept, LockTypes, TypeOK
<1>2. ASSUME LocksKept', WaitInv', program' = program,
             ip' \in [Threads -> Nat],
             \A t \in Threads : ip'[t] \in 1..Len(program[t]) + 1,
             cond' \in [Threads -> {"running", "asleep", "woken"}],
             condition' \in 1..3, old' \in [Threads -> Int],
             counts' \in [{"tickets", "money"} -> Int], data' \in Nat,
             spurious' \in BOOLEAN, missed' \in BOOLEAN
      PROVE  LockInv'
  BY <1>1, <1>2 DEF LockInv, LocksKept, LockTypes, TypeOK
(* A step on to the next operation of a thread that was running. *)
<1>3. ASSUME NEW t \in Threads, NEW ops, At(t, ops), program' = program, cond' = cond,
             Advance(t)
      PROVE  /\ Stay(t) /\ WaitInv'
             /\ ip' \in [Threads -> Nat]
             /\ \A u \in Threads : ip'[u] \in 1..Len(program[u]) + 1
             /\ LET op == program[t][ip[t]].op
                IN  Keeps(t)' = IF op \in LockOps THEN Keeps(t) \cup {On(t)}
                                ELSE IF op \in UnlockOps THEN Keeps(t) \ {On(t)}
                                ELSE Keeps(t)
             /\ ~Again(t)'
             /\ HeldAt(program[t], ip[t]) = Keeps(t)
  <2>1. ~Done(t) /\ cond[t] = "running" /\ cond'[t] = "running"  BY <1>3 DEF At
  <2>2. \A u \in Threads \ {t} : ip'[u] = ip[u]
    BY <1>1, <1>3 DEF Advance, TypeOK
  <2>3. Stay(t)  BY <1>3, <2>2, OthersStay DEF Stay
  <2>4. HeldAt(program[t], ip[t]) = Keeps(t)  BY <2>1, HeldAreLocks DEF Keeps
  <2>5. ip'[t] \in 1..Len(program[t]) + 1 /\ ~Again(t)' /\ ip'[t] = ip[t] + 1
    BY <1>1, <1>3, <2>1, GoesOn
  <2>6. ip' \in [Threads -> Nat]
    BY <1>1, <1>3 DEF Advance, TypeOK
  <2>7. \A u \in Threads : ip'[u] \in 1..Len(program[u]) + 1
    BY <1>1, <2>2, <2>5 DEF TypeOK
  <2>8. WaitInv'
    BY <1>1, <1>3, <2>1, <2>2 DEF WaitInv, Done
  <2>9. LET op == program[t][ip[t]].op
        IN  Keeps(t)' = IF op \in LockOps THEN Keeps(t) \cup {On(t)}
                        ELSE IF op \in UnlockOps THEN Keeps(t) \ {On(t)}
                        ELSE Keeps(t)
    BY <1>1, <1>3, <2>1, <2>4, GoesOn
  <2> QED  BY <2>3, <2>4, <2>5, <2>6, <2>7, <2>8, <2>9
<1>4. ASSUME NEW t \in Threads, Lock(t) PROVE LockInv'
  <2>1. /\ At(t, LockOps) /\ program' = program /\ cond' = cond
        /\ Advance(t) /\ Take(t, On(t)) /\ calls' = calls
        /\ UNCHANGED <<condition, old, counts, data, spurious, missed>>
    BY <1>4 DEF Lock, LockOps
  <2>2. ~Done(t) /\ program[t][ip[t]].op \in LockOps  BY <2>1 DEF At
  <2>3. On(t) \in Locks \ HeldAt(program[t], ip[t])
    BY <1>1, <2>2, Method DEF WellLockedAt, On
  <2>4. Again(t) => On(t) = "recursive"  BY DEF Again
  <2>5. LocksKept'  BY <1>1, <1>3, <2>1, <2>2, <2>3, <2>4, Took
  <2> QED  BY <1>1, <1>2, <1>3, <2>1, <2>5 DEF TypeOK
<1>5. ASSUME NEW t \in Threads, Unlock(t) PROVE LockInv'
  <2>1. /\ At(t, UnlockOps) /\ program' = program /\ cond' = cond
        /\ Give(On(t)) /\ calls' = calls
        /\ IF depth[On(t)] = 1 THEN Advance(t) ELSE ip' = ip
        /\ condition' = IF program[t][ip[t]].op = "unlockWith" THEN Arg(t) ELSE condition
        /\ UNCHANGED <<old, counts, data, spurious, missed>>
    BY <1>5 DEF Unlock, UnlockOps
  <2>2. /\ ~Done(t) /\ cond[t] = "running"
        /\ program[t][ip[t]].op \in UnlockOps /\ program[t][ip[t]].op \notin LockOps
    BY <2>1 DEF At, UnlockOps, LockOps
  <2>3. On(t) \in Locks /\ On(t) \in HeldAt(program[t], ip[t])
    BY <1>1, <2>2, Method, HeldAreLocks DEF WellLockedAt, On
  <2>4. condition' \in 1..3
    BY <1>1, <2>1, <2>2, Method DEF WellLockedAt, Arg, TypeOK
  <2>5. ~Again(t)  BY <2>2 DEF Again, At, LockOps
  <2>6. CASE depth[On(t)] = 1
    <3>1. LocksKept'  BY <1>1, <1>3, <2>1, <2>2, <2>3, <2>5, <2>6, Gave
    <3> QED  BY <1>1, <1>2, <1>3, <2>1, <2>4, <2>6, <3>1 DEF TypeOK
  <2>7. CASE depth[On(t)] /= 1
    <3>1. ip' = ip  BY <2>1, <2>7
    <3>2. Stay(t)  BY <2>1, <3>1, OthersStay DEF Stay
    <3>3. Keeps(t)' = Keeps(t) /\ On(t) \in Keeps(t)
      BY <2>1, <2>2, <2>3, <3>1 DEF Keeps
    <3>4. ~Again(t)'  BY <2>1, <2>5, <3>1 DEF Again, At, On, Done
    <3>5. LocksKept'  BY <1>1, <2>1, <2>3, <2>5, <2>7, <3>2, <3>3, <3>4, Gave
    <3>6. WaitInv'  BY <1>1, <2>1, <3>1 DEF WaitInv, Done
    <3> QED  BY <1>1, <1>2, <2>1, <2>4, <3>1, <3>5, <3>6 DEF TypeOK
  <2> QED  BY <2>6, <2>7
(* Steps that leave the locks alone. *)
<1>6. ASSUME NEW t \in Threads, NEW ops, At(t, ops),
             program[t][ip[t]].op \notin LockOps \cup UnlockOps,
             program' = program, cond' = cond, Advance(t),
             UNCHANGED <<owner, depth, calls, condition>>,
             old' \in [Threads -> Int], counts' \in [{"tickets", "money"} -> Int],
             data' \in Nat, spurious' \in BOOLEAN, missed' \in BOOLEAN
      PROVE  LockInv'
  <2>1. ~Again(t)  BY <1>6 DEF Again, At, LockOps
  <2>2. LocksKept'  BY <1>1, <1>3, <1>6, <2>1, Kept
  <2> QED  BY <1>1, <1>2, <1>3, <1>6, <2>2 DEF TypeOK
<1>7. ASSUME NEW t \in Threads, Read(t) PROVE LockInv'
  <2>1. program[t][ip[t]].op = "read" /\ ~Done(t)  BY <1>7 DEF Read, At
  <2>2. On(t) \in {"tickets", "money"}
    BY <1>1, <2>1, Method DEF WellLockedAt, On, CountNames
  <2>3. old' \in [Threads -> Int]  BY <1>1, <1>7, <2>2 DEF Read, TypeOK
  <2> QED  BY <1>1, <1>6, <1>7, <2>1, <2>3 DEF Read, LockOps, UnlockOps, TypeOK
<1>8. ASSUME NEW t \in Threads, Write(t) PROVE LockInv'
  <2>1. program[t][ip[t]].op = "write" /\ ~Done(t)  BY <1>8 DEF Write, At
  <2>2. Arg(t) \in Int  BY <1>1, <2>1, Method DEF Arg, Operations
  <2>3. old' \in [Threads -> Int]  BY <1>1, <1>8 DEF Write, TypeOK
  <2>4. counts' \in [{"tickets", "money"} -> Int]
    <3>1. old[t] + Arg(t) \in Int  BY <1>1, <2>2 DEF TypeOK
    <3>2. counts' = [counts EXCEPT ![On(t)] = old[t] + Arg(t)]  BY <1>8 DEF Write
    <3> QED  BY <1>1, <3>1, <3>2 DEF TypeOK
  <2> QED  BY <1>1, <1>6, <1>8, <2>1, <2>3, <2>4 DEF Write, LockOps, UnlockOps, TypeOK
(* A method that calls itself holds only the recursive lock, and forgets   *)
(* that it does.                                                           *)
<1>9. ASSUME NEW t \in Threads, Recurse(t) PROVE LockInv'
  <2>1. /\ program[t][ip[t]].op = "recurse" /\ ~Done(t) /\ cond[t] = "running"
        /\ program' = program /\ cond' = cond
        /\ UNCHANGED <<owner, depth, condition, old, counts, data, spurious, missed>>
    BY <1>9 DEF Recurse, At
  <2>2. CASE ~(calls < RecursionBound)
    BY <1>1, <1>6, <1>9, <2>1, <2>2 DEF Recurse, LockOps, UnlockOps, TypeOK
  <2>3. CASE calls < RecursionBound
    <3>1. calls' = calls + 1 /\ ip' = [ip EXCEPT ![t] = 1]
      BY <1>9, <2>3 DEF Recurse
    <3>2. /\ HeldAt(program[t], ip[t]) = {"recursive"}
          /\ program[t][1].op = "lock" /\ program[t][1].on = "recursive"
          /\ Len(program[t]) \in Nat /\ 1 <= Len(program[t])
      <4>1. /\ ip[t] \in Nat \ {0} /\ ip[t] <= Len(program[t]) /\ Len(program[t]) \in Nat
            /\ WellLockedAt(program[t], ip[t])
        BY <1>1, <2>1, Method
      <4> QED  BY <2>1, <4>1 DEF WellLockedAt
    <3>3. ip'[t] = 1 /\ \A u \in Threads \ {t} : ip'[u] = ip[u]
      BY <1>1, <3>1 DEF TypeOK
    <3>4. Stay(t)  BY <2>1, <3>3, OthersStay DEF Stay
    <3>5. Keeps(t) = {"recursive"}  BY <2>1, <3>2 DEF Keeps
    <3>6. Keeps(t)' = {}  BY <2>1, <3>3, HeldFirst DEF Keeps
    <3>7. Again(t)' /\ ~Again(t)
      <4>1. ~Done(t)' /\ program'[t][ip'[t]].op = "lock" /\ On(t)' = "recursive"
        BY <2>1, <3>2, <3>3 DEF Done, On
      <4> QED  BY <2>1, <3>3, <4>1 DEF Again, At
    <3>8. OwnInv'
      <4>1. \A u \in Threads \ {t} : Keeps(u)' = Keeps(u) /\ Again(u)' = Again(u)
        BY <3>4 DEF Stay
      <4> QED  BY <1>1, <2>1, <3>5, <3>6, <3>7, <4>1 DEF OwnInv
    <3>9. LockTypes'  BY <1>1, <2>1, <2>3, <3>1 DEF LocksKept, LockTypes
    <3>10. DepthInv'
      <4>1. owner["recursive"] = t /\ depth["recursive"] <= calls + 1
        BY <1>1, <3>5 DEF OwnInv, DepthInv, Locks
      <4>2. calls \in Nat /\ depth["recursive"] \in Nat
        BY <1>1 DEF LocksKept, LockTypes, Locks
      <4> QED  BY <1>1, <2>1, <3>1, <4>1, <4>2 DEF DepthInv
    <3>11. WaitInv'  BY <1>1, <2>1, <3>3 DEF WaitInv, Done
    <3>12. /\ ip' \in [Threads -> Nat]
           /\ \A u \in Threads : ip'[u] \in 1..Len(program[u]) + 1
      <4>1. ip' \in [Threads -> Nat]  BY <1>1, <3>1 DEF TypeOK
      <4>2. 1 \in 1..Len(program[t]) + 1  BY <3>2
      <4> QED  BY <1>1, <3>3, <4>1, <4>2 DEF TypeOK
    <3> QED
      BY <1>1, <1>2, <2>1, <3>8, <3>9, <3>10, <3>11, <3>12 DEF TypeOK, LocksKept
  <2> QED  BY <2>2, <2>3
<1>10. ASSUME NEW t \in Threads, Wait(t) PROVE LockInv'
  <2>1. /\ At(t, {"wait"}) /\ program' = program
        /\ UNCHANGED <<condition, old, counts, data, calls, spurious, missed>>
    BY <1>10 DEF Wait
  <2>2. /\ ~Done(t) /\ cond[t] = "running" /\ program[t][ip[t]].op = "wait"
        /\ program[t][ip[t]].op \notin LockOps \cup UnlockOps
    BY <2>1 DEF At, LockOps, UnlockOps
  <2>3. On(t) = "data" /\ "data" \in HeldAt(program[t], ip[t])
    BY <1>1, <2>2, Method DEF WellLockedAt, On
  <2>4. CASE data /= 0
    BY <1>1, <1>6, <1>10, <2>1, <2>2, <2>4 DEF Wait, TypeOK
  <2>5. CASE data = 0
    <3>1. cond' = [cond EXCEPT ![t] = "asleep"] /\ Give("data") /\ ip' = ip
      BY <1>10, <2>3, <2>5 DEF Wait
    <3>2. cond'[t] = "asleep" /\ \A u \in Threads \ {t} : cond'[u] = cond[u]
      BY <1>1, <3>1 DEF TypeOK
    <3>3. Stay(t)  BY <2>1, <3>1, <3>2, OthersStay DEF Stay
    <3>4. "data" \in Locks /\ "data" \in Keeps(t)  BY <2>2, <2>3 DEF Keeps, Locks
    <3>5. depth["data"] = 1
      <4>1. owner["data"] = t /\ depth["data"] <= 1
        BY <1>1, <3>4 DEF OwnInv, DepthInv
      <4>2. depth["data"] \in Nat /\ (owner["data"] = NULL <=> depth["data"] = 0)
        BY <1>1, <3>4 DEF LocksKept, LockTypes
      <4> QED  BY <4>1, <4>2
    <3>6. Keeps(t)' = Keeps(t) \ {"data"}
      BY <2>1, <2>2, <3>1, <3>2 DEF Keeps
    <3>7. ~Again(t) /\ ~Again(t)'
      BY <2>2, <3>2 DEF Again, At
    <3>8. LocksKept'
      BY <1>1, <2>1, <3>1, <3>3, <3>4, <3>5, <3>6, <3>7, Gave
    <3>9. WaitInv'
      BY <1>1, <2>1, <2>2, <3>1, <3>2 DEF WaitInv, Done
    <3>10. cond' \in [Threads -> {"running", "asleep", "woken"}]
      BY <1>1, <3>1 DEF TypeOK
    <3> QED  BY <1>1, <1>2, <2>1, <3>1, <3>8, <3>9, <3>10 DEF TypeOK
  <2> QED  BY <2>4, <2>5
<1>11. ASSUME NEW t \in Threads, WaitReturns(t) PROVE LockInv'
  <2>1. /\ cond[t] = "woken" /\ cond' = [cond EXCEPT ![t] = "running"]
        /\ Take(t, On(t)) /\ Advance(t) /\ program' = program
        /\ UNCHANGED <<condition, old, counts, data, calls, spurious, missed>>
    BY <1>11 DEF WaitReturns
  <2>2. /\ ~Done(t) /\ program[t][ip[t]].op = "wait"
        /\ program[t][ip[t]].op \notin LockOps \cup UnlockOps
    BY <1>1, <2>1 DEF WaitInv, LockOps, UnlockOps
  <2>3. On(t) = "data" /\ "data" \in HeldAt(program[t], ip[t])
    BY <1>1, <2>2, Method DEF WellLockedAt, On
  <2>4. /\ cond'[t] = "running" /\ \A u \in Threads \ {t} : cond'[u] = cond[u]
        /\ cond' \in [Threads -> {"running", "asleep", "woken"}]
    BY <1>1, <2>1 DEF TypeOK
  <2>5. /\ Keeps(t)' = HeldAt(program[t], ip[t])
        /\ ip'[t] = ip[t] + 1 /\ ip'[t] \in 1..Len(program[t]) + 1 /\ ~Again(t)'
    BY <1>1, <2>1, <2>2, <2>4, GoesOn
  <2>6. Keeps(t) = HeldAt(program[t], ip[t]) \ {"data"}
    BY <2>1 DEF Keeps
  <2>7. /\ \A u \in Threads \ {t} : ip'[u] = ip[u]
        /\ ip' \in [Threads -> Nat]
    BY <1>1, <2>1 DEF Advance, TypeOK
  <2>8. Stay(t)  BY <2>1, <2>4, <2>7, OthersStay DEF Stay
  <2>9. ~Again(t)  BY <2>1 DEF Again, At
  <2>10. LocksKept'
    BY <1>1, <2>1, <2>3, <2>5, <2>6, <2>8, <2>9, Took DEF Locks
  <2>11. WaitInv'  BY <1>1, <2>1, <2>4, <2>7 DEF WaitInv, Done
  <2>12. \A u \in Threads : ip'[u] \in 1..Len(program[u]) + 1
    BY <1>1, <2>5, <2>7 DEF TypeOK
  <2> QED  BY <1>1, <1>2, <2>1, <2>4, <2>7, <2>10, <2>11, <2>12 DEF TypeOK
<1>12. ASSUME NEW t \in Threads, Remove(t) PROVE LockInv'
  <2>1. program[t][ip[t]].op = "remove"  BY <1>12 DEF Remove, At
  <2>2. data' \in Nat /\ missed' \in BOOLEAN  BY <1>1, <1>12 DEF Remove, TypeOK
  <2> QED  BY <1>1, <1>6, <1>12, <2>1, <2>2 DEF Remove, LockOps, UnlockOps, TypeOK
<1>13. ASSUME NEW t \in Threads, Add(t) PROVE LockInv'
  <2>1. program[t][ip[t]].op = "add"  BY <1>13 DEF Add, At
  <2>2. data' \in Nat  BY <1>1, <1>13 DEF Add, TypeOK
  <2> QED  BY <1>1, <1>6, <1>13, <2>1, <2>2 DEF Add, LockOps, UnlockOps, TypeOK
(* Steps that wake sleepers. *)
<1>14. ASSUME NEW t \in Threads, NEW S \in SUBSET Asleep,
              cond' = [s \in Threads |-> IF s \in S THEN "woken" ELSE cond[s]],
              program' = program
       PROVE  /\ cond' \in [Threads -> {"running", "asleep", "woken"}]
              /\ \A u \in Threads :
                    cond'[u] = cond[u] \/ (cond[u] = "asleep" /\ cond'[u] = "woken")
  BY <1>1, <1>14 DEF TypeOK, Asleep
<1>15. ASSUME NEW t \in Threads, Wake(t) PROVE LockInv'
  <2>1. /\ At(t, WakeOps) /\ Advance(t) /\ program' = program
        /\ UNCHANGED <<owner, depth, condition, old, counts, data, calls, spurious, missed>>
    BY <1>15 DEF Wake, WakeOps
  <2>2. /\ ~Done(t) /\ cond[t] = "running"
        /\ program[t][ip[t]].op \notin LockOps \cup UnlockOps
    BY <2>1 DEF At, WakeOps, LockOps, UnlockOps
  <2>3. PICK S \in SUBSET Asleep :
               cond' = [s \in Threads |-> IF s \in S THEN "woken" ELSE cond[s]]
    BY <1>15 DEF Wake
  <2>4. /\ cond' \in [Threads -> {"running", "asleep", "woken"}]
        /\ \A u \in Threads :
              cond'[u] = cond[u] \/ (cond[u] = "asleep" /\ cond'[u] = "woken")
    BY <1>14, <2>1, <2>3
  <2>5. cond'[t] = "running"  BY <2>2, <2>4
  <2>6. /\ Keeps(t)' = HeldAt(program[t], ip[t])
        /\ ip'[t] = ip[t] + 1 /\ ip'[t] \in 1..Len(program[t]) + 1 /\ ~Again(t)'
    BY <1>1, <2>1, <2>2, <2>5, GoesOn
  <2>7. Keeps(t) = HeldAt(program[t], ip[t])  BY <2>2, HeldAreLocks DEF Keeps
  <2>8. /\ \A u \in Threads \ {t} : ip'[u] = ip[u]
        /\ ip' \in [Threads -> Nat]
    BY <1>1, <2>1 DEF Advance, TypeOK
  <2>9. Stay(t)  BY <2>1, <2>4, <2>8, OthersStay DEF Stay
  <2>10. ~Again(t)  BY <2>2 DEF Again, At, LockOps
  <2>11. LocksKept'  BY <1>1, <2>1, <2>6, <2>7, <2>9, <2>10, Kept
  <2>12. WaitInv'  BY <1>1, <2>1, <2>4, <2>5, <2>8 DEF WaitInv, Done
  <2>13. \A u \in Threads : ip'[u] \in 1..Len(program[u]) + 1
    BY <1>1, <2>6, <2>8 DEF TypeOK
  <2> QED  BY <1>1, <1>2, <2>1, <2>4, <2>8, <2>11, <2>12, <2>13 DEF TypeOK
<1>16. ASSUME NEW t \in Threads, SpuriousWakeup(t) PROVE LockInv'
  <2>1. /\ cond[t] = "asleep" /\ cond' = [cond EXCEPT ![t] = "woken"]
        /\ spurious' = TRUE
        /\ UNCHANGED <<program, ip, owner, depth, condition, old, counts, data, calls, missed>>
    BY <1>16 DEF SpuriousWakeup
  <2>2. /\ cond'[t] = "woken" /\ \A u \in Threads \ {t} : cond'[u] = cond[u]
        /\ cond' \in [Threads -> {"running", "asleep", "woken"}]
    BY <1>1, <2>1 DEF TypeOK
  <2>3. Stay(t)  BY <2>1, <2>2, OthersStay DEF Stay
  <2>4. Keeps(t)' = Keeps(t) /\ ~Again(t) /\ ~Again(t)'
    BY <2>1, <2>2 DEF Keeps, Again, At
  <2>5. LocksKept'  BY <1>1, <2>1, <2>3, <2>4, Kept
  <2>6. WaitInv'  BY <1>1, <2>1, <2>2 DEF WaitInv, Done
  <2> QED  BY <1>1, <1>2, <2>1, <2>2, <2>5, <2>6 DEF TypeOK
<1>17. CASE UNCHANGED vars
  <2>1. \A t \in Threads : Keeps(t)' = Keeps(t) /\ Again(t)' = Again(t)
    BY <1>17 DEF vars, Keeps, Again, At, On, Done
  <2> QED
    BY <1>17, <2>1 DEF vars, LockInv, TypeOK, OwnInv, DepthInv, WaitInv, Done
<1> QED
  BY <1>4, <1>5, <1>7, <1>8, <1>9, <1>10, <1>11, <1>12, <1>13, <1>15, <1>16, <1>17
  DEF Next, Step

-----------------------------------------------------------------------------
(* The operations that belong together follow each other. *)
LEMMA Follows ==
    ASSUME ProgramsLockWell, TypeOK, NEW t \in Threads, ~Done(t),
           program' = program, Advance(t)
    PROVE  /\ At(t, {"write"})' => program[t][ip[t]].op = "read" /\ On(t)' = On(t)
           /\ At(t, {"remove"})' => program[t][ip[t]].op = "wait"
           /\ At(t, WakeOps)' => program[t][ip[t]].op = "add"
           /\ program[t][ip[t]].op = "wait" /\ cond'[t] = "running" => At(t, {"remove"})'
           /\ program[t][ip[t]].op = "add" /\ cond'[t] = "running" => At(t, WakeOps)'
<1> DEFINE m == program[t]
           i == ip[t]
<1>1. /\ i \in Nat \ {0} /\ i <= Len(m) /\ Len(m) \in Nat /\ WellLockedAt(m, i)
      /\ \A j \in 1..Len(m) : WellLockedAt(m, j)
  BY Method DEF ProgramsLockWell, WellLocked, TypeOK
<1>2. ip'[t] = i + 1
  BY DEF Advance, TypeOK
<1>3. i + 1 - 1 = i /\ i + 1 \in Nat  BY <1>1
<1>4. ASSUME ~Done(t)' PROVE WellLockedAt(m, i + 1)
  <2>1. i + 1 <= Len(m)  BY <1>1, <1>2, <1>3, <1>4 DEF Done
  <2> QED  BY <1>1, <1>3, <2>1
<1>5. ~Done(t)' <=> i < Len(m)  BY <1>1, <1>2 DEF Done
<1>6. /\ At(t, {"write"})' => ~Done(t)' /\ m[i + 1].op = "write"
      /\ At(t, {"remove"})' => ~Done(t)' /\ m[i + 1].op = "remove"
      /\ At(t, WakeOps)' => ~Done(t)' /\ m[i + 1].op \in WakeOps
  BY <1>2 DEF At
<1>7. ~Done(t)' /\ cond'[t] = "running" =>
         /\ m[i + 1].op = "remove" => At(t, {"remove"})'
         /\ m[i + 1].op \in WakeOps => At(t, WakeOps)'
  BY <1>2 DEF At
<1>8. On(t) = m[i].on /\ On(t)' = m[i + 1].on  BY <1>2 DEF On
<1> HIDE DEF m, i
<1>9. /\ At(t, {"write"})' => m[i].op = "read" /\ On(t)' = On(t)
      /\ At(t, {"remove"})' => m[i].op = "wait"
      /\ At(t, WakeOps)' => m[i].op = "add"
  <2> SUFFICES ASSUME ~Done(t)'
               PROVE  /\ m[i + 1].op = "write" => m[i].op = "read" /\ m[i + 1].on = m[i].on
                      /\ m[i + 1].op = "remove" => m[i].op = "wait"
                      /\ m[i + 1].op \in WakeOps => m[i].op = "add"
    BY <1>6, <1>8
  <2> DEFINE k == i + 1
  <2>1. WellLockedAt(m, k)  BY <1>4
  <2>2. k - 1 = i  BY <1>1
  <2> HIDE DEF k
  <2>3. m[k].op = "write" => m[k - 1].op = "read" /\ m[k - 1].on = m[k].on
    BY <2>1 DEF WellLockedAt
  <2>4. m[k].op = "remove" => m[k - 1].op = "wait"
    BY <2>1 DEF WellLockedAt
  <2>5. m[k].op \in WakeOps => m[k - 1].op = "add"
    BY <2>1 DEF WellLockedAt
  <2> QED  BY <2>2, <2>3, <2>4, <2>5 DEF k
<1>10. /\ m[i].op = "wait" /\ cond'[t] = "running" => At(t, {"remove"})'
       /\ m[i].op = "add" /\ cond'[t] = "running" => At(t, WakeOps)'
  BY <1>1, <1>5, <1>7 DEF WellLockedAt
<1> QED  BY <1>9, <1>10 DEF m, i

(* Where a step of one thread leaves it, and the others. *)
LEMMA Moves ==
    ASSUME ProgramsLockWell, LockInv, NEW t \in Threads, Step(t) \/ SpuriousWakeup(t)
    PROVE  /\ program' = program /\ ~Done(t)
           /\ \A u \in Threads \ {t} :
                 /\ At(u, {"write"})' = At(u, {"write"})
                 /\ At(u, {"remove"})' = At(u, {"remove"})
                 /\ At(u, WakeOps)' = At(u, WakeOps)
                 /\ On(u)' = On(u)
                 /\ \/ cond'[u] = cond[u]
                    \/ cond[u] = "asleep" /\ cond'[u] = "woken" /\ Wake(t)
           /\ At(t, {"write"})' => Read(t) /\ On(t)' = On(t)
           /\ At(t, {"remove"})' => (Wait(t) /\ data /= 0) \/ WaitReturns(t)
           /\ At(t, WakeOps)' => Add(t)
           /\ Add(t) => At(t, WakeOps)'
           /\ (Wait(t) /\ data /= 0) \/ WaitReturns(t) => At(t, {"remove"})'
           /\ ~SpuriousWakeup(t) => cond'[t] = "running" \/ (Wait(t) /\ data = 0)
<1> USE DEF LockInv
<1>1. program' = program
  BY DEF Step, Lock, Unlock, Read, Write, Recurse, Wait, WaitReturns, Remove, Add, Wake,
         SpuriousWakeup
<1>2. ~Done(t)
  BY DEF Step, Lock, Unlock, Read, Write, Recurse, Wait, WaitReturns, Remove, Add, Wake,
         SpuriousWakeup, At, WaitInv
<1>3. ASSUME NEW u \in Threads \ {t}
      PROVE  /\ ip'[u] = ip[u]
             /\ \/ cond'[u] = cond[u]
                \/ cond[u] = "asleep" /\ cond'[u] = "woken" /\ Wake(t)
  <2>1. CASE Recurse(t) \/ Unlock(t)
    BY <2>1 DEF Recurse, Unlock, Advance, TypeOK
  <2>2. CASE Wait(t) \/ WaitReturns(t) \/ SpuriousWakeup(t)
    BY <2>2 DEF Wait, WaitReturns, SpuriousWakeup, Advance, TypeOK
  <2>3. CASE Wake(t)
    BY <2>3 DEF Wake, Advance, TypeOK, Asleep
  <2>4. CASE Lock(t) \/ Read(t) \/ Write(t) \/ Remove(t) \/ Add(t)
    BY <2>4 DEF Lock, Read, Write, Remove, Add, Advance, TypeOK
  <2> QED  BY <2>1, <2>2, <2>3, <2>4 DEF Step
<1>4. \A u \in Threads \ {t} :
         /\ At(u, {"write"})' = At(u, {"write"})
         /\ At(u, {"remove"})' = At(u, {"remove"})
         /\ At(u, WakeOps)' = At(u, WakeOps)
         /\ On(u)' = On(u)
  BY <1>1, <1>3, OthersStay
<1>5. ~SpuriousWakeup(t) => cond'[t] = "running" \/ (Wait(t) /\ data = 0)
  <2>1. CASE Wait(t)  BY <2>1 DEF Wait, At
  <2>2. CASE WaitReturns(t)  BY <2>2 DEF WaitReturns, TypeOK
  <2>3. CASE Wake(t)  BY <2>3 DEF Wake, At, Asleep
  <2>4. CASE Lock(t) \/ Unlock(t) \/ Read(t) \/ Write(t) \/ Recurse(t) \/ Remove(t) \/ Add(t)
    BY <2>4 DEF Lock, Unlock, Read, Write, Recurse, Remove, Add, At
  <2> QED  BY <2>1, <2>2, <2>3, <2>4 DEF Step
<1> DEFINE Own ==
             /\ At(t, {"write"})' => Read(t) /\ On(t)' = On(t)
             /\ At(t, {"remove"})' => (Wait(t) /\ data /= 0) \/ WaitReturns(t)
             /\ At(t, WakeOps)' => Add(t)
             /\ Add(t) => At(t, WakeOps)'
             /\ (Wait(t) /\ data /= 0) \/ WaitReturns(t) => At(t, {"remove"})'
           op == program[t][ip[t]].op
(* A step that goes on to the next operation. *)
<1>6. ASSUME Advance(t), ~SpuriousWakeup(t), ~(Wait(t) /\ data = 0) PROVE Own
  <2>1. cond'[t] = "running"  BY <1>5, <1>6
  <2>2. /\ At(t, {"write"})' => op = "read" /\ On(t)' = On(t)
        /\ At(t, {"remove"})' => op = "wait"
        /\ At(t, WakeOps)' => op = "add"
        /\ op = "wait" => At(t, {"remove"})'
        /\ op = "add" => At(t, WakeOps)'
    BY <1>1, <1>2, <1>6, <2>1, Follows
  <2>3. /\ op = "read" => Read(t)
        /\ op = "wait" => (Wait(t) /\ data /= 0) \/ WaitReturns(t)
        /\ op = "add" => Add(t)
        /\ Add(t) => op = "add"
        /\ Wait(t) \/ WaitReturns(t) => op = "wait"
    BY <1>6
    DEF Step, Lock, Unlock, Read, Write, Recurse, Wait, WaitReturns, Remove, Add, Wake,
        At, WaitInv
  <2> QED  BY <2>2, <2>3
<1>7. CASE Wait(t) /\ data = 0
  <2>1. cond'[t] = "asleep"  BY <1>7 DEF Wait, TypeOK
  <2>2. ~WaitReturns(t) /\ ~Add(t)  BY <1>7 DEF Wait, WaitReturns, Add, At
  <2>3. Own  BY <1>7, <2>1, <2>2 DEF At
  <2> QED  BY <1>1, <1>2, <1>3, <1>4, <1>5, <2>3
<1>8. CASE SpuriousWakeup(t)
  <2>1. cond'[t] = "woken"  BY <1>8 DEF SpuriousWakeup, TypeOK
  <2>2. ~Wait(t) /\ ~WaitReturns(t) /\ ~Add(t)
    BY <1>8 DEF SpuriousWakeup, Wait, WaitReturns, Add, At
  <2>3. Own  BY <2>1, <2>2 DEF At
  <2> QED  BY <1>1, <1>2, <1>3, <1>4, <1>5, <2>3
<1>9. CASE Unlock(t) /\ ip' = ip
  <2>1. op \in UnlockOps /\ cond'[t] = "running" /\ cond[t] = "running"
    BY <1>9 DEF Unlock, At, UnlockOps
  <2>2. ~Wait(t) /\ ~WaitReturns(t) /\ ~Add(t)
    BY <2>1 DEF Wait, WaitReturns, Add, At, UnlockOps
  <2>3. ~At(t, {"write"})' /\ ~At(t, {"remove"})' /\ ~At(t, WakeOps)'
    BY <1>1, <1>9, <2>1 DEF At, UnlockOps, WakeOps
  <2> QED  BY <1>1, <1>2, <1>3, <1>4, <1>5, <2>2, <2>3
<1>10. CASE Recurse(t) /\ ip' = [ip EXCEPT ![t] = 1]
  <2>1. op = "recurse" /\ cond[t] = "running"  BY <1>10 DEF Recurse, At
  <2>2. ~Wait(t) /\ ~WaitReturns(t) /\ ~Add(t)
    BY <2>1 DEF Wait, WaitReturns, Add, At
  <2>3. program[t][1].op = "lock"
    BY <1>2, <2>1, Method DEF WellLockedAt
  <2>4. ~At(t, {"write"})' /\ ~At(t, {"remove"})' /\ ~At(t, WakeOps)'
    BY <1>1, <1>10, <2>3 DEF At, WakeOps, TypeOK
  <2> QED  BY <1>1, <1>2, <1>3, <1>4, <1>5, <2>2, <2>4
<1>11. CASE ~Advance(t)
  <2>1. \/ Wait(t) /\ data = 0
        \/ SpuriousWakeup(t)
        \/ Unlock(t) /\ ip' = ip
        \/ Recurse(t) /\ ip' = [ip EXCEPT ![t] = 1]
    BY <1>11
    DEF Step, Lock, Unlock, Read, Write, Recurse, Wait, WaitReturns, Remove, Add, Wake
  <2> QED  BY <1>7, <1>8, <1>9, <1>10, <2>1
<1> QED  BY <1>1, <1>2, <1>3, <1>4, <1>5, <1>6, <1>7, <1>8, <1>11

-----------------------------------------------------------------------------
(* Two threads do not keep the same lock. *)
LEMMA Excludes ==
    ASSUME OwnInv, NEW t \in Threads, NEW u \in Threads, NEW l,
           l \in Keeps(t), l \in Keeps(u)
    PROVE  t = u
<1>1. l \in Locks  BY HeldAreLocks DEF Keeps
<1> QED  BY <1>1 DEF OwnInv

(* Who is about to change a count or the array has its lock. *)
LEMMA HasLock ==
    ASSUME ProgramsLockWell, LockInv, NEW t \in Threads
    PROVE  /\ At(t, {"write"}) =>
                 On(t) \in {"tickets", "money"} /\ Guard(On(t)) \in Keeps(t)
           /\ At(t, {"remove"}) \/ At(t, {"add"}) \/ At(t, WakeOps) => "data" \in Keeps(t)
<1> SUFFICES ASSUME ~Done(t), cond[t] = "running"
             PROVE  /\ program[t][ip[t]].op = "write" =>
                          On(t) \in {"tickets", "money"} /\ Guard(On(t)) \in Keeps(t)
                    /\ program[t][ip[t]].op \in {"remove", "add"} \cup WakeOps =>
                          "data" \in Keeps(t)
  BY DEF At
<1>1. Keeps(t) = HeldAt(program[t], ip[t])  BY HeldAreLocks DEF Keeps
<1>2. WellLockedAt(program[t], ip[t])  BY Method DEF LockInv
<1>3. program[t][ip[t]].op = "write" =>
          On(t) \in {"tickets", "money"} /\ Guard(On(t)) \in HeldAt(program[t], ip[t])
  BY <1>2 DEF WellLockedAt, On, CountNames
<1>4. program[t][ip[t]].op \in {"remove", "add"} \cup WakeOps =>
          "data" \in HeldAt(program[t], ip[t])
  BY <1>2 DEF WellLockedAt
<1> QED  BY <1>1, <1>3, <1>4

(* A count is not written between the read of another thread and its write.*)
LEMMA NextFresh ==
    ASSUME ProgramsLockWell, LockInv, FreshInv, NEW t \in Threads,
           Step(t) \/ SpuriousWakeup(t)
    PROVE  FreshInv'
<1> SUFFICES ASSUME NEW u \in Threads, At(u, {"write"})'
             PROVE  old'[u] = counts'[On(u)']
  BY DEF FreshInv
<1>1. TypeOK /\ OwnInv  BY DEF LockInv
<1>2. CASE u = t
  <2>1. Read(t) /\ On(t)' = On(t)  BY <1>2, Moves
  <2> QED  BY <1>1, <1>2, <2>1 DEF Read, TypeOK
<1>3. CASE u /= t
  <2>1. At(u, {"write"}) /\ On(u)' = On(u)  BY <1>3, Moves
  <2>2. old[u] = counts[On(u)]  BY <2>1 DEF FreshInv
  <2>3. old'[u] = old[u]
    BY <1>1, <1>3
    DEF Step, SpuriousWakeup, Lock, Unlock, Read, Write, Recurse, Wait, WaitReturns,
        Remove, Add, Wake, TypeOK
  <2>4. CASE Write(t)
    <3>1. At(t, {"write"})  BY <2>4 DEF Write
    <3>2. On(t) /= On(u)
      <4>1. Guard(On(t)) \in Keeps(t) /\ Guard(On(u)) \in Keeps(u)
        BY <2>1, <3>1, HasLock
      <4> QED  BY <1>1, <1>3, <4>1, Excludes
    <3>3. counts'[On(u)] = counts[On(u)]
      <4>1. On(u) \in {"tickets", "money"}  BY <2>1, HasLock
      <4> QED  BY <1>1, <2>4, <3>2, <4>1 DEF Write, TypeOK
    <3> QED  BY <2>1, <2>2, <2>3, <3>3
  <2>5. CASE ~Write(t)
    <3>1. counts' = counts
      BY <2>5
      DEF Step, SpuriousWakeup, Lock, Unlock, Read, Recurse, Wait, WaitReturns,
          Remove, Add, Wake
    <3> QED  BY <2>1, <2>2, <2>3, <3>1
  <2> QED  BY <2>4, <2>5
<1> QED  BY <1>2, <1>3

(* Who waits or is about to remove is a remover. *)
LEMMA AreRemovers ==
    ASSUME ProgramsLockWell, LockInv, NEW t \in Threads,
           cond[t] /= "running" \/ At(t, {"remove"})
    PROVE  t \in Removers
<1>1. ~Done(t) /\ program[t][ip[t]].op \in {"wait", "remove"}
  BY DEF LockInv, WaitInv, At
<1>2. /\ ip[t] \in Nat \ {0} /\ ip[t] <= Len(program[t]) /\ Len(program[t]) \in Nat
      /\ program[t] \in Seq(Operations) /\ WellLockedAt(program[t], ip[t])
  BY <1>1, Method DEF LockInv
<1>3. DOMAIN program[t] = 1..Len(program[t])  BY <1>2
<1>4. \E i \in 1..Len(program[t]) : program[t][i].op = "remove"
  <2>1. CASE program[t][ip[t]].op = "wait"
    <3>1. ip[t] < Len(program[t]) /\ program[t][ip[t] + 1].op = "remove"
      BY <1>2, <2>1 DEF WellLockedAt
    <3>2. ip[t] + 1 \in 1..Len(program[t])  BY <1>2, <3>1
    <3> QED  BY <3>1, <3>2
  <2>2. CASE program[t][ip[t]].op = "remove"
    BY <1>2, <2>2
  <2> QED  BY <1>1, <2>1, <2>2
<1> QED  BY <1>3, <1>4 DEF Removers

(* Two members make a finite set larger than one. *)
LEMMA TwoMembers ==
    ASSUME NEW S, IsFiniteSet(S), NEW x \in S, NEW y \in S, x /= y
    PROVE  ~(Cardinality(S) <= 1)
<1>1. Cardinality({x}) = 1 /\ IsFiniteSet({x})  BY FS_Singleton
<1>2. Cardinality({x} \cup {y}) = 2
  <2>1. y \notin {x}  OBVIOUS
  <2> QED  BY <1>1, <2>1, FS_AddElement
<1>3. {x} \cup {y} \in SUBSET S  OBVIOUS
<1>4. 2 <= Cardinality(S)  BY <1>2, <1>3, FS_Subset
<1>5. Cardinality(S) \in Nat  BY FS_CardinalityType
<1> QED  BY <1>4, <1>5

(* One remover finds what was added before it was woken. *)
LEMMA NextRemove ==
    ASSUME ProgramsLockWell, LockInv, RemoveInv, NEW t \in Threads,
           Step(t) \/ SpuriousWakeup(t)
    PROVE  RemoveInv'
<1>1. TypeOK /\ OwnInv  BY DEF LockInv
<1>2. program' = program /\ Removers' = Removers  BY Moves DEF Removers
<1> SUFFICES ASSUME ~spurious', Cardinality(Removers) <= 1
             PROVE  /\ ~missed'
                    /\ \A u \in Threads :
                          cond'[u] = "woken" \/ At(u, {"remove"} \cup WakeOps)' => data' > 0
  BY <1>2 DEF RemoveInv
<1>3. ~SpuriousWakeup(t) /\ ~spurious
  BY DEF Step, SpuriousWakeup, Lock, Unlock, Read, Write, Recurse, Wait, WaitReturns,
         Remove, Add, Wake
<1>4. /\ ~missed
      /\ \A u \in Threads :
            cond[u] = "woken" \/ At(u, {"remove"}) \/ At(u, WakeOps) => data > 0
  <2>1. /\ ~missed
        /\ \A u \in Threads :
              cond[u] = "woken" \/ At(u, {"remove"} \cup WakeOps) => data > 0
    BY <1>3 DEF RemoveInv
  <2> QED  BY <2>1 DEF At
<1>5. data \in Nat /\ Step(t)  BY <1>1, <1>3 DEF TypeOK
<1>6. ASSUME NEW u \in Threads, At(u, {"remove"} \cup WakeOps)'
      PROVE  At(u, {"remove"})' \/ At(u, WakeOps)'
  BY <1>6 DEF At
<1>7. CASE Remove(t)
  <2>1. At(t, {"remove"}) /\ data > 0  BY <1>4, <1>7 DEF Remove
  <2>2. ~missed'
    <3>1. data /= 0  BY <1>5, <2>1
    <3>2. missed' = (missed \/ data = 0)  BY <1>7 DEF Remove
    <3> QED  BY <1>4, <3>1, <3>2
  <2>3. ASSUME NEW u \in Threads,
               cond'[u] = "woken" \/ At(u, {"remove"})' \/ At(u, WakeOps)'
        PROVE  FALSE
    <3>1. u /= t
      <4>1. ~Wait(t) /\ ~WaitReturns(t) /\ ~Add(t)
        BY <1>7 DEF Remove, Wait, WaitReturns, Add, At
      <4>2. cond'[t] = "running"  BY <1>7 DEF Remove, At
      <4> QED  BY <2>3, <4>1, <4>2, Moves
    <3>2. ~Wake(t)  BY <1>7 DEF Remove, Wake, At
    <3>3. cond[u] = "woken" \/ At(u, {"remove"}) \/ At(u, WakeOps)
      BY <2>3, <3>1, <3>2, Moves
    <3>4. CASE At(u, WakeOps)
      <4>1. "data" \in Keeps(u) /\ "data" \in Keeps(t)  BY <2>1, <3>4, HasLock
      <4> QED  BY <1>1, <3>1, <4>1, Excludes
    <3>5. CASE cond[u] = "woken" \/ At(u, {"remove"})
      <4>1. t \in Removers /\ u \in Removers  BY <2>1, <3>5, AreRemovers
      <4>2. IsFiniteSet(Removers)
        <5>1. Removers \in SUBSET Threads  BY DEF Removers
        <5> QED  BY <5>1, FS_Subset, LockDemoAssumption
      <4> QED  BY <3>1, <4>1, <4>2, TwoMembers
    <3> QED  BY <3>3, <3>4, <3>5
  <2> QED  BY <1>6, <2>2, <2>3
<1>8. CASE ~Remove(t)
  <2>1. missed' = missed /\ data' \in Nat /\ data' >= data
    BY <1>5, <1>8
    DEF Step, Lock, Unlock, Read, Write, Recurse, Wait, WaitReturns, Add, Wake
  <2>2. ASSUME NEW u \in Threads,
               cond'[u] = "woken" \/ At(u, {"remove"})' \/ At(u, WakeOps)'
        PROVE  data' > 0
    <3>1. CASE u = t
      <4>1. CASE Add(t)
        BY <1>5, <4>1 DEF Add
      <4>2. CASE (Wait(t) /\ data /= 0) \/ WaitReturns(t)
        BY <1>4, <1>5, <2>1, <4>2 DEF WaitReturns
      <4>3. CASE cond'[t] = "woken"
        <5>1. Wait(t) /\ data = 0  BY <1>3, <4>3, Moves
        <5> QED  BY <1>1, <4>3, <5>1 DEF Wait, TypeOK
      <4> QED  BY <2>2, <3>1, <4>1, <4>2, <4>3, Moves
    <3>2. CASE u /= t
      <4>1. \/ cond[u] = "woken" \/ At(u, {"remove"}) \/ At(u, WakeOps)
            \/ Wake(t)
        BY <2>2, <3>2, Moves
      <4>2. Wake(t) => At(t, WakeOps)  BY DEF Wake, WakeOps
      <4>3. data > 0  BY <1>4, <4>1, <4>2
      <4> QED  BY <1>5, <2>1, <4>3
    <3> QED  BY <3>1, <3>2
  <2> QED  BY <1>4, <1>6, <2>1, <2>2
<1> QED  BY <1>7, <1>8

(* An addition promises one more wakeup, a removal uses a promise, and a   *)
(* signal passes the adder's promise on to the sleeper it wakes.           *)
LEMMA NextSleep ==
    ASSUME ProgramsLockWell, LockInv, NoElementSleptOver, NEW t \in Threads,
           Step(t) \/ SpuriousWakeup(t)
    PROVE  NoElementSleptOver'
<1> DEFINE A == AboutToRemove
           K == {u \in Threads : At(u, {"signal", "broadcast"})}
           a == Cardinality(A)
           k == Cardinality(K)
           a2 == Cardinality(A')
           k2 == Cardinality(K')
<1>1. TypeOK /\ data \in Nat  BY DEF LockInv, TypeOK
<1>2. \A S \in SUBSET Threads : IsFiniteSet(S) /\ Cardinality(S) \in Nat
  BY FS_Subset, FS_CardinalityType, LockDemoAssumption
<1>3. A \in SUBSET Threads /\ K \in SUBSET Threads /\ A' \in SUBSET Threads
      /\ K' \in SUBSET Threads
  BY DEF AboutToRemove
<1>4. a \in Nat /\ k \in Nat /\ a2 \in Nat /\ k2 \in Nat
  BY <1>2, <1>3
<1> SUFFICES ASSUME Asleep' /= {} PROVE data' <= a2 + k2
  BY DEF NoElementSleptOver
<1>5. CASE Wait(t) /\ data = 0
  <2>1. data' = 0  BY <1>5 DEF Wait
  <2> HIDE DEF a, k, a2, k2
  <2> QED  BY <1>4, <2>1
<1>6. CASE ~(Wait(t) /\ data = 0)
  <2>1. Asleep /= {}
    <3>1. PICK u \in Threads : cond'[u] = "asleep"  BY DEF Asleep
    <3>2. u /= t
      <4>1. CASE SpuriousWakeup(t)
        BY <1>1, <3>1, <4>1 DEF SpuriousWakeup, TypeOK
      <4>2. CASE ~SpuriousWakeup(t)
        BY <1>6, <3>1, <4>2, Moves
      <4> QED  BY <4>1, <4>2
    <3>3. cond[u] = "asleep"  BY <3>1, <3>2, Moves
    <3> QED  BY <3>3 DEF Asleep
  <2>2. data <= a + k  BY <2>1 DEF NoElementSleptOver
  <2>3. \A u \in Threads \ {t} :
           /\ u \in K' <=> u \in K
           /\ u \in A => u \in A'
           /\ ~Wake(t) => (u \in A' <=> u \in A)
    BY Moves DEF AboutToRemove, WakeOps
  <2>4. CASE Add(t)
    <3>1. data' = data + 1 /\ t \in K' /\ t \notin K /\ t \notin A
      BY <1>1, <2>4, Moves DEF Add, At, WakeOps, AboutToRemove, TypeOK
    <3>2. K' = K \cup {t}  BY <1>3, <2>3, <3>1
    <3>3. A \in SUBSET A'  BY <1>3, <2>3, <3>1
    <3>4. k2 = k + 1  BY <1>2, <1>3, <3>1, <3>2, FS_AddElement
    <3>5. a <= a2  BY <1>2, <1>3, <3>3, FS_Subset
    <3> HIDE DEF a, k, a2, k2
    <3> QED  BY <1>1, <1>4, <2>2, <3>1, <3>4, <3>5
  <2>5. CASE Remove(t)
    <3>1. /\ data' = (IF data = 0 THEN 0 ELSE data - 1)
          /\ t \in A /\ t \notin K /\ cond'[t] = "running"
      BY <2>5 DEF Remove, At, AboutToRemove
    <3>2. ~Wait(t) /\ ~WaitReturns(t) /\ ~Add(t) /\ ~Wake(t)
      BY <2>5 DEF Remove, Wait, WaitReturns, Add, Wake, At
    <3>3. t \notin A' /\ t \notin K'
      BY <3>1, <3>2, Moves DEF AboutToRemove, WakeOps
    <3>4. K' = K  BY <1>3, <2>3, <3>1, <3>3
    <3>5. A' = A \ {t}  BY <1>3, <2>3, <3>2, <3>3
    <3>6. k2 = k  BY <3>4
    <3>7. a2 = a - 1  BY <1>2, <1>3, <3>1, <3>5, FS_RemoveElement
    <3> HIDE DEF a, k, a2, k2
    <3> QED  BY <1>1, <1>4, <2>2, <3>1, <3>6, <3>7
  <2>6. CASE Wake(t)
    <3>1. data' = data /\ t \in K /\ t \notin A
      BY <2>6 DEF Wake, At, AboutToRemove
    <3>2. PICK S \in SUBSET Asleep :
            /\ IF program[t][ip[t]].op = "broadcast" THEN S = Asleep
               ELSE Cardinality(S) = IF Asleep = {} THEN 0 ELSE 1
            /\ cond' = [s \in Threads |-> IF s \in S THEN "woken" ELSE cond[s]]
      BY <2>6 DEF Wake
    <3>3. Cardinality(S) = 1
      <4>1. S /= Asleep
        <5>1. PICK u \in Threads : cond'[u] = "asleep"  BY DEF Asleep
        <5> QED  BY <3>2, <5>1 DEF Asleep
      <4> QED  BY <2>1, <3>2, <4>1
    <3>4. A \cap S = {} /\ S \in SUBSET Threads
      BY DEF Asleep, AboutToRemove, At
    <3>5. A \cup S \in SUBSET A'
      <4>1. A \in SUBSET A'  BY <1>3, <2>3, <3>1
      <4>2. S \in SUBSET A'  BY <3>2, <3>4 DEF AboutToRemove
      <4> QED  BY <4>1, <4>2
    <3>6. a + 1 <= a2
      <4>1. Cardinality(A \cup S) = a + Cardinality(S) - Cardinality(A \cap S)
        BY <1>2, <1>3, <3>4, FS_Union
      <4>2. Cardinality(A \cap S) = 0  BY <3>4, FS_EmptySet
      <4>3. Cardinality(A \cup S) <= a2  BY <1>2, <1>3, <3>5, FS_Subset
      <4> HIDE DEF a, a2
      <4> QED  BY <1>4, <3>3, <4>1, <4>2, <4>3
    <3>7. K \ {t} \in SUBSET K'  BY <1>3, <2>3
    <3>8. k - 1 <= k2
      <4>1. Cardinality(K \ {t}) = k - 1  BY <1>2, <1>3, <3>1, FS_RemoveElement
      <4>2. Cardinality(K \ {t}) <= k2  BY <1>2, <1>3, <3>7, FS_Subset
      <4> QED  BY <4>1, <4>2
    <3> HIDE DEF a, k, a2, k2
    <3> QED  BY <1>1, <1>4, <2>2, <3>1, <3>6, <3>8
  <2>7. CASE ~Add(t) /\ ~Remove(t) /\ ~Wake(t)
    <3>1. data' = data
      BY <2>7
      DEF Step, SpuriousWakeup, Lock, Unlock, Read, Write, Recurse, Wait, WaitReturns
    <3>2. t \notin K
      BY <1>1, <2>7
      DEF Step, SpuriousWakeup, Lock, Unlock, Read, Write, Recurse, Wait, WaitReturns, At
    <3>3. t \in A => t \in A'
      <4>1. t \in A => WaitReturns(t)
        BY <2>7
        DEF Step, SpuriousWakeup, Lock, Unlock, Read, Write, Recurse, Wait, WaitReturns,
            At, AboutToRemove
      <4> QED  BY <4>1, Moves DEF AboutToRemove
    <3>4. K \in SUBSET K' /\ A \in SUBSET A'  BY <1>3, <2>3, <3>2, <3>3
    <3>5. k <= k2 /\ a <= a2  BY <1>2, <1>3, <3>4, FS_Subset
    <3> HIDE DEF a, k, a2, k2
    <3> QED  BY <1>1, <1>4, <2>2, <3>1, <3>5
  <2> QED  BY <2>4, <2>5, <2>6, <2>7
<1> QED  BY <1>5, <1>6

-----------------------------------------------------------------------------
(* The invariant holds in every state of every program whose methods lock  *)
(* well.                                                                   *)
THEOREM Invariant == ASSUME ProgramsLockWell PROVE Spec => []Inv
<1>1. Init => Inv
  <2> SUFFICES ASSUME Init PROVE Inv  OBVIOUS
  <2>1. LockInv  BY InitLock
  <2>2. \A t \in Threads : cond[t] = "running" /\ ip[t] = 1  BY DEF Init
  <2>3. \A t \in Threads : ~At(t, {"write", "remove"} \cup WakeOps)
    <3> SUFFICES ASSUME NEW t \in Threads, ~Done(t),
                        program[t][ip[t]].op \in {"write", "remove"} \cup WakeOps
                 PROVE  FALSE
      BY DEF At
    <3>1. WellLockedAt(program[t], ip[t])  BY <2>1, Method DEF LockInv
    <3>2. ip[t] = 1  BY <2>2
    <3> QED  BY <3>1, <3>2 DEF WellLockedAt
  <2>4. FreshInv  BY <2>3 DEF FreshInv, At
  <2>5. RemoveInv  BY <2>2, <2>3 DEF RemoveInv, At, Init
  <2>6. NoElementSleptOver  BY <2>2 DEF NoElementSleptOver, Asleep
  <2> QED  BY <2>1, <2>4, <2>5, <2>6 DEF Inv
<1>2. Inv /\ [Next]_vars => Inv'
  <2> SUFFICES ASSUME Inv, [Next]_vars PROVE Inv'  OBVIOUS
  <2>1. LockInv'  BY NextLock DEF Inv
  <2>2. CASE UNCHANGED vars
    <3>1. FreshInv' /\ RemoveInv' /\ NoElementSleptOver'
      BY <2>2
      DEF vars, Inv, FreshInv, RemoveInv, NoElementSleptOver, At, On, Done, Removers,
          Asleep, AboutToRemove
    <3> QED  BY <2>1, <3>1 DEF Inv
  <2>3. ASSUME NEW t \in Threads, Step(t) \/ SpuriousWakeup(t) PROVE Inv'
    BY <2>1, <2>3, NextFresh, NextRemove, NextSleep DEF Inv
  <2> QED  BY <2>2, <2>3 DEF Next
<1> QED  BY <1>1, <1>2, PTL DEF Spec

(* Every variable of the programs keeps its type: in particular a lock     *)
(* that is not recursive is taken once, and MutexDemo3's as often as it    *)
(* has called itself.                                                      *)
THEOREM TypeCorrect == ASSUME ProgramsLockWell PROVE Spec => []TypeOK
<1>1. Inv => TypeOK  BY DEF Inv, LockInv
<1> QED  BY <1>1, Invariant, PTL

(* MutexDemo4, NSConditionDemo: while a remover sleeps, every element is   *)
(* promised to one that is awake, for any number of adders and removers.   *)
THEOREM NobodySleepsOver == ASSUME ProgramsLockWell PROVE Spec => []NoElementSleptOver
<1>1. Inv => NoElementSleptOver  BY DEF Inv
<1> QED  BY <1>1, Invariant, PTL

(* The if without a loop is enough where there is one remover and no wait  *)
(* returns by itself.                                                      *)
THEOREM RemoverFindsElement == ASSUME ProgramsLockWell PROVE Spec => []RemovesTheElement
<1>1. Inv => RemovesTheElement
  <2> SUFFICES ASSUME Inv, missed PROVE spurious \/ Cardinality(Removers) > 1
    BY DEF RemovesTheElement
  <2>1. spurious \/ ~(Cardinality(Removers) <= 1)  BY DEF Inv, RemoveInv
  <2>2. Removers \in SUBSET Threads  BY DEF Removers
  <2>3. Cardinality(Removers) \in Nat
    BY <2>2, FS_Subset, FS_CardinalityType, LockDemoAssumption
  <2>4. ~(Cardinality(Removers) <= 1) => Cardinality(Removers) > 1  BY <2>3
  <2> QED  BY <2>1, <2>4
<1> QED  BY <1>1, Invariant, PTL

(* ticketTest, moneyTest: every write changes a count by just what the     *)
(* thread sells, saves or draws, whatever came between its read and it.    *)
THEOREM WritesAddUp ==
    ASSUME ProgramsLockWell
    PROVE  Spec => [][\A t \in Threads : Write(t) =>
                        counts'[On(t)] = counts[On(t)] + Arg(t)]_vars
<1> DEFINE AddsUp == \A t \in Threads : Write(t) =>
                        counts'[On(t)] = counts[On(t)] + Arg(t)
<1>1. Inv => AddsUp
  <2> SUFFICES ASSUME Inv, NEW t \in Threads, Write(t)
               PROVE  counts'[On(t)] = counts[On(t)] + Arg(t)
    OBVIOUS
  <2>1. At(t, {"write"}) /\ old[t] = counts[On(t)]  BY DEF Inv, FreshInv, Write
  <2>2. On(t) \in {"tickets", "money"}  BY <2>1, HasLock DEF Inv
  <2> QED  BY <2>1, <2>2 DEF Inv, LockInv, TypeOK, Write
<1> QED  BY <1>1, Invariant, PTL DEF Spec

-----------------------------------------------------------------------------
(* The writes to a count that a thread has behind it, and what an operation*)
(* adds.                                                                   *)
Writes(t, c) ==
    {i \in 1..ip[t] - 1 : program[t][i].op = "write" /\ program[t][i].on = c}
Args(t) == [i \in Nat |-> program[t][i].arg]

WritesTyped ==
    \A t \in Threads : \A c :
       /\ IsFiniteSet(Writes(t, c)) /\ Writes(t, c) \subseteq Nat
       /\ \A i \in Writes(t, c) : Args(t)[i] \in Int

(* They are a finite set, and numbers are added. *)
LEMMA WritesType == ProgramsLockWell /\ TypeOK => WritesTyped
<1> SUFFICES ASSUME ProgramsLockWell, TypeOK, NEW t \in Threads, NEW c
             PROVE  /\ IsFiniteSet(Writes(t, c)) /\ Writes(t, c) \subseteq Nat
                    /\ \A i \in Writes(t, c) : Args(t)[i] \in Int
  BY DEF WritesTyped
<1>1. program[t] \in Seq(Operations) /\ ip[t] \in 1..Len(program[t]) + 1
  BY DEF ProgramsLockWell, TypeOK
<1>2. Len(program[t]) \in Nat  BY <1>1
<1>3. Writes(t, c) \subseteq 1..Len(program[t])  BY <1>1, <1>2 DEF Writes
<1>4. IsFiniteSet(1..Len(program[t]))  BY <1>2, FS_Interval
<1>5. ASSUME NEW i \in Writes(t, c)  PROVE Args(t)[i] \in Int
  <2>1. i \in 1..Len(program[t])  BY <1>3
  <2>2. program[t][i] \in Operations  BY <1>1, <2>1
  <2> QED  BY <1>2, <2>1, <2>2 DEF Args, Operations
<1> QED  BY <1>2, <1>3, <1>4, <1>5, FS_Subset

(* Written is the sum of what these writes add. *)
WrittenFits ==
    \A t, c : IsFiniteSet(Writes(t, c)) /\ Writes(t, c) \subseteq Nat =>
                 Written(t, c) = Sum(Args(t), Writes(t, c))

(* So it is, in every state. *)
LEMMA WrittenIs == WrittenFits
<1> SUFFICES ASSUME NEW t, NEW c, IsFiniteSet(Writes(t, c)), Writes(t, c) \subseteq Nat
             PROVE  Written(t, c) = Sum(Args(t), Writes(t, c))
  BY DEF WrittenFits
<1> DEFINE W == Writes(t, c)
<1>1. ASSUME NEW s \in SUBSET W, s /= {}
      PROVE  Args(t)[Chosen(s)] = program[t][Chosen(s)].arg
  <2>1. Chosen(s) \in Nat  BY <1>1, ChosenIn
  <2> QED  BY <2>1 DEF Args
<1> DEFINE Goes(h) == h = [s \in SUBSET W |->
                             IF s = {} THEN 0
                             ELSE program[t][Chosen(s)].arg + h[s \ {Chosen(s)}]]
<1>2. ASSUME NEW h  PROVE Goes(h) <=> Sums(h, Args(t), W)
  BY <1>1, Zenon DEF Sums
<1>3. PICK g : Sums(g, Args(t), W) /\ Sum(Args(t), W) = g[W]  BY SumIs
<1>4. \E h : Goes(h) /\ Written(t, c) = h[W]
  <2>1. Goes(g)  BY <1>2, <1>3
  <2> QED  BY <2>1 DEF Written, Writes, MapThenSumSet, MapThenFoldSet, Chosen
<1> HIDE DEF Goes
<1>5. PICK h : Sums(h, Args(t), W) /\ Written(t, c) = h[W]  BY <1>2, <1>4
<1>6. g[W] = h[W]  BY <1>3, <1>5, SumsOne
<1> QED  BY <1>3, <1>5, <1>6

(* What all threads have added to a count: the sums of NoLostUpdate. *)
Total(c) == MapThenSumSet(LAMBDA t : Written(t, c), Threads)
Share(c) == [t \in Threads |-> Written(t, c)]

TotalFits == \A c : Total(c) = Sum(Share(c), Threads)

(* The sums of NoLostUpdate are such sums. *)
LEMMA TotalIs == TotalFits
<1> SUFFICES ASSUME NEW c  PROVE Total(c) = Sum(Share(c), Threads)
  BY DEF TotalFits
<1> USE LockDemoAssumption
<1>1. ASSUME NEW s \in SUBSET Threads, s /= {}
      PROVE  Share(c)[Chosen(s)] = Written(Chosen(s), c)
  <2>1. Chosen(s) \in Threads  BY <1>1, ChosenIn
  <2> QED  BY <2>1 DEF Share
<1> DEFINE Goes(h) == h = [s \in SUBSET Threads |->
                             IF s = {} THEN 0
                             ELSE Written(Chosen(s), c) + h[s \ {Chosen(s)}]]
<1>2. ASSUME NEW h  PROVE Goes(h) <=> Sums(h, Share(c), Threads)
  BY <1>1, Zenon DEF Sums
<1>3. PICK g : Sums(g, Share(c), Threads) /\ Sum(Share(c), Threads) = g[Threads]
  BY SumIs
<1>4. \E h : Goes(h) /\ Total(c) = h[Threads]
  <2>1. Goes(g)  BY <1>2, <1>3
  <2> QED  BY <2>1 DEF Total, MapThenSumSet, MapThenFoldSet, Chosen
<1> HIDE DEF Goes
<1>5. PICK h : Sums(h, Share(c), Threads) /\ Total(c) = h[Threads]  BY <1>2, <1>4
<1>6. g[Threads] = h[Threads]  BY <1>3, <1>5, SumsOne
<1> QED  BY <1>3, <1>5, <1>6

(* A write adds its operation to the thread's, and no other step changes   *)
(* what a thread has written: a method that calls itself has written       *)
(* nothing before.                                                         *)
LEMMA NextWrites ==
    ASSUME ProgramsLockWell, LockInv, NEW t \in Threads, Step(t) \/ SpuriousWakeup(t),
           NEW u \in Threads, NEW c
    PROVE  Writes(u, c)' = IF Write(t) /\ u = t /\ c = On(t)
                           THEN Writes(u, c) \cup {ip[t]} ELSE Writes(u, c)
<1>1. program' = program /\ ~Done(t) /\ ip \in [Threads -> Nat]
  BY Moves DEF LockInv, TypeOK
<1> DEFINE m == program[t]
           i == ip[t]
<1>2. i \in Nat \ {0} /\ WellLockedAt(m, i)  BY <1>1, Method DEF LockInv
<1>3. Write(t) => m[i].op = "write" /\ Advance(t)  BY DEF Write, At
<1>4. CASE Recurse(t) /\ ip' = [ip EXCEPT ![t] = 1]
  <2>1. m[i].op = "recurse"  BY <1>4 DEF Recurse, At
  <2>2. \A j \in 1..i - 1 : m[j].op /= "write"  BY <1>2, <2>1 DEF WellLockedAt
  <2>3. ~Write(t)  BY <1>3, <2>1
  <2>4. CASE u = t
    <3>1. ip'[u] = 1  BY <1>1, <1>4, <2>4
    <3>2. Writes(u, c)' = {}  BY <3>1 DEF Writes
    <3>3. Writes(u, c) = {}  BY <2>2, <2>4 DEF Writes
    <3> QED  BY <2>3, <3>2, <3>3
  <2>5. CASE u /= t
    <3>1. ip'[u] = ip[u]  BY <1>1, <1>4, <2>5
    <3> QED  BY <1>1, <2>3, <3>1 DEF Writes
  <2> QED  BY <2>4, <2>5
<1>5. CASE ~Write(t) /\ ip' = ip
  BY <1>1, <1>5 DEF Writes
<1>6. CASE Advance(t) /\ (Write(t) \/ m[i].op /= "write")
  <2>1. CASE u /= t
    <3>1. ip'[u] = ip[u]  BY <1>1, <1>6, <2>1 DEF Advance
    <3> QED  BY <1>1, <2>1, <3>1 DEF Writes
  <2>2. CASE u = t
    <3>1. ip'[u] = i + 1  BY <1>1, <1>6, <2>2 DEF Advance
    <3>2. Writes(u, c)' = {j \in 1..i : m[j].op = "write" /\ m[j].on = c}
      BY <1>1, <1>2, <2>2, <3>1 DEF Writes
    <3>3. 1..i = (1..i - 1) \cup {i}  BY <1>2
    <3>4. Writes(u, c) = {j \in 1..i - 1 : m[j].op = "write" /\ m[j].on = c}
      BY <2>2 DEF Writes
    <3>5. On(t) = m[i].on  BY DEF On
    <3>6. m[i].op = "write" <=> Write(t)  BY <1>3, <1>6
    <3> HIDE DEF m, i
    <3> QED  BY <2>2, <3>2, <3>3, <3>4, <3>5, <3>6 DEF i
  <2> QED  BY <2>1, <2>2
<1>7. \/ Recurse(t) /\ ip' = [ip EXCEPT ![t] = 1]
      \/ ~Write(t) /\ ip' = ip
      \/ Advance(t) /\ (Write(t) \/ m[i].op /= "write")
  <2>1. CASE Write(t)  BY <1>3, <2>1
  <2>2. CASE ~Write(t)
    <3>1. CASE Lock(t) \/ Read(t) \/ Remove(t) \/ Add(t) \/ Wake(t)
      BY <3>1 DEF Lock, Read, Remove, Add, Wake, At
    <3>2. CASE Unlock(t) \/ Recurse(t) \/ Wait(t)
      BY <2>2, <3>2 DEF Unlock, Recurse, Wait, At
    <3>3. CASE WaitReturns(t)
      <4>1. m[i].op = "wait"  BY <3>3 DEF WaitReturns, LockInv, WaitInv
      <4> QED  BY <3>3, <4>1 DEF WaitReturns
    <3>4. CASE SpuriousWakeup(t)
      BY <2>2, <3>4 DEF SpuriousWakeup
    <3> QED  BY <2>2, <3>1, <3>2, <3>3, <3>4 DEF Step
  <2> QED  BY <2>1, <2>2
<1> QED  BY <1>4, <1>5, <1>6, <1>7

(* What is summed are numbers, and so are the sums. *)
TotalTyped ==
    \A c : /\ \A t \in Threads : Share(c)[t] = Written(t, c) /\ Written(t, c) \in Int
           /\ Total(c) \in Int /\ Total(c) = Sum(Share(c), Threads)

(* They are typed in every state that is. *)
LEMMA TotalType == ProgramsLockWell /\ TypeOK => TotalTyped
<1> SUFFICES ASSUME ProgramsLockWell, TypeOK, NEW c
             PROVE  /\ \A t \in Threads : Share(c)[t] = Written(t, c) /\ Written(t, c) \in Int
                    /\ Total(c) \in Int /\ Total(c) = Sum(Share(c), Threads)
  BY DEF TotalTyped
<1>1. ASSUME NEW t \in Threads  PROVE Written(t, c) \in Int
  <2>1. /\ IsFiniteSet(Writes(t, c)) /\ Writes(t, c) \subseteq Nat
        /\ \A i \in Writes(t, c) : Args(t)[i] \in Int
    BY WritesType DEF WritesTyped
  <2>2. Written(t, c) = Sum(Args(t), Writes(t, c))  BY <2>1, WrittenIs DEF WrittenFits
  <2> QED  BY <2>1, <2>2, SumType
<1>2. \A t \in Threads : Share(c)[t] = Written(t, c)  BY DEF Share
<1>3. Total(c) = Sum(Share(c), Threads)  BY TotalIs DEF TotalFits
<1> QED  BY <1>1, <1>2, <1>3, SumType, LockDemoAssumption

(* Every count is what it was at first and what has been added to it. *)
Start(c) == IF c = "tickets" THEN 15 ELSE 0

AccountInv == \A c \in CountNames : counts[c] = Start(c) + Total(c)

(* NoLostUpdate says so of both counts. *)
LEMMA AccountIs ==
    ASSUME ProgramsLockWell, TypeOK, AccountInv
    PROVE  NoLostUpdate
<1>1. /\ counts["tickets"] = 15 + Total("tickets")
      /\ counts["money"] = 0 + Total("money")
  BY DEF AccountInv, CountNames, Start
<1>2. Total("money") \in Int  BY TotalType DEF TotalTyped
<1>3. 0 + Total("money") = Total("money")  BY <1>2
<1>4. counts["money"] = Total("money")  BY <1>1, <1>3
<1> QED  BY <1>1, <1>4, Zenon DEF NoLostUpdate, Total

(* Nobody has written anything yet. *)
LEMMA AccountInitial == ASSUME ProgramsLockWell, TypeOK, Init PROVE AccountInv
<1> SUFFICES ASSUME NEW c \in CountNames  PROVE counts[c] = Start(c) + Total(c)
  BY DEF AccountInv
<1>1. ASSUME NEW t \in Threads  PROVE Written(t, c) = 0
  <2>1. Writes(t, c) = {}  BY DEF Writes, Init
  <2>2. IsFiniteSet(Writes(t, c)) /\ Writes(t, c) \subseteq Nat
        /\ \A i \in Writes(t, c) : Args(t)[i] \in Int
    BY WritesType DEF WritesTyped
  <2>3. Written(t, c) = Sum(Args(t), Writes(t, c))  BY <2>2, WrittenIs DEF WrittenFits
  <2> QED  BY <2>1, <2>2, <2>3, SumType
<1>2. \A t \in Threads : Share(c)[t] = 0  BY <1>1 DEF Share
<1>3. Total(c) = 0
  BY <1>2, SumZero, TotalType, LockDemoAssumption DEF TotalTyped
<1>4. counts[c] = Start(c)  BY DEF Init, CountNames, Start
<1> QED  BY <1>3, <1>4 DEF Start

(* What a thread has written before and after a step. *)
LEMMA WrittenTwice ==
    ASSUME ProgramsLockWell, TypeOK, TypeOK', program' = program,
           NEW u \in Threads, NEW c
    PROVE  /\ Written(u, c) = Sum(Args(u), Writes(u, c))
           /\ Written(u, c)' = Sum(Args(u), Writes(u, c)')
           /\ IsFiniteSet(Writes(u, c)) /\ IsFiniteSet(Writes(u, c)')
           /\ \A i \in Writes(u, c) : Args(u)[i] \in Int
           /\ \A i \in Writes(u, c)' : Args(u)[i] \in Int
<1>1. Args(u)' = Args(u)  BY DEF Args
<1>2. WritesTyped /\ WrittenFits  BY WritesType, WrittenIs
<1>3. WritesTyped'
  <2>1. (ProgramsLockWell /\ TypeOK => WritesTyped)'  BY WritesType, PTL
  <2> QED  BY <2>1
<1>4. WrittenFits'  BY WrittenIs, PTL
<1>5. /\ Written(u, c) = Sum(Args(u), Writes(u, c))
      /\ IsFiniteSet(Writes(u, c)) /\ \A i \in Writes(u, c) : Args(u)[i] \in Int
  BY <1>2 DEF WritesTyped, WrittenFits
<1>6. /\ Written(u, c)' = Sum(Args(u), Writes(u, c)')
      /\ IsFiniteSet(Writes(u, c)') /\ \A i \in Writes(u, c)' : Args(u)[i] \in Int
  BY <1>1, <1>3, <1>4 DEF WritesTyped, WrittenFits
<1> QED  BY <1>5, <1>6

(* What a step adds to what a thread has written. *)
LEMMA NextWritten ==
    ASSUME ProgramsLockWell, LockInv, TypeOK', NEW t \in Threads,
           Step(t) \/ SpuriousWakeup(t), NEW u \in Threads, NEW c
    PROVE  Written(u, c)' = IF Write(t) /\ u = t /\ c = On(t)
                            THEN Written(u, c) + Arg(t) ELSE Written(u, c)
<1>1. TypeOK /\ program' = program /\ ip[t] \in Nat
  BY Moves DEF LockInv, TypeOK
<1> DEFINE F == Args(u)
           W == Writes(u, c)
           V == Writes(u, c)'
<1>2. /\ Written(u, c) = Sum(F, W) /\ Written(u, c)' = Sum(F, V)
      /\ IsFiniteSet(W) /\ IsFiniteSet(V)
      /\ (\A i \in W : F[i] \in Int) /\ \A i \in V : F[i] \in Int
  BY <1>1, WrittenTwice
<1>3. V = IF Write(t) /\ u = t /\ c = On(t) THEN W \cup {ip[t]} ELSE W
  BY NextWrites
<1>4. u = t => ip[t] \notin W /\ F[ip[t]] = Arg(t)
  BY <1>1 DEF Writes, Args, Arg
<1> HIDE DEF F, W, V
<1>5. CASE Write(t) /\ u = t /\ c = On(t)
  <2>1. ip[t] \in V /\ V \ {ip[t]} = W  BY <1>3, <1>4, <1>5
  <2>2. Sum(F, V) = F[ip[t]] + Sum(F, W)  BY <1>2, <2>1, SumElement
  <2>3. Sum(F, W) \in Int /\ Arg(t) \in Int  BY <1>2, <1>4, <1>5, <2>1, SumType
  <2>4. Arg(t) + Sum(F, W) = Sum(F, W) + Arg(t)  BY <2>3
  <2>5. Sum(F, V) = Written(u, c) + Arg(t)  BY <1>2, <1>4, <1>5, <2>2, <2>4
  <2>6. Written(u, c)' = Written(u, c) + Arg(t)  BY ONLY <1>2, <2>5
  <2> QED  BY <1>5, <2>6
<1>6. CASE ~(Write(t) /\ u = t /\ c = On(t))
  BY <1>2, <1>3, <1>6
<1> QED  BY <1>5, <1>6

(* A write adds to its count what it adds to the writes of its thread. *)
LEMMA AccountNext ==
    ASSUME ProgramsLockWell, Inv, TypeOK', AccountInv, [Next]_vars
    PROVE  AccountInv'
<1> SUFFICES ASSUME NEW c \in CountNames
             PROVE  counts'[c] = Start(c) + Total(c)'
  BY DEF AccountInv, Start
<1>1. /\ LockInv /\ TypeOK /\ Start(c) \in Int
      /\ counts \in [CountNames -> Int] /\ counts[c] = Start(c) + Total(c)
  BY DEF Inv, LockInv, TypeOK, CountNames, AccountInv, Start
<1>2. /\ \A t \in Threads : Share(c)[t] = Written(t, c) /\ Written(t, c) \in Int
      /\ Total(c) \in Int /\ Total(c) = Sum(Share(c), Threads)
  BY <1>1, TotalType DEF TotalTyped
<1>3. /\ \A t \in Threads : Share(c)'[t] = Written(t, c)' /\ Written(t, c)' \in Int
      /\ Total(c)' = Sum(Share(c)', Threads)
  <2>1. (ProgramsLockWell /\ TypeOK => TotalTyped)'  BY TotalType, PTL
  <2> QED  BY <2>1 DEF TotalTyped
<1>4. ASSUME NEW t \in Threads, Write(t), On(t) = c
      PROVE  counts'[c] = Start(c) + Total(c)'
  <2>1. At(t, {"write"}) /\ old[t] = counts[c]  BY <1>4 DEF Inv, FreshInv, Write
  <2>2. counts'[c] = counts[c] + Arg(t)  BY <1>1, <1>4, <2>1 DEF Write
  <2>3. Step(t)  BY <1>4 DEF Step
  <2>4. \A u \in Threads \ {t} : Written(u, c)' = Written(u, c)
    BY <1>1, <2>3, NextWritten
  <2>5. Written(t, c)' = Written(t, c) + Arg(t)
    BY <1>1, <1>4, <2>3, NextWritten
  <2>6. Sum(Share(c)', Threads) = Sum(Share(c), Threads) + Share(c)'[t] - Share(c)[t]
    BY <1>2, <1>3, <2>4, SumChange, LockDemoAssumption
  <2>7. Arg(t) \in Int
    <3>1. ~Done(t)  BY <2>1 DEF At
    <3> QED  BY <1>1, <3>1, Method DEF Arg, Operations
  <2> QED  BY <1>1, <1>2, <1>3, <2>2, <2>5, <2>6, <2>7
<1>5. ASSUME NEW t \in Threads, Step(t) \/ SpuriousWakeup(t), ~(Write(t) /\ On(t) = c)
      PROVE  counts'[c] = Start(c) + Total(c)'
  <2>1. counts'[c] = counts[c]
    <3>1. CASE Write(t)  BY <1>1, <1>5, <3>1 DEF Write
    <3>2. CASE ~Write(t)
      BY <1>5, <3>2 DEF Step, SpuriousWakeup, Lock, Unlock, Read, Recurse, Wait,
                       WaitReturns, Remove, Add, Wake
    <3> QED  BY <3>1, <3>2
  <2>2. \A u \in Threads : Written(u, c)' = Written(u, c)
    BY <1>1, <1>5, NextWritten
  <2>3. Sum(Share(c)', Threads) = Sum(Share(c), Threads)
    BY <1>2, <1>3, <2>2, SumSame, LockDemoAssumption
  <2> QED  BY <1>1, <1>2, <1>3, <2>1, <2>3
<1>6. CASE UNCHANGED vars
  <2>1. \A u \in Threads : Written(u, c)' = Written(u, c)
    <3> SUFFICES ASSUME NEW u \in Threads  PROVE Written(u, c)' = Written(u, c)
      OBVIOUS
    <3>1. program' = program /\ Writes(u, c)' = Writes(u, c)  BY <1>6 DEF vars, Writes
    <3> QED  BY <1>1, <3>1, WrittenTwice
  <2>2. Sum(Share(c)', Threads) = Sum(Share(c), Threads)
    BY <1>2, <1>3, <2>1, SumSame, LockDemoAssumption
  <2> QED  BY <1>1, <1>2, <1>3, <1>6, <2>2 DEF vars
<1> QED  BY <1>4, <1>5, <1>6 DEF Next

(* ticketTest, moneyTest: in every state each count is its first value and *)
(* what the threads have written, so no sale, saving or drawing is lost,   *)
(* whatever the number of threads and of rounds.                           *)
THEOREM NoUpdateIsLost == ASSUME ProgramsLockWell PROVE Spec => []NoLostUpdate
<1>1. Inv /\ Init => AccountInv  BY AccountInitial DEF Inv, LockInv
<1>2. Inv /\ Inv' /\ AccountInv /\ [Next]_vars => AccountInv'
  BY AccountNext DEF Inv, LockInv
<1>3. Inv /\ AccountInv => NoLostUpdate  BY AccountIs DEF Inv, LockInv
<1> QED  BY <1>1, <1>2, <1>3, Invariant, PTL DEF Spec

-----------------------------------------------------------------------------
(* What every method of the source is: a lock around its body. *)
LEMMA Bracketed ==
    ASSUME NEW l \in Locks, NEW body \in Seq(Operations),
           \A i \in 1..Len(body) : body[i].op \notin LockOps \cup UnlockOps
    PROVE  LET m == Locked(l, body)
               n == Len(body)
           IN  /\ m \in Seq(Operations) /\ Len(m) = n + 2
               /\ m[1] = Op("lock", l, 0) /\ m[n + 2] = Op("unlock", l, 0)
               /\ \A i \in 1..n : m[i + 1] = body[i]
               /\ HeldAt(m, 1) = {} /\ \A i \in 2..n + 2 : HeldAt(m, i) = {l}
<1> DEFINE first == <<Op("lock", l, 0)>>
           last == <<Op("unlock", l, 0)>>
           m == (first \o body) \o last
           n == Len(body)
<1>1. n \in Nat  OBVIOUS
<1>2. /\ first \in Seq(Operations) /\ Len(first) = 1
      /\ last \in Seq(Operations) /\ Len(last) = 1
  <2>1. Op("lock", l, 0) \in Operations /\ Op("unlock", l, 0) \in Operations
    BY DEF Op, Operations, OpNames
  <2> QED  BY <2>1
<1>3. /\ first \o body \in Seq(Operations) /\ Len(first \o body) = n + 1
      /\ (first \o body)[1] = Op("lock", l, 0)
      /\ \A i \in 1..n : (first \o body)[i + 1] = body[i]
  BY <1>1, <1>2, ConcatProperties
<1>4. /\ m \in Seq(Operations) /\ Len(m) = n + 2
      /\ m[1] = Op("lock", l, 0) /\ m[n + 2] = Op("unlock", l, 0)
      /\ \A i \in 1..n : m[i + 1] = body[i]
  BY <1>1, <1>2, <1>3, ConcatProperties
<1>5. Locked(l, body) = m  BY DEF Locked
<1> HIDE DEF m, n
<1>6. HeldAt(m, 1) = {}  BY HeldFirst
<1>7. ASSUME NEW i \in 2..n + 2 PROVE HeldAt(m, i) = {l}
  <2>1. m[1].op \in LockOps /\ m[1].on = l  BY <1>4 DEF Op, LockOps
  <2>2. \A k \in 2..i - 1 : m[k].op \notin LockOps \cup UnlockOps
    <3> SUFFICES ASSUME NEW k \in 2..i - 1
                 PROVE  m[k].op \notin LockOps \cup UnlockOps
      OBVIOUS
    <3>1. k - 1 \in 1..n /\ (k - 1) + 1 = k  BY <1>1
    <3>2. m[k] = body[k - 1]  BY <1>4, <3>1
    <3> QED  BY <3>1, <3>2 DEF n
  <2>3. 1 \in 1..i - 1 /\ 1 + 1 = 2 /\ \A j \in 1..i - 1 : j = 1 \/ j \in 2..i - 1
    BY <1>1
  <2>4. l \in HeldAt(m, i)
    BY <2>1, <2>2, <2>3 DEF HeldAt
  <2>5. \A k \in HeldAt(m, i) : k = l
    BY <2>1, <2>2, <2>3 DEF HeldAt
  <2> QED  BY <2>4, <2>5
<1> QED  BY <1>4, <1>5, <1>6, <1>7 DEF n

(* A method that can be called again and again in a loop: at its end it    *)
(* holds nothing.                                                          *)
Repeats(m) ==
    /\ WellLocked(m) /\ HeldAt(m, Len(m) + 1) = {}
    /\ \A i \in 1..Len(m) : m[i].op /= "recurse"

(* A count that is read and written under its lock. *)
LEMMA CountLocksWell ==
    ASSUME NEW c \in CountNames, NEW by \in Int
    PROVE  Repeats(Locked(Guard(c), Change(c, by)))
<1> DEFINE body == Change(c, by)
           l == Guard(c)
           m == Locked(l, body)
<1>1. /\ body \in Seq(Operations) /\ Len(body) = 2
      /\ body[1] = Op("read", c, 0) /\ body[2] = Op("write", c, by)
  BY DEF Change, Op, Operations, OpNames
<1>2. l \in Locks  BY DEF Guard, Locks
<1>3. \A i \in 1..2 : i = 1 \/ i = 2  OBVIOUS
<1>4. \A i \in 1..2 : body[i].op \notin LockOps \cup UnlockOps
  BY <1>1, <1>3 DEF Op, LockOps, UnlockOps
<1>5. /\ m \in Seq(Operations) /\ Len(m) = 2 + 2
      /\ m[1] = Op("lock", l, 0) /\ m[2 + 2] = Op("unlock", l, 0)
      /\ \A i \in 1..2 : m[i + 1] = body[i]
      /\ HeldAt(m, 1) = {} /\ \A i \in 2..2 + 2 : HeldAt(m, i) = {l}
  BY <1>1, <1>2, <1>4, Bracketed, ZenonT(60)
<1> HIDE DEF m, body, l
<1>6. /\ Len(m) = 4
      /\ m[1] = Op("lock", l, 0) /\ m[2] = Op("read", c, 0)
      /\ m[3] = Op("write", c, by) /\ m[4] = Op("unlock", l, 0)
      /\ HeldAt(m, 1) = {} /\ HeldAt(m, 2) = {l} /\ HeldAt(m, 3) = {l} /\ HeldAt(m, 4) = {l}
  BY <1>1, <1>5
<1>7. l = Guard(c)  BY DEF l
<1>8. \A i \in 1..4 : i = 1 \/ i = 2 \/ i = 3 \/ i = 4  OBVIOUS
<1>9. \A i \in 1..Len(m) : WellLockedAt(m, i)
  BY <1>2, <1>6, <1>7, <1>8
  DEF WellLockedAt, Op, LockOps, UnlockOps, WakeOps
<1>10. HeldAt(m, 4 + 1) = {}
  <2>1. m[4].op \in UnlockOps /\ m[4].on = l  BY <1>6 DEF Op, UnlockOps
  <2>2. 4 \in Nat \ {0}  OBVIOUS
  <2>3. HeldAt(m, 4 + 1) = HeldAt(m, 4) \ {m[4].on}  BY <2>1, <2>2, HeldNext
  <2> QED  BY <1>6, <2>1, <2>3
<1>11. \A i \in 1..Len(m) : m[i].op /= "recurse"  BY <1>6, <1>8 DEF Op
<1>12. Repeats(m)  BY <1>5, <1>6, <1>9, <1>10, <1>11 DEF WellLocked, Repeats
<1> QED  BY <1>12 DEF m, l, body

(* MutexDemo2's inner lock, and MutexDemo3. *)
LEMMA RecursiveLocksWell == WellLocked(otherTest2) /\ WellLocked(recursiveTest)
<1>1. WellLocked(otherTest2)
  <2> DEFINE m == otherTest2
             none == << >>
  <2>1. none \in Seq(Operations) /\ Len(none) = 0  OBVIOUS
  <2>2. "mutex2" \in Locks  BY DEF Locks
  <2>3. /\ m \in Seq(Operations) /\ Len(m) = 0 + 2
        /\ m[1] = Op("lock", "mutex2", 0) /\ m[0 + 2] = Op("unlock", "mutex2", 0)
        /\ HeldAt(m, 1) = {} /\ \A i \in 2..0 + 2 : HeldAt(m, i) = {"mutex2"}
    <3>1. \A i \in 1..0 : none[i].op \notin LockOps \cup UnlockOps  OBVIOUS
    <3> HIDE DEF none
    <3> QED  BY <2>1, <2>2, <3>1, Bracketed DEF otherTest2, none
  <2> HIDE DEF m
  <2>4. \A i \in 1..Len(m) : i = 1 \/ i = 2  BY <2>3
  <2>5. \A i \in 1..Len(m) : WellLockedAt(m, i)
    BY <2>2, <2>3, <2>4 DEF WellLockedAt, Op, LockOps, UnlockOps, WakeOps
  <2> QED  BY <2>3, <2>5 DEF WellLocked, m
<1>2. WellLocked(recursiveTest)
  <2> DEFINE m == recursiveTest
             body == <<Op("recurse", "recursive", 0)>>
  <2>1. body \in Seq(Operations) /\ Len(body) = 1 /\ body[1] = Op("recurse", "recursive", 0)
    BY DEF Op, Operations, OpNames, Locks
  <2>2. "recursive" \in Locks  BY DEF Locks
  <2>3. \A i \in 1..1 : body[i].op \notin LockOps \cup UnlockOps
    BY <2>1 DEF Op, LockOps, UnlockOps
  <2>4. /\ m \in Seq(Operations) /\ Len(m) = 1 + 2
        /\ m[1] = Op("lock", "recursive", 0) /\ m[1 + 2] = Op("unlock", "recursive", 0)
        /\ \A i \in 1..1 : m[i + 1] = body[i]
        /\ HeldAt(m, 1) = {} /\ \A i \in 2..1 + 2 : HeldAt(m, i) = {"recursive"}
    <3> HIDE DEF body
    <3> QED  BY <2>1, <2>2, <2>3, Bracketed DEF recursiveTest, body
  <2> HIDE DEF m, body
  <2>5. /\ Len(m) = 3 /\ m[1] = Op("lock", "recursive", 0)
        /\ m[2] = Op("recurse", "recursive", 0) /\ m[3] = Op("unlock", "recursive", 0)
        /\ HeldAt(m, 1) = {} /\ HeldAt(m, 2) = {"recursive"} /\ HeldAt(m, 3) = {"recursive"}
    BY <2>1, <2>4
  <2>6. \A i \in 1..3 : i = 1 \/ i = 2 \/ i = 3  OBVIOUS
  <2>7. \A i \in 1..Len(m) : WellLockedAt(m, i)
    BY <2>2, <2>5, <2>6 DEF WellLockedAt, Op, LockOps, UnlockOps, WakeOps
  <2> QED  BY <2>4, <2>7 DEF WellLocked, m
<1> QED  BY <1>1, <1>2

(* MutexDemo4 and NSConditionDemo: two operations on the array. *)
LEMMA DataLocksWell ==
    WellLocked(remove) /\ \A wake \in WakeOps : WellLocked(add(wake))
<1> DEFINE Body(x, y) == <<Op(x, "data", 0), Op(y, "data", 0)>>
           Pairs == {<<"wait", "remove">>} \cup {<<"add", wake>> : wake \in WakeOps}
<1>1. ASSUME NEW p \in Pairs PROVE WellLocked(Locked("data", Body(p[1], p[2])))
  <2> DEFINE m == Locked("data", Body(p[1], p[2]))
             body == Body(p[1], p[2])
             x == p[1]
             y == p[2]
  <2>0. (x = "wait" /\ y = "remove") \/ (x = "add" /\ y \in WakeOps)
    OBVIOUS
  <2>1. /\ body \in Seq(Operations) /\ Len(body) = 2
        /\ body[1] = Op(x, "data", 0) /\ body[2] = Op(y, "data", 0)
    BY <2>0 DEF Op, Operations, OpNames, Locks, WakeOps
  <2>2. "data" \in Locks  BY DEF Locks
  <2>3. \A i \in 1..2 : i = 1 \/ i = 2  OBVIOUS
  <2> HIDE DEF x, y, body
  <2>4. \A i \in 1..2 : body[i].op \notin LockOps \cup UnlockOps
    BY <2>0, <2>1, <2>3 DEF Op, LockOps, UnlockOps, WakeOps
  <2>5. m = Locked("data", body)  BY DEF body
  <2> HIDE DEF m
  <2>6. /\ m \in Seq(Operations) /\ Len(m) = 2 + 2
        /\ m[1] = Op("lock", "data", 0) /\ m[2 + 2] = Op("unlock", "data", 0)
        /\ \A i \in 1..2 : m[i + 1] = body[i]
        /\ HeldAt(m, 1) = {} /\ \A i \in 2..2 + 2 : HeldAt(m, i) = {"data"}
    BY <2>1, <2>2, <2>4, <2>5, Bracketed, ZenonT(60)
  <2>7. /\ Len(m) = 4
        /\ m[1] = Op("lock", "data", 0) /\ m[2] = Op(x, "data", 0)
        /\ m[3] = Op(y, "data", 0) /\ m[4] = Op("unlock", "data", 0)
        /\ HeldAt(m, 1) = {} /\ HeldAt(m, 2) = {"data"} /\ HeldAt(m, 3) = {"data"}
        /\ HeldAt(m, 4) = {"data"}
    BY <2>1, <2>6
  <2>8. \A i \in 1..4 : i = 1 \/ i = 2 \/ i = 3 \/ i = 4  OBVIOUS
  <2>9. \A i \in 1..Len(m) : WellLockedAt(m, i)
    BY <2>0, <2>2, <2>7, <2>8
    DEF WellLockedAt, Op, LockOps, UnlockOps, WakeOps
  <2> QED  BY <2>6, <2>9 DEF WellLocked, m
<1>2. WellLocked(remove)
  <2>1. <<"wait", "remove">> \in Pairs  OBVIOUS
  <2>2. remove = Locked("data", Body("wait", "remove"))  BY DEF remove
  <2> QED  BY <1>1, <2>1, <2>2
<1>3. ASSUME NEW wake \in WakeOps PROVE WellLocked(add(wake))
  <2>1. <<"add", wake>> \in Pairs  OBVIOUS
  <2>2. add(wake) = Locked("data", Body("add", wake))  BY DEF add
  <2> QED  BY <1>1, <2>1, <2>2
<1> QED  BY <1>2, <1>3

(* NSConditionLockDemo: a lock and an unlock. *)
LEMMA TurnsLockWell == WellLocked(one) /\ WellLocked(two) /\ WellLocked(three)
<1>1. ASSUME NEW m, NEW a \in Operations, NEW b \in Operations, m = <<a, b>>,
             a.op \in LockOps, a.on \in Locks, b.on = a.on,
             b.op \in UnlockOps, b.op = "unlockWith" => b.arg \in 1..3
      PROVE  WellLocked(m)
  <2>1. m \in Seq(Operations) /\ Len(m) = 2 /\ m[1] = a /\ m[2] = b
    BY <1>1
  <2>2. HeldAt(m, 1) = {}  BY HeldFirst
  <2>3. HeldAt(m, 2) = {a.on}
    <3>1. HeldAt(m, 1 + 1) = HeldAt(m, 1) \cup {m[1].on}
      BY <1>1, <2>1, HeldNext
    <3>2. 1 + 1 = 2  OBVIOUS
    <3> QED  BY <2>1, <2>2, <3>1, <3>2
  <2>4. \A i \in 1..2 : i = 1 \/ i = 2  OBVIOUS
  <2>5. \A i \in 1..Len(m) : WellLockedAt(m, i)
    BY <1>1, <2>1, <2>2, <2>3, <2>4 DEF WellLockedAt, LockOps, UnlockOps, WakeOps
  <2> QED  BY <2>1, <2>5 DEF WellLocked
<1> USE DEF Op, Operations, OpNames, Locks, LockOps, UnlockOps
<1>2. WellLocked(one)
  <2>1. /\ Op("lock", "conditionLock", 0) \in Operations
        /\ Op("unlockWith", "conditionLock", 2) \in Operations
    OBVIOUS
  <2> QED  BY <1>1, <2>1 DEF one
<1>3. WellLocked(two)
  <2>1. /\ Op("lockWhen", "conditionLock", 2) \in Operations
        /\ Op("unlockWith", "conditionLock", 3) \in Operations
    OBVIOUS
  <2> QED  BY <1>1, <2>1 DEF two
<1>4. WellLocked(three)
  <2>1. /\ Op("lockWhen", "conditionLock", 3) \in Operations
        /\ Op("unlock", "conditionLock", 0) \in Operations
    OBVIOUS
  <2> QED  BY <1>1, <2>1 DEF three
<1> QED  BY <1>2, <1>3, <1>4

(* Two methods one after the other. *)
LEMMA Joined ==
    ASSUME NEW u \in Seq(Operations), NEW v \in Seq(Operations)
    PROVE  /\ u \o v \in Seq(Operations) /\ Len(u \o v) = Len(u) + Len(v)
           /\ \A i \in 1..Len(u) : (u \o v)[i] = u[i]
           /\ \A i \in 1..Len(v) : (u \o v)[Len(u) + i] = v[i]
BY ConcatProperties

(* MutexDemo2: the second lock inside of the first. *)
LEMMA NestedLocksWell == WellLocked(otherTest)
<1> DEFINE first == <<Op("lock", "mutex", 0)>>
           last == <<Op("unlock", "mutex", 0)>>
           body == otherTest2
           m == (first \o body) \o last
<1>1. /\ first \in Seq(Operations) /\ Len(first) = 1 /\ first[1] = Op("lock", "mutex", 0)
      /\ last \in Seq(Operations) /\ Len(last) = 1 /\ last[1] = Op("unlock", "mutex", 0)
  BY DEF Op, Operations, OpNames, Locks
<1>2. /\ body \in Seq(Operations) /\ Len(body) = 2
      /\ body[1] = Op("lock", "mutex2", 0) /\ body[2] = Op("unlock", "mutex2", 0)
  <2> DEFINE a == <<Op("lock", "mutex2", 0)>>
             none == << >>
             b == <<Op("unlock", "mutex2", 0)>>
  <2>1. /\ a \in Seq(Operations) /\ Len(a) = 1 /\ a[1] = Op("lock", "mutex2", 0)
        /\ b \in Seq(Operations) /\ Len(b) = 1 /\ b[1] = Op("unlock", "mutex2", 0)
        /\ none \in Seq(Operations) /\ Len(none) = 0
    BY DEF Op, Operations, OpNames, Locks
  <2>2. body = (a \o none) \o b  BY DEF otherTest2, Locked
  <2> HIDE DEF a, b, none, body
  <2>3. a \o none = a  BY <2>1, ConcatEmptySeq DEF none
  <2>4. /\ body \in Seq(Operations) /\ Len(body) = 1 + 1
        /\ \A i \in 1..1 : body[i] = a[i]
        /\ \A i \in 1..1 : body[1 + i] = b[i]
    BY <2>1, <2>2, <2>3, Joined
  <2>5. body[1] = a[1] /\ body[1 + 1] = b[1]  BY <2>4
  <2>6. 1 + 1 = 2  OBVIOUS
  <2> QED  BY <2>1, <2>4, <2>5, <2>6
<1>3. otherTest = m  BY DEF otherTest, Locked
<1> HIDE DEF first, last, body
<1>4. /\ first \o body \in Seq(Operations) /\ Len(first \o body) = 3
      /\ (first \o body)[1] = first[1] /\ (first \o body)[2] = body[1]
      /\ (first \o body)[3] = body[2]
  <2>1. /\ first \o body \in Seq(Operations)
        /\ Len(first \o body) = Len(first) + Len(body)
        /\ \A i \in 1..Len(first) : (first \o body)[i] = first[i]
        /\ \A i \in 1..Len(body) : (first \o body)[Len(first) + i] = body[i]
    <3>1. first \in Seq(Operations) /\ body \in Seq(Operations)  BY <1>1, <1>2
    <3> QED  BY <3>1, Joined
  <2>2. 1 \in 1..1 /\ 1 \in 1..2 /\ 2 \in 1..2 /\ 1 + 1 = 2 /\ 1 + 2 = 3  OBVIOUS
  <2>3. /\ (first \o body)[1] = first[1] /\ (first \o body)[1 + 1] = body[1]
        /\ (first \o body)[1 + 2] = body[2]
    BY <1>1, <1>2, <2>1, <2>2
  <2> QED  BY <1>1, <1>2, <2>1, <2>2, <2>3
<1> DEFINE inner == first \o body
<1>5. /\ m \in Seq(Operations) /\ Len(m) = 4
      /\ m[1] = Op("lock", "mutex", 0) /\ m[2] = Op("lock", "mutex2", 0)
      /\ m[3] = Op("unlock", "mutex2", 0) /\ m[4] = Op("unlock", "mutex", 0)
  <2>1. /\ inner \in Seq(Operations) /\ Len(inner) = 3 /\ inner[1] = first[1]
        /\ inner[2] = body[1] /\ inner[3] = body[2] /\ m = inner \o last
    BY <1>4
  <2> HIDE DEF inner, m
  <2>2. /\ inner \o last \in Seq(Operations)
        /\ Len(inner \o last) = Len(inner) + Len(last)
        /\ \A i \in 1..Len(inner) : (inner \o last)[i] = inner[i]
        /\ \A i \in 1..Len(last) : (inner \o last)[Len(inner) + i] = last[i]
    <3>1. inner \in Seq(Operations) /\ last \in Seq(Operations)  BY <1>1, <2>1
    <3> QED  BY <3>1, Joined
  <2>3. /\ 1 \in 1..1 /\ 1 \in 1..3 /\ 2 \in 1..3 /\ 3 \in 1..3 /\ 3 + 1 = 4
    OBVIOUS
  <2>4. /\ m \in Seq(Operations) /\ Len(m) = 4
        /\ m[1] = inner[1] /\ m[2] = inner[2] /\ m[3] = inner[3] /\ m[3 + 1] = last[1]
    BY <1>1, <2>1, <2>2, <2>3
  <2> QED  BY <1>1, <1>2, <2>1, <2>3, <2>4
<1> HIDE DEF m
<1> USE DEF Op, LockOps, UnlockOps, Locks
<1>6. HeldAt(m, 1) = {}  BY HeldFirst
<1>7. HeldAt(m, 2) = {"mutex"}
  <2>1. HeldAt(m, 1 + 1) = HeldAt(m, 1) \cup {m[1].on}
    <3>1. m[1].op \in LockOps /\ m[1].on \in Locks  BY <1>5
    <3> QED  BY <3>1, HeldNext
  <2>2. 1 + 1 = 2  OBVIOUS
  <2> QED  BY <1>5, <1>6, <2>1, <2>2
<1>8. HeldAt(m, 3) = {"mutex", "mutex2"}
  <2>1. HeldAt(m, 2 + 1) = HeldAt(m, 2) \cup {m[2].on}
    <3>1. m[2].op \in LockOps /\ m[2].on \in Locks  BY <1>5
    <3> QED  BY <3>1, HeldNext
  <2>2. 2 + 1 = 3  OBVIOUS
  <2> QED  BY <1>5, <1>7, <2>1, <2>2
<1>9. HeldAt(m, 4) = {"mutex"}
  <2>1. HeldAt(m, 3 + 1) = HeldAt(m, 3) \ {m[3].on}  BY <1>5, HeldNext
  <2>2. 3 + 1 = 4  OBVIOUS
  <2> QED  BY <1>5, <1>8, <2>1, <2>2
<1>10. \A i \in 1..4 : i = 1 \/ i = 2 \/ i = 3 \/ i = 4  OBVIOUS
<1>11. \A i \in 1..Len(m) : WellLockedAt(m, i)
  BY <1>5, <1>6, <1>7, <1>8, <1>9, <1>10 DEF WellLockedAt, WakeOps
<1> QED  BY <1>3, <1>5, <1>11 DEF WellLocked

(* The methods of GCD/GCD that LockDemo models, and a thread without one. *)
SourceMethods ==
    {saleTicket, saveMoney, drawMoney, otherTest2, otherTest, recursiveTest, remove,
     one, two, three, << >>} \cup {add(wake) : wake \in WakeOps}

(* The methods of the source lock well, so the theorems are about them.    *)
THEOREM SourceMethodsLockWell == \A m \in SourceMethods : WellLocked(m)
<1>1. WellLocked(saleTicket) /\ WellLocked(saveMoney) /\ WellLocked(drawMoney)
  <2>1. /\ saleTicket = Locked(Guard("tickets"), Change("tickets", -1))
        /\ saveMoney = Locked(Guard("money"), Change("money", 50))
        /\ drawMoney = Locked(Guard("money"), Change("money", -50))
    BY DEF saleTicket, saveMoney, drawMoney, Guard
  <2>2. "tickets" \in CountNames /\ "money" \in CountNames
        /\ -1 \in Int /\ 50 \in Int /\ -50 \in Int
    BY DEF CountNames
  <2> QED  BY <2>1, <2>2, CountLocksWell DEF Repeats
<1>2. WellLocked(<< >>)
  <2>1. << >> \in Seq(Operations) /\ Len(<< >>) = 0  OBVIOUS
  <2> QED  BY <2>1 DEF WellLocked
<1> QED
  BY <1>1, <1>2, RecursiveLocksWell, DataLocksWell, TurnsLockWell, NestedLocksWell
  DEF SourceMethods

(* What can be repeated can be repeated after something that can.          *)
LEMMA InARow ==
    ASSUME NEW m, Repeats(m), NEW n, Repeats(n)
    PROVE  Repeats(m \o n)
<1> DEFINE c == m \o n
           M == Len(m)
           N == Len(n)
<1>0. WellLocked(m) /\ HeldAt(m, M + 1) = {} /\ WellLocked(n) /\ HeldAt(n, N + 1) = {}
      /\ (\A i \in 1..M : m[i].op /= "recurse") /\ \A i \in 1..N : n[i].op /= "recurse"
  BY DEF Repeats
<1>1. m \in Seq(Operations) /\ n \in Seq(Operations) /\ M \in Nat /\ N \in Nat
  BY <1>0 DEF WellLocked
<1>2. /\ c \in Seq(Operations) /\ Len(c) = M + N
      /\ \A i \in 1..M : c[i] = m[i]
      /\ \A i \in 1..N : c[M + i] = n[i]
  BY <1>1, ConcatProperties
<1>3. /\ \A i \in 1..M : WellLockedAt(m, i)
      /\ \A i \in 1..N : WellLockedAt(n, i)
      /\ HeldAt(m, M + 1) = {}
  BY <1>0 DEF WellLocked
<1> HIDE DEF c, M, N
<1>4. ASSUME NEW i \in 1..M + 1 PROVE HeldAt(c, i) = HeldAt(m, i)
  <2>1. \A j \in 1..i - 1 : c[j] = m[j]  BY <1>1, <1>2
  <2>2. \A j \in 1..i - 1 : \A k \in j + 1..i - 1 : c[k] = m[k]  BY <1>1, <1>2
  <2>3. \A l : l \in HeldAt(c, i) <=> l \in HeldAt(m, i)
    BY <2>1, <2>2 DEF HeldAt
  <2> QED  BY <2>3
<1>5. ASSUME NEW i \in 1..N + 1 PROVE HeldAt(c, M + i) = HeldAt(n, i)
  <2>1. ASSUME NEW l \in HeldAt(c, M + i) PROVE l \in HeldAt(n, i)
    <3>1. l \in Locks  BY HeldAreLocks
    <3> DEFINE b == M + i
    <3>0. l \in HeldAt(c, b)  OBVIOUS
    <3> HIDE DEF b
    <3>9. \E j \in 1..b - 1 :
             /\ c[j].op \in LockOps /\ c[j].on = l
             /\ \A k \in j + 1..b - 1 : ~(c[k].op \in UnlockOps /\ c[k].on = l)
      BY <3>0 DEF HeldAt
    <3>2. PICK j \in 1..b - 1 :
             /\ c[j].op \in LockOps /\ c[j].on = l
             /\ \A k \in j + 1..b - 1 : ~(c[k].op \in UnlockOps /\ c[k].on = l)
      BY <3>9
    <3>8. b = M + i /\ i \in 1..N + 1  BY DEF b
    <3>3. CASE j <= M
      <4>1. m[j].op \in LockOps /\ m[j].on = l /\ j \in 1..M + 1 - 1
        BY <1>1, <1>2, <3>2, <3>3, <3>8
      <4>2. \A k \in j + 1..M + 1 - 1 : ~(m[k].op \in UnlockOps /\ m[k].on = l)
        <5> SUFFICES ASSUME NEW k \in j + 1..M + 1 - 1
                     PROVE  ~(m[k].op \in UnlockOps /\ m[k].on = l)
          OBVIOUS
        <5>1. k \in 1..M /\ k \in j + 1..b - 1  BY <1>1, <3>3, <3>8
        <5> QED  BY <1>2, <3>2, <5>1
      <4> DEFINE e == M + 1
      <4>3. l \in HeldAt(m, e)
        <5>1. /\ j \in 1..e - 1 /\ m[j].op \in LockOps /\ m[j].on = l
              /\ \A k \in j + 1..e - 1 : ~(m[k].op \in UnlockOps /\ m[k].on = l)
          BY <1>1, <4>1, <4>2
        <5> HIDE DEF e
        <5> QED  BY <3>1, <5>1 DEF HeldAt
      <4> QED  BY <1>3, <4>3
    <3>4. CASE j > M
      <4> DEFINE q == j - M
      <4>1. q \in 1..i - 1 /\ M + q = j /\ q \in 1..N  BY <1>1, <3>4, <3>8
      <4>2. n[q].op \in LockOps /\ n[q].on = l  BY <1>2, <3>2, <4>1
      <4>3. \A k \in q + 1..i - 1 : ~(n[k].op \in UnlockOps /\ n[k].on = l)
        <5> SUFFICES ASSUME NEW k \in q + 1..i - 1
                     PROVE  ~(n[k].op \in UnlockOps /\ n[k].on = l)
          OBVIOUS
        <5>1. k \in 1..N /\ M + k \in j + 1..b - 1  BY <1>1, <3>4, <3>8
        <5> QED  BY <1>2, <3>2, <5>1
      <4> HIDE DEF q
      <4> QED  BY <3>1, <4>1, <4>2, <4>3 DEF HeldAt
    <3> QED  BY <1>1, <3>2, <3>3, <3>4, <3>8
  <2>2. ASSUME NEW l \in HeldAt(n, i) PROVE l \in HeldAt(c, M + i)
    <3>1. l \in Locks  BY HeldAreLocks
    <3>2. PICK j \in 1..i - 1 :
             /\ n[j].op \in LockOps /\ n[j].on = l
             /\ \A k \in j + 1..i - 1 : ~(n[k].op \in UnlockOps /\ n[k].on = l)
      BY DEF HeldAt
    <3>3. c[M + j].op \in LockOps /\ c[M + j].on = l /\ M + j \in 1..M + i - 1
      <4>1. j \in 1..N /\ M + j \in 1..M + i - 1  BY <1>1
      <4> QED  BY <1>2, <3>2, <4>1
    <3>4. \A k \in M + j + 1..M + i - 1 : ~(c[k].op \in UnlockOps /\ c[k].on = l)
      <4> SUFFICES ASSUME NEW k \in M + j + 1..M + i - 1
                   PROVE  ~(c[k].op \in UnlockOps /\ c[k].on = l)
        OBVIOUS
      <4> DEFINE q == k - M
      <4>1. q \in 1..N /\ q \in j + 1..i - 1 /\ M + q = k  BY <1>1
      <4> HIDE DEF q
      <4> QED  BY <1>2, <3>2, <4>1
    <3> DEFINE b == M + i
               x == M + j
    <3>5. x \in 1..b - 1 /\ c[x].op \in LockOps /\ c[x].on = l
          /\ \A k \in x + 1..b - 1 : ~(c[k].op \in UnlockOps /\ c[k].on = l)
      BY <1>1, <3>3, <3>4
    <3> HIDE DEF b, x
    <3>6. l \in HeldAt(c, b)  BY <3>1, <3>5 DEF HeldAt
    <3> QED  BY <3>6 DEF b
  <2> QED  BY <2>1, <2>2
<1>6. ASSUME NEW i \in 1..M PROVE WellLockedAt(c, i)
  <2>0. i \in 1..M + 1 /\ 1 \in 1..M  BY <1>1
  <2>1. WellLockedAt(m, i) /\ HeldAt(c, i) = HeldAt(m, i) /\ c[i] = m[i] /\ c[1] = m[1]
    BY <2>0, <1>2, <1>3, <1>4
  <2>2. i < M => i < Len(c) /\ c[i + 1] = m[i + 1]  BY <1>1, <1>2
  <2>3. i > 1 => c[i - 1] = m[i - 1]  BY <1>1, <1>2
  <2>4. m[i].op /= "recurse"  BY <1>0
  <2> QED  BY <2>1, <2>2, <2>3, <2>4 DEF WellLockedAt, M
<1>7. ASSUME NEW i \in 1..N PROVE WellLockedAt(c, M + i)
  <2> DEFINE k == M + i
  <2>1. WellLockedAt(n, i) /\ HeldAt(c, k) = HeldAt(n, i) /\ c[k] = n[i]
        /\ n[i].op /= "recurse"
    <3>1. i \in 1..N + 1  BY <1>1
    <3>2. HeldAt(c, M + i) = HeldAt(n, i) /\ c[M + i] = n[i]  BY <1>2, <1>5, <3>1
    <3>3. WellLockedAt(n, i) /\ n[i].op /= "recurse"  BY <1>0, <1>3
    <3> QED  BY <3>2, <3>3
  <2>2. i < N => k < Len(c) /\ c[k + 1] = n[i + 1]
    <3> SUFFICES ASSUME i < N PROVE k < Len(c) /\ c[k + 1] = n[i + 1]  OBVIOUS
    <3>4. M \in Nat /\ N \in Nat /\ i \in Nat /\ i >= 1  BY <1>1
    <3>5. i + 1 \in 1..N  BY <3>4
    <3>6. k + 1 = M + (i + 1)  BY <3>4
    <3>7. k < M + N  BY <3>4
    <3>1. i + 1 \in 1..N /\ k + 1 = M + (i + 1) /\ k < M + N
      BY <3>5, <3>6, <3>7
    <3> QED  BY <1>2, <3>1
  <2>3. i > 1 => k > 1 /\ c[k - 1] = n[i - 1]
    <3> SUFFICES ASSUME i > 1 PROVE k > 1 /\ c[k - 1] = n[i - 1]  OBVIOUS
    <3>1. i - 1 \in 1..N /\ k - 1 = M + (i - 1) /\ k > 1  BY <1>1
    <3> QED  BY <1>2, <3>1
  <2> HIDE DEF k
  <2>4. WellLockedAt(c, k)
    BY <2>1, <2>2, <2>3 DEF WellLockedAt, N
  <2> QED  BY <2>4 DEF k
<1>8. ASSUME NEW i \in 1..Len(c) PROVE WellLockedAt(c, i)
  <2>1. CASE i <= M  BY <1>1, <1>6, <2>1
  <2>2. CASE i > M
    <3>1. i - M \in 1..N /\ M + (i - M) = i  BY <1>1, <1>2, <2>2
    <3> QED  BY <1>7, <3>1
  <2> QED  BY <1>1, <2>1, <2>2
<1>9. HeldAt(c, Len(c) + 1) = HeldAt(n, N + 1)
  <2>1. N + 1 \in 1..N + 1 /\ M + N + 1 = M + (N + 1)  BY <1>1
  <2> QED  BY <1>2, <1>5, <2>1
<1>10. ASSUME NEW i \in 1..Len(c) PROVE c[i].op /= "recurse"
  <2>1. CASE i <= M  BY <1>0, <1>1, <1>2, <2>1
  <2>2. CASE i > M
    <3>1. i - M \in 1..N /\ M + (i - M) = i  BY <1>1, <1>2, <2>2
    <3>2. c[M + (i - M)] = n[i - M]  BY <1>2, <3>1
    <3> QED  BY <1>0, <3>1, <3>2
  <2> QED  BY <1>1, <1>2, <2>1, <2>2
<1>11. WellLocked(c)  BY <1>2, <1>8 DEF WellLocked
<1>12. Repeats(c)  BY <1>0, <1>9, <1>10, <1>11 DEF Repeats
<1> QED  BY <1>12 DEF c

(* The loops of ticketTest and moneyTest: a sale, a saving or a drawing    *)
(* locks well, and still does after another one has been added to it, so   *)
(* that the loops do for every number of rounds.                           *)
THEOREM LoopsLockWell ==
    \A n \in {saleTicket, saveMoney, drawMoney} :
       Repeats(n) /\ \A m : Repeats(m) => Repeats(m \o n)
<1>1. /\ saleTicket = Locked(Guard("tickets"), Change("tickets", -1))
      /\ saveMoney = Locked(Guard("money"), Change("money", 50))
      /\ drawMoney = Locked(Guard("money"), Change("money", -50))
  BY DEF saleTicket, saveMoney, drawMoney, Guard
<1>2. "tickets" \in CountNames /\ "money" \in CountNames
      /\ -1 \in Int /\ 50 \in Int /\ -50 \in Int
  BY DEF CountNames
<1>3. Repeats(saleTicket) /\ Repeats(saveMoney) /\ Repeats(drawMoney)
  BY <1>1, <1>2, CountLocksWell
<1> QED  BY <1>3, InARow

=============================================================================
