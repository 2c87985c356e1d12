------------------------- MODULE DispatchOnceProofs -------------------------
(* Theorems about DispatchOnce, for every set of threads and every bound   *)
(* on the generations.                                                     *)
EXTENDS DispatchOnce, TLAPS

(* The thread that entered the gate, until its exchange. *)
Owning == {"callout", "quiescing", "broadcast"}

(* What the token says of the threads. *)
GateInv ==
    /\ dgo_once.state = "unlocked" =>
          /\ dgo_once = DLOCK_ONCE_UNLOCKED
          /\ \A t \in Threads : pc[t] \in {"idle", "load", "tryenter"}
    /\ dgo_once.state = "locked" =>
          /\ dgo_once.owner \in Threads
          /\ dgo_once = Locked(dgo_once.owner, dgo_once.waiters)
          /\ pc[dgo_once.owner] \in Owning
          /\ \A t \in Threads : pc[t] \notin {"wake", "mark", "returned"}
          /\ \A t \in Threads : pc[t] = "asleep" => dgo_once.waiters
    /\ dgo_once.state = "gen" => dgo_once = Quiescing(dgo_once.gen)
    /\ dgo_once.state = "done" => dgo_once = DLOCK_ONCE_DONE
    /\ dgo_once.state \in {"gen", "done"} =>
          \A t \in Threads : pc[t] = "asleep" => \E s \in Threads : pc[s] = "wake"
    /\ \A t \in Threads : pc[t] \in Owning => dgo_once.state = "locked" /\ dgo_once.owner = t
    /\ \A t \in Threads : pc[t] = "broadcast" => v[t] = Quiescing(v[t].gen)
    /\ \A t \in Threads : pc[t] \in {"sleep", "asleep"} =>
          v[t].state = "locked" /\ v[t].waiters

(* How often the block has run. *)
RunsInv ==
    runs = IF \/ dgo_once.state = "unlocked"
              \/ dgo_once.state = "locked" /\ pc[dgo_once.owner] = "callout"
             THEN 0 ELSE 1

(* Lemma 1 of shims/lock.h: two values of the counter between two context  *)
(* switches.                                                               *)
TwoGenerations ==
    \A t \in Threads :
       /\ zone[t] <= generation /\ generation <= zone[t] + 1
       /\ t \in mask => zone[t] = generation

(* Lemma 2, for the block's writes and a generation e of the token: who    *)
(* does not see them has not moved on by two.                              *)
Behind(e) ==
    \E g \in 0..generation :
       /\ e = DISPATCH_ONCE_MAKE_GEN(g)
       /\ \A t \in Threads : sees[t] \/ zone[t] <= g + 1
       /\ maskSees \/ \E t \in Threads : sees[t] /\ zone[t] <= g

SeesInv ==
    /\ dgo_once.state = "gen" => Behind(dgo_once.gen)
    /\ dgo_once.state = "done" => \A t \in Threads : sees[t]
    /\ \A t \in Threads :
          /\ pc[t] = "broadcast" => Behind(v[t].gen)
          /\ pc[t] \in {"quiescing", "broadcast", "wake", "mark", "returned"} => sees[t]
          /\ pc[t] = "mark" =>
                /\ dgo_once.state = "gen" => v[t].gen = dgo_once.gen
                /\ DISPATCH_ONCE_MAKE_GEN(zone[t]) >= v[t].gen

Inv == TypeOK /\ GateInv /\ RunsInv /\ TwoGenerations /\ SeesInv /\ OwnerKept

-----------------------------------------------------------------------------
(* The steps of a live process, one thread at a time. *)
Action(t) ==
    \/ FastPath(t) \/ Call(t) \/ LoadDone(t) \/ LoadGen(t) \/ LoadOther(t)
    \/ TryEnter(t) \/ Callout(t) \/ Recurse(t) \/ ReadGeneration(t)
    \/ Broadcast(t) \/ Wake(t) \/ WaitDone(t) \/ WaitGen(t) \/ WaitBit(t)
    \/ Sleep(t) \/ SleepEnds(t) \/ MarkDone(t) \/ Return(t) \/ ContextSwitch(t)

(* A step is an action of one thread, or changes nothing. *)
LEMMA StepCases ==
    ASSUME [Next]_vars
    PROVE  \/ life = "live" /\ \E t \in Threads : Action(t)
           \/ UNCHANGED vars
BY DEF Next, Step, Action

Tokens == [state : {"unlocked", "locked", "gen", "done"},
           owner : Threads \cup {NULL}, waiters : BOOLEAN, gen : Nat]

(* Every variable keeps its type. *)
LEMMA NextType ==
    ASSUME TypeOK, NEW t \in Threads, Action(t)
    PROVE  TypeOK'
<1> USE OnceAssumption DEF TypeOK, memory, Goto, PCs
<1>1. CASE FastPath(t) BY <1>1 DEF FastPath
<1>2. CASE Call(t) BY <1>2 DEF Call
<1>3. CASE LoadDone(t) BY <1>3 DEF LoadDone
<1>4. CASE LoadGen(t) BY <1>4 DEF LoadGen, Acquire, Observable
<1>5. CASE LoadOther(t) BY <1>5 DEF LoadOther
<1>6. CASE TryEnter(t)
  <2>1. Locked(t, FALSE) \in Tokens BY DEF Locked, Token, Tokens
  <2> QED BY <1>6, <2>1 DEF TryEnter, Tokens
<1>7. CASE Callout(t) BY <1>7 DEF Callout
<1>8. CASE Recurse(t)
  <2>1. Locked(dgo_once.owner, TRUE) \in Tokens BY DEF Locked, Token, Tokens
  <2> QED BY <1>8, <2>1 DEF Recurse, Tokens
<1>9. CASE ReadGeneration(t)
  BY <1>9 DEF ReadGeneration, Observable, Quiescing, Token, DISPATCH_ONCE_MAKE_GEN
<1>10. CASE Broadcast(t) BY <1>10 DEF Broadcast
<1>11. CASE Wake(t) BY <1>11 DEF Wake
<1>12. CASE WaitDone(t) BY <1>12 DEF WaitDone
<1>13. CASE WaitGen(t) BY <1>13 DEF WaitGen, Acquire, Observable
<1>14. CASE WaitBit(t)
  <2>1. Locked(dgo_once.owner, TRUE) \in Tokens BY DEF Locked, Token, Tokens
  <2> QED BY <1>14, <2>1 DEF WaitBit, Tokens
<1>15. CASE Sleep(t) BY <1>15 DEF Sleep
<1>16. CASE SleepEnds(t) BY <1>16 DEF SleepEnds
<1>17. CASE MarkDone(t) BY <1>17 DEF MarkDone, DLOCK_ONCE_DONE, Token
<1>18. CASE Return(t) BY <1>18 DEF Return, DLOCK_ONCE_UNLOCKED, Token
<1>19. CASE ContextSwitch(t) BY <1>19 DEF ContextSwitch
<1> QED
  BY <1>1, <1>2, <1>3, <1>4, <1>5, <1>6, <1>7, <1>8, <1>9, <1>10, <1>11, <1>12,
     <1>13, <1>14, <1>15, <1>16, <1>17, <1>18, <1>19 DEF Action

(* The token and the positions of the threads stay in step. *)
LEMMA NextGate ==
    ASSUME TypeOK, GateInv, NEW t \in Threads, Action(t)
    PROVE  GateInv' /\ (OwnerKept => OwnerKept')
<1> USE OnceAssumption DEF TypeOK, GateInv, Goto, PCs, Owning, OwnerKept, Token, Locked,
        Quiescing, DLOCK_ONCE_UNLOCKED, DLOCK_ONCE_DONE
<1>1. CASE FastPath(t) BY <1>1 DEF FastPath
<1>2. CASE Call(t) BY <1>2 DEF Call
<1>3. CASE LoadDone(t) BY <1>3 DEF LoadDone
<1>4. CASE LoadGen(t) BY <1>4 DEF LoadGen
<1>5. CASE LoadOther(t) BY <1>5 DEF LoadOther
<1>6. CASE TryEnter(t)
  <2>1. CASE dgo_once = DLOCK_ONCE_UNLOCKED
    <3>1. /\ dgo_once' = Locked(t, FALSE)
          /\ pc' = [pc EXCEPT ![t] = "callout"] /\ v' = v /\ life' = life
      BY <1>6, <2>1 DEF TryEnter
    <3>2. /\ dgo_once'.state = "locked" /\ dgo_once'.owner = t
          /\ dgo_once'.waiters = FALSE /\ dgo_once' = Locked(dgo_once'.owner, dgo_once'.waiters)
      BY <3>1
    <3>3. \A s \in Threads : pc[s] \in {"idle", "load", "tryenter"}
      BY <2>1
    <3> HIDE DEF Locked
    <3> QED BY <3>1, <3>2, <3>3, ZenonT(60)
  <2>2. CASE dgo_once /= DLOCK_ONCE_UNLOCKED
    <3>1. /\ dgo_once.state /= "unlocked" /\ pc[t] = "tryenter"
          /\ pc' = [pc EXCEPT ![t] = "wait"]
          /\ UNCHANGED <<dgo_once, v, life>>
      BY <1>6, <2>2 DEF TryEnter
    <3> HIDE DEF Locked, Quiescing, DLOCK_ONCE_UNLOCKED, DLOCK_ONCE_DONE
    <3> QED BY <3>1
  <2> QED BY <2>1, <2>2
<1>7. CASE Callout(t) BY <1>7 DEF Callout
<1>8. CASE Recurse(t)
  <2>1. dgo_once.state = "locked" /\ dgo_once.owner = t BY <1>8 DEF Recurse
  <2>2. /\ dgo_once'.state = "locked" /\ dgo_once'.owner = t /\ dgo_once'.waiters
        /\ dgo_once' = Locked(dgo_once'.owner, dgo_once'.waiters)
    <3> HIDE DEF Locked
    <3>1. dgo_once' = Locked(dgo_once.owner, TRUE) BY <1>8 DEF Recurse
    <3>2. /\ dgo_once'.state = "locked" /\ dgo_once'.owner = dgo_once.owner
          /\ dgo_once'.waiters = TRUE
      BY <3>1 DEF Locked, Token
    <3> QED BY <2>1, <3>1, <3>2
  <2>3. pc' = pc /\ v' = v /\ life' = "recursive" BY <1>8 DEF Recurse
  <2> HIDE DEF Locked
  <2> QED BY <2>1, <2>2, <2>3
<1>9. CASE ReadGeneration(t)
  <2>1. PICK g \in Observable(t) :
           v' = [v EXCEPT ![t] = Quiescing(DISPATCH_ONCE_MAKE_GEN(g))]
    BY <1>9 DEF ReadGeneration
  <2>2. v'[t] = Quiescing(v'[t].gen) BY <2>1
  <2>3. \A s \in Threads \ {t} : v'[s] = v[s] BY <2>1
  <2>4. /\ pc[t] = "quiescing" /\ pc' = [pc EXCEPT ![t] = "broadcast"]
        /\ UNCHANGED <<dgo_once, life>>
    BY <1>9 DEF ReadGeneration
  <2> HIDE DEF Quiescing
  <2> QED BY <2>2, <2>3, <2>4
<1>10. CASE Broadcast(t) BY <1>10 DEF Broadcast
<1>11. CASE Wake(t) BY <1>11 DEF Wake
<1>12. CASE WaitDone(t) BY <1>12 DEF WaitDone
<1>13. CASE WaitGen(t) BY <1>13 DEF WaitGen
<1>14. CASE WaitBit(t)
  <2>1. /\ dgo_once.state = "locked" /\ pc[t] = "wait"
        /\ pc' = [pc EXCEPT ![t] = "sleep"] /\ life' = life
        /\ v' = [v EXCEPT ![t] = dgo_once']
    BY <1>14 DEF WaitBit
  <2>2. /\ dgo_once'.state = "locked" /\ dgo_once'.owner = dgo_once.owner
        /\ dgo_once'.waiters
        /\ dgo_once' = Locked(dgo_once'.owner, dgo_once'.waiters)
    <3> HIDE DEF Locked
    <3>1. dgo_once' = Locked(dgo_once.owner, TRUE) BY <1>14 DEF WaitBit
    <3>2. /\ dgo_once'.state = "locked" /\ dgo_once'.owner = dgo_once.owner
          /\ dgo_once'.waiters = TRUE
      BY <3>1 DEF Locked, Token
    <3> QED BY <2>1, <3>1, <3>2
  <2>3. v'[t] = dgo_once' /\ \A s \in Threads \ {t} : v'[s] = v[s] BY <2>1
  <2> HIDE DEF Locked
  <2> QED BY <2>1, <2>2, <2>3, ZenonT(60)
<1>15. CASE Sleep(t) BY <1>15 DEF Sleep
<1>16. CASE SleepEnds(t) BY <1>16 DEF SleepEnds
<1>17. CASE MarkDone(t) BY <1>17 DEF MarkDone
<1>18. CASE Return(t) BY <1>18 DEF Return
<1>19. CASE ContextSwitch(t) BY <1>19 DEF ContextSwitch
<1> QED
  BY <1>1, <1>2, <1>3, <1>4, <1>5, <1>6, <1>7, <1>8, <1>9, <1>10, <1>11, <1>12,
     <1>13, <1>14, <1>15, <1>16, <1>17, <1>18, <1>19 DEF Action

(* The block runs once. *)
LEMMA NextRuns ==
    ASSUME TypeOK, GateInv, RunsInv, GateInv', NEW t \in Threads, Action(t)
    PROVE  RunsInv'
<1> USE OnceAssumption DEF TypeOK, GateInv, RunsInv, Goto, PCs, Owning
<1>1. CASE FastPath(t) BY <1>1 DEF FastPath
<1>2. CASE Call(t) BY <1>2 DEF Call
<1>3. CASE LoadDone(t) BY <1>3 DEF LoadDone
<1>4. CASE LoadGen(t) BY <1>4 DEF LoadGen
<1>5. CASE LoadOther(t) BY <1>5 DEF LoadOther
<1>6. CASE TryEnter(t) BY <1>6 DEF TryEnter, Locked, Token, DLOCK_ONCE_UNLOCKED
<1>7. CASE Callout(t) BY <1>7 DEF Callout
<1>8. CASE Recurse(t) BY <1>8 DEF Recurse, Locked, Token
<1>9. CASE ReadGeneration(t) BY <1>9 DEF ReadGeneration
<1>10. CASE Broadcast(t)
  <2>1. pc[t] = "broadcast" /\ dgo_once' = v[t] BY <1>10 DEF Broadcast
  <2>2. dgo_once'.state = "gen" BY <2>1 DEF Quiescing, Token
  <2>3. runs' = runs BY <1>10 DEF Broadcast
  <2> QED BY <2>1, <2>2, <2>3
<1>11. CASE Wake(t) BY <1>11 DEF Wake
<1>12. CASE WaitDone(t) BY <1>12 DEF WaitDone
<1>13. CASE WaitGen(t) BY <1>13 DEF WaitGen
<1>14. CASE WaitBit(t) BY <1>14 DEF WaitBit, Locked, Token
<1>15. CASE Sleep(t) BY <1>15 DEF Sleep
<1>16. CASE SleepEnds(t) BY <1>16 DEF SleepEnds
<1>17. CASE MarkDone(t) BY <1>17 DEF MarkDone, DLOCK_ONCE_DONE, Token
<1>18. CASE Return(t) BY <1>18 DEF Return
<1>19. CASE ContextSwitch(t) BY <1>19 DEF ContextSwitch
<1> QED
  BY <1>1, <1>2, <1>3, <1>4, <1>5, <1>6, <1>7, <1>8, <1>9, <1>10, <1>11, <1>12,
     <1>13, <1>14, <1>15, <1>16, <1>17, <1>18, <1>19 DEF Action

(* Nobody is more than one generation behind: the counter is incremented   *)
(* by the last CPU to switch, so all others have been at its old value.    *)
LEMMA NextZones ==
    ASSUME TypeOK, TwoGenerations, NEW t \in Threads, Action(t)
    PROVE  TwoGenerations'
<1> USE DEF TypeOK, TwoGenerations
<1>1. CASE UNCHANGED <<generation, mask, zone>>
  BY <1>1
<1>2. ASSUME NEW tok, Acquire(t, tok)
      PROVE  TwoGenerations'
  BY <1>2 DEF Acquire, Observable
<1>3. CASE ContextSwitch(t)
  <2>1. CASE mask \cup {t} = Threads
    BY <1>3, <2>1 DEF ContextSwitch
  <2>2. CASE mask \cup {t} /= Threads
    BY <1>3, <2>2 DEF ContextSwitch
  <2> QED BY <2>1, <2>2
<1>4. CASE LoadGen(t) \/ WaitGen(t)
  BY <1>2, <1>4 DEF LoadGen, WaitGen
<1> QED
  BY <1>1, <1>3, <1>4
  DEF Action, memory, FastPath, Call, LoadDone, LoadOther, TryEnter, Callout, Recurse,
      ReadGeneration, Broadcast, Wake, WaitDone, WaitBit, Sleep, SleepEnds, MarkDone,
      Return

(* A context switch keeps Lemma 2: as long as the mask does not carry the  *)
(* writes, the thread that made them holds the counter back.               *)
LEMMA BehindSwitch ==
    ASSUME TypeOK, TwoGenerations, NEW e \in Nat, Behind(e),
           NEW t \in Threads, ContextSwitch(t)
    PROVE  Behind(e)'
<1> USE DEF TypeOK, TwoGenerations
<1>1. PICK g \in 0..generation :
         /\ e = DISPATCH_ONCE_MAKE_GEN(g)
         /\ \A s \in Threads : sees[s] \/ zone[s] <= g + 1
         /\ maskSees \/ \E s \in Threads : sees[s] /\ zone[s] <= g
  BY DEF Behind
<1> DEFINE gen == IF mask \cup {t} = Threads THEN generation + 1 ELSE generation
<1>2. /\ generation' = gen /\ zone' = [zone EXCEPT ![t] = gen]
      /\ maskSees' = (maskSees \/ sees[t])
      /\ sees' = [sees EXCEPT ![t] = maskSees \/ sees[t]]
  BY DEF ContextSwitch
<1>3. g \in 0..generation' BY <1>2
<1>4. CASE maskSees
  <2>1. \A s \in Threads : sees'[s] \/ zone'[s] <= g + 1 BY <1>1, <1>2, <1>4
  <2>2. maskSees' BY <1>2, <1>4
  <2> QED BY <1>1, <1>3, <2>1, <2>2 DEF Behind
<1>5. CASE ~maskSees
  <2>1. PICK a \in Threads : sees[a] /\ zone[a] <= g BY <1>1, <1>5
  <2>2. CASE t = a
    <3>1. maskSees' /\ \A s \in Threads : sees'[s] \/ zone'[s] <= g + 1
      BY <1>1, <1>2, <2>1, <2>2
    <3> QED BY <1>1, <1>3, <3>1 DEF Behind
  <2>3. CASE t /= a
    <3>1. gen <= g + 1 BY <2>1, <2>3
    <3>2. \A s \in Threads : sees'[s] \/ zone'[s] <= g + 1
      BY <1>1, <1>2, <3>1
    <3>3. sees'[a] /\ zone'[a] <= g BY <1>2, <2>1, <2>3
    <3> QED BY <1>1, <1>3, <3>2, <3>3 DEF Behind
  <2> QED BY <2>2, <2>3
<1> QED BY <1>4, <1>5

(* A thread that acquires the token's generation moves up to it at most. *)
LEMMA BehindAcquire ==
    ASSUME TypeOK, NEW e \in Nat, Behind(e),
           NEW t \in Threads, NEW tok, tok.gen = e, Acquire(t, tok)
    PROVE  Behind(e)'
<1> USE DEF TypeOK
<1>1. PICK g \in 0..generation :
         /\ e = DISPATCH_ONCE_MAKE_GEN(g)
         /\ \A s \in Threads : sees[s] \/ zone[s] <= g + 1
         /\ maskSees \/ \E s \in Threads : sees[s] /\ zone[s] <= g
  BY DEF Behind
<1>2. PICK h \in Observable(t) :
         /\ h = zone[t] \/ DISPATCH_ONCE_MAKE_GEN(h) = e
         /\ zone' = [zone EXCEPT ![t] = h]
  BY DEF Acquire
<1>3. /\ sees' = [sees EXCEPT ![t] = TRUE]
      /\ generation' = generation /\ maskSees' = maskSees
  BY DEF Acquire
<1>4. h = zone[t] \/ h = g
  BY <1>1, <1>2 DEF Observable, DISPATCH_ONCE_MAKE_GEN
<1>5. \A s \in Threads : sees'[s] \/ zone'[s] <= g + 1 BY <1>1, <1>2, <1>3
<1>6. \A s \in Threads : sees[s] /\ zone[s] <= g => sees'[s] /\ zone'[s] <= g
  BY <1>1, <1>2, <1>3, <1>4
<1> QED BY <1>1, <1>3, <1>5, <1>6 DEF Behind

(* What is released or observed stays so: every action keeps SeesInv. *)
LEMMA NextSees ==
    ASSUME TypeOK, GateInv, TwoGenerations, SeesInv, NEW t \in Threads, Action(t)
    PROVE  SeesInv'
<1> USE DEF TypeOK, Goto, PCs
<1>1. ASSUME UNCHANGED memory, UNCHANGED dgo_once,
             \A s \in Threads : pc'[s] \in {"broadcast", "mark"} => pc'[s] = pc[s] /\ v'[s] = v[s],
             \A s \in Threads : pc'[s] \in {"quiescing", "wake", "returned"} =>
                pc'[s] = pc[s] \/ sees[s]
      PROVE  SeesInv'
  BY <1>1 DEF SeesInv, Behind, memory
<1>2. CASE FastPath(t) \/ LoadDone(t) \/ WaitDone(t)
  <2>1. sees[t] BY <1>2 DEF FastPath, LoadDone, WaitDone, SeesInv, DLOCK_ONCE_DONE, Token
  <2> QED BY <1>1, <1>2, <2>1 DEF FastPath, LoadDone, WaitDone
<1>3. CASE Call(t) \/ LoadOther(t) \/ Sleep(t) \/ SleepEnds(t)
  BY <1>1, <1>3 DEF Call, LoadOther, Sleep, SleepEnds
<1>4. CASE Wake(t)
  <2>1. sees[t] BY <1>4 DEF Wake, SeesInv
  <2> QED BY <1>1, <1>4, <2>1 DEF Wake
<1>5. CASE Return(t)
  BY <1>1, <1>5 DEF Return
<1>6. ASSUME UNCHANGED memory, dgo_once'.state = "locked",
             \A s \in Threads : pc'[s] \notin {"mark", "returned", "wake"},
             \A s \in Threads : pc'[s] \in {"quiescing", "broadcast"} =>
                pc'[s] = pc[s] /\ v'[s] = v[s]
      PROVE  SeesInv'
  BY <1>6 DEF SeesInv, Behind, memory
<1>7. CASE TryEnter(t)
  <2>1. CASE dgo_once = DLOCK_ONCE_UNLOCKED
    <3>1. \A s \in Threads : pc[s] \in {"idle", "load", "tryenter"}
      BY <2>1 DEF GateInv, DLOCK_ONCE_UNLOCKED, Token
    <3> QED BY <1>6, <1>7, <2>1, <3>1 DEF TryEnter, Locked, Token
  <2>2. CASE dgo_once /= DLOCK_ONCE_UNLOCKED
    BY <1>1, <1>7, <2>2 DEF TryEnter
  <2> QED BY <2>1, <2>2
<1>8. CASE Recurse(t)
  <2>1. dgo_once.state = "locked" /\ dgo_once'.state = "locked"
    BY <1>8 DEF Recurse, GateInv, Owning, Locked, Token
  <2>2. pc' = pc /\ v' = v /\ UNCHANGED memory BY <1>8 DEF Recurse
  <2> QED BY <1>6, <2>1, <2>2 DEF GateInv
<1>9. CASE WaitBit(t)
  <2>1. dgo_once.state = "locked" /\ dgo_once'.state = "locked"
    BY <1>9 DEF WaitBit, Locked, Token
  <2>2. /\ pc' = [pc EXCEPT ![t] = "sleep"] /\ UNCHANGED memory
        /\ \A s \in Threads \ {t} : v'[s] = v[s]
    BY <1>9 DEF WaitBit
  <2> QED BY <1>6, <2>1, <2>2 DEF GateInv
<1>10. CASE Callout(t)
  <2>1. /\ dgo_once.state = "locked" /\ dgo_once.owner = t /\ dgo_once' = dgo_once
        /\ sees' = [sees EXCEPT ![t] = TRUE] /\ pc' = [pc EXCEPT ![t] = "quiescing"]
    BY <1>10 DEF Callout, GateInv, Owning
  <2>2. \A s \in Threads : pc[s] \notin {"broadcast", "quiescing", "wake", "mark", "returned"} \/ s = t
    BY <2>1 DEF GateInv, Owning
  <2>3. \A s \in Threads : pc'[s] \in {"broadcast", "quiescing", "wake", "mark", "returned"}
                              => s = t /\ pc'[s] = "quiescing"
    BY <2>1, <2>2
  <2>4. sees'[t] = TRUE BY <2>1
  <2> QED BY <2>1, <2>3, <2>4 DEF SeesInv
<1>11. CASE ReadGeneration(t)
  <2>1. PICK g \in Observable(t) :
           v' = [v EXCEPT ![t] = Quiescing(DISPATCH_ONCE_MAKE_GEN(g))]
    BY <1>11 DEF ReadGeneration
  <2>2. /\ pc[t] = "quiescing" /\ pc' = [pc EXCEPT ![t] = "broadcast"]
        /\ UNCHANGED dgo_once /\ UNCHANGED memory
    BY <1>11 DEF ReadGeneration
  <2>3. v'[t].gen = DISPATCH_ONCE_MAKE_GEN(g) BY <2>1 DEF Quiescing, Token
  <2>4. sees[t] BY <2>2 DEF SeesInv
  <2>5. g \in 0..generation /\ zone[t] <= g BY <2>1 DEF Observable
  <2>6. \A s \in Threads : zone[s] <= g + 1 BY <2>5 DEF TwoGenerations
  <2>7. Behind(v[t].gen)'
    BY <2>2, <2>3, <2>4, <2>5, <2>6 DEF Behind, memory
  <2>8. dgo_once.state = "locked" /\ \A s \in Threads \ {t} : pc[s] \notin {"broadcast", "wake", "mark", "returned"}
    BY <2>2 DEF GateInv, Owning
  <2>9. \A s \in Threads : pc'[s] \in {"broadcast", "wake", "mark", "returned"}
                              => s = t /\ pc'[s] = "broadcast"
    BY <2>2, <2>8
  <2>10. \A s \in Threads : pc'[s] = "quiescing" => sees'[s]
    BY <2>2 DEF SeesInv, memory
  <2>11. sees'[t] BY <2>2, <2>4 DEF memory
  <2> QED BY <2>2, <2>7, <2>8, <2>9, <2>10, <2>11 DEF SeesInv
<1>12. CASE Broadcast(t)
  <2>1. pc[t] = "broadcast" /\ dgo_once' = v[t] /\ v' = v /\ UNCHANGED memory
    BY <1>12 DEF Broadcast
  <2>2. sees[t] /\ Behind(v[t].gen) BY <2>1 DEF SeesInv
  <2>3. dgo_once'.state = "gen" BY <2>1 DEF GateInv, Quiescing, Token
  <2>4. Behind(dgo_once.gen)' BY <2>1, <2>2 DEF Behind, memory
  <2>5. Behind(v[t].gen)' BY <2>1, <2>2 DEF Behind, memory
  <2>6. dgo_once.state = "locked" /\ dgo_once.owner = t BY <2>1 DEF GateInv, Owning
  <2>7. \A s \in Threads \ {t} : pc[s] \notin {"broadcast", "quiescing", "wake", "mark", "returned"}
    BY <2>6 DEF GateInv, Owning
  <2>8. pc' = pc \/ \E q \in {"returned", "wake"} : pc' = [pc EXCEPT ![t] = q]
    BY <1>12 DEF Broadcast
  <2>9. /\ \A s \in Threads : pc'[s] /= "mark"
        /\ \A s \in Threads : pc'[s] \in {"broadcast", "quiescing", "wake", "returned"} => s = t
    BY <2>1, <2>7, <2>8
  <2>10. sees'[t] BY <2>1, <2>2 DEF memory
  <2> QED BY <2>3, <2>4, <2>5, <2>9, <2>10 DEF SeesInv
<1>13. CASE LoadGen(t) \/ WaitGen(t)
  <2>1. /\ dgo_once.state = "gen" /\ dgo_once' = dgo_once
        /\ pc' = [pc EXCEPT ![t] = "mark"] /\ v' = [v EXCEPT ![t] = dgo_once]
        /\ Acquire(t, dgo_once)
    BY <1>13 DEF LoadGen, WaitGen
  <2>2. PICK e \in Nat : e = dgo_once.gen OBVIOUS
  <2>3. Behind(e) BY <2>1, <2>2 DEF SeesInv
  <2>4. Behind(e)' BY <2>1, <2>2, <2>3, BehindAcquire
  <2>5. Behind(dgo_once.gen)' BY <2>1, <2>2, <2>4 DEF Behind
  <2>6. PICK h \in Observable(t) :
           /\ DISPATCH_ONCE_MAKE_GEN(h) >= dgo_once.gen /\ zone' = [zone EXCEPT ![t] = h]
    BY <2>1 DEF Acquire
  <2>7. sees' = [sees EXCEPT ![t] = TRUE] BY <2>1 DEF Acquire
  <2>8. \A s \in Threads : pc[s] /= "broadcast" BY <2>1 DEF GateInv, Owning
  <2>9. \A s \in Threads \ {t} : sees'[s] = sees[s] /\ zone'[s] = zone[s] /\ v'[s] = v[s] /\ pc'[s] = pc[s]
    BY <2>1, <2>6, <2>7
  <2>10. sees'[t] = TRUE /\ zone'[t] = h /\ v'[t] = dgo_once /\ pc'[t] = "mark"
    BY <2>1, <2>6, <2>7
  <2> QED BY <2>1, <2>5, <2>6, <2>8, <2>9, <2>10 DEF SeesInv
<1>14. CASE MarkDone(t)
  <2>1. /\ pc[t] = "mark" /\ pc' = [pc EXCEPT ![t] = "returned"]
        /\ v' = v /\ UNCHANGED memory
    BY <1>14 DEF MarkDone
  <2>2. PICK h \in Observable(t) :
           dgo_once' = IF Quiesced(DISPATCH_ONCE_MAKE_GEN(h), v[t].gen)
                         THEN DLOCK_ONCE_DONE ELSE dgo_once
    BY <1>14 DEF MarkDone
  <2>3. sees[t] BY <2>1 DEF SeesInv
  <2>4. CASE dgo_once' = dgo_once BY <1>1, <2>1, <2>3, <2>4
  <2>5. CASE dgo_once' /= dgo_once
    <3>1. dgo_once' = DLOCK_ONCE_DONE /\ Quiesced(DISPATCH_ONCE_MAKE_GEN(h), v[t].gen)
      BY <2>2, <2>5
    <3>2. dgo_once'.state = "done" BY <3>1 DEF DLOCK_ONCE_DONE, Token
    <3>3. \A s \in Threads : pc[s] \notin Owning
      BY <2>1 DEF GateInv
    <3>4. dgo_once.state = "gen" \/ dgo_once.state = "done"
      BY <2>1 DEF GateInv
    <3>5. \A s \in Threads : sees[s]
      <4>1. CASE dgo_once.state = "done" BY <4>1 DEF SeesInv
      <4>2. CASE dgo_once.state = "gen"
        <5>1. Behind(dgo_once.gen) /\ v[t].gen = dgo_once.gen
          BY <2>1, <4>2 DEF SeesInv
        <5>2. PICK g \in 0..generation :
                 /\ v[t].gen = DISPATCH_ONCE_MAKE_GEN(g)
                 /\ \A s \in Threads : sees[s] \/ zone[s] <= g + 1
          BY <5>1 DEF Behind
        <5>3. DISPATCH_ONCE_MAKE_GEN(zone[t]) >= v[t].gen BY <2>1 DEF SeesInv
        <5>4. h \in zone[t]..generation BY <2>2 DEF Observable
        <5>5. h - g >= 4
          BY <3>1, <5>2, <5>3, <5>4
          DEF Quiesced, DISPATCH_ONCE_MAKE_GEN, DISPATCH_ONCE_GEN_SAFE_DELTA
        <5>6. \A s \in Threads : zone[s] > g + 1 BY <5>4, <5>5 DEF TwoGenerations
        <5> QED BY <5>2, <5>6
      <4> QED BY <3>4, <4>1, <4>2
    <3>6. sees' = sees /\ zone' = zone BY <2>1 DEF memory
    <3>7. \A s \in Threads : pc'[s] /= "broadcast" /\ (pc'[s] = "mark" => pc[s] = "mark")
      BY <2>1, <3>3 DEF Owning
    <3> QED BY <2>1, <3>2, <3>5, <3>6, <3>7 DEF SeesInv
  <2> QED BY <2>4, <2>5
<1>15. CASE ContextSwitch(t)
  <2>1. dgo_once' = dgo_once /\ pc' = pc /\ v' = v BY <1>15 DEF ContextSwitch
  <2>2. \A s \in Threads : sees[s] => sees'[s]
    BY <1>15 DEF ContextSwitch
  <2>3. \A s \in Threads : zone'[s] >= zone[s]
    BY <1>15 DEF ContextSwitch, TwoGenerations
  <2>4. ASSUME NEW e \in Nat, Behind(e) PROVE Behind(e)'
    BY <1>15, <2>4, BehindSwitch
  <2>5. dgo_once.state = "gen" => Behind(dgo_once.gen)'
    <3>1. SUFFICES ASSUME dgo_once.state = "gen" PROVE Behind(dgo_once.gen)' OBVIOUS
    <3>2. PICK e \in Nat : e = dgo_once.gen OBVIOUS
    <3>3. Behind(e)' BY <2>4, <3>1, <3>2 DEF SeesInv
    <3> QED BY <2>1, <3>2, <3>3 DEF Behind
  <2>6. ASSUME NEW s \in Threads, pc[s] = "broadcast" PROVE Behind(v[s].gen)'
    <3>1. PICK e \in Nat : e = v[s].gen OBVIOUS
    <3>2. Behind(e)' BY <2>4, <2>6, <3>1 DEF SeesInv
    <3> QED BY <2>1, <3>1, <3>2 DEF Behind
  <2>7. zone \in [Threads -> Nat] /\ zone' \in [Threads -> Nat]
    BY <1>15 DEF ContextSwitch
  <2> QED BY <2>1, <2>2, <2>3, <2>5, <2>6, <2>7 DEF SeesInv, DISPATCH_ONCE_MAKE_GEN
<1> QED
  BY <1>2, <1>3, <1>4, <1>5, <1>7, <1>8, <1>9, <1>10, <1>11, <1>12, <1>13, <1>14, <1>15
  DEF Action

-----------------------------------------------------------------------------
(* Initially nobody owns the token and nobody has to see anything.         *)
LEMMA InitInv == Init => Inv
<1> SUFFICES ASSUME Init PROVE Inv OBVIOUS
<1> USE DEF Init
<1>1. DLOCK_ONCE_UNLOCKED \in Tokens /\ DLOCK_ONCE_UNLOCKED.state = "unlocked"
  BY DEF Tokens, DLOCK_ONCE_UNLOCKED, Token
<1>2. TypeOK BY <1>1 DEF TypeOK, PCs, Tokens
<1>3. GateInv BY <1>1 DEF GateInv, Owning
<1>4. RunsInv /\ TwoGenerations /\ SeesInv /\ OwnerKept
  BY <1>1 DEF RunsInv, TwoGenerations, SeesInv, OwnerKept
<1> QED BY <1>2, <1>3, <1>4 DEF Inv

(* Every step keeps the four layers.                                       *)
LEMMA NextInv == Inv /\ [Next]_vars => Inv'
<1> SUFFICES ASSUME Inv, [Next]_vars PROVE Inv' OBVIOUS
<1>1. CASE UNCHANGED vars
  BY <1>1 DEF vars, memory, Inv, TypeOK, GateInv, RunsInv, TwoGenerations, SeesInv, Behind,
              OwnerKept
<1>2. CASE \E t \in Threads : Action(t)
  <2>1. PICK t \in Threads : Action(t) BY <1>2
  <2> USE DEF Inv
  <2>2. TypeOK' BY <2>1, NextType
  <2>3. GateInv' /\ OwnerKept' BY <2>1, NextGate
  <2>4. RunsInv' BY <2>1, <2>3, NextRuns
  <2>5. TwoGenerations' BY <2>1, NextZones
  <2>6. SeesInv' BY <2>1, NextSees
  <2> QED BY <2>2, <2>3, <2>4, <2>5, <2>6
<1> QED BY <1>1, <1>2, StepCases

(* The inductive invariant of dispatch_once and its gate.                  *)
LEMMA Invariant == Spec => []Inv
BY InitInv, NextInv, PTL DEF Spec

(* The variables of once.c, of its callers and of the kernel keep their    *)
(* types.                                                                  *)
THEOREM TypeCorrect == Spec => []TypeOK
<1>1. Inv => TypeOK BY DEF Inv
<1> QED BY <1>1, Invariant, PTL

(* Four generations are enough: whoever returns from dispatch_once, with   *)
(* or without a barrier, sees what the block wrote.                        *)
THEOREM ReturnedSeeTheBlock == Spec => []Initialised
<1>1. Inv => Initialised BY DEF Inv, SeesInv, Initialised
<1> QED BY <1>1, Invariant, PTL

(* The broadcast always finds its own thread in the token: nobody that     *)
(* enters or waits overwrites the owner.                                   *)
THEOREM OwnerIsKept == Spec => []OwnerKept
<1>1. Inv => OwnerKept BY DEF Inv
<1> QED BY <1>1, Invariant, PTL

(* Whoever sleeps on the token will be woken by the thread named there or  *)
(* by the one that is past its exchange.                                   *)
THEOREM GateIsKept == Spec => []SleepersHaveAWaker
<1>1. ASSUME Inv PROVE SleepersHaveAWaker
  <2> SUFFICES ASSUME NEW t \in Threads, pc[t] = "asleep"
               PROVE  \E s \in Threads : dgo_once = Locked(s, TRUE) \/ pc[s] = "wake"
    BY DEF SleepersHaveAWaker
  <2> USE <1>1 DEF Inv, GateInv
  <2>1. CASE dgo_once.state = "unlocked" BY <2>1
  <2>2. CASE dgo_once.state = "locked"
    <3>1. dgo_once.owner \in Threads /\ dgo_once = Locked(dgo_once.owner, dgo_once.waiters)
      BY <2>2
    <3>2. dgo_once.waiters = TRUE BY <2>2 DEF TypeOK
    <3> QED BY <3>1, <3>2
  <2>3. CASE dgo_once.state \in {"gen", "done"} BY <2>3
  <2> QED BY <2>1, <2>2, <2>3 DEF TypeOK
<1> QED BY <1>1, Invariant, PTL

-----------------------------------------------------------------------------
(* What the token says of the block, while the process lives. *)
LEMMA BlockIs ==
    ASSUME Inv, life = "live"
    PROVE  /\ dgo_once.state = "unlocked" <=> Block = "new"
           /\ dgo_once.state = "locked" /\ pc[dgo_once.owner] = "callout" => Block = "running"
           /\ dgo_once.state = "locked" /\ pc[dgo_once.owner] /= "callout" => Block = "done"
           /\ dgo_once.state \in {"gen", "done"} => Block = "done"
BY DEF Inv, TypeOK, GateInv, RunsInv, Block, DLOCK_ONCE_UNLOCKED, Token

(* The process starts as Once does. *)
LEMMA InitRefines == Init => Promise!Init
BY DEF Init, Promise!Init, Block, Phase

(* A step of dispatch_once is a step of Once or none. *)
LEMMA StepRefines ==
    ASSUME Inv, Inv', [Next]_vars
    PROVE  [Promise!Next]_Promise!vars
<1> USE DEF Goto
<1>1. CASE UNCHANGED vars
  BY <1>1 DEF vars, Promise!vars, Block, Phase
<1>2. CASE life = "live" /\ \E t \in Threads : Action(t)
  <2>1. PICK t \in Threads : Action(t) BY <1>2
  <2>2. pc \in [Threads -> PCs] /\ life = "live" /\ life' \in {"live", "recursive"}
    BY <1>2 DEF Inv, TypeOK, OwnerKept
  <2>3. Block /= "recursive" BY <2>2 DEF Block
  <2>4. ASSUME Phase' = Phase, Block' = Block PROVE [Promise!Next]_Promise!vars
    BY <2>4 DEF Promise!vars
  <2>5. ASSUME pc[t] /= "returned", Phase' = [Phase EXCEPT ![t] = "returned"],
               Block = "done", Block' = Block
        PROVE  [Promise!Next]_Promise!vars
    <3>1. Phase[t] \in {"idle", "calling"} BY <2>5 DEF Phase
    <3>2. Promise!Return(t) BY <2>5, <3>1 DEF Promise!Return
    <3> QED BY <2>3, <3>2 DEF Promise!Next
  <2>6. ASSUME dgo_once.state = dgo_once'.state, runs = runs', life = life' PROVE Block = Block'
    BY <2>6 DEF Block, Inv, GateInv, TypeOK, DLOCK_ONCE_UNLOCKED, Token
  <2>7. CASE FastPath(t) \/ LoadDone(t) \/ WaitDone(t)
    <3>1. /\ dgo_once.state = "done" /\ pc[t] \in {"idle", "load", "wait"}
          /\ pc' = [pc EXCEPT ![t] = "returned"] /\ UNCHANGED <<dgo_once, runs, life>>
      BY <2>7 DEF FastPath, LoadDone, WaitDone, DLOCK_ONCE_DONE, Token
    <3>2. Phase' = [Phase EXCEPT ![t] = "returned"] BY <2>2, <3>1 DEF Phase
    <3>3. Block = "done" BY <2>2, <3>1, BlockIs
    <3> QED BY <2>5, <2>6, <3>1, <3>2, <3>3
  <2>8. CASE Call(t)
    <3>1. pc[t] = "idle" /\ pc' = [pc EXCEPT ![t] = "load"] /\ UNCHANGED <<dgo_once, runs, life>>
      BY <2>8 DEF Call
    <3>2. Phase[t] = "idle" /\ Phase' = [Phase EXCEPT ![t] = "calling"]
      BY <2>2, <3>1 DEF Phase
    <3>3. Promise!Call(t) BY <2>6, <3>1, <3>2 DEF Promise!Call
    <3> QED BY <2>3, <3>3 DEF Promise!Next
  <2>9. CASE \/ LoadGen(t) \/ LoadOther(t) \/ ReadGeneration(t) \/ WaitGen(t)
             \/ Sleep(t) \/ SleepEnds(t)
    <3>1. /\ pc[t] \notin {"idle", "returned"} /\ UNCHANGED <<dgo_once, runs, life>>
          /\ \E q \in PCs \ {"idle", "returned"} : pc' = [pc EXCEPT ![t] = q]
      BY <2>9 DEF LoadGen, LoadOther, ReadGeneration, WaitGen, Sleep, SleepEnds, PCs
    <3>2. Phase' = Phase BY <2>2, <3>1 DEF Phase
    <3> QED BY <2>4, <2>6, <3>1, <3>2
  <2>10. CASE TryEnter(t)
    <3>1. CASE dgo_once = DLOCK_ONCE_UNLOCKED
      <4>1. /\ pc[t] = "tryenter" /\ pc' = [pc EXCEPT ![t] = "callout"] /\ life' = life
            /\ dgo_once' = Locked(t, FALSE)
        BY <2>10, <3>1 DEF TryEnter
      <4>2. Phase' = Phase /\ Phase[t] = "calling" BY <2>2, <4>1 DEF Phase
      <4>3. dgo_once'.state = "locked" /\ dgo_once'.owner = t /\ runs' = runs
        BY <2>10, <3>1, <4>1 DEF TryEnter, Locked, Token
      <4>4. runs = 0 /\ Block = "new"
        BY <2>2, <3>1, BlockIs DEF Inv, RunsInv, DLOCK_ONCE_UNLOCKED, Token
      <4>5. dgo_once' /= DLOCK_ONCE_UNLOCKED BY <4>3 DEF DLOCK_ONCE_UNLOCKED, Token
      <4>6. Block' = "running" BY <2>2, <4>1, <4>3, <4>4, <4>5 DEF Block
      <4>7. Promise!Begin BY <4>2, <4>4, <4>6 DEF Promise!Begin
      <4> QED BY <2>3, <4>7 DEF Promise!Next
    <3>2. CASE dgo_once /= DLOCK_ONCE_UNLOCKED
      <4>1. /\ pc[t] = "tryenter" /\ pc' = [pc EXCEPT ![t] = "wait"]
            /\ UNCHANGED <<dgo_once, runs, life>>
        BY <2>10, <3>2 DEF TryEnter
      <4>2. Phase' = Phase BY <2>2, <4>1 DEF Phase
      <4> QED BY <2>4, <2>6, <4>1, <4>2
    <3> QED BY <3>1, <3>2
  <2>11. CASE Callout(t)
    <3>1. /\ pc[t] = "callout" /\ pc' = [pc EXCEPT ![t] = "quiescing"]
          /\ runs' = runs + 1 /\ UNCHANGED <<dgo_once, life>>
      BY <2>11 DEF Callout
    <3>2. dgo_once.state = "locked" /\ dgo_once.owner = t
      BY <3>1 DEF Inv, GateInv, Owning
    <3>3. Block = "running" /\ runs = 0
      BY <2>2, <3>1, <3>2, BlockIs DEF Inv, RunsInv
    <3>4. Block' = "done" BY <2>2, <3>1, <3>2, <3>3 DEF Block, DLOCK_ONCE_UNLOCKED, Token
    <3>5. Phase' = Phase BY <2>2, <3>1 DEF Phase
    <3>6. Promise!End BY <3>3, <3>4, <3>5 DEF Promise!End
    <3> QED BY <2>3, <3>6 DEF Promise!Next
  <2>12. CASE Recurse(t)
    <3>1. pc[t] = "callout" /\ pc' = pc /\ life' = "recursive" BY <2>12 DEF Recurse
    <3>2. dgo_once.state = "locked" /\ dgo_once.owner = t
      BY <3>1 DEF Inv, GateInv, Owning
    <3>3. Block = "running" BY <2>2, <3>1, <3>2, BlockIs
    <3>4. Block' = "recursive" /\ Phase' = Phase BY <3>1 DEF Block, Phase
    <3>5. Promise!End BY <3>3, <3>4 DEF Promise!End
    <3> QED BY <2>3, <3>5 DEF Promise!Next
  <2>13. CASE Broadcast(t)
    <3>1. pc[t] = "broadcast" /\ dgo_once' = v[t] /\ runs' = runs BY <2>13 DEF Broadcast
    <3>2. dgo_once.state = "locked" /\ dgo_once.owner = t
      BY <3>1 DEF Inv, GateInv, Owning
    <3>3. Block = "done" /\ runs = 1
      BY <2>2, <3>1, <3>2, BlockIs DEF Inv, RunsInv
    <3>4. dgo_once'.state = "gen" BY <3>1 DEF Inv, GateInv, Quiescing, Token
    <3>5. life' = life /\ \E q \in {"returned", "wake"} : pc' = [pc EXCEPT ![t] = q]
      BY <2>13, <3>2 DEF Broadcast
    <3>6. Block' = "done" BY <2>2, <3>1, <3>3, <3>4, <3>5 DEF Block, DLOCK_ONCE_UNLOCKED, Token
    <3>7. Phase' = Phase \/ Phase' = [Phase EXCEPT ![t] = "returned"]
      BY <2>2, <3>1, <3>5 DEF Phase
    <3> QED BY <2>4, <2>5, <3>1, <3>3, <3>6, <3>7
  <2>14. CASE Wake(t)
    <3>1. /\ pc[t] = "wake" /\ UNCHANGED <<dgo_once, runs, life>>
          /\ pc' = [s \in Threads |-> IF s = t THEN "returned"
                                      ELSE IF pc[s] = "asleep" THEN "wait" ELSE pc[s]]
      BY <2>14 DEF Wake
    <3>2. Phase' = [Phase EXCEPT ![t] = "returned"] BY <2>2, <3>1 DEF Phase
    <3>3. dgo_once.state \in {"gen", "done"} BY <3>1 DEF Inv, TypeOK, GateInv
    <3>4. Block = "done" BY <2>2, <3>3, BlockIs
    <3> QED BY <2>5, <2>6, <3>1, <3>2, <3>4
  <2>15. CASE WaitBit(t)
    <3>1. /\ pc[t] = "wait" /\ pc' = [pc EXCEPT ![t] = "sleep"] /\ UNCHANGED <<runs, life>>
          /\ dgo_once.state = "locked" /\ dgo_once' = Locked(dgo_once.owner, TRUE)
      BY <2>15 DEF WaitBit
    <3>2. dgo_once'.state = "locked" BY <3>1 DEF Locked, Token
    <3>3. Phase' = Phase BY <2>2, <3>1 DEF Phase
    <3> QED BY <2>4, <2>6, <3>1, <3>2, <3>3
  <2>16. CASE MarkDone(t)
    <3>1. /\ pc[t] = "mark" /\ pc' = [pc EXCEPT ![t] = "returned"] /\ UNCHANGED <<runs, life>>
          /\ dgo_once' \in {dgo_once, DLOCK_ONCE_DONE}
      BY <2>16 DEF MarkDone
    <3>2. dgo_once.state \in {"gen", "done"} BY <3>1 DEF Inv, TypeOK, GateInv
    <3>3. Block = "done" /\ runs = 1 BY <2>2, <3>2, BlockIs DEF Inv, RunsInv
    <3>4. Block' = "done"
      BY <2>2, <3>1, <3>2, <3>3 DEF Block, DLOCK_ONCE_UNLOCKED, DLOCK_ONCE_DONE, Token
    <3>5. Phase' = [Phase EXCEPT ![t] = "returned"] BY <2>2, <3>1 DEF Phase
    <3> QED BY <2>5, <3>1, <3>3, <3>4, <3>5
  <2>17. CASE Return(t)
    <3>1. /\ pc[t] = "returned" /\ pc' = [pc EXCEPT ![t] = "idle"]
          /\ UNCHANGED <<dgo_once, runs, life>>
      BY <2>17 DEF Return
    <3>2. Phase[t] = "returned" /\ Phase' = [Phase EXCEPT ![t] = "idle"]
      BY <2>2, <3>1 DEF Phase
    <3>3. Promise!Again(t) BY <2>6, <3>1, <3>2 DEF Promise!Again
    <3> QED BY <2>3, <3>3 DEF Promise!Next
  <2>18. CASE ContextSwitch(t)
    <3>1. UNCHANGED <<dgo_once, pc, runs, life>> BY <2>18 DEF ContextSwitch
    <3> QED BY <2>4, <2>6, <3>1 DEF Phase
  <2> QED
    BY <2>1, <2>7, <2>8, <2>9, <2>10, <2>11, <2>12, <2>13, <2>14, <2>15, <2>16, <2>17, <2>18
    DEF Action
<1> QED BY <1>1, <1>2, StepCases

(* dispatch_once implements Once: the block runs once and only once, and   *)
(* no call returns before it has ended.                                    *)
THEOREM ImplementsOnce == Spec => IsOnce
BY Invariant, InitRefines, StepRefines, PTL DEF Spec, IsOnce, Promise!Spec

=============================================================================
