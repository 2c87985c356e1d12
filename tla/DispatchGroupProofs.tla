------------------------- MODULE DispatchGroupProofs -------------------------
(* Theorems about DispatchGroup, for any number of threads, notifications, *)
(* members and generations.                                                *)
EXTENDS DispatchGroup, FiniteSetTheorems, TLAPS

(* HAS_NOTIFS as a lock: the one thread that is responsible for the list.  *)
Responsible(t) ==
    \/ pc[t] = "push_prev" /\ other[t] = NULL
    \/ pc[t] \in {"set_notifs", "capture_head", "capture_tail"}

LockInv ==
    /\ \A t, u \in Threads : Responsible(t) /\ Responsible(u) => t = u
    /\ \A t \in Threads : Responsible(t) => ~dg_state.notifs /\ dg_notify_tail /= NULL
    /\ dg_state.notifs => dg_notify_tail /= NULL
    /\ dg_notify_tail /= NULL => dg_state.notifs \/ \E t \in Threads : Responsible(t)

(* A wait of this generation has its bit set and the group not empty; one  *)
(* of an earlier generation has seen the group empty.                      *)
WaitInv ==
    \A t \in Threads :
       /\ pc[t] \in Waiting =>
             /\ old_state[t].gen <= dg_state.gen
             /\ old_state[t].gen = dg_state.gen => dg_state.value > 0 /\ dg_state.waiters
             /\ old_state[t].gen /= dg_state.gen => emptySince[t]
       /\ pc[t] = "empty" => emptySince[t]

(* A thread that is going to wake every sleeper. *)
Waker(u) == pc[u] \in Waking \ {"release"} /\ old_state[u].waiters

Clearing == \E u \in Threads : pc[u] = "clear_bits"

(* Bits of an empty group have a leave that is still to look at them, and  *)
(* so do the sleepers of an earlier generation, or they have a waker.      *)
WakeInv ==
    /\ dg_state.value = 0 /\ (dg_state.notifs \/ dg_state.waiters) => Clearing
    /\ \A t \in Threads :
          pc[t] = "asleep" /\ old_state[t].gen /= dg_state.gen =>
             \/ dg_state.waiters /\ Clearing
             \/ \E u \in Threads : Waker(u)

(* The members are those whose enter has returned and the first one's,     *)
(* which is still to retain the group.                                     *)
Retaining == {t \in Threads : pc[t] = "retain"}

MemberInv ==
    /\ dg_state.value = entered + Cardinality(Retaining)
    /\ \A t, u \in Retaining : t = u

(* Threads that are to give back a member's reference, or the one for the  *)
(* notifications.                                                          *)
Releasers == {t \in Threads : pc[t] \in {"clear_bits"} \cup Waking /\ needs_release[t]}

Holders ==
    {t \in Threads : pc[t] = "set_notifs" \/ (pc[t] \in Waking /\ old_state[t].notifs)}

Bit(b) == IF b THEN 1 ELSE 0

(* The members have their reference once the first one has retained it.    *)
Retained == dg_state.value > 0 /\ Retaining = {}

(* Where the references are. *)
RefsInv ==
    refs = Bit(owned) + Bit(Retained) + Bit(dg_state.notifs)
              + Cardinality(Releasers) + Cardinality(Holders)

(* It is disposed of when there is no reference, and then nothing is left. *)
OwnInv == life /= "crashed" /\ (life = "freed" <=> refs = 0)

(* The calls in progress: without its owner a group is left to leaves and  *)
(* wakes, each of which has a reference to give back; whoever pushes or    *)
(* submits has a notification to push or to submit.                        *)
CallInv ==
    \A t \in Threads :
       /\ ~owned => pc[t] \in {"idle", "clear_bits"} \cup Waking
       /\ pc[t] = "clear_bits" => needs_release[t]
       /\ pc[t] \in Waking => needs_release[t] \/ old_state[t].notifs
       /\ needs_release[t] => pc[t] \in {"clear_bits"} \cup Waking
       /\ pc[t] \in {"push_prev", "capture_tail", "submit"} => dc[t] /= NULL

Inv ==
    /\ TypeOK /\ CallInv /\ LockInv /\ WaitInv /\ WakeInv
    /\ MemberInv /\ RefsInv /\ OwnInv

-----------------------------------------------------------------------------
(* A state word is its four fields.                                        *)
LEMMA SameState ==
    ASSUME NEW s \in States, NEW r \in States, r.gen = s.gen, r.value = s.value,
           r.notifs <=> s.notifs, r.waiters <=> s.waiters
    PROVE  r = s
  BY DEF States

(* What a leave clears, and what it does next on the value it has seen.    *)
LEMMA ClearedIs ==
    ASSUME NEW s \in States
    PROVE  /\ Cleared(s) \in States
           /\ Cleared(s).gen = s.gen /\ Cleared(s).value = s.value
           /\ ~Cleared(s).notifs
           /\ Cleared(s).waiters = (s.waiters /\ s.value /= 0)
           /\ Cleared(s) = s <=> ~s.notifs /\ (s.waiters => s.value /= 0)
<1>1. /\ Cleared(s) \in States
      /\ Cleared(s).gen = s.gen /\ Cleared(s).value = s.value
      /\ ~Cleared(s).notifs
      /\ Cleared(s).waiters = (s.waiters /\ s.value /= 0)
  BY DEF States, Cleared
<1>2. ASSUME ~s.notifs, s.waiters => s.value /= 0  PROVE Cleared(s) = s
  <2>1. s.waiters <=> Cleared(s).waiters
    BY <1>1, <1>2
  <2>2. s.notifs <=> Cleared(s).notifs
    BY <1>1, <1>2
  <2> QED
    BY <1>1, <2>1, <2>2, SameState
<1>3. ASSUME Cleared(s) = s  PROVE ~s.notifs /\ (s.waiters => s.value /= 0)
  BY <1>1, <1>3, Zenon
<1> QED
  BY <1>1, <1>2, <1>3

(* A wake starts with the list, or the waiters, or has nothing to do.      *)
LEMMA WakeStartIs ==
    ASSUME NEW s \in States
    PROVE  \/ WakeStart(s) = "capture_head" /\ s.notifs
           \/ WakeStart(s) = "wake_waiters" /\ ~s.notifs /\ s.waiters
           \/ WakeStart(s) = "release" /\ ~s.notifs /\ ~s.waiters
  BY DEF WakeStart, States

(* A leave clears the bits of an empty group, and the notifications bit of *)
(* any other; when there is nothing to clear it goes on to wake.           *)
LEMMA ClearOrWakeIs ==
    ASSUME NEW s \in States
    PROVE  \/ ClearOrWake(s) = "clear_bits" /\ (s.notifs \/ (s.waiters /\ s.value = 0))
           \/ ClearOrWake(s) = "wake_waiters" /\ ~s.notifs /\ s.waiters /\ s.value /= 0
           \/ ClearOrWake(s) = "release" /\ ~s.notifs /\ ~s.waiters
  BY ClearedIs, WakeStartIs DEF ClearOrWake, States

(* The state word after a step, field by field. *)
Becomes(s, gen, value, notifs, waiters) ==
    /\ s \in States
    /\ s.gen = gen /\ s.value = value
    /\ s.notifs = notifs /\ s.waiters = waiters

(* What the updates of the state word make of it. *)
LEMMA Updates ==
    ASSUME NEW s \in States
    PROVE  /\ Becomes([s EXCEPT !.notifs = TRUE], s.gen, s.value, TRUE, s.waiters)
           /\ Becomes([s EXCEPT !.waiters = TRUE], s.gen, s.value, s.notifs, TRUE)
           /\ s.value < VALUE_MAX =>
                Becomes([s EXCEPT !.value = @ + 1], s.gen, s.value + 1, s.notifs, s.waiters)
           /\ s.value > 0 =>
                Becomes([s EXCEPT !.value = @ - 1], s.gen, s.value - 1, s.notifs, s.waiters)
           /\ Becomes([s EXCEPT !.value = 0, !.gen = @ + 1], s.gen + 1, 0, s.notifs, s.waiters)
<1>1. Becomes([s EXCEPT !.notifs = TRUE], s.gen, s.value, TRUE, s.waiters)
  BY GroupAssumption DEF States, Becomes
<1>2. Becomes([s EXCEPT !.waiters = TRUE], s.gen, s.value, s.notifs, TRUE)
  BY GroupAssumption DEF States, Becomes
<1>3. ASSUME s.value < VALUE_MAX
      PROVE  Becomes([s EXCEPT !.value = @ + 1], s.gen, s.value + 1, s.notifs, s.waiters)
  BY <1>3, GroupAssumption DEF States, Becomes
<1>4. ASSUME s.value > 0
      PROVE  Becomes([s EXCEPT !.value = @ - 1], s.gen, s.value - 1, s.notifs, s.waiters)
  BY <1>4, GroupAssumption DEF States, Becomes
<1>5. Becomes([s EXCEPT !.value = 0, !.gen = @ + 1], s.gen + 1, 0, s.notifs, s.waiters)
  <2> DEFINE r == [s EXCEPT !.value = 0]
  <2>1. Becomes(r, s.gen, 0, s.notifs, s.waiters)
    BY GroupAssumption DEF States, Becomes
  <2>2. [s EXCEPT !.value = 0, !.gen = @ + 1] = [r EXCEPT !.gen = @ + 1]
    OBVIOUS
  <2> HIDE DEF r
  <2>3. Becomes([r EXCEPT !.gen = @ + 1], s.gen + 1, 0, s.notifs, s.waiters)
    BY <2>1, GroupAssumption DEF States, Becomes
  <2> QED
    BY <2>2, <2>3
<1> QED
  BY <1>1, <1>2, <1>3, <1>4, <1>5

(* The alternatives of every step, with what they do to the fields of the  *)
(* state word.                                                             *)
Misuse(t) ==
    /\ pc[t] = "idle" /\ owned /\ life' = "misused"
    /\ UNCHANGED <<dg_state, refs, owned, entered, list, pc, locals, ghosts>>

EnterFirst(t) ==
    /\ owned /\ dg_state.value = 0
    /\ Becomes(dg_state', dg_state.gen, 1, dg_state.notifs, dg_state.waiters)
    /\ Goto(t, "idle", "retain")
    /\ UNCHANGED <<refs, owned, entered, life, list, locals, ghosts>>

EnterMore(t) ==
    /\ owned /\ dg_state.value > 0
    /\ Becomes(dg_state', dg_state.gen, dg_state.value + 1, dg_state.notifs, dg_state.waiters)
    /\ entered' = entered + 1
    /\ UNCHANGED <<refs, owned, life, list, pc, locals, ghosts>>

LeaveMore(t) ==
    /\ entered > 0 /\ dg_state.value > 1 /\ entered' = entered - 1
    /\ Becomes(dg_state', dg_state.gen, dg_state.value - 1, dg_state.notifs, dg_state.waiters)
    /\ UNCHANGED <<refs, owned, life, list, pc, locals, ghosts>>

LeaveLast(t, to) ==
    /\ entered > 0 /\ dg_state.value = 1 /\ entered' = entered - 1
    /\ Becomes(dg_state', dg_state.gen + 1, 0, dg_state.notifs, dg_state.waiters)
    /\ Goto(t, "idle", to)
    /\ \/ to = "clear_bits" /\ (dg_state.notifs \/ dg_state.waiters)
       \/ to = "release" /\ ~dg_state.notifs /\ ~dg_state.waiters
    /\ old_state' = [old_state EXCEPT ![t] = dg_state']
    /\ needs_release' = [needs_release EXCEPT ![t] = TRUE]
    /\ emptySince' = [x \in Threads \cup Notifs |-> TRUE]
    /\ UNCHANGED <<refs, owned, life, list, dc, other, timeout, registered, submits>>

Clears(t, to) ==
    /\ dg_state = old_state[t]
    /\ Becomes(dg_state', dg_state.gen, dg_state.value, FALSE,
               dg_state.waiters /\ dg_state.value /= 0)
    /\ Goto(t, "clear_bits", to)
    /\ \/ to = "capture_head" /\ dg_state.notifs
       \/ to = "wake_waiters" /\ ~dg_state.notifs /\ dg_state.waiters
       \/ to = "release" /\ ~dg_state.notifs /\ ~dg_state.waiters
    /\ UNCHANGED <<refs, owned, entered, life, list, locals, ghosts>>

LooksAgain(t, to) ==
    /\ old_state' = [old_state EXCEPT ![t] = dg_state]
    /\ Goto(t, "clear_bits", to)
    /\ \/ to = "clear_bits" /\ (dg_state.notifs \/ (dg_state.waiters /\ dg_state.value = 0))
       \/ to = "wake_waiters" /\ ~dg_state.notifs /\ dg_state.waiters /\ dg_state.value /= 0
       \/ to = "release" /\ ~dg_state.notifs /\ ~dg_state.waiters
    /\ UNCHANGED <<group, list, dc, other, needs_release, timeout, ghosts>>

SubmitLast(t, to) ==
    /\ dc[t] = other[t] /\ Goto(t, "submit", to)
    /\ \/ to = "wake_waiters" /\ old_state[t].waiters
       \/ to = "release" /\ ~old_state[t].waiters
    /\ submits' = [submits EXCEPT ![dc[t]] = @ + 1]
    /\ dc' = [dc EXCEPT ![t] = NULL] /\ other' = [other EXCEPT ![t] = NULL]
    /\ UNCHANGED <<group, list, old_state, needs_release, timeout, registered, emptySince>>

SubmitNext(t) ==
    /\ pc[t] = "submit" /\ dc[t] /= other[t] /\ do_next[dc[t]] /= NULL
    /\ submits' = [submits EXCEPT ![dc[t]] = @ + 1]
    /\ dc' = [dc EXCEPT ![t] = do_next[dc[t]]]
    /\ UNCHANGED <<group, list, pc, old_state, other, needs_release, timeout,
                   registered, emptySince>>

PushFirst(t) ==
    /\ other[t] = NULL /\ Goto(t, "push_prev", "set_notifs")
    /\ refs' = refs + 1 /\ dg_notify_head' = dc[t]
    /\ UNCHANGED <<dg_state, owned, entered, life, dg_notify_tail, do_next, locals, ghosts>>

PushLink(t) ==
    /\ other[t] /= NULL /\ Goto(t, "push_prev", "idle")
    /\ do_next' = [do_next EXCEPT ![other[t]] = dc[t]]
    /\ ForgetLocals(t)
    /\ UNCHANGED <<group, dg_notify_head, dg_notify_tail, ghosts>>

FiresNotifs(t, s) ==
    /\ dg_state.value = 0 /\ ~dg_state.notifs /\ ~dg_state.waiters
    /\ Goto(t, "set_notifs", "capture_head")
    /\ Becomes(s, dg_state.gen, 0, TRUE, FALSE)
    /\ old_state' = [old_state EXCEPT ![t] = s]
    /\ dc' = [dc EXCEPT ![t] = NULL]
    /\ UNCHANGED <<group, list, other, needs_release, timeout, ghosts>>

LeavesNotifs(t) ==
    /\ dg_state.value /= 0 \/ dg_state.notifs \/ dg_state.waiters
    /\ Becomes(dg_state', dg_state.gen, dg_state.value, TRUE, dg_state.waiters)
    /\ Goto(t, "set_notifs", "idle")
    /\ ForgetLocals(t)
    /\ UNCHANGED <<refs, owned, entered, life, list, ghosts>>

WaitReturnsNow(t, to) ==
    /\ owned /\ Goto(t, "idle", to)
    /\ \/ to = "empty" /\ dg_state.value = 0
       \/ to = "timedout"
    /\ emptySince' = [emptySince EXCEPT ![t] = dg_state.value = 0]
    /\ UNCHANGED <<group, list, locals, registered, submits>>

WaitStarts(t, time) ==
    /\ owned /\ dg_state.value > 0 /\ Goto(t, "idle", "wait_on_address")
    /\ Becomes(dg_state', dg_state.gen, dg_state.value, dg_state.notifs, TRUE)
    /\ old_state' = [old_state EXCEPT ![t] = dg_state']
    /\ timeout' = [timeout EXCEPT ![t] = time]
    /\ emptySince' = [emptySince EXCEPT ![t] = dg_state.value = 0]
    /\ UNCHANGED <<refs, owned, entered, life, list, dc, other, needs_release,
                   registered, submits>>

(* The first enter, another one, or one too many.                          *)
LEMMA EnterIs ==
    ASSUME TypeOK, NEW t \in Threads, Enter(t)
    PROVE  Misuse(t) \/ EnterFirst(t) \/ EnterMore(t)
<1>1. dg_state \in States
  BY DEF TypeOK
<1>2. CASE dg_state.value = VALUE_MAX
  BY <1>2 DEF Enter, Misuse
<1>3. CASE dg_state.value /= VALUE_MAX
  <2>1. dg_state.value < VALUE_MAX
    BY <1>1, <1>3, GroupAssumption DEF States
  <2>2. Becomes(dg_state', dg_state.gen, dg_state.value + 1, dg_state.notifs, dg_state.waiters)
    BY <1>1, <1>3, <2>1, Updates DEF Enter
  <2>3. CASE dg_state.value = 0
    BY <1>3, <2>2, <2>3 DEF Enter, EnterFirst, Goto
  <2>4. CASE dg_state.value /= 0
    <3>1. dg_state.value > 0
      BY <1>1, <2>4, GroupAssumption DEF States
    <3> QED
      BY <1>3, <2>2, <2>4, <3>1 DEF Enter, EnterMore
  <2> QED
    BY <2>3, <2>4
<1> QED
  BY <1>2, <1>3

(* The last leave, another one, or one too many.                           *)
LEMMA LeaveIs ==
    ASSUME TypeOK, NEW t \in Threads, Leave(t)
    PROVE  Misuse(t) \/ LeaveMore(t) \/ \E to \in PCs : LeaveLast(t, to)
<1>1. dg_state \in States
  BY DEF TypeOK
<1>2. CASE dg_state.value = 0
  BY <1>2 DEF Leave, Misuse, locals, ghosts
<1>3. CASE dg_state.value > 1
  <2>1. dg_state.value > 0 /\ dg_state.value /= 0 /\ dg_state.value /= 1
    BY <1>1, <1>3, GroupAssumption DEF States
  <2>2. dg_state' = [dg_state EXCEPT !.value = @ - 1]
    BY <2>1 DEF Leave
  <2>3. Becomes(dg_state', dg_state.gen, dg_state.value - 1, dg_state.notifs, dg_state.waiters)
    BY <1>1, <2>1, <2>2, Updates
  <2> QED
    BY <1>3, <2>1, <2>3 DEF Leave, LeaveMore, locals, ghosts
<1>4. CASE dg_state.value = 1
  <2>1. /\ dg_state' = [dg_state EXCEPT !.value = 0, !.gen = @ + 1]
        /\ entered > 0 /\ entered' = entered - 1
        /\ old_state' = [old_state EXCEPT ![t] = dg_state']
        /\ needs_release' = [needs_release EXCEPT ![t] = TRUE]
        /\ Goto(t, "idle", ClearOrWake(dg_state'))
        /\ emptySince' = [x \in Threads \cup Notifs |-> TRUE]
        /\ UNCHANGED <<refs, owned, life, list, dc, other, timeout, registered, submits>>
    BY <1>4 DEF Leave, Goto
  <2>2. Becomes(dg_state', dg_state.gen + 1, 0, dg_state.notifs, dg_state.waiters)
    BY <1>1, <2>1, Updates
  <2>3. \/ ClearOrWake(dg_state') = "clear_bits" /\ (dg_state.notifs \/ dg_state.waiters)
        \/ ClearOrWake(dg_state') = "release" /\ ~dg_state.notifs /\ ~dg_state.waiters
    BY <2>2, ClearOrWakeIs DEF Becomes
  <2>4. ClearOrWake(dg_state') \in PCs
    BY <2>3 DEF PCs, Waking
  <2>5. LeaveLast(t, ClearOrWake(dg_state'))
    BY <1>4, <2>1, <2>2, <2>3 DEF LeaveLast
  <2> QED
    BY <2>4, <2>5
<1>5. dg_state.value = 0 \/ dg_state.value = 1 \/ dg_state.value > 1
  BY <1>1, GroupAssumption DEF States
<1> QED
  BY <1>2, <1>3, <1>4, <1>5

(* The compare and swap succeeds, or shows another value.                  *)
LEMMA LeaveClearBitsIs ==
    ASSUME TypeOK, NEW t \in Threads, LeaveClearBits(t)
    PROVE  \E to \in PCs : Clears(t, to) \/ LooksAgain(t, to)
<1>1. dg_state \in States
  BY DEF TypeOK
<1>2. CASE dg_state = old_state[t]
  <2>1. dg_state' = Cleared(dg_state) /\ Goto(t, "clear_bits", WakeStart(dg_state))
    BY <1>2 DEF LeaveClearBits, Goto
  <2>2. Becomes(dg_state', dg_state.gen, dg_state.value, FALSE,
                dg_state.waiters /\ dg_state.value /= 0)
    BY <1>1, <2>1, ClearedIs DEF Becomes
  <2>3. \/ WakeStart(dg_state) = "capture_head" /\ dg_state.notifs
        \/ WakeStart(dg_state) = "wake_waiters" /\ ~dg_state.notifs /\ dg_state.waiters
        \/ WakeStart(dg_state) = "release" /\ ~dg_state.notifs /\ ~dg_state.waiters
    BY <1>1, WakeStartIs
  <2>4. WakeStart(dg_state) \in PCs
    BY <2>3 DEF PCs, Waking
  <2>5. Clears(t, WakeStart(dg_state))
    BY <1>2, <2>1, <2>2, <2>3 DEF LeaveClearBits, Clears, locals
  <2> QED
    BY <2>4, <2>5
<1>3. CASE dg_state /= old_state[t]
  <2>1. Goto(t, "clear_bits", ClearOrWake(dg_state))
    BY <1>3 DEF LeaveClearBits, Goto
  <2>2. ClearOrWake(dg_state) \in PCs
    BY <1>1, ClearOrWakeIs DEF PCs, Waking
  <2>3. LooksAgain(t, ClearOrWake(dg_state))
    BY <1>1, <1>3, <2>1, ClearOrWakeIs DEF LeaveClearBits, LooksAgain, group
  <2> QED
    BY <2>2, <2>3
<1> QED
  BY <1>2, <1>3

(* The last notification taken, or another one.                            *)
LEMMA SubmitIs ==
    ASSUME TypeOK, NEW t \in Threads, Submit(t)
    PROVE  SubmitNext(t) \/ \E to \in PCs : SubmitLast(t, to)
<1>1. CASE dc[t] = other[t]
  <2> DEFINE to == IF old_state[t].waiters THEN "wake_waiters" ELSE "release"
  <2>1. to \in PCs
    BY DEF PCs, Waking
  <2>2. SubmitLast(t, to)
    BY <1>1 DEF Submit, SubmitLast, Goto
  <2> QED
    BY <2>1, <2>2
<1>2. CASE dc[t] /= other[t]
  BY <1>2 DEF Submit, SubmitNext
<1> QED
  BY <1>1, <1>2

(* The first notification of a list, or one that is linked to another.     *)
LEMMA NotifyPushPrevIs ==
    ASSUME TypeOK, NEW t \in Threads, NotifyPushPrev(t)
    PROVE  PushFirst(t) \/ PushLink(t)
<1>1. CASE other[t] = NULL
  BY <1>1 DEF NotifyPushPrev, PushFirst, Goto
<1>2. CASE other[t] /= NULL
  BY <1>2 DEF NotifyPushPrev, PushLink, Goto, group
<1> QED
  BY <1>1, <1>2

(* An empty group is woken here, any other by a leave.                     *)
LEMMA NotifySetNotifsIs ==
    ASSUME TypeOK, NEW t \in Threads, NotifySetNotifs(t)
    PROVE  LeavesNotifs(t) \/ \E s \in States : FiresNotifs(t, s)
<1>1. dg_state \in States
  BY DEF TypeOK
<1>2. CASE BitsAreZero(dg_state)
  <2> DEFINE s == [dg_state EXCEPT !.notifs = TRUE]
  <2>1. Becomes(s, dg_state.gen, 0, TRUE, FALSE)
    BY <1>1, <1>2, Updates DEF BitsAreZero, Becomes, States
  <2>2. s \in States
    BY <2>1 DEF Becomes
  <2>3. old_state' = [old_state EXCEPT ![t] = s]
    BY <1>2 DEF NotifySetNotifs
  <2> HIDE DEF s
  <2>4. FiresNotifs(t, s)
    BY <1>2, <2>1, <2>3 DEF NotifySetNotifs, FiresNotifs, BitsAreZero, Goto, group
  <2> QED
    BY <2>2, <2>4
<1>3. CASE ~BitsAreZero(dg_state)
  <2>1. Becomes(dg_state', dg_state.gen, dg_state.value, TRUE, dg_state.waiters)
    BY <1>1, <1>3, Updates DEF NotifySetNotifs
  <2> QED
    BY <1>3, <2>1 DEF NotifySetNotifs, LeavesNotifs, BitsAreZero, Goto
<1> QED
  BY <1>2, <1>3

(* A wait returns at once, or is announced by the waiters bit.             *)
LEMMA WaitIs ==
    ASSUME TypeOK, NEW t \in Threads, NEW time \in Timeouts, Wait(t, time)
    PROVE  WaitStarts(t, time) \/ \E to \in PCs : WaitReturnsNow(t, to)
<1>1. dg_state \in States
  BY DEF TypeOK
<1>2. CASE dg_state.value > 0 /\ time /= "DISPATCH_TIME_NOW"
  <2>1. dg_state.value /= 0
    BY <1>1, <1>2, GroupAssumption DEF States
  <2>2. dg_state' = [dg_state EXCEPT !.waiters = TRUE]
    BY <1>2, <2>1 DEF Wait
  <2>3. Becomes(dg_state', dg_state.gen, dg_state.value, dg_state.notifs, TRUE)
    BY <1>1, <2>2, Updates
  <2> QED
    BY <1>2, <2>1, <2>3 DEF Wait, WaitStarts, Goto
<1>3. CASE dg_state.value = 0
  <2>1. WaitReturnsNow(t, "empty")
    BY <1>3 DEF Wait, WaitReturnsNow, Goto, group, locals
  <2> QED
    BY <2>1 DEF PCs
<1>4. CASE dg_state.value > 0 /\ time = "DISPATCH_TIME_NOW"
  <2>1. dg_state.value /= 0
    BY <1>1, <1>4, GroupAssumption DEF States
  <2>2. WaitReturnsNow(t, "timedout")
    BY <1>4, <2>1 DEF Wait, WaitReturnsNow, Goto, group, locals
  <2> QED
    BY <2>2 DEF PCs
<1>5. dg_state.value = 0 \/ dg_state.value > 0
  BY <1>1, GroupAssumption DEF States
<1> QED
  BY <1>2, <1>3, <1>4, <1>5


-----------------------------------------------------------------------------
(* Sets of threads can be counted.                                         *)
LEMMA Counts ==
    ASSUME NEW S \in SUBSET Threads
    PROVE  IsFiniteSet(S) /\ Cardinality(S) \in Nat /\ (Cardinality(S) = 0 <=> S = {})
  BY GroupAssumption, FS_Subset, FS_CardinalityType, FS_EmptySet

(* Two sets of threads that differ at most in t. *)
LEMMA Moves ==
    ASSUME NEW S \in SUBSET Threads, NEW T \in SUBSET Threads, NEW t \in Threads,
           S \ {t} = T \ {t}
    PROVE  Cardinality(T) = Cardinality(S) + Bit(t \in T) - Bit(t \in S)
<1> DEFINE R == S \ {t}
<1>1. Cardinality(S) = Cardinality(R) + Bit(t \in S)
  <2>1. CASE t \in S
    BY <2>1, Counts, FS_RemoveElement DEF Bit
  <2>2. CASE t \notin S
    <3>1. R = S
      BY <2>2
    <3> QED
      BY <2>2, <3>1, Counts DEF Bit
  <2> QED
    BY <2>1, <2>2
<1>2. Cardinality(T) = Cardinality(R) + Bit(t \in T)
  <2>1. CASE t \in T
    BY <2>1, Counts, FS_RemoveElement DEF Bit
  <2>2. CASE t \notin T
    <3>1. R = T
      BY <2>2
    <3> QED
      BY <2>2, <3>1, Counts DEF Bit
  <2> QED
    BY <2>1, <2>2
<1>3. Cardinality(R) \in Nat /\ Bit(t \in S) \in Nat /\ Bit(t \in T) \in Nat
  BY Counts DEF Bit
<1> QED
  BY <1>1, <1>2, <1>3

(* Every step is one of these alternatives.                                *)
LEMMA Steps ==
    ASSUME TypeOK, [Next]_vars
    PROVE  \/ /\ life = "live"
              /\ \/ \E t \in Threads :
                    \/ Misuse(t)
                    \/ EnterFirst(t)
                    \/ EnterMore(t)
                    \/ EnterRetain(t)
                    \/ LeaveMore(t)
                    \/ \E to \in PCs : LeaveLast(t, to)
                    \/ \E to \in PCs : Clears(t, to)
                    \/ \E to \in PCs : LooksAgain(t, to)
                    \/ CaptureHead(t)
                    \/ CaptureTail(t)
                    \/ SubmitNext(t)
                    \/ \E to \in PCs : SubmitLast(t, to)
                    \/ WakeWaiters(t)
                    \/ Release(t)
                    \/ \E dsn \in Notifs \ registered : Notify(t, dsn)
                    \/ PushFirst(t)
                    \/ PushLink(t)
                    \/ \E s \in States : FiresNotifs(t, s)
                    \/ LeavesNotifs(t)
                    \/ \E time \in Timeouts : WaitStarts(t, time)
                    \/ \E to \in PCs : WaitReturnsNow(t, to)
                    \/ WaitOnAddress(t)
                    \/ WaitCheck(t)
                    \/ WaitReturns(t)
                    \/ SleepEnds(t)
                 \/ OwnerRelease
           \/ UNCHANGED vars
<1>1. CASE UNCHANGED vars
  BY <1>1
<1>2. ASSUME NEW t \in Threads, NEW time \in Timeouts, Wait(t, time), life = "live"
      PROVE  WaitStarts(t, time) \/ \E to \in PCs : WaitReturnsNow(t, to)
  BY <1>2, WaitIs
<1>3. CASE Next
  BY <1>2, <1>3, EnterIs, LeaveIs, LeaveClearBitsIs, SubmitIs, NotifyPushPrevIs,
     NotifySetNotifsIs DEF Next, Step
<1> QED
  BY <1>1, <1>3

(* References are counted by who holds them, so that none is negative;     *)
(* every other value is of its type.                                       *)
LEMMA NextType ==
    ASSUME TypeOK, CallInv, RefsInv', [Next]_vars
    PROVE  TypeOK'
<1> USE GroupAssumption DEF TypeOK, States, PCs, Waking, Waiting, Notifying,
     Zero, Timeouts, group, list, locals, ghosts
<1>0. refs' \in Nat
  <2>1. Releasers' \in SUBSET Threads /\ Holders' \in SUBSET Threads
    BY DEF Releasers, Holders
  <2> QED
    BY <2>1, Counts DEF RefsInv, Bit
<1>1. ASSUME NEW t \in Threads, Misuse(t)  PROVE TypeOK'
  BY <1>1 DEF Misuse
<1>2. ASSUME NEW t \in Threads, EnterFirst(t)  PROVE TypeOK'
  BY <1>2 DEF EnterFirst, Becomes, Goto
<1>3. ASSUME NEW t \in Threads, EnterMore(t)  PROVE TypeOK'
  BY <1>3 DEF EnterMore, Becomes
<1>4. ASSUME NEW t \in Threads, EnterRetain(t)  PROVE TypeOK'
  BY <1>4 DEF EnterRetain, Goto
<1>5. ASSUME NEW t \in Threads, LeaveMore(t)  PROVE TypeOK'
  BY <1>5 DEF LeaveMore, Becomes
<1>6. ASSUME NEW t \in Threads, NEW to \in PCs, LeaveLast(t, to)  PROVE TypeOK'
  BY <1>6 DEF LeaveLast, Becomes, Goto
<1>7. ASSUME NEW t \in Threads, NEW to \in PCs, Clears(t, to)  PROVE TypeOK'
  BY <1>7 DEF Clears, Becomes, Goto
<1>8. ASSUME NEW t \in Threads, NEW to \in PCs, LooksAgain(t, to)  PROVE TypeOK'
  BY <1>8 DEF LooksAgain, Goto
<1>9. ASSUME NEW t \in Threads, CaptureHead(t)  PROVE TypeOK'
  BY <1>9 DEF CaptureHead, Goto
<1>10. ASSUME NEW t \in Threads, CaptureTail(t)  PROVE TypeOK'
  BY <1>10 DEF CaptureTail, Goto
<1>11. ASSUME NEW t \in Threads, SubmitNext(t)  PROVE TypeOK'
  <2>1. dc[t] \in Notifs
    BY <1>11 DEF SubmitNext, CallInv
  <2>2. submits' \in [Notifs -> Nat] /\ do_next[dc[t]] \in Notifs
    BY <1>11, <2>1 DEF SubmitNext
  <2> QED
    BY <1>11, <2>2 DEF SubmitNext
<1>12. ASSUME NEW t \in Threads, NEW to \in PCs, SubmitLast(t, to)
       PROVE  TypeOK'
  <2>1. dc[t] \in Notifs
    BY <1>12 DEF SubmitLast, Goto, CallInv
  <2>2. submits' \in [Notifs -> Nat]
    BY <1>12, <2>1 DEF SubmitLast
  <2> QED
    BY <1>12, <2>2 DEF SubmitLast, Goto
<1>13. ASSUME NEW t \in Threads, WakeWaiters(t)  PROVE TypeOK'
  BY <1>13 DEF WakeWaiters
<1>14. ASSUME NEW t \in Threads, Release(t)  PROVE TypeOK'
  BY <1>0, <1>14 DEF Release, DropRefs, ForgetLocals, Goto
<1>15. ASSUME NEW t \in Threads, NEW dsn \in Notifs \ registered, Notify(t, dsn)
       PROVE  TypeOK'
  BY <1>15 DEF Notify
<1>16. ASSUME NEW t \in Threads, PushFirst(t)  PROVE TypeOK'
  BY <1>16 DEF PushFirst, Goto
<1>17. ASSUME NEW t \in Threads, PushLink(t)  PROVE TypeOK'
  BY <1>17 DEF PushLink, ForgetLocals, Goto
<1>18. ASSUME NEW t \in Threads, NEW s \in States, FiresNotifs(t, s)
       PROVE  TypeOK'
  BY <1>18 DEF FiresNotifs, Becomes, Goto
<1>19. ASSUME NEW t \in Threads, LeavesNotifs(t)  PROVE TypeOK'
  BY <1>19 DEF LeavesNotifs, Becomes, ForgetLocals, Goto
<1>20. ASSUME NEW t \in Threads, NEW time \in Timeouts, WaitStarts(t, time)
       PROVE  TypeOK'
  BY <1>20 DEF WaitStarts, Becomes, Goto
<1>21. ASSUME NEW t \in Threads, NEW to \in PCs, WaitReturnsNow(t, to)
       PROVE  TypeOK'
  BY <1>21 DEF WaitReturnsNow, Goto
<1>22. ASSUME NEW t \in Threads, WaitOnAddress(t)  PROVE TypeOK'
  BY <1>22 DEF WaitOnAddress, Goto
<1>23. ASSUME NEW t \in Threads, WaitCheck(t)  PROVE TypeOK'
  BY <1>23 DEF WaitCheck
<1>24. ASSUME NEW t \in Threads, WaitReturns(t)  PROVE TypeOK'
  BY <1>24 DEF WaitReturns, ForgetLocals
<1>25. ASSUME NEW t \in Threads, SleepEnds(t)  PROVE TypeOK'
  BY <1>25 DEF SleepEnds, Goto
<1>26. ASSUME OwnerRelease  PROVE TypeOK'
  BY <1>0, <1>26 DEF OwnerRelease, DropRefs
<1>27. CASE UNCHANGED vars
  BY <1>27 DEF vars
<1> QED
  BY Steps, <1>1, <1>2, <1>3, <1>4, <1>5, <1>6, <1>7, <1>8, <1>9, <1>10,
     <1>11, <1>12, <1>13, <1>14, <1>15, <1>16, <1>17, <1>18, <1>19, <1>20,
     <1>21, <1>22, <1>23, <1>24, <1>25, <1>26, <1>27, ZenonT(60)

(* A call goes on with the arguments it needs, and only those that may go  *)
(* on without the owner do.                                                *)
LEMMA NextCall ==
    ASSUME TypeOK, CallInv, [Next]_vars
    PROVE  CallInv'
<1> USE GroupAssumption DEF TypeOK, States, PCs, Waking, Waiting, Notifying,
     CallInv, group, list, locals, ghosts
<1>1. ASSUME NEW t \in Threads, Misuse(t)  PROVE CallInv'
  BY <1>1 DEF Misuse
<1>2. ASSUME NEW t \in Threads, EnterFirst(t)  PROVE CallInv'
  BY <1>2 DEF EnterFirst, Becomes, Goto
<1>3. ASSUME NEW t \in Threads, EnterMore(t)  PROVE CallInv'
  BY <1>3 DEF EnterMore, Becomes
<1>4. ASSUME NEW t \in Threads, EnterRetain(t)  PROVE CallInv'
  BY <1>4 DEF EnterRetain, Goto
<1>5. ASSUME NEW t \in Threads, LeaveMore(t)  PROVE CallInv'
  BY <1>5 DEF LeaveMore, Becomes
<1>6. ASSUME NEW t \in Threads, NEW to \in PCs, LeaveLast(t, to)  PROVE CallInv'
  BY <1>6 DEF LeaveLast, Becomes, Goto
<1>7. ASSUME NEW t \in Threads, NEW to \in PCs, Clears(t, to)  PROVE CallInv'
  BY <1>7 DEF Clears, Becomes, Goto
<1>8. ASSUME NEW t \in Threads, NEW to \in PCs, LooksAgain(t, to)
      PROVE  CallInv'
  BY <1>8 DEF LooksAgain, Goto
<1>9. ASSUME NEW t \in Threads, CaptureHead(t)  PROVE CallInv'
  BY <1>9 DEF CaptureHead, Goto
<1>10. ASSUME NEW t \in Threads, CaptureTail(t)  PROVE CallInv'
  BY <1>10 DEF CaptureTail, Goto
<1>11. ASSUME NEW t \in Threads, SubmitNext(t)  PROVE CallInv'
  BY <1>11 DEF SubmitNext
<1>12. ASSUME NEW t \in Threads, NEW to \in PCs, SubmitLast(t, to)
       PROVE  CallInv'
  BY <1>12 DEF SubmitLast, Goto
<1>13. ASSUME NEW t \in Threads, WakeWaiters(t)  PROVE CallInv'
  BY <1>13 DEF WakeWaiters
<1>14. ASSUME NEW t \in Threads, Release(t)  PROVE CallInv'
  BY <1>14 DEF Release, DropRefs, ForgetLocals, Goto
<1>15. ASSUME NEW t \in Threads, NEW dsn \in Notifs \ registered, Notify(t, dsn)
       PROVE  CallInv'
  BY <1>15 DEF Notify
<1>16. ASSUME NEW t \in Threads, PushFirst(t)  PROVE CallInv'
  BY <1>16 DEF PushFirst, Goto
<1>17. ASSUME NEW t \in Threads, PushLink(t)  PROVE CallInv'
  BY <1>17 DEF PushLink, ForgetLocals, Goto
<1>18. ASSUME NEW t \in Threads, NEW s \in States, FiresNotifs(t, s)
       PROVE  CallInv'
  BY <1>18 DEF FiresNotifs, Becomes, Goto
<1>19. ASSUME NEW t \in Threads, LeavesNotifs(t)  PROVE CallInv'
  BY <1>19 DEF LeavesNotifs, Becomes, ForgetLocals, Goto
<1>20. ASSUME NEW t \in Threads, NEW time \in Timeouts, WaitStarts(t, time)
       PROVE  CallInv'
  BY <1>20 DEF WaitStarts, Becomes, Goto
<1>21. ASSUME NEW t \in Threads, NEW to \in PCs, WaitReturnsNow(t, to)
       PROVE  CallInv'
  BY <1>21 DEF WaitReturnsNow, Goto
<1>22. ASSUME NEW t \in Threads, WaitOnAddress(t)  PROVE CallInv'
  BY <1>22 DEF WaitOnAddress, Goto
<1>23. ASSUME NEW t \in Threads, WaitCheck(t)  PROVE CallInv'
  BY <1>23 DEF WaitCheck
<1>24. ASSUME NEW t \in Threads, WaitReturns(t)  PROVE CallInv'
  BY <1>24 DEF WaitReturns, ForgetLocals
<1>25. ASSUME NEW t \in Threads, SleepEnds(t)  PROVE CallInv'
  BY <1>25 DEF SleepEnds, Goto
<1>26. ASSUME OwnerRelease  PROVE CallInv'
  BY <1>26 DEF OwnerRelease, DropRefs
<1>27. CASE UNCHANGED vars
  BY <1>27 DEF vars
<1> QED
  BY Steps, <1>1, <1>2, <1>3, <1>4, <1>5, <1>6, <1>7, <1>8, <1>9, <1>10,
     <1>11, <1>12, <1>13, <1>14, <1>15, <1>16, <1>17, <1>18, <1>19, <1>20,
     <1>21, <1>22, <1>23, <1>24, <1>25, <1>26, <1>27

(* Setting HAS_NOTIFS, clearing it and taking the list hand on the         *)
(* responsibility for the list.                                            *)
LEMMA NextLock ==
    ASSUME TypeOK, LockInv, [Next]_vars
    PROVE  LockInv'
<1> USE GroupAssumption DEF TypeOK, States, PCs, Waking, Waiting, Notifying,
     LockInv, Responsible, group, list, locals, ghosts
<1>1. ASSUME NEW t \in Threads, Misuse(t)  PROVE LockInv'
  BY <1>1 DEF Misuse
<1>2. ASSUME NEW t \in Threads, EnterFirst(t)  PROVE LockInv'
  BY <1>2 DEF EnterFirst, Becomes, Goto
<1>3. ASSUME NEW t \in Threads, EnterMore(t)  PROVE LockInv'
  BY <1>3 DEF EnterMore, Becomes
<1>4. ASSUME NEW t \in Threads, EnterRetain(t)  PROVE LockInv'
  BY <1>4 DEF EnterRetain, Goto
<1>5. ASSUME NEW t \in Threads, LeaveMore(t)  PROVE LockInv'
  BY <1>5 DEF LeaveMore, Becomes
<1>6. ASSUME NEW t \in Threads, NEW to \in PCs, LeaveLast(t, to)  PROVE LockInv'
  BY <1>6 DEF LeaveLast, Becomes, Goto
<1>7. ASSUME NEW t \in Threads, NEW to \in PCs, Clears(t, to)  PROVE LockInv'
  BY <1>7 DEF Clears, Becomes, Goto
<1>8. ASSUME NEW t \in Threads, NEW to \in PCs, LooksAgain(t, to)
      PROVE  LockInv'
  BY <1>8 DEF LooksAgain, Goto
<1>9. ASSUME NEW t \in Threads, CaptureHead(t)  PROVE LockInv'
  BY <1>9 DEF CaptureHead, Goto
<1>10. ASSUME NEW t \in Threads, CaptureTail(t)  PROVE LockInv'
  BY <1>10 DEF CaptureTail, Goto
<1>11. ASSUME NEW t \in Threads, SubmitNext(t)  PROVE LockInv'
  BY <1>11 DEF SubmitNext
<1>12. ASSUME NEW t \in Threads, NEW to \in PCs, SubmitLast(t, to)
       PROVE  LockInv'
  BY <1>12 DEF SubmitLast, Goto
<1>13. ASSUME NEW t \in Threads, WakeWaiters(t)  PROVE LockInv'
  BY <1>13 DEF WakeWaiters
<1>14. ASSUME NEW t \in Threads, Release(t)  PROVE LockInv'
  BY <1>14 DEF Release, DropRefs, ForgetLocals, Goto
<1>15. ASSUME NEW t \in Threads, NEW dsn \in Notifs \ registered, Notify(t, dsn)
       PROVE  LockInv'
  BY <1>15 DEF Notify
<1>16. ASSUME NEW t \in Threads, PushFirst(t)  PROVE LockInv'
  BY <1>16 DEF PushFirst, Goto
<1>17. ASSUME NEW t \in Threads, PushLink(t)  PROVE LockInv'
  BY <1>17 DEF PushLink, ForgetLocals, Goto
<1>18. ASSUME NEW t \in Threads, NEW s \in States, FiresNotifs(t, s)
       PROVE  LockInv'
  BY <1>18 DEF FiresNotifs, Becomes, Goto
<1>19. ASSUME NEW t \in Threads, LeavesNotifs(t)  PROVE LockInv'
  BY <1>19 DEF LeavesNotifs, Becomes, ForgetLocals, Goto
<1>20. ASSUME NEW t \in Threads, NEW time \in Timeouts, WaitStarts(t, time)
       PROVE  LockInv'
  BY <1>20 DEF WaitStarts, Becomes, Goto
<1>21. ASSUME NEW t \in Threads, NEW to \in PCs, WaitReturnsNow(t, to)
       PROVE  LockInv'
  BY <1>21 DEF WaitReturnsNow, Goto
<1>22. ASSUME NEW t \in Threads, WaitOnAddress(t)  PROVE LockInv'
  <2>1. \A u \in Threads : Responsible(u)' = Responsible(u)
    BY <1>22 DEF WaitOnAddress, Goto
  <2> QED
    BY <1>22, <2>1 DEF WaitOnAddress, Goto
<1>23. ASSUME NEW t \in Threads, WaitCheck(t)  PROVE LockInv'
  BY <1>23 DEF WaitCheck
<1>24. ASSUME NEW t \in Threads, WaitReturns(t)  PROVE LockInv'
  BY <1>24 DEF WaitReturns, ForgetLocals
<1>25. ASSUME NEW t \in Threads, SleepEnds(t)  PROVE LockInv'
  BY <1>25, SMTT(30) DEF SleepEnds, Goto
<1>26. ASSUME OwnerRelease  PROVE LockInv'
  BY <1>26 DEF OwnerRelease, DropRefs
<1>27. CASE UNCHANGED vars
  BY <1>27 DEF vars
<1> QED
  BY Steps, <1>1, <1>2, <1>3, <1>4, <1>5, <1>6, <1>7, <1>8, <1>9, <1>10,
     <1>11, <1>12, <1>13, <1>14, <1>15, <1>16, <1>17, <1>18, <1>19, <1>20,
     <1>21, <1>22, <1>23, <1>24, <1>25, <1>26, <1>27

(* Only a leave of the last member changes the generation, and then the    *)
(* group is empty.                                                         *)
LEMMA NextWait ==
    ASSUME TypeOK, WaitInv, [Next]_vars
    PROVE  WaitInv'
<1> USE GroupAssumption DEF TypeOK, States, PCs, Waking, Waiting, Notifying,
     WaitInv, group, list, locals, ghosts
<1>1. ASSUME NEW t \in Threads, Misuse(t)  PROVE WaitInv'
  BY <1>1 DEF Misuse
<1>2. ASSUME NEW t \in Threads, EnterFirst(t)  PROVE WaitInv'
  BY <1>2 DEF EnterFirst, Becomes, Goto
<1>3. ASSUME NEW t \in Threads, EnterMore(t)  PROVE WaitInv'
  BY <1>3 DEF EnterMore, Becomes
<1>4. ASSUME NEW t \in Threads, EnterRetain(t)  PROVE WaitInv'
  BY <1>4 DEF EnterRetain, Goto
<1>5. ASSUME NEW t \in Threads, LeaveMore(t)  PROVE WaitInv'
  BY <1>5 DEF LeaveMore, Becomes
<1>6. ASSUME NEW t \in Threads, NEW to \in PCs, LeaveLast(t, to)  PROVE WaitInv'
  BY <1>6 DEF LeaveLast, Becomes, Goto
<1>7. ASSUME NEW t \in Threads, NEW to \in PCs, Clears(t, to)  PROVE WaitInv'
  BY <1>7 DEF Clears, Becomes, Goto
<1>8. ASSUME NEW t \in Threads, NEW to \in PCs, LooksAgain(t, to)
      PROVE  WaitInv'
  BY <1>8 DEF LooksAgain, Goto
<1>9. ASSUME NEW t \in Threads, CaptureHead(t)  PROVE WaitInv'
  BY <1>9 DEF CaptureHead, Goto
<1>10. ASSUME NEW t \in Threads, CaptureTail(t)  PROVE WaitInv'
  BY <1>10 DEF CaptureTail, Goto
<1>11. ASSUME NEW t \in Threads, SubmitNext(t)  PROVE WaitInv'
  BY <1>11 DEF SubmitNext
<1>12. ASSUME NEW t \in Threads, NEW to \in PCs, SubmitLast(t, to)
       PROVE  WaitInv'
  BY <1>12 DEF SubmitLast, Goto
<1>13. ASSUME NEW t \in Threads, WakeWaiters(t)  PROVE WaitInv'
  BY <1>13 DEF WakeWaiters
<1>14. ASSUME NEW t \in Threads, Release(t)  PROVE WaitInv'
  BY <1>14 DEF Release, DropRefs, ForgetLocals, Goto
<1>15. ASSUME NEW t \in Threads, NEW dsn \in Notifs \ registered, Notify(t, dsn)
       PROVE  WaitInv'
  BY <1>15 DEF Notify
<1>16. ASSUME NEW t \in Threads, PushFirst(t)  PROVE WaitInv'
  BY <1>16 DEF PushFirst, Goto
<1>17. ASSUME NEW t \in Threads, PushLink(t)  PROVE WaitInv'
  BY <1>17 DEF PushLink, ForgetLocals, Goto
<1>18. ASSUME NEW t \in Threads, NEW s \in States, FiresNotifs(t, s)
       PROVE  WaitInv'
  BY <1>18 DEF FiresNotifs, Becomes, Goto
<1>19. ASSUME NEW t \in Threads, LeavesNotifs(t)  PROVE WaitInv'
  BY <1>19 DEF LeavesNotifs, Becomes, ForgetLocals, Goto
<1>20. ASSUME NEW t \in Threads, NEW time \in Timeouts, WaitStarts(t, time)
       PROVE  WaitInv'
  BY <1>20 DEF WaitStarts, Becomes, Goto
<1>21. ASSUME NEW t \in Threads, NEW to \in PCs, WaitReturnsNow(t, to)
       PROVE  WaitInv'
  BY <1>21 DEF WaitReturnsNow, Goto
<1>22. ASSUME NEW t \in Threads, WaitOnAddress(t)  PROVE WaitInv'
  BY <1>22 DEF WaitOnAddress, Goto
<1>23. ASSUME NEW t \in Threads, WaitCheck(t)  PROVE WaitInv'
  BY <1>23 DEF WaitCheck
<1>24. ASSUME NEW t \in Threads, WaitReturns(t)  PROVE WaitInv'
  BY <1>24 DEF WaitReturns, ForgetLocals
<1>25. ASSUME NEW t \in Threads, SleepEnds(t)  PROVE WaitInv'
  BY <1>25 DEF SleepEnds, Goto
<1>26. ASSUME OwnerRelease  PROVE WaitInv'
  BY <1>26 DEF OwnerRelease, DropRefs
<1>27. CASE UNCHANGED vars
  BY <1>27 DEF vars
<1> QED
  BY Steps, <1>1, <1>2, <1>3, <1>4, <1>5, <1>6, <1>7, <1>8, <1>9, <1>10,
     <1>11, <1>12, <1>13, <1>14, <1>15, <1>16, <1>17, <1>18, <1>19, <1>20,
     <1>21, <1>22, <1>23, <1>24, <1>25, <1>26, <1>27

(* Whoever clears the waiters bit wakes, unless there are members again,   *)
(* and a bit of an empty group is left to a leave that is still to look.   *)
LEMMA NextWake ==
    ASSUME TypeOK, LockInv, WaitInv, WakeInv, [Next]_vars
    PROVE  WakeInv'
<1> USE DEF TypeOK, States, PCs, Waking, Waiting, Notifying, WakeInv, WaitInv,
     Waker, Clearing, group, list, locals, ghosts
<1>1. ASSUME NEW t \in Threads, Misuse(t)  PROVE WakeInv'
  BY <1>1 DEF Misuse
<1>2. ASSUME NEW t \in Threads, EnterFirst(t)  PROVE WakeInv'
  BY <1>2 DEF EnterFirst, Becomes, Goto
<1>3. ASSUME NEW t \in Threads, EnterMore(t)  PROVE WakeInv'
  BY <1>3 DEF EnterMore, Becomes
<1>4. ASSUME NEW t \in Threads, EnterRetain(t)  PROVE WakeInv'
  BY <1>4 DEF EnterRetain, Goto
<1>5. ASSUME NEW t \in Threads, LeaveMore(t)  PROVE WakeInv'
  BY <1>5 DEF LeaveMore, Becomes
<1>6. ASSUME NEW t \in Threads, NEW to \in PCs, LeaveLast(t, to)  PROVE WakeInv'
  BY <1>6 DEF LeaveLast, Becomes, Goto
<1>7. ASSUME NEW t \in Threads, NEW to \in PCs, Clears(t, to)  PROVE WakeInv'
  BY <1>7 DEF Clears, Becomes, Goto
<1>8. ASSUME NEW t \in Threads, NEW to \in PCs, LooksAgain(t, to)
      PROVE  WakeInv'
  BY <1>8 DEF LooksAgain, Goto
<1>9. ASSUME NEW t \in Threads, CaptureHead(t)  PROVE WakeInv'
  BY <1>9 DEF CaptureHead, Goto
<1>10. ASSUME NEW t \in Threads, CaptureTail(t)  PROVE WakeInv'
  BY <1>10 DEF CaptureTail, Goto
<1>11. ASSUME NEW t \in Threads, SubmitNext(t)  PROVE WakeInv'
  BY <1>11 DEF SubmitNext
<1>12. ASSUME NEW t \in Threads, NEW to \in PCs, SubmitLast(t, to)
       PROVE  WakeInv'
  BY <1>12 DEF SubmitLast, Goto
<1>13. ASSUME NEW t \in Threads, WakeWaiters(t)  PROVE WakeInv'
  BY <1>13 DEF WakeWaiters
<1>14. ASSUME NEW t \in Threads, Release(t)  PROVE WakeInv'
  BY <1>14 DEF Release, DropRefs, ForgetLocals, Goto
<1>15. ASSUME NEW t \in Threads, NEW dsn \in Notifs \ registered, Notify(t, dsn)
       PROVE  WakeInv'
  BY <1>15 DEF Notify
<1>16. ASSUME NEW t \in Threads, PushFirst(t)  PROVE WakeInv'
  BY <1>16 DEF PushFirst, Goto
<1>17. ASSUME NEW t \in Threads, PushLink(t)  PROVE WakeInv'
  BY <1>17 DEF PushLink, ForgetLocals, Goto
<1>18. ASSUME NEW t \in Threads, NEW s \in States, FiresNotifs(t, s)
       PROVE  WakeInv'
  BY <1>18 DEF FiresNotifs, Becomes, Goto
<1>19. ASSUME NEW t \in Threads, LeavesNotifs(t)  PROVE WakeInv'
  BY <1>19 DEF LeavesNotifs, Becomes, ForgetLocals, Goto
<1>20. ASSUME NEW t \in Threads, NEW time \in Timeouts, WaitStarts(t, time)
       PROVE  WakeInv'
  BY <1>20 DEF WaitStarts, Becomes, Goto
<1>21. ASSUME NEW t \in Threads, NEW to \in PCs, WaitReturnsNow(t, to)
       PROVE  WakeInv'
  BY <1>21 DEF WaitReturnsNow, Goto
<1>22. ASSUME NEW t \in Threads, WaitOnAddress(t)  PROVE WakeInv'
  <2>1. /\ dg_state' = dg_state /\ old_state' = old_state
        /\ pc[t] = "wait_on_address" /\ pc'[t] \in {"asleep", "check", "check_timedout"}
        /\ pc'[t] = "asleep" => old_state[t].gen = dg_state.gen
        /\ \A u \in Threads \ {t} : pc'[u] = pc[u]
    BY <1>22 DEF WaitOnAddress, Goto
  <2>2. /\ Clearing' <=> Clearing
        /\ (\E u \in Threads : Waker(u))' <=> \E u \in Threads : Waker(u)
    BY ONLY <2>1
  <2> QED
    BY <2>1, <2>2, SMTT(30)
<1>23. ASSUME NEW t \in Threads, WaitCheck(t)  PROVE WakeInv'
  BY <1>23 DEF WaitCheck
<1>24. ASSUME NEW t \in Threads, WaitReturns(t)  PROVE WakeInv'
  BY <1>24 DEF WaitReturns, ForgetLocals
<1>25. ASSUME NEW t \in Threads, SleepEnds(t)  PROVE WakeInv'
  BY <1>25 DEF SleepEnds, Goto
<1>26. ASSUME OwnerRelease  PROVE WakeInv'
  BY <1>26 DEF OwnerRelease, DropRefs
<1>27. CASE UNCHANGED vars
  BY <1>27 DEF vars
<1> QED
  BY Steps, <1>1, <1>2, <1>3, <1>4, <1>5, <1>6, <1>7, <1>8, <1>9, <1>10,
     <1>11, <1>12, <1>13, <1>14, <1>15, <1>16, <1>17, <1>18, <1>19, <1>20,
     <1>21, <1>22, <1>23, <1>24, <1>25, <1>26, <1>27

(* Enters and leaves keep the count of the members.                        *)
LEMMA NextMember ==
    ASSUME TypeOK, MemberInv, [Next]_vars
    PROVE  MemberInv'
<1> USE GroupAssumption DEF TypeOK, States, PCs, Waking, Waiting, Notifying,
     MemberInv, group, list, locals, ghosts
<1>0. Retaining \in SUBSET Threads /\ Cardinality(Retaining) \in Nat
  BY Counts DEF Retaining
<1>1. ASSUME NEW t \in Threads, Misuse(t)  PROVE MemberInv'
  <2>1. Retaining' = Retaining
    BY <1>1 DEF Misuse, Retaining
  <2> QED
    BY <1>1, <1>0, <2>1 DEF Misuse
<1>2. ASSUME NEW t \in Threads, EnterFirst(t)  PROVE MemberInv'
  <2>1. Retaining = {}
    BY <1>2, <1>0, Counts DEF EnterFirst
  <2>2. Retaining' = {t}
    BY <1>2, <2>1 DEF EnterFirst, Goto, Retaining
  <2>3. Cardinality(Retaining') = 1 /\ Cardinality(Retaining) = 0
    BY <2>1, <2>2, FS_Singleton, FS_EmptySet
  <2> QED
    BY <1>2, <2>2, <2>3 DEF EnterFirst, Becomes
<1>3. ASSUME NEW t \in Threads, EnterMore(t)  PROVE MemberInv'
  <2>1. Retaining' = Retaining
    BY <1>3 DEF EnterMore, Becomes, Retaining
  <2> QED
    BY <1>3, <1>0, <2>1 DEF EnterMore, Becomes
<1>4. ASSUME NEW t \in Threads, EnterRetain(t)  PROVE MemberInv'
  <2>1. Retaining = {t}
    BY <1>4 DEF EnterRetain, Goto, Retaining
  <2>2. Retaining' = {}
    BY <1>4, <2>1 DEF EnterRetain, Goto, Retaining
  <2>3. Cardinality(Retaining) = 1 /\ Cardinality(Retaining') = 0
    BY <2>1, <2>2, FS_Singleton, FS_EmptySet
  <2> QED
    BY <1>4, <2>2, <2>3 DEF EnterRetain
<1>5. ASSUME NEW t \in Threads, LeaveMore(t)  PROVE MemberInv'
  <2>1. Retaining' = Retaining
    BY <1>5 DEF LeaveMore, Becomes, Retaining
  <2> QED
    BY <1>5, <1>0, <2>1 DEF LeaveMore, Becomes
<1>6. ASSUME NEW t \in Threads, NEW to \in PCs, LeaveLast(t, to)
      PROVE  MemberInv'
  <2>1. Retaining' = Retaining
    BY <1>6 DEF LeaveLast, Becomes, Goto, Retaining
  <2> QED
    BY <1>6, <1>0, <2>1 DEF LeaveLast, Becomes, Goto
<1>7. ASSUME NEW t \in Threads, NEW to \in PCs, Clears(t, to)  PROVE MemberInv'
  <2>1. Retaining' = Retaining
    BY <1>7 DEF Clears, Becomes, Goto, Retaining
  <2> QED
    BY <1>7, <1>0, <2>1 DEF Clears, Becomes, Goto
<1>8. ASSUME NEW t \in Threads, NEW to \in PCs, LooksAgain(t, to)
      PROVE  MemberInv'
  <2>1. Retaining' = Retaining
    BY <1>8 DEF LooksAgain, Goto, Retaining
  <2> QED
    BY <1>8, <1>0, <2>1 DEF LooksAgain, Goto
<1>9. ASSUME NEW t \in Threads, CaptureHead(t)  PROVE MemberInv'
  <2>1. Retaining' = Retaining
    BY <1>9 DEF CaptureHead, Goto, Retaining
  <2> QED
    BY <1>9, <1>0, <2>1 DEF CaptureHead, Goto
<1>10. ASSUME NEW t \in Threads, CaptureTail(t)  PROVE MemberInv'
  <2>1. Retaining' = Retaining
    BY <1>10 DEF CaptureTail, Goto, Retaining
  <2> QED
    BY <1>10, <1>0, <2>1 DEF CaptureTail, Goto
<1>11. ASSUME NEW t \in Threads, SubmitNext(t)  PROVE MemberInv'
  <2>1. Retaining' = Retaining
    BY <1>11 DEF SubmitNext, Retaining
  <2> QED
    BY <1>11, <1>0, <2>1 DEF SubmitNext
<1>12. ASSUME NEW t \in Threads, NEW to \in PCs, SubmitLast(t, to)
       PROVE  MemberInv'
  <2>1. Retaining' = Retaining
    BY <1>12 DEF SubmitLast, Goto, Retaining
  <2> QED
    BY <1>12, <1>0, <2>1 DEF SubmitLast, Goto
<1>13. ASSUME NEW t \in Threads, WakeWaiters(t)  PROVE MemberInv'
  <2>1. Retaining' = Retaining
    BY <1>13 DEF WakeWaiters, Retaining
  <2> QED
    BY <1>13, <1>0, <2>1 DEF WakeWaiters
<1>14. ASSUME NEW t \in Threads, Release(t)  PROVE MemberInv'
  <2>1. Retaining' = Retaining
    BY <1>14 DEF Release, DropRefs, ForgetLocals, Goto, Retaining
  <2> QED
    BY <1>14, <1>0, <2>1 DEF Release, DropRefs, ForgetLocals, Goto
<1>15. ASSUME NEW t \in Threads, NEW dsn \in Notifs \ registered, Notify(t, dsn)
       PROVE  MemberInv'
  <2>1. Retaining' = Retaining
    BY <1>15 DEF Notify, Retaining
  <2> QED
    BY <1>15, <1>0, <2>1 DEF Notify
<1>16. ASSUME NEW t \in Threads, PushFirst(t)  PROVE MemberInv'
  <2>1. Retaining' = Retaining
    BY <1>16 DEF PushFirst, Goto, Retaining
  <2> QED
    BY <1>16, <1>0, <2>1 DEF PushFirst, Goto
<1>17. ASSUME NEW t \in Threads, PushLink(t)  PROVE MemberInv'
  <2>1. Retaining' = Retaining
    BY <1>17 DEF PushLink, ForgetLocals, Goto, Retaining
  <2> QED
    BY <1>17, <1>0, <2>1 DEF PushLink, ForgetLocals, Goto
<1>18. ASSUME NEW t \in Threads, NEW s \in States, FiresNotifs(t, s)
       PROVE  MemberInv'
  <2>1. Retaining' = Retaining
    BY <1>18 DEF FiresNotifs, Becomes, Goto, Retaining
  <2> QED
    BY <1>18, <1>0, <2>1 DEF FiresNotifs, Becomes, Goto
<1>19. ASSUME NEW t \in Threads, LeavesNotifs(t)  PROVE MemberInv'
  <2>1. Retaining' = Retaining
    BY <1>19 DEF LeavesNotifs, Becomes, ForgetLocals, Goto, Retaining
  <2> QED
    BY <1>19, <1>0, <2>1 DEF LeavesNotifs, Becomes, ForgetLocals, Goto
<1>20. ASSUME NEW t \in Threads, NEW time \in Timeouts, WaitStarts(t, time)
       PROVE  MemberInv'
  <2>1. Retaining' = Retaining
    BY <1>20 DEF WaitStarts, Becomes, Goto, Retaining
  <2> QED
    BY <1>20, <1>0, <2>1 DEF WaitStarts, Becomes, Goto
<1>21. ASSUME NEW t \in Threads, NEW to \in PCs, WaitReturnsNow(t, to)
       PROVE  MemberInv'
  <2>1. Retaining' = Retaining
    BY <1>21 DEF WaitReturnsNow, Goto, Retaining
  <2> QED
    BY <1>21, <1>0, <2>1 DEF WaitReturnsNow, Goto
<1>22. ASSUME NEW t \in Threads, WaitOnAddress(t)  PROVE MemberInv'
  <2>1. Retaining' = Retaining
    BY <1>22 DEF WaitOnAddress, Goto, Retaining
  <2> QED
    BY <1>22, <1>0, <2>1 DEF WaitOnAddress, Goto
<1>23. ASSUME NEW t \in Threads, WaitCheck(t)  PROVE MemberInv'
  <2>1. Retaining' = Retaining
    BY <1>23 DEF WaitCheck, Retaining
  <2> QED
    BY <1>23, <1>0, <2>1 DEF WaitCheck
<1>24. ASSUME NEW t \in Threads, WaitReturns(t)  PROVE MemberInv'
  <2>1. Retaining' = Retaining
    BY <1>24 DEF WaitReturns, ForgetLocals, Retaining
  <2> QED
    BY <1>24, <1>0, <2>1 DEF WaitReturns, ForgetLocals
<1>25. ASSUME NEW t \in Threads, SleepEnds(t)  PROVE MemberInv'
  <2>1. Retaining' = Retaining
    BY <1>25 DEF SleepEnds, Goto, Retaining
  <2> QED
    BY <1>25, <1>0, <2>1 DEF SleepEnds, Goto
<1>26. ASSUME OwnerRelease  PROVE MemberInv'
  <2>1. Retaining' = Retaining
    BY <1>26 DEF OwnerRelease, DropRefs, Retaining
  <2> QED
    BY <1>26, <1>0, <2>1 DEF OwnerRelease, DropRefs
<1>27. CASE UNCHANGED vars
  <2>1. Retaining' = Retaining
    BY <1>27 DEF vars, Retaining
  <2> QED
    BY <1>27, <2>1 DEF vars
<1> QED
  BY Steps, <1>1, <1>2, <1>3, <1>4, <1>5, <1>6, <1>7, <1>8, <1>9, <1>10,
     <1>11, <1>12, <1>13, <1>14, <1>15, <1>16, <1>17, <1>18, <1>19, <1>20,
     <1>21, <1>22, <1>23, <1>24, <1>25, <1>26, <1>27

(* References move with the members, the list and those who wake.          *)
LEMMA NextRefs ==
    ASSUME TypeOK, CallInv, LockInv, MemberInv, RefsInv, [Next]_vars
    PROVE  RefsInv'
<1> USE DEF TypeOK, States, PCs, Waking, Waiting, Notifying, RefsInv, group,
     list, locals, ghosts
<1>0. /\ Releasers \in SUBSET Threads /\ Cardinality(Releasers) \in Nat
      /\ Holders \in SUBSET Threads /\ Cardinality(Holders) \in Nat
      /\ Retaining \in SUBSET Threads /\ Cardinality(Retaining) \in Nat
      /\ Cardinality(Retaining) = 0 <=> Retaining = {}
      /\ Releasers' \in SUBSET Threads /\ Holders' \in SUBSET Threads
  <2>1. /\ Releasers \in SUBSET Threads /\ Holders \in SUBSET Threads
        /\ Releasers' \in SUBSET Threads /\ Holders' \in SUBSET Threads
        /\ Retaining \in SUBSET Threads
    BY DEF Releasers, Holders, Retaining
  <2> QED
    BY <2>1, Counts
<1>1. ASSUME NEW t \in Threads, Misuse(t)  PROVE RefsInv'
  <2>1. Releasers' = Releasers /\ Holders' = Holders /\ Retained' = Retained
    BY <1>1 DEF Misuse, Releasers, Holders, Retaining, Retained
  <2> QED
    BY <1>1, <1>0, <2>1 DEF Misuse
<1>2. ASSUME NEW t \in Threads, EnterFirst(t)  PROVE RefsInv'
  <2>1. Releasers' = Releasers /\ Holders' = Holders /\ ~Retained' /\ ~Retained
    BY <1>2 DEF EnterFirst, Becomes, Goto, Releasers, Holders, Retaining, Retained
  <2> QED
    BY <1>2, <1>0, <2>1 DEF EnterFirst, Becomes, Goto, Bit
<1>3. ASSUME NEW t \in Threads, EnterMore(t)  PROVE RefsInv'
  <2>1. Releasers' = Releasers /\ Holders' = Holders /\ Retained' = Retained
    BY <1>3 DEF EnterMore, Becomes, Releasers, Holders, Retaining, Retained
  <2> QED
    BY <1>3, <1>0, <2>1 DEF EnterMore, Becomes
<1>4. ASSUME NEW t \in Threads, EnterRetain(t)  PROVE RefsInv'
  <2>1. Releasers' = Releasers /\ Holders' = Holders
    BY <1>4 DEF EnterRetain, Goto, Releasers, Holders, Retaining, Retained
  <2>2. Retaining = {t} /\ Retaining' = {}
    BY <1>4 DEF EnterRetain, Goto, Retaining, MemberInv
  <2>3. dg_state.value > 0
    <3>1. Cardinality(Retaining) = 1
      BY <2>2, FS_Singleton
    <3> QED
      BY <3>1 DEF MemberInv
  <2> QED
    BY <1>4, <1>0, <2>1, <2>2, <2>3 DEF EnterRetain, Goto, Retained, Bit
<1>5. ASSUME NEW t \in Threads, LeaveMore(t)  PROVE RefsInv'
  <2>1. Releasers' = Releasers /\ Holders' = Holders /\ Retained' = Retained
    BY <1>5 DEF LeaveMore, Becomes, Releasers, Holders, Retaining, Retained
  <2> QED
    BY <1>5, <1>0, <2>1 DEF LeaveMore, Becomes
<1>6. ASSUME NEW t \in Threads, NEW to \in PCs, LeaveLast(t, to)  PROVE RefsInv'
  <2>0. Retaining = {}
    <3>1. dg_state.value = 1 /\ entered > 0 /\ dg_state.value = entered + Cardinality(Retaining)
      BY <1>6 DEF LeaveLast, MemberInv
    <3>2. entered \in Nat /\ Cardinality(Retaining) \in Nat
      BY <1>0
    <3>3. Cardinality(Retaining) = 0
      <4> HIDE DEF TypeOK
      <4> QED
        BY <3>1, <3>2
    <3> QED
      BY <1>0, <3>3
  <2>1. Releasers' \ {t} = Releasers \ {t} /\ Holders' \ {t} = Holders \ {t}
    BY <1>6 DEF LeaveLast, Becomes, Goto, Releasers, Holders
  <2>2. /\ Retained /\ ~Retained' /\ t \notin Releasers /\ t \in Releasers'
        /\ t \notin Holders /\ t \notin Holders'
    BY <1>6, <2>0 DEF LeaveLast, Becomes, Goto, Releasers, Holders, Retaining, Retained
  <2>3. /\ Cardinality(Releasers') =
              Cardinality(Releasers) + Bit(t \in Releasers') - Bit(t \in Releasers)
        /\ Cardinality(Holders') =
              Cardinality(Holders) + Bit(t \in Holders') - Bit(t \in Holders)
    BY <1>0, <2>1, Moves
  <2> QED
    BY <1>6, <1>0, <2>2, <2>3 DEF LeaveLast, Becomes, Goto, Bit
<1>7. ASSUME NEW t \in Threads, NEW to \in PCs, Clears(t, to)  PROVE RefsInv'
  <2>1. Releasers' \ {t} = Releasers \ {t} /\ Holders' \ {t} = Holders \ {t}
    BY <1>7 DEF Clears, Becomes, Goto, Releasers, Holders
  <2>2. /\ Retained' = Retained /\ t \notin Holders /\ (t \in Releasers' <=> t \in Releasers)
        /\ (t \in Holders' <=> dg_state.notifs) /\ ~dg_state'.notifs
    BY <1>7 DEF Clears, Becomes, Goto, Releasers, Holders, Retaining, Retained
  <2>3. /\ Cardinality(Releasers') =
              Cardinality(Releasers) + Bit(t \in Releasers') - Bit(t \in Releasers)
        /\ Cardinality(Holders') =
              Cardinality(Holders) + Bit(t \in Holders') - Bit(t \in Holders)
    BY <1>0, <2>1, Moves
  <2>4. /\ Cardinality(Releasers') = Cardinality(Releasers)
        /\ Cardinality(Holders') = Cardinality(Holders) + Bit(dg_state.notifs)
        /\ Bit(dg_state'.notifs) = 0 /\ refs' = refs /\ owned' = owned
    BY <1>7, <1>0, <2>2, <2>3, SMTT(30) DEF Clears, Bit
  <2> QED
    <3>1. Bit(owned) \in Nat /\ Bit(Retained) \in Nat /\ Bit(dg_state.notifs) \in Nat
      BY DEF Bit
    <3>2. Bit(Retained') = Bit(Retained) /\ Bit(owned') = Bit(owned)
      BY <2>2, <2>4
    <3> HIDE DEF TypeOK
    <3> QED
      BY <1>0, <2>4, <3>1, <3>2
<1>8. ASSUME NEW t \in Threads, NEW to \in PCs, LooksAgain(t, to)
      PROVE  RefsInv'
  <2>1. Releasers' = Releasers /\ Holders' = Holders /\ Retained' = Retained
    BY <1>8 DEF LooksAgain, Goto, Releasers, Holders, Retaining, Retained
  <2> QED
    BY <1>8, <1>0, <2>1 DEF LooksAgain, Goto
<1>9. ASSUME NEW t \in Threads, CaptureHead(t)  PROVE RefsInv'
  <2>1. Releasers' = Releasers /\ Holders' = Holders /\ Retained' = Retained
    BY <1>9 DEF CaptureHead, Goto, Releasers, Holders, Retaining, Retained
  <2> QED
    BY <1>9, <1>0, <2>1 DEF CaptureHead, Goto
<1>10. ASSUME NEW t \in Threads, CaptureTail(t)  PROVE RefsInv'
  <2>1. Releasers' = Releasers /\ Holders' = Holders /\ Retained' = Retained
    BY <1>10 DEF CaptureTail, Goto, Releasers, Holders, Retaining, Retained
  <2> QED
    BY <1>10, <1>0, <2>1 DEF CaptureTail, Goto
<1>11. ASSUME NEW t \in Threads, SubmitNext(t)  PROVE RefsInv'
  <2>1. Releasers' = Releasers /\ Holders' = Holders /\ Retained' = Retained
    BY <1>11 DEF SubmitNext, Releasers, Holders, Retaining, Retained
  <2> QED
    BY <1>11, <1>0, <2>1 DEF SubmitNext
<1>12. ASSUME NEW t \in Threads, NEW to \in PCs, SubmitLast(t, to)
       PROVE  RefsInv'
  <2>1. Releasers' = Releasers /\ Holders' = Holders /\ Retained' = Retained
    BY <1>12 DEF SubmitLast, Goto, Releasers, Holders, Retaining, Retained
  <2> QED
    BY <1>12, <1>0, <2>1 DEF SubmitLast, Goto
<1>13. ASSUME NEW t \in Threads, WakeWaiters(t)  PROVE RefsInv'
  <2>1. Releasers' = Releasers /\ Holders' = Holders /\ Retained' = Retained
    BY <1>13 DEF WakeWaiters, Releasers, Holders, Retaining, Retained
  <2> QED
    BY <1>13, <1>0, <2>1 DEF WakeWaiters
<1>14. ASSUME NEW t \in Threads, Release(t)  PROVE RefsInv'
  <2>1. Releasers' \ {t} = Releasers \ {t} /\ Holders' \ {t} = Holders \ {t}
    BY <1>14 DEF Release, DropRefs, ForgetLocals, Goto, Releasers, Holders
  <2>2. /\ Retained' = Retained /\ t \notin Holders' /\ t \notin Releasers'
        /\ t \in Holders <=> old_state[t].notifs
        /\ t \in Releasers <=> needs_release[t]
    BY <1>14 DEF Release, DropRefs, ForgetLocals, Goto, Releasers, Holders, Retaining, Retained
  <2>3. /\ Cardinality(Releasers') =
              Cardinality(Releasers) + Bit(t \in Releasers') - Bit(t \in Releasers)
        /\ Cardinality(Holders') =
              Cardinality(Holders) + Bit(t \in Holders') - Bit(t \in Holders)
    BY <1>0, <2>1, Moves
  <2> QED
    BY <1>14, <1>0, <2>2, <2>3 DEF Release, DropRefs, ForgetLocals, Goto, Bit
<1>15. ASSUME NEW t \in Threads, NEW dsn \in Notifs \ registered, Notify(t, dsn)
       PROVE  RefsInv'
  <2>1. Releasers' = Releasers /\ Holders' = Holders /\ Retained' = Retained
    BY <1>15 DEF Notify, Releasers, Holders, Retaining, Retained
  <2> QED
    BY <1>15, <1>0, <2>1 DEF Notify
<1>16. ASSUME NEW t \in Threads, PushFirst(t)  PROVE RefsInv'
  <2>1. Releasers' \ {t} = Releasers \ {t} /\ Holders' \ {t} = Holders \ {t}
    BY <1>16 DEF PushFirst, Goto, Releasers, Holders
  <2>2. /\ Retained' = Retained /\ t \in Holders' /\ t \notin Holders
        /\ t \notin Releasers' /\ t \notin Releasers
    BY <1>16 DEF PushFirst, Goto, Releasers, Holders, Retaining, Retained
  <2>3. /\ Cardinality(Releasers') =
              Cardinality(Releasers) + Bit(t \in Releasers') - Bit(t \in Releasers)
        /\ Cardinality(Holders') =
              Cardinality(Holders) + Bit(t \in Holders') - Bit(t \in Holders)
    BY <1>0, <2>1, Moves
  <2> QED
    BY <1>16, <1>0, <2>2, <2>3 DEF PushFirst, Goto, Bit
<1>17. ASSUME NEW t \in Threads, PushLink(t)  PROVE RefsInv'
  <2>1. Releasers' = Releasers /\ Holders' = Holders /\ Retained' = Retained
    BY <1>17 DEF PushLink, ForgetLocals, Goto, Releasers, Holders, Retaining, Retained
  <2> QED
    BY <1>17, <1>0, <2>1 DEF PushLink, ForgetLocals, Goto
<1>18. ASSUME NEW t \in Threads, NEW s \in States, FiresNotifs(t, s)
       PROVE  RefsInv'
  <2>1. Releasers' \ {t} = Releasers \ {t} /\ Holders' \ {t} = Holders \ {t}
    BY <1>18 DEF FiresNotifs, Becomes, Goto, Releasers, Holders
  <2>2. /\ Retained' = Retained /\ t \in Holders /\ t \in Holders'
        /\ t \notin Releasers' /\ t \notin Releasers
    BY <1>18 DEF FiresNotifs, Becomes, Goto, Releasers, Holders, Retaining, Retained, CallInv
  <2>3. /\ Cardinality(Releasers') =
              Cardinality(Releasers) + Bit(t \in Releasers') - Bit(t \in Releasers)
        /\ Cardinality(Holders') =
              Cardinality(Holders) + Bit(t \in Holders') - Bit(t \in Holders)
    BY <1>0, <2>1, Moves
  <2> QED
    BY <1>18, <1>0, <2>2, <2>3 DEF FiresNotifs, Becomes, Goto, Bit
<1>19. ASSUME NEW t \in Threads, LeavesNotifs(t)  PROVE RefsInv'
  <2>1. Releasers' \ {t} = Releasers \ {t} /\ Holders' \ {t} = Holders \ {t}
    BY <1>19 DEF LeavesNotifs, Becomes, ForgetLocals, Goto, Releasers, Holders
  <2>2. /\ Retained' = Retained /\ t \in Holders /\ t \notin Holders'
        /\ t \notin Releasers' /\ t \notin Releasers /\ ~dg_state.notifs
    BY <1>19 DEF LeavesNotifs, Becomes, ForgetLocals, Goto, Releasers, Holders,
       Retaining, Retained, LockInv, Responsible
  <2>3. /\ Cardinality(Releasers') =
              Cardinality(Releasers) + Bit(t \in Releasers') - Bit(t \in Releasers)
        /\ Cardinality(Holders') =
              Cardinality(Holders) + Bit(t \in Holders') - Bit(t \in Holders)
    BY <1>0, <2>1, Moves
  <2> QED
    BY <1>19, <1>0, <2>2, <2>3 DEF LeavesNotifs, Becomes, ForgetLocals, Goto, Bit
<1>20. ASSUME NEW t \in Threads, NEW time \in Timeouts, WaitStarts(t, time)
       PROVE  RefsInv'
  <2>1. Releasers' = Releasers /\ Holders' = Holders /\ Retained' = Retained
    BY <1>20 DEF WaitStarts, Becomes, Goto, Releasers, Holders, Retaining, Retained
  <2> QED
    BY <1>20, <1>0, <2>1 DEF WaitStarts, Becomes, Goto
<1>21. ASSUME NEW t \in Threads, NEW to \in PCs, WaitReturnsNow(t, to)
       PROVE  RefsInv'
  <2>1. Releasers' = Releasers /\ Holders' = Holders /\ Retained' = Retained
    BY <1>21 DEF WaitReturnsNow, Goto, Releasers, Holders, Retaining, Retained
  <2> QED
    BY <1>21, <1>0, <2>1 DEF WaitReturnsNow, Goto
<1>22. ASSUME NEW t \in Threads, WaitOnAddress(t)  PROVE RefsInv'
  <2>1. Releasers' = Releasers /\ Holders' = Holders /\ Retained' = Retained
    BY <1>22 DEF WaitOnAddress, Goto, Releasers, Holders, Retaining, Retained
  <2> QED
    BY <1>22, <1>0, <2>1 DEF WaitOnAddress, Goto
<1>23. ASSUME NEW t \in Threads, WaitCheck(t)  PROVE RefsInv'
  <2>1. Releasers' = Releasers /\ Holders' = Holders /\ Retained' = Retained
    BY <1>23 DEF WaitCheck, Releasers, Holders, Retaining, Retained
  <2> QED
    BY <1>23, <1>0, <2>1 DEF WaitCheck
<1>24. ASSUME NEW t \in Threads, WaitReturns(t)  PROVE RefsInv'
  <2>1. Releasers' = Releasers /\ Holders' = Holders /\ Retained' = Retained
    BY <1>24 DEF WaitReturns, ForgetLocals, Releasers, Holders, Retaining, Retained
  <2> QED
    BY <1>24, <1>0, <2>1 DEF WaitReturns, ForgetLocals
<1>25. ASSUME NEW t \in Threads, SleepEnds(t)  PROVE RefsInv'
  <2>1. Releasers' = Releasers /\ Holders' = Holders /\ Retained' = Retained
    BY <1>25 DEF SleepEnds, Goto, Releasers, Holders, Retaining, Retained
  <2> QED
    BY <1>25, <1>0, <2>1 DEF SleepEnds, Goto
<1>26. ASSUME OwnerRelease  PROVE RefsInv'
  <2>1. Releasers' = Releasers /\ Holders' = Holders /\ Retained' = Retained
    BY <1>26 DEF OwnerRelease, DropRefs, Releasers, Holders, Retaining, Retained
  <2> QED
    BY <1>26, <1>0, <2>1 DEF OwnerRelease, DropRefs, Bit
<1>27. CASE UNCHANGED vars
  <2>1. Releasers' = Releasers /\ Holders' = Holders /\ Retained' = Retained
    BY <1>27 DEF vars, Releasers, Holders, Retaining, Retained
  <2> QED
    BY <1>27, <1>0, <2>1 DEF vars
<1> QED
  BY Steps, <1>1, <1>2, <1>3, <1>4, <1>5, <1>6, <1>7, <1>8, <1>9, <1>10,
     <1>11, <1>12, <1>13, <1>14, <1>15, <1>16, <1>17, <1>18, <1>19, <1>20,
     <1>21, <1>22, <1>23, <1>24, <1>25, <1>26, <1>27

(* With the last reference all that could still use the group is gone.     *)
LEMMA NextOwn ==
    ASSUME TypeOK, OwnInv, TypeOK', CallInv', WakeInv', RefsInv', [Next]_vars
    PROVE  OwnInv'
<1> USE GroupAssumption DEF TypeOK, States, PCs, Waking, Waiting, Notifying,
     OwnInv, group, list, locals, ghosts
<1>0. ASSUME refs' = 0  PROVE BitsAreZero(dg_state)'
  <2>1. Releasers' \in SUBSET Threads /\ Holders' \in SUBSET Threads
    BY DEF Releasers, Holders
  <2>2. /\ Cardinality(Releasers') \in Nat /\ Cardinality(Holders') \in Nat
        /\ Cardinality(Releasers') = 0 => Releasers' = {}
    BY <2>1, Counts
  <2>3. ~owned' /\ ~Retained' /\ ~dg_state'.notifs /\ Releasers' = {}
    <3> DEFINE a == Bit(owned')
               b == Bit(Retained')
               c == Bit(dg_state'.notifs)
               d == Cardinality(Releasers')
               e == Cardinality(Holders')
    <3>1. 0 = a + b + c + d + e
      BY <1>0 DEF RefsInv
    <3>2. a \in Nat /\ b \in Nat /\ c \in Nat /\ d \in Nat /\ e \in Nat
      BY <2>2 DEF Bit
    <3> HIDE DEF a, b, c, d, e
    <3>3. a = 0 /\ b = 0 /\ c = 0 /\ d = 0
      BY <3>1, <3>2
    <3> QED
      BY <2>2, <3>3 DEF a, b, c, d, Bit
  <2>4. Retaining' = {}
    BY <2>3 DEF CallInv, Retaining
  <2>5. dg_state'.value = 0
    BY <2>3, <2>4 DEF Retained
  <2>6. ~Clearing'
    BY <2>3 DEF CallInv, Clearing, Releasers
  <2> QED
    BY <2>3, <2>5, <2>6 DEF WakeInv, BitsAreZero
<1>1. ASSUME NEW t \in Threads, Misuse(t), life = "live"  PROVE OwnInv'
  BY <1>1 DEF Misuse
<1>2. ASSUME NEW t \in Threads, EnterFirst(t), life = "live"  PROVE OwnInv'
  BY <1>2 DEF EnterFirst, Becomes, Goto
<1>3. ASSUME NEW t \in Threads, EnterMore(t), life = "live"  PROVE OwnInv'
  BY <1>3 DEF EnterMore, Becomes
<1>4. ASSUME NEW t \in Threads, EnterRetain(t), life = "live"  PROVE OwnInv'
  BY <1>4 DEF EnterRetain, Goto
<1>5. ASSUME NEW t \in Threads, LeaveMore(t), life = "live"  PROVE OwnInv'
  BY <1>5 DEF LeaveMore, Becomes
<1>6. ASSUME NEW t \in Threads, NEW to \in PCs, LeaveLast(t, to), life = "live"
      PROVE  OwnInv'
  BY <1>6 DEF LeaveLast, Becomes, Goto
<1>7. ASSUME NEW t \in Threads, NEW to \in PCs, Clears(t, to), life = "live"
      PROVE  OwnInv'
  BY <1>7 DEF Clears, Becomes, Goto
<1>8. ASSUME NEW t \in Threads, NEW to \in PCs, LooksAgain(t, to), life = "live"
      PROVE  OwnInv'
  BY <1>8 DEF LooksAgain, Goto
<1>9. ASSUME NEW t \in Threads, CaptureHead(t), life = "live"  PROVE OwnInv'
  BY <1>9 DEF CaptureHead, Goto
<1>10. ASSUME NEW t \in Threads, CaptureTail(t), life = "live"  PROVE OwnInv'
  BY <1>10 DEF CaptureTail, Goto
<1>11. ASSUME NEW t \in Threads, SubmitNext(t), life = "live"  PROVE OwnInv'
  BY <1>11 DEF SubmitNext
<1>12. ASSUME NEW t \in Threads, NEW to \in PCs, SubmitLast(t, to), life = "live"
       PROVE  OwnInv'
  BY <1>12 DEF SubmitLast, Goto
<1>13. ASSUME NEW t \in Threads, WakeWaiters(t), life = "live"  PROVE OwnInv'
  BY <1>13 DEF WakeWaiters
<1>14. ASSUME NEW t \in Threads, Release(t), life = "live"  PROVE OwnInv'
  <2> DEFINE n == (IF needs_release[t] THEN 1 ELSE 0) + (IF old_state[t].notifs THEN 1 ELSE 0)
  <2>1. n \in Nat /\ DropRefs(n)
    BY <1>14 DEF Release
  <2> HIDE DEF n
  <2>2. refs > n <=> refs' /= 0
    BY <2>1 DEF DropRefs
  <2>3. life' = IF refs' /= 0 THEN "live" ELSE "freed"
    BY <1>0, <1>14, <2>1, <2>2 DEF DropRefs, Release, BitsAreZero
  <2> QED
    BY <2>3
<1>15. ASSUME NEW t \in Threads, NEW dsn \in Notifs \ registered, Notify(t, dsn), life = "live"
       PROVE  OwnInv'
  BY <1>15 DEF Notify
<1>16. ASSUME NEW t \in Threads, PushFirst(t), life = "live"  PROVE OwnInv'
  BY <1>16 DEF PushFirst, Goto
<1>17. ASSUME NEW t \in Threads, PushLink(t), life = "live"  PROVE OwnInv'
  BY <1>17 DEF PushLink, ForgetLocals, Goto
<1>18. ASSUME NEW t \in Threads, NEW s \in States, FiresNotifs(t, s), life = "live"
       PROVE  OwnInv'
  BY <1>18 DEF FiresNotifs, Becomes, Goto
<1>19. ASSUME NEW t \in Threads, LeavesNotifs(t), life = "live"  PROVE OwnInv'
  BY <1>19 DEF LeavesNotifs, Becomes, ForgetLocals, Goto
<1>20. ASSUME NEW t \in Threads, NEW time \in Timeouts, WaitStarts(t, time), life = "live"
       PROVE  OwnInv'
  BY <1>20 DEF WaitStarts, Becomes, Goto
<1>21. ASSUME NEW t \in Threads, NEW to \in PCs, WaitReturnsNow(t, to), life = "live"
       PROVE  OwnInv'
  BY <1>21 DEF WaitReturnsNow, Goto
<1>22. ASSUME NEW t \in Threads, WaitOnAddress(t), life = "live"  PROVE OwnInv'
  BY <1>22 DEF WaitOnAddress, Goto
<1>23. ASSUME NEW t \in Threads, WaitCheck(t), life = "live"  PROVE OwnInv'
  BY <1>23 DEF WaitCheck
<1>24. ASSUME NEW t \in Threads, WaitReturns(t), life = "live"  PROVE OwnInv'
  BY <1>24 DEF WaitReturns, ForgetLocals
<1>25. ASSUME NEW t \in Threads, SleepEnds(t), life = "live"  PROVE OwnInv'
  BY <1>25 DEF SleepEnds, Goto
<1>26. ASSUME OwnerRelease, life = "live"  PROVE OwnInv'
  <2>1. refs > 1 <=> refs' /= 0
    BY <1>26 DEF OwnerRelease, DropRefs
  <2>2. life' = IF refs' /= 0 THEN "live" ELSE "freed"
    BY <1>0, <1>26, <2>1 DEF DropRefs, OwnerRelease, BitsAreZero
  <2> QED
    BY <2>2
<1>27. CASE UNCHANGED vars
  BY <1>27 DEF vars
<1> QED
  BY Steps, <1>1, <1>2, <1>3, <1>4, <1>5, <1>6, <1>7, <1>8, <1>9, <1>10,
     <1>11, <1>12, <1>13, <1>14, <1>15, <1>16, <1>17, <1>18, <1>19, <1>20,
     <1>21, <1>22, <1>23, <1>24, <1>25, <1>26, <1>27

(* A group starts without bits, with its first member or none.             *)
LEMMA InitInv ==
    Init => Inv
<1> SUFFICES ASSUME Init  PROVE Inv
  OBVIOUS
<1>1. Becomes(dg_state, 0, entered, FALSE, FALSE)
  <2>1. dg_state = [Zero EXCEPT !.value = entered] /\ entered \in {0, 1}
    BY DEF Init
  <2>2. entered \in 0..VALUE_MAX
    BY <2>1, GroupAssumption
  <2> QED
    BY <2>1, <2>2 DEF Zero, States, Becomes
<1> USE GroupAssumption DEF Init
<1>2. TypeOK
  BY <1>1 DEF TypeOK, Becomes, States, Zero, PCs, Timeouts
<1>3. CallInv
  BY DEF CallInv, Waking
<1>4. LockInv
  BY <1>1 DEF LockInv, Responsible, Becomes
<1>5. WaitInv
  BY DEF WaitInv, Waiting
<1>6. WakeInv
  BY <1>1 DEF WakeInv, Becomes
<1>7. Releasers = {} /\ Holders = {} /\ Retaining = {}
  BY DEF Releasers, Holders, Retaining, Waking
<1>8. Cardinality({}) = 0
  BY FS_EmptySet
<1>9. MemberInv
  BY <1>1, <1>7, <1>8 DEF MemberInv, Becomes
<1>10. RefsInv
  BY <1>1, <1>7, <1>8 DEF RefsInv, Retained, Becomes, Bit
<1>11. OwnInv
  BY DEF OwnInv
<1> QED
  BY <1>2, <1>3, <1>4, <1>5, <1>6, <1>9, <1>10, <1>11 DEF Inv

(* The group's bits, its waiters, its members and its references agree.    *)
THEOREM Invariant ==
    Spec => []Inv
<1>1. ASSUME Inv, [Next]_vars  PROVE Inv'
  <2> USE <1>1 DEF Inv
  <2>1. LockInv'
    BY NextLock
  <2>2. WaitInv'
    BY NextWait
  <2>3. WakeInv'
    BY NextWake
  <2>4. MemberInv'
    BY NextMember
  <2>5. RefsInv'
    BY NextRefs
  <2>6. TypeOK'
    BY <2>5, NextType
  <2>7. CallInv'
    BY NextCall
  <2>8. OwnInv'
    BY <2>3, <2>5, <2>6, <2>7, NextOwn
  <2> QED
    BY <2>1, <2>2, <2>3, <2>4, <2>5, <2>6, <2>7, <2>8
<1> QED
  BY InitInv, <1>1, PTL DEF Spec

-----------------------------------------------------------------------------
(* Every variable keeps its type: in particular the references that leaves *)
(* and wakes give back never outnumber those that were taken.              *)
THEOREM TypeCorrect ==
    Spec => []TypeOK
  BY Invariant, PTL DEF Inv

(* HAS_NOTIFS works as a lock: exactly one is responsible for a list of    *)
(* notifications that is not empty.                                        *)
THEOREM OneIsResponsible ==
    Spec => []NotifsIsALock
<1>1. Inv => NotifsIsALock
  <2> SUFFICES ASSUME Inv  PROVE NotifsIsALock
    OBVIOUS
  <2> USE DEF Inv, LockInv
  <2>1. /\ FirstPushers \in SUBSET Threads /\ Captors \in SUBSET Threads
        /\ \A t \in FirstPushers \cup Captors : Responsible(t)
        /\ FirstPushers \cap Captors = {}
    BY DEF FirstPushers, Captors, Responsible
  <2>2. Cardinality({}) = 0
    BY FS_EmptySet
  <2>3. ASSUME NEW t \in Threads, Responsible(t)
        PROVE  Cardinality(FirstPushers) + Cardinality(Captors) = 1
    <3>1. \/ FirstPushers = {t} /\ Captors = {}
          \/ FirstPushers = {} /\ Captors = {t}
      BY <2>1, <2>3 DEF FirstPushers, Captors, Responsible
    <3>2. Cardinality({t}) = 1
      BY FS_Singleton
    <3> QED
      BY <2>2, <3>1, <3>2
  <2>4. ASSUME \A t \in Threads : ~Responsible(t)
        PROVE  Cardinality(FirstPushers) = 0 /\ Cardinality(Captors) = 0
    <3>1. FirstPushers = {} /\ Captors = {}
      BY <2>1, <2>4
    <3> QED
      BY <2>2, <3>1
  <2>5. CASE \E t \in Threads : Responsible(t)
    BY <2>3, <2>5 DEF NotifsIsALock
  <2>6. CASE \A t \in Threads : ~Responsible(t)
    BY <2>4, <2>6 DEF NotifsIsALock
  <2> QED
    BY <2>5, <2>6
<1> QED
  BY <1>1, Invariant, PTL

(* dispatch_group_wait reports success only if the group has been empty    *)
(* since the wait began.                                                   *)
THEOREM SuccessMeansEmpty ==
    Spec => []WaitMeansEmpty
<1>1. Inv => WaitMeansEmpty
  BY DEF Inv, WaitInv, WaitMeansEmpty
<1> QED
  BY <1>1, Invariant, PTL

(* No wake is lost: a thread asleep in an earlier generation has a waker.  *)
THEOREM WakesAreNotLost ==
    Spec => []SleepersHaveAWaker
<1>1. Inv => SleepersHaveAWaker
  BY DEF Inv, WakeInv, SleepersHaveAWaker, Clearing, Waker
<1> QED
  BY <1>1, Invariant, PTL

(* However early its owner releases it, the group is disposed of only when *)
(* it has neither members nor bits set.                                    *)
THEOREM DisposedWhenUnused ==
    Spec => []NotDisposedInUse
<1>1. Inv => NotDisposedInUse
  BY DEF Inv, OwnInv, NotDisposedInUse
<1> QED
  BY <1>1, Invariant, PTL

-----------------------------------------------------------------------------
(* The list of notifications: every notification is submitted, and once    *)
(* only, before the group is disposed of.                                  *)

(* The head is linked from set_notifs on, and taken before the tail is.    *)
HeadInv ==
    /\ dg_notify_head /= NULL =>
          /\ dg_notify_tail /= NULL
          /\ \A t \in Threads :
                pc[t] /= "capture_tail" /\ ~(pc[t] = "push_prev" /\ other[t] = NULL)
    /\ dg_state.notifs => dg_notify_head /= NULL
    /\ \A t \in Threads :
          pc[t] \in {"set_notifs", "capture_head"} => dg_notify_head /= NULL

(* In the order r of their registration the notifications registered so    *)
(* far are numbered below k, and the last one is the tail.                 *)
Order(r, k) ==
    /\ \A n \in registered : r[n] < k
    /\ \A m, n \in registered : r[m] = r[n] => m = n
    /\ dg_notify_tail /= NULL =>
          dg_notify_tail \in registered /\ r[dg_notify_tail] + 1 = k

(* Links, written or still to be written, lead from a notification to the  *)
(* next one in the order of registration.                                  *)
Links(r) ==
    /\ \A n \in Notifs : do_next[n] /= NULL =>
          n \in registered /\ do_next[n] \in registered /\ r[do_next[n]] = r[n] + 1
    /\ dg_notify_head /= NULL => dg_notify_head \in registered
    /\ \A t \in Threads :
          /\ pc[t] = "push_prev" =>
                /\ dc[t] \in registered
                /\ other[t] /= NULL => other[t] \in registered /\ r[dc[t]] = r[other[t]] + 1
          /\ pc[t] \in {"capture_tail", "submit"} => dc[t] \in registered
          /\ pc[t] = "submit" => other[t] \in registered /\ r[dc[t]] <= r[other[t]]

(* The first notification of the list that nobody has taken yet. *)
First(m) ==
    \/ dg_notify_head = m
    \/ \E t \in Threads : pc[t] = "push_prev" /\ other[t] = NULL /\ dc[t] = m

Listed(r, n) == \E m \in registered : First(m) /\ r[m] <= r[n]

(* t has taken n and is still to submit it. *)
Taken(r, t, n) ==
    /\ pc[t] \in {"capture_tail", "submit"} /\ r[dc[t]] <= r[n]
    /\ pc[t] = "submit" => r[n] <= r[other[t]]

(* A registered notification is in the list, or in the one part that a     *)
(* single thread has taken, or it has been submitted once.                 *)
Places(r) ==
    /\ \A n \in Notifs \ registered : submits[n] = 0
    /\ \A n \in registered :
          /\ Listed(r, n) => submits[n] = 0
          /\ \A t \in Threads : Taken(r, t, n) => submits[n] = 0 /\ ~Listed(r, n)
          /\ \A t, u \in Threads : Taken(r, t, n) /\ Taken(r, u, n) => t = u
          /\ ~Listed(r, n) /\ (\A t \in Threads : ~Taken(r, t, n)) => submits[n] = 1

ListInv == \E r \in [Notifs -> Nat], k \in Nat : Order(r, k) /\ Links(r) /\ Places(r)

-----------------------------------------------------------------------------
(* The head is linked before the bit is set and taken by the one that is   *)
(* responsible for the list.                                               *)
LEMMA NextHead ==
    ASSUME TypeOK, CallInv, LockInv, HeadInv, [Next]_vars
    PROVE  HeadInv'
<1> USE GroupAssumption DEF TypeOK, PCs, Waking, Waiting, Notifying, States,
     CallInv, LockInv, Responsible, HeadInv, group, list, locals, ghosts
<1>1. ASSUME NEW t \in Threads, Misuse(t)  PROVE HeadInv'
  BY <1>1 DEF Misuse
<1>2. ASSUME NEW t \in Threads, EnterFirst(t)  PROVE HeadInv'
  BY <1>2 DEF EnterFirst, Becomes, Goto
<1>3. ASSUME NEW t \in Threads, EnterMore(t)  PROVE HeadInv'
  BY <1>3 DEF EnterMore, Becomes
<1>4. ASSUME NEW t \in Threads, EnterRetain(t)  PROVE HeadInv'
  BY <1>4 DEF EnterRetain, Goto
<1>5. ASSUME NEW t \in Threads, LeaveMore(t)  PROVE HeadInv'
  BY <1>5 DEF LeaveMore, Becomes
<1>6. ASSUME NEW t \in Threads, NEW to \in PCs, LeaveLast(t, to)  PROVE HeadInv'
  BY <1>6 DEF LeaveLast, Becomes, Goto
<1>7. ASSUME NEW t \in Threads, NEW to \in PCs, Clears(t, to)  PROVE HeadInv'
  BY <1>7 DEF Clears, Becomes, Goto
<1>8. ASSUME NEW t \in Threads, NEW to \in PCs, LooksAgain(t, to)
      PROVE  HeadInv'
  BY <1>8 DEF LooksAgain, Goto
<1>9. ASSUME NEW t \in Threads, CaptureHead(t)  PROVE HeadInv'
  BY <1>9 DEF CaptureHead, Goto
<1>10. ASSUME NEW t \in Threads, CaptureTail(t)  PROVE HeadInv'
  BY <1>10 DEF CaptureTail, Goto
<1>11. ASSUME NEW t \in Threads, SubmitNext(t)  PROVE HeadInv'
  BY <1>11 DEF SubmitNext
<1>12. ASSUME NEW t \in Threads, NEW to \in PCs, SubmitLast(t, to)
       PROVE  HeadInv'
  BY <1>12 DEF SubmitLast, Goto
<1>13. ASSUME NEW t \in Threads, WakeWaiters(t)  PROVE HeadInv'
  BY <1>13 DEF WakeWaiters
<1>14. ASSUME NEW t \in Threads, Release(t)  PROVE HeadInv'
  BY <1>14 DEF Release, DropRefs, ForgetLocals, Goto
<1>15. ASSUME NEW t \in Threads, NEW dsn \in Notifs \ registered, Notify(t, dsn)
       PROVE  HeadInv'
  BY <1>15 DEF Notify
<1>16. ASSUME NEW t \in Threads, PushFirst(t)  PROVE HeadInv'
  BY <1>16 DEF PushFirst, Goto
<1>17. ASSUME NEW t \in Threads, PushLink(t)  PROVE HeadInv'
  BY <1>17 DEF PushLink, ForgetLocals, Goto
<1>18. ASSUME NEW t \in Threads, NEW s \in States, FiresNotifs(t, s)
       PROVE  HeadInv'
  BY <1>18 DEF FiresNotifs, Becomes, Goto
<1>19. ASSUME NEW t \in Threads, LeavesNotifs(t)  PROVE HeadInv'
  BY <1>19 DEF LeavesNotifs, Becomes, ForgetLocals, Goto
<1>20. ASSUME NEW t \in Threads, NEW time \in Timeouts, WaitStarts(t, time)
       PROVE  HeadInv'
  BY <1>20 DEF WaitStarts, Becomes, Goto
<1>21. ASSUME NEW t \in Threads, NEW to \in PCs, WaitReturnsNow(t, to)
       PROVE  HeadInv'
  BY <1>21 DEF WaitReturnsNow, Goto
<1>22. ASSUME NEW t \in Threads, WaitOnAddress(t)  PROVE HeadInv'
  <2>1. \A u \in Threads : Responsible(u)' = Responsible(u)
    BY <1>22 DEF WaitOnAddress, Goto
  <2> QED
    BY <1>22, <2>1 DEF WaitOnAddress, Goto
<1>23. ASSUME NEW t \in Threads, WaitCheck(t)  PROVE HeadInv'
  BY <1>23 DEF WaitCheck
<1>24. ASSUME NEW t \in Threads, WaitReturns(t)  PROVE HeadInv'
  BY <1>24 DEF WaitReturns, ForgetLocals
<1>25. ASSUME NEW t \in Threads, SleepEnds(t)  PROVE HeadInv'
  BY <1>25 DEF SleepEnds, Goto
<1>26. ASSUME OwnerRelease  PROVE HeadInv'
  BY <1>26 DEF OwnerRelease, DropRefs
<1>27. CASE UNCHANGED vars
  BY <1>27 DEF vars
<1> QED
  BY Steps, <1>1, <1>2, <1>3, <1>4, <1>5, <1>6, <1>7, <1>8, <1>9, <1>10,
     <1>11, <1>12, <1>13, <1>14, <1>15, <1>16, <1>17, <1>18, <1>19, <1>20,
     <1>21, <1>22, <1>23, <1>24, <1>25, <1>26, <1>27

(* The numbers stay: only a registration adds one, and only the capture    *)
(* takes the tail.                                                         *)
LEMMA NextOrder ==
    ASSUME NEW r \in [Notifs -> Nat], NEW k \in Nat, TypeOK, Order(r, k),
           registered' = registered, [Next]_vars
    PROVE  Order(r, k)'
<1> USE GroupAssumption DEF TypeOK, PCs, Waking, Waiting, Notifying, Order,
     group, list, locals, ghosts
<1>1. ASSUME NEW t \in Threads, Misuse(t)  PROVE Order(r, k)'
  BY <1>1 DEF Misuse
<1>2. ASSUME NEW t \in Threads, EnterFirst(t)  PROVE Order(r, k)'
  BY <1>2 DEF EnterFirst, Becomes, Goto
<1>3. ASSUME NEW t \in Threads, EnterMore(t)  PROVE Order(r, k)'
  BY <1>3 DEF EnterMore, Becomes
<1>4. ASSUME NEW t \in Threads, EnterRetain(t)  PROVE Order(r, k)'
  BY <1>4 DEF EnterRetain, Goto
<1>5. ASSUME NEW t \in Threads, LeaveMore(t)  PROVE Order(r, k)'
  BY <1>5 DEF LeaveMore, Becomes
<1>6. ASSUME NEW t \in Threads, NEW to \in PCs, LeaveLast(t, to)
      PROVE  Order(r, k)'
  BY <1>6 DEF LeaveLast, Becomes, Goto
<1>7. ASSUME NEW t \in Threads, NEW to \in PCs, Clears(t, to)
      PROVE  Order(r, k)'
  BY <1>7 DEF Clears, Becomes, Goto
<1>8. ASSUME NEW t \in Threads, NEW to \in PCs, LooksAgain(t, to)
      PROVE  Order(r, k)'
  BY <1>8 DEF LooksAgain, Goto
<1>9. ASSUME NEW t \in Threads, CaptureHead(t)  PROVE Order(r, k)'
  BY <1>9 DEF CaptureHead, Goto
<1>10. ASSUME NEW t \in Threads, CaptureTail(t)  PROVE Order(r, k)'
  BY <1>10 DEF CaptureTail, Goto
<1>11. ASSUME NEW t \in Threads, SubmitNext(t)  PROVE Order(r, k)'
  BY <1>11 DEF SubmitNext
<1>12. ASSUME NEW t \in Threads, NEW to \in PCs, SubmitLast(t, to)
       PROVE  Order(r, k)'
  BY <1>12 DEF SubmitLast, Goto
<1>13. ASSUME NEW t \in Threads, WakeWaiters(t)  PROVE Order(r, k)'
  BY <1>13 DEF WakeWaiters
<1>14. ASSUME NEW t \in Threads, Release(t)  PROVE Order(r, k)'
  BY <1>14 DEF Release, DropRefs, ForgetLocals, Goto
<1>15. ASSUME NEW t \in Threads, NEW dsn \in Notifs \ registered, Notify(t, dsn)
       PROVE  Order(r, k)'
  BY <1>15 DEF Notify
<1>16. ASSUME NEW t \in Threads, PushFirst(t)  PROVE Order(r, k)'
  BY <1>16 DEF PushFirst, Goto
<1>17. ASSUME NEW t \in Threads, PushLink(t)  PROVE Order(r, k)'
  BY <1>17 DEF PushLink, ForgetLocals, Goto
<1>18. ASSUME NEW t \in Threads, NEW s \in States, FiresNotifs(t, s)
       PROVE  Order(r, k)'
  BY <1>18 DEF FiresNotifs, Becomes, Goto
<1>19. ASSUME NEW t \in Threads, LeavesNotifs(t)  PROVE Order(r, k)'
  BY <1>19 DEF LeavesNotifs, Becomes, ForgetLocals, Goto
<1>20. ASSUME NEW t \in Threads, NEW time \in Timeouts, WaitStarts(t, time)
       PROVE  Order(r, k)'
  BY <1>20 DEF WaitStarts, Becomes, Goto
<1>21. ASSUME NEW t \in Threads, NEW to \in PCs, WaitReturnsNow(t, to)
       PROVE  Order(r, k)'
  BY <1>21 DEF WaitReturnsNow, Goto
<1>22. ASSUME NEW t \in Threads, WaitOnAddress(t)  PROVE Order(r, k)'
  BY <1>22 DEF WaitOnAddress, Goto
<1>23. ASSUME NEW t \in Threads, WaitCheck(t)  PROVE Order(r, k)'
  BY <1>23 DEF WaitCheck
<1>24. ASSUME NEW t \in Threads, WaitReturns(t)  PROVE Order(r, k)'
  BY <1>24 DEF WaitReturns, ForgetLocals
<1>25. ASSUME NEW t \in Threads, SleepEnds(t)  PROVE Order(r, k)'
  BY <1>25 DEF SleepEnds, Goto
<1>26. ASSUME OwnerRelease  PROVE Order(r, k)'
  BY <1>26 DEF OwnerRelease, DropRefs
<1>27. CASE UNCHANGED vars
  BY <1>27 DEF vars
<1> QED
  BY Steps, <1>1, <1>2, <1>3, <1>4, <1>5, <1>6, <1>7, <1>8, <1>9, <1>10,
     <1>11, <1>12, <1>13, <1>14, <1>15, <1>16, <1>17, <1>18, <1>19, <1>20,
     <1>21, <1>22, <1>23, <1>24, <1>25, <1>26, <1>27

(* A submission moves one number on, and links are written as promised.    *)
LEMMA NextLinks ==
    ASSUME NEW r \in [Notifs -> Nat], NEW k \in Nat, TypeOK, LockInv, HeadInv,
           Order(r, k), Links(r), registered' = registered, [Next]_vars
    PROVE  Links(r)'
<1> USE GroupAssumption DEF TypeOK, PCs, Waking, Waiting, Notifying, Order,
     Links, group, list, locals, ghosts
<1>1. ASSUME NEW t \in Threads, Misuse(t)  PROVE Links(r)'
  BY <1>1 DEF Misuse
<1>2. ASSUME NEW t \in Threads, EnterFirst(t)  PROVE Links(r)'
  BY <1>2 DEF EnterFirst, Becomes, Goto
<1>3. ASSUME NEW t \in Threads, EnterMore(t)  PROVE Links(r)'
  BY <1>3 DEF EnterMore, Becomes
<1>4. ASSUME NEW t \in Threads, EnterRetain(t)  PROVE Links(r)'
  BY <1>4 DEF EnterRetain, Goto
<1>5. ASSUME NEW t \in Threads, LeaveMore(t)  PROVE Links(r)'
  BY <1>5 DEF LeaveMore, Becomes
<1>6. ASSUME NEW t \in Threads, NEW to \in PCs, LeaveLast(t, to)
      PROVE  Links(r)'
  BY <1>6 DEF LeaveLast, Becomes, Goto
<1>7. ASSUME NEW t \in Threads, NEW to \in PCs, Clears(t, to)  PROVE Links(r)'
  BY <1>7 DEF Clears, Becomes, Goto
<1>8. ASSUME NEW t \in Threads, NEW to \in PCs, LooksAgain(t, to)
      PROVE  Links(r)'
  BY <1>8 DEF LooksAgain, Goto
<1>9. ASSUME NEW t \in Threads, CaptureHead(t)  PROVE Links(r)'
  BY <1>9 DEF CaptureHead, Goto
<1>10. ASSUME NEW t \in Threads, CaptureTail(t)  PROVE Links(r)'
  <2>1. dg_notify_tail /= NULL
    BY <1>10 DEF CaptureTail, Goto, LockInv, Responsible
  <2>2. dg_notify_tail \in registered /\ r[dc[t]] <= r[dg_notify_tail]
    BY <1>10, <2>1 DEF CaptureTail, Goto
  <2> QED
    BY <1>10, <2>2 DEF CaptureTail, Goto
<1>11. ASSUME NEW t \in Threads, SubmitNext(t)  PROVE Links(r)'
  <2>1. /\ dc[t] \in registered /\ other[t] \in registered /\ r[dc[t]] <= r[other[t]]
        /\ r[dc[t]] /= r[other[t]]
    BY <1>11 DEF SubmitNext
  <2>2. /\ do_next[dc[t]] \in registered
        /\ r[do_next[dc[t]]] = r[dc[t]] + 1
    BY <1>11, <2>1 DEF SubmitNext
  <2>3. r[do_next[dc[t]]] <= r[other[t]]
    BY <2>1, <2>2
  <2> QED
    BY <1>11, <2>2, <2>3 DEF SubmitNext
<1>12. ASSUME NEW t \in Threads, NEW to \in PCs, SubmitLast(t, to)
       PROVE  Links(r)'
  BY <1>12 DEF SubmitLast, Goto
<1>13. ASSUME NEW t \in Threads, WakeWaiters(t)  PROVE Links(r)'
  BY <1>13 DEF WakeWaiters
<1>14. ASSUME NEW t \in Threads, Release(t)  PROVE Links(r)'
  BY <1>14 DEF Release, DropRefs, ForgetLocals, Goto
<1>15. ASSUME NEW t \in Threads, NEW dsn \in Notifs \ registered, Notify(t, dsn)
       PROVE  Links(r)'
  BY <1>15 DEF Notify
<1>16. ASSUME NEW t \in Threads, PushFirst(t)  PROVE Links(r)'
  BY <1>16 DEF PushFirst, Goto
<1>17. ASSUME NEW t \in Threads, PushLink(t)  PROVE Links(r)'
  BY <1>17 DEF PushLink, ForgetLocals, Goto
<1>18. ASSUME NEW t \in Threads, NEW s \in States, FiresNotifs(t, s)
       PROVE  Links(r)'
  BY <1>18 DEF FiresNotifs, Becomes, Goto
<1>19. ASSUME NEW t \in Threads, LeavesNotifs(t)  PROVE Links(r)'
  BY <1>19 DEF LeavesNotifs, Becomes, ForgetLocals, Goto
<1>20. ASSUME NEW t \in Threads, NEW time \in Timeouts, WaitStarts(t, time)
       PROVE  Links(r)'
  BY <1>20 DEF WaitStarts, Becomes, Goto
<1>21. ASSUME NEW t \in Threads, NEW to \in PCs, WaitReturnsNow(t, to)
       PROVE  Links(r)'
  BY <1>21 DEF WaitReturnsNow, Goto
<1>22. ASSUME NEW t \in Threads, WaitOnAddress(t)  PROVE Links(r)'
  BY <1>22 DEF WaitOnAddress, Goto
<1>23. ASSUME NEW t \in Threads, WaitCheck(t)  PROVE Links(r)'
  BY <1>23 DEF WaitCheck
<1>24. ASSUME NEW t \in Threads, WaitReturns(t)  PROVE Links(r)'
  BY <1>24 DEF WaitReturns, ForgetLocals
<1>25. ASSUME NEW t \in Threads, SleepEnds(t)  PROVE Links(r)'
  BY <1>25 DEF SleepEnds, Goto
<1>26. ASSUME OwnerRelease  PROVE Links(r)'
  BY <1>26 DEF OwnerRelease, DropRefs
<1>27. CASE UNCHANGED vars
  BY <1>27 DEF vars
<1> QED
  BY Steps, <1>1, <1>2, <1>3, <1>4, <1>5, <1>6, <1>7, <1>8, <1>9, <1>10,
     <1>11, <1>12, <1>13, <1>14, <1>15, <1>16, <1>17, <1>18, <1>19, <1>20,
     <1>21, <1>22, <1>23, <1>24, <1>25, <1>26, <1>27

(* A capture takes the whole list, a submission the next notification.     *)
LEMMA NextPlaces ==
    ASSUME NEW r \in [Notifs -> Nat], NEW k \in Nat, TypeOK, LockInv, HeadInv,
           Order(r, k), Links(r), Places(r), registered' = registered, [Next]_vars
    PROVE  Places(r)'
<1> USE GroupAssumption DEF TypeOK, PCs, Waking, Waiting, Notifying, Places,
     group, list, locals, ghosts
<1>0. ASSUME \A m \in Notifs : First(m)' <=> First(m),
             \A u \in Threads, n \in registered : Taken(r, u, n)' <=> Taken(r, u, n),
             submits' = submits
      PROVE  Places(r)'
  BY <1>0 DEF Listed
<1>a. ASSUME NEW t \in Threads, Taken(r, t, dc[t]), dc[t] \in registered,
             \A m \in Notifs : First(m)' <=> First(m),
             \A u \in Threads \ {t}, n \in registered : Taken(r, u, n)' <=> Taken(r, u, n),
             \A n \in registered : Taken(r, t, n)' <=> Taken(r, t, n) /\ n /= dc[t],
             submits' = [submits EXCEPT ![dc[t]] = @ + 1]
      PROVE  Places(r)'
  <2>1. \A n \in registered : Listed(r, n)' <=> Listed(r, n)
    BY <1>a DEF Listed
  <2>2. /\ submits'[dc[t]] = 1 /\ ~Listed(r, dc[t])
        /\ \A n \in Notifs : n /= dc[t] => submits'[n] = submits[n]
    BY <1>a
  <2>3. registered \subseteq Notifs  OBVIOUS
  <2> HIDE DEF TypeOK, PCs, Waking, Waiting, Notifying, group, list, locals, ghosts
  <2>4. \A n \in Notifs \ registered' : submits'[n] = 0
    BY <1>a, <2>2
  <2>5. ASSUME NEW n \in registered', n = dc[t]
        PROVE  /\ submits'[n] = 1 /\ ~Listed(r, n)' /\ \A u \in Threads : ~Taken(r, u, n)'
    BY <1>a, <2>1, <2>2, <2>5
  <2>6. ASSUME NEW n \in registered', n /= dc[t]
        PROVE  /\ submits'[n] = submits[n] /\ (Listed(r, n)' <=> Listed(r, n))
               /\ \A u \in Threads : Taken(r, u, n)' <=> Taken(r, u, n)
    BY <1>a, <2>1, <2>2, <2>3, <2>6
  <2>7. ASSUME NEW n \in registered'
        PROVE  /\ Listed(r, n)' => submits'[n] = 0
               /\ \A u \in Threads : Taken(r, u, n)' => submits'[n] = 0 /\ ~Listed(r, n)'
               /\ \A u, v \in Threads : Taken(r, u, n)' /\ Taken(r, v, n)' => u = v
               /\ ~Listed(r, n)' /\ (\A u \in Threads : ~Taken(r, u, n)') => submits'[n] = 1
    BY <2>5, <2>6
  <2> QED
    BY <2>4, <2>7
<1>1. ASSUME NEW t \in Threads, Misuse(t)  PROVE Places(r)'
  <2>1. \A m \in Notifs : First(m)' <=> First(m)
    BY <1>1 DEF Misuse, First
  <2>2. \A u \in Threads, n \in registered : Taken(r, u, n)' <=> Taken(r, u, n)
    BY <1>1 DEF Misuse, Taken
  <2> QED
    BY <1>1, <1>0, <2>1, <2>2 DEF Misuse
<1>2. ASSUME NEW t \in Threads, EnterFirst(t)  PROVE Places(r)'
  <2>1. \A m \in Notifs : First(m)' <=> First(m)
    BY <1>2 DEF EnterFirst, Becomes, Goto, First
  <2>2. \A u \in Threads, n \in registered : Taken(r, u, n)' <=> Taken(r, u, n)
    BY <1>2 DEF EnterFirst, Becomes, Goto, Taken
  <2> QED
    BY <1>2, <1>0, <2>1, <2>2 DEF EnterFirst, Becomes, Goto
<1>3. ASSUME NEW t \in Threads, EnterMore(t)  PROVE Places(r)'
  <2>1. \A m \in Notifs : First(m)' <=> First(m)
    BY <1>3 DEF EnterMore, Becomes, First
  <2>2. \A u \in Threads, n \in registered : Taken(r, u, n)' <=> Taken(r, u, n)
    BY <1>3 DEF EnterMore, Becomes, Taken
  <2> QED
    BY <1>3, <1>0, <2>1, <2>2 DEF EnterMore, Becomes
<1>4. ASSUME NEW t \in Threads, EnterRetain(t)  PROVE Places(r)'
  <2>1. \A m \in Notifs : First(m)' <=> First(m)
    BY <1>4 DEF EnterRetain, Goto, First
  <2>2. \A u \in Threads, n \in registered : Taken(r, u, n)' <=> Taken(r, u, n)
    BY <1>4 DEF EnterRetain, Goto, Taken
  <2> QED
    BY <1>4, <1>0, <2>1, <2>2 DEF EnterRetain, Goto
<1>5. ASSUME NEW t \in Threads, LeaveMore(t)  PROVE Places(r)'
  <2>1. \A m \in Notifs : First(m)' <=> First(m)
    BY <1>5 DEF LeaveMore, Becomes, First
  <2>2. \A u \in Threads, n \in registered : Taken(r, u, n)' <=> Taken(r, u, n)
    BY <1>5 DEF LeaveMore, Becomes, Taken
  <2> QED
    BY <1>5, <1>0, <2>1, <2>2 DEF LeaveMore, Becomes
<1>6. ASSUME NEW t \in Threads, NEW to \in PCs, LeaveLast(t, to)
      PROVE  Places(r)'
  <2>1. \A m \in Notifs : First(m)' <=> First(m)
    BY <1>6 DEF LeaveLast, Becomes, Goto, First
  <2>2. \A u \in Threads, n \in registered : Taken(r, u, n)' <=> Taken(r, u, n)
    BY <1>6 DEF LeaveLast, Becomes, Goto, Taken
  <2> QED
    BY <1>6, <1>0, <2>1, <2>2 DEF LeaveLast, Becomes, Goto
<1>7. ASSUME NEW t \in Threads, NEW to \in PCs, Clears(t, to)  PROVE Places(r)'
  <2>1. \A m \in Notifs : First(m)' <=> First(m)
    BY <1>7 DEF Clears, Becomes, Goto, First
  <2>2. \A u \in Threads, n \in registered : Taken(r, u, n)' <=> Taken(r, u, n)
    BY <1>7 DEF Clears, Becomes, Goto, Taken
  <2> QED
    BY <1>7, <1>0, <2>1, <2>2 DEF Clears, Becomes, Goto
<1>8. ASSUME NEW t \in Threads, NEW to \in PCs, LooksAgain(t, to)
      PROVE  Places(r)'
  <2>1. \A m \in Notifs : First(m)' <=> First(m)
    BY <1>8 DEF LooksAgain, Goto, First
  <2>2. \A u \in Threads, n \in registered : Taken(r, u, n)' <=> Taken(r, u, n)
    BY <1>8 DEF LooksAgain, Goto, Taken
  <2> QED
    BY <1>8, <1>0, <2>1, <2>2 DEF LooksAgain, Goto
<1>9. ASSUME NEW t \in Threads, CaptureHead(t)  PROVE Places(r)'
  <2>1. /\ dg_notify_head \in registered
        /\ \A n \in registered : Listed(r, n) <=> r[dg_notify_head] <= r[n]
    BY <1>9 DEF CaptureHead, Goto, Listed, First, HeadInv, Links
  <2>2. \A n \in registered : ~Listed(r, n)'
    BY <1>9 DEF CaptureHead, Goto, Listed, First, HeadInv
  <2>3. \A u \in Threads \ {t}, n \in registered : Taken(r, u, n)' <=> Taken(r, u, n)
    BY <1>9 DEF CaptureHead, Goto, Taken
  <2>4. \A n \in registered : ~Taken(r, t, n) /\ (Taken(r, t, n)' <=> r[dg_notify_head] <= r[n])
    BY <1>9 DEF CaptureHead, Goto, Taken
  <2>5. submits' = submits
    BY <1>9 DEF CaptureHead
  <2> QED
    BY <2>1, <2>2, <2>3, <2>4, <2>5
<1>10. ASSUME NEW t \in Threads, CaptureTail(t)  PROVE Places(r)'
  <2>1. \A m \in Notifs : First(m)' <=> First(m)
    BY <1>10 DEF CaptureTail, Goto, First
  <2>2. dg_notify_tail /= NULL
    BY <1>10 DEF CaptureTail, Goto, LockInv, Responsible
  <2>3. \A n \in registered : r[n] <= r[dg_notify_tail]
    BY <2>2 DEF Order
  <2>4. \A u \in Threads, n \in registered : Taken(r, u, n)' <=> Taken(r, u, n)
    BY <1>10, <2>3 DEF CaptureTail, Goto, Taken
  <2> QED
    BY <1>10, <1>0, <2>1, <2>4 DEF CaptureTail, Goto
<1>11. ASSUME NEW t \in Threads, SubmitNext(t)  PROVE Places(r)'
  <2>1. \A m \in Notifs : First(m)' <=> First(m)
    BY <1>11 DEF SubmitNext, First
  <2>2. dc[t] \in registered /\ other[t] \in registered /\ Taken(r, t, dc[t])
    BY <1>11 DEF SubmitNext, Links, Taken
  <2>3. \A u \in Threads \ {t}, n \in registered : Taken(r, u, n)' <=> Taken(r, u, n)
    BY <1>11 DEF SubmitNext, Taken
  <2>4. \A n \in registered : Taken(r, t, n)' <=> Taken(r, t, n) /\ n /= dc[t]
    <3>1. /\ \A n \in registered : r[n] = r[dc[t]] => n = dc[t]
          /\ \A n \in registered : r[n] \in Nat
      BY <2>2 DEF Order
    <3>2. dc'[t] = do_next[dc[t]] /\ r[dc'[t]] = r[dc[t]] + 1 /\ r[dc[t]] \in Nat
      BY <1>11, <2>2 DEF SubmitNext, Links
    <3>3. \A n \in registered : r[dc'[t]] <= r[n] <=> r[dc[t]] <= r[n] /\ n /= dc[t]
      BY <2>2, <3>1, <3>2
    <3> QED
      BY <1>11, <3>3 DEF SubmitNext, Taken
  <2>5. submits' = [submits EXCEPT ![dc[t]] = @ + 1]
    BY <1>11 DEF SubmitNext
  <2> QED
    BY <1>a, <2>1, <2>2, <2>3, <2>4, <2>5
<1>12. ASSUME NEW t \in Threads, NEW to \in PCs, SubmitLast(t, to)
       PROVE  Places(r)'
  <2>1. \A m \in Notifs : First(m)' <=> First(m)
    BY <1>12 DEF SubmitLast, Goto, First
  <2>2. dc[t] \in registered /\ other[t] \in registered /\ Taken(r, t, dc[t])
    BY <1>12 DEF SubmitLast, Goto, Links, Taken
  <2>3. \A u \in Threads \ {t}, n \in registered : Taken(r, u, n)' <=> Taken(r, u, n)
    BY <1>12 DEF SubmitLast, Goto, Taken
  <2>4. \A n \in registered : Taken(r, t, n)' <=> Taken(r, t, n) /\ n /= dc[t]
    <3>1. \A n \in registered : r[n] = r[dc[t]] => n = dc[t]
      BY <2>2 DEF Order
    <3>2. \A n \in registered : Taken(r, t, n) => r[n] = r[dc[t]]
      <4>1. dc[t] = other[t] /\ pc[t] = "submit" /\ \A n \in registered : r[n] \in Nat
        BY <1>12 DEF SubmitLast, Goto
      <4> QED
        BY ONLY <2>2, <4>1 DEF Taken
    <3> QED
      BY <1>12, <3>1, <3>2 DEF SubmitLast, Goto, Taken
  <2>5. submits' = [submits EXCEPT ![dc[t]] = @ + 1]
    BY <1>12 DEF SubmitLast
  <2> QED
    BY <1>a, <2>1, <2>2, <2>3, <2>4, <2>5
<1>13. ASSUME NEW t \in Threads, WakeWaiters(t)  PROVE Places(r)'
  <2>1. \A m \in Notifs : First(m)' <=> First(m)
    BY <1>13 DEF WakeWaiters, First
  <2>2. \A u \in Threads, n \in registered : Taken(r, u, n)' <=> Taken(r, u, n)
    BY <1>13 DEF WakeWaiters, Taken
  <2> QED
    BY <1>13, <1>0, <2>1, <2>2 DEF WakeWaiters
<1>14. ASSUME NEW t \in Threads, Release(t)  PROVE Places(r)'
  <2>1. \A m \in Notifs : First(m)' <=> First(m)
    BY <1>14 DEF Release, DropRefs, ForgetLocals, Goto, First
  <2>2. \A u \in Threads, n \in registered : Taken(r, u, n)' <=> Taken(r, u, n)
    BY <1>14 DEF Release, DropRefs, ForgetLocals, Goto, Taken
  <2> QED
    BY <1>14, <1>0, <2>1, <2>2 DEF Release, DropRefs, ForgetLocals, Goto
<1>15. ASSUME NEW t \in Threads, NEW dsn \in Notifs \ registered, Notify(t, dsn)
       PROVE  Places(r)'
  BY <1>15 DEF Notify
<1>16. ASSUME NEW t \in Threads, PushFirst(t)  PROVE Places(r)'
  <2>1. dg_notify_head = NULL /\ \A u \in Threads : Responsible(u) => u = t
    BY <1>16 DEF PushFirst, Goto, HeadInv, LockInv, Responsible
  <2>2. \A m \in Notifs : First(m)' <=> First(m)
    BY <1>16, <2>1 DEF PushFirst, Goto, First, Responsible
  <2>3. \A u \in Threads, n \in registered : Taken(r, u, n)' <=> Taken(r, u, n)
    BY <1>16 DEF PushFirst, Goto, Taken
  <2> QED
    BY <1>16, <1>0, <2>2, <2>3 DEF PushFirst, Goto
<1>17. ASSUME NEW t \in Threads, PushLink(t)  PROVE Places(r)'
  <2>1. \A m \in Notifs : First(m)' <=> First(m)
    BY <1>17 DEF PushLink, ForgetLocals, Goto, First
  <2>2. \A u \in Threads, n \in registered : Taken(r, u, n)' <=> Taken(r, u, n)
    BY <1>17 DEF PushLink, ForgetLocals, Goto, Taken
  <2> QED
    BY <1>17, <1>0, <2>1, <2>2 DEF PushLink, ForgetLocals, Goto
<1>18. ASSUME NEW t \in Threads, NEW s \in States, FiresNotifs(t, s)
       PROVE  Places(r)'
  <2>1. \A m \in Notifs : First(m)' <=> First(m)
    BY <1>18 DEF FiresNotifs, Becomes, Goto, First
  <2>2. \A u \in Threads, n \in registered : Taken(r, u, n)' <=> Taken(r, u, n)
    BY <1>18 DEF FiresNotifs, Becomes, Goto, Taken
  <2> QED
    BY <1>18, <1>0, <2>1, <2>2 DEF FiresNotifs, Becomes, Goto
<1>19. ASSUME NEW t \in Threads, LeavesNotifs(t)  PROVE Places(r)'
  <2>1. \A m \in Notifs : First(m)' <=> First(m)
    BY <1>19 DEF LeavesNotifs, Becomes, ForgetLocals, Goto, First
  <2>2. \A u \in Threads, n \in registered : Taken(r, u, n)' <=> Taken(r, u, n)
    BY <1>19 DEF LeavesNotifs, Becomes, ForgetLocals, Goto, Taken
  <2> QED
    BY <1>19, <1>0, <2>1, <2>2 DEF LeavesNotifs, Becomes, ForgetLocals, Goto
<1>20. ASSUME NEW t \in Threads, NEW time \in Timeouts, WaitStarts(t, time)
       PROVE  Places(r)'
  <2>1. \A m \in Notifs : First(m)' <=> First(m)
    BY <1>20 DEF WaitStarts, Becomes, Goto, First
  <2>2. \A u \in Threads, n \in registered : Taken(r, u, n)' <=> Taken(r, u, n)
    BY <1>20 DEF WaitStarts, Becomes, Goto, Taken
  <2> QED
    BY <1>20, <1>0, <2>1, <2>2 DEF WaitStarts, Becomes, Goto
<1>21. ASSUME NEW t \in Threads, NEW to \in PCs, WaitReturnsNow(t, to)
       PROVE  Places(r)'
  <2>1. \A m \in Notifs : First(m)' <=> First(m)
    BY <1>21 DEF WaitReturnsNow, Goto, First
  <2>2. \A u \in Threads, n \in registered : Taken(r, u, n)' <=> Taken(r, u, n)
    BY <1>21 DEF WaitReturnsNow, Goto, Taken
  <2> QED
    BY <1>21, <1>0, <2>1, <2>2 DEF WaitReturnsNow, Goto
<1>22. ASSUME NEW t \in Threads, WaitOnAddress(t)  PROVE Places(r)'
  <2>1. \A m \in Notifs : First(m)' <=> First(m)
    BY <1>22 DEF WaitOnAddress, Goto, First
  <2>2. \A u \in Threads, n \in registered : Taken(r, u, n)' <=> Taken(r, u, n)
    BY <1>22 DEF WaitOnAddress, Goto, Taken
  <2> QED
    BY <1>22, <1>0, <2>1, <2>2 DEF WaitOnAddress, Goto
<1>23. ASSUME NEW t \in Threads, WaitCheck(t)  PROVE Places(r)'
  <2>1. \A m \in Notifs : First(m)' <=> First(m)
    BY <1>23 DEF WaitCheck, First
  <2>2. \A u \in Threads, n \in registered : Taken(r, u, n)' <=> Taken(r, u, n)
    BY <1>23 DEF WaitCheck, Taken
  <2> QED
    BY <1>23, <1>0, <2>1, <2>2 DEF WaitCheck
<1>24. ASSUME NEW t \in Threads, WaitReturns(t)  PROVE Places(r)'
  <2>1. \A m \in Notifs : First(m)' <=> First(m)
    BY <1>24 DEF WaitReturns, ForgetLocals, First
  <2>2. \A u \in Threads, n \in registered : Taken(r, u, n)' <=> Taken(r, u, n)
    BY <1>24 DEF WaitReturns, ForgetLocals, Taken
  <2> QED
    BY <1>24, <1>0, <2>1, <2>2 DEF WaitReturns, ForgetLocals
<1>25. ASSUME NEW t \in Threads, SleepEnds(t)  PROVE Places(r)'
  <2>1. \A m \in Notifs : First(m)' <=> First(m)
    BY <1>25 DEF SleepEnds, Goto, First
  <2>2. \A u \in Threads, n \in registered : Taken(r, u, n)' <=> Taken(r, u, n)
    BY <1>25 DEF SleepEnds, Goto, Taken
  <2> QED
    BY <1>25, <1>0, <2>1, <2>2 DEF SleepEnds, Goto
<1>26. ASSUME OwnerRelease  PROVE Places(r)'
  <2>1. \A m \in Notifs : First(m)' <=> First(m)
    BY <1>26 DEF OwnerRelease, DropRefs, First
  <2>2. \A u \in Threads, n \in registered : Taken(r, u, n)' <=> Taken(r, u, n)
    BY <1>26 DEF OwnerRelease, DropRefs, Taken
  <2> QED
    BY <1>26, <1>0, <2>1, <2>2 DEF OwnerRelease, DropRefs
<1>27. CASE UNCHANGED vars
  <2>1. \A m \in Notifs : First(m)' <=> First(m)
    BY <1>27 DEF vars, First
  <2>2. \A u \in Threads, n \in registered : Taken(r, u, n)' <=> Taken(r, u, n)
    BY <1>27 DEF vars, Taken
  <2> QED
    BY <1>27, <1>0, <2>1, <2>2 DEF vars
<1> QED
  BY Steps, <1>1, <1>2, <1>3, <1>4, <1>5, <1>6, <1>7, <1>8, <1>9, <1>10,
     <1>11, <1>12, <1>13, <1>14, <1>15, <1>16, <1>17, <1>18, <1>19, <1>20,
     <1>21, <1>22, <1>23, <1>24, <1>25, <1>26, <1>27

(* A registration takes the next number; its notification is in the list,  *)
(* of which it is the first one when the list was empty.                   *)
LEMMA NotifyList ==
    ASSUME TypeOK, CallInv, LockInv, HeadInv, ListInv,
           NEW t \in Threads, NEW dsn \in Notifs \ registered, Notify(t, dsn)
    PROVE  ListInv'
<1> USE GroupAssumption DEF TypeOK
<1>1. PICK r \in [Notifs -> Nat], k \in Nat : Order(r, k) /\ Links(r) /\ Places(r)
  BY DEF ListInv
<1> DEFINE q == [r EXCEPT ![dsn] = k]
<1>2. /\ q \in [Notifs -> Nat] /\ q[dsn] = k /\ k + 1 \in Nat
      /\ \A n \in registered : q[n] = r[n] /\ n /= dsn
  OBVIOUS
<1> HIDE DEF q
<1>3. Order(q, k + 1)'
  BY <1>1, <1>2 DEF Notify, Order
<1>4. Links(q)'
  <2>1. \A n \in Notifs : do_next'[n] /= NULL =>
          n \in registered' /\ do_next'[n] \in registered' /\ q[do_next'[n]] = q[n] + 1
    BY <1>1, <1>2 DEF Notify, Links, list
  <2>2. dg_notify_head' /= NULL => dg_notify_head' \in registered'
    BY <1>1 DEF Notify, Links, list
  <2>3. ASSUME NEW u \in Threads
        PROVE  /\ pc'[u] = "push_prev" =>
                    /\ dc'[u] \in registered'
                    /\ other'[u] /= NULL =>
                         other'[u] \in registered' /\ q[dc'[u]] = q[other'[u]] + 1
               /\ pc'[u] \in {"capture_tail", "submit"} => dc'[u] \in registered'
               /\ pc'[u] = "submit" => other'[u] \in registered' /\ q[dc'[u]] <= q[other'[u]]
    <3>1. CASE u = t
      BY <1>1, <1>2, <3>1 DEF Notify, Order
    <3>2. CASE u /= t
      BY <1>1, <1>2, <3>2 DEF Notify, Links
    <3> QED
      BY <3>1, <3>2
  <2> QED
    BY <2>1, <2>2, <2>3 DEF Links
<1>5. Places(q)'
  <2>1. \A m \in registered : First(m)' <=> First(m)
    BY <1>2 DEF Notify, First, list
  <2>2. First(dsn)' <=> dg_notify_tail = NULL
    BY <1>1 DEF Notify, First, list, Links
  <2>3. \A n \in registered : Listed(q, n)' <=> Listed(r, n)
    BY <1>1, <1>2, <2>1 DEF Listed, Notify, Order
  <2>4. \A u \in Threads, n \in registered : Taken(q, u, n)' <=> Taken(r, u, n)
    BY <1>1, <1>2 DEF Taken, Notify, Links
  <2>5. \A u \in Threads : Taken(q, u, dsn)' <=> pc[u] = "capture_tail"
    BY <1>1, <1>2 DEF Taken, Notify, Links, Order
  <2>6. Listed(q, dsn)' <=> ~ \E u \in Threads : pc[u] = "capture_tail"
    <3>1. CASE dg_notify_tail = NULL
      BY <1>2, <2>2, <3>1 DEF Listed, Notify, LockInv, Responsible
    <3>2. CASE dg_notify_tail /= NULL
      <4>1. \A m \in registered : q[m] <= q[dsn]
        BY <1>1, <1>2 DEF Order
      <4>2. (\E m \in registered : First(m)) <=> ~ \E u \in Threads : pc[u] = "capture_tail"
        BY <1>1, <3>2 DEF LockInv, Responsible, HeadInv, First, Links
      <4> QED
        BY <1>2, <2>1, <2>2, <3>2, <4>1, <4>2 DEF Listed, Notify
    <3> QED
      BY <3>1, <3>2
  <2>7. \A u, v \in Threads : pc[u] = "capture_tail" /\ pc[v] = "capture_tail" => u = v
    BY DEF LockInv, Responsible
  <2>8. submits' = submits /\ registered' = registered \cup {dsn}
    BY DEF Notify
  <2> QED
    BY <1>1, <2>3, <2>4, <2>5, <2>6, <2>7, <2>8 DEF Places
<1> QED
  BY <1>2, <1>3, <1>4, <1>5 DEF ListInv

(* No other step registers a notification, and the order remains.          *)
LEMMA NextList ==
    ASSUME TypeOK, CallInv, LockInv, HeadInv, ListInv, [Next]_vars
    PROVE  ListInv'
<1>1. CASE registered' = registered
  <2>1. PICK r \in [Notifs -> Nat], k \in Nat : Order(r, k) /\ Links(r) /\ Places(r)
    BY DEF ListInv
  <2>2. Order(r, k)'
    BY <1>1, <2>1, NextOrder
  <2>3. Links(r)'
    BY <1>1, <2>1, NextLinks
  <2>4. Places(r)'
    BY <1>1, <2>1, NextPlaces
  <2> QED
    BY <2>2, <2>3, <2>4 DEF ListInv
<1>2. CASE registered' /= registered
  <2>1. ASSUME NEW t \in Threads,
               \/ Misuse(t) \/ EnterFirst(t) \/ EnterMore(t) \/ EnterRetain(t)
               \/ LeaveMore(t) \/ CaptureHead(t) \/ CaptureTail(t) \/ SubmitNext(t)
               \/ WakeWaiters(t) \/ Release(t) \/ PushFirst(t) \/ PushLink(t)
               \/ LeavesNotifs(t) \/ WaitOnAddress(t) \/ WaitCheck(t) \/ WaitReturns(t)
               \/ SleepEnds(t)
        PROVE  registered' = registered
    BY <2>1 DEF ghosts, Misuse, EnterFirst, EnterMore, EnterRetain, LeaveMore,
       CaptureHead, CaptureTail, SubmitNext, WakeWaiters, Release, PushFirst, PushLink,
       LeavesNotifs, WaitOnAddress, WaitCheck, WaitReturns, SleepEnds
  <2>2. ASSUME NEW t \in Threads, NEW to \in PCs,
               \/ LeaveLast(t, to) \/ Clears(t, to) \/ LooksAgain(t, to)
               \/ SubmitLast(t, to) \/ WaitReturnsNow(t, to)
        PROVE  registered' = registered
    BY <2>2 DEF ghosts, LeaveLast, Clears, LooksAgain, SubmitLast, WaitReturnsNow
  <2>3. ASSUME NEW t \in Threads,
               \/ \E s \in States : FiresNotifs(t, s)
               \/ \E time \in Timeouts : WaitStarts(t, time)
        PROVE  registered' = registered
    BY <2>3 DEF ghosts, FiresNotifs, WaitStarts
  <2>4. OwnerRelease \/ UNCHANGED vars => registered' = registered
    BY DEF OwnerRelease, vars, ghosts
  <2>5. PICK t \in Threads, dsn \in Notifs \ registered : Notify(t, dsn)
    BY <1>2, <2>1, <2>2, <2>3, <2>4, Steps
  <2> QED
    BY <2>5, NotifyList
<1> QED
  BY <1>1, <1>2

(* An empty list is in order.                                             *)
LEMMA InitList ==
    Init => HeadInv /\ ListInv
<1> SUFFICES ASSUME Init  PROVE HeadInv /\ ListInv
  OBVIOUS
<1>1. HeadInv
  BY DEF Init, HeadInv, Zero
<1> DEFINE r == [n \in Notifs |-> 0]
<1>2. r \in [Notifs -> Nat] /\ 0 \in Nat
  OBVIOUS
<1>3. Order(r, 0) /\ Links(r) /\ Places(r)
  BY DEF Init, Order, Links, Places, Taken
<1> QED
  BY <1>1, <1>2, <1>3 DEF ListInv

(* The list is in the order of registration, and nothing drops out of it.  *)
THEOREM ListInvariant ==
    Spec => [](HeadInv /\ ListInv)
<1>1. Inv /\ HeadInv /\ ListInv /\ [Next]_vars => (HeadInv /\ ListInv)'
  BY NextHead, NextList DEF Inv
<1> QED
  BY <1>1, InitList, Invariant, PTL DEF Spec

-----------------------------------------------------------------------------
(* When the last reference to the group is dropped no thread is about to   *)
(* touch it, every enter has its leave and every registered notification   *)
(* has been submitted, once.                                               *)
THEOREM NothingIsLost ==
    Spec => []FreedWhenUnused
<1>1. Inv /\ HeadInv /\ ListInv => FreedWhenUnused
  <2> SUFFICES ASSUME Inv, HeadInv, ListInv, life = "freed"
               PROVE  /\ \A t \in Threads : pc[t] = "idle"
                      /\ entered = 0
                      /\ \A n \in registered : submits[n] = 1
    BY DEF FreedWhenUnused
  <2>1. /\ Releasers \in SUBSET Threads /\ Holders \in SUBSET Threads
        /\ Retaining \in SUBSET Threads
    BY DEF Releasers, Holders, Retaining
  <2>2. ~owned /\ ~Retained /\ ~dg_state.notifs /\ Releasers = {} /\ Holders = {}
    <3> DEFINE a == Bit(owned)
               b == Bit(Retained)
               c == Bit(dg_state.notifs)
               d == Cardinality(Releasers)
               e == Cardinality(Holders)
    <3>1. 0 = a + b + c + d + e
      BY DEF Inv, OwnInv, RefsInv
    <3>2. a \in Nat /\ b \in Nat /\ c \in Nat /\ d \in Nat /\ e \in Nat
      BY <2>1, Counts DEF Bit
    <3> HIDE DEF a, b, c, d, e
    <3>3. a = 0 /\ b = 0 /\ c = 0 /\ d = 0 /\ e = 0
      BY <3>1, <3>2
    <3> QED
      BY <2>1, <3>3, Counts DEF a, b, c, d, e, Bit
  <2>3. \A t \in Threads : pc[t] = "idle"
    BY <2>2 DEF Inv, CallInv, Releasers, Holders
  <2>4. entered = 0
    <3>1. Retaining = {} /\ Cardinality(Retaining) = 0
      BY <2>1, <2>3, Counts DEF Retaining
    <3>2. dg_state.value = 0
      BY <2>2, <3>1, GroupAssumption DEF Retained, Inv, TypeOK, States
    <3> QED
      BY <3>1, <3>2 DEF Inv, MemberInv, TypeOK
  <2>5. dg_notify_tail = NULL /\ dg_notify_head = NULL
    BY <2>2, <2>3 DEF Inv, LockInv, Responsible, HeadInv
  <2>6. ASSUME NEW n \in registered  PROVE submits[n] = 1
    <3>1. PICK r \in [Notifs -> Nat] : Places(r)
      BY DEF ListInv
    <3>2. ~Listed(r, n) /\ \A t \in Threads : ~Taken(r, t, n)
      BY <2>3, <2>5, GroupAssumption DEF Listed, First, Taken, Inv, TypeOK
    <3> QED
      BY <3>1, <3>2 DEF Places
  <2> QED
    BY <2>3, <2>4, <2>6
<1> QED
  BY <1>1, ListInvariant, Invariant, PTL

(* Several leaves and registrations may see the same list at once: no      *)
(* notification is submitted twice, and none that was not registered.      *)
THEOREM SubmittedOnce ==
    Spec => [](\A n \in Notifs : submits[n] <= (IF n \in registered THEN 1 ELSE 0))
<1>1. TypeOK /\ ListInv => \A n \in Notifs : submits[n] <= (IF n \in registered THEN 1 ELSE 0)
  BY DEF ListInv, Places, TypeOK
<1> QED
  BY <1>1, ListInvariant, TypeCorrect, PTL

=============================================================================
