---------------------------- MODULE DispatchGroup ----------------------------
(***************************************************************************)
(* dispatch_group_t: the second half of semaphore.c, with the list of      *)
(* notifications of os_mpsc (inline_internal.h) and the wait on an address *)
(* of shims/lock.c, one step per atomic access to shared memory.           *)
(*                                                                         *)
(* dg_state packs into one 64 bit word the number of times the group has   *)
(* been entered, a generation that a leave of the last member increments,  *)
(* and two bits that say that somebody has to be told.  Threads that wait  *)
(* sleep until the generation changes.  The thread that clears HAS_NOTIFS  *)
(* takes the list of notifications and submits them.  The group retains    *)
(* itself while it has members and while it has notifications, so that its *)
(* owner may release it before they are done.                              *)
(***************************************************************************)
EXTENDS Integers, FiniteSets

CONSTANTS
    Threads,            \* the threads that use the group
    Notifs,             \* the notifications, each registered at most once
    NULL,               \* no notification
    VALUE_MAX,          \* members the state word can count: 2^30 - 1
    GenBound            \* the model enters up to this generation only

ASSUME GroupAssumption ==
    /\ IsFiniteSet(Threads)
    /\ NULL \notin Notifs /\ Threads \cap Notifs = {}
    /\ VALUE_MAX \in Nat \ {0}
    /\ GenBound \in Nat

VARIABLES
    dg_state,           \* generation, number of members, and the two bits
    dg_notify_head,     \* first notification, once linked
    dg_notify_tail,     \* last notification
    do_next,            \* the link behind every notification
    refs,               \* references to the group
    owned,              \* its creator still holds its own
    entered,            \* enters that have returned and have no leave yet
    pc,                 \* the next step of every thread
    old_state,          \* its snapshot of dg_state
    dc,                 \* the notification it is registering or submitting
    other,              \* prev when registering, tail when submitting
    needs_release,      \* the argument of its _dispatch_group_wake
    timeout,            \* the argument of its wait
    registered,         \* the notifications registered so far
    submits,            \* how often every notification was submitted
    emptySince,         \* whether the group has been empty since a wait, or
                        \* the registration of a notification, began
    life                \* "live", "freed", "misused" when an enter or a leave
                        \* too many has stopped the process, or "crashed"
                        \* when the disposal of a group in use has

group == <<dg_state, refs, owned, entered, life>>
list == <<dg_notify_head, dg_notify_tail, do_next>>
locals == <<old_state, dc, other, needs_release, timeout>>
ghosts == <<registered, submits, emptySince>>
vars == <<group, list, pc, locals, ghosts>>

-----------------------------------------------------------------------------
States == [gen : Nat, value : 0..VALUE_MAX, notifs : BOOLEAN, waiters : BOOLEAN]

Zero == [gen |-> 0, value |-> 0, notifs |-> FALSE, waiters |-> FALSE]

Timeouts == {"DISPATCH_TIME_NOW", "DISPATCH_TIME_FOREVER", "later"}

(* (uint32_t)dg_state *)
BitsAreZero(s) == s.value = 0 /\ ~s.notifs /\ ~s.waiters

Waking == {"capture_head", "capture_tail", "submit", "wake_waiters", "release"}
Waiting == {"wait_on_address", "asleep", "check", "check_timedout"}
Notifying == {"push_prev", "set_notifs"}

PCs == {"idle", "retain", "clear_bits", "empty", "timedout"}
          \cup Waking \cup Waiting \cup Notifying

(* _dispatch_group_create_with_count: empty, or with its first member and   *)
(* the reference that goes with it (_dispatch_group_create_and_enter).     *)
Init ==
    /\ entered \in {0, 1} /\ refs = 1 + entered /\ owned = TRUE
    /\ dg_state = [Zero EXCEPT !.value = entered]
    /\ dg_notify_head = NULL /\ dg_notify_tail = NULL
    /\ do_next = [n \in Notifs |-> NULL]
    /\ pc = [t \in Threads |-> "idle"]
    /\ old_state = [t \in Threads |-> Zero]
    /\ dc = [t \in Threads |-> NULL]
    /\ other = [t \in Threads |-> NULL]
    /\ timeout = [t \in Threads |-> "DISPATCH_TIME_FOREVER"]
    /\ needs_release = [t \in Threads |-> FALSE]
    /\ registered = {}
    /\ submits = [n \in Notifs |-> 0]
    /\ emptySince = [x \in Threads \cup Notifs |-> TRUE]
    /\ life = "live"

Goto(t, from, to) ==
    /\ pc[t] = from
    /\ pc' = [pc EXCEPT ![t] = to]

(* The locals of a call that returns are gone. *)
ForgetLocals(t) ==
    /\ old_state' = [old_state EXCEPT ![t] = Zero]
    /\ dc' = [dc EXCEPT ![t] = NULL]
    /\ other' = [other EXCEPT ![t] = NULL]
    /\ needs_release' = [needs_release EXCEPT ![t] = FALSE]
    /\ timeout' = [timeout EXCEPT ![t] = "DISPATCH_TIME_FOREVER"]

-----------------------------------------------------------------------------
(* Slip: nothing stops the counter at its limit. *)
Enter_NoLimit(t) ==
    /\ owned /\ pc[t] = "idle"
    /\ dg_state.gen < GenBound
    /\ dg_state' = [dg_state EXCEPT !.value = @ + 1]
    /\ IF dg_state.value = 0
         THEN /\ pc' = [pc EXCEPT ![t] = "retain"]
              /\ UNCHANGED entered
         ELSE /\ entered' = entered + 1
              /\ UNCHANGED pc
    /\ UNCHANGED <<refs, owned, life, list, locals, ghosts>>

(* dispatch_group_enter: the first member makes the group retain itself,   *)
(* after it has been counted.  One member too many is counted as well and  *)
(* ends the process in the next statements; that is one step here.         *)
Enter(t) ==
    /\ owned /\ pc[t] = "idle"
    /\ dg_state.gen < GenBound
    /\ IF dg_state.value = VALUE_MAX
         THEN /\ life' = "misused"
              /\ UNCHANGED <<dg_state, entered, pc>>
         ELSE /\ dg_state' = [dg_state EXCEPT !.value = @ + 1]
              /\ IF dg_state.value = 0
                   THEN /\ pc' = [pc EXCEPT ![t] = "retain"]
                        /\ UNCHANGED entered
                   ELSE /\ entered' = entered + 1
                        /\ UNCHANGED pc
              /\ UNCHANGED life
    /\ UNCHANGED <<refs, owned, list, locals, ghosts>>

(* Slip: the group does not retain itself for its members. *)
EnterRetain_None(t) ==
    /\ Goto(t, "retain", "idle")
    /\ entered' = entered + 1
    /\ UNCHANGED <<dg_state, refs, owned, life, list, locals, ghosts>>

EnterRetain(t) ==
    /\ Goto(t, "retain", "idle")
    /\ refs' = refs + 1
    /\ entered' = entered + 1
    /\ UNCHANGED <<dg_state, owned, life, list, locals, ghosts>>

-----------------------------------------------------------------------------
(* Slip: of a group that has members again it keeps both bits. *)
Cleared_KeepNotifs(s) ==
    [s EXCEPT !.notifs = @ /\ s.value /= 0, !.waiters = @ /\ s.value /= 0]

(* Slip: it clears the bit of the waiters of the next generation. *)
Cleared_AllWaiters(s) == [s EXCEPT !.notifs = FALSE, !.waiters = FALSE]

(* What a leave of the last member clears: of a group that has members     *)
(* again it keeps the waiters bit.                                         *)
Cleared(s) ==
    [s EXCEPT !.notifs = FALSE, !.waiters = @ /\ s.value /= 0]

(* The first step of _dispatch_group_wake(dg, s, ...). *)
WakeStart(s) ==
    IF s.notifs THEN "capture_head"
    ELSE IF s.waiters THEN "wake_waiters" ELSE "release"

(* The loop of dispatch_group_leave, on the value s just seen. *)
ClearOrWake(s) == IF Cleared(s) = s THEN WakeStart(s) ELSE "clear_bits"

(* dispatch_group_leave, for an enter that has returned, or for none at    *)
(* all when the group has no members: that stops the process.              *)
Leave(t) ==
    /\ pc[t] = "idle"
    /\ \/ /\ dg_state.value = 0 /\ owned
          /\ life' = "misused"
          /\ UNCHANGED <<dg_state, entered, pc, old_state, needs_release, emptySince>>
       \/ /\ entered > 0 /\ dg_state.value > 1
          /\ dg_state' = [dg_state EXCEPT !.value = @ - 1]
          /\ entered' = entered - 1
          /\ UNCHANGED <<pc, old_state, needs_release, emptySince, life>>
       \/ /\ entered > 0 /\ dg_state.value = 1
          /\ dg_state' = [dg_state EXCEPT !.value = 0, !.gen = @ + 1]
          /\ entered' = entered - 1
          /\ old_state' = [old_state EXCEPT ![t] = dg_state']
          /\ needs_release' = [needs_release EXCEPT ![t] = TRUE]
          /\ pc' = [pc EXCEPT ![t] = ClearOrWake(dg_state')]
          /\ emptySince' = [x \in Threads \cup Notifs |-> TRUE]
          /\ UNCHANGED life
    /\ UNCHANGED <<refs, owned, list, dc, other, timeout, registered, submits>>

LeaveClearBits(t) ==
    /\ pc[t] = "clear_bits"
    /\ IF dg_state = old_state[t]
         THEN /\ dg_state' = Cleared(dg_state)
              /\ pc' = [pc EXCEPT ![t] = WakeStart(dg_state)]
              /\ UNCHANGED old_state
         ELSE /\ old_state' = [old_state EXCEPT ![t] = dg_state]
              /\ pc' = [pc EXCEPT ![t] = ClearOrWake(dg_state)]
              /\ UNCHANGED dg_state
    /\ UNCHANGED <<refs, owned, entered, life, list, dc, other, needs_release,
                   timeout, ghosts>>

-----------------------------------------------------------------------------
(* _dispatch_group_wake: os_mpsc_capture_snapshot waits for the head to be *)
(* linked and takes the list, head first.                                  *)
CaptureHead(t) ==
    /\ dg_notify_head /= NULL
    /\ Goto(t, "capture_head", "capture_tail")
    /\ dc' = [dc EXCEPT ![t] = dg_notify_head]
    /\ dg_notify_head' = NULL
    /\ UNCHANGED <<group, dg_notify_tail, do_next, old_state, other,
                   needs_release, timeout, ghosts>>

CaptureTail(t) ==
    /\ Goto(t, "capture_tail", "submit")
    /\ other' = [other EXCEPT ![t] = dg_notify_tail]
    /\ dg_notify_tail' = NULL
    /\ UNCHANGED <<group, dg_notify_head, do_next, old_state, dc,
                   needs_release, timeout, ghosts>>

(* Slip: whoever submits notifications wakes no waiters. *)
Submit_ForgetsWaiters(t) ==
    /\ pc[t] = "submit"
    /\ submits' = [submits EXCEPT ![dc[t]] = @ + 1]
    /\ \/ /\ dc[t] = other[t]
          /\ dc' = [dc EXCEPT ![t] = NULL]
          /\ other' = [other EXCEPT ![t] = NULL]
          /\ pc' = [pc EXCEPT ![t] = "release"]
       \/ /\ dc[t] /= other[t] /\ do_next[dc[t]] /= NULL
          /\ dc' = [dc EXCEPT ![t] = do_next[dc[t]]]
          /\ UNCHANGED <<pc, other>>
    /\ UNCHANGED <<group, list, old_state, needs_release, timeout, registered,
                   emptySince>>

(* Submits one notification, after waiting for the link to the next one.   *)
Submit(t) ==
    /\ pc[t] = "submit"
    /\ submits' = [submits EXCEPT ![dc[t]] = @ + 1]
    /\ \/ /\ dc[t] = other[t]
          /\ dc' = [dc EXCEPT ![t] = NULL]
          /\ other' = [other EXCEPT ![t] = NULL]
          /\ pc' = [pc EXCEPT ![t] =
                IF old_state[t].waiters THEN "wake_waiters" ELSE "release"]
       \/ /\ dc[t] /= other[t] /\ do_next[dc[t]] /= NULL
          /\ dc' = [dc EXCEPT ![t] = do_next[dc[t]]]
          /\ UNCHANGED <<pc, other>>
    /\ UNCHANGED <<group, list, old_state, needs_release, timeout, registered,
                   emptySince>>

(* _dispatch_wake_by_address wakes every sleeper. *)
WakeWaiters(t) ==
    /\ pc[t] = "wake_waiters"
    /\ pc' = [u \in Threads |->
                 IF u = t THEN "release"
                 ELSE IF pc[u] = "asleep" THEN "check" ELSE pc[u]]
    /\ UNCHANGED <<group, list, locals, ghosts>>

(* The last reference disposes of the group. *)
DropRefs(n) ==
    /\ refs' = refs - n
    /\ life' = IF refs > n THEN "live"
               ELSE IF BitsAreZero(dg_state) THEN "freed" ELSE "crashed"

(* One reference for the member that left, one for the notifications. *)
Release(t) ==
    /\ Goto(t, "release", "idle")
    /\ DropRefs((IF needs_release[t] THEN 1 ELSE 0)
                  + (IF old_state[t].notifs THEN 1 ELSE 0))
    /\ ForgetLocals(t)
    /\ UNCHANGED <<dg_state, owned, entered, list, ghosts>>

-----------------------------------------------------------------------------
(* _dispatch_group_notify: os_mpsc_push_update_tail *)
Notify(t, dsn) ==
    /\ owned /\ pc[t] = "idle"
    /\ pc' = [pc EXCEPT ![t] = "push_prev"]
    /\ dc' = [dc EXCEPT ![t] = dsn]
    /\ other' = [other EXCEPT ![t] = dg_notify_tail]
    /\ dg_notify_tail' = dsn
    /\ registered' = registered \cup {dsn}
    /\ emptySince' = [emptySince EXCEPT ![dsn] = dg_state.value = 0]
    /\ UNCHANGED <<group, dg_notify_head, do_next, old_state, needs_release,
                   timeout, submits>>

(* Slip: the group does not retain itself for its notifications. *)
NotifyPushPrev_NoRetain(t) ==
    /\ pc[t] = "push_prev"
    /\ IF other[t] = NULL
         THEN /\ dg_notify_head' = dc[t]
              /\ pc' = [pc EXCEPT ![t] = "set_notifs"]
              /\ UNCHANGED <<do_next, locals>>
         ELSE /\ do_next' = [do_next EXCEPT ![other[t]] = dc[t]]
              /\ pc' = [pc EXCEPT ![t] = "idle"]
              /\ ForgetLocals(t)
              /\ UNCHANGED dg_notify_head
    /\ UNCHANGED <<dg_state, refs, owned, entered, life, dg_notify_tail, ghosts>>

(* The retain for a list that was empty and os_mpsc_push_update_prev. *)
NotifyPushPrev(t) ==
    /\ pc[t] = "push_prev"
    /\ IF other[t] = NULL
         THEN /\ refs' = refs + 1
              /\ dg_notify_head' = dc[t]
              /\ pc' = [pc EXCEPT ![t] = "set_notifs"]
              /\ UNCHANGED <<do_next, locals>>
         ELSE /\ do_next' = [do_next EXCEPT ![other[t]] = dc[t]]
              /\ pc' = [pc EXCEPT ![t] = "idle"]
              /\ ForgetLocals(t)
              /\ UNCHANGED <<refs, dg_notify_head>>
    /\ UNCHANGED <<dg_state, owned, entered, life, dg_notify_tail, ghosts>>

(* Slip: an empty group is left to a leave that may never come. *)
NotifySetNotifs_Always(t) ==
    /\ Goto(t, "set_notifs", "idle")
    /\ dg_state' = [dg_state EXCEPT !.notifs = TRUE]
    /\ ForgetLocals(t)
    /\ UNCHANGED <<refs, owned, entered, life, list, ghosts>>

(* A group without members and without a leave in progress is woken here;  *)
(* otherwise the bit leaves it to the last leave.                          *)
NotifySetNotifs(t) ==
    /\ pc[t] = "set_notifs"
    /\ IF BitsAreZero(dg_state)
         THEN /\ old_state' = [old_state EXCEPT ![t] = [dg_state EXCEPT !.notifs = TRUE]]
              /\ dc' = [dc EXCEPT ![t] = NULL]
              /\ pc' = [pc EXCEPT ![t] = "capture_head"]
              /\ UNCHANGED <<dg_state, other, needs_release, timeout>>
         ELSE /\ dg_state' = [dg_state EXCEPT !.notifs = TRUE]
              /\ pc' = [pc EXCEPT ![t] = "idle"]
              /\ ForgetLocals(t)
    /\ UNCHANGED <<refs, owned, entered, life, list, ghosts>>

-----------------------------------------------------------------------------
(* dispatch_group_wait *)
Wait(t, time) ==
    /\ owned /\ pc[t] = "idle"
    /\ emptySince' = [emptySince EXCEPT ![t] = dg_state.value = 0]
    /\ \/ /\ dg_state.value = 0
          /\ pc' = [pc EXCEPT ![t] = "empty"]
          /\ UNCHANGED <<dg_state, old_state, timeout>>
       \/ /\ dg_state.value > 0 /\ time = "DISPATCH_TIME_NOW"
          /\ pc' = [pc EXCEPT ![t] = "timedout"]
          /\ UNCHANGED <<dg_state, old_state, timeout>>
       \/ /\ dg_state.value > 0 /\ time /= "DISPATCH_TIME_NOW"
          /\ dg_state' = [dg_state EXCEPT !.waiters = TRUE]
          /\ old_state' = [old_state EXCEPT ![t] = dg_state']
          /\ timeout' = [timeout EXCEPT ![t] = time]
          /\ pc' = [pc EXCEPT ![t] = "wait_on_address"]
    /\ UNCHANGED <<refs, owned, entered, life, list, dc, other, needs_release,
                   registered, submits>>

(* _dispatch_wait_on_address: the kernel compares and sleeps, or the time  *)
(* is up already.                                                          *)
WaitOnAddress(t) ==
    /\ \/ Goto(t, "wait_on_address",
               IF dg_state.gen = old_state[t].gen THEN "asleep" ELSE "check")
       \/ /\ timeout[t] = "later"
          /\ Goto(t, "wait_on_address", "check_timedout")
    /\ UNCHANGED <<group, list, locals, ghosts>>

(* The sleep ends without a wake: interrupted, or ETIMEDOUT. *)
SleepEnds(t) ==
    /\ \/ Goto(t, "asleep", "check")
       \/ /\ timeout[t] = "later"
          /\ Goto(t, "asleep", "check_timedout")
    /\ UNCHANGED <<group, list, locals, ghosts>>

(* Slip: a sleep that ends is taken for a change of generation. *)
WaitCheck_NoLook(t) ==
    /\ pc[t] \in {"check", "check_timedout"}
    /\ pc' = [pc EXCEPT ![t] =
          IF pc[t] = "check_timedout" THEN "timedout" ELSE "empty"]
    /\ UNCHANGED <<group, list, locals, ghosts>>

(* _dispatch_group_wait_slow looks at the generation before the time. *)
WaitCheck(t) ==
    /\ pc[t] \in {"check", "check_timedout"}
    /\ pc' = [pc EXCEPT ![t] =
          IF dg_state.gen /= old_state[t].gen THEN "empty"
          ELSE IF pc[t] = "check_timedout" THEN "timedout" ELSE "wait_on_address"]
    /\ UNCHANGED <<group, list, locals, ghosts>>

WaitReturns(t) ==
    /\ pc[t] \in {"empty", "timedout"}
    /\ pc' = [pc EXCEPT ![t] = "idle"]
    /\ emptySince' = [emptySince EXCEPT ![t] = TRUE]
    /\ ForgetLocals(t)
    /\ UNCHANGED <<group, list, registered, submits>>

-----------------------------------------------------------------------------
(* The creator releases the group when no thread of its own uses it: a     *)
(* leave, and the submission of notifications, may be in progress.         *)
OwnerRelease ==
    /\ owned /\ owned' = FALSE
    /\ \A t \in Threads : pc[t] \in {"idle", "clear_bits"} \cup Waking
    /\ DropRefs(1)
    /\ UNCHANGED <<dg_state, entered, list, pc, locals, ghosts>>

(* The steps inside a call. *)
Step(t) ==
    \/ EnterRetain(t)
    \/ LeaveClearBits(t)
    \/ CaptureHead(t)
    \/ CaptureTail(t)
    \/ Submit(t)
    \/ WakeWaiters(t)
    \/ Release(t)
    \/ NotifyPushPrev(t)
    \/ NotifySetNotifs(t)
    \/ WaitOnAddress(t)
    \/ WaitCheck(t)
    \/ WaitReturns(t)

Next ==
    /\ life = "live"
    /\ \/ \E t \in Threads :
             \/ Enter(t)
             \/ Leave(t)
             \/ \E dsn \in Notifs \ registered : Notify(t, dsn)
             \/ \E time \in Timeouts : Wait(t, time)
             \/ Step(t)
             \/ SleepEnds(t)
       \/ OwnerRelease

Spec == Init /\ [][Next]_vars

(* Threads inside a call keep running; a sleep need not end by itself. *)
FairSpec == Spec /\ \A t \in Threads : WF_vars(life = "live" /\ Step(t))

-----------------------------------------------------------------------------
(* Every variable has its type; the number of references is never          *)
(* negative and no more members than the word can count are counted.       *)
TypeOK ==
    /\ dg_state \in States
    /\ {dg_notify_head, dg_notify_tail} \subseteq Notifs \cup {NULL}
    /\ do_next \in [Notifs -> Notifs \cup {NULL}]
    /\ refs \in Nat /\ owned \in BOOLEAN /\ entered \in Nat
    /\ pc \in [Threads -> PCs]
    /\ old_state \in [Threads -> States]
    /\ dc \in [Threads -> Notifs \cup {NULL}]
    /\ other \in [Threads -> Notifs \cup {NULL}]
    /\ needs_release \in [Threads -> BOOLEAN]
    /\ timeout \in [Threads -> Timeouts]
    /\ registered \in SUBSET Notifs
    /\ submits \in [Notifs -> Nat]
    /\ emptySince \in [Threads \cup Notifs -> BOOLEAN]
    /\ life \in {"live", "freed", "misused", "crashed"}

(* Who is responsible for the list of notifications: the thread that found *)
(* it empty, until it has set the bit; then the bit; then the thread that  *)
(* has cleared the bit, until it has taken the list.                       *)
FirstPushers ==
    {t \in Threads : \/ pc[t] = "push_prev" /\ other[t] = NULL
                     \/ pc[t] = "set_notifs"}
Captors == {t \in Threads : pc[t] \in {"capture_head", "capture_tail"}}

(* HAS_NOTIFS works as a lock (semaphore_internal.h, "also used as a       *)
(* lock"): while there is a list exactly one is responsible for it, so     *)
(* that os_mpsc has one consumer and no notification is left without.      *)
NotifsIsALock ==
    Cardinality(FirstPushers) + Cardinality(Captors)
        + (IF dg_state.notifs THEN 1 ELSE 0)
      = (IF dg_notify_tail = NULL THEN 0 ELSE 1)

(* dispatch_group_wait reports success only if the group was empty at some *)
(* moment of the wait, whoever entered it again since.                     *)
WaitMeansEmpty == \A t \in Threads : pc[t] = "empty" => emptySince[t]

(* A thread that sleeps through a change of generation has a waker: a      *)
(* leave that is still to look at the waiters bit, or has seen it.         *)
SleepersHaveAWaker ==
    \A t \in Threads :
        life = "live" /\ pc[t] = "asleep" /\ old_state[t].gen /= dg_state.gen
          => \E u \in Threads :
                \/ pc[u] = "clear_bits"
                \/ pc[u] \in Waking \ {"release"} /\ old_state[u].waiters

(* The group retains itself for its members and notifications: when the    *)
(* last reference is dropped no thread is about to touch it, every enter   *)
(* has its leave and every notification has been submitted.                *)
FreedWhenUnused ==
    life = "freed" =>
        /\ \A t \in Threads : pc[t] = "idle"
        /\ entered = 0
        /\ \A n \in registered : submits[n] = 1

(* However early its owner releases it, the group is not disposed of while *)
(* it has members or bits set ("deallocated while in use").                *)
NotDisposedInUse == life /= "crashed"

(* What dispatch/group.h says of dispatch_group_notify: a notification is  *)
(* submitted once all blocks that were in the group have completed, so the *)
(* group has been empty since its registration began.                      *)
NotifiedWhenEmpty == \A n \in Notifs : submits[n] > 0 => emptySince[n]

(* A notification is submitted, and once only, if the group becomes and    *)
(* stays empty, whichever of several leaves and registrations fires it.    *)
NotificationsFire ==
    \A n \in Notifs :
        <>[](life = "live" /\ dg_state.value = 0)
          => [](n \in registered => <>[](submits[n] = 1))

(* A thread that waits returns if the group becomes and stays empty. *)
WaitersReturn ==
    \A t \in Threads :
        <>[](life = "live" /\ dg_state.value = 0) => []<>(pc[t] \notin Waiting)

=============================================================================
