----------------------------- MODULE MCLockDemo -----------------------------
(* LockDemo for TLC.                                                       *)
EXTENDS LockDemo, TLC

CONSTANTS t1, t2, t3, t4

Four(a, b, c, d) == (t1 :> a) @@ (t2 :> b) @@ (t3 :> c) @@ (t4 :> d)

(* ticketTest and moneyTest, two calls of each method by a thread. *)
Counts == Four(saleTicket \o saleTicket, saleTicket \o saleTicket,
               saveMoney \o saveMoney, drawMoney \o drawMoney)

Nested == Four(otherTest, otherTest, recursiveTest, recursiveTest)

(* otherTest of MutexDemo4 or NSConditionDemo: once, and twice. *)
Once(wake) == Four(remove, add(wake), <<>>, <<>>)
Twice(wake) == Four(remove, add(wake), remove, add(wake))

Turns == Four(three, two, one, <<>>)

AllPrograms == {Counts, Nested, Once("signal"), Once("broadcast"),
                Twice("signal"), Twice("broadcast"), Turns}

=============================================================================
