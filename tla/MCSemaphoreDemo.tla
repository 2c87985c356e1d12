--------------------------- MODULE MCSemaphoreDemo ---------------------------
(* SemaphoreDemo for TLC.                                                  *)
EXTENDS SemaphoreDemo, TLC

CONSTANTS t1, t2, t3

(* ticketTest: three threads sell two tickets each. *)
TicketTest ==
    [value |-> 1, calls |-> 2, start |-> 6, delta |-> [t \in {t1, t2, t3} |-> -1]]

(* moneyTest: one thread saves 50 and the other draws 50. *)
MoneyTest ==
    [value |-> 1, calls |-> 2, start |-> 0, delta |-> (t1 :> 50) @@ (t2 :> -50)]

(* otherTest and viewDidLoad: three threads share two units and no count. *)
Pool ==
    [value |-> 2, calls |-> 2, start |-> 0, delta |-> [t \in {t1, t2, t3} |-> 0]]

(* semaphoreTaskTest: tasks A and B, and a semaphore created with 0. *)
TaskTest ==
    [value |-> 0, calls |-> 1, start |-> 0, delta |-> [t \in {t1, t2} |-> 0]]

Working == {TicketTest, MoneyTest, Pool}
Tasks == {TaskTest}

=============================================================================
