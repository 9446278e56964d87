--------------------------- MODULE MCQueueBrowser ---------------------------
(* The instance of QueueBrowser for TLC: ids overlap between the queues, and *)
(* one more queue than may be bound at a time.                               *)
EXTENDS QueueBrowser

CONSTANTS q1, q2, q3

ThreeQueues == {q1, q2, q3}
SomeContent == q1 :> {1, 2, 3} @@ q2 :> {2} @@ q3 :> {}
OneCond == {"c"}
SomeMeet == [m \in {<<q1, 1>>, <<q1, 2>>, <<q1, 3>>, <<q2, 2>>} |-> IF m = <<q1, 1>> THEN {} ELSE {"c"}]
=============================================================================
