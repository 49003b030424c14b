----------------------------- MODULE DelayQueue -----------------------------
(* What a pipeline queue promises its two ends: a bounded first-in first-out *)
(* queue whose entries may leave once they are `Latency' clock edges old.    *)
EXTENDS Integers, Sequences

CONSTANTS Data, Capacity, Latency

VARIABLE queue       \* sequence of [data, age], oldest first

Init == queue = <<>>

Enqueue(x) ==
  /\ Len(queue) < Capacity
  /\ queue' = Append(queue, [data |-> x, age |-> 0])

Dequeue ==
  /\ queue # <<>> /\ Head(queue).age >= Latency
  /\ queue' = Tail(queue)

\* A clock edge; ages count up to the latency.
Edge ==
  queue' = [i \in DOMAIN queue |->
              [queue[i] EXCEPT !.age = IF @ < Latency THEN @ + 1 ELSE @]]

Flush == queue' = <<>>

Next == (\E x \in Data : Enqueue(x)) \/ Dequeue \/ Edge \/ Flush

Spec == Init /\ [][Next]_queue
=============================================================================
