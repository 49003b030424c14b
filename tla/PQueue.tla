------------------------------- MODULE PQueue -------------------------------
(* pqueue_c<T> (src/src/pqueue.h): the queue between two pipeline stages.    *)
(* latency + 1 buckets form a ring; entries enter the bucket m_last_index    *)
(* and leave from m_current_index.  Each entry carries, as a history, the    *)
(* number of advance() calls since it entered (counted up to the latency).   *)
EXTENDS Integers, Sequences, SequencesExt

CONSTANTS
  Data,          \* what the entries carry
  Priorities,    \* the priorities the callers pass
  Capacity,      \* m_capacity
  Latency        \* the stage latency; m_size = Latency + 1

ASSUME ConstantsAssumption ==
  /\ Capacity \in Nat \ {0}
  /\ Latency \in Nat
  /\ Priorities \subseteq Int

VARIABLES
  entry,         \* m_entry: [0 .. Latency -> Seq([data, prio, age])]
  current,       \* m_current_index
  last,          \* m_last_index
  num            \* m_num_entry

queue_vars == <<entry, current, last, num>>

m_size == Latency + 1
Bucket == 0 .. Latency
Entry == [data : Data, prio : Priorities, age : 0 .. Latency]

QueueInit ==
  /\ entry = [b \in Bucket |-> <<>>]
  /\ current = 0 /\ last = Latency /\ num = 0

\* enqueue puts a new entry before the first one of lower priority.
Inserted(s, e) ==
  LET lower == {i \in DOMAIN s : s[i].prio < e.prio}
      i     == IF lower = {} THEN Len(s) + 1
               ELSE CHOOSE j \in lower : \A k \in lower : j <= k
  IN SubSeq(s, 1, i - 1) \o <<e>> \o SubSeq(s, i, Len(s))

ready == entry[current] # <<>>
space == Capacity - num

enqueue(p, x) ==
  /\ space > 0
  /\ num' = num + 1
  /\ entry' = [entry EXCEPT ![last] = Inserted(@, [data |-> x, prio |-> p, age |-> 0])]
  /\ UNCHANGED <<current, last>>

dequeue ==
  /\ ready
  /\ entry' = [entry EXCEPT ![current] = Tail(@)]
  /\ num' = num - 1
  /\ UNCHANGED <<current, last>>

Older(e) == [e EXCEPT !.age = IF @ < Latency THEN @ + 1 ELSE @]
Aged == [b \in Bucket |-> [i \in DOMAIN entry[b] |-> Older(entry[b][i])]]

\* advance turns the ring by one bucket, unless the queue is empty or entries
\* of the current bucket have still to leave.
advanceAlways ==
  /\ entry' = Aged
  /\ last' = current /\ current' = (current + 1) % m_size
  /\ UNCHANGED num
advance ==
  /\ entry' = Aged
  /\ IF num = 0 \/ ready THEN UNCHANGED <<current, last>>
     ELSE last' = current /\ current' = (current + 1) % m_size
  /\ UNCHANGED num

\* peek(n): the n-th entry in the order of the ring.
InOrder == FlattenSeq([k \in 1 .. m_size |-> entry[(current + k - 1) % m_size]])
peek(n) == InOrder[n + 1].data

QueueNext ==
  \/ \E p \in Priorities, x \in Data : enqueue(p, x)
  \/ dequeue
  \/ advance

QueueSpec == QueueInit /\ [][QueueNext]_queue_vars

-----------------------------------------------------------------------------
(* Properties                                                                *)

QueueTypeOK ==
  /\ entry \in [Bucket -> Seq(Entry)]
  /\ current \in Bucket /\ last \in Bucket
  /\ num \in 0 .. Capacity

\* How many turns of the ring bring bucket b to the front.
Distance(b) == IF b >= current THEN b - current ELSE b - current + m_size

\* No entry is ready early: an entry in a bucket d turns from the front has
\* seen at least Latency - d advance() calls, so one that dequeue() returns
\* has seen Latency of them, whatever stalls and bubbles came between.
NotReadyEarly ==
  \A b \in Bucket : \A i \in DOMAIN entry[b] : entry[b][i].age >= Latency - Distance(b)

\* The producer's bucket is the one behind the consumer's: a full turn away.
RingIsClosed == last = (IF current = 0 THEN Latency ELSE current - 1)

\* With one priority, as every caller uses it (enqueue(0, ...)), the ring is a
\* first-in first-out queue whose entries leave after `Latency' clock edges.
Delay == INSTANCE DelayQueue WITH
  queue <- [i \in DOMAIN InOrder |-> [data |-> InOrder[i].data, age |-> InOrder[i].age]]
IsDelayQueue == Delay!Spec
=============================================================================
