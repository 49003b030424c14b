---------------------------- MODULE FenceProofs ----------------------------
(***************************************************************************)
(* The fences of a core, for every trace, all sizes and all knobs (module  *)
(* Backend).                                                               *)
(*                                                                         *)
(* Retirement drops "the first" active fence of a type, so the list must   *)
(* be in trace order although the out-of-order scheduler visits its list   *)
(* in the order of insertion and skips entries.  The invariant says that   *)
(* the scheduler's list and the allocation queues hold the entries of each *)
(* queue in trace order and that a fence is skipped for want of a port     *)
(* only, which then is wanting for all fences.                             *)
(***************************************************************************)
EXTENDS CoreProofs

\* Entries whose uops were not issued, and the allocation queues they went to.
Pending == {e \in Live : rob[e] \notin executed}
QueueOf == [e \in Index |-> allocq(rob[e])]

\* The scheduler's list and the allocation queues have pending entries, those
\* of a queue in trace order, first in the list and then in the queue.
Queued ==
    /\ sched \in Seq(Pending) /\ alloc_q \in [Queue -> Seq(Pending)]
    /\ Ordered(sched, rob, QueueOf)
    /\ \A q \in Queue :
          /\ Ordered(alloc_q[q], rob, QueueOf)
          /\ Before(Elements(sched), Elements(alloc_q[q]), rob, QueueOf)
          /\ \A e \in Elements(alloc_q[q]) : QueueOf[e] = q

\* A list of active fences has live fences of its type in trace order.  An
\* issued fence is in it until it retires, and a fence that waits and is not
\* in it is younger than those that are: the out-of-order scheduler passes a
\* fence over for want of a port only, and then passes over all others.
Active(e) == Elements(fences[fence_type(rob[e])])
IsFence(e) == Kind(rob[e]) \in Fences
Waits == Elements(sched) \cup Elements(alloc_q["gen"]) \cup Elements(alloc_q["mem"])
FenceList(f) ==
    /\ fences[f] \in Seq(Live)
    /\ \A e \in Elements(fences[f]) : IsFence(e) /\ fence_type(rob[e]) = f
    /\ \A i, j \in 1..Len(fences[f]) : i < j => rob[fences[f][i]] < rob[fences[f][j]]
FenceLists ==
    /\ DOMAIN fences = Fences /\ \A f \in Fences : FenceList(f)
    /\ \A e \in Live : IsFence(e) /\ rob[e] \in executed => e \in Active(e)
    /\ \A e \in Waits : IsFence(e) /\ e \notin Active(e) => \A g \in Active(e) : rob[g] < rob[e]
    /\ stage = "schedule" /\ knobs.schedule = "ooo" =>
          \A j \in 1..Len(sched) : j < scan /\ IsFence(sched[j]) =>
              sched[j] \in Active(sched[j]) \/ ~(ports["gen"] < SchedRate)

\* The in-order scheduler issues in trace order; m of the uops are issued.
IssuedInOrder ==
    knobs.schedule = "io" =>
        \E m \in (allocated - entries)..allocated :
            executed = 1..m /\ next_inorder = (first + (m - (allocated - entries))) % Size

\* A fence is issued when the memory uops before it have been freed.
FencesWaited ==
    ~knobs.acq_rel =>
        \A f \in executed : Kind(f) \in Fences => \A a \in 1..(f - 1) : IsMem(a) => a \in freed

\* A fence has no sources to wait for.
FencesReady == \A u \in 1..fetched : Kind(u) \in Fences => srcs[u] = {}

PortsRight == ports \in [Queue -> Nat]

CInv == Queued /\ PortsRight /\ FenceLists /\ IssuedInOrder /\ FencesWaited /\ FencesReady

-----------------------------------------------------------------------------
(* Sources of fences                                                       *)

\* A fence is fetched without sources, and sources never change.
LEMMA ReadyStep ==
    ASSUME IInv, FencesReady, Next
    PROVE  FencesReady'
<1>1. trace' = trace /\ \A u : Kind(u)' = Kind(u)
    BY KindKept
<1>2. fetched \in 0..Len(trace) /\ Len(trace) \in Nat /\ trace \in Traces /\ Len(srcs) = fetched
      /\ srcs \in Seq(SUBSET [slot : 0..Len(held), num : Nat])
    BY TraceType DEF IInv, MapType
<1>3. CASE fetch_uop
  <2> DEFINE u == fetched + 1
  <2>1. fetched' = u /\ u \in 1..Len(trace)
      BY <1>2, <1>3 DEF fetch_uop, fetch
  <2>2. \A w \in 1..fetched : srcs'[w] = srcs[w]
    <3>1. \E y : srcs' = Append(srcs, y)
        BY <1>3, Zenon DEF fetch_uop, fetch, map_uop
    <3> QED
        BY <1>2, <3>1
  <2>3. ASSUME Kind(u) \in Fences PROVE srcs'[u] = {}
    <3>1. trace[u].src = 0 /\ Kind(u) \notin Loads /\ ~IsMem(u)
      <4>1. trace[u].src = 0
          BY <1>2, <2>1, <2>3, BackendAssumption, Zenon DEF Kind
      <4> QED
          BY <2>3, <4>1 DEF Fences, Full, Loads, IsMem, Memory, Stores
    <3>2. srcs' = Append(srcs, {})
        BY <1>3, <3>1, Zenon DEF fetch_uop, fetch, map_uop
    <3> QED
        BY <1>2, <3>2
  <2>4. \A w \in 1..fetched' : w \in 1..fetched \/ w = u
      BY <1>2, <2>1
  <2> QED
      BY <1>1, <2>1, <2>2, <2>3, <2>4, Zenon DEF FencesReady
<1>4. CASE ~fetch_uop
  <2>1. UNCHANGED <<fetched, srcs>>
      BY <1>4, Zenon DEF Next, complete, retire_uop, retire_end, drain_store, drain_wb, schedule_ooo, schedule_io,
             advance, allocate_uop, allocate_end, fetch_end, mapVars, free_uop_resources
  <2> QED
      BY <1>1, <2>1, Zenon DEF FencesReady
<1> QED
    BY <1>3, <1>4

-----------------------------------------------------------------------------
(* What the steps do to the queues                                         *)

LEMMA EntriesKept ==
    ASSUME UNCHANGED <<trace, executed, robVars>>
    PROVE  Live' = Live /\ Pending' = Pending /\ QueueOf' = QueueOf /\ rob' = rob
<1>1. Live' = Live /\ rob' = rob
    BY LiveKept DEF robVars
<1> QED
    BY <1>1 DEF Pending, QueueOf, Index, allocq, IsMem, Kind

LEMMA QuietQueued ==
    ASSUME Queued, Pending' = Pending, QueueOf' = QueueOf, UNCHANGED <<rob, alloc_q, sched>>
    PROVE  Queued' /\ Waits' = Waits
<1>1. Waits' = Waits /\ Elements(sched)' = Elements(sched) /\ Queue' = Queue
    BY DEF Waits, Elements, Queue
<1>2. \A q : Elements(alloc_q[q])' = Elements(alloc_q[q])
    BY DEF Elements
<1>3. Ordered(sched, rob, QueueOf)' <=> Ordered(sched, rob, QueueOf)
    BY DEF Ordered
<1>4. ASSUME NEW q \in Queue
      PROVE  /\ Ordered(alloc_q[q], rob, QueueOf)' <=> Ordered(alloc_q[q], rob, QueueOf)
             /\ Before(Elements(sched), Elements(alloc_q[q]), rob, QueueOf)'
                   <=> Before(Elements(sched), Elements(alloc_q[q]), rob, QueueOf)
    BY <1>1, <1>2 DEF Ordered, Before
<1>5. Queued'
    BY <1>1, <1>2, <1>3, <1>4, Zenon DEF Queued
<1> QED
    BY <1>1, <1>5

\* Retiring leaves the entries that wait alone.
LEMMA RetirePending ==
    ASSUME BInv, IInv, Flow, retire_uop
    PROVE  /\ Live' = Live \ {first} /\ first \in Live /\ Pending' = Pending
           /\ QueueOf' = QueueOf /\ rob' = rob
<1>1. entries > 0 /\ pop /\ UNCHANGED <<trace, rob, executed>>
    BY DEF retire_uop, can_retire
<1>2. Live' = Live \ {first} /\ first \in Live
    BY <1>1, LiveShrinks DEF BInv, pop
<1>3. rob[first] \in executed
    BY RetiredUop DEF front
<1>4. Pending' = Pending
    BY <1>1, <1>2, <1>3, Zenon DEF Pending
<1> QED
    BY <1>1, <1>2, <1>4, Zenon DEF QueueOf, Index, allocq, IsMem, Kind

\* A new entry waits behind all others.
LEMMA AllocatePending ==
    ASSUME BInv, Flow, allocate_uop
    PROVE  /\ Live' = Live \cup {last} /\ Pending' = Pending \cup {last} /\ last \notin Live
           /\ rob'[last] = allocated + 1 /\ QueueOf'[last] = allocq(allocated + 1)
           /\ \A e \in Live : /\ rob'[e] = rob[e] /\ QueueOf'[e] = QueueOf[e]
                              /\ rob[e] \in 1..allocated
<1>1. /\ free > 0 /\ first' = first /\ free' = free - 1 /\ rob' = [rob EXCEPT ![last] = allocated + 1]
      /\ UNCHANGED <<trace, executed>>
    BY DEF allocate_uop
<1>2. /\ Live' = Live \cup {last} /\ last \notin Live /\ last \in Index
      /\ rob'[last] = allocated + 1 /\ \A e \in Live : rob'[e] = rob[e]
    BY <1>1, LiveGrows DEF BInv
<1>3. allocated \in Nat /\ entries \in Nat /\ entries <= allocated
    BY RingTerms DEF BInv
<1>4. \A e \in Live : rob[e] \in 1..allocated
  <2>1. \A e \in Live : InRob(e) \in 0..(entries - 1) /\ rob[e] = allocated - entries + 1 + InRob(e)
      BY LiveEntries DEF BInv
  <2> QED
      BY <1>3, <2>1
<1>5. allocated + 1 \notin executed
    BY <1>3 DEF Flow
<1>6. Pending' = Pending \cup {last}
    BY <1>1, <1>2, <1>5 DEF Pending
<1>7. QueueOf' = [e \in Index |-> allocq(rob'[e])] /\ Live \subseteq Index
    BY <1>1 DEF QueueOf, Index, allocq, IsMem, Kind, Live
<1> QED
    BY <1>2, <1>4, <1>6, <1>7, Zenon DEF QueueOf

LEMMA AllocateQueued ==
    ASSUME BInv, Flow, Queued, allocate_uop
    PROVE  Queued' /\ Waits' = Waits \cup {last} /\ Waits \subseteq Pending
<1> DEFINE q == allocq(allocated + 1)
           P == Pending
<1>1. /\ Live' = Live \cup {last} /\ Pending' = P \cup {last} /\ last \notin Live
      /\ rob'[last] = allocated + 1 /\ QueueOf'[last] = q
      /\ \A e \in Live : /\ rob'[e] = rob[e] /\ QueueOf'[e] = QueueOf[e]
                         /\ rob[e] \in 1..allocated
    BY AllocatePending
<1>2. P \subseteq Live
    BY DEF Pending
<1>3. allocated \in Nat
    BY RingTerms DEF BInv
<1>4. \A e \in P : /\ rob[e] = rob'[e] /\ QueueOf[e] = QueueOf'[e] /\ rob'[e] < rob'[last] /\ e # last
    BY <1>1, <1>2, <1>3
<1>5. q \in Queue /\ Queue' = Queue /\ sched' = sched
      /\ alloc_q' = [alloc_q EXCEPT ![q] = Append(@, last)]
    BY DEF allocate_uop, Queue, Queues, Range, allocq
<1>6. /\ sched \in Seq(P) /\ alloc_q \in [Queue -> Seq(P)]
      /\ Ordered(sched, rob, QueueOf)
      /\ \A r \in Queue : /\ Ordered(alloc_q[r], rob, QueueOf)
                          /\ Before(Elements(sched), Elements(alloc_q[r]), rob, QueueOf)
                          /\ \A e \in Elements(alloc_q[r]) : QueueOf[e] = r
    BY DEF Queued
<1> HIDE DEF q, P
<1>7. sched' \in Seq(P \cup {last}) /\ Ordered(sched', rob', QueueOf') /\ Elements(sched) \subseteq P
  <2>1. sched \in Seq(P \cup {last})
      BY ONLY <1>6, SeqGrows, Zenon
  <2>2. \A e \in P : rob[e] = rob'[e] /\ QueueOf[e] = QueueOf'[e]
      BY <1>4, Zenon
  <2>3. Ordered(sched, rob', QueueOf')
      BY ONLY <1>6, <2>2, OrderAgrees, Zenon
  <2>4. Elements(sched) \subseteq P
      BY ONLY <1>6, ElementsIn
  <2> QED
      BY ONLY <1>5, <2>1, <2>3, <2>4, Zenon
<1>8. ASSUME NEW r \in Queue
      PROVE  /\ alloc_q'[r] \in Seq(P \cup {last}) /\ Ordered(alloc_q'[r], rob', QueueOf')
             /\ Elements(alloc_q'[r]) = IF r = q THEN Elements(alloc_q[r]) \cup {last} ELSE Elements(alloc_q[r])
             /\ Elements(alloc_q[r]) \subseteq P
             /\ Before(Elements(sched), Elements(alloc_q'[r]), rob', QueueOf')
             /\ \A e \in Elements(alloc_q'[r]) : QueueOf'[e] = r
  <2> DEFINE s == alloc_q[r]
             t == alloc_q'[r]
  <2>1. /\ s \in Seq(P) /\ Ordered(s, rob, QueueOf) /\ Before(Elements(sched), Elements(s), rob, QueueOf)
        /\ \A e \in Elements(s) : QueueOf[e] = r
      BY <1>6
  <2>2. t = IF r = q THEN Append(s, last) ELSE s
      BY <1>5, <1>6
  <2> HIDE DEF s, t
  <2>3. s \in Seq(P \cup {last}) /\ Elements(s) \subseteq P
    <3>1. s \in Seq(P \cup {last})
        BY ONLY <2>1, SeqGrows, Zenon
    <3>2. Elements(s) \subseteq P
        BY ONLY <2>1, ElementsIn, Zenon
    <3> QED
        BY <3>1, <3>2
  <2>4. Ordered(s, rob', QueueOf')
    <3>1. \A e \in P : rob[e] = rob'[e] /\ QueueOf[e] = QueueOf'[e]
        BY <1>4, Zenon
    <3> QED
        BY ONLY <2>1, <3>1, OrderAgrees, Zenon
  <2>5. Before(Elements(sched), Elements(s), rob', QueueOf')
      BY <1>4, <1>7, <2>1, <2>3, Zenon DEF Before
  <2>6. CASE r = q
    <3>1. Extends(P \cup {last}, s, last, t)
        BY <2>2, <2>3, <2>6, Zenon DEF Extends
    <3>2. Later(s, rob', last)
        BY <1>4, <2>3, Zenon DEF Later
    <3>3. t \in Seq(P \cup {last}) /\ Ordered(t, rob', QueueOf') /\ Elements(t) = Elements(s) \cup {last}
      <4>1. t \in Seq(P \cup {last}) /\ Ordered(t, rob', QueueOf') /\ Gains(t, s, last)
          BY ONLY <2>4, <3>1, <3>2, OrderedAppend, Zenon
      <4> QED
          BY <4>1 DEF Gains
    <3>4. Before(Elements(sched), Elements(t), rob', QueueOf')
        BY <1>4, <1>7, <2>5, <3>3, Zenon DEF Before
    <3>5. \A e \in Elements(t) : QueueOf'[e] = r
        BY <1>1, <1>4, <2>1, <2>3, <2>6, <3>3, Zenon
    <3> QED
        BY <2>3, <2>6, <3>3, <3>4, <3>5, Zenon DEF s, t
  <2>7. CASE r # q
      BY <1>4, <2>1, <2>2, <2>3, <2>4, <2>5, <2>7, Zenon DEF s, t
  <2> QED
      BY <2>6, <2>7, Zenon
<1>9. alloc_q' \in [Queue -> Seq(P \cup {last})]
  <2>1. DOMAIN alloc_q' = Queue /\ alloc_q' = [r \in Queue |-> alloc_q'[r]]
      BY <1>5, <1>6, Zenon
  <2> QED
      BY ONLY <1>8, <2>1
<1>10. Queued'
    BY <1>1, <1>5, <1>7, <1>8, <1>9, Zenon DEF Queued
<1>11. Waits' = Waits \cup {last} /\ Waits \subseteq P
  <2>1. q \in {"gen", "mem"} /\ {"gen", "mem"} \subseteq Queue
      BY DEF Queue, Queues, Range, allocq, q
  <2>2. /\ Waits = Elements(sched) \cup Elements(alloc_q["gen"]) \cup Elements(alloc_q["mem"])
        /\ Waits' = Elements(sched) \cup Elements(alloc_q'["gen"]) \cup Elements(alloc_q'["mem"])
      BY <1>5, Zenon DEF Waits
  <2> QED
      BY <1>7, <1>8, <2>1, <2>2, Zenon
<1> QED
    BY <1>10, <1>11, Zenon DEF P

\* An issued entry leaves the list and waits nowhere else.
LEMMA IssueQueued ==
    ASSUME BInv, Queued, UNCHANGED <<trace, robVars, alloc_q>>, NEW i \in 1..Len(sched),
           executed' = executed \cup {rob[sched[i]]}, sched' = Erased(sched, i)
    PROVE  /\ Live' = Live /\ Pending' = Pending \ {sched[i]} /\ QueueOf' = QueueOf /\ rob' = rob
           /\ Queued' /\ Waits' = Waits \ {sched[i]}
           /\ Len(sched') = Len(sched) - 1 /\ \A k \in 1..Len(sched) : k < i => sched'[k] = sched[k]
<1> DEFINE e == sched[i]
           P == Pending
<1>1. Live' = Live /\ rob' = rob /\ Index' = Index /\ Queue' = Queue
    BY LiveKept, Zenon DEF robVars, Index, Queue, Queues
<1>2. QueueOf' = QueueOf
    BY <1>1 DEF QueueOf, allocq, IsMem, Kind
<1>3. /\ sched \in Seq(P) /\ alloc_q \in [Queue -> Seq(P)]
      /\ Ordered(sched, rob, QueueOf)
      /\ \A r \in Queue : /\ Ordered(alloc_q[r], rob, QueueOf)
                          /\ Before(Elements(sched), Elements(alloc_q[r]), rob, QueueOf)
                          /\ \A d \in Elements(alloc_q[r]) : QueueOf[d] = r
    BY Zenon DEF Queued
<1>4. e \in P /\ e \in Live /\ e \in Elements(sched)
    BY <1>3 DEF Pending, Elements
<1>5. Pending' = P \ {e}
  <2>1. \A d \in Live : rob[d] = rob[e] => d = e
      BY <1>4, LiveEntries DEF BInv
  <2> QED
      BY <1>1, <1>4, <2>1, Zenon DEF Pending
<1>6. Shortens(P, sched, i, sched') /\ Valued(P, rob)
  <2>1. Valued(P, rob)
      BY DEF Valued, Pending, Live, BInv, Ring
  <2> QED
      BY <1>3, <2>1, Zenon DEF Shortens
<1> HIDE DEF P
<1>7. /\ sched' \in Seq(P \ {e}) /\ Ordered(sched', rob, QueueOf) /\ Loses(sched', sched, e)
      /\ Len(sched') = Len(sched) - 1 /\ \A k \in 1..Len(sched) : k < i => sched'[k] = sched[k]
  <2>1. Shortens(P, sched, i, sched') /\ Valued(P, rob) /\ Ordered(sched, rob, QueueOf)
      BY <1>3, <1>6, Zenon
  <2>2. sched' \in Seq(P \ {e}) /\ Ordered(sched', rob, QueueOf) /\ Loses(sched', sched, e)
      BY ONLY <2>1, OrderedRemoved
  <2>3. Len(sched') = Len(sched) - 1
      BY ONLY <2>1, OrderedRemoved, Zenon
  <2>4. \A k \in 1..Len(sched) : k < i => sched'[k] = sched[k]
    <3>1. sched \in Seq(P) /\ i \in 1..Len(sched) /\ sched' = Erased(sched, i)
        BY <1>3
    <3>2. \A k \in 1..(Len(sched) - 1) : Erased(sched, i)[k] = IF k < i THEN sched[k] ELSE sched[k + 1]
        BY ONLY <3>1, Removed, Zenon
    <3>3. Len(sched) \in Nat
        BY <3>1
    <3> QED
        BY ONLY <3>1, <3>2, <3>3
  <2> QED
      BY <2>2, <2>3, <2>4, Zenon
<1>8. Elements(sched') = Elements(sched) \ {e}
    BY <1>7, Zenon DEF Loses
<1>9. ASSUME NEW r \in Queue
      PROVE  e \notin Elements(alloc_q[r]) /\ alloc_q[r] \in Seq(P \ {e})
  <2>1. rob[e] \in Nat
      BY <1>4 DEF BInv, Ring, Live
  <2>2. e \notin Elements(alloc_q[r])
      BY <1>3, <1>4, <2>1 DEF Before
  <2>3. Elements(alloc_q[r]) \subseteq P \ {e}
    <3>1. alloc_q[r] \in Seq(P)
        BY <1>3, Zenon
    <3>2. Elements(alloc_q[r]) \subseteq P
        BY ONLY <3>1, ElementsIn, Zenon
    <3> QED
        BY <2>2, <3>2
  <2>4. alloc_q[r] \in Seq(P \ {e})
    <3>1. alloc_q[r] \in Seq(P)
        BY <1>3, Zenon
    <3> QED
        BY ONLY <2>3, <3>1, ElementsIn, Zenon
  <2> QED
      BY <2>2, <2>4, Zenon
<1>10. alloc_q \in [Queue -> Seq(P \ {e})]
    BY ONLY <1>3, <1>9, Zenon
<1>11. \A r \in Queue : Before(Elements(sched'), Elements(alloc_q[r]), rob, QueueOf)
    BY <1>3, <1>8 DEF Before
<1>12. Queued'
    BY <1>1, <1>2, <1>3, <1>5, <1>7, <1>10, <1>11, Zenon DEF Queued
<1>13. Waits' = Waits \ {e}
  <2>1. {"gen", "mem"} \subseteq Queue
      BY DEF Queue, Queues, Range
  <2>2. Waits' = Elements(sched') \cup Elements(alloc_q["gen"]) \cup Elements(alloc_q["mem"])
      BY DEF Waits
  <2> QED
      BY <1>8, <1>9, <2>1, <2>2, Zenon DEF Waits
<1> QED
    BY <1>1, <1>2, <1>5, <1>7, <1>12, <1>13, Zenon DEF P

LEMMA AdvanceQueued ==
    ASSUME BInv, Queued, advance
    PROVE  Queued' /\ Waits' = Waits
<1> DEFINE P == Pending
           g == SubSeq(alloc_q["gen"], 1, Moved("gen"))
           m == SubSeq(alloc_q["mem"], 1, Moved("mem"))
           rest(q) == SubSeq(alloc_q[q], Moved(q) + 1, Len(alloc_q[q]))
<1>1. /\ UNCHANGED <<trace, executed, robVars>>
      /\ sched' = sched \o g \o m /\ alloc_q' = [q \in Queue |-> rest(q)]
      /\ Queue' = Queue
    BY DEF advance, Queue, Queues
<1>2. Pending' = P /\ QueueOf' = QueueOf /\ rob' = rob
    BY <1>1, EntriesKept, Zenon
<1>3. /\ sched \in Seq(P) /\ alloc_q \in [Queue -> Seq(P)]
      /\ Ordered(sched, rob, QueueOf)
      /\ \A r \in Queue : /\ Ordered(alloc_q[r], rob, QueueOf)
                          /\ Before(Elements(sched), Elements(alloc_q[r]), rob, QueueOf)
                          /\ \A d \in Elements(alloc_q[r]) : QueueOf[d] = r
    BY DEF Queued
<1>4. Queue = {"gen", "mem"}
    BY DEF Queue, Queues, Range
<1> DEFINE p(q) == SubSeq(alloc_q[q], 1, Moved(q))
<1>5. ASSUME NEW q \in Queue
      PROVE  /\ p(q) \in Seq(P) /\ rest(q) \in Seq(P)
             /\ Elements(alloc_q[q]) = Elements(p(q)) \cup Elements(rest(q))
             /\ Ordered(p(q), rob, QueueOf) /\ Ordered(rest(q), rob, QueueOf)
             /\ Before(Elements(p(q)), Elements(rest(q)), rob, QueueOf)
  <2> DEFINE s == alloc_q[q]
             k == Moved(q)
             a == p(q)
             b == rest(q)
  <2>1. s \in Seq(P) /\ Ordered(s, rob, QueueOf) /\ k \in 0..Len(s)
      BY <1>3, MovedBounded
  <2>2. a = SubSeq(s, 1, k) /\ b = SubSeq(s, k + 1, Len(s))
      OBVIOUS
  <2> HIDE DEF s, k, a, b, P
  <2>3. a \in Seq(P) /\ b \in Seq(P)
      BY ONLY <2>1, <2>2, Subsequence, Zenon
  <2>4. Joins(a, b, s)
      BY ONLY <2>1, <2>2, PartsJoin, Zenon
  <2>5. Elements(s) = Elements(a) \cup Elements(b)
      BY ONLY <2>4, OrderOfParts, Zenon
  <2>6. Ordered(s, rob, QueueOf) <=> /\ Ordered(a, rob, QueueOf) /\ Ordered(b, rob, QueueOf)
                                     /\ Before(Elements(a), Elements(b), rob, QueueOf)
      BY ONLY <2>4, OrderOfParts, Zenon
  <2> QED
      BY <2>1, <2>3, <2>5, <2>6, Zenon DEF s, a, b
<1>6. g = p("gen") /\ m = p("mem")
    BY Zenon
<1> HIDE DEF P, g, m, p, rest
<1> DEFINE l == sched \o g
<1>7. l \in Seq(P) /\ Elements(l) = Elements(sched) \cup Elements(g) /\ Ordered(l, rob, QueueOf)
  <2>1. g \in Seq(P) /\ Ordered(g, rob, QueueOf) /\ Elements(g) \subseteq Elements(alloc_q["gen"])
      BY <1>4, <1>5, <1>6, Zenon
  <2>2. Before(Elements(sched), Elements(g), rob, QueueOf)
      BY <1>3, <1>4, <2>1, Zenon DEF Before
  <2>3. Joins(sched, g, l) /\ l \in Seq(P)
    <3>1. sched \in Seq(P) /\ g \in Seq(P)
        BY <1>3, <2>1, Zenon
    <3>2. sched \o g \in Seq(P)
        BY ONLY <3>1, Concatenation, Zenon
    <3>3. Joins(sched, g, sched \o g)
        BY ONLY <3>1, ConcatJoins, Zenon
    <3> QED
        BY <3>2, <3>3, Zenon
  <2> HIDE DEF l
  <2>4. Elements(l) = Elements(sched) \cup Elements(g)
      BY ONLY <2>3, OrderOfParts, Zenon
  <2>5. Ordered(l, rob, QueueOf) <=> /\ Ordered(sched, rob, QueueOf) /\ Ordered(g, rob, QueueOf)
                                     /\ Before(Elements(sched), Elements(g), rob, QueueOf)
      BY ONLY <2>3, OrderOfParts, Zenon
  <2> QED
      BY <1>3, <2>1, <2>2, <2>3, <2>4, <2>5, Zenon
<1>8. /\ sched' \in Seq(P) /\ Elements(sched') = Elements(sched) \cup Elements(g) \cup Elements(m)
      /\ Ordered(sched', rob, QueueOf)
  <2>1. m \in Seq(P) /\ Ordered(m, rob, QueueOf) /\ Elements(m) \subseteq Elements(alloc_q["mem"])
        /\ Elements(g) \subseteq Elements(alloc_q["gen"])
      BY <1>4, <1>5, <1>6, Zenon
  <2>2. Before(Elements(l), Elements(m), rob, QueueOf)
      BY <1>3, <1>4, <1>7, <2>1, Zenon DEF Before
  <2>3. sched' = l \o m
      BY <1>1
  <2> HIDE DEF l
  <2>4. Joins(l, m, sched') /\ sched' \in Seq(P)
    <3>1. l \in Seq(P) /\ m \in Seq(P)
        BY <1>7, <2>1, Zenon
    <3>2. l \o m \in Seq(P)
        BY ONLY <3>1, Concatenation, Zenon
    <3>3. Joins(l, m, l \o m)
        BY ONLY <3>1, ConcatJoins, Zenon
    <3> QED
        BY <2>3, <3>2, <3>3, Zenon
  <2>5. Elements(sched') = Elements(l) \cup Elements(m)
      BY ONLY <2>4, OrderOfParts, Zenon
  <2>6. Ordered(sched', rob, QueueOf) <=> /\ Ordered(l, rob, QueueOf) /\ Ordered(m, rob, QueueOf)
                                          /\ Before(Elements(l), Elements(m), rob, QueueOf)
      BY ONLY <2>4, OrderOfParts, Zenon
  <2> QED
      BY <1>7, <2>1, <2>2, <2>4, <2>5, <2>6, Zenon
<1>9. \A q \in Queue : alloc_q'[q] = rest(q)
    BY <1>1, Zenon
<1>10. alloc_q' \in [Queue -> Seq(P)]
    BY ONLY <1>1, <1>5, Zenon
<1>11. ASSUME NEW q \in Queue
       PROVE  /\ Ordered(alloc_q'[q], rob, QueueOf)
              /\ Before(Elements(sched'), Elements(alloc_q'[q]), rob, QueueOf)
              /\ \A d \in Elements(alloc_q'[q]) : QueueOf[d] = q
  <2>1. /\ Ordered(alloc_q'[q], rob, QueueOf) /\ Elements(alloc_q'[q]) \subseteq Elements(alloc_q[q])
        /\ Before(Elements(p(q)), Elements(alloc_q'[q]), rob, QueueOf)
      BY <1>5, <1>9, Zenon
  <2>2. \A d \in Elements(alloc_q'[q]) : QueueOf[d] = q
      BY <1>3, <2>1, Zenon
  <2>3. \A d \in Elements(g) : QueueOf[d] = "gen"
      BY <1>3, <1>4, <1>5, <1>6, Zenon
  <2>4. \A d \in Elements(m) : QueueOf[d] = "mem"
      BY <1>3, <1>4, <1>5, <1>6, Zenon
  <2>5. Before(Elements(sched'), Elements(alloc_q'[q]), rob, QueueOf)
    <3> SUFFICES ASSUME NEW x \in Elements(sched'), NEW y \in Elements(alloc_q'[q]), QueueOf[x] = QueueOf[y]
                 PROVE  rob[x] < rob[y]
        BY Zenon DEF Before
    <3>1. CASE x \in Elements(sched)
        BY <1>3, <2>1, <3>1, Zenon DEF Before
    <3>2. CASE x \in Elements(g)
        BY <1>6, <2>1, <2>2, <2>3, <3>2, Zenon DEF Before
    <3>3. CASE x \in Elements(m)
        BY <1>6, <2>1, <2>2, <2>4, <3>3, Zenon DEF Before
    <3> QED
        BY <1>8, <3>1, <3>2, <3>3, Zenon
  <2> QED
      BY <2>1, <2>2, <2>5, Zenon
<1>12. Queued'
    BY <1>1, <1>2, <1>8, <1>10, <1>11, Zenon DEF Queued, P
<1>13. Waits' = Waits
  <2>1. Waits' = Elements(sched') \cup Elements(alloc_q'["gen"]) \cup Elements(alloc_q'["mem"])
      BY DEF Waits
  <2> QED
      BY <1>4, <1>5, <1>6, <1>8, <1>9, <2>1, Zenon DEF Waits
<1> QED
    BY <1>12, <1>13, Zenon

\* What uop_schedule does, to the entry at place i of the scheduler's list.
LEMMA UopScheduled ==
    ASSUME BInv, Queued, UNCHANGED <<trace, robVars, alloc_q>>, NEW i \in 1..Len(sched),
           NEW issued \in BOOLEAN, uop_schedule(i, issued)
    PROVE  /\ Live' = Live /\ rob' = rob /\ QueueOf' = QueueOf /\ Queued'
           /\ \/ ~issued /\ UNCHANGED <<executed, sched>> /\ Pending' = Pending /\ Waits' = Waits
              \/ /\ issued /\ executed' = executed \cup {rob[sched[i]]}
                 /\ Pending' = Pending \ {sched[i]} /\ Waits' = Waits \ {sched[i]}
                 /\ Len(sched') = Len(sched) - 1 /\ \A k \in 1..Len(sched) : k < i => sched'[k] = sched[k]
<1>1. CASE issued
  <2>1. executed' = executed \cup {rob[sched[i]]} /\ sched' = Erased(sched, i)
      BY <1>1, Zenon DEF uop_schedule
  <2> QED
      BY <1>1, <2>1, IssueQueued, Zenon
<1>2. CASE ~issued
  <2>1. UNCHANGED <<executed, sched>>
      BY <1>2, Zenon DEF uop_schedule
  <2>2. Live' = Live /\ Pending' = Pending /\ QueueOf' = QueueOf /\ rob' = rob
      BY <2>1, EntriesKept, Zenon
  <2>3. Queued' /\ Waits' = Waits
      BY <2>1, <2>2, QuietQueued, Zenon
  <2> QED
      BY <1>2, <2>1, <2>2, <2>3, Zenon
<1> QED
    BY <1>1, <1>2, Zenon

\* The entry the scheduler looks at.
LEMMA ScheduledEntry ==
    ASSUME BInv, Queued, schedule_ooo \/ schedule_io
    PROVE  /\ UNCHANGED <<trace, knobs, stage, allocated, fetched, freed, srcs, robVars, alloc_q, wb, wb_empty>>
           /\ \E i \in 1..Len(sched), issued \in BOOLEAN :
                 /\ uop_schedule(i, issued)
                 /\ knobs.schedule = "ooo" => i = scan /\ scan' = IF issued THEN scan ELSE scan + 1
                 /\ knobs.schedule = "io" =>
                       /\ sched[i] = next_inorder
                       /\ next_inorder' = IF issued THEN inc_index(next_inorder) ELSE next_inorder
<1>1. UNCHANGED <<trace, knobs, stage, allocated, fetched, freed, srcs, robVars, alloc_q, wb, wb_empty>>
    BY DEF schedule_ooo, schedule_io, mapVars, wbVars
<1>2. scan \in Nat \ {0} /\ Len(sched) \in Nat /\ DOMAIN sched = 1..Len(sched)
    BY DEF BInv, WriteBuffer, Waiting
<1>3. CASE schedule_ooo
  <2>1. scan \in 1..Len(sched) /\ knobs.schedule = "ooo"
      BY <1>2, <1>3 DEF schedule_ooo
  <2>2. PICK issued \in BOOLEAN : uop_schedule(scan, issued) /\ scan' = IF issued THEN scan ELSE scan + 1
      BY <1>3, Zenon DEF schedule_ooo
  <2> QED
      BY <1>1, <2>1, <2>2, Zenon
<1>4. CASE schedule_io
  <2>1. knobs.schedule = "io"
      BY <1>4, Zenon DEF schedule_io
  <2>2. PICK issued \in BOOLEAN, i \in DOMAIN sched :
             /\ sched[i] = next_inorder /\ uop_schedule(i, issued)
             /\ next_inorder' = IF issued THEN inc_index(next_inorder) ELSE next_inorder
      BY <1>4, Zenon DEF schedule_io
  <2> QED
      BY <1>1, <1>2, <2>1, <2>2, Zenon
<1> QED
    BY <1>3, <1>4, Zenon

LEMMA QueuedStep ==
    ASSUME BInv, IInv, Flow, Queued, Next
    PROVE  Queued'
<1>1. CASE retire_uop
  <2>1. Pending' = Pending /\ QueueOf' = QueueOf /\ rob' = rob
      BY <1>1, RetirePending, Zenon
  <2>2. UNCHANGED <<alloc_q, sched>>
      BY <1>1, Zenon DEF retire_uop, schedVars
  <2> QED
      BY <2>1, <2>2, QuietQueued, Zenon
<1>2. CASE schedule_ooo \/ schedule_io
    BY <1>2, ScheduledEntry, UopScheduled, Zenon
<1>3. CASE advance
    BY <1>3, AdvanceQueued, Zenon
<1>4. CASE allocate_uop
    BY <1>4, AllocateQueued, Zenon
<1>5. CASE complete \/ retire_end \/ drain_store \/ drain_wb \/ allocate_end \/ fetch_uop \/ fetch_end
  <2>1. UNCHANGED <<trace, executed, robVars, alloc_q, sched>>
      BY <1>5, Zenon DEF complete, retire_end, drain_store, drain_wb, allocate_end, fetch_uop, fetch_end, schedVars
  <2>2. Pending' = Pending /\ QueueOf' = QueueOf /\ rob' = rob
      BY <2>1, EntriesKept, Zenon
  <2> QED
      BY <2>1, <2>2, QuietQueued, Zenon
<1> QED
    BY <1>1, <1>2, <1>3, <1>4, <1>5, Zenon DEF Next

LEMMA PortsStep ==
    ASSUME BInv, Queued, PortsRight, Next
    PROVE  PortsRight'
<1>1. Queue' = Queue /\ {"gen", "mem"} \subseteq Queue /\ ports \in [Queue -> Nat]
    BY DEF Queue, Queues, Range, PortsRight
<1>2. CASE schedule_ooo \/ schedule_io
  <2>1. PICK i \in 1..Len(sched), issued \in BOOLEAN : uop_schedule(i, issued)
      BY <1>2, ScheduledEntry, Zenon
  <2>2. ports' = ports \/ \E q \in {"gen", "mem"} : ports' = [ports EXCEPT ![q] = @ + 1]
      BY <2>1, Zenon DEF uop_schedule, allocq
  <2>3. ASSUME NEW q \in {"gen", "mem"}, ports' = [ports EXCEPT ![q] = @ + 1]
        PROVE  ports' \in [Queue -> Nat]
      BY <1>1, <2>3
  <2> QED
      BY <1>1, <2>2, <2>3, Zenon DEF PortsRight
<1>3. CASE ~(schedule_ooo \/ schedule_io)
  <2>1. ports' = ports \/ ports' = [q \in Queue |-> 0]
      BY <1>3, Zenon DEF Next, complete, retire_uop, retire_end, drain_store, drain_wb,
             advance, allocate_uop, allocate_end, fetch_uop, fetch_end, schedVars
  <2> QED
      BY <1>1, <2>1 DEF PortsRight
<1> QED
    BY <1>2, <1>3, Zenon

-----------------------------------------------------------------------------
(* The in-order scheduler                                                  *)

\* m uops are issued; the next entry is that of uop m + 1.
Issued(m) ==
    /\ m \in (allocated - entries)..allocated /\ executed = 1..m
    /\ next_inorder = Place(first, m - (allocated - entries), Size)

LEMMA InOrderTerms == IssuedInOrder <=> (knobs.schedule = "io" => \E m \in (allocated - entries)..allocated : Issued(m))
    BY Zenon DEF IssuedInOrder, Issued, Place

LEMMA InOrderEntry ==
    ASSUME BInv, NEW m, Issued(m), next_inorder \in Live
    PROVE  rob[next_inorder] = m + 1 /\ m + 1 \in 1..allocated
<1> DEFINE n == entries
           k == m - (allocated - n)
<1>1. /\ first \in 0..(Size - 1) /\ Size \in Nat \ {0} /\ n \in 0..(Size - 1)
      /\ allocated \in Nat /\ n <= allocated
      /\ \A e : InRob(e) = Distance(e, first, Size)
    BY RingTerms, Zenon DEF BInv
<1>2. m \in (allocated - n)..allocated /\ next_inorder = Place(first, k, Size)
    BY Zenon DEF Issued
<1>3. /\ InRob(next_inorder) \in 0..(n - 1)
      /\ rob[next_inorder] = allocated - n + 1 + InRob(next_inorder)
    BY LiveEntries, Zenon DEF BInv
<1> HIDE DEF n
<1>4. k \in 0..(Size - 1)
    BY ONLY <1>1, <1>2
<1> HIDE DEF k
<1>5. Distance(Place(first, k, Size), first, Size) = k
    BY ONLY <1>1, <1>4, RelativeIndex, Zenon
<1>6. InRob(next_inorder) = k
    BY <1>1, <1>2, <1>5, Zenon
<1>7. rob[next_inorder] = allocated - n + 1 + k /\ k \in 0..(n - 1)
    BY <1>3, <1>6, Zenon
<1> QED
    BY ONLY <1>1, <1>2, <1>7 DEF k

LEMMA InOrderStep ==
    ASSUME BInv, IInv, Flow, Queued, IssuedInOrder, Next
    PROVE  IssuedInOrder'
<1> SUFFICES ASSUME knobs.schedule = "io"
             PROVE  \E m \in (allocated - entries)'..allocated' : Issued(m)'
  <2>1. knobs' = knobs
      BY KindKept, Zenon
  <2>2. IssuedInOrder' <=> (knobs.schedule = "io" => \E m \in (allocated - entries)'..allocated' : Issued(m)')
      BY <2>1 DEF IssuedInOrder, Issued, Place
  <2> QED
      BY <2>2, Zenon
<1>1. PICK m \in (allocated - entries)..allocated : Issued(m)
    BY InOrderTerms, Zenon
<1> DEFINE n == entries
           R == allocated - n
<1>2. /\ first \in 0..(Size - 1) /\ Size \in Nat \ {0} /\ n \in 0..RobSize /\ allocated \in Nat /\ n <= allocated
      /\ RobSize \in Nat \ {0} /\ Size = 2 * RobSize
    BY RingTerms, Sizes, SizeType DEF BInv, Ring, entries
<1>3. m \in R..allocated /\ executed = 1..m /\ next_inorder = Place(first, m - R, Size)
    BY <1>1, Zenon DEF Issued
<1>4. CASE retire_uop
  <2>1. /\ front \in executed /\ front = R + 1
      BY <1>4, RetiredUop, Zenon
  <2>2. /\ UNCHANGED <<executed, next_inorder, allocated>> /\ first' = (first + 1) % Size /\ free' = free + 1
        /\ entries > 0
      BY <1>4, Zenon DEF retire_uop, can_retire, schedVars, pop, inc_index, Size
  <2>3. entries' = n - 1 /\ n \in 1..RobSize
      BY <1>2, <2>2, Sizes DEF entries, BInv, Ring
  <2> HIDE DEF n
  <2>4. m \in (R + 1)..allocated /\ m - R - 1 \in 0..(n - 1)
      BY <1>2, <1>3, <2>1, <2>3
  <2> DEFINE k == m - R - 1
  <2>5. k \in 0..(n - 1) /\ k + 1 = m - R /\ (k \in 0..(n - 2) \/ k = n - 1) /\ (n - 1) + 1 = n
      BY ONLY <1>2, <1>3, <2>4
  <2> HIDE DEF k
  <2>6. Place(first', k, Size) = Place(first, k + 1, Size)
    <3>1. /\ (((first + 1) % Size) + (n - 1)) % Size = (first + n) % Size
          /\ \A j \in 0..(n - 2) : (((first + 1) % Size) + j) % Size = (first + (j + 1)) % Size
        BY ONLY <1>2, <2>3, RingPop
    <3> QED
        BY ONLY <2>2, <2>5, <3>1, Zenon DEF Place
  <2>7. (allocated - entries)' = R + 1 /\ m - (R + 1) = k
      BY <1>2, <1>3, <2>2, <2>3, <2>4 DEF k
  <2>8. Issued(m)'
    <3>1. next_inorder' = Place(first', m - (R + 1), Size')
        BY <1>3, <2>2, <2>5, <2>6, <2>7, Zenon DEF Size
    <3>2. /\ m \in (allocated - entries)'..allocated' /\ executed' = 1..m
          /\ next_inorder' = Place(first', m - (allocated - entries)', Size')
        BY ONLY <1>3, <2>2, <2>4, <2>7, <3>1, Zenon
    <3> QED
        BY <3>2, Zenon DEF Issued
  <2> QED
      BY <2>2, <2>4, <2>7, <2>8, Zenon
<1>5. CASE schedule_ooo \/ schedule_io
  <2>1. UNCHANGED <<trace, allocated, robVars, alloc_q>> /\ UNCHANGED <<first, free>>
      BY <1>5, ScheduledEntry, Zenon DEF robVars
  <2>2. PICK i \in 1..Len(sched), issued \in BOOLEAN :
              /\ uop_schedule(i, issued) /\ sched[i] = next_inorder
              /\ next_inorder' = IF issued THEN inc_index(next_inorder) ELSE next_inorder
      BY <1>5, ScheduledEntry, Zenon
  <2>3. (allocated - entries)' = R /\ allocated' = allocated /\ first' = first /\ Size' = Size
      BY <2>1, Zenon DEF entries, Size
  <2>4. CASE ~issued
    <3>1. executed' = executed
        BY <2>4, <2>2, Zenon DEF uop_schedule
    <3>2. Issued(m)'
        BY <1>1, <2>2, <2>3, <2>4, <3>1, Zenon DEF Issued
    <3> QED
        BY <1>3, <2>3, <3>2, Zenon
  <2>5. CASE issued
    <3>1. executed' = executed \cup {rob[sched[i]]}
        BY <2>2, <2>5, Zenon DEF uop_schedule
    <3>2. sched[i] \in Live
        BY DEF Queued, Pending
    <3>3. rob[sched[i]] = m + 1 /\ m + 1 \in 1..allocated
        BY <1>1, <2>2, <3>2, InOrderEntry, Zenon
    <3>4. PICK w \in 1..allocated : w = m + 1
        BY <3>3, Zenon
    <3>5. executed' = 1..w /\ w \in R..allocated
        BY <1>2, <1>3, <3>1, <3>3, <3>4
    <3> DEFINE k == m - R
    <3> HIDE DEF n
    <3>6. k \in 0..(RobSize - 1) /\ k + 1 = w - R
        BY ONLY <1>2, <1>3, <3>4
    <3> HIDE DEF k
    <3>7. inc_index(Place(first, k, Size)) = Place(first, k + 1, Size)
      <4>1. (((first + k) % Size) + 1) % Size = (first + (k + 1)) % Size
          BY ONLY <1>2, <3>6, RingPush
      <4> QED
          BY ONLY <4>1, Zenon DEF Place, inc_index, Size
    <3>8. next_inorder' = Place(first, w - R, Size)
        BY <1>3, <2>2, <2>5, <3>6, <3>7, Zenon DEF k
    <3>9. Issued(w)'
      <4>1. w \in (allocated - entries)'..allocated'
          BY ONLY <2>3, <3>5, Zenon
      <4>2. next_inorder' = Place(first', w - (allocated - entries)', Size')
          BY ONLY <2>3, <3>8, Zenon
      <4> QED
          BY <3>5, <4>1, <4>2, Zenon DEF Issued
    <3> QED
        BY <2>3, <3>5, <3>9, Zenon
  <2> QED
      BY <2>4, <2>5, Zenon
<1>6. CASE allocate_uop
  <2>1. /\ UNCHANGED <<executed, next_inorder, first>> /\ allocated' = allocated + 1 /\ free' = free - 1
        /\ free > 0 /\ Size' = Size
      BY <1>6, Zenon DEF allocate_uop, Size
  <2>2. (allocated - entries)' = R /\ m \in R..allocated'
      BY <1>2, <1>3, <2>1, Sizes DEF entries, BInv, Ring
  <2>3. Issued(m)'
      BY <1>3, <2>1, <2>2, Zenon DEF Issued
  <2> QED
      BY <2>2, <2>3, Zenon
<1>7. CASE complete \/ retire_end \/ drain_store \/ drain_wb \/ advance \/ allocate_end \/ fetch_uop \/ fetch_end
  <2>1. UNCHANGED <<executed, allocated, robVars, next_inorder>>
      BY <1>7, Zenon DEF complete, retire_end, drain_store, drain_wb, advance, allocate_end, fetch_uop, fetch_end, schedVars
  <2>2. (allocated - entries)' = R /\ allocated' = allocated /\ first' = first /\ Size' = Size
      BY <2>1, Zenon DEF entries, Size, robVars
  <2>3. Issued(m)'
      BY <1>1, <2>1, <2>2, Zenon DEF Issued
  <2> QED
      BY <1>3, <2>2, <2>3, Zenon
<1> QED
    BY <1>4, <1>5, <1>6, <1>7, Zenon DEF Next

-----------------------------------------------------------------------------
(* Fences                                                                  *)

\* A fence is issued when nothing before it is pending: not in the reorder
\* buffer, and not in the write buffer.
LEMMA IssuedFence ==
    ASSUME BInv, Flow, Queued, stage = "schedule", ~knobs.acq_rel, NEW i \in 1..Len(sched),
           uop_schedule(i, TRUE), IsFence(sched[i])
    PROVE  \A a \in 1..(rob[sched[i]] - 1) : IsMem(a) => a \in freed
<1> DEFINE e == sched[i]
           u == rob[e]
<1>1. ~IsMem(u) /\ Kind(u) \in Fences
    BY DEF IsFence, IsMem, Fences, Full, Memory, Stores, Loads
<1>2. ~pending_mem_ops(e)
    BY <1>1, Zenon DEF uop_schedule
<1>3. wb = <<>>
    BY <1>2, Zenon DEF pending_mem_ops, Flow
<1>4. Retired \subseteq freed
  <2>1. Elements(wb) = {}
      BY <1>3 DEF Elements
  <2> QED
      BY <2>1, Zenon DEF Flow
<1>5. /\ \A d \in Live : InRob(d) \in 0..(entries - 1) /\ rob[d] = allocated - entries + 1 + InRob(d)
      /\ \A v \in (allocated - entries + 1)..allocated : \E d \in Live : rob[d] = v
    BY LiveEntries, Zenon DEF BInv
<1>6. allocated \in Nat /\ entries \in Nat /\ entries <= allocated
    BY RingTerms DEF BInv
<1>7. e \in Live
    BY DEF Queued, Pending
<1> SUFFICES ASSUME NEW a \in 1..(u - 1), IsMem(a) PROVE a \in freed
    BY Zenon
<1>8. CASE a \in 1..(allocated - entries)
    BY <1>4, <1>8, Zenon DEF Retired
<1>9. CASE a \notin 1..(allocated - entries)
  <2>1. u \in Nat /\ u <= allocated /\ a \in (allocated - entries + 1)..allocated
    <3>1. InRob(e) \in 0..(entries - 1) /\ u = allocated - entries + 1 + InRob(e)
        BY <1>5, <1>7, Zenon
    <3>2. u \in Nat /\ u <= allocated
        BY ONLY <1>6, <3>1
    <3> QED
        BY ONLY <1>6, <1>9, <3>2, a \in 1..(u - 1)
  <2>2. PICK d \in Live : rob[d] = a
      BY <1>5, <2>1
  <2>3. InRob(d) < InRob(e)
    <3>1. /\ InRob(d) \in Int /\ InRob(e) \in Int
          /\ rob[d] = allocated - entries + 1 + InRob(d) /\ u = allocated - entries + 1 + InRob(e)
        BY <1>5, <1>6, <1>7
    <3>2. rob[d] < u
        BY <2>1, <2>2
    <3> QED
        BY ONLY <1>6, <3>1, <3>2
  <2>4. d \in Index /\ IsMem(rob[d])
      BY <2>2, Zenon DEF Live
  <2> QED
      BY <1>2, <2>3, <2>4, Zenon DEF pending_mem_ops
<1> QED
    BY <1>8, <1>9, Zenon

LEMMA WaitedStep ==
    ASSUME BInv, IInv, Flow, Queued, FencesWaited, Next
    PROVE  FencesWaited'
<1>1. trace' = trace /\ knobs' = knobs /\ \A u : Kind(u)' = Kind(u) /\ IsMem(u)' = IsMem(u)
    BY KindKept, Zenon
<1>2. CASE schedule_ooo \/ schedule_io
  <2>1. stage = "schedule"
      BY <1>2, Zenon DEF schedule_ooo, schedule_io
  <2>2. PICK i \in 1..Len(sched), issued \in BOOLEAN : uop_schedule(i, issued)
      BY <1>2, ScheduledEntry, Zenon
  <2>3. freed' = freed
      BY <1>2, ScheduledEntry, Zenon
  <2>4. CASE issued
    <3>1. executed' = executed \cup {rob[sched[i]]}
        BY <2>2, <2>4, Zenon DEF uop_schedule
    <3>2. ~knobs.acq_rel /\ Kind(rob[sched[i]]) \in Fences
              => \A a \in 1..(rob[sched[i]] - 1) : IsMem(a) => a \in freed
      <4>1. uop_schedule(i, TRUE)
          BY <2>2, <2>4, Zenon
      <4> QED
          BY <2>1, <4>1, IssuedFence, Zenon DEF IsFence
    <3> QED
        BY <1>1, <2>3, <3>1, <3>2, Zenon DEF FencesWaited
  <2>5. CASE ~issued
    <3>1. executed' = executed
        BY <2>2, <2>5, Zenon DEF uop_schedule
    <3> QED
        BY <1>1, <2>3, <3>1, Zenon DEF FencesWaited
  <2> QED
      BY <2>4, <2>5, Zenon
<1>3. CASE ~(schedule_ooo \/ schedule_io)
  <2>1. executed' = executed
      BY <1>3, Zenon DEF Next, complete, retire_uop, retire_end, drain_store, drain_wb,
             advance, allocate_uop, allocate_end, fetch_uop, fetch_end
  <2>2. freed \subseteq freed'
      BY <1>3, Zenon DEF Next, complete, retire_uop, retire_end, drain_store, drain_wb,
             advance, allocate_uop, allocate_end, fetch_uop, fetch, fetch_end, mapVars, free_uop_resources
  <2> QED
      BY <1>1, <2>1, <2>2, Zenon DEF FencesWaited
<1> QED
    BY <1>2, <1>3, Zenon

\* Steps that concern no fence.
LEMMA QuietFences ==
    ASSUME FenceLists, UNCHANGED <<trace, knobs, executed, fences, rob>>, Live' = Live, Waits' = Waits,
           stage' = "schedule" => scan' = 1
    PROVE  FenceLists'
<1>1. \A e : /\ IsFence(e)' = IsFence(e) /\ Active(e)' = Active(e)
             /\ \A u : fence_type(u)' = fence_type(u)
    BY Zenon DEF IsFence, Active, fence_type, Kind, Elements
<1>2. \A f : FenceList(f)' = FenceList(f)
    BY <1>1, Zenon DEF FenceList, Elements
<1>3. /\ DOMAIN fences' = Fences /\ \A f \in Fences : FenceList(f)'
      /\ \A e \in Live' : IsFence(e)' /\ rob'[e] \in executed' => e \in Active(e)'
      /\ \A e \in Waits' : IsFence(e)' /\ e \notin Active(e)' => \A g \in Active(e)' : rob'[g] < rob'[e]
    BY <1>1, <1>2, Zenon DEF FenceLists
<1>4. stage' = "schedule" => \A j \in 1..Len(sched') : ~(j < scan')
    OBVIOUS
<1> QED
    BY <1>3, <1>4, Zenon DEF FenceLists

LEMMA AllocateFences ==
    ASSUME BInv, Flow, Queued, FenceLists, allocate_uop
    PROVE  FenceLists'
<1>1. /\ Live' = Live \cup {last} /\ last \notin Live
      /\ rob'[last] = allocated + 1
      /\ \A e \in Live : rob'[e] = rob[e] /\ rob[e] \in 1..allocated
    BY AllocatePending, Zenon
<1>2. Waits' = Waits \cup {last} /\ Waits \subseteq Live
    BY AllocateQueued, Zenon DEF Pending
<1>3. UNCHANGED <<trace, knobs, executed, fences, stage>> /\ stage = "allocate"
    BY Zenon DEF allocate_uop
<1>4. allocated \in Nat /\ allocated + 1 \notin executed
    BY RingTerms DEF BInv, Flow
<1>5. \A u : fence_type(u)' = fence_type(u) /\ Kind(u)' = Kind(u)
    BY <1>3, Zenon DEF fence_type, Kind
<1>6. \A e \in Live : /\ IsFence(e)' = IsFence(e) /\ Active(e)' = Active(e)
                      /\ fence_type(rob[e])' = fence_type(rob[e])
    BY <1>1, <1>3, <1>5, Zenon DEF IsFence, Active, Elements, fence_type
<1>7. /\ DOMAIN fences = Fences /\ \A f \in Fences : FenceList(f)
      /\ \A e \in Live : IsFence(e) /\ rob[e] \in executed => e \in Active(e)
      /\ \A e \in Waits : IsFence(e) /\ e \notin Active(e) => \A g \in Active(e) : rob[g] < rob[e]
    BY Zenon DEF FenceLists
<1>8. ASSUME NEW f \in Fences PROVE FenceList(f)' /\ Elements(fences[f]) \subseteq Live
  <2>1. /\ fences[f] \in Seq(Live)
        /\ \A e \in Elements(fences[f]) : IsFence(e) /\ fence_type(rob[e]) = f
        /\ \A i, j \in 1..Len(fences[f]) : i < j => rob[fences[f][i]] < rob[fences[f][j]]
      BY <1>7, Zenon DEF FenceList
  <2>2. Elements(fences[f]) \subseteq Live /\ \A i \in 1..Len(fences[f]) : fences[f][i] \in Live
      BY <2>1 DEF Elements
  <2>3. fences[f] \in Seq(Live \cup {last})
      BY ONLY <2>1, SeqGrows, Zenon
  <2>4. \A e \in Elements(fences[f]) : IsFence(e)' /\ fence_type(rob[e])' = f
      BY <1>6, <2>1, <2>2, Zenon
  <2>5. \A i, j \in 1..Len(fences[f]) : i < j => rob'[fences[f][i]] < rob'[fences[f][j]]
      BY <1>1, <2>1, <2>2, Zenon
  <2> QED
      BY <1>1, <1>3, <2>2, <2>3, <2>4, <2>5, Zenon DEF FenceList
<1>9. ASSUME NEW e \in Waits', IsFence(e)', e \notin Active(e)', NEW g \in Active(e)'
      PROVE  rob'[g] < rob'[e]
  <2>1. fence_type(rob[e])' \in Fences
      BY <1>9, Zenon DEF fence_type, IsFence, Fences, Full
  <2>2. g \in Live
      BY <1>3, <1>8, <2>1, Zenon DEF Active
  <2>3. CASE e = last
      BY <1>1, <1>4, <2>2, <2>3
  <2>4. CASE e \in Waits
    <3>1. rob[g] < rob[e]
        BY <1>2, <1>6, <1>7, <1>9, <2>4, Zenon
    <3> QED
        BY <1>1, <1>2, <2>2, <2>4, <3>1, Zenon
  <2> QED
      BY <1>2, <2>3, <2>4, Zenon
<1>10. \A e \in Waits' : IsFence(e)' /\ e \notin Active(e)' => \A g \in Active(e)' : rob'[g] < rob'[e]
    BY <1>9, Zenon
<1>11. \A e \in Live' : IsFence(e)' /\ rob'[e] \in executed' => e \in Active(e)'
    BY <1>1, <1>3, <1>4, <1>6, <1>7, Zenon
<1> QED
    BY <1>3, <1>7, <1>8, <1>10, <1>11, Zenon DEF FenceLists

\* The first of a list of distinct elements is dropped.
LEMMA TailDrops ==
    ASSUME NEW S, NEW s \in Seq(S), NEW v, \A x \in S : v[x] \in Nat,
           \A i, j \in 1..Len(s) : i < j => v[s[i]] < v[s[j]],
           NEW x \in Elements(s), \A y \in Elements(s) : v[x] <= v[y]
    PROVE  /\ Tail(s) \in Seq(S \ {x}) /\ Elements(Tail(s)) = Elements(s) \ {x}
           /\ \A i, j \in 1..Len(Tail(s)) : i < j => v[Tail(s)[i]] < v[Tail(s)[j]]
<1>1. Len(s) \in Nat /\ \A i \in 1..Len(s) : s[i] \in S /\ s[i] \in Elements(s) /\ v[s[i]] \in Nat
    BY DEF Elements
<1>2. PICK k \in 1..Len(s) : s[k] = x
    BY DEF Elements
<1>3. \A i, j \in 1..Len(s) : i < j => v[s[i]] < v[s[j]]
    BY Zenon
<1>4. k = 1 /\ 1 \in 1..Len(s)
  <2>1. 1 \in 1..Len(s)
      BY <1>1, <1>2
  <2>2. v[x] <= v[s[1]]
      BY <1>1, <2>1, Zenon
  <2>3. ~(1 < k)
      BY ONLY <1>1, <1>2, <1>3, <2>1, <2>2
  <2> QED
      BY <1>1, <1>2, <2>1, <2>3
<1>5. /\ Tail(s) \in Seq(S) /\ Len(Tail(s)) = Len(s) - 1
      /\ \A i \in 1..(Len(s) - 1) : Tail(s)[i] = s[i + 1]
    BY <1>1, <1>4
<1> DEFINE t == Tail(s)
<1>6. t \in Seq(S) /\ Len(t) = Len(s) - 1 /\ \A i \in 1..(Len(s) - 1) : t[i] = s[i + 1] /\ i + 1 \in 1..Len(s)
    BY <1>1, <1>5
<1> HIDE DEF t
<1>7. ASSUME NEW i \in 1..Len(t), NEW j \in 1..Len(t), i < j PROVE v[t[i]] < v[t[j]]
  <2>1. i \in 1..(Len(s) - 1) /\ j \in 1..(Len(s) - 1)
      BY ONLY <1>6, <1>7, Zenon
  <2>2. i + 1 < j + 1
      BY ONLY <1>1, <1>7, <2>1
  <2> QED
      BY ONLY <1>3, <1>6, <2>1, <2>2, Zenon
<1>8. \A i \in 1..Len(t) : t[i] # x /\ t[i] \in Elements(s)
  <2>1. \A i \in 1..Len(t) : v[s[1]] < v[s[i + 1]]
      BY ONLY <1>1, <1>3, <1>4, <1>6
  <2> QED
      BY ONLY <1>1, <1>2, <1>4, <1>6, <2>1
<1>9. \A y \in Elements(s) : y # x => y \in Elements(t)
  <2> SUFFICES ASSUME NEW y \in Elements(s), y # x PROVE y \in Elements(t)
      OBVIOUS
  <2>1. PICK j \in 1..Len(s) : y = s[j]
      BY Zenon DEF Elements
  <2>2. j # 1
      BY <1>2, <1>4, <2>1, Zenon
  <2>3. j - 1 \in 1..Len(t) /\ (j - 1) + 1 = j
      BY ONLY <1>1, <1>6, <2>1, <2>2
  <2>4. t[j - 1] = y
      BY ONLY <1>6, <2>1, <2>3, Zenon
  <2> QED
      BY <2>3, <2>4 DEF Elements
<1>10. Elements(t) = Elements(s) \ {x}
  <2>1. Elements(t) = {t[i] : i \in 1..Len(t)}
      BY Zenon DEF Elements
  <2> QED
      BY ONLY <1>8, <1>9, <2>1, Zenon
<1>11. t \in Seq(S \ {x})
  <2>1. Elements(s) \subseteq S
      BY ElementsIn, Zenon
  <2>2. Elements(t) \subseteq S \ {x}
      BY <1>10, <2>1, Zenon
  <2> QED
      BY ONLY <1>6, <2>2, ElementsIn, Zenon
<1> QED
    BY <1>7, <1>10, <1>11, Zenon DEF t

LEMMA RetireFences ==
    ASSUME BInv, IInv, Flow, Queued, FenceLists, retire_uop
    PROVE  FenceLists'
<1>1. Live' = Live \ {first} /\ first \in Live /\ Pending' = Pending /\ QueueOf' = QueueOf /\ rob' = rob
    BY RetirePending, Zenon
<1>2. /\ UNCHANGED <<trace, knobs, executed, stage, alloc_q, sched>> /\ stage = "retire"
      /\ fences' = IF IsFence(first) THEN [fences EXCEPT ![fence_type(rob[first])] = Tail(@)] ELSE fences
    BY DEF retire_uop, schedVars, IsFence, front
<1>3. Waits' = Waits /\ Waits \subseteq Pending
  <2>1. Waits' = Waits
      BY <1>1, <1>2, QuietQueued, Zenon
  <2>2. {"gen", "mem"} \subseteq Queue
      BY DEF Queue, Queues, Range
  <2>3. sched \in Seq(Pending) /\ alloc_q["gen"] \in Seq(Pending) /\ alloc_q["mem"] \in Seq(Pending)
      BY <2>2, Zenon DEF Queued
  <2>4. Elements(sched) \subseteq Pending /\ Elements(alloc_q["gen"]) \subseteq Pending
        /\ Elements(alloc_q["mem"]) \subseteq Pending
      BY ONLY <2>3, ElementsIn, Zenon
  <2> QED
      BY <2>1, <2>4, Zenon DEF Waits
<1>4. rob[first] \in executed /\ first \notin Waits
    BY <1>3, RetiredUop, Zenon DEF front, Pending
<1>5. \A e \in Live : rob[e] \in Nat /\ rob[first] <= rob[e]
  <2>1. /\ \A e \in Live : InRob(e) \in 0..(entries - 1) /\ rob[e] = allocated - entries + 1 + InRob(e)
      BY LiveEntries, Zenon DEF BInv
  <2>2. rob[first] = allocated - entries + 1
      BY RetiredUop, Zenon DEF front
  <2>3. allocated \in Nat /\ entries \in Nat /\ entries <= allocated
      BY RingTerms DEF BInv
  <2>4. ASSUME NEW e \in Live PROVE rob[e] \in Nat /\ rob[first] <= rob[e]
    <3>1. InRob(e) \in Nat /\ rob[e] = allocated - entries + 1 + InRob(e)
        BY <2>1, <2>3
    <3> QED
        BY ONLY <2>2, <2>3, <3>1
  <2> QED
      BY <2>4, Zenon
<1>6. /\ DOMAIN fences = Fences /\ \A f \in Fences : FenceList(f)
      /\ \A e \in Live : IsFence(e) /\ rob[e] \in executed => e \in Active(e)
      /\ \A e \in Waits : IsFence(e) /\ e \notin Active(e) => \A g \in Active(e) : rob[g] < rob[e]
    BY Zenon DEF FenceLists
<1>7. \A e : /\ IsFence(e)' = IsFence(e) /\ fence_type(rob[e])' = fence_type(rob[e])
             /\ Active(e)' = Elements(fences'[fence_type(rob[e])])
    BY <1>1, <1>2, Zenon DEF IsFence, Active, fence_type, Kind, Elements
\* each list loses the entry that retires, if it has it
<1>8. ASSUME NEW f \in Fences
      PROVE  /\ fences'[f] \in Seq(Live \ {first}) /\ Elements(fences'[f]) = Elements(fences[f]) \ {first}
             /\ \A i, j \in 1..Len(fences'[f]) : i < j => rob[fences'[f][i]] < rob[fences'[f][j]]
  <2> DEFINE s == fences[f]
  <2>1. /\ s \in Seq(Live)
        /\ \A e \in Elements(s) : IsFence(e) /\ fence_type(rob[e]) = f
        /\ \A i, j \in 1..Len(s) : i < j => rob[s[i]] < rob[s[j]]
      BY <1>6, Zenon DEF FenceList
  <2> HIDE DEF s
  <2>2. Elements(s) \subseteq Live
      BY ONLY <2>1, ElementsIn, Zenon
  <2>3. CASE first \in Elements(s)
    <3>1. fences'[f] = Tail(s)
        BY <1>2, <1>6, <2>1, <2>3, Zenon DEF s
    <3>2. \A y \in Elements(s) : rob[first] <= rob[y]
        BY <1>5, <2>2, Zenon
    <3>3. \A y \in Live : rob[y] \in Nat
        BY <1>5
    <3>4. /\ Tail(s) \in Seq(Live \ {first}) /\ Elements(Tail(s)) = Elements(s) \ {first}
          /\ \A i, j \in 1..Len(Tail(s)) : i < j => rob[Tail(s)[i]] < rob[Tail(s)[j]]
        BY ONLY <2>1, <2>3, <3>2, <3>3, TailDrops, Zenon
    <3> QED
        BY ONLY <3>1, <3>4, Zenon DEF s
  <2>4. CASE first \notin Elements(s)
    <3>1. fences'[f] = s
      <4>1. IsFence(first) => fence_type(rob[first]) # f
          BY <1>1, <1>4, <1>6, <2>4, Zenon DEF Active, s
      <4> QED
          BY <1>2, <1>6, <4>1, Zenon DEF s
    <3>2. Elements(s) \subseteq Live \ {first}
        BY <2>2, <2>4, Zenon
    <3>3. s \in Seq(Live \ {first})
        BY ONLY <2>1, <3>2, ElementsIn, Zenon
    <3> QED
        BY <2>1, <2>4, <3>1, <3>3, Zenon DEF s
  <2> QED
      BY <2>3, <2>4, Zenon
<1>9. DOMAIN fences' = Fences
    BY <1>2, <1>6, Zenon
<1>10. ASSUME NEW f \in Fences PROVE FenceList(f)'
    BY <1>1, <1>6, <1>7, <1>8, Zenon DEF FenceList
<1>11. \A e : IsFence(e) => fence_type(rob[e]) \in Fences
    BY DEF fence_type, IsFence, Fences, Full
<1>12. \A e : IsFence(e) => Active(e)' = Active(e) \ {first}
    BY <1>7, <1>8, <1>11, Zenon DEF Active
<1>13. \A e \in Live' : IsFence(e)' /\ rob'[e] \in executed' => e \in Active(e)'
    BY <1>1, <1>2, <1>6, <1>7, <1>12, Zenon
<1>14. \A e \in Waits' : IsFence(e)' /\ e \notin Active(e)' => \A g \in Active(e)' : rob'[g] < rob'[e]
    BY <1>1, <1>3, <1>4, <1>6, <1>7, <1>12, Zenon
<1> QED
    BY <1>2, <1>9, <1>10, <1>13, <1>14, Zenon DEF FenceLists

\* A fence enters its list when it is first tried, after the older ones.
Rising(s, v) == \A i, j \in 1..Len(s) : i < j => v[s[i]] < v[s[j]]
Enters(S, s, e, r) == s \in Seq(S) /\ e \in S /\ r = IF e \in Range(s) THEN s ELSE Append(s, e)

LEMMA FenceEntered ==
    ASSUME NEW S, NEW s, NEW e, NEW r, Enters(S, s, e, r),
           NEW v, Rising(s, v), e \notin Elements(s) => Later(s, v, e)
    PROVE  r \in Seq(S) /\ Gains(r, s, e) /\ Rising(r, v)
<1>1. Range(s) = Elements(s) /\ s \in Seq(S) /\ e \in S
    BY DEF Range, Elements, Enters
<1>2. CASE e \in Elements(s)
    BY <1>1, <1>2, Zenon DEF Enters, Gains
<1>3. CASE e \notin Elements(s)
  <2>1. r = Append(s, e)
      BY <1>1, <1>3, Zenon DEF Enters
  <2>2. /\ r \in Seq(S) /\ Len(s) \in Nat /\ Len(r) = Len(s) + 1 /\ r[Len(s) + 1] = e
        /\ \A i \in 1..Len(s) : r[i] = s[i]
      BY <1>1, <2>1
  <2>3. Elements(r) = Elements(s) \cup {e}
      BY ONLY <2>2 DEF Elements
  <2>4. \A i \in 1..Len(s) : v[s[i]] < v[e]
      BY <1>3, Zenon DEF Elements, Later
  <2>5. \A i, j \in 1..Len(s) : i < j => v[s[i]] < v[s[j]]
      BY Zenon DEF Rising
  <2>6. \A i, j \in 1..Len(r) : i < j => v[r[i]] < v[r[j]]
      BY ONLY <2>2, <2>4, <2>5
  <2> QED
      BY <2>2, <2>3, <2>6, Zenon DEF Gains, Rising
<1> QED
    BY <1>2, <1>3, Zenon

\* A fence that waits, is not active and is older than the one that is tried:
\* there is none.  The in-order scheduler tries the oldest uop; the
\* out-of-order one has passed over a fence only when the ports were used up.
LEMMA OldestFence ==
    ASSUME BInv, Flow, Queued, PortsRight, FenceLists, IssuedInOrder, stage = "schedule",
           knobs.schedule \in {"ooo", "io"},
           NEW i \in 1..Len(sched), knobs.schedule = "ooo" => i = scan,
           knobs.schedule = "io" => sched[i] = next_inorder,
           IsFence(sched[i]), ports["gen"] < SchedRate,
           NEW d \in Waits, IsFence(d), d \notin Active(d), d # sched[i]
    PROVE  rob[sched[i]] < rob[d]
<1> DEFINE e == sched[i]
<1>1. /\ sched \in Seq(Pending) /\ Ordered(sched, rob, QueueOf)
      /\ \A r \in Queue : Before(Elements(sched), Elements(alloc_q[r]), rob, QueueOf)
      /\ alloc_q \in [Queue -> Seq(Pending)]
    BY Zenon DEF Queued
<1>2. {"gen", "mem"} \subseteq Queue /\ Pending \subseteq Live /\ Live \subseteq Index
    BY DEF Queue, Queues, Range, Pending, Live
<1>3. e \in Pending /\ e \in Elements(sched) /\ Waits \subseteq Pending
  <2>1. sched \in Seq(Pending) /\ alloc_q["gen"] \in Seq(Pending) /\ alloc_q["mem"] \in Seq(Pending)
      BY <1>1, <1>2, Zenon
  <2>2. Elements(sched) \subseteq Pending /\ Elements(alloc_q["gen"]) \subseteq Pending
        /\ Elements(alloc_q["mem"]) \subseteq Pending
      BY ONLY <2>1, ElementsIn, Zenon
  <2> QED
      BY <1>1, <2>2, Zenon DEF Waits, Elements
<1>4. \A x \in Live : IsFence(x) => QueueOf[x] = "gen"
    BY <1>2, Zenon DEF QueueOf, allocq, IsMem, IsFence, Fences, Full, Memory, Stores, Loads
<1>5. QueueOf[e] = QueueOf[d]
    BY <1>2, <1>3, <1>4, Zenon
<1>6. CASE d \in Elements(alloc_q["gen"]) \/ d \in Elements(alloc_q["mem"])
    BY <1>1, <1>2, <1>3, <1>5, <1>6, Zenon DEF Before
<1>7. CASE d \in Elements(sched)
  <2>1. PICK j \in 1..Len(sched) : d = sched[j]
      BY <1>7, Zenon DEF Elements
  <2>2. j # i /\ Len(sched) \in Nat
      BY <1>1, <2>1
  <2>3. CASE i < j
      BY <1>1, <1>5, <2>1, <2>3, Zenon DEF Ordered
  <2>4. CASE j < i /\ knobs.schedule = "ooo"
      BY <2>1, <2>4, Zenon DEF FenceLists
  <2>5. CASE knobs.schedule = "io"
    <3>1. PICK m \in (allocated - entries)..allocated : Issued(m)
        BY <2>5, InOrderTerms, Zenon
    <3>2. rob[e] = m + 1 /\ m + 1 \in 1..allocated
        BY <1>2, <1>3, <2>5, <3>1, InOrderEntry, Zenon
    <3>3. rob[d] \notin 1..m /\ rob[d] # rob[e]
      <4>1. rob[d] \notin 1..m
          BY <1>3, <3>1, Zenon DEF Pending, Issued
      <4>2. \A x, y \in Live : rob[x] = rob[y] => x = y
          BY LiveEntries, Zenon DEF BInv
      <4> QED
          BY <1>2, <1>3, <4>1, <4>2, Zenon
    <3>4. rob[d] \in Nat \ {0}
      <4>1. d \in Live
          BY <1>2, <1>3, Zenon
      <4>2. InRob(d) \in 0..(entries - 1) /\ rob[d] = allocated - entries + 1 + InRob(d)
          BY <4>1, LiveEntries, Zenon DEF BInv
      <4>3. allocated \in Nat /\ entries \in Nat /\ entries <= allocated
          BY RingTerms DEF BInv
      <4> QED
          BY ONLY <4>2, <4>3
    <3>5. m \in Nat
      <4>1. allocated \in Nat /\ entries \in Nat /\ entries <= allocated
          BY RingTerms DEF BInv
      <4> QED
          BY <4>1
    <3> QED
        BY ONLY <3>2, <3>3, <3>4, <3>5
  <2> QED
      BY <2>2, <2>3, <2>4, <2>5
<1> QED
    BY <1>6, <1>7, Zenon DEF Waits

\* What the scheduler does to the fence lists when it looks at entry e.
FencesTried(e, issued) ==
    /\ DOMAIN fences' = Fences /\ \A f \in Fences : FenceList(f)'
    /\ \A x : IsFence(x) => Active(x) \subseteq Active(x)'
    /\ IsFence(e) /\ issued => e \in Active(e)'
    /\ IsFence(e) /\ ~issued => e \in Active(e)' \/ ~(ports'["gen"] < SchedRate)
    /\ \A x \in Waits : IsFence(x) /\ x \notin Active(x)' => \A g \in Active(x)' : rob[g] < rob[x]

LEMMA TriedFence ==
    ASSUME BInv, Flow, Queued, PortsRight, FenceLists, IssuedInOrder, FencesReady, stage = "schedule",
           UNCHANGED <<trace, knobs, rob>>, Live' = Live,
           knobs.schedule \in {"ooo", "io"},
           NEW i \in 1..Len(sched), knobs.schedule = "ooo" => i = scan,
           knobs.schedule = "io" => sched[i] = next_inorder,
           NEW issued \in BOOLEAN, uop_schedule(i, issued), NEW e, e = sched[i]
    PROVE  FencesTried(e, issued)
<1>1. e \in Live /\ e \in Waits
  <2>1. sched \in Seq(Pending) /\ sched[i] \in Elements(sched)
      BY Zenon DEF Queued, Elements
  <2>2. sched[i] \in Pending
      BY ONLY <2>1, i \in 1..Len(sched)
  <2> QED
      BY <2>1, <2>2, Zenon DEF Pending, Waits
<1>2. \A x : /\ IsFence(x)' = IsFence(x) /\ fence_type(rob[x])' = fence_type(rob[x])
             /\ Active(x)' = Elements(fences'[fence_type(rob[x])])
    BY Zenon DEF IsFence, Active, fence_type, Kind, Elements
<1>3. /\ DOMAIN fences = Fences /\ \A f \in Fences : FenceList(f)
      /\ \A x \in Waits : IsFence(x) /\ x \notin Active(x) => \A g \in Active(x) : rob[g] < rob[x]
    BY DEF FenceLists
<1>4. ASSUME fences' = fences
      PROVE  /\ DOMAIN fences' = Fences /\ \A f \in Fences : FenceList(f)'
             /\ \A x : Active(x)' = Active(x)
    BY <1>2, <1>3, <1>4, Zenon DEF FenceList, Active
<1>5. CASE ~IsFence(e)
  <2>1. fences' = fences
      BY <1>5, Zenon DEF uop_schedule, IsFence
  <2> QED
      BY <1>3, <1>4, <1>5, <2>1 DEF FencesTried
<1>6. CASE IsFence(e)
  <2>0. PICK t : t = fence_type(rob[e])
      BY Zenon
  <2>1. ~IsMem(rob[e]) /\ Kind(rob[e]) \in Fences /\ allocq(rob[e]) = "gen" /\ t \in Fences
      BY <1>6, <2>0, Zenon DEF IsFence, IsMem, allocq, fence_type, Fences, Full, Memory, Stores, Loads
  <2>2. srcs[rob[e]] = {} /\ check_srcs(rob[e])
    <3>1. rob[e] \in 1..fetched
        BY DEF BInv, Ring, Waiting, Filled
    <3>2. srcs[rob[e]] = {}
        BY <2>1, <3>1, Zenon DEF FencesReady
    <3> QED
        BY <3>2, Zenon DEF check_srcs
  <2>3. CASE ~schedulable(e)
    <3>1. UNCHANGED <<fences, ports>> /\ ~issued
        BY <2>3, Zenon DEF uop_schedule
    <3>2. ~(ports["gen"] < SchedRate)
        BY <2>1, <2>2, <2>3, Zenon DEF schedulable
    <3> QED
        BY <1>3, <1>4, <3>1, <3>2 DEF FencesTried
  <2>4. CASE schedulable(e)
    <3>1. ports["gen"] < SchedRate
        BY <2>1, <2>4, Zenon DEF schedulable
    <3>2. fences' = [fences EXCEPT ![t] = IF e \in Range(@) THEN @ ELSE Append(@, e)]
        BY <2>0, <2>1, <2>2, <2>4, Zenon DEF uop_schedule, ins_fence_entry
    <3> DEFINE s == fences[t]
               r == fences'[t]
    <3>3. /\ s \in Seq(Live)
          /\ \A x \in Elements(s) : IsFence(x) /\ fence_type(rob[x]) = t
          /\ \A k, j \in 1..Len(s) : k < j => rob[s[k]] < rob[s[j]]
        BY <1>3, <2>1, Zenon DEF FenceList
    <3>4. r = IF e \in Range(s) THEN s ELSE Append(s, e)
        BY <1>3, <2>1, <3>2, Zenon
    <3>5. e \notin Elements(s) => \A g \in Elements(s) : rob[g] < rob[e]
        BY <1>1, <1>3, <1>6, <2>0, Zenon DEF Active
    <3>6. \A f \in Fences : f # t => fences'[f] = fences[f]
        BY <1>3, <3>2, Zenon
    <3>7. DOMAIN fences' = Fences
        BY <1>3, <3>2, Zenon
    <3> HIDE DEF s, r
    <3>8. /\ r \in Seq(Live) /\ Elements(r) = Elements(s) \cup {e}
          /\ \A k, j \in 1..Len(r) : k < j => rob[r[k]] < rob[r[j]]
      <4>1. Enters(Live, s, e, r) /\ Rising(s, rob) /\ (e \notin Elements(s) => Later(s, rob, e))
          BY <1>1, <3>3, <3>4, <3>5, Zenon DEF Enters, Rising, Later
      <4>2. r \in Seq(Live) /\ Gains(r, s, e) /\ Rising(r, rob)
          BY ONLY <4>1, FenceEntered, Zenon
      <4> QED
          BY <4>2, Zenon DEF Gains, Rising
    <3>9. FenceList(t)'
      <4>1. \A x \in Elements(r) : IsFence(x)' /\ fence_type(rob[x])' = t
          BY <1>2, <1>6, <2>0, <3>3, <3>8, Zenon
      <4> QED
          BY <3>8, <4>1, Zenon DEF FenceList, r
    <3>10. ASSUME NEW f \in Fences, f # t PROVE FenceList(f)'
      <4>1. fences'[f] = fences[f] /\ FenceList(f)
          BY <1>3, <3>6, <3>10, Zenon
      <4> QED
          BY <1>2, <4>1, Zenon DEF FenceList
    <3>11. \A f \in Fences : FenceList(f)'
        BY <3>9, <3>10, Zenon
    <3>12. \A x : IsFence(x) => /\ fence_type(rob[x]) \in Fences
                                /\ Active(x)' = IF fence_type(rob[x]) = t THEN Active(x) \cup {e} ELSE Active(x)
      <4>1. \A x : IsFence(x) => fence_type(rob[x]) \in Fences
          BY Zenon DEF fence_type, IsFence, Fences, Full
      <4> QED
          BY <1>2, <3>6, <3>8, <4>1, Zenon DEF Active, s, r
    <3>13. ASSUME NEW x \in Waits, IsFence(x), x \notin Active(x)', NEW g \in Active(x)'
           PROVE  rob[g] < rob[x]
      <4>1. x \notin Active(x) /\ (g \in Active(x) \/ g = e)
          BY <3>12, <3>13, Zenon
      <4>2. x # e
          BY <2>0, <3>12, <3>13, Zenon
      <4>3. CASE g \in Active(x)
          BY <1>3, <3>13, <4>1, <4>3, Zenon
      <4>4. CASE g = e
          BY <1>6, <3>1, <3>13, <4>1, <4>2, <4>4, OldestFence, Zenon
      <4> QED
          BY <4>1, <4>3, <4>4, Zenon
    <3> QED
        BY <1>6, <2>0, <3>7, <3>11, <3>12, <3>13, Zenon DEF FencesTried
  <2> QED
      BY <2>3, <2>4, Zenon
<1> QED
    BY <1>5, <1>6, Zenon

LEMMA ScheduleFences ==
    ASSUME BInv, Flow, Queued, PortsRight, FenceLists, IssuedInOrder, FencesReady, schedule_ooo \/ schedule_io
    PROVE  FenceLists'
<1>1. /\ UNCHANGED <<trace, knobs, stage, robVars, alloc_q>> /\ UNCHANGED rob
      /\ stage = "schedule" /\ knobs.schedule \in {"ooo", "io"}
    BY ScheduledEntry, Zenon DEF schedule_ooo, schedule_io, robVars
<1>2. PICK i \in 1..Len(sched), issued \in BOOLEAN :
             /\ uop_schedule(i, issued)
             /\ knobs.schedule = "ooo" => i = scan /\ scan' = IF issued THEN scan ELSE scan + 1
             /\ knobs.schedule = "io" => sched[i] = next_inorder
    BY ScheduledEntry, Zenon
<1>e. PICK e : e = sched[i]
    BY SMTT(30)
<1>3. /\ Live' = Live /\ rob' = rob
      /\ \/ ~issued /\ UNCHANGED <<executed, sched>> /\ Waits' = Waits
         \/ /\ issued /\ executed' = executed \cup {rob[e]} /\ Waits' = Waits \ {e}
            /\ Len(sched') = Len(sched) - 1 /\ \A k \in 1..Len(sched) : k < i => sched'[k] = sched[k]
    BY <1>1, <1>2, <1>e, UopScheduled, Zenon
<1>4. FencesTried(e, issued)
    BY <1>1, <1>2, <1>3, <1>e, TriedFence, Zenon
<1>5. \A x : IsFence(x)' = IsFence(x)
    BY <1>1, Zenon DEF IsFence, Kind
<1>6. e \in Live
    BY <1>e DEF Queued, Pending
<1>7. \A x \in Live' : IsFence(x)' /\ rob'[x] \in executed' => x \in Active(x)'
  <2>1. \A x \in Live : IsFence(x) /\ rob[x] \in executed => x \in Active(x)
      BY Zenon DEF FenceLists
  <2>2. \A x \in Live : rob[x] = rob[e] => x = e
      BY <1>6, LiveEntries, Zenon DEF BInv
  <2> QED
      BY <1>3, <1>4, <1>5, <2>1, <2>2, Zenon DEF FencesTried
<1>8. \A x \in Waits' : IsFence(x)' /\ x \notin Active(x)' => \A g \in Active(x)' : rob'[g] < rob'[x]
    BY <1>3, <1>4, <1>5, Zenon DEF FencesTried
<1>9. ASSUME knobs.schedule = "ooo", NEW j \in 1..Len(sched'), j < scan', NEW y, y = sched'[j], IsFence(y)
      PROVE  y \in Active(y)' \/ ~(ports'["gen"] < SchedRate)
  <2>1. Len(sched) \in Nat /\ i \in Nat
      BY DEF Queued
  <2>2. y = sched[j] /\ j \in 1..Len(sched) /\ (j < i \/ (j = i /\ ~issued))
      BY <1>2, <1>3, <1>9, <2>1
  <2>3. CASE j = i /\ ~issued
      BY <1>4, <1>9, <1>e, <2>2, <2>3, Zenon DEF FencesTried
  <2>4. CASE j < i
    <3>1. y \in Active(y) \/ ~(ports["gen"] < SchedRate)
        BY <1>1, <1>2, <1>9, <2>2, <2>4, Zenon DEF FenceLists
    <3>2. ~(ports["gen"] < SchedRate) => ~(ports'["gen"] < SchedRate)
      <4>1. ports \in [Queue -> Nat] /\ "gen" \in Queue
          BY DEF PortsRight, Queue, Queues, Range
      <4>2. ports' = ports \/ \E q : ports' = [ports EXCEPT ![q] = @ + 1]
          BY <1>2, Zenon DEF uop_schedule
      <4>3. ports'["gen"] = ports["gen"] \/ ports'["gen"] = ports["gen"] + 1
          BY <4>1, <4>2, Zenon
      <4> QED
          BY <4>1, <4>3, Sizes
    <3>3. Active(y) \subseteq Active(y)'
        BY <1>4, <1>9, Zenon DEF FencesTried
    <3> QED
        BY <3>1, <3>2, <3>3, Zenon
  <2> QED
      BY <2>2, <2>3, <2>4, Zenon
<1>10. knobs.schedule = "ooo" =>
          \A j \in 1..Len(sched') : j < scan' /\ IsFence(sched[j])' =>
              (sched[j] \in Active(sched[j]))' \/ ~(ports'["gen"] < SchedRate)
  <2> SUFFICES ASSUME knobs.schedule = "ooo", NEW j \in 1..Len(sched'), j < scan', IsFence(sched[j])'
               PROVE  (sched[j] \in Active(sched[j]))' \/ ~(ports'["gen"] < SchedRate)
      BY Zenon
  <2>1. PICK y : y = sched'[j]
      BY Zenon
  <2>2. IsFence(y)
      BY <1>1, <2>1, Zenon DEF IsFence, Kind
  <2>3. y \in Active(y)' \/ ~(ports'["gen"] < SchedRate)
      BY <1>9, <2>1, <2>2, Zenon
  <2> QED
      BY <2>1, <2>3, Zenon DEF Active
<1> QED
    BY <1>1, <1>4, <1>7, <1>8, <1>10, Zenon DEF FenceLists, FencesTried

LEMMA FencesStep ==
    ASSUME BInv, IInv, Flow, Queued, PortsRight, FenceLists, IssuedInOrder, FencesReady, Next
    PROVE  FenceLists'
<1>1. CASE retire_uop
    BY <1>1, RetireFences, Zenon
<1>2. CASE schedule_ooo \/ schedule_io
    BY <1>2, ScheduleFences, Zenon
<1>3. CASE advance
  <2>1. /\ UNCHANGED <<trace, executed, robVars>> /\ UNCHANGED <<trace, knobs, executed, fences>>
        /\ stage' = "allocate"
      BY <1>3, Zenon DEF advance
  <2>2. Live' = Live /\ rob' = rob
      BY <2>1, EntriesKept, Zenon
  <2>3. Waits' = Waits
      BY <1>3, AdvanceQueued, Zenon
  <2> QED
      BY <2>1, <2>2, <2>3, QuietFences, Zenon
<1>4. CASE allocate_uop
    BY <1>4, AllocateFences, Zenon
<1>5. CASE complete \/ retire_end \/ drain_store \/ drain_wb \/ allocate_end \/ fetch_uop \/ fetch_end
  <2>1. /\ UNCHANGED <<trace, executed, robVars>> /\ UNCHANGED <<trace, knobs, executed, fences, alloc_q, sched>>
        /\ stage' = "schedule" => scan' = 1
      BY <1>5, Zenon DEF complete, retire_end, drain_store, drain_wb, allocate_end, fetch_uop, fetch_end, schedVars
  <2>2. Live' = Live /\ Pending' = Pending /\ QueueOf' = QueueOf /\ rob' = rob
      BY <2>1, EntriesKept, Zenon
  <2>3. Waits' = Waits
      BY <2>1, <2>2, QuietQueued, Zenon
  <2> QED
      BY <2>1, <2>2, <2>3, QuietFences, Zenon
<1> QED
    BY <1>1, <1>2, <1>3, <1>4, <1>5, Zenon DEF Next

-----------------------------------------------------------------------------
(* The invariant of the core                                               *)

LEMMA CoreInit == Init => CInv
<1> SUFFICES ASSUME Init PROVE CInv
    OBVIOUS
<1>1. BInv
    BY InitInv, Zenon
<1>2. /\ executed = {} /\ freed = {} /\ fetched = 0 /\ allocated = 0 /\ first = 0 /\ next_inorder = 0
      /\ wb = <<>> /\ sched = <<>> /\ alloc_q = [q \in Queue |-> <<>>] /\ stage = "memory"
      /\ fences = [f \in Fences |-> <<>>] /\ ports = [q \in Queue |-> 0] /\ free = RobSize
    BY Zenon DEF Init, MapInit
<1>3. entries = 0 /\ Size \in Nat \ {0}
    BY <1>2, Sizes, SizeType DEF entries
<1>4. Live = {}
  <2>1. \A e \in Live : InRob(e) \in 0..(entries - 1)
      BY <1>1, LiveEntries, Zenon DEF BInv
  <2> QED
      BY <1>3, <2>1
<1>6. Queued
    BY <1>2 DEF Queued, Ordered, Before, Elements
<1>7. PortsRight
    BY <1>2, Zenon DEF PortsRight
<1>8. FenceLists
  <2>1. Waits = {}
      BY <1>2 DEF Waits, Elements, Queue, Queues, Range
  <2>2. \A f \in Fences : FenceList(f)
      BY <1>2 DEF FenceList, Elements
  <2> QED
      BY <1>2, <1>4, <2>1, <2>2, Zenon DEF FenceLists
<1>9. IssuedInOrder
  <2>1. 0 % Size = 0
      BY <1>3, Wraps
  <2>2. executed = 1..0 /\ next_inorder = (first + (0 - (allocated - entries))) % Size
      BY <1>2, <1>3, <2>1
  <2>3. 0 \in (allocated - entries)..allocated
      BY <1>2, <1>3
  <2> QED
      BY <2>2, <2>3, Zenon DEF IssuedInOrder
<1>10. FencesWaited /\ FencesReady
    BY <1>2 DEF FencesWaited, FencesReady
<1> QED
    BY <1>6, <1>7, <1>8, <1>9, <1>10, Zenon DEF CInv

LEMMA CoreInvStep ==
    ASSUME BInv, IInv, Flow, CInv, [Next]_vars
    PROVE  CInv'
<1>1. CASE Next
    BY <1>1, QueuedStep, PortsStep, FencesStep, InOrderStep, WaitedStep, ReadyStep, Zenon DEF CInv
<1>2. CASE UNCHANGED vars
  <2>1. /\ UNCHANGED <<trace, knobs, stage, allocated, executed, fences, freed, fetched, srcs>>
        /\ UNCHANGED <<rob, first, last, free, alloc_q, sched, scan, next_inorder, ports, wb, wb_empty>>
      BY <1>2, Zenon DEF vars, mapVars, robVars, schedVars, wbVars
  <2>2. /\ Live' = Live /\ Pending' = Pending /\ QueueOf' = QueueOf /\ entries' = entries
        /\ \A u : Kind(u)' = Kind(u) /\ IsMem(u)' = IsMem(u)
    <3>1. Live' = Live /\ Pending' = Pending /\ QueueOf' = QueueOf
        BY <2>1, EntriesKept, Zenon DEF robVars
    <3> QED
        BY <2>1, <3>1, Zenon DEF entries, Kind, IsMem
  <2>4. Queued' /\ Waits' = Waits
      BY <2>1, <2>2, QuietQueued, Zenon DEF CInv
  <2>5. FenceLists'
    <3>1. \A e : IsFence(e)' = IsFence(e) /\ Active(e)' = Active(e) /\ fence_type(rob[e])' = fence_type(rob[e])
        BY <2>1, Zenon DEF IsFence, Active, fence_type, Kind, Elements
    <3>2. \A f : FenceList(f)' = FenceList(f)
        BY <2>1, <2>2, <3>1, Zenon DEF FenceList, Elements
    <3>3. \A j : IsFence(sched[j])' = IsFence(sched[j]) /\ Active(sched[j])' = Active(sched[j])
        BY <2>1, Zenon DEF IsFence, Active, fence_type, Kind, Elements
    <3> QED
        BY <2>1, <2>2, <2>4, <3>1, <3>2, <3>3, Zenon DEF CInv, FenceLists
  <2>6. PortsRight' /\ IssuedInOrder'
      BY <2>1, <2>2, Zenon DEF CInv, PortsRight, Queue, Queues, IssuedInOrder, Size
  <2>7. FencesWaited' /\ FencesReady'
      BY <2>1, <2>2, Zenon DEF CInv, FencesWaited, FencesReady
  <2> QED
      BY <2>4, <2>5, <2>6, <2>7, Zenon DEF CInv
<1> QED
    BY <1>1, <1>2, Zenon

LEMMA CoreAlways == Spec => [](BInv /\ IInv /\ CInv)
    BY FlowAlways, CoreInit, CoreInvStep, PTL DEF Spec

\* Whatever the sizes, the trace and the scheduler, each list of active fences
\* has fences of the reorder buffer only, each once and in trace order, so that
\* "the first fence entry" that rob_c::del_fence_entry drops at retirement is
\* the fence that retires (rob.cc, fence.h, exec_c, schedule_ooo_c).
THEOREM FenceListsMatch == Spec => []ActiveFencesMatchRob
<1>1. BInv /\ CInv => ActiveFencesMatchRob
  <2> SUFFICES ASSUME BInv, CInv, NEW f \in Fences
               PROVE  /\ \A i \in DOMAIN fences[f] : InRob(fences[f][i]) < entries /\ Kind(rob[fences[f][i]]) \in Fences
                      /\ \A i, j \in DOMAIN fences[f] : i < j => InRob(fences[f][i]) < InRob(fences[f][j])
      BY Zenon DEF ActiveFencesMatchRob
  <2> DEFINE s == fences[f]
  <2>1. /\ s \in Seq(Live) /\ \A e \in Elements(s) : IsFence(e)
        /\ \A i, j \in 1..Len(s) : i < j => rob[s[i]] < rob[s[j]]
      BY Zenon DEF CInv, FenceLists, FenceList
  <2>2. /\ \A e \in Live : InRob(e) \in 0..(entries - 1) /\ rob[e] = allocated - entries + 1 + InRob(e)
        /\ allocated \in Nat /\ entries \in Nat
      BY LiveEntries, RingTerms DEF BInv
  <2> HIDE DEF s
  <2>3. DOMAIN s = 1..Len(s) /\ \A i \in 1..Len(s) : s[i] \in Live /\ s[i] \in Elements(s)
      BY <2>1 DEF Elements
  <2>4. \A i \in DOMAIN s : InRob(s[i]) < entries /\ Kind(rob[s[i]]) \in Fences
      BY <2>1, <2>2, <2>3 DEF IsFence
  <2>5. ASSUME NEW i \in DOMAIN s, NEW j \in DOMAIN s, i < j PROVE InRob(s[i]) < InRob(s[j])
    <3>1. rob[s[i]] < rob[s[j]]
        BY <2>1, <2>3, <2>5, Zenon
    <3>2. /\ InRob(s[i]) \in Int /\ InRob(s[j]) \in Int
          /\ rob[s[i]] = allocated - entries + 1 + InRob(s[i]) /\ rob[s[j]] = allocated - entries + 1 + InRob(s[j])
        BY <2>2, <2>3
    <3> QED
        BY <2>2, <3>1, <3>2
  <2> QED
      BY <2>4, <2>5, Zenon DEF s
<1> QED
    BY <1>1, CoreAlways, PTL

\* With the in-order scheduler and without acquire/release versions a fence
\* separates memory uops, for every trace and all sizes: none after it is
\* issued while one before it is unfinished, in the reorder buffer or in the
\* write buffer (exec_c, rob_c::pending_mem_ops, schedule_io_c).
THEOREM InOrderFencesHold == Spec => []InOrderFences
<1>1. BInv /\ IInv /\ CInv => InOrderFences
  <2> SUFFICES ASSUME BInv, IInv, CInv, knobs.schedule = "io", ~knobs.acq_rel,
                      NEW f \in 1..allocated, Kind(f) \in Fences,
                      NEW a \in 1..(f - 1), NEW b \in (f + 1)..allocated, IsMem(a), b \in executed
               PROVE  a \in done
      BY Zenon DEF InOrderFences, FenceOrdersMemory
  <2>1. PICK m \in (allocated - entries)..allocated : executed = 1..m
      BY Zenon DEF CInv, IssuedInOrder
  <2>2. allocated \in Nat /\ entries \in Nat
      BY RingTerms DEF BInv
  <2>3. f \in executed
      BY <2>1, <2>2
  <2>4. a \in freed
      BY <2>3 DEF CInv, FencesWaited
  <2> QED
      BY <2>4, Zenon DEF IInv, MapType
<1> QED
    BY <1>1, CoreAlways, PTL
=============================================================================
