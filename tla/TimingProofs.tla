---------------------------- MODULE TimingProofs ----------------------------
(***************************************************************************)
(* Time in the simulator, for all latencies and frequencies.  An entry of  *)
(* a pipeline queue is never ready early.  The clock domains keep their    *)
(* rate, for every number of cores: the inductive invariant says of every  *)
(* domain whether it has already had its turn in the current call of       *)
(* run_a_cycle.                                                            *)
(***************************************************************************)
EXTENDS PQueue, Simulator, SequenceTheorems, WellFoundedInduction, TLAPS

-----------------------------------------------------------------------------
(* pqueue_c                                                                *)

\* The ring and the latency bound together are inductive.
QueueInv ==
  /\ entry \in [Bucket -> Seq(Entry)]
  /\ current \in Bucket
  /\ RingIsClosed
  /\ NotReadyEarly

-----------------------------------------------------------------------------
\* Where the turn of the ring lands.
LEMMA TurnOfTheRing ==
  ASSUME Latency \in Nat, NEW c \in 0 .. Latency
  PROVE  (c + 1) % (Latency + 1) = (IF c = Latency THEN 0 ELSE c + 1)
<1>1. CASE c = Latency
  BY <1>1
<1>2. CASE c # Latency
  BY <1>2
<1> QED
  BY <1>1, <1>2, Zenon

\* A set of naturals has a least element.
LEMMA LeastOfNaturals ==
  ASSUME NEW T, T \subseteq Nat, T # {}
  PROVE  \E j \in T : \A k \in T : j <= k
<1>1. PICK j \in T : \A k \in T : ~(<<k, j>> \in OpToRel(<, Nat))
  BY NatLessThanWellFounded, WFMin, Zenon
<1>2. ASSUME NEW k \in T PROVE j <= k
  <2>1. j \in Nat /\ k \in Nat
    OBVIOUS
  <2>2. ~(<<k, j>> \in {ss \in Nat \X Nat : ss[1] < ss[2]})
    BY <1>1, Zenon DEF OpToRel
  <2>3. ~(k < j)
    BY <2>1, <2>2, Zenon
  <2> QED
    BY <2>1, <2>3
<1> QED
  BY <1>2, Zenon

\* An ordered insert keeps the type and adds nothing but the new entry.
LEMMA InsertedElements ==
  ASSUME NEW s \in Seq(Entry), NEW e \in Entry
  PROVE  /\ Inserted(s, e) \in Seq(Entry)
         /\ \A i \in DOMAIN Inserted(s, e) :
              Inserted(s, e)[i] = e \/ \E j \in DOMAIN s : Inserted(s, e)[i] = s[j]
<1> DEFINE lower == {i \in DOMAIN s : s[i].prio < e.prio}
           pos == IF lower = {} THEN Len(s) + 1
                 ELSE CHOOSE j \in lower : \A k \in lower : j <= k
           front == SubSeq(s, 1, pos - 1)
           back == SubSeq(s, pos, Len(s))
<1>0. Len(s) \in Nat /\ DOMAIN s = 1 .. Len(s)
  OBVIOUS
<1>1. pos \in 1 .. Len(s) + 1
  <2>1. CASE lower = {}
    BY <2>1, <1>0
  <2>2. CASE lower # {}
    <3>1. lower \subseteq Nat /\ lower \subseteq 1 .. Len(s)
      BY <1>0
    <3> HIDE DEF lower
    <3>2. \E j \in lower : \A k \in lower : j <= k
      BY <2>2, <3>1, LeastOfNaturals, Zenon
    <3>3. (CHOOSE j \in lower : \A k \in lower : j <= k) \in lower
      BY <3>2, Zenon
    <3>4. pos \in lower
      BY <2>2, <3>3, Zenon
    <3> HIDE DEF pos
    <3>5. pos \in 1 .. Len(s)
      BY <3>1, <3>4, Zenon
    <3> QED
      BY ONLY <3>5, <1>0
  <2> QED
    BY <2>1, <2>2, Zenon
<1> HIDE DEF pos
<1>2. /\ front \in Seq(Entry) /\ Len(front) = pos - 1
      /\ \A i \in 1 .. pos - 1 : front[i] = s[i]
  BY <1>0, <1>1
<1>3. /\ back \in Seq(Entry) /\ Len(back) = Len(s) - pos + 1
      /\ \A i \in 1 .. Len(back) : back[i] = s[pos + i - 1]
  BY <1>0, <1>1
<1>4. Inserted(s, e) = front \o <<e>> \o back
  BY DEF Inserted, pos
<1> HIDE DEF front, back
<1>5. <<e>> \in Seq(Entry) /\ Len(<<e>>) = 1
  OBVIOUS
<1>6. /\ front \o <<e>> \o back \in Seq(Entry)
      /\ Len(front \o <<e>> \o back) = Len(s) + 1
      /\ \A i \in 1 .. Len(s) + 1 :
           (front \o <<e>> \o back)[i] =
             (IF i < pos THEN front[i] ELSE IF i = pos THEN e ELSE back[i - pos])
  <2> DEFINE head == front \o <<e>>
  <2>1. /\ head \in Seq(Entry) /\ Len(head) = pos
        /\ \A i \in 1 .. pos : head[i] = IF i < pos THEN front[i] ELSE e
    BY <1>0, <1>1, <1>2, <1>5, ConcatProperties
  <2> HIDE DEF head
  <2>2. /\ head \o back \in Seq(Entry) /\ Len(head \o back) = pos + Len(back)
        /\ \A i \in 1 .. pos + Len(back) :
             (head \o back)[i] = IF i <= pos THEN head[i] ELSE back[i - pos]
    BY ONLY <1>1, <1>3, <2>1, ConcatProperties, Zenon
  <2>3. \A i \in 1 .. Len(s) + 1 :
          (head \o back)[i] =
            (IF i < pos THEN front[i] ELSE IF i = pos THEN e ELSE back[i - pos])
    BY <1>0, <1>1, <1>3, <2>1, <2>2
  <2> QED
    BY <1>0, <1>1, <1>3, <2>2, <2>3 DEF head
<1>7. ASSUME NEW i \in 1 .. Len(s) + 1
      PROVE  Inserted(s, e)[i] = e \/ \E j \in DOMAIN s : Inserted(s, e)[i] = s[j]
  <2>1. CASE i < pos
    <3>1. i \in 1 .. pos - 1 /\ i \in DOMAIN s
      BY <2>1, <1>0, <1>1
    <3>2. Inserted(s, e)[i] = front[i]
      BY <2>1, <1>4, <1>6, Zenon
    <3> QED
      BY <3>1, <3>2, <1>2, Zenon
  <2>2. CASE i = pos
    BY <2>2, <1>4, <1>6
  <2>3. CASE i > pos
    <3>1. i \in Int /\ i - pos \in 1 .. Len(back) /\ i - 1 \in 1 .. Len(s) /\ ~(i < pos) /\ i # pos
      BY ONLY <2>3, <1>0, <1>1, <1>3, i \in 1 .. Len(s) + 1
    <3>2. Inserted(s, e)[i] = back[i - pos]
      BY <1>4, <1>6, <3>1, Zenon
    <3>3. back[i - pos] = s[pos + (i - pos) - 1] /\ pos + (i - pos) - 1 = i - 1
      BY ONLY <1>0, <1>1, <1>3, <3>1
    <3> QED
      BY <1>0, <3>1, <3>2, <3>3, Zenon
  <2> QED
    BY <2>1, <2>2, <2>3, <1>1
<1> QED
  BY <1>0, <1>4, <1>6, <1>7

-----------------------------------------------------------------------------
LEMMA InitEstablishes == QueueInit => QueueInv
  BY ConstantsAssumption DEF QueueInit, QueueInv, RingIsClosed, NotReadyEarly, Bucket

LEMMA EnqueueKeeps ==
  ASSUME QueueInv, NEW p \in Priorities, NEW x \in Data, enqueue(p, x)
  PROVE  QueueInv'
<1> DEFINE e == [data |-> x, prio |-> p, age |-> 0]
<1>1. Latency \in Nat /\ e \in Entry
  BY ConstantsAssumption DEF Entry
<1>2. last \in Bucket /\ Distance(last) = Latency
  BY <1>1 DEF QueueInv, RingIsClosed, Bucket, Distance, m_size
<1>3. entry' = [entry EXCEPT ![last] = Inserted(@, e)] /\ current' = current /\ last' = last
  BY DEF enqueue
<1>4. \A b \in Bucket : entry'[b] = IF b = last THEN Inserted(entry[last], e) ELSE entry[b]
  BY <1>2, <1>3, Zenon DEF QueueInv
<1>5. /\ Inserted(entry[last], e) \in Seq(Entry)
      /\ \A i \in DOMAIN Inserted(entry[last], e) :
           \/ Inserted(entry[last], e)[i] = e
           \/ \E j \in DOMAIN entry[last] : Inserted(entry[last], e)[i] = entry[last][j]
  BY <1>1, <1>2, InsertedElements DEF QueueInv
<1>6. entry' \in [Bucket -> Seq(Entry)]
  BY <1>2, <1>3, <1>5, Zenon DEF QueueInv
<1>7. ASSUME NEW b \in Bucket, NEW i \in DOMAIN entry'[b]
      PROVE  entry'[b][i].age >= Latency - Distance(b)
  <2>1. CASE b # last
    BY <2>1, <1>4, Zenon DEF QueueInv, NotReadyEarly
  <2>2. CASE b = last
    <3>1. entry'[b][i] = e \/ \E j \in DOMAIN entry[last] : entry'[b][i] = entry[last][j]
      BY <2>2, <1>4, <1>5, Zenon
    <3>2. e.age = 0
      OBVIOUS
    <3> HIDE DEF e
    <3>3. CASE entry'[b][i] = e
      BY <3>3, <3>2, <2>2, <1>1, <1>2
    <3>4. CASE \E j \in DOMAIN entry[last] : entry'[b][i] = entry[last][j]
      BY <3>4, <2>2, <1>2, Zenon DEF QueueInv, NotReadyEarly
    <3> QED
      BY <3>1, <3>3, <3>4, Zenon
  <2> QED
    BY <2>1, <2>2, Zenon
<1>8. NotReadyEarly'
  BY <1>3, <1>7, Zenon DEF NotReadyEarly, Distance
<1> QED
  BY <1>3, <1>6, <1>8, Zenon DEF QueueInv, RingIsClosed

LEMMA DequeueKeeps ==
  ASSUME QueueInv, dequeue
  PROVE  QueueInv'
<1>1. /\ entry' = [entry EXCEPT ![current] = Tail(entry[current])]
      /\ current' = current /\ last' = last
      /\ entry[current] # <<>> /\ entry[current] \in Seq(Entry)
  BY DEF dequeue, ready, QueueInv
<1>2. /\ Tail(entry[current]) \in Seq(Entry)
      /\ \A i \in DOMAIN Tail(entry[current]) :
           /\ i + 1 \in DOMAIN entry[current]
           /\ Tail(entry[current])[i] = entry[current][i + 1]
  BY <1>1
<1>3. entry' \in [Bucket -> Seq(Entry)]
  BY <1>1, <1>2, Zenon DEF QueueInv
<1>4. \A b \in Bucket : entry'[b] = IF b = current THEN Tail(entry[current]) ELSE entry[b]
  BY <1>1, Zenon DEF QueueInv
<1>5. ASSUME NEW b \in Bucket, NEW i \in DOMAIN entry'[b]
      PROVE  entry'[b][i].age >= Latency - Distance(b)
  <2>1. \E j \in DOMAIN entry[b] : entry'[b][i] = entry[b][j]
    BY <1>2, <1>4, Zenon
  <2> QED
    BY <2>1, Zenon DEF QueueInv, NotReadyEarly
<1> QED
  BY <1>1, <1>3, <1>5, Zenon DEF QueueInv, RingIsClosed, NotReadyEarly, Distance

LEMMA AdvanceKeeps ==
  ASSUME QueueInv, advance
  PROVE  QueueInv'
<1>0. Latency \in Nat /\ current \in Bucket
  BY ConstantsAssumption, Zenon DEF QueueInv
<1>1. entry' = Aged
  BY DEF advance
<1>2. \A e \in Entry : /\ Older(e) \in Entry
                       /\ Older(e).age = IF e.age < Latency THEN e.age + 1 ELSE e.age
  BY <1>0 DEF Entry, Older
<1>3. ASSUME NEW b \in Bucket
      PROVE  /\ entry'[b] \in Seq(Entry)
             /\ DOMAIN entry'[b] = DOMAIN entry[b]
             /\ \A i \in DOMAIN entry[b] :
                  /\ entry[b][i] \in Entry
                  /\ entry'[b][i].age = IF entry[b][i].age < Latency
                                        THEN entry[b][i].age + 1 ELSE entry[b][i].age
  <2>1. entry'[b] = [i \in DOMAIN entry[b] |-> Older(entry[b][i])]
    BY <1>1, Zenon DEF Aged
  <2>2. entry[b] \in Seq(Entry) /\ DOMAIN entry[b] = 1 .. Len(entry[b]) /\ Len(entry[b]) \in Nat
    BY DEF QueueInv
  <2>3. \A i \in DOMAIN entry[b] : entry[b][i] \in Entry
    BY <2>2
  <2>4. [i \in 1 .. Len(entry[b]) |-> Older(entry[b][i])] \in Seq(Entry)
    BY <2>2, <2>3, <1>2, IsASeq
  <2> QED
    BY <2>1, <2>2, <2>3, <2>4, <1>2, Zenon
<1>4. entry' \in [Bucket -> Seq(Entry)]
  BY <1>1, <1>3, Zenon DEF Aged
<1>5. /\ current' \in Bucket /\ RingIsClosed'
      /\ \/ current' = current
         \/ /\ entry[current] = <<>>
            /\ current' = IF current = Latency THEN 0 ELSE current + 1
  <2>1. CASE num = 0 \/ ready
    BY <2>1, Zenon DEF advance, QueueInv, RingIsClosed
  <2>2. CASE ~(num = 0 \/ ready)
    <3>1. last' = current /\ current' = IF current = Latency THEN 0 ELSE current + 1
      BY <2>2, <1>0, TurnOfTheRing, Zenon DEF advance, m_size, Bucket
    <3> QED
      BY <3>1, <2>2, <1>0 DEF ready, RingIsClosed, Bucket
  <2> QED
    BY <2>1, <2>2, Zenon
<1>6. ASSUME NEW b \in Bucket, NEW i \in DOMAIN entry'[b]
      PROVE  entry'[b][i].age >= Latency - Distance(b)'
  <2>1. /\ entry[b][i] \in Entry /\ entry[b][i].age >= Latency - Distance(b)
        /\ i \in DOMAIN entry[b]
    BY <1>3, Zenon DEF QueueInv, NotReadyEarly
  <2>2. entry[b][i].age \in 0 .. Latency
    BY <2>1, Zenon DEF Entry
  <2>3. entry'[b][i].age = IF entry[b][i].age < Latency THEN entry[b][i].age + 1
                           ELSE entry[b][i].age
    BY <2>1, <1>3, Zenon
  <2>4. Distance(b)' >= Distance(b) - 1
    <3>1. CASE current' = current
      BY <3>1, <1>0 DEF Distance, Bucket, m_size
    <3>2. CASE /\ entry[current] = <<>>
               /\ current' = IF current = Latency THEN 0 ELSE current + 1
      <4>1. b # current
        BY <3>2, <2>1
      <4> QED
        BY <3>2, <4>1, <1>0 DEF Distance, Bucket, m_size
    <3> QED
      BY <1>5, <3>1, <3>2, Zenon
  <2>5. Distance(b) \in Nat
    BY <1>0 DEF Distance, Bucket, m_size
  <2>6. Distance(b)' \in Nat
    <3>1. PICK c \in 0 .. Latency : c = current'
      BY <1>5, Zenon DEF Bucket
    <3>2. Distance(b)' = IF b >= c THEN b - c ELSE b - c + m_size
      BY <3>1, Zenon DEF Distance, m_size
    <3> QED
      BY <3>2, <1>0 DEF Bucket, m_size
  <2> QED
    BY <1>0, <2>1, <2>2, <2>3, <2>4, <2>5, <2>6
<1>7. NotReadyEarly'
  BY <1>6, Zenon DEF NotReadyEarly
<1> QED
  BY <1>4, <1>5, <1>7, Zenon DEF QueueInv

\* Whatever the capacity, the latency and the data, dequeue() never returns an
\* entry before it has aged for the latency of its stage.
THEOREM NeverReadyEarly == QueueSpec => []NotReadyEarly
<1>1. QueueInit => QueueInv
  BY InitEstablishes, Zenon
<1>2. QueueInv /\ [QueueNext]_queue_vars => QueueInv'
  <2> SUFFICES ASSUME QueueInv, [QueueNext]_queue_vars PROVE QueueInv'
    OBVIOUS
  <2>1. CASE \E p \in Priorities, x \in Data : enqueue(p, x)
    BY <2>1, EnqueueKeeps, Zenon
  <2>2. CASE dequeue
    BY <2>2, DequeueKeeps, Zenon
  <2>3. CASE advance
    BY <2>3, AdvanceKeeps, Zenon
  <2>4. CASE UNCHANGED queue_vars
    BY <2>4, Zenon DEF queue_vars, QueueInv, RingIsClosed, NotReadyEarly, Distance
  <2> QED
    BY <2>1, <2>2, <2>3, <2>4, Zenon DEF QueueNext
<1>3. QueueInv => NotReadyEarly
  BY DEF QueueInv
<1> QED
  BY <1>1, <1>2, <1>3, PTL DEF QueueSpec

-----------------------------------------------------------------------------
(* macsim_c::run_a_cycle                                                   *)

\* Steps of the clock between two cycles of domain d.
Period(d) == Lcm \div Freq[d]

\* d has run the cycles due before this step of the clock.
Ready(d) == (count[d] - 1) * Period(d) < clock /\ clock <= count[d] * Period(d)

\* d has also run the cycle due in this step, if there was one.
Ticked(d) == (count[d] - 1) * Period(d) <= clock /\ clock < count[d] * Period(d)

\* The cores that have had their turn of the core loop.
Visited == {(t + pivot) % NumCores : t \in 0 .. turn - 1}

ClockTypeOK ==
    /\ clock \in 0 .. Lcm - 1
    /\ count \in [Domains -> Nat]
    /\ next = [d \in Domains |-> count[d] * Period(d)]
    /\ pivot \in Cores /\ cycle0 \in Cores /\ turn \in 0 .. NumCores
    /\ at \in {"top", "loop", "core", "ended"}
    /\ at = "core" => turn < NumCores

ClockInv ==
    /\ ClockTypeOK
    /\ at = "top" => \A d \in Domains : Ready(d)
    /\ at \in {"loop", "core"} =>
          \A d \in Domains :
             IF d \in Uncore \/ d \in Visited \/ (at = "core" /\ d = Core)
             THEN Ticked(d) ELSE Ready(d)

-----------------------------------------------------------------------------
(* Arithmetic. *)

LEMMA MulSucc ==
    ASSUME NEW k \in Int, NEW q \in Int
    PROVE  /\ (k + 1) * q = k * q + q
           /\ (k - 1) * q = k * q - q
           /\ k * q \in Int
  OBVIOUS

LEMMA MulLess ==
    ASSUME NEW a \in Int, NEW b \in Int, NEW f \in Nat \ {0}
    PROVE  a < b => a * f < b * f
  OBVIOUS

LEMMA MulLeq ==
    ASSUME NEW a \in Int, NEW b \in Int, NEW f \in Nat \ {0}
    PROVE  a <= b => a * f <= b * f
  OBVIOUS

LEMMA ExactDiv ==
    ASSUME NEW k \in Nat, NEW f \in Nat \ {0}
    PROVE  (k * f) \div f = k
  OBVIOUS

\* Counting from p on modulo n reaches every c below n.
LEMMA ModReaches ==
    ASSUME NEW n \in Nat \ {0}, NEW p \in 0 .. n - 1, NEW c \in 0 .. n - 1
    PROVE  \E t \in 0 .. n - 1 : (t + p) % n = c
<1>1. c % n = c /\ (c + n) % n = c
  OBVIOUS
<1>2. CASE p <= c
  <2>1. c - p \in 0 .. n - 1 /\ (c - p) + p = c
    BY <1>2
  <2>2. QED
    BY <1>1, <2>1, Zenon
<1>3. CASE p > c
  <2>1. c - p + n \in 0 .. n - 1 /\ (c - p + n) + p = c + n
    BY <1>3
  <2>2. QED
    BY <1>1, <2>1, Zenon
<1>4. QED
  BY <1>2, <1>3

\* The window is a whole number of periods of every domain.
LEMMA Periods ==
    /\ Lcm \in Nat \ {0}
    /\ \A d \in Domains : /\ Period(d) \in Nat \ {0}
                          /\ Lcm = Period(d) * Freq[d]
                          /\ Freq[d] \in Nat \ {0}
<1>1. Lcm \in 1 .. LcmBound /\ IsLcm(Lcm)
  BY LcmAssumption, Zenon DEF Lcm
<1>2. Lcm \in Nat \ {0}
  BY <1>1
<1>3. ASSUME NEW d \in Domains
      PROVE  Period(d) \in Nat \ {0} /\ Lcm = Period(d) * Freq[d] /\ Freq[d] \in Nat \ {0}
  <2>1. Freq[d] \in Nat \ {0} /\ Lcm % Freq[d] = 0
    BY <1>1, SimulatorAssumption DEF IsLcm
  <2>2. \A l \in Nat \ {0}, f \in Nat \ {0} :
           l % f = 0 => l \div f \in Nat \ {0} /\ l = (l \div f) * f
    OBVIOUS
  <2>3. QED
    BY <1>2, <2>1, <2>2, Zenon DEF Period
<1>4. QED
  BY <1>2, <1>3, Zenon

-----------------------------------------------------------------------------
(* Steps of the clock domains. *)

\* GET_NEXT_CYCLE computes the next multiple of the period.
LEMMA NextCycle ==
    ASSUME NEW d \in Domains, NEW k \in Nat
    PROVE  (Lcm * k) \div Freq[d] = k * Period(d)
<1>1. Lcm * k = (k * Period(d)) * Freq[d] /\ k * Period(d) \in Nat
  <2>1. \A p \in Nat, f \in Nat : (p * f) * k = (k * p) * f /\ k * p \in Nat
    OBVIOUS
  <2>2. QED
    BY <2>1, Periods
<1>2. Freq[d] \in Nat \ {0}
  BY Periods, Zenon
<1>3. QED
  BY <1>1, <1>2, ExactDiv

\* What a tick of the domains ds, all of them due, does to every domain.
LEMMA TickStep ==
    ASSUME ClockTypeOK, NEW ds \in SUBSET Domains, Tick(ds),
           \A d \in ds : next[d] = clock
    PROVE  /\ clock' = clock
           /\ count' \in [Domains -> Nat]
           /\ next' = [d \in Domains |-> count'[d] * Period(d)]
           /\ \A d \in Domains :
                 /\ d \in ds => Ticked(d)'
                 /\ d \notin ds /\ Ready(d) => Ready(d)'
                 /\ d \notin ds /\ Ticked(d) => Ticked(d)'
                 /\ d \notin ds /\ Ready(d) /\ next[d] # clock => Ticked(d)'
<1>1. clock' = clock /\ count' \in [Domains -> Nat]
  BY DEF Tick, ClockTypeOK
<1>2. \A d \in Domains : next'[d] = count'[d] * Period(d)
  <2>1. TAKE d \in Domains
  <2>2. CASE d \in ds
    <3>1. next'[d] = (Lcm * count'[d]) \div Freq[d] /\ count'[d] \in Nat
      BY <1>1, <2>2, Zenon DEF Tick
    <3>2. QED
      BY <3>1, NextCycle, Zenon
  <2>3. CASE d \notin ds
    BY <2>3, Zenon DEF Tick, ClockTypeOK
  <2>4. QED
    BY <2>2, <2>3, Zenon
<1>3. next' = [d \in Domains |-> count'[d] * Period(d)]
  BY <1>2, Zenon DEF Tick
<1>4. ASSUME NEW d \in Domains
      PROVE  /\ d \in ds => Ticked(d)'
             /\ d \notin ds /\ Ready(d) => Ready(d)'
             /\ d \notin ds /\ Ticked(d) => Ticked(d)'
             /\ d \notin ds /\ Ready(d) /\ next[d] # clock => Ticked(d)'
  <2>1. Period(d) \in Nat \ {0} /\ count[d] \in Nat /\ clock \in Nat
        /\ next[d] = count[d] * Period(d)
    BY Periods DEF ClockTypeOK
  <2>2. Period(d)' = Period(d)
    BY Zenon DEF Period
  <2>3. /\ (count[d] + 1) * Period(d) = count[d] * Period(d) + Period(d)
        /\ (count[d] - 1) * Period(d) = count[d] * Period(d) - Period(d)
        /\ count[d] * Period(d) \in Int
    BY <2>1, MulSucc
  <2>4. CASE d \in ds
    <3>1. count'[d] = count[d] + 1 /\ next[d] = clock
      BY <2>4, Zenon DEF Tick
    <3>2. count'[d] - 1 = count[d]
      BY <3>1, <2>1
    <3>3. Ticked(d)'
      BY <1>1, <2>1, <2>2, <2>3, <3>1, <3>2 DEF Ticked
    <3>4. QED
      BY <2>4, <3>3, Zenon
  <2>5. CASE d \notin ds
    <3>1. count'[d] = count[d]
      BY <2>5, Zenon DEF Tick
    <3>2. Ready(d) => Ready(d)'
      BY <1>1, <2>2, <3>1, Zenon DEF Ready
    <3>3. Ticked(d) => Ticked(d)'
      BY <1>1, <2>2, <3>1, Zenon DEF Ticked
    <3>4. Ready(d) /\ next[d] # clock => Ticked(d)
      BY <2>1, <2>3 DEF Ready, Ticked
    <3>5. QED
      BY <2>5, <3>2, <3>3, <3>4, Zenon
  <2>6. QED
    BY <2>4, <2>5, Zenon
<1>5. QED
  BY <1>1, <1>3, <1>4, Zenon

-----------------------------------------------------------------------------
(* The core loop. *)

\* A turn of the loop adds one core to those visited.
LEMMA VisitOne ==
    ASSUME ClockTypeOK, turn' = turn + 1, pivot' = pivot
    PROVE  Visited' = Visited \cup {Core}
<1>1. turn \in Nat /\ 0 .. turn' - 1 = (0 .. turn - 1) \cup {turn}
  BY DEF ClockTypeOK
<1>2. QED
  BY <1>1, Zenon DEF Visited, Core

LEMMA CoreIsCore ==
    ASSUME ClockTypeOK
    PROVE  Core \in Cores /\ Core \in Domains /\ Core \notin Uncore
<1>1. NumCores \in Nat \ {0} /\ turn + pivot \in Nat
  BY SimulatorAssumption DEF ClockTypeOK, Cores
<1>2. \A n \in Nat \ {0}, a \in Nat : a % n \in 0 .. n - 1
  OBVIOUS
<1>3. Core \in Cores
  BY <1>1, <1>2, Zenon DEF Core, Cores
<1>4. QED
  BY <1>1, <1>3 DEF Cores, Domains, Uncore

\* When the loop is over every core has had its turn.
LEMMA AllVisited ==
    ASSUME ClockTypeOK, turn = NumCores
    PROVE  \A d \in Domains : d \in Uncore \/ d \in Visited
<1>1. NumCores \in Nat \ {0}
  BY SimulatorAssumption, Zenon
<1>2. ASSUME NEW c \in Cores PROVE c \in Visited
  <2>1. pivot \in 0 .. NumCores - 1 /\ c \in 0 .. NumCores - 1
    BY <1>2, Zenon DEF ClockTypeOK, Cores
  <2>2. \E t \in 0 .. NumCores - 1 : (t + pivot) % NumCores = c
    BY <1>1, <2>1, ModReaches, Zenon
  <2>3. QED
    BY <2>2, Zenon DEF Visited
<1>3. QED
  BY <1>2, Zenon DEF Domains

-----------------------------------------------------------------------------
(* The invariant. *)

LEMMA InitClock == Init => ClockInv
<1> SUFFICES ASSUME Init PROVE ClockInv
  BY Zenon
<1>1. NumCores \in Nat \ {0}
  BY SimulatorAssumption, Zenon
<1>0. /\ clock = 0 /\ count = [d \in Domains |-> 0] /\ next = [d \in Domains |-> 0]
      /\ cycle0 = 0 /\ pivot = 0 /\ turn = 0 /\ at = "top"
  BY Zenon DEF Init
<1>2. \A d \in Domains : Period(d) \in Nat \ {0} /\ count[d] = 0
  BY <1>0, Periods, Zenon
<1>3. \A d \in Domains : 0 * Period(d) = 0 /\ (0 - 1) * Period(d) < 0
  BY <1>2
<1>4. ClockTypeOK
  BY <1>0, <1>1, <1>2, <1>3, Periods DEF ClockTypeOK, Cores
<1>5. \A d \in Domains : Ready(d)
  BY <1>0, <1>2, <1>3 DEF Ready
<1>6. QED
  BY <1>0, <1>4, <1>5, Zenon DEF ClockInv

\* The clock moves on, or the window starts over, when every domain has ticked.
LEMMA EndCycleStep ==
    ASSUME ClockInv, EndCycle
    PROVE  ClockInv'
<1>1. \A d \in Domains : Ticked(d)
  BY AllVisited, Zenon DEF EndCycle, ClockInv
<1>2. \A d \in Domains : Period(d) \in Nat \ {0} /\ Period(d)' = Period(d)
  BY Periods, Zenon DEF Period
<1>3. Lcm \in Nat \ {0} /\ clock \in 0 .. Lcm - 1 /\ count \in [Domains -> Nat]
  BY Periods, Zenon DEF ClockInv, ClockTypeOK
<1>4. CASE clock + 1 = Lcm
  <2>1. \A d \in Domains : 0 * Period(d) = 0 /\ (0 - 1) * Period(d) < 0
    BY <1>2
  <2>2. clock' = 0 /\ \A d \in Domains : count'[d] = 0
    BY <1>4, Zenon DEF EndCycle
  <2>3. \A d \in Domains : Ready(d)'
    BY <1>2, <2>1, <2>2 DEF Ready
  <2>4. next' = [d \in Domains |-> count'[d] * Period(d)] /\ count' \in [Domains -> Nat]
    BY <1>4, <2>1 DEF EndCycle
  <2>5. ClockTypeOK'
    BY <1>2, <1>3, <2>2, <2>4 DEF EndCycle, ClockInv, ClockTypeOK
  <2>6. QED
    BY <2>3, <2>5, Zenon DEF EndCycle, ClockInv
<1>5. CASE clock + 1 # Lcm
  <2>1. clock' = clock + 1 /\ count' = count /\ next' = next
    BY <1>5, Zenon DEF EndCycle
  <2>2. ASSUME NEW d \in Domains PROVE Ready(d)'
    <3>1. (count[d] - 1) * Period(d) \in Int /\ count[d] * Period(d) \in Int
      BY <1>2, <1>3
    <3>2. QED
      BY <1>1, <1>2, <1>3, <2>1, <3>1 DEF Ready, Ticked
  <2>3. ClockTypeOK'
    BY <1>2, <1>3, <1>5, <2>1 DEF EndCycle, ClockInv, ClockTypeOK
  <2>4. QED
    BY <2>2, <2>3, Zenon DEF EndCycle, ClockInv
<1>6. QED
  BY <1>4, <1>5, Zenon

\* Steps that leave the clocks and the place in the loop alone.
LEMMA ClockStutter ==
    ASSUME ClockInv, UNCHANGED <<clocks, cycle0, pivot, turn, at>>
    PROVE  ClockInv'
<1>1. UNCHANGED <<clock, count, next, cycle0, pivot, turn, at>>
  BY Zenon DEF clocks
<1>2. \A d \in Domains : Period(d)' = Period(d)
  BY Zenon DEF Period
<1>3. Visited' = Visited /\ Core' = Core
  BY <1>1, Zenon DEF Visited, Core
<1>4. ClockTypeOK'
  BY <1>1, <1>2, Zenon DEF ClockInv, ClockTypeOK
<1>5. \A d \in Domains : Ready(d)' = Ready(d) /\ Ticked(d)' = Ticked(d)
  BY <1>1, <1>2, Zenon DEF Ready, Ticked
<1>6. QED
  BY <1>1, <1>3, <1>4, <1>5, Zenon DEF ClockInv

\* Every step preserves the invariant.
LEMMA NextClock == ClockInv /\ [Next]_vars => ClockInv'
<1> SUFFICES ASSUME ClockInv, [Next]_vars PROVE ClockInv'
  OBVIOUS
<1>0. ClockTypeOK /\ NumCores \in Nat \ {0}
  BY SimulatorAssumption, Zenon DEF ClockInv
<1>p. \A d \in Domains : Period(d)' = Period(d)
  BY Zenon DEF Period
<1>1. CASE Finish
  <2>1. UNCHANGED <<clock, count, next, cycle0, pivot, turn>> /\ at' = "ended"
    BY <1>1, Zenon DEF Finish, clocks
  <2>2. QED
    BY <1>0, <1>p, <2>1, Zenon DEF ClockInv, ClockTypeOK
<1>2. CASE StartCycle
  <2> DEFINE ds == {d \in Uncore : next[d] = clock}
  <2>1. /\ Tick(ds) /\ turn' = 0 /\ at' = "loop" /\ at = "top" /\ cycle0' = cycle0
        /\ pivot' = (cycle0 + 1) % NumCores
    BY <1>2, Zenon DEF StartCycle
  <2>2. ds \subseteq Domains /\ \A d \in ds : next[d] = clock
    BY Zenon DEF Domains
  <2>3. \A d \in Domains : Ready(d)
    BY <2>1, Zenon DEF ClockInv
  <2>4. /\ clock' = clock /\ count' \in [Domains -> Nat]
        /\ next' = [d \in Domains |-> count'[d] * Period(d)]
        /\ \A d \in Domains : IF d \in Uncore THEN Ticked(d)' ELSE Ready(d)'
    <3> HIDE DEF ds
    <3>1. /\ clock' = clock /\ count' \in [Domains -> Nat]
          /\ next' = [d \in Domains |-> count'[d] * Period(d)]
          /\ \A d \in Domains :
                 /\ d \in ds => Ticked(d)'
                 /\ d \notin ds => Ready(d)'
                 /\ d \notin ds /\ next[d] # clock => Ticked(d)'
      BY <1>0, <2>1, <2>2, <2>3, TickStep, Zenon
    <3>2. QED
      BY <3>1, Zenon DEF ds
  <2>5. Visited' = {}
    BY <2>1 DEF Visited
  <2>6. pivot' \in Cores
    <3>1. cycle0 + 1 \in Nat /\ \A n \in Nat \ {0}, a \in Nat : a % n \in 0 .. n - 1
      BY <1>0 DEF ClockTypeOK, Cores
    <3>2. QED
      BY <1>0, <2>1, <3>1, Zenon DEF Cores
  <2>7. ClockTypeOK'
    BY <1>0, <1>p, <2>1, <2>4, <2>6 DEF ClockTypeOK
  <2>8. QED
    BY <2>1, <2>4, <2>5, <2>7, Zenon DEF ClockInv
<1>3. CASE SkipCore
  <2>1. /\ UNCHANGED <<clock, count, next, cycle0, pivot, at>> /\ turn' = turn + 1
        /\ at = "loop" /\ turn < NumCores /\ next[Core] # clock
    BY <1>3, Zenon DEF SkipCore, clocks
  <2>2. Visited' = Visited \cup {Core}
    BY <1>0, <2>1, VisitOne, Zenon
  <2>3. ClockTypeOK'
    BY <1>0, <1>p, <2>1 DEF ClockTypeOK
  <2>4. \A d \in Domains : Ready(d)' = Ready(d) /\ Ticked(d)' = Ticked(d)
    BY <1>p, <2>1, Zenon DEF Ready, Ticked
  <2>5. Ready(Core) => Ticked(Core)
    <3>1. /\ Period(Core) \in Nat /\ count[Core] \in Nat /\ clock \in Nat
          /\ next[Core] = count[Core] * Period(Core)
      BY <1>0, Periods, CoreIsCore DEF ClockTypeOK
    <3>2. (count[Core] - 1) * Period(Core) \in Int /\ count[Core] * Period(Core) \in Int
      BY <3>1
    <3>3. QED
      BY <2>1, <3>1, <3>2 DEF Ready, Ticked
  <2>6. QED
    BY <2>1, <2>2, <2>3, <2>4, <2>5, Zenon DEF ClockInv
<1>4. CASE StartCore
  <2>1. /\ Tick({Core}) /\ next[Core] = clock /\ turn < NumCores /\ at = "loop"
        /\ pivot' = pivot
        /\ cycle0' = IF Core = 0 THEN (cycle0 + 1) % NumCores ELSE cycle0
        /\ \/ turn' = turn + 1 /\ at' = "loop"
           \/ turn' = turn /\ at' = "core"
    BY <1>4, Zenon DEF StartCore
  <2>2. PICK c \in Domains : c = Core
    BY <1>0, CoreIsCore, Zenon
  <2>3. /\ clock' = clock /\ count' \in [Domains -> Nat]
        /\ next' = [d \in Domains |-> count'[d] * Period(d)]
        /\ Ticked(c)'
        /\ \A d \in Domains \ {c} : (Ready(d) => Ready(d)') /\ (Ticked(d) => Ticked(d)')
    <3> DEFINE ds == {c}
    <3>1. Tick(ds) /\ ds \in SUBSET Domains /\ \A d \in ds : next[d] = clock
      BY <2>1, <2>2, Zenon
    <3> HIDE DEF ds
    <3>2. /\ clock' = clock /\ count' \in [Domains -> Nat]
          /\ next' = [d \in Domains |-> count'[d] * Period(d)]
          /\ \A d \in Domains :
                 /\ d \in ds => Ticked(d)'
                 /\ d \notin ds /\ Ready(d) => Ready(d)'
                 /\ d \notin ds /\ Ticked(d) => Ticked(d)'
      BY <1>0, <3>1, TickStep, Zenon
    <3>3. QED
      BY <3>2, Zenon DEF ds
  <2>4. cycle0' \in Cores
    <3>1. cycle0 + 1 \in Nat /\ \A n \in Nat \ {0}, a \in Nat : a % n \in 0 .. n - 1
      BY <1>0 DEF ClockTypeOK, Cores
    <3>2. QED
      BY <1>0, <2>1, <3>1, Zenon DEF Cores, ClockTypeOK
  <2>5. ClockTypeOK'
    BY <1>0, <1>p, <2>1, <2>3, <2>4 DEF ClockTypeOK
  <2>6. CASE turn' = turn + 1 /\ at' = "loop"
    <3>1. Visited' = Visited \cup {Core}
      BY <1>0, <2>1, <2>6, VisitOne, Zenon
    <3>2. \A d \in Domains : IF d \in Uncore \/ d \in Visited THEN Ticked(d) ELSE Ready(d)
      BY <2>1, Zenon DEF ClockInv
    <3>3. \A d \in Domains : IF d \in Uncore \/ d \in Visited' THEN Ticked(d)' ELSE Ready(d)'
      <4>1. TAKE d \in Domains
      <4>2. CASE d = c
        <5>1. Ticked(d)'
          BY <2>3, <4>2, Zenon
        <5>2. QED
          BY <2>2, <3>1, <4>2, <5>1, Zenon
      <4>3. CASE d # c
        BY <2>2, <2>3, <3>1, <3>2, <4>3, Zenon
      <4>4. QED
        BY <4>2, <4>3, Zenon
    <3>4. QED
      BY <2>5, <2>6, <3>3, Zenon DEF ClockInv
  <2>7. CASE turn' = turn /\ at' = "core"
    <3>1. Visited' = Visited /\ Core' = Core
      BY <2>1, <2>7, Zenon DEF Visited, Core
    <3>2. QED
      BY <2>1, <2>2, <2>3, <2>5, <2>7, <3>1, Zenon DEF ClockInv
  <2>8. QED
    BY <2>1, <2>6, <2>7, Zenon
<1>5. CASE LeaveCore
  <2>1. /\ UNCHANGED <<clock, count, next, cycle0, pivot>> /\ turn' = turn + 1
        /\ at = "core" /\ at' = "loop"
    BY <1>5, Zenon DEF LeaveCore, clocks
  <2>2. Visited' = Visited \cup {Core}
    BY <1>0, <2>1, VisitOne, Zenon
  <2>3. ClockTypeOK'
    BY <1>0, <1>p, <2>1 DEF ClockTypeOK
  <2>4. \A d \in Domains : Ready(d)' = Ready(d) /\ Ticked(d)' = Ticked(d)
    BY <1>p, <2>1, Zenon DEF Ready, Ticked
  <2>5. QED
    BY <2>1, <2>2, <2>3, <2>4, Zenon DEF ClockInv
<1>6. CASE EndCycle
  BY <1>6, EndCycleStep
<1>7. CASE \E p \in Procs : Read(p)
  <2>1. UNCHANGED <<clocks, cycle0, pivot, turn, at>>
    BY <1>7, Zenon DEF Read
  <2>2. QED
    BY <2>1, ClockStutter, Zenon
<1>8. CASE \E th \in Threads : End(th[1], th[2])
  <2>1. UNCHANGED <<clocks, cycle0, pivot, turn, at>>
    BY <1>8, Zenon DEF End
  <2>2. QED
    BY <2>1, ClockStutter
<1>9. CASE UNCHANGED vars
  <2>1. UNCHANGED <<clocks, cycle0, pivot, turn, at>>
    BY <1>9, Zenon DEF vars
  <2>2. QED
    BY <2>1, ClockStutter
<1>10. QED
  BY <1>1, <1>2, <1>3, <1>4, <1>5, <1>6, <1>7, <1>8, <1>9, Zenon DEF Next, Ended

\* Whatever the frequencies, the number of cores and the behaviour of the
\* threads, run_a_cycle gives every clock domain exactly the cycles its
\* frequency asks for (GET_NEXT_CYCLE and the window of m_clock_lcm steps).
THEOREM RatesAreExact == Spec => []DomainsKeepTheirRate
<1>1. ClockInv => DomainsKeepTheirRate
  <2> SUFFICES ASSUME ClockInv, at = "top", NEW d \in Domains
               PROVE  /\ (count[d] - 1) * Lcm < clock * Freq[d]
                      /\ clock * Freq[d] <= count[d] * Lcm
    BY Zenon DEF DomainsKeepTheirRate
  <2>1. Ready(d) /\ count[d] \in Nat /\ clock \in Nat
    BY Periods DEF ClockInv, ClockTypeOK
  <2>2. Period(d) \in Nat \ {0} /\ Lcm = Period(d) * Freq[d] /\ Freq[d] \in Nat \ {0}
    BY Periods, Zenon
  <2>3. \A k \in Int, p \in Nat, f \in Nat : (k * p) * f = k * (p * f) /\ k * p \in Int
    OBVIOUS
  <2>4. (count[d] - 1) * Lcm = ((count[d] - 1) * Period(d)) * Freq[d]
    BY <2>1, <2>2, <2>3
  <2>5. count[d] * Lcm = (count[d] * Period(d)) * Freq[d]
    BY <2>1, <2>2, <2>3
  <2>6. (count[d] - 1) * Period(d) \in Int /\ count[d] * Period(d) \in Int
    BY <2>1, <2>2, <2>3
  <2>7. ((count[d] - 1) * Period(d)) * Freq[d] < clock * Freq[d]
    BY <2>1, <2>2, <2>6, MulLess DEF Ready
  <2>8. clock * Freq[d] <= (count[d] * Period(d)) * Freq[d]
    BY <2>1, <2>2, <2>6, MulLeq DEF Ready
  <2>9. QED
    BY <2>4, <2>5, <2>7, <2>8, Zenon
<1>2. QED
  BY <1>1, InitClock, NextClock, PTL DEF Spec
=============================================================================
