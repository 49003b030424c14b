----------------------------- MODULE MmuProofs -----------------------------
(***************************************************************************)
(* Virtual memory, for all uops, pages, latencies, knobs and sizes: a free *)
(* frame is at hand whenever the transfer of a page ends; page table, TLB, *)
(* free frames and replacement unit agree; and without page swapping a     *)
(* translation stays current.                                              *)
(***************************************************************************)
EXTENDS Mmu, FiniteSetTheorems, TLAPS

Elements(s) == {s[i] : i \in 1..Len(s)}
Distinct(s) == \A i, j \in 1..Len(s) : s[i] = s[j] => i = j

-----------------------------------------------------------------------------
(* Page table, TLB, frames and replacement unit                            *)

\* P are the pages, pt the page table.
MapRight(P, pt) ==
    /\ pt \in [P -> Nat \cup {NoFrame}]
    /\ \A p, q \in P : p # q /\ pt[p] # NoFrame => pt[p] # pt[q]

TlbRight(P, pt, t) ==
    /\ t \in Seq([page : P, frame : Nat]) /\ Distinct(t)
    /\ \A e \in Elements(t) : pt[e.page] = e.frame

\* Without page swapping: d frames have been handed out.
DimmRight(P, pt, d) == d \in Nat /\ \A p \in P : pt[p] # NoFrame => pt[p] < d

\* With page swapping: N frames, those that hold no page are free.
FramesRight(P, N, pt, free, next) ==
    /\ next \in 0..(N - 1) /\ free = (0..(N - 1)) \ {pt[p] : p \in P}
    /\ \A p \in P : pt[p] # NoFrame => pt[p] \in 0..(N - 1)

\* The nodes are attached or free; the table leads from the key of an attached
\* node to the node.  (It may know keys of victims, too.)
NodesRight(N, r) ==
    /\ r = [list |-> r.list, free |-> r.free, key |-> r.key, table |-> r.table]
    /\ r.list \in Seq(1..N) /\ Distinct(r.list)
    /\ r.free \in Seq(1..N) /\ Distinct(r.free)
    /\ Elements(r.list) \cap Elements(r.free) = {}
    /\ Elements(r.list) \cup Elements(r.free) = 1..N
    /\ r.key \in [1..N -> Nat \cup {NoFrame}]
    /\ r.table \in [DOMAIN r.table -> 1..N]
    /\ \A n \in Elements(r.list) : r.key[n] \in DOMAIN r.table /\ r.table[r.key[n]] = n

\* The attached nodes have the page numbers of the mapped pages.
KeysRight(P, pt, r) ==
    /\ \A n \in Elements(r.list) : \E p \in P : pt[p] # NoFrame /\ p.pn = r.key[n]
    /\ \A p \in P : pt[p] # NoFrame => \E n \in Elements(r.list) : r.key[n] = p.pn
    /\ \A p, q \in P : pt[p] # NoFrame /\ pt[q] # NoFrame /\ p.pn = q.pn => p = q

MemRight(m) ==
    /\ m = [pt |-> m.pt, tlb |-> m.tlb, ru |-> m.ru, free |-> m.free, next |-> m.next,
            dimm |-> m.dimm, failed |-> m.failed]
    /\ MapRight(Page, m.pt) /\ TlbRight(Page, m.pt, m.tlb)
    /\ NonSwap => DimmRight(Page, m.pt, m.dimm)
    /\ ~NonSwap => /\ FramesRight(Page, NumFrames, m.pt, m.free, m.next)
                   /\ m.failed = "none" => /\ NodesRight(NumFrames, m.ru)
                                           /\ KeysRight(Page, m.pt, m.ru)

-----------------------------------------------------------------------------
(* Uops and the queues they wait in                                        *)

States == {"idle", "core", "walk", "retry", "fault_retry", "fault"}

\* P are the pages, f the uops.
UopsRight(P, f) ==
    /\ f \in [Uops -> [st : States, page : P \cup {NoPage}, frame : Nat \cup {NoFrame}]]
    /\ \A u \in Uops : /\ f[u].st = "idle" => f[u].frame = NoFrame
                       /\ f[u].st # "idle" => f[u].page \in P

\* The uops of a queue are in its state, each is there once.
Holds(f, s, st) == s \in Seq(Uops) /\ Distinct(s) /\ \A u \in Elements(s) : f[u].st = st
OfPage(f, s, p) == \A u \in Elements(s) : f[u].page = p

\* Each page is walked for once.
WalksRight(P, f, q) ==
    /\ q \in Seq([page : P, left : Nat, uops : Seq(Uops)])
    /\ \A i \in 1..Len(q) : /\ q[i].uops # <<>> /\ Holds(f, q[i].uops, "walk")
                            /\ OfPage(f, q[i].uops, q[i].page)
    /\ \A i, j \in 1..Len(q) : q[i].page = q[j].page => i = j

\* Pages with a fault are not mapped.
FaultsRight(P, f, pt, fs) ==
    /\ IsFiniteSet(DOMAIN fs) /\ DOMAIN fs \subseteq P /\ fs \in [DOMAIN fs -> Seq(Uops)]
    /\ \A p \in DOMAIN fs : Holds(f, fs[p], "fault") /\ OfPage(f, fs[p], p) /\ pt[p] = NoFrame

\* Nor are the pages of the batch, each of which is in it once.
BatchRight(P, f, pt, b) ==
    /\ b \in Seq([page : P, uops : Seq(Uops)])
    /\ \A i \in 1..Len(b) : /\ Holds(f, b[i].uops, "fault") /\ OfPage(f, b[i].uops, b[i].page)
                            /\ pt[b[i].page] = NoFrame
    /\ \A i, j \in 1..Len(b) : b[i].page = b[j].page => i = j

\* A uop faulted before the batch began or since.
Apart(b, fs) ==
    \A i \in 1..Len(b) : b[i].page \in DOMAIN fs =>
        Elements(b[i].uops) \cap Elements(fs[b[i].page]) = {}

PendingRight(f, pend) ==
    /\ pend \in [Parents -> SUBSET Uops]
    /\ \A p \in Parents : \A u \in pend[p] : ParentOf[u] = p /\ f[u].st = "core"

\* What the loop of a phase has still to visit.
TodoRight(f, ph, s, pend, rq, frq) ==
    /\ s \in Seq(Uops) /\ Distinct(s)
    /\ ph \in {"faults", "mmu", "walk"} => s = <<>>
    /\ ph = "cores" => \A u \in Elements(s) : ParentOf[u] \in Parents /\ u \in pend[ParentOf[u]]
    /\ ph = "retry" => Elements(s) \subseteq Elements(rq)
    /\ ph = "fault_retry" =>
          \A u \in Elements(s) : f[u].st = "fault_retry" /\ u \notin Elements(frq)

QueuesRight ==
    /\ UopsRight(Page, uop)
    /\ WalksRight(Page, uop, walk_queue)
    /\ Holds(uop, retry_queue, "retry") /\ Holds(uop, fault_retry_queue, "fault_retry")
    /\ FaultsRight(Page, uop, page_table, faults)
    /\ BatchRight(Page, uop, page_table, processing) /\ Apart(processing, faults)
    /\ batch.on => processing # <<>>
    /\ PendingRight(uop, pending)
    /\ TodoRight(uop, phase, todo, pending, retry_queue, fault_retry_queue)

Batch == [on : BOOLEAN, first : BOOLEAN, wait : Nat]

\* FreeFrameEnsured is inductive once the batch is known to be a record and
\* the configuration to be one of Knobs.
IInv == knob \in Knobs /\ batch \in Batch /\ FreeFrameEnsured

\* The whole invariant.
MemInv == MemRight(Memory)
AllInv == IInv /\ MemInv /\ QueuesRight /\ TranslationIsCurrent

-----------------------------------------------------------------------------
(* A free frame for every transfer                                         *)

\* A state of memory in which the next transfer may end.
Ready(m) == m.failed = "none" => NonSwap \/ m.free # {}

\* Evicting a page frees its frame, or an assert has failed.
LEMMA EvictFrees ==
    ASSUME NEW pt, NEW t, NEW r, NEW free, NEW next, NEW d, NEW f
    PROVE  Ready(Evict([pt |-> pt, tlb |-> t, ru |-> r, free |-> free, next |-> next,
                        dimm |-> d, failed |-> f]))
  BY DEF Evict, Ready

\* Prepare leaves memory ready, and says how long the transfer takes.
LEMMA PrepareReady ==
    ASSUME knob \in Knobs, NEW pt, NEW t, NEW r, NEW free, NEW next, NEW d, NEW f
    PROVE  LET m == [pt |-> pt, tlb |-> t, ru |-> r, free |-> free, next |-> next,
                     dimm |-> d, failed |-> f]
           IN  Ready(Prepare(m).m) /\ Prepare(m).wait \in Nat
<1>. DEFINE m == [pt |-> pt, tlb |-> t, ru |-> r, free |-> free, next |-> next, dimm |-> d, failed |-> f]
<1>1. /\ FaultLatency \in Nat /\ EvictionLatency + FaultLatency \in Nat
  BY ConstantsAssumption DEF FaultLatency, KnobType
<1>2. Ready(Evict(m))
  BY EvictFrees
<1>3. CASE m.failed # "none"
  BY <1>3 DEF Prepare, Ready
<1>4. CASE m.failed = "none" /\ (NonSwap \/ m.free # {})
  BY <1>1, <1>4 DEF Prepare, Ready
<1>5. CASE m.failed = "none" /\ ~NonSwap /\ m.free = {}
  BY <1>1, <1>2, <1>5 DEF Prepare
<1>. QED  BY <1>3, <1>4, <1>5

\* The state of memory is stored as a whole.
LEMMA SetReady ==
    ASSUME NEW m, SetMemory(m), Ready(m), knob' = knob
    PROVE  FreeFrameEnsured'
  BY DEF SetMemory, Ready, FreeFrameEnsured, NonSwap

\* What resolving a fault makes of memory is again a record of its six parts.
LEMMA ResolveParts ==
    ASSUME NEW pg
    PROVE  \E pt, t, r, free, next, d, f :
              Resolve(Memory, pg) = [pt |-> pt, tlb |-> t, ru |-> r, free |-> free,
                                     next |-> next, dimm |-> d, failed |-> f]
<1>1. CASE NonSwap
  BY <1>1, ZenonT(60) DEF Resolve, Memory
<1>2. CASE ~NonSwap /\ pg.pn \in DOMAIN Memory.ru.table
  BY <1>2, Zenon DEF Resolve, Memory
<1>3. CASE ~NonSwap /\ pg.pn \notin DOMAIN Memory.ru.table
  <2>1. Resolve(Memory, pg) =
          [pt |-> [page_table EXCEPT ![pg] = FrameToAllocate], tlb |-> tlb,
           ru |-> ru_insert(ru, pg.pn), free |-> free_frames \ {FrameToAllocate},
           next |-> FrameToAllocate, dimm |-> frame_dimm, failed |-> failed]
    BY <1>3, Zenon DEF Resolve, Memory
  <2> QED
    BY <2>1, Zenon
<1> QED
  BY <1>1, <1>2, <1>3

LEMMA BatchBegins ==
    ASSUME NEW f, BeginBatch(f)
    PROVE  batch' \in Batch /\ ~batch'.first
<1>1. PICK b \in BOOLEAN, w \in Nat : batch' = [on |-> b, first |-> FALSE, wait |-> w]
  <2>1. BatchOverhead \in Nat
    BY ConstantsAssumption
  <2>2. \/ batch' = [on |-> FALSE, first |-> FALSE, wait |-> 0]
        \/ batch' = [on |-> TRUE, first |-> FALSE, wait |-> BatchOverhead]
    BY Zenon DEF BeginBatch
  <2>. QED  BY <2>1, <2>2, Zenon
<1>. QED  BY ONLY <1>1 DEF Batch

LEMMA BatchOk ==
    ASSUME IInv, knob' = knob, BatchWaits \/ BatchPreparesFirst \/ BatchResolves \/ NoBatch
    PROVE  IInv'
<1>1. CASE BatchWaits
  BY <1>1 DEF BatchWaits, IInv, FreeFrameEnsured, NonSwap, mmu_vars
<1>2. CASE BatchPreparesFirst
  <2>1. Ready(Prepare(Memory).m) /\ Prepare(Memory).wait \in Nat
    BY PrepareReady DEF IInv, Memory
  <2>2. SetMemory(Prepare(Memory).m)
        /\ batch' = [on |-> TRUE, first |-> TRUE, wait |-> Prepare(Memory).wait]
    BY <1>2 DEF BatchPreparesFirst
  <2>. QED  BY <2>1, <2>2, SetReady DEF IInv, Batch
<1>3. CASE BatchResolves
  <2>. DEFINE m == Resolve(Memory, Head(processing).page)
  <2>1. Ready(Prepare(m).m) /\ Prepare(m).wait \in Nat
    BY ResolveParts, PrepareReady DEF IInv
  <2>2. CASE Tail(processing) # <<>>
    <3>1. SetMemory(Prepare(m).m) /\ batch' = [batch EXCEPT !.wait = Prepare(m).wait]
      BY <1>3, <2>2 DEF BatchResolves
    <3>2. FreeFrameEnsured'
      BY <2>1, <3>1, SetReady
    <3>3. batch' \in Batch
      BY <2>1, <3>1 DEF IInv, Batch
    <3>. QED  BY <3>2, <3>3, Zenon DEF IInv
  <2>3. CASE Tail(processing) = <<>>
    <3>1. BeginBatch(OtherFaults(Head(processing).page))
      BY <1>3, <2>3 DEF BatchResolves
    <3>2. batch' \in Batch /\ ~batch'.first
      BY <3>1, BatchBegins
    <3>. QED  BY <3>2, Zenon DEF IInv, FreeFrameEnsured
  <2>. QED  BY <2>2, <2>3, Zenon
<1>4. CASE NoBatch
  <2>1. batch' \in Batch /\ ~batch'.first
    BY <1>4, BatchBegins DEF NoBatch
  <2>. QED  BY <2>1 DEF IInv, FreeFrameEnsured
<1>. QED  BY <1>1, <1>2, <1>3, <1>4

\* A cycle passes.
LEMMA TickOk ==
    ASSUME IInv, knob' = knob, Tick
    PROVE  IInv'
<1>1. /\ batch' \in Batch /\ batch'.on = batch.on /\ batch'.first = batch.first
  BY DEF Tick, IInv, Batch
<1>. QED  BY <1>1 DEF Tick, IInv, FreeFrameEnsured, NonSwap, mmu_vars

\* A step that leaves the batch and the free frames alone; it may stop the
\* program with an assert, but does not start it again.
LEMMA OtherOk ==
    ASSUME IInv, knob' = knob, failed = "none", UNCHANGED <<batch, free_frames>>
    PROVE  IInv'
  BY DEF IInv, FreeFrameEnsured, NonSwap

LEMMA NextOk ==
    ASSUME IInv, [Next]_vars
    PROVE  IInv'
<1>1. CASE UNCHANGED vars
  BY <1>1 DEF vars, mmu_vars, IInv, FreeFrameEnsured, NonSwap
<1>2. ASSUME Next
      PROVE  IInv'
  <2>1. knob' = knob /\ failed = "none"
    BY <1>2 DEF Next, Running
  <2>2. CASE HandlePageFaults
    BY <2>1, <2>2, BatchOk DEF HandlePageFaults
  <2>3. CASE PllLocked \/ EndCycle
    BY <2>1, <2>3, TickOk, Zenon DEF PllLocked, EndCycle
  <2>4. CASE StartRetries \/ Retry \/ StartFaultRetries \/ FaultRetry \/ StartWalks \/ Walk
    BY <2>1, <2>4, OtherOk
       DEF StartRetries, Retry, StartFaultRetries, FaultRetry, StartWalks, Walk,
           do_page_table_walks, mmu_vars
  <2>5. CASE CoreStep
    BY <2>1, <2>5, OtherOk, Zenon
       DEF CoreStep, ExecSingle, Fetch, ExecParent, FetchParent, ExecChild, EndCores, mmu_vars
  <2>. QED  BY <1>2, <2>2, <2>3, <2>4, <2>5, Zenon DEF Next, MmuStep
<1>. QED  BY <1>1, <1>2

\* "on m_batch_processing_next_event_cycle, a free page is ensured": whatever
\* the walks, faults and evictions between the start of a transfer and its
\* end, handle_page_faults then finds a free frame.
THEOREM TransferFindsFrame == Spec => []FreeFrameEnsured
<1>1. Init => IInv
  BY DEF Init, IInv, Batch, FreeFrameEnsured
<1>2. IInv /\ [Next]_vars => IInv'
  BY NextOk
<1>3. IInv => FreeFrameEnsured
  BY DEF IInv
<1>. QED  BY <1>1, <1>2, <1>3, PTL DEF Spec

-----------------------------------------------------------------------------
(* Sequences without doubles                                               *)

LEMMA ElementsIn ==
    ASSUME NEW S, NEW s \in Seq(S)
    PROVE  /\ Elements(s) \subseteq S /\ Len(s) \in Nat /\ DOMAIN s = 1..Len(s)
           /\ \A i \in 1..Len(s) : s[i] \in Elements(s) /\ s[i] \in S
           /\ \A x \in Elements(s) : \E i \in 1..Len(s) : x = s[i]
<1>1. Len(s) \in Nat /\ DOMAIN s = 1..Len(s) /\ \A i \in 1..Len(s) : s[i] \in S
    OBVIOUS
<1> QED
    BY <1>1, Zenon DEF Elements

LEMMA AppendRight ==
    ASSUME NEW S, NEW s \in Seq(S), NEW x \in S, Distinct(s), x \notin Elements(s)
    PROVE  /\ Append(s, x) \in Seq(S) /\ Distinct(Append(s, x)) /\ Append(s, x) # <<>>
           /\ Elements(Append(s, x)) = Elements(s) \cup {x}
<1> DEFINE r == Append(s, x)
<1>1. /\ r \in Seq(S) /\ Len(s) \in Nat /\ Len(r) = Len(s) + 1 /\ r[Len(s) + 1] = x
      /\ \A i \in 1..Len(s) : r[i] = s[i]
    OBVIOUS
<1> HIDE DEF r
<1>2. \A i \in 1..Len(r) : i \in 1..Len(s) \/ i = Len(s) + 1
    BY ONLY <1>1
<1>3. /\ \A i \in 1..Len(s) : i \in 1..Len(r) /\ r[i] = s[i]
      /\ Len(s) + 1 \in 1..Len(r) /\ ~(Len(s) + 1 \in 1..Len(s))
    BY ONLY <1>1
<1>4. Elements(r) = Elements(s) \cup {x}
    BY ONLY <1>1, <1>2, <1>3, Zenon DEF Elements
<1>5. Distinct(r)
  <2>1. \A i \in 1..Len(s) : s[i] # x
      BY DEF Elements
  <2> QED
      BY <1>1, <1>2, <1>3, <2>1, Zenon DEF Distinct
<1>6. r # <<>>
    BY <1>1
<1> QED
    BY <1>1, <1>4, <1>5, <1>6, Zenon DEF r

LEMMA JoinRight ==
    ASSUME NEW S, NEW p \in Seq(S), NEW q \in Seq(S), Distinct(p), Distinct(q),
           Elements(p) \cap Elements(q) = {}
    PROVE  /\ p \o q \in Seq(S) /\ Distinct(p \o q)
           /\ Elements(p \o q) = Elements(p) \cup Elements(q)
<1> DEFINE r == p \o q
           l == Len(p)
           n == Len(q)
<1>1. /\ r \in Seq(S) /\ l \in Nat /\ n \in Nat /\ Len(r) = l + n
      /\ \A i \in 1..l : r[i] = p[i]
      /\ \A i \in 1..n : r[l + i] = q[i]
    OBVIOUS
<1>2. Len(p) = l /\ Len(q) = n
    OBVIOUS
<1> HIDE DEF r, l, n
<1>3. /\ \A i \in 1..l : i \in 1..(l + n) /\ r[i] = p[i]
      /\ \A i \in 1..n : l + i \in 1..(l + n) /\ r[l + i] = q[i]
      /\ \A i, j \in 1..n : l + i = l + j => i = j
      /\ \A k \in 1..(l + n) : k \in 1..l \/ \E i \in 1..n : k = l + i
  <2>1. ASSUME NEW k \in 1..(l + n), ~(k \in 1..l) PROVE \E i \in 1..n : k = l + i
    <3>1. k - l \in 1..n /\ k = l + (k - l)
        BY ONLY <1>1, <2>1
    <3> QED
        BY <3>1
  <2>2. /\ \A i \in 1..l : i \in 1..(l + n) /\ r[i] = p[i]
        /\ \A i \in 1..n : l + i \in 1..(l + n) /\ r[l + i] = q[i]
        /\ \A i, j \in 1..n : l + i = l + j => i = j
      BY ONLY <1>1
  <2> QED
      BY ONLY <2>1, <2>2
<1>4. /\ Elements(r) = {r[k] : k \in 1..(l + n)}
      /\ Elements(p) = {p[i] : i \in 1..l} /\ Elements(q) = {q[i] : i \in 1..n}
    BY <1>1, <1>2 DEF Elements
<1>5. Elements(r) = Elements(p) \cup Elements(q)
    BY ONLY <1>3, <1>4
<1>6. Distinct(r)
  <2> SUFFICES ASSUME NEW i \in 1..(l + n), NEW j \in 1..(l + n), r[i] = r[j] PROVE i = j
      BY <1>1, Zenon DEF Distinct
  <2>1. \A a \in 1..l, b \in 1..n : p[a] # q[b]
      BY <1>4, Zenon
  <2>2. CASE i \in 1..l /\ j \in 1..l
      BY <1>2, <1>3, <2>2 DEF Distinct
  <2>3. CASE i \in 1..l /\ \E b \in 1..n : j = l + b
      BY <1>3, <2>1, <2>3
  <2>4. CASE j \in 1..l /\ \E b \in 1..n : i = l + b
      BY <1>3, <2>1, <2>4
  <2>5. CASE (\E b \in 1..n : i = l + b) /\ \E b \in 1..n : j = l + b
    <3>1. PICK a \in 1..n : i = l + a
        BY <2>5
    <3>2. PICK b \in 1..n : j = l + b
        BY <2>5
    <3>3. q[a] = q[b]
        BY <1>3, <3>1, <3>2, Zenon
    <3> QED
        BY <1>2, <3>1, <3>2, <3>3, Zenon DEF Distinct
  <2> QED
      BY <1>3, <2>2, <2>3, <2>4, <2>5, Zenon
<1> QED
    BY <1>1, <1>5, <1>6 DEF r

LEMMA TailRight ==
    ASSUME NEW S, NEW s \in Seq(S), s # <<>>, Distinct(s)
    PROVE  /\ Tail(s) \in Seq(S) /\ Distinct(Tail(s)) /\ Head(s) \in Elements(s) /\ Head(s) \in S
           /\ Elements(Tail(s)) = Elements(s) \ {Head(s)}
<1> DEFINE r == Tail(s)
<1>1. /\ r \in Seq(S) /\ Len(s) \in Nat \ {0} /\ Len(r) = Len(s) - 1 /\ s[1] = Head(s)
      /\ \A i \in 1..Len(r) : r[i] = s[i + 1]
    OBVIOUS
<1> HIDE DEF r
<1>2. /\ \A i \in 1..Len(r) : i + 1 \in 1..Len(s) /\ i + 1 # 1
      /\ \A k \in 1..Len(s) : k = 1 \/ \E i \in 1..Len(r) : k = i + 1
      /\ 1 \in 1..Len(s) /\ \A i, j \in 1..Len(r) : i + 1 = j + 1 => i = j
  <2>1. ASSUME NEW k \in 1..Len(s), k # 1 PROVE \E i \in 1..Len(r) : k = i + 1
    <3>1. k - 1 \in 1..Len(r) /\ k = (k - 1) + 1
        BY ONLY <1>1, <2>1
    <3> QED
        BY <3>1
  <2>2. /\ \A i \in 1..Len(r) : i + 1 \in 1..Len(s) /\ i + 1 # 1
        /\ 1 \in 1..Len(s) /\ \A i, j \in 1..Len(r) : i + 1 = j + 1 => i = j
      BY ONLY <1>1
  <2> QED
      BY <2>1, <2>2
<1>3. Distinct(r)
  <2>1. ASSUME NEW i \in 1..Len(r), NEW j \in 1..Len(r), r[i] = r[j] PROVE i = j
    <3>1. s[i + 1] = s[j + 1] /\ i + 1 \in 1..Len(s) /\ j + 1 \in 1..Len(s)
        BY <1>1, <1>2, <2>1, Zenon
    <3>2. i + 1 = j + 1
        BY <3>1, Zenon DEF Distinct
    <3> QED
        BY <1>2, <2>1, <3>2, Zenon
  <2> QED
      BY <2>1, Zenon DEF Distinct
<1>4. \A i \in 1..Len(r) : r[i] # s[1]
    BY <1>1, <1>2, Zenon DEF Distinct
<1>5. Elements(r) = Elements(s) \ {s[1]}
  <2>1. ASSUME NEW x \in Elements(r) PROVE x \in Elements(s) /\ x # s[1]
    <3>1. PICK i \in 1..Len(r) : x = r[i]
        BY DEF Elements
    <3>2. x = s[i + 1] /\ i + 1 \in 1..Len(s)
        BY <1>1, <1>2, <3>1
    <3> QED
        BY <1>4, <3>1, <3>2, Zenon DEF Elements
  <2>2. ASSUME NEW x \in Elements(s), x # s[1] PROVE x \in Elements(r)
    <3>1. PICK k \in 1..Len(s) : x = s[k]
        BY DEF Elements
    <3>2. PICK i \in 1..Len(r) : k = i + 1
        BY <1>2, <2>2, <3>1, Zenon
    <3> QED
        BY <1>1, <3>1, <3>2, Zenon DEF Elements
  <2> QED
      BY <2>1, <2>2, Zenon
<1>6. s[1] \in Elements(s) /\ s[1] \in S
    BY <1>1, <1>2 DEF Elements
<1> QED
    BY <1>1, <1>3, <1>5, <1>6, Zenon DEF r

\* A list after the removal of its i-th element.
LEMMA RemoveRight ==
    ASSUME NEW S, NEW s \in Seq(S), Distinct(s), NEW i \in 1..Len(s)
    PROVE  /\ RemoveAt(s, i) \in Seq(S) /\ Distinct(RemoveAt(s, i))
           /\ Elements(RemoveAt(s, i)) = Elements(s) \ {s[i]} /\ s[i] \in Elements(s)
<1> DEFINE a == SubSeq(s, 1, i - 1)
           b == SubSeq(s, i + 1, Len(s))
<1>1. /\ a \in Seq(S) /\ Len(a) = i - 1 /\ \A k \in 1..(i - 1) : a[k] = s[k]
    OBVIOUS
<1>2. /\ b \in Seq(S) /\ Len(b) = Len(s) - i /\ \A k \in 1..(Len(s) - i) : b[k] = s[i + k]
    OBVIOUS
<1>3. RemoveAt(s, i) = a \o b
    BY DEF RemoveAt
<1> HIDE DEF a, b
<1> DEFINE n == Len(s)
<1>4. n \in Nat /\ i \in 1..n
    OBVIOUS
<1>5. /\ Elements(a) = {s[k] : k \in 1..(i - 1)}
      /\ Elements(b) = {s[i + k] : k \in 1..(n - i)}
      /\ Elements(s) = {s[k] : k \in 1..n}
    BY <1>1, <1>2, Zenon DEF Elements
<1>6. \A j, k \in 1..n : s[j] = s[k] => j = k
    BY DEF Distinct
<1> HIDE DEF n
<1>7. /\ \A k \in 1..(i - 1) : k \in 1..n /\ k # i
      /\ \A k \in 1..(n - i) : i + k \in 1..n /\ i + k # i
      /\ \A j \in 1..(i - 1), k \in 1..(n - i) : j # i + k
      /\ \A j, k \in 1..(n - i) : i + j = i + k => j = k
      /\ \A k \in 1..n : k # i => k \in 1..(i - 1) \/ \E j \in 1..(n - i) : k = i + j
  <2>1. ASSUME NEW k \in 1..n, k # i, ~(k \in 1..(i - 1)) PROVE \E j \in 1..(n - i) : k = i + j
    <3>1. k - i \in 1..(n - i) /\ k = i + (k - i)
        BY ONLY <1>4, <2>1
    <3> QED
        BY <3>1
  <2>2. /\ \A k \in 1..(i - 1) : k \in 1..n /\ k # i
        /\ \A k \in 1..(n - i) : i + k \in 1..n /\ i + k # i
        /\ \A j \in 1..(i - 1), k \in 1..(n - i) : j # i + k
        /\ \A j, k \in 1..(n - i) : i + j = i + k => j = k
      BY ONLY <1>4
  <2> QED
      BY ONLY <2>1, <2>2
<1>8. Distinct(a)
    BY ONLY <1>1, <1>6, <1>7, Zenon DEF Distinct
<1>9. Distinct(b)
  <2>1. Len(b) = n - i /\ \A k \in 1..(n - i) : b[k] = s[i + k]
      BY <1>2, Zenon DEF n
  <2>2. ASSUME NEW j \in 1..(n - i), NEW k \in 1..(n - i), b[j] = b[k] PROVE j = k
    <3>1. s[i + j] = s[i + k]
        BY ONLY <2>1, <2>2, Zenon
    <3>2. i + j \in 1..n /\ i + k \in 1..n
        BY ONLY <1>7, <2>2, Zenon
    <3>3. i + j = i + k
        BY ONLY <1>6, <3>1, <3>2, Zenon
    <3> QED
        BY ONLY <1>7, <2>2, <3>3, Zenon
  <2> QED
      BY ONLY <2>1, <2>2, Zenon DEF Distinct
<1>10. Elements(a) \cap Elements(b) = {}
    BY ONLY <1>5, <1>6, <1>7
<1>11. Elements(a) \cup Elements(b) = Elements(s) \ {s[i]}
  <2>1. ASSUME NEW x \in Elements(a) \cup Elements(b) PROVE x \in Elements(s) \ {s[i]}
      BY <1>4, <1>5, <1>6, <1>7, <2>1
  <2>2. ASSUME NEW x \in Elements(s) \ {s[i]} PROVE x \in Elements(a) \cup Elements(b)
    <3>1. PICK k \in 1..n : x = s[k]
        BY <1>5, <2>2
    <3>2. k \in 1..(i - 1) \/ \E j \in 1..(n - i) : k = i + j
        BY <1>7, <2>2, <3>1, Zenon
    <3> QED
        BY <1>5, <3>1, <3>2, Zenon
  <2> QED
      BY <2>1, <2>2, Zenon
<1>12. /\ a \o b \in Seq(S) /\ Distinct(a \o b) /\ Elements(a \o b) = Elements(a) \cup Elements(b)
    BY <1>1, <1>2, <1>8, <1>9, <1>10, JoinRight
<1> QED
    BY <1>3, <1>4, <1>5, <1>11, <1>12, Zenon

LEMMA FrontRight ==
    ASSUME NEW S, NEW s \in Seq(S), Distinct(s), s # <<>>
    PROVE  /\ Front(s) \in Seq(S) /\ Distinct(Front(s)) /\ Last(s) \in Elements(s) /\ Last(s) \in S
           /\ Elements(Front(s)) = Elements(s) \ {Last(s)}
<1> DEFINE r == Front(s)
<1>1. Len(s) \in Nat \ {0} /\ Last(s) = s[Len(s)]
    BY DEF Last
<1>2. /\ r \in Seq(S) /\ Len(r) = Len(s) - 1 /\ \A k \in 1..(Len(s) - 1) : r[k] = s[k]
  <2> DEFINE n == Len(s) - 1
  <2>1. n \in Nat /\ n <= Len(s) /\ Front(s) = SubSeq(s, 1, n)
      BY <1>1 DEF Front
  <2> HIDE DEF n
  <2>2. /\ SubSeq(s, 1, n) \in Seq(S) /\ Len(SubSeq(s, 1, n)) = n
        /\ \A k \in 1..n : SubSeq(s, 1, n)[k] = s[k]
      BY <2>1
  <2> QED
      BY <2>1, <2>2 DEF n
<1> HIDE DEF r
<1>3. /\ \A k \in 1..Len(s) : k \in 1..Len(r) \/ k = Len(s)
      /\ \A k \in 1..Len(r) : k \in 1..Len(s) /\ k # Len(s) /\ r[k] = s[k]
      /\ Len(s) \in 1..Len(s)
    BY ONLY <1>1, <1>2
<1>4. Distinct(r) /\ \A k \in 1..Len(r) : r[k] # Last(s)
    BY <1>1, <1>3, Zenon DEF Distinct
<1>5. Elements(r) = Elements(s) \ {Last(s)}
    BY ONLY <1>1, <1>3, <1>4, Zenon DEF Elements
<1>6. Last(s) \in Elements(s) /\ Last(s) \in S
    BY <1>1, <1>3 DEF Elements
<1> QED
    BY <1>2, <1>4, <1>5, <1>6, Zenon DEF r

LEMMA ConsRight ==
    ASSUME NEW S, NEW s \in Seq(S), NEW x \in S, Distinct(s), x \notin Elements(s)
    PROVE  /\ <<x>> \o s \in Seq(S) /\ Distinct(<<x>> \o s)
           /\ Elements(<<x>> \o s) = Elements(s) \cup {x}
<1>1. <<x>> \in Seq(S) /\ Distinct(<<x>>) /\ Elements(<<x>>) = {x}
    BY DEF Distinct, Elements
<1>2. Elements(<<x>>) \cap Elements(s) = {}
    BY <1>1
<1> HIDE DEF Elements, Distinct
<1> DEFINE l == <<x>>
<1>3. l \in Seq(S) /\ Distinct(l) /\ Elements(l) = {x} /\ Elements(l) \cap Elements(s) = {}
    BY <1>1, <1>2
<1> HIDE DEF l
<1>4. l \o s \in Seq(S) /\ Distinct(l \o s) /\ Elements(l \o s) = Elements(l) \cup Elements(s)
    BY <1>3, JoinRight
<1> QED
    BY <1>3, <1>4 DEF l

LEMMA PlaceRight ==
    ASSUME NEW S, NEW s \in Seq(S), NEW x \in Elements(s)
    PROVE  PlaceOf(x, s) \in 1..Len(s) /\ s[PlaceOf(x, s)] = x
<1>1. \E i \in DOMAIN s : s[i] = x
    BY DEF Elements
<1> QED
    BY <1>1 DEF PlaceOf

LEMMA TouchRight ==
    ASSUME NEW S, NEW s \in Seq(S), Distinct(s), NEW i \in 1..Len(s)
    PROVE  Touched(s, i) \in Seq(S) /\ Distinct(Touched(s, i)) /\ Elements(Touched(s, i)) = Elements(s)
<1>1. /\ RemoveAt(s, i) \in Seq(S) /\ Distinct(RemoveAt(s, i))
      /\ Elements(RemoveAt(s, i)) = Elements(s) \ {s[i]} /\ s[i] \in Elements(s) /\ s[i] \in S
    BY RemoveRight
<1> DEFINE x == s[i]
           q == RemoveAt(s, i)
<1>2. q \in Seq(S) /\ Distinct(q) /\ Elements(q) = Elements(s) \ {x} /\ x \in Elements(s) /\ x \in S
    BY <1>1
<1>3. Touched(s, i) = <<x>> \o q
    BY DEF Touched
<1> HIDE DEF x, q
<1>4. <<x>> \o q \in Seq(S) /\ Distinct(<<x>> \o q) /\ Elements(<<x>> \o q) = Elements(q) \cup {x}
    BY <1>2, ConsRight
<1> QED
    BY <1>2, <1>3, <1>4, Zenon

-----------------------------------------------------------------------------
(* The TLB                                                                 *)

LEMMA TlbTouched ==
    ASSUME NEW P, NEW pt, NEW t, TlbRight(P, pt, t), NEW i \in 1..Len(t)
    PROVE  TlbRight(P, pt, Touched(t, i))
    BY TouchRight, Zenon DEF TlbRight

LEMMA TlbInserted ==
    ASSUME NEW P, NEW pt, NEW t, TlbRight(P, pt, t), NEW pg \in P, pt[pg] \in Nat,
           \A i \in 1..Len(t) : t[i].page # pg
    PROVE  TlbRight(P, pt, Inserted(t, [page |-> pg, frame |-> pt[pg]]))
<1> DEFINE e == [page |-> pg, frame |-> pt[pg]]
           s == IF Len(t) < TlbSize THEN t ELSE Front(t)
           E == [page : P, frame : Nat]
<1>1. /\ t \in Seq(E) /\ Distinct(t) /\ \A x \in Elements(t) : pt[x.page] = x.frame /\ x # e
    BY DEF TlbRight, Elements
<1>2. Len(t) \in Nat /\ (~(Len(t) < TlbSize) => t # <<>>)
    BY <1>1, ConstantsAssumption
<1>3. e \in E /\ pt[e.page] = e.frame
    OBVIOUS
<1>4. Inserted(t, e) = <<e>> \o s
    BY Zenon DEF Inserted
<1> HIDE DEF E, e
<1>5. s \in Seq(E) /\ Distinct(s) /\ Elements(s) \subseteq Elements(t)
    BY <1>1, <1>2, FrontRight, Zenon
<1> HIDE DEF s
<1>6. e \notin Elements(s)
    BY <1>1, <1>5, Zenon
<1>7. /\ <<e>> \o s \in Seq(E) /\ Distinct(<<e>> \o s) /\ Elements(<<e>> \o s) = Elements(s) \cup {e}
    BY <1>3, <1>5, <1>6, ConsRight
<1>8. \A x \in Elements(<<e>> \o s) : pt[x.page] = x.frame
    BY <1>1, <1>3, <1>5, <1>7, Zenon
<1>9. TlbRight(P, pt, Inserted(t, e))
    BY <1>4, <1>7, <1>8, Zenon DEF TlbRight, E
<1> QED
    BY <1>9, Zenon DEF e

\* A page that is unmapped leaves the TLB.
LEMMA TlbInvalidated ==
    ASSUME NEW P, NEW pt \in [P -> Nat \cup {NoFrame}], NEW t, TlbRight(P, pt, t), NEW pg \in P
    PROVE  TlbRight(P, [pt EXCEPT ![pg] = NoFrame], invalidate(t, pg))
<1> DEFINE E == [page : P, frame : Nat]
           I == {j \in DOMAIN t : t[j].page = pg}
<1>1. /\ t \in Seq(E) /\ Distinct(t) /\ \A x \in Elements(t) : pt[x.page] = x.frame
    BY DEF TlbRight
<1>2. DOMAIN t = 1..Len(t) /\ \A i \in 1..Len(t) : t[i] \in E /\ t[i] \in Elements(t)
    BY <1>1, ElementsIn, Zenon
<1>3. \A x \in Elements(t) : x \in E
    BY <1>1, ElementsIn, Zenon
<1>4. CASE I = {}
  <2>1. invalidate(t, pg) = t
      BY <1>4, Zenon DEF invalidate
  <2>2. \A x \in Elements(t) : x.page # pg /\ x.page \in P
      BY <1>2, <1>3, <1>4, Zenon DEF Elements
  <2> QED
      BY <1>1, <2>1, <2>2, Zenon DEF TlbRight
<1>5. CASE I # {}
  <2>1. PICK i \in 1..Len(t) : t[i].page = pg /\ invalidate(t, pg) = RemoveAt(t, i)
      BY <1>2, <1>5, Zenon DEF invalidate
  <2>2. /\ RemoveAt(t, i) \in Seq(E) /\ Distinct(RemoveAt(t, i))
        /\ Elements(RemoveAt(t, i)) = Elements(t) \ {t[i]}
      BY <1>1, RemoveRight, Zenon
  <2>3. \A x \in Elements(t) : x.page = pg => x = t[i]
    <3>1. t[i] \in E /\ t[i].frame = pt[pg]
        BY <1>1, <1>2, <2>1, Zenon
    <3>2. ASSUME NEW x \in E, x.page = pg, x.frame = pt[pg] PROVE x = t[i]
        BY <2>1, <3>1, <3>2
    <3> QED
        BY <1>1, <1>3, <3>2, Zenon
  <2>4. \A x \in Elements(t) \ {t[i]} : x.page # pg /\ x.page \in P /\ pt[x.page] = x.frame
      BY <1>1, <1>3, <2>3, Zenon
  <2> QED
      BY <2>1, <2>2, <2>4 DEF TlbRight
<1> QED
    BY <1>4, <1>5, Zenon

\* A page that is mapped was not in the TLB.
LEMMA TlbMapped ==
    ASSUME NEW P, NEW pt \in [P -> Nat \cup {NoFrame}], NEW t, TlbRight(P, pt, t), NEW pg \in P,
           pt[pg] = NoFrame, NEW x
    PROVE  TlbRight(P, [pt EXCEPT ![pg] = x], t)
<1>1. \A e \in Elements(t) : e \in [page : P, frame : Nat] /\ pt[e.page] = e.frame
    BY ElementsIn, Zenon DEF TlbRight
<1>2. \A e \in Elements(t) : e.page # pg /\ e.page \in P
    BY <1>1 DEF NoFrame
<1> QED
    BY <1>1, <1>2 DEF TlbRight

-----------------------------------------------------------------------------
(* Page table and frames                                                   *)

LEMMA Unmapped ==
    ASSUME NEW P, NEW pt, MapRight(P, pt), NEW pg \in P
    PROVE  MapRight(P, [pt EXCEPT ![pg] = NoFrame])
    BY DEF MapRight, NoFrame

LEMMA Mapped ==
    ASSUME NEW P, NEW pt, MapRight(P, pt), NEW pg \in P, NEW x \in Nat, \A p \in P : pt[p] # x
    PROVE  MapRight(P, [pt EXCEPT ![pg] = x])
    BY Zenon DEF MapRight, NoFrame

\* The frame of a page that is swapped out is free.
LEMMA FrameFreed ==
    ASSUME NEW P, NEW N \in Nat, NEW pt, NEW free, NEW next, MapRight(P, pt),
           FramesRight(P, N, pt, free, next), NEW pg \in P, pt[pg] # NoFrame
    PROVE  FramesRight(P, N, [pt EXCEPT ![pg] = NoFrame], free \cup {pt[pg]}, pt[pg])
<1> DEFINE q == [pt EXCEPT ![pg] = NoFrame]
           F == 0..(N - 1)
<1>1. /\ pt \in [P -> Nat \cup {NoFrame}] /\ pt[pg] \in F /\ NoFrame \notin F
      /\ \A p \in P : pt[p] # NoFrame => pt[p] \in F
      /\ \A p \in P : p # pg => pt[p] # pt[pg]
    BY DEF MapRight, FramesRight, NoFrame
<1>2. \A p \in P : q[p] = IF p = pg THEN NoFrame ELSE pt[p]
    BY <1>1, Zenon
<1>3. free = F \ {pt[p] : p \in P}
    BY Zenon DEF FramesRight
<1> HIDE DEF F, q
<1>4. free \cup {pt[pg]} = F \ {q[p] : p \in P}
  <2>1. ASSUME NEW x \in F, x \notin {q[p] : p \in P}, x # pt[pg] PROVE x \notin {pt[p] : p \in P}
      BY <1>2, <2>1, Zenon
  <2>2. pt[pg] \notin {q[p] : p \in P}
      BY <1>1, <1>2, Zenon
  <2>3. ASSUME NEW x \in F, x \in {q[p] : p \in P} PROVE x \in {pt[p] : p \in P}
      BY <1>1, <1>2, <2>3, Zenon
  <2> QED
      BY <1>1, <1>3, <2>1, <2>2, <2>3, Zenon
<1>5. \A p \in P : q[p] # NoFrame => q[p] \in F
    BY <1>1, <1>2, Zenon
<1> QED
    BY <1>1, <1>4, <1>5, Zenon DEF FramesRight, F, q

\* The frame a page is brought into is free no more.
LEMMA FrameTaken ==
    ASSUME NEW P, NEW N \in Nat, NEW pt, NEW free, NEW next, MapRight(P, pt),
           FramesRight(P, N, pt, free, next), NEW pg \in P, pt[pg] = NoFrame, NEW x \in free
    PROVE  /\ FramesRight(P, N, [pt EXCEPT ![pg] = x], free \ {x}, x)
           /\ x \in Nat /\ \A p \in P : pt[p] # x
<1> DEFINE q == [pt EXCEPT ![pg] = x]
           F == 0..(N - 1)
<1>1. /\ pt \in [P -> Nat \cup {NoFrame}] /\ NoFrame \notin F
      /\ \A p \in P : pt[p] # NoFrame => pt[p] \in F
      /\ free = F \ {pt[p] : p \in P}
    BY DEF MapRight, FramesRight, NoFrame
<1>2. x \in F /\ \A p \in P : pt[p] # x
    BY <1>1, Zenon
<1>3. \A p \in P : q[p] = IF p = pg THEN x ELSE pt[p]
    BY <1>1
<1>4. x \in Nat
    BY <1>2
<1> HIDE DEF F, q
<1>5. free \ {x} = F \ {q[p] : p \in P}
  <2>1. ASSUME NEW y \in F, y # x, y \in {pt[p] : p \in P} PROVE y \in {q[p] : p \in P}
      BY <1>1, <1>3, <2>1, Zenon
  <2>2. ASSUME NEW y \in {q[p] : p \in P} PROVE y = x \/ y \in {pt[p] : p \in P}
      BY <1>3, Zenon
  <2>3. x \in {q[p] : p \in P}
      BY <1>3, Zenon
  <2> QED
      BY <1>1, <2>1, <2>2, <2>3, Zenon
<1>6. \A p \in P : q[p] # NoFrame => q[p] \in F
    BY <1>1, <1>2, <1>3, Zenon
<1> QED
    BY <1>2, <1>4, <1>5, <1>6, Zenon DEF FramesRight, F, q

LEMMA Remainder ==
    ASSUME NEW N \in Nat \ {0}, NEW k \in Nat, k < 2 * N
    PROVE  k % N = IF k < N THEN k ELSE k - N
    BY SMTT(30)

LEMMA LeastOf ==
    ASSUME NEW D, D \subseteq Nat, D # {}
    PROVE  \E d \in D : \A e \in D : ~(e < d)
<1> DEFINE R == OpToRel(<, Nat)
<1>1. PICK d \in D : \A e \in D : ~(<<e, d>> \in R)
  <2>1. IsWellFoundedOn(R, Nat)
      BY NatLessThanWellFounded, Zenon
  <2> HIDE DEF R
  <2> QED
      BY <2>1, WFMin, Zenon
<1>2. \A e \in D : <<e, d>> \in R <=> e < d
    BY DEF OpToRel
<1> QED
    BY <1>1, <1>2, Zenon

\* The search round m_free_frames finds a free frame when there is one.
LEMMA FrameFound ==
    ASSUME ~NonSwap, NumFrames \in Nat \ {0}, frame_to_allocate \in 0..(NumFrames - 1),
           free_frames \subseteq 0..(NumFrames - 1), free_frames # {}
    PROVE  FrameToAllocate \in free_frames
<1> DEFINE N == NumFrames
           a == frame_to_allocate
           at(d) == (a + d) % N
           D == {d \in 0..(N - 1) : at(d) \in free_frames}
<1>1. PICK x \in free_frames : x \in 0..(N - 1)
    BY Zenon
<1>2. \E d \in 0..(N - 1) : at(d) = x
  <2>1. CASE a <= x
    <3>1. x - a \in 0..(N - 1) /\ a + (x - a) = x /\ x \in Nat /\ x < N /\ x < 2 * N
        BY <1>1, <2>1
    <3>2. (a + (x - a)) % N = x
        BY <3>1, Remainder, Zenon
    <3> QED
        BY <3>1, <3>2, Zenon
  <2>2. CASE x < a
    <3>1. x - a + N \in 0..(N - 1) /\ a + (x - a + N) = x + N /\ x + N \in Nat /\ ~(x + N < N)
          /\ x + N < 2 * N /\ x + N - N = x
        BY <1>1, <2>2
    <3>2. (a + (x - a + N)) % N = x
        BY <3>1, Remainder
    <3> QED
        BY <3>1, <3>2, Zenon
  <2> QED
      BY <1>1, <2>1, <2>2
<1>3. D # {} /\ D \subseteq Nat
  <2>1. PICK k \in 0..(N - 1) : at(k) = x
      BY <1>2
  <2>2. k \in D
      BY <2>1, Zenon
  <2>3. \A d \in 0..(N - 1) : d \in Nat
      OBVIOUS
  <2> QED
      BY <2>2, <2>3, Zenon
<1>4. PICK d \in D : \A e \in D : ~(e < d)
    BY <1>3, LeastOf, Zenon
<1>5. \A e \in 0..(d - 1) : e \in 0..(N - 1) /\ e < d
    OBVIOUS
<1>6. at(d) \in free_frames /\ \A e \in 0..(d - 1) : at(e) \notin free_frames
    BY <1>4, <1>5, Zenon
<1>7. \E k \in 0..(N - 1) : at(k) \in free_frames /\ \A e \in 0..(k - 1) : at(e) \notin free_frames
    BY <1>6, Zenon
<1> QED
    BY <1>7, Zenon DEF FrameToAllocate

-----------------------------------------------------------------------------
(* The replacement unit                                                    *)

LEMMA NodesUpdated ==
    ASSUME NEW P, NEW N \in Nat, NEW pt, NEW r, NodesRight(N, r), KeysRight(P, pt, r),
           NEW pg \in P, pt[pg] # NoFrame
    PROVE  /\ pg.pn \in DOMAIN r.table
           /\ NodesRight(N, ru_update(r, pg.pn)) /\ KeysRight(P, pt, ru_update(r, pg.pn))
<1>1. PICK n \in Elements(r.list) : r.key[n] = pg.pn
    BY Zenon DEF KeysRight
<1>2. pg.pn \in DOMAIN r.table /\ r.table[pg.pn] = n
    BY <1>1, Zenon DEF NodesRight
<1> DEFINE l == Touched(r.list, PlaceOf(n, r.list))
<1>3. r.list \in Seq(1..N) /\ Distinct(r.list)
    BY Zenon DEF NodesRight
<1>4. l \in Seq(1..N) /\ Distinct(l) /\ Elements(l) = Elements(r.list)
    BY <1>3, PlaceRight, TouchRight, Zenon
<1>5. ru_update(r, pg.pn) = [list |-> l, free |-> r.free, key |-> r.key, table |-> r.table]
  <2>1. \A a, b, c, d, x : [[list |-> a, free |-> b, key |-> c, table |-> d] EXCEPT !.list = x]
                             = [list |-> x, free |-> b, key |-> c, table |-> d]
      OBVIOUS
  <2>2. ru_update(r, pg.pn) = [r EXCEPT !.list = l]
      BY <1>2, Zenon DEF ru_update
  <2>3. r = [list |-> r.list, free |-> r.free, key |-> r.key, table |-> r.table]
      BY Zenon DEF NodesRight
  <2> HIDE DEF l
  <2> QED
      BY <2>1, <2>2, <2>3, Zenon
<1> HIDE DEF l
<1>6. NodesRight(N, ru_update(r, pg.pn))
    BY <1>4, <1>5 DEF NodesRight
<1>7. KeysRight(P, pt, ru_update(r, pg.pn))
    BY <1>4, <1>5 DEF KeysRight
<1> QED
    BY <1>2, <1>6, <1>7, Zenon

\* The least recently used node is detached and its page unmapped.
LEMMA NodeDetached ==
    ASSUME NEW P, NEW N \in Nat, NEW pt \in [P -> Nat \cup {NoFrame}], NEW r,
           NodesRight(N, r), KeysRight(P, pt, r), r.list # <<>>, \A p \in P : p.pn \in Nat,
           NEW pg \in P, pt[pg] # NoFrame, pg.pn = r.key[Last(r.list)]
    PROVE  /\ NodesRight(N, ru_getVictim(r))
           /\ KeysRight(P, [pt EXCEPT ![pg] = NoFrame], ru_getVictim(r))
<1> DEFINE n == Last(r.list)
           l == Front(r.list)
           f == Append(r.free, n)
           key == [r.key EXCEPT ![n] = NoFrame]
           D == DOMAIN r.table \ {NoFrame}
           table == [x \in D |-> r.table[x]]
           v == [list |-> l, free |-> f, key |-> key, table |-> table]
           q == [pt EXCEPT ![pg] = NoFrame]
<1>1. ru_getVictim(r) = v
    BY Zenon DEF ru_getVictim
<1>2. /\ r.list \in Seq(1..N) /\ Distinct(r.list) /\ r.free \in Seq(1..N) /\ Distinct(r.free)
      /\ Elements(r.list) \cap Elements(r.free) = {}
      /\ Elements(r.list) \cup Elements(r.free) = 1..N
      /\ r.key \in [1..N -> Nat \cup {NoFrame}] /\ r.table \in [DOMAIN r.table -> 1..N]
      /\ \A m \in Elements(r.list) : r.key[m] \in DOMAIN r.table /\ r.table[r.key[m]] = m
    BY Zenon DEF NodesRight
<1>3. /\ l \in Seq(1..N) /\ Distinct(l) /\ n \in Elements(r.list) /\ n \in 1..N
      /\ Elements(l) = Elements(r.list) \ {n}
    BY <1>2, FrontRight, Zenon
<1> HIDE DEF n, l
<1>4. f \in Seq(1..N) /\ Distinct(f) /\ Elements(f) = Elements(r.free) \cup {n}
    BY <1>2, <1>3, AppendRight
<1>5. /\ key \in [1..N -> Nat \cup {NoFrame}] /\ \A m \in 1..N : m # n => key[m] = r.key[m]
    BY <1>2, Zenon
<1>6. table \in [D -> 1..N] /\ DOMAIN table = D /\ \A x \in D : table[x] = r.table[x]
    BY <1>2, Zenon
<1>7. \A p \in P : q[p] = IF p = pg THEN NoFrame ELSE pt[p]
    BY Zenon
<1>8. \A m \in Elements(r.list) : \E p \in P : pt[p] # NoFrame /\ p.pn = r.key[m]
    BY Zenon DEF KeysRight
<1> HIDE DEF f, key, D, table, q
<1>9. \A m \in Elements(l) : key[m] = r.key[m] /\ m \in Elements(r.list) /\ m # n
    BY <1>2, <1>3, <1>5, Zenon
<1>10. \A m \in Elements(l) : key[m] \in D /\ table[key[m]] = m
  <2> TAKE m \in Elements(l)
  <2>1. r.key[m] \in DOMAIN r.table /\ r.table[r.key[m]] = m
      BY <1>2, <1>9, Zenon
  <2>2. r.key[m] # NoFrame
      BY <1>8, <1>9 DEF NoFrame
  <2> QED
      BY <1>6, <1>9, <2>1, <2>2, Zenon DEF D
<1>11. /\ Elements(l) \cap Elements(f) = {} /\ Elements(l) \cup Elements(f) = 1..N
    BY <1>2, <1>3, <1>4, Zenon
<1>12. NodesRight(N, v)
    BY <1>3, <1>4, <1>5, <1>6, <1>10, <1>11, Zenon DEF NodesRight
<1>13. \A m \in Elements(l) : \E p \in P : q[p] # NoFrame /\ p.pn = key[m]
  <2> TAKE m \in Elements(l)
  <2>1. PICK p \in P : pt[p] # NoFrame /\ p.pn = r.key[m]
      BY <1>8, <1>9, Zenon
  <2>2. p # pg
      BY <1>2, <1>3, <1>9, <2>1 DEF n
  <2> QED
      BY <1>7, <1>9, <2>1, <2>2, Zenon
<1>14. \A p \in P : q[p] # NoFrame => \E m \in Elements(l) : key[m] = p.pn
  <2> SUFFICES ASSUME NEW p \in P, q[p] # NoFrame PROVE \E m \in Elements(l) : key[m] = p.pn
      BY Zenon
  <2>1. p # pg /\ pt[p] # NoFrame
      BY <1>7, Zenon
  <2>2. PICK m \in Elements(r.list) : r.key[m] = p.pn
      BY <2>1, Zenon DEF KeysRight
  <2>3. m # n
      BY <2>1, <2>2, Zenon DEF KeysRight, n
  <2> QED
      BY <1>3, <1>9, <2>2, <2>3, Zenon
<1>15. \A p, o \in P : q[p] # NoFrame /\ q[o] # NoFrame /\ p.pn = o.pn => p = o
    BY <1>7, Zenon DEF KeysRight
<1>16. KeysRight(P, q, v)
    BY <1>13, <1>14, <1>15, Zenon DEF KeysRight
<1> QED
    BY <1>1, <1>12, <1>16, Zenon DEF q

\* A free frame means a free node: the frames of the attached nodes differ.
LEMMA NodeFree ==
    ASSUME NEW P, NEW N \in Nat \ {0}, NEW pt, NEW free, NEW next, NEW r, MapRight(P, pt),
           FramesRight(P, N, pt, free, next), NodesRight(N, r), KeysRight(P, pt, r), free # {}
    PROVE  r.free # <<>>
<1> SUFFICES ASSUME r.free = <<>> PROVE FALSE
    BY Zenon
<1> DEFINE F == 0..(N - 1)
           PageOf(n) == CHOOSE p \in P : pt[p] # NoFrame /\ p.pn = r.key[n]
           g == [n \in 1..N |-> pt[PageOf(n)]]
<1>1. PICK x \in free : x \in F /\ \A p \in P : pt[p] # x
    BY DEF FramesRight
<1>2. Elements(r.list) = 1..N
  <2>1. Elements(r.free) = {}
      BY DEF Elements
  <2> QED
      BY <2>1, Zenon DEF NodesRight
<1>3. \A n \in 1..N : PageOf(n) \in P /\ pt[PageOf(n)] # NoFrame /\ PageOf(n).pn = r.key[n]
    BY <1>2, Zenon DEF KeysRight
<1> HIDE DEF PageOf
<1>4. \A n \in 1..N : g[n] = pt[PageOf(n)] /\ g[n] \in F \ {x}
    BY <1>1, <1>3, Zenon DEF FramesRight
<1>5. g \in [1..N -> F \ {x}]
    BY <1>4, Zenon
<1>6. IsFiniteSet(F) /\ Cardinality(F) = N
    BY FS_Interval
<1>7. IsFiniteSet(F \ {x}) /\ Cardinality(F \ {x}) = N - 1
  <2> HIDE DEF F
  <2> QED
      BY <1>1, <1>6, FS_RemoveElement, Zenon
<1>8. IsFiniteSet(1..N) /\ Cardinality(1..N) = N /\ N - 1 < N
    BY FS_Interval
<1> HIDE DEF F, g
<1>9. PICK m \in 1..N, n \in 1..N : m # n /\ g[m] = g[n]
    BY <1>5, <1>7, <1>8, FS_PigeonHole
<1>10. PageOf(m) = PageOf(n)
    BY <1>3, <1>4, <1>9 DEF MapRight
<1>11. r.key[m] = r.key[n]
    BY <1>3, <1>10, Zenon
<1> QED
    BY <1>2, <1>9, <1>11 DEF NodesRight

\* A free node is attached for a page that is mapped now.
LEMMA NodeAttached ==
    ASSUME NEW P, NEW N \in Nat, NEW pt \in [P -> Nat \cup {NoFrame}], NEW r,
           NodesRight(N, r), KeysRight(P, pt, r), r.free # <<>>,
           NEW pg \in P, pg.pn \in Nat, pt[pg] = NoFrame, pg.pn \notin DOMAIN r.table, NEW x \in Nat
    PROVE  /\ NodesRight(N, ru_insert(r, pg.pn))
           /\ KeysRight(P, [pt EXCEPT ![pg] = x], ru_insert(r, pg.pn))
<1> DEFINE n == Last(r.free)
           k == pg.pn
           l == <<n>> \o r.list
           f == Front(r.free)
           key == [r.key EXCEPT ![n] = k]
           D == DOMAIN r.table \cup {k}
           table == [y \in D |-> IF y = k THEN n ELSE r.table[y]]
           v == [list |-> l, free |-> f, key |-> key, table |-> table]
           q == [pt EXCEPT ![pg] = x]
<1>1. ru_insert(r, pg.pn) = v
    BY Zenon DEF ru_insert
<1>2. /\ r.list \in Seq(1..N) /\ Distinct(r.list) /\ r.free \in Seq(1..N) /\ Distinct(r.free)
      /\ Elements(r.list) \cap Elements(r.free) = {}
      /\ Elements(r.list) \cup Elements(r.free) = 1..N
      /\ r.key \in [1..N -> Nat \cup {NoFrame}] /\ r.table \in [DOMAIN r.table -> 1..N]
      /\ \A m \in Elements(r.list) : r.key[m] \in DOMAIN r.table /\ r.table[r.key[m]] = m
    BY Zenon DEF NodesRight
<1>3. /\ f \in Seq(1..N) /\ Distinct(f) /\ n \in Elements(r.free) /\ n \in 1..N
      /\ Elements(f) = Elements(r.free) \ {n}
    BY <1>2, FrontRight, Zenon
<1> HIDE DEF n, f
<1>4. l \in Seq(1..N) /\ Distinct(l) /\ Elements(l) = Elements(r.list) \cup {n}
    BY <1>2, <1>3, ConsRight
<1>5. /\ key \in [1..N -> Nat \cup {NoFrame}] /\ key[n] = k
      /\ \A m \in 1..N : m # n => key[m] = r.key[m]
    BY <1>2, <1>3, Zenon
<1>6. /\ table \in [D -> 1..N] /\ DOMAIN table = D /\ k \in D /\ table[k] = n
      /\ \A y \in DOMAIN r.table : y # k /\ y \in D /\ table[y] = r.table[y]
    BY <1>2, <1>3, Zenon
<1>7. q[pg] = x /\ x # NoFrame /\ \A p \in P : p # pg => q[p] = pt[p]
    BY DEF NoFrame
<1> HIDE DEF l, key, D, table, q
<1>8. \A m \in Elements(r.list) : m # n /\ key[m] = r.key[m] /\ m \in Elements(l)
    BY <1>2, <1>3, <1>4, <1>5, Zenon
<1>9. \A m \in Elements(l) : key[m] \in D /\ table[key[m]] = m
  <2> TAKE m \in Elements(l)
  <2>1. CASE m = n
      BY <1>5, <1>6, <2>1, Zenon
  <2>2. CASE m \in Elements(r.list)
    <3>1. key[m] = r.key[m] /\ r.key[m] \in DOMAIN r.table /\ r.table[r.key[m]] = m
        BY <1>2, <1>8, <2>2, Zenon
    <3> QED
        BY <1>6, <3>1, Zenon
  <2> QED
      BY <1>4, <2>1, <2>2, Zenon
<1>10. Elements(l) \cap Elements(f) = {} /\ Elements(l) \cup Elements(f) = 1..N
    BY <1>2, <1>3, <1>4, Zenon
<1>11. NodesRight(N, v)
    BY <1>3, <1>4, <1>5, <1>6, <1>9, <1>10, Zenon DEF NodesRight
<1>12. \A m \in Elements(l) : \E p \in P : q[p] # NoFrame /\ p.pn = key[m]
  <2> TAKE m \in Elements(l)
  <2>1. CASE m = n
      BY <1>5, <1>7, <2>1, Zenon
  <2>2. CASE m \in Elements(r.list)
    <3>1. PICK p \in P : pt[p] # NoFrame /\ p.pn = r.key[m]
        BY <2>2, Zenon DEF KeysRight
    <3> QED
        BY <1>7, <1>8, <2>2, <3>1, Zenon
  <2> QED
      BY <1>4, <2>1, <2>2, Zenon
<1>13. \A p \in P : q[p] # NoFrame /\ p # pg => \E m \in Elements(r.list) : r.key[m] = p.pn
    BY <1>7, Zenon DEF KeysRight
<1>14. \A p \in P : q[p] # NoFrame => \E m \in Elements(l) : key[m] = p.pn
    BY <1>4, <1>5, <1>8, <1>13, Zenon
<1>15. \A p \in P : q[p] # NoFrame /\ p # pg => p.pn # k
    BY <1>2, <1>6, <1>13, Zenon
<1>16. \A p, o \in P : q[p] # NoFrame /\ q[o] # NoFrame /\ p.pn = o.pn => p = o
    BY <1>7, <1>15 DEF KeysRight
<1>17. KeysRight(P, q, v)
    BY <1>12, <1>14, <1>16, Zenon DEF KeysRight
<1> QED
    BY <1>1, <1>11, <1>17, Zenon DEF q

-----------------------------------------------------------------------------
(* Faults and evictions                                                    *)

LEMMA KnobTerms ==
    ASSUME knob \in Knobs
    PROVE  /\ NumFrames \in Nat \ {0} /\ NonSwap \in BOOLEAN
           /\ \A p \in Page : p.pn \in Nat
           /\ Page = [pn : PageNums, pid : {Pid(u) : u \in Uops}]
    BY ConstantsAssumption DEF KnobType, NumFrames, NonSwap, Page, PageNums

\* The asserts change nothing else.
LEMMA MemFailed ==
    ASSUME NEW m, MemRight(m), NEW why, why # "none"
    PROVE  MemRight([m EXCEPT !.failed = why]) /\ [m EXCEPT !.failed = why].pt = m.pt
<1>1. PICK a, b, c, d, e, f, g :
        m = [pt |-> a, tlb |-> b, ru |-> c, free |-> d, next |-> e, dimm |-> f, failed |-> g]
    BY DEF MemRight
<1> DEFINE v == [pt |-> a, tlb |-> b, ru |-> c, free |-> d, next |-> e, dimm |-> f, failed |-> why]
<1>2. [m EXCEPT !.failed = why] = v
    BY ONLY <1>1
<1>3. MemRight(v)
    BY <1>1, Zenon DEF MemRight
<1> QED
    BY <1>1, <1>2, <1>3, Zenon

\* What an eviction leaves.
LEMMA MemEvicted ==
    ASSUME knob \in Knobs, NEW m, MemRight(m), ~NonSwap, m.failed = "none", m.free = {}
    PROVE  /\ MemRight(Evict(m))
           /\ \A p \in Page : m.pt[p] = NoFrame => Evict(m).pt[p] = NoFrame
<1> DEFINE P == Page
           N == NumFrames
           pt == m.pt
           r == m.ru
           pg == [pn |-> r.key[Last(r.list)], pid |-> -1]
<1>1. /\ MapRight(P, pt) /\ TlbRight(P, pt, m.tlb) /\ FramesRight(P, N, pt, m.free, m.next)
      /\ NodesRight(N, r) /\ KeysRight(P, pt, r)
      /\ m = [pt |-> pt, tlb |-> m.tlb, ru |-> r, free |-> m.free, next |-> m.next,
              dimm |-> m.dimm, failed |-> m.failed]
    BY Zenon DEF MemRight
<1>2. N \in Nat \ {0} /\ \A p \in P : p.pn \in Nat
    BY KnobTerms, Zenon
<1>3. pt \in [P -> Nat \cup {NoFrame}]
    BY <1>1 DEF MapRight
<1>4. CASE pg \notin P \/ (pg \in P /\ pt[pg] = NoFrame)
  <2>1. Evict(m) = [m EXCEPT !.failed = "victim_not_mapped"]
      BY <1>4, Zenon DEF Evict
  <2> QED
      BY <2>1, MemFailed
<1>5. CASE pg \in P /\ pt[pg] # NoFrame
  <2> DEFINE q == [pt EXCEPT ![pg] = NoFrame]
             v == [pt |-> q, tlb |-> invalidate(m.tlb, pg), ru |-> ru_getVictim(r),
                   free |-> m.free \cup {pt[pg]}, next |-> pt[pg], dimm |-> m.dimm, failed |-> "none"]
  <2>1. r.list # <<>>
    <3>1. PICK n \in Elements(r.list) : r.key[n] = pg.pn
        BY <1>1, <1>5, Zenon DEF KeysRight
    <3> QED
        BY <3>1 DEF Elements
  <2>2. Evict(m) = v
    <3> DEFINE t == invalidate(m.tlb, pg)
               w == ru_getVictim(r)
               h == m.free \cup {pt[pg]}
               x == pt[pg]
    <3>1. PICK a, b, c, d, e, f, g :
            m = [pt |-> a, tlb |-> b, ru |-> c, free |-> d, next |-> e, dimm |-> f, failed |-> g]
        BY <1>1, Zenon
    <3>2. Evict(m) = [m EXCEPT !.pt = q, !.tlb = t, !.ru = w, !.free = h, !.next = x]
        BY <1>5, Zenon DEF Evict
    <3>3. v = [pt |-> q, tlb |-> t, ru |-> w, free |-> h, next |-> x, dimm |-> f, failed |-> g]
        BY <3>1, Zenon
    <3> HIDE DEF q, t, w, h, x, v
    <3> QED
        BY ONLY <3>1, <3>2, <3>3, Zenon
  <2>3. MapRight(P, q)
      BY <1>1, <1>5, Unmapped, Zenon
  <2>4. TlbRight(P, q, invalidate(m.tlb, pg))
      BY <1>1, <1>3, <1>5, TlbInvalidated, Zenon
  <2>5. FramesRight(P, N, q, m.free \cup {pt[pg]}, pt[pg])
      BY <1>1, <1>2, <1>5, FrameFreed, Zenon
  <2>6. NodesRight(N, ru_getVictim(r)) /\ KeysRight(P, q, ru_getVictim(r))
    <3>1. pg.pn = r.key[Last(r.list)]
        BY Zenon
    <3> HIDE DEF pg, pt, r
    <3> QED
        BY <1>1, <1>2, <1>3, <1>5, <2>1, <3>1, NodeDetached, Zenon
  <2>7. \A p \in P : pt[p] = NoFrame => q[p] = NoFrame
      BY <1>3, <1>5, Zenon
  <2> HIDE DEF q, pg, pt, r
  <2>8. MemRight(v)
      BY <2>3, <2>4, <2>5, <2>6, Zenon DEF MemRight
  <2> QED
      BY <2>2, <2>7, <2>8 DEF pt
<1> QED
    BY <1>4, <1>5, Zenon

LEMMA MemPrepared ==
    ASSUME knob \in Knobs, NEW m, MemRight(m)
    PROVE  /\ MemRight(Prepare(m).m)
           /\ \A p \in Page : m.pt[p] = NoFrame => Prepare(m).m.pt[p] = NoFrame
           /\ NonSwap => Prepare(m).m.pt = m.pt
<1>1. CASE m.failed # "none" \/ NonSwap \/ m.free # {}
  <2>1. Prepare(m).m = m
      BY <1>1, Zenon DEF Prepare
  <2> QED
      BY <2>1, Zenon
<1>2. CASE m.failed = "none" /\ ~NonSwap /\ m.free = {}
  <2>1. Prepare(m).m = Evict(m)
      BY <1>2, Zenon DEF Prepare
  <2> QED
      BY <1>2, <2>1, MemEvicted, Zenon
<1> QED
    BY <1>1, <1>2, Zenon

\* What bringing a page in leaves.
LEMMA MemResolved ==
    ASSUME knob \in Knobs, MemInv, failed = "none", NonSwap \/ free_frames # {},
           NEW pg \in Page, page_table[pg] = NoFrame
    PROVE  /\ MemRight(Resolve(Memory, pg))
           /\ \A p \in Page : p # pg => Resolve(Memory, pg).pt[p] = page_table[p]
<1> DEFINE P == Page
           N == NumFrames
           pt == page_table
           x == FrameToAllocate
           q == [pt EXCEPT ![pg] = x]
           v(r, free, d) == [pt |-> q, tlb |-> tlb, ru |-> r, free |-> free, next |-> x,
                             dimm |-> d, failed |-> "none"]
<1>1. /\ Memory.pt = pt /\ Memory.tlb = tlb /\ Memory.ru = ru /\ Memory.free = free_frames
      /\ Memory.next = frame_to_allocate /\ Memory.dimm = frame_dimm /\ Memory.failed = "none"
    BY Zenon DEF Memory
<1>2. /\ MapRight(P, pt) /\ TlbRight(P, pt, tlb)
      /\ NonSwap => DimmRight(P, pt, frame_dimm)
      /\ ~NonSwap => /\ FramesRight(P, N, pt, free_frames, frame_to_allocate)
                     /\ NodesRight(N, ru) /\ KeysRight(P, pt, ru)
    BY <1>1, Zenon DEF MemInv, MemRight
<1>3. N \in Nat /\ N \in Nat \ {0} /\ pg.pn \in Nat /\ pt \in [P -> Nat \cup {NoFrame}]
    BY <1>2, KnobTerms, Zenon DEF MapRight
<1>4. \A p \in P : p # pg => q[p] = pt[p]
    BY <1>3
<1>5. TlbRight(P, q, tlb)
    BY <1>2, <1>3, TlbMapped, Zenon
<1>6. CASE NonSwap
  <2>1. x = frame_dimm /\ frame_dimm \in Nat /\ \A p \in P : pt[p] # NoFrame => pt[p] < frame_dimm
      BY <1>2, <1>6, Zenon DEF FrameToAllocate, DimmRight
  <2>2. Resolve(Memory, pg) = v(ru, free_frames, frame_dimm + 1)
      BY <1>6, Zenon DEF Resolve, Memory
  <2> HIDE DEF x
  <2>3. \A p \in P : pt[p] # x
      BY <1>3, <2>1 DEF NoFrame
  <2>4. MapRight(P, q)
      BY <1>2, <2>1, <2>3, Mapped, Zenon
  <2>5. DimmRight(P, q, frame_dimm + 1)
      BY <1>3, <2>1 DEF DimmRight, NoFrame
  <2> HIDE DEF q
  <2>6. MemRight(v(ru, free_frames, frame_dimm + 1))
      BY <1>5, <1>6, <2>4, <2>5, Zenon DEF MemRight
  <2> QED
      BY <1>4, <2>2, <2>6
<1>7. CASE ~NonSwap /\ pg.pn \in DOMAIN ru.table
  <2>1. Resolve(Memory, pg) = [Memory EXCEPT !.failed = "page_already_in_replacement_unit"]
      BY <1>1, <1>7, Zenon DEF Resolve
  <2>2. /\ MemRight([Memory EXCEPT !.failed = "page_already_in_replacement_unit"])
        /\ [Memory EXCEPT !.failed = "page_already_in_replacement_unit"].pt = pt
      BY <1>1, MemFailed, Zenon DEF MemInv
  <2> QED
      BY <2>1, <2>2, Zenon
<1>8. CASE ~NonSwap /\ pg.pn \notin DOMAIN ru.table
  <2>1. x \in free_frames
    <3>1. frame_to_allocate \in 0..(N - 1) /\ free_frames \subseteq 0..(N - 1) /\ free_frames # {}
        BY <1>2, <1>8, Zenon DEF FramesRight
    <3> QED
        BY <1>3, <1>8, <3>1, FrameFound, Zenon
  <2>2. Resolve(Memory, pg) = v(ru_insert(ru, pg.pn), free_frames \ {x}, frame_dimm)
      BY <1>1, <1>8, Zenon DEF Resolve, Memory
  <2> HIDE DEF x
  <2>3. /\ FramesRight(P, N, q, free_frames \ {x}, x)
        /\ x \in Nat /\ \A p \in P : pt[p] # x
    <3>1. MapRight(P, pt) /\ FramesRight(P, N, pt, free_frames, frame_to_allocate)
        BY <1>2, <1>8, Zenon
    <3>2. N \in Nat /\ pt[pg] = NoFrame /\ pg \in P
        BY <1>3, Zenon
    <3> HIDE DEF P, N, pt
    <3> QED
        BY <2>1, <3>1, <3>2, FrameTaken, Zenon DEF q
  <2>4. MapRight(P, q)
      BY <1>2, <2>3, Mapped, Zenon
  <2>5. ru.free # <<>>
      BY <1>2, <1>3, <1>8, <2>1, NodeFree, Zenon
  <2>6. NodesRight(N, ru_insert(ru, pg.pn)) /\ KeysRight(P, q, ru_insert(ru, pg.pn))
      BY <1>2, <1>3, <1>8, <2>3, <2>5, NodeAttached, Zenon
  <2> HIDE DEF q
  <2>7. MemRight(v(ru_insert(ru, pg.pn), free_frames \ {x}, frame_dimm))
      BY <1>5, <1>8, <2>3, <2>4, <2>6, Zenon DEF MemRight
  <2>8. v(ru_insert(ru, pg.pn), free_frames \ {x}, frame_dimm).pt = q
      BY Zenon
  <2> HIDE DEF v
  <2> QED
      BY ONLY <1>4, <2>2, <2>7, <2>8, Zenon
<1> QED
    BY <1>6, <1>7, <1>8, Zenon

-----------------------------------------------------------------------------
(* Queues of uops                                                          *)

\* The uops in state st in f are in it in g, with the same page.
Stays(f, g, st) == \A v \in Uops : f[v].st = st => g[v].st = st /\ g[v].page = f[v].page

LEMMA HoldsKept ==
    ASSUME NEW f, NEW g, NEW st, Stays(f, g, st), NEW s, Holds(f, s, st)
    PROVE  Holds(g, s, st) /\ \A p : OfPage(f, s, p) => OfPage(g, s, p)
<1>1. \A u \in Elements(s) : u \in Uops /\ f[u].st = st
    BY ElementsIn, Zenon DEF Holds
<1>2. \A u \in Elements(s) : g[u].st = st /\ g[u].page = f[u].page
    BY <1>1, Zenon DEF Stays
<1> QED
    BY <1>1, <1>2, Zenon DEF Holds, OfPage

LEMMA WalksKept ==
    ASSUME NEW P, NEW f, NEW g, Stays(f, g, "walk"), NEW q, WalksRight(P, f, q)
    PROVE  WalksRight(P, g, q)
    BY HoldsKept, Zenon DEF WalksRight

\* Faults and the batch, when uops stay and their pages stay unmapped.
LEMMA FaultsKept ==
    ASSUME NEW P, NEW f, NEW g, Stays(f, g, "fault"), NEW pt, NEW qt, NEW fs,
           FaultsRight(P, f, pt, fs), \A p \in P : pt[p] = NoFrame => qt[p] = NoFrame
    PROVE  FaultsRight(P, g, qt, fs)
<1>1. \A p \in DOMAIN fs : Holds(g, fs[p], "fault") /\ OfPage(g, fs[p], p) /\ qt[p] = NoFrame
    BY HoldsKept, Zenon DEF FaultsRight
<1> QED
    BY <1>1 DEF FaultsRight

LEMMA BatchKept ==
    ASSUME NEW P, NEW f, NEW g, Stays(f, g, "fault"), NEW pt, NEW qt, NEW b,
           BatchRight(P, f, pt, b), \A p \in P : pt[p] = NoFrame => qt[p] = NoFrame
    PROVE  BatchRight(P, g, qt, b)
<1>1. \A i \in 1..Len(b) : b[i].page \in P
  <2>1. \A i \in 1..Len(b) : b[i] \in [page : P, uops : Seq(Uops)]
      BY ElementsIn, Zenon DEF BatchRight
  <2> QED
      BY <2>1
<1>2. \A i \in 1..Len(b) : /\ Holds(g, b[i].uops, "fault") /\ OfPage(g, b[i].uops, b[i].page)
                           /\ qt[b[i].page] = NoFrame
    BY <1>1, HoldsKept, Zenon DEF BatchRight
<1> QED
    BY <1>2, Zenon DEF BatchRight

LEMMA PendingKept ==
    ASSUME NEW f, NEW g, Stays(f, g, "core"), NEW pend, PendingRight(f, pend)
    PROVE  PendingRight(g, pend)
    BY Zenon DEF PendingRight, Stays

\* The parts of QueuesRight in the next state.
LEMMA QueuesNext ==
    ASSUME knob' = knob,
           UopsRight(Page, uop'), WalksRight(Page, uop', walk_queue'),
           Holds(uop', retry_queue', "retry"), Holds(uop', fault_retry_queue', "fault_retry"),
           FaultsRight(Page, uop', page_table', faults'),
           BatchRight(Page, uop', page_table', processing'), Apart(processing', faults'),
           batch'.on => processing' # <<>>,
           PendingRight(uop', pending'),
           TodoRight(uop', phase', todo', pending', retry_queue', fault_retry_queue')
    PROVE  QueuesRight'
<1>1. Page' = Page
    BY Zenon DEF Page, PageNums, Pid
<1> QED
    BY <1>1, Zenon DEF QueuesRight

\* Memory in the next state.
LEMMA MemStored ==
    ASSUME knob' = knob, NEW m, MemRight(m), SetMemory(m)
    PROVE  MemInv'
<1>1. Page' = Page /\ NumFrames' = NumFrames /\ NonSwap' = NonSwap
    BY Zenon DEF Page, PageNums, Pid, NumFrames, NonSwap
<1>2. /\ Memory'.pt = m.pt /\ Memory'.tlb = m.tlb /\ Memory'.ru = m.ru /\ Memory'.free = m.free
      /\ Memory'.next = m.next /\ Memory'.dimm = m.dimm /\ Memory'.failed = m.failed
      /\ Memory' = [pt |-> Memory'.pt, tlb |-> Memory'.tlb, ru |-> Memory'.ru, free |-> Memory'.free,
                    next |-> Memory'.next, dimm |-> Memory'.dimm, failed |-> Memory'.failed]
    BY Zenon DEF Memory, SetMemory
<1> QED
    BY <1>1, <1>2, Zenon DEF MemInv, MemRight

\* A step that keeps page table and frames.
LEMMA MemTouched ==
    ASSUME knob' = knob, MemInv,
           UNCHANGED <<page_table, free_frames, frame_to_allocate, frame_dimm>>,
           TlbRight(Page, page_table, tlb'),
           failed' = "none" /\ ~NonSwap => /\ NodesRight(NumFrames, ru')
                                           /\ KeysRight(Page, page_table, ru')
    PROVE  MemInv'
<1>1. Page' = Page /\ NumFrames' = NumFrames /\ NonSwap' = NonSwap
    BY Zenon DEF Page, PageNums, Pid, NumFrames, NonSwap
<1>2. /\ Memory.pt = page_table /\ Memory.free = free_frames /\ Memory.next = frame_to_allocate
      /\ Memory.dimm = frame_dimm
    BY Zenon DEF Memory
<1>3. /\ Memory'.pt = page_table /\ Memory'.tlb = tlb' /\ Memory'.ru = ru' /\ Memory'.free = free_frames
      /\ Memory'.next = frame_to_allocate /\ Memory'.dimm = frame_dimm /\ Memory'.failed = failed'
      /\ Memory' = [pt |-> Memory'.pt, tlb |-> Memory'.tlb, ru |-> Memory'.ru, free |-> Memory'.free,
                    next |-> Memory'.next, dimm |-> Memory'.dimm, failed |-> Memory'.failed]
    BY Zenon DEF Memory
<1> QED
    BY <1>1, <1>2, <1>3, Zenon DEF MemInv, MemRight

\* The parts of MemInv.
LEMMA MemParts ==
    ASSUME MemInv
    PROVE  /\ MapRight(Page, page_table) /\ TlbRight(Page, page_table, tlb)
           /\ failed = "none" /\ ~NonSwap => /\ NodesRight(NumFrames, ru)
                                             /\ KeysRight(Page, page_table, ru)
    BY Zenon DEF MemInv, MemRight, Memory

LEMMA CurrentNext ==
    ASSUME knob' = knob,
           NonSwap => \A u \in Uops : uop'[u].frame # NoFrame => page_table'[uop'[u].page] = uop'[u].frame
    PROVE  TranslationIsCurrent'
    BY Zenon DEF TranslationIsCurrent, NonSwap

\* A queue without the uop that changes.
LEMMA HoldsOther ==
    ASSUME NEW f, NEW g, NEW u, \A v \in Uops : v # u => g[v] = f[v],
           NEW s, NEW st, Holds(f, s, st), u \notin Elements(s)
    PROVE  Holds(g, s, st) /\ \A p : OfPage(f, s, p) => OfPage(g, s, p)
<1>1. \A v \in Elements(s) : v \in Uops /\ v # u
    BY ElementsIn, Zenon DEF Holds
<1>2. \A v \in Elements(s) : g[v] = f[v]
    BY <1>1, Zenon
<1> QED
    BY <1>2, Zenon DEF Holds, OfPage

\* A queue that the uop joins.
LEMMA HoldsJoined ==
    ASSUME NEW g, NEW u \in Uops, NEW s, NEW st, Holds(g, s, st), u \notin Elements(s), g[u].st = st
    PROVE  /\ Holds(g, Append(s, u), st) /\ Append(s, u) # <<>>
           /\ Elements(Append(s, u)) = Elements(s) \cup {u}
           /\ \A p : OfPage(g, s, p) /\ g[u].page = p => OfPage(g, Append(s, u), p)
<1>1. /\ Append(s, u) \in Seq(Uops) /\ Distinct(Append(s, u)) /\ Append(s, u) # <<>>
      /\ Elements(Append(s, u)) = Elements(s) \cup {u}
    BY AppendRight DEF Holds
<1>2. \A v \in Elements(Append(s, u)) : g[v].st = st
    BY <1>1, Zenon DEF Holds
<1>3. \A p : OfPage(g, s, p) /\ g[u].page = p => OfPage(g, Append(s, u), p)
    BY <1>1, Zenon DEF OfPage
<1> QED
    BY <1>1, <1>2, <1>3, Zenon DEF Holds

LEMMA HoldsOne ==
    ASSUME NEW g, NEW u \in Uops
    PROVE  /\ Holds(g, <<u>>, g[u].st) /\ OfPage(g, <<u>>, g[u].page) /\ <<u>> # <<>>
           /\ <<u>> \in Seq(Uops) /\ Elements(<<u>>) = {u}
<1>1. Elements(<<u>>) = {u} /\ Distinct(<<u>>) /\ <<u>> \in Seq(Uops) /\ <<u>> # <<>>
    BY DEF Elements, Distinct
<1> QED
    BY <1>1, Zenon DEF Holds, OfPage

LEMMA SeqUpdated ==
    ASSUME NEW W, NEW q \in Seq(W), NEW c \in 1..Len(q), NEW w \in W
    PROVE  LET r == [q EXCEPT ![c] = w]
           IN  /\ r \in Seq(W) /\ Len(r) = Len(q) /\ r[c] = w
               /\ \A i \in 1..Len(q) : i # c => r[i] = q[i]
    OBVIOUS

LEMMA SeqAppended ==
    ASSUME NEW W, NEW q \in Seq(W), NEW w \in W
    PROVE  LET r == Append(q, w)
           IN  /\ r \in Seq(W) /\ Len(r) = Len(q) + 1 /\ r[Len(q) + 1] = w /\ Len(q) \in Nat
               /\ \A i \in 1..Len(q) : r[i] = q[i]
               /\ \A i \in 1..Len(r) : i = Len(q) + 1 \/ i \in 1..Len(q)
    OBVIOUS

\* A uop joins the walk for its page.
LEMMA WalkJoined ==
    ASSUME NEW P, NEW g, NEW q, WalksRight(P, g, q), NEW u \in Uops, g[u].st = "walk",
           \A i \in 1..Len(q) : u \notin Elements(q[i].uops),
           NEW c \in 1..Len(q), q[c].page = g[u].page
    PROVE  WalksRight(P, g, [q EXCEPT ![c].uops = Append(@, u)])
<1> DEFINE W == [page : P, left : Nat, uops : Seq(Uops)]
           s == Append(q[c].uops, u)
           w == [page |-> q[c].page, left |-> q[c].left, uops |-> s]
           r == [q EXCEPT ![c] = w]
<1>1. /\ q \in Seq(W) /\ \A i, j \in 1..Len(q) : q[i].page = q[j].page => i = j
      /\ \A i \in 1..Len(q) : /\ q[i].uops # <<>> /\ Holds(g, q[i].uops, "walk")
                              /\ OfPage(g, q[i].uops, q[i].page)
    BY DEF WalksRight
<1>2. q[c] \in W
    BY <1>1, ElementsIn, Zenon
<1>3. Holds(g, s, "walk") /\ OfPage(g, s, q[c].page) /\ s # <<>>
    BY <1>1, HoldsJoined, Zenon
<1>4. s \in Seq(Uops)
    BY <1>3, Zenon DEF Holds
<1>5. w \in W /\ w.page = q[c].page /\ w.uops = s
    BY ONLY <1>2, <1>4, Zenon
<1>6. [q EXCEPT ![c].uops = Append(@, u)] = r
  <2>1. [q[c] EXCEPT !.uops = s] = w
    <3>1. PICK a, b, d : q[c] = [page |-> a, left |-> b, uops |-> d]
        BY ONLY <1>2, Zenon
    <3> HIDE DEF s
    <3> QED
        BY ONLY <3>1 DEF w
  <2> HIDE DEF w
  <2> QED
      BY <2>1, Zenon
<1> HIDE DEF s, w, W
<1>7. /\ r \in Seq(W) /\ Len(r) = Len(q) /\ r[c] = w
      /\ \A i \in 1..Len(q) : i # c => r[i] = q[i]
    BY <1>1, <1>5, SeqUpdated
<1> HIDE DEF r
<1>8. \A i \in 1..Len(r) : r[i].page = q[i].page
    BY <1>5, <1>7, Zenon
<1>9. \A i \in 1..Len(r) : /\ r[i].uops # <<>> /\ Holds(g, r[i].uops, "walk")
                           /\ OfPage(g, r[i].uops, r[i].page)
    BY <1>1, <1>3, <1>5, <1>7, Zenon
<1>10. \A i, j \in 1..Len(r) : r[i].page = r[j].page => i = j
    BY <1>1, <1>7, <1>8, Zenon
<1>11. WalksRight(P, g, r)
    BY <1>7, <1>9, <1>10, Zenon DEF WalksRight, W
<1> QED
    BY <1>6, <1>11, Zenon

\* A walk begins.
LEMMA WalkBegun ==
    ASSUME NEW P, NEW g, NEW q, WalksRight(P, g, q), NEW u \in Uops, g[u].st = "walk",
           g[u].page \in P, \A i \in 1..Len(q) : q[i].page # g[u].page
    PROVE  WalksRight(P, g, Append(q, [page |-> g[u].page, left |-> WalkLatency, uops |-> <<u>>]))
<1> DEFINE W == [page : P, left : Nat, uops : Seq(Uops)]
           s == <<u>>
           w == [page |-> g[u].page, left |-> WalkLatency, uops |-> s]
           r == Append(q, w)
           n == Len(q) + 1
<1>1. /\ q \in Seq(W) /\ \A i, j \in 1..Len(q) : q[i].page = q[j].page => i = j
      /\ \A i \in 1..Len(q) : /\ q[i].uops # <<>> /\ Holds(g, q[i].uops, "walk")
                              /\ OfPage(g, q[i].uops, q[i].page)
    BY Zenon DEF WalksRight
<1>2. Holds(g, s, "walk") /\ OfPage(g, s, g[u].page) /\ s # <<>> /\ s \in Seq(Uops)
    BY HoldsOne, Zenon
<1> HIDE DEF s
<1>3. WalkLatency \in Nat
    BY ConstantsAssumption, Zenon
<1>4. w \in W /\ w.page = g[u].page /\ w.uops = s
    BY <1>2, <1>3, Zenon
<1> HIDE DEF w, W
<1>5. /\ r \in Seq(W) /\ Len(r) = n /\ r[n] = w /\ \A i \in 1..Len(q) : r[i] = q[i]
      /\ \A i \in 1..Len(r) : i = n \/ i \in 1..Len(q)
    BY <1>1, <1>4, SeqAppended
<1> HIDE DEF r, n
<1>6. \A i \in 1..Len(r) : /\ r[i].uops # <<>> /\ Holds(g, r[i].uops, "walk")
                           /\ OfPage(g, r[i].uops, r[i].page)
    BY <1>1, <1>2, <1>4, <1>5, Zenon
<1>7. \A i, j \in 1..Len(r) : r[i].page = r[j].page => i = j
    BY <1>1, <1>4, <1>5
<1>8. WalksRight(P, g, r)
    BY <1>5, <1>6, <1>7, Zenon DEF WalksRight, W
<1> QED
    BY <1>8, Zenon DEF r, w, s

\* The first uop of the first walk leaves the walk queue.
LEMMA WalkLeft ==
    ASSUME NEW P, NEW f, NEW g, NEW q, WalksRight(P, f, q), q # <<>>,
           NEW w, w = Head(q), NEW u, u = Head(w.uops), \A v \in Uops : v # u => g[v] = f[v]
    PROVE  /\ u \in Uops /\ f[u].st = "walk" /\ f[u].page = w.page
           /\ WalksRight(P, g, IF Len(w.uops) = 1 THEN Tail(q)
                               ELSE <<[w EXCEPT !.uops = Tail(@)]>> \o Tail(q))
<1> DEFINE W == [page : P, left : Nat, uops : Seq(Uops)]
           t == Tail(q)
           z == Tail(w.uops)
           x == [page |-> w.page, left |-> w.left, uops |-> z]
           r == <<x>> \o t
<1>1. /\ q \in Seq(W) /\ \A i, j \in 1..Len(q) : q[i].page = q[j].page => i = j
      /\ \A i \in 1..Len(q) : /\ q[i].uops # <<>> /\ Holds(f, q[i].uops, "walk")
                              /\ OfPage(f, q[i].uops, q[i].page)
    BY Zenon DEF WalksRight
<1>2. /\ w = q[1] /\ 1 \in 1..Len(q) /\ Len(q) \in Nat /\ t \in Seq(W) /\ Len(t) = Len(q) - 1
      /\ \A i \in 1..Len(t) : t[i] = q[i + 1] /\ i + 1 \in 1..Len(q) /\ i + 1 # 1
  <2> HIDE DEF W
  <2> QED
      BY <1>1
<1>3. w \in W
  <2> HIDE DEF W
  <2> QED
      BY <1>1, <1>2, ElementsIn
<1>4. /\ w.uops \in Seq(Uops) /\ Distinct(w.uops) /\ w.uops # <<>>
      /\ \A v \in Elements(w.uops) : f[v].st = "walk" /\ f[v].page = w.page
    BY <1>1, <1>2 DEF Holds, OfPage
<1>5. /\ Tail(w.uops) \in Seq(Uops) /\ Distinct(Tail(w.uops)) /\ u \in Elements(w.uops) /\ u \in Uops
      /\ Elements(Tail(w.uops)) = Elements(w.uops) \ {u}
    BY <1>4, TailRight, Zenon
<1>6. Holds(g, Tail(w.uops), "walk") /\ OfPage(g, Tail(w.uops), w.page)
  <2>1. Holds(f, Tail(w.uops), "walk") /\ OfPage(f, Tail(w.uops), w.page)
      BY <1>4, <1>5, Zenon DEF Holds, OfPage
  <2> QED
      BY <1>5, <2>1, HoldsOther, Zenon
<1>7. \A i \in 1..Len(t) : /\ t[i].uops # <<>> /\ Holds(g, t[i].uops, "walk")
                           /\ OfPage(g, t[i].uops, t[i].page) /\ t[i].page # w.page
  <2> TAKE i \in 1..Len(t)
  <2>1. t[i] = q[i + 1] /\ i + 1 \in 1..Len(q) /\ q[i + 1].page # w.page
      BY <1>1, <1>2, Zenon
  <2>2. /\ q[i + 1].uops # <<>> /\ Holds(f, q[i + 1].uops, "walk")
        /\ OfPage(f, q[i + 1].uops, q[i + 1].page)
      BY <1>1, <2>1, Zenon
  <2>3. u \notin Elements(q[i + 1].uops)
      BY <1>4, <1>5, <2>1, <2>2, Zenon DEF OfPage
  <2> QED
      BY <2>1, <2>2, <2>3, HoldsOther, Zenon
<1>8. \A i, j \in 1..Len(t) : t[i].page = t[j].page => i = j
  <2> TAKE i, j \in 1..Len(t)
  <2>1. t[i].page = t[j].page => i + 1 = j + 1
      BY <1>1, <1>2
  <2> QED
      BY <2>1
<1>9. WalksRight(P, g, t)
    BY <1>2, <1>7, <1>8, Zenon DEF WalksRight
<1>10. CASE Len(w.uops) # 1
  <2>1. x \in W /\ x.page = w.page /\ x.uops = Tail(w.uops)
      BY <1>3, <1>5, Zenon
  <2>2. Tail(w.uops) # <<>>
    <3>1. Len(w.uops) \in Nat /\ Len(w.uops) # 0 /\ Len(Tail(w.uops)) = Len(w.uops) - 1
        BY <1>4
    <3>2. Len(Tail(w.uops)) # 0
        BY ONLY <1>10, <3>1
    <3>3. Len(<<>>) = 0
        OBVIOUS
    <3> QED
        BY <3>2, <3>3, Zenon
  <2>3. [w EXCEPT !.uops = z] = x
    <3>1. PICK a, b, d : w = [page |-> a, left |-> b, uops |-> d]
        BY ONLY <1>3, Zenon
    <3> HIDE DEF z
    <3> QED
        BY ONLY <3>1 DEF x
  <2> HIDE DEF x, t, W
  <2>4. /\ r \in Seq(W) /\ Len(r) = Len(t) + 1 /\ r[1] = x
        /\ \A i \in 1..Len(r) : i = 1 \/ (i - 1 \in 1..Len(t) /\ r[i] = t[i - 1])
      BY <1>2, <2>1
  <2>5. \A i, j \in 1..Len(r) : i - 1 = j - 1 => i = j
      BY <2>4
  <2> HIDE DEF r
  <2>6. \A i \in 1..Len(r) : /\ r[i].uops # <<>> /\ Holds(g, r[i].uops, "walk")
                             /\ OfPage(g, r[i].uops, r[i].page)
      BY <1>6, <1>7, <2>1, <2>2, <2>4, Zenon
  <2>7. ASSUME NEW i \in 1..Len(r), NEW j \in 1..Len(r), r[i].page = r[j].page PROVE i = j
    <3>1. CASE i = 1 \/ j = 1
        BY <1>7, <2>1, <2>4, <2>7, <3>1, SMT, Z3
    <3>2. CASE i # 1 /\ j # 1
      <4>1. /\ i - 1 \in 1..Len(t) /\ r[i] = t[i - 1]
            /\ j - 1 \in 1..Len(t) /\ r[j] = t[j - 1]
          BY ONLY <2>4, <2>7, <3>2, Zenon
      <4>2. i - 1 = j - 1
          BY <1>8, <2>7, <4>1, Zenon
      <4> QED
          BY <2>5, <4>2
    <3> QED
        BY <3>1, <3>2, Zenon
  <2>8. WalksRight(P, g, r)
      BY <2>4, <2>6, <2>7, Zenon DEF WalksRight, W
  <2> QED
      BY <1>4, <1>5, <1>10, <2>3, <2>8, Zenon DEF r, t
<1> QED
    BY <1>4, <1>5, <1>9, <1>10, Zenon

-----------------------------------------------------------------------------
(* Accesses                                                                *)

\* The frame that an access uses is that of the page table.
LEMMA TranslationOk ==
    ASSUME MemInv, UopsRight(Page, uop), TranslationIsCurrent, NEW u \in Uops, uop[u].st # "idle",
           Translates(u)
    PROVE  /\ Translation(u).frame \in Nat /\ TlbRight(Page, page_table, Translation(u).tlb)
           /\ NonSwap => page_table[uop[u].page] = Translation(u).frame
<1> DEFINE pg == uop[u].page
<1>1. MapRight(Page, page_table) /\ TlbRight(Page, page_table, tlb)
    BY MemParts, Zenon
<1>2. pg \in Page /\ uop[u].frame \in Nat \cup {NoFrame}
    BY Zenon DEF UopsRight
<1>3. CASE uop[u].frame # NoFrame
  <2>1. Translation(u) = [frame |-> uop[u].frame, tlb |-> tlb]
      BY <1>3, Zenon DEF Translation
  <2> QED
      BY <1>1, <1>2, <1>3, <2>1 DEF TranslationIsCurrent
<1>4. CASE uop[u].frame = NoFrame
  <2>1. PICK i \in TlbIndex(pg) : Translation(u) = [frame |-> tlb[i].frame, tlb |-> Touched(tlb, i)]
      BY <1>4, Zenon DEF Translation, Translates, lookup
  <2>2. tlb \in Seq([page : Page, frame : Nat])
      BY <1>1, Zenon DEF TlbRight
  <2>3. i \in 1..Len(tlb) /\ tlb[i].page = pg
      BY <2>1, <2>2, ElementsIn, Zenon DEF TlbIndex
  <2>4. tlb[i] \in [page : Page, frame : Nat] /\ tlb[i] \in Elements(tlb)
      BY <2>2, <2>3, ElementsIn, Zenon
  <2>5. tlb[i].frame \in Nat
      BY <2>4, Zenon
  <2>6. page_table[pg] = tlb[i].frame
      BY <1>1, <2>3, <2>4, Zenon DEF TlbRight
  <2>7. TlbRight(Page, page_table, Touched(tlb, i))
      BY <1>1, <2>3, TlbTouched, Zenon
  <2>8. Translation(u).frame = tlb[i].frame /\ Translation(u).tlb = Touched(tlb, i)
      BY ONLY <2>1
  <2> QED
      BY <2>5, <2>6, <2>7, <2>8, Zenon
<1> QED
    BY <1>3, <1>4, Zenon

\* A walk queue when uop u, no longer or newly in it, has changed.
LEMMA WalksOther ==
    ASSUME NEW P, NEW f, NEW g, NEW u \in Uops, f[u].st # "walk",
           \A v \in Uops : v # u => g[v] = f[v], NEW q, WalksRight(P, f, q)
    PROVE  WalksRight(P, g, q) /\ \A i \in 1..Len(q) : u \notin Elements(q[i].uops)
<1>1. \A i \in 1..Len(q) : u \notin Elements(q[i].uops)
    BY Zenon DEF WalksRight, Holds
<1>2. Stays(f, g, "walk")
    BY Zenon DEF Stays
<1> QED
    BY <1>1, <1>2, WalksKept, Zenon

UopSet == [st : States, page : Page \cup {NoPage}, frame : Nat \cup {NoFrame}]

\* One uop changes, and its translation, if it has one, is current.
LEMMA UopChanged ==
    ASSUME knob' = knob, UopsRight(Page, uop), TranslationIsCurrent, page_table' = page_table,
           NEW u \in Uops, NEW x \in UopSet, uop' = [uop EXCEPT ![u] = x],
           x.st = "idle" => x.frame = NoFrame, x.st # "idle" => x.page \in Page,
           NonSwap /\ x.frame # NoFrame => page_table[x.page] = x.frame
    PROVE  /\ UopsRight(Page, uop') /\ TranslationIsCurrent' /\ uop'[u] = x
           /\ \A v \in Uops : v # u => uop'[v] = uop[v]
<1>1. /\ uop \in [Uops -> UopSet]
      /\ \A v \in Uops : uop[v].st = "idle" => uop[v].frame = NoFrame
      /\ \A v \in Uops : uop[v].st # "idle" => uop[v].page \in Page
    BY Zenon DEF UopsRight, UopSet
<1>2. NonSwap => \A v \in Uops : uop[v].frame # NoFrame => page_table[uop[v].page] = uop[v].frame
    BY Zenon DEF TranslationIsCurrent
<1>3. uop' \in [Uops -> UopSet] /\ uop'[u] = x /\ \A v \in Uops : v # u => uop'[v] = uop[v]
    BY <1>1, Zenon
<1>4. UopsRight(Page, uop')
  <2>1. \A v \in Uops : /\ uop'[v].st = "idle" => uop'[v].frame = NoFrame
                        /\ uop'[v].st # "idle" => uop'[v].page \in Page
      BY <1>1, <1>3, Zenon
  <2> QED
      BY <1>3, <2>1, Zenon DEF UopsRight, UopSet
<1>5. NonSwap => \A v \in Uops : uop'[v].frame # NoFrame => page_table'[uop'[v].page] = uop'[v].frame
  <2> SUFFICES ASSUME NonSwap, NEW v \in Uops, uop'[v].frame # NoFrame
               PROVE  page_table[uop'[v].page] = uop'[v].frame
      BY Zenon
  <2>1. CASE v = u
      BY <1>3, <2>1, Zenon
  <2>2. CASE v # u
      BY <1>2, <1>3, <2>2, Zenon
  <2> QED
      BY <2>1, <2>2, Zenon
<1> QED
    BY <1>3, <1>4, <1>5, CurrentNext, Zenon

\* dcu_c::access for a uop that is at its core or in the retry queue.
LEMMA Accessed ==
    ASSUME knob' = knob, MemInv, UopsRight(Page, uop), TranslationIsCurrent,
           WalksRight(Page, uop, walk_queue), NEW u \in Uops, NEW from \in {"core", "retry"},
           uop[u].st = from, AccessDenied(u, from) \/ AccessServed(u) \/ AccessWalks(u),
           UNCHANGED <<page_table, ru, free_frames, frame_to_allocate, frame_dimm, failed>>
    PROVE  /\ MemInv' /\ TranslationIsCurrent'
           /\ UopsRight(Page, uop') /\ WalksRight(Page, uop', walk_queue')
           /\ \A v \in Uops : v # u => uop'[v] = uop[v]
           /\ AccessDenied(u, from) => uop'[u].st = from /\ uop'[u].page = uop[u].page
<1>1. uop[u] \in UopSet /\ uop[u].page \in Page /\ uop[u].st # "idle"
    BY Zenon DEF UopsRight, UopSet
<1>3. /\ TlbRight(Page, page_table, tlb)
      /\ failed' = "none" /\ ~NonSwap => /\ NodesRight(NumFrames, ru')
                                         /\ KeysRight(Page, page_table, ru')
    BY MemParts, Zenon
<1>4. ASSUME NEW x \in UopSet, uop' = [uop EXCEPT ![u] = x], x.st = "idle" => x.frame = NoFrame,
             x.st # "idle" => x.page \in Page,
             NonSwap /\ x.frame # NoFrame => page_table[x.page] = x.frame,
             TlbRight(Page, page_table, tlb')
      PROVE  /\ MemInv' /\ TranslationIsCurrent' /\ UopsRight(Page, uop')
             /\ uop'[u] = x /\ \A v \in Uops : v # u => uop'[v] = uop[v]
  <2>1. MemInv'
      BY <1>3, <1>4, MemTouched, Zenon
  <2> QED
      BY <1>4, <2>1, UopChanged, Zenon
<1>5. CASE AccessDenied(u, from)
  <2> DEFINE x == [st |-> from, page |-> uop[u].page, frame |-> Translation(u).frame]
  <2>1. /\ Translation(u).frame \in Nat /\ TlbRight(Page, page_table, Translation(u).tlb)
        /\ NonSwap => page_table[uop[u].page] = Translation(u).frame
      BY <1>1, <1>5, TranslationOk, Zenon DEF AccessDenied
  <2>2. uop' = [uop EXCEPT ![u] = x]
    <3> DEFINE y == Translation(u).frame
    <3>1. uop' = [uop EXCEPT ![u] = [[uop[u] EXCEPT !.frame = y] EXCEPT !.st = from]]
        BY <1>1, <1>5, Zenon DEF AccessDenied
    <3>2. PICK a, b, c : uop[u] = [st |-> a, page |-> b, frame |-> c]
        BY <1>1, Zenon DEF UopSet
    <3> HIDE DEF y
    <3>3. [[uop[u] EXCEPT !.frame = y] EXCEPT !.st = from] = [st |-> from, page |-> uop[u].page, frame |-> y]
      <4>1. [uop[u] EXCEPT !.frame = y] = [st |-> a, page |-> b, frame |-> y] /\ uop[u].page = b
          BY ONLY <3>2
      <4>2. [[st |-> a, page |-> b, frame |-> y] EXCEPT !.st = from] = [st |-> from, page |-> b, frame |-> y]
          OBVIOUS
      <4> QED
          BY <4>1, <4>2, Zenon
    <3> QED
        BY <3>1, <3>3, Zenon DEF y
  <2>3. x \in UopSet /\ x.st = from /\ x.page = uop[u].page /\ x.frame = Translation(u).frame
      BY <1>1, <2>1, Zenon DEF States, UopSet
  <2>4. tlb' = Translation(u).tlb /\ walk_queue' = walk_queue
      BY <1>5, Zenon DEF AccessDenied
  <2> HIDE DEF x
  <2>5. /\ MemInv' /\ TranslationIsCurrent' /\ UopsRight(Page, uop')
        /\ uop'[u] = x /\ \A v \in Uops : v # u => uop'[v] = uop[v]
      BY <1>1, <1>4, <2>1, <2>2, <2>3, <2>4, Zenon
  <2>6. WalksRight(Page, uop', walk_queue')
      BY <2>4, <2>5, WalksOther, Zenon
  <2> QED
      BY <2>3, <2>5, <2>6, Zenon

<1>6. CASE AccessServed(u) /\ ~AccessDenied(u, from)
  <2> DEFINE x == [st |-> "idle", page |-> NoPage, frame |-> NoFrame]
  <2>1. TlbRight(Page, page_table, tlb')
      BY <1>1, <1>6, TranslationOk, Zenon DEF AccessServed
  <2>2. uop' = [uop EXCEPT ![u] = x] /\ walk_queue' = walk_queue
      BY <1>6, Zenon DEF AccessServed
  <2>3. x \in UopSet /\ x.st = "idle" /\ x.frame = NoFrame
      BY DEF States, UopSet
  <2> HIDE DEF x
  <2>4. /\ MemInv' /\ TranslationIsCurrent' /\ UopsRight(Page, uop')
        /\ uop'[u] = x /\ \A v \in Uops : v # u => uop'[v] = uop[v]
      BY <1>4, <2>1, <2>2, <2>3, Zenon
  <2>5. WalksRight(Page, uop', walk_queue')
      BY <2>2, <2>4, WalksOther, Zenon
  <2> QED
      BY <1>6, <2>4, <2>5, Zenon
<1>7. CASE AccessWalks(u) /\ ~AccessDenied(u, from)
  <2> DEFINE x == [st |-> "walk", page |-> uop[u].page, frame |-> uop[u].frame]
  <2>1. uop[u].frame = NoFrame
      BY <1>7, Zenon DEF AccessWalks, Translates
  <2>2. uop' = [uop EXCEPT ![u] = x]
    <3>1. uop' = [uop EXCEPT ![u] = [uop[u] EXCEPT !.st = "walk"]]
        BY <1>7, Zenon DEF AccessWalks
    <3>2. PICK a, b, c : uop[u] = [st |-> a, page |-> b, frame |-> c]
        BY <1>1, Zenon DEF UopSet
    <3>3. [uop[u] EXCEPT !.st = "walk"] = x
        BY ONLY <3>2
    <3> QED
        BY <3>1, <3>3, Zenon
  <2>3. x \in UopSet /\ x.st = "walk" /\ x.page = uop[u].page /\ x.frame = NoFrame
      BY <1>1, <2>1, Zenon DEF States, UopSet
  <2>4. TlbRight(Page, page_table, tlb')
      BY <1>3, <1>7, Zenon DEF AccessWalks
  <2> HIDE DEF x
  <2>5. /\ MemInv' /\ TranslationIsCurrent' /\ UopsRight(Page, uop')
        /\ uop'[u] = x /\ \A v \in Uops : v # u => uop'[v] = uop[v]
      BY <1>1, <1>4, <2>2, <2>3, <2>4, Zenon
  <2>6. /\ WalksRight(Page, uop', walk_queue)
        /\ \A i \in 1..Len(walk_queue) : u \notin Elements(walk_queue[i].uops)
      BY <2>5, WalksOther, Zenon
  <2>7. uop'[u].st = "walk" /\ uop'[u].page = uop[u].page /\ uop[u].page \in Page
      BY <1>1, <2>3, <2>5, Zenon
  <2> DEFINE J == {j \in DOMAIN walk_queue : walk_queue[j].page = uop[u].page}
  <2>8. DOMAIN walk_queue = 1..Len(walk_queue)
      BY ElementsIn, Zenon DEF WalksRight
  <2>9. CASE J # {}
    <3>1. PICK c \in J : walk_queue' = [walk_queue EXCEPT ![c].uops = Append(@, u)]
        BY <1>7, <2>9, Zenon DEF AccessWalks, EnqueueWalk
    <3>2. c \in 1..Len(walk_queue) /\ walk_queue[c].page = uop'[u].page
        BY <2>7, <2>8, <3>1, Zenon
    <3> QED
        BY <1>7, <2>5, <2>6, <2>7, <3>1, <3>2, WalkJoined, Zenon
  <2>10. CASE J = {}
    <3>1. walk_queue' = Append(walk_queue, [page |-> uop'[u].page, left |-> WalkLatency, uops |-> <<u>>])
        BY <1>7, <2>7, <2>10, Zenon DEF AccessWalks, EnqueueWalk
    <3>2. \A i \in 1..Len(walk_queue) : walk_queue[i].page # uop'[u].page
        BY <2>7, <2>8, <2>10, Zenon
    <3> QED
        BY <1>7, <2>5, <2>6, <2>7, <3>1, <3>2, WalkBegun, Zenon
  <2> QED
      BY <2>9, <2>10, Zenon
<1> QED
    BY <1>5, <1>6, <1>7, Zenon
=============================================================================
