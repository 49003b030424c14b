-------------------------------- MODULE Mmu --------------------------------
(* Virtual memory of the simulator: MMU (src/src/mmu.cc, mmu.h), its TLB     *)
(* (tlb.cc) and its ReplacementUnit.  One simulated cycle runs               *)
(*   handle_page_faults; run_a_cycle (retry queue, fault retry queue, page   *)
(*   table walks, ++m_cycle); then the cores, which call translate() through *)
(*   dcu_c::access.                                                          *)
(* The program is single threaded, so each loop body is one step of `phase'. *)
(* Absolute cycles become counters of the cycles still to wait.              *)
EXTENDS Integers, Sequences, FiniteSets, StdList

CONSTANTS
  Uops,             \* uop slots that carry one memory access each
  Parents,          \* parent uops (memory instructions with child uops)
  ParentOf,         \* [Uops -> Parents \cup {NoParent}]
  NoParent,
  PidOf,            \* [Uops -> process ids]
  Knobs,            \* the configurations, see KnobType
  TlbSize,          \* KNOB_TLB_NUM_ENTRY
  FaultBufferSize,  \* KNOB_FAULT_BUFFER_SIZE
  WalkLatency, EvictionLatency, BatchOverhead

KnobType ==
  [no_swap : BOOLEAN,         \* KNOB_NO_PAGE_SWAP
   fool : BOOLEAN,            \* KNOB_FOOL_PAGE_TABLE
   frames : Nat \ {0},        \* m_memory_size >> m_offset_bits
   fault_latency : Nat,       \* KNOB_PAGE_FAULT_LATENCY
   pages : SUBSET Nat]        \* the virtual page numbers the traces touch

ASSUME ConstantsAssumption ==
  /\ ParentOf \in [Uops -> Parents \cup {NoParent}]
  /\ NoParent \notin Parents
  /\ Knobs \subseteq KnobType
  /\ PidOf \in [Uops -> Int]
  /\ IsFiniteSet(Uops)
  /\ TlbSize \in Nat \ {0} /\ FaultBufferSize \in Nat \ {0}
  /\ {WalkLatency, EvictionLatency, BatchOverhead} \subseteq Nat

VARIABLES
  knob,        \* one of Knobs
  phase,       \* where run_a_cycle of the simulator is
  todo,        \* uops the loop of the current phase has still to visit
  uop,         \* [Uops -> [st, page, frame]]: frame is set with m_translated
  pending,     \* [Parents -> SUBSET Uops]: m_pending_child_uops
  walks,       \* [Parents -> Int]: m_num_page_table_walks
  fault_parents,  \* core_c::m_per_thread_fault_parent_uops of the one thread
  page_table, tlb, ru, free_frames, frame_to_allocate,
  frame_dimm,  \* m_frame_dimm: frames handed out without page swapping
  walk_queue,  \* m_walk_queue_cycle and m_walk_queue_page, oldest walk first
  retry_queue, fault_retry_queue,
  faults,      \* m_fault_buffer with m_fault_uops: [page -> uops], domain = buffer
  processing,  \* m_fault_buffer_processing with m_fault_uops_processing
  batch,       \* m_batch_processing, ..._first_transfer_started, cycles to wait
  failed       \* the assert that stopped the program, or "none"

mmu_vars == <<page_table, tlb, ru, free_frames, frame_to_allocate, frame_dimm>>
queue_vars == <<walk_queue, retry_queue, fault_retry_queue, faults, processing>>
core_vars == <<uop, pending, walks, fault_parents>>
vars == <<knob, phase, todo, core_vars, mmu_vars, queue_vars, batch, failed>>

NonSwap == knob.no_swap
NumFrames == knob.frames
PageNums == knob.pages
FaultLatency == knob.fault_latency
\* The process id in a page's key.
Pid(u) == IF knob.fool THEN -1 ELSE PidOf[u]
Page == [pn : PageNums, pid : {Pid(u) : u \in Uops}]
Frame == 0 .. NumFrames - 1
NoFrame == -1
NoPage == [pn |-> -1, pid |-> -1]
Node == 1 .. NumFrames

Init ==
  /\ knob \in Knobs
  /\ phase = "faults" /\ todo = <<>>
  /\ uop = [u \in Uops |-> [st |-> "idle", page |-> NoPage, frame |-> NoFrame]]
  /\ pending = [p \in Parents |-> {}] /\ walks = [p \in Parents |-> 0]
  /\ fault_parents = {}
  /\ page_table = [p \in Page |-> NoFrame] /\ tlb = <<>>
  /\ ru = [list |-> <<>>, free |-> [n \in Node |-> n],
           key |-> [n \in Node |-> NoFrame], table |-> [k \in {} |-> 0]]
  /\ free_frames = (IF NonSwap THEN {} ELSE Frame)
  /\ frame_to_allocate = 0 /\ frame_dimm = 0
  /\ walk_queue = <<>> /\ retry_queue = <<>> /\ fault_retry_queue = <<>>
  /\ faults = [p \in {} |-> <<>>] /\ processing = <<>>
  /\ batch = [on |-> FALSE, first |-> FALSE, wait |-> 0]
  /\ failed = "none"

----------------------------------------------------------------------------
(* TLB: most recently used entry first.                                      *)

TlbIndexIgnoresPid(p) == {i \in DOMAIN tlb : tlb[i].page.pn = p.pn}
TlbIndex(p) == {i \in DOMAIN tlb : tlb[i].page = p}
lookup(p) == TlbIndex(p) # {}
\* Where an element is in a list that holds it once.
PlaceOf(x, s) == CHOOSE i \in DOMAIN s : s[i] = x
\* TLB::translate and TLB::update: detach the entry and attach it at the head.
Touched(t, i) == <<t[i]>> \o RemoveAt(t, i)
\* TLB::insert: the least recently used entry makes room when none is free.
InsertedWithoutEviction(t, e) == <<e>> \o t
Inserted(t, e) ==
  <<e>> \o (IF Len(t) < TlbSize THEN t ELSE Front(t))
invalidateNothing(t, p) == t
invalidate(t, p) ==
  LET i == {j \in DOMAIN t : t[j].page = p}
  IN IF i = {} THEN t ELSE RemoveAt(t, CHOOSE j \in i : TRUE)

(* ReplacementUnit: `list' holds the attached nodes, most recent first.      *)
(* Every call site leaves the pid at its default -1, so a key is a page      *)
(* number.                                                                   *)
ru_find(k) == k \in DOMAIN ru.table
ru_update(r, k) ==
  [r EXCEPT !.list = Touched(@, PlaceOf(r.table[k], @))]
ru_insert(r, k) ==
  LET fresh == r.free # <<>>
      n     == IF fresh THEN Last(r.free) ELSE Last(r.list)
      kept  == IF fresh THEN DOMAIN r.table ELSE DOMAIN r.table \ {r.key[n]}
  IN [list  |-> <<n>> \o (IF fresh THEN r.list ELSE Front(r.list)),
      free  |-> IF fresh THEN Front(r.free) ELSE r.free,
      key   |-> [r.key EXCEPT ![n] = k],
      table |-> [x \in kept \cup {k} |-> IF x = k THEN n ELSE r.table[x]]]
\* getVictim clears the node before it erases m_table[(page, pid) of the node]:
\* the erase looks for the key (-1, -1) and the victim's key stays in the table.
ru_getVictim(r) ==
  LET n == Last(r.list)
  IN [list |-> Front(r.list), free |-> Append(r.free, n),
      key |-> [r.key EXCEPT ![n] = NoFrame],
      table |-> [x \in DOMAIN r.table \ {NoFrame} |-> r.table[x]]]

----------------------------------------------------------------------------
(* dcu_c::access of the L1 for uop u, called in state `from' of the uop:     *)
(* translate(), then the data cache, which answers 0 (denied), a latency or  *)
(* -1.  `Denied' and `Served' are what the caller does with the answer.      *)

\* TLB hit or already translated: the frame the access uses and the new TLB.
Translation(u) ==
  IF uop[u].frame # NoFrame THEN [frame |-> uop[u].frame, tlb |-> tlb]
  ELSE LET i == CHOOSE i \in TlbIndex(uop[u].page) : TRUE
       IN [frame |-> tlb[i].frame, tlb |-> Touched(tlb, i)]
Translates(u) == uop[u].frame # NoFrame \/ lookup(uop[u].page)

\* TLB miss: join the walk of the page, or start one.
EnqueueWalk(u) ==
  LET i == {j \in DOMAIN walk_queue : walk_queue[j].page = uop[u].page}
  IN /\ walk_queue' =
          IF i # {} THEN [walk_queue EXCEPT ![CHOOSE j \in i : TRUE].uops = Append(@, u)]
          ELSE Append(walk_queue, [page |-> uop[u].page, left |-> WalkLatency, uops |-> <<u>>])
     /\ walks' = IF ParentOf[u] = NoParent THEN walks
                 ELSE [walks EXCEPT ![ParentOf[u]] = @ + 1]

AccessDenied(u, from) ==
  /\ Translates(u)
  /\ uop' = [uop EXCEPT ![u].frame = Translation(u).frame, ![u].st = from]
  /\ tlb' = Translation(u).tlb
  /\ UNCHANGED <<walk_queue, walks>>
AccessServed(u) ==       \* hit or miss in the cache: the uop leaves the MMU
  /\ Translates(u)
  /\ uop' = [uop EXCEPT ![u] = [st |-> "idle", page |-> NoPage, frame |-> NoFrame]]
  /\ tlb' = Translation(u).tlb
  /\ UNCHANGED <<walk_queue, walks>>
AccessWalks(u) ==
  /\ ~Translates(u)
  /\ uop' = [uop EXCEPT ![u].st = "walk"]
  /\ EnqueueWalk(u)
  /\ UNCHANGED tlb

----------------------------------------------------------------------------
(* The cores: exec_c::exec of a single uop or of a parent with children.     *)

\* A fresh uop (new uop_num, m_translated false) reaches the scheduler.
Fetch(u, n) ==
  /\ phase = "cores" /\ todo = <<>> /\ ParentOf[u] = NoParent /\ uop[u].st = "idle"
  /\ uop' = [uop EXCEPT ![u] = [st |-> "core", page |-> [pn |-> n, pid |-> Pid(u)],
                                frame |-> NoFrame]]
  /\ UNCHANGED <<phase, todo, pending, walks, fault_parents, mmu_vars, queue_vars, batch, failed>>
FetchParent(p, pn) ==
  LET kids == {u \in Uops : ParentOf[u] = p}
  IN /\ phase = "cores" /\ todo = <<>> /\ kids # {}
     /\ \A u \in kids : uop[u].st = "idle"
     /\ uop' = [u \in Uops |-> IF u \notin kids THEN uop[u]
                  ELSE [st |-> "core", page |-> [pn |-> pn[u], pid |-> Pid(u)], frame |-> NoFrame]]
     /\ pending' = [pending EXCEPT ![p] = kids]
     /\ fault_parents' = fault_parents \ {p}      \* keyed by the new uop_num
     /\ UNCHANGED <<phase, todo, walks, mmu_vars, queue_vars, batch, failed>>

ExecSingle(u) ==
  /\ phase = "cores" /\ todo = <<>> /\ ParentOf[u] = NoParent /\ uop[u].st = "core"
  /\ AccessDenied(u, "core") \/ AccessServed(u) \/ AccessWalks(u)
  /\ UNCHANGED <<phase, todo, pending, fault_parents, page_table, ru, free_frames,
                 frame_to_allocate, frame_dimm, retry_queue, fault_retry_queue, faults, processing,
                 batch, failed>>

\* exec() clears m_num_page_table_walks each time it visits the parent.
ExecParent(p) ==
  /\ phase = "cores" /\ todo = <<>> /\ pending[p] # {}
  /\ walks' = [walks EXCEPT ![p] = 0]
  /\ todo' = SetToSeq(pending[p])
  /\ UNCHANGED <<phase, uop, pending, fault_parents, mmu_vars, queue_vars, batch, failed>>

ExecChild ==
  /\ phase = "cores" /\ todo # <<>>
  /\ LET u == Head(todo)
     IN \/ AccessDenied(u, "core") /\ UNCHANGED pending
        \/ /\ AccessServed(u) \/ AccessWalks(u)
           /\ pending' = [pending EXCEPT ![ParentOf[u]] = @ \ {u}]
  /\ todo' = Tail(todo)
  /\ UNCHANGED <<phase, fault_parents, page_table, ru, free_frames, frame_to_allocate,
                 frame_dimm, retry_queue, fault_retry_queue, faults, processing, batch, failed>>

EndCores ==
  /\ phase = "cores" /\ todo = <<>> /\ phase' = "faults"
  /\ UNCHANGED <<todo, core_vars, mmu_vars, queue_vars, batch, failed>>

----------------------------------------------------------------------------
(* handle_page_faults                                                        *)

\* The state that resolving and evicting transform, as one value.
Memory == [pt |-> page_table, tlb |-> tlb, ru |-> ru, free |-> free_frames,
           next |-> frame_to_allocate, dimm |-> frame_dimm, failed |-> failed]
SetMemory(m) ==
  /\ page_table' = m.pt /\ tlb' = m.tlb /\ ru' = m.ru
  /\ free_frames' = m.free /\ frame_to_allocate' = m.next
  /\ frame_dimm' = m.dimm /\ failed' = m.failed

\* Swap out the least recently used page, asserting that it is mapped.
Evict(m) ==
  LET pg == [pn |-> m.ru.key[Last(m.ru.list)], pid |-> -1]
  IN IF pg \notin Page THEN [m EXCEPT !.failed = "victim_not_mapped"]
     ELSE IF m.pt[pg] = NoFrame THEN [m EXCEPT !.failed = "victim_not_mapped"]
     ELSE [m EXCEPT !.pt[pg] = NoFrame, !.tlb = invalidate(@, pg), !.ru = ru_getVictim(@),
                    !.free = @ \cup {m.pt[pg]}, !.next = m.pt[pg]]

\* The frame the next fault gets: the search goes round m_free_frames from
\* m_frame_to_allocate; KNOB_NO_PAGE_SWAP hands frames out in sequence.
FrameToAllocate ==
  IF NonSwap THEN frame_dimm
  ELSE LET at(d) == (frame_to_allocate + d) % NumFrames
           d == CHOOSE d \in 0 .. NumFrames - 1 :
                  at(d) \in free_frames /\ \A e \in 0 .. d - 1 : at(e) \notin free_frames
       IN at(d)

\* Map the page of the fault; ReplacementUnit::insert asserts it is new there.
Resolve(m, pg) ==
  LET mapped == [m EXCEPT !.pt[pg] = FrameToAllocate, !.next = FrameToAllocate]
  IN IF NonSwap THEN [mapped EXCEPT !.dimm = @ + 1]
     ELSE IF pg.pn \in DOMAIN m.ru.table
     THEN [m EXCEPT !.failed = "page_already_in_replacement_unit"]
     ELSE [mapped EXCEPT !.ru = ru_insert(@, pg.pn), !.free = @ \ {FrameToAllocate}]

PrepareWithoutEviction(m) == [m |-> m, wait |-> FaultLatency]
\* Make room for the next transfer: evict when no frame is free.
Prepare(m) ==
  IF m.failed # "none" THEN [m |-> m, wait |-> 0]
  ELSE IF NonSwap \/ m.free # {} THEN [m |-> m, wait |-> FaultLatency]
  ELSE [m |-> Evict(m), wait |-> EvictionLatency + FaultLatency]

\* begin_batch_processing when f, the fault buffer, is not empty.  The faults
\* are sorted by page number only; those of two processes come in any order.
BeginBatch(f) ==
  IF DOMAIN f = {}
  THEN /\ batch' = [on |-> FALSE, first |-> FALSE, wait |-> 0]
       /\ processing' = <<>> /\ faults' = f
  ELSE /\ batch' = [on |-> TRUE, first |-> FALSE, wait |-> BatchOverhead]
       /\ \E s \in SetToSeqs(DOMAIN f) :
            /\ \A i, j \in DOMAIN s : i < j => s[i].pn <= s[j].pn
            /\ processing' = [i \in DOMAIN s |-> [page |-> s[i], uops |-> f[s[i]]]]
       /\ faults' = [p \in {} |-> <<>>]

BatchWaits ==
  /\ batch.on /\ batch.wait > 0
  /\ UNCHANGED <<mmu_vars, queue_vars, uop, batch, failed>>

BatchPreparesFirst ==
  /\ batch.on /\ batch.wait = 0 /\ ~batch.first
  /\ LET r == Prepare(Memory)
     IN SetMemory(r.m) /\ batch' = [on |-> TRUE, first |-> TRUE, wait |-> r.wait]
  /\ UNCHANGED <<queue_vars, uop>>

\* The uops that faulted on the page since the batch began, and what is left
\* of the fault buffer without them.
LateUops(pg) == IF pg \in DOMAIN faults THEN faults[pg] ELSE <<>>
OtherFaults(pg) == [p \in DOMAIN faults \ {pg} |-> faults[p]]

\* Resolve the first fault, wake the uops of the batch that wait for the page
\* and those that faulted on it since, then prepare the next fault or end the
\* batch (and, back in handle_page_faults, begin the next one).
BatchResolves ==
  LET pg    == Head(processing).page
      woken == Head(processing).uops \o LateUops(pg)
      rest  == OtherFaults(pg)
      m     == Resolve(Memory, pg)
      next  == Prepare(m)
  IN /\ batch.on /\ batch.first /\ batch.wait = 0
     /\ retry_queue' = retry_queue \o woken
     /\ uop' = [u \in Uops |-> IF u \in ToSet(woken)
                               THEN [uop[u] EXCEPT !.st = "retry"] ELSE uop[u]]
     /\ IF Tail(processing) # <<>>
        THEN /\ SetMemory(next.m) /\ batch' = [batch EXCEPT !.wait = next.wait]
             /\ processing' = Tail(processing) /\ faults' = rest
        ELSE SetMemory(m) /\ BeginBatch(rest)
     /\ UNCHANGED <<walk_queue, fault_retry_queue>>

NoBatch ==
  /\ ~batch.on /\ BeginBatch(faults)
  /\ UNCHANGED <<mmu_vars, walk_queue, retry_queue, fault_retry_queue, uop, failed>>

HandlePageFaults ==
  /\ phase = "faults" /\ phase' = "mmu"
  /\ BatchWaits \/ BatchPreparesFirst \/ BatchResolves \/ NoBatch
  /\ UNCHANGED <<todo, pending, walks, fault_parents>>

----------------------------------------------------------------------------
(* MMU::run_a_cycle                                                          *)

\* ++m_cycle
TickWithoutCycle ==
  /\ phase' = "cores"
  /\ UNCHANGED <<todo, core_vars, mmu_vars, queue_vars, batch, failed>>
Tick ==
  /\ walk_queue' = [i \in DOMAIN walk_queue |->
                      [walk_queue[i] EXCEPT !.left = IF @ = 0 THEN 0 ELSE @ - 1]]
  /\ batch' = [batch EXCEPT !.wait = IF @ = 0 THEN 0 ELSE @ - 1]
  /\ phase' = "cores"
  /\ UNCHANGED <<todo, core_vars, mmu_vars, retry_queue, fault_retry_queue, faults,
                 processing, failed>>

PllLocked == phase = "mmu" /\ Tick

StartRetries ==
  /\ phase = "mmu" /\ phase' = "retry" /\ todo' = retry_queue
  /\ UNCHANGED <<core_vars, mmu_vars, queue_vars, batch, failed>>

Retry ==
  /\ phase = "retry" /\ todo # <<>>
  /\ LET u == Head(todo)
     IN \/ AccessDenied(u, "retry") /\ UNCHANGED retry_queue
        \/ /\ AccessServed(u) \/ AccessWalks(u)
           /\ retry_queue' = RemoveAt(retry_queue, PlaceOf(u, retry_queue))
  /\ todo' = Tail(todo)
  /\ UNCHANGED <<phase, pending, fault_parents, page_table, ru, free_frames,
                 frame_to_allocate, frame_dimm, fault_retry_queue, faults, processing, batch, failed>>

StartFaultRetries ==
  /\ phase = "retry" /\ todo = <<>> /\ phase' = "fault_retry"
  /\ IF DOMAIN faults = {}
     THEN todo' = fault_retry_queue /\ fault_retry_queue' = <<>>
     ELSE UNCHANGED <<todo, fault_retry_queue>>
  /\ UNCHANGED <<core_vars, mmu_vars, walk_queue, retry_queue, faults, processing,
                 batch, failed>>

\* do_page_table_walks, the page is mapped
WalkHits(u) ==
  LET pg == uop[u].page
      p  == ParentOf[u]
      i  == TlbIndex(pg)
  IN /\ page_table[pg] # NoFrame
     /\ uop' = [uop EXCEPT ![u].frame = page_table[pg], ![u].st = "retry"]
     /\ walks' = IF p = NoParent THEN walks
                 ELSE [walks EXCEPT ![p] = IF @ = 0 THEN 0 ELSE @ - 1]
     /\ tlb' = IF i = {} THEN Inserted(tlb, [page |-> pg, frame |-> page_table[pg]])
               ELSE Touched(tlb, CHOOSE j \in i : TRUE)
     /\ IF NonSwap THEN UNCHANGED <<ru, failed>>
        ELSE IF ru_find(pg.pn) THEN ru' = ru_update(ru, pg.pn) /\ UNCHANGED failed
        ELSE failed' = "page_not_in_replacement_unit" /\ UNCHANGED ru
     /\ retry_queue' = Append(retry_queue, u)
     /\ UNCHANGED <<fault_retry_queue, faults, fault_parents>>

\* do_page_table_walks, page fault while the fault buffer is full: only a child
\* uop whose parent has no accepted fault outstanding is put off.
FaultBufferFull(u) ==
  /\ ParentOf[u] # NoParent /\ ParentOf[u] \notin fault_parents
  /\ uop[u].page \notin DOMAIN faults
  /\ Cardinality(DOMAIN faults) >= FaultBufferSize
WalkPutOff(u) ==
  /\ page_table[uop[u].page] = NoFrame /\ FaultBufferFull(u)
  /\ uop' = [uop EXCEPT ![u].st = "fault_retry"]
  /\ fault_retry_queue' = Append(fault_retry_queue, u)
  /\ UNCHANGED <<walks, tlb, ru, retry_queue, faults, fault_parents, failed>>
WalkFaults(u) ==
  LET pg == uop[u].page
      p  == ParentOf[u]
  IN /\ page_table[pg] = NoFrame /\ ~FaultBufferFull(u)
     /\ uop' = [uop EXCEPT ![u].st = "fault"]
     /\ faults' = [q \in DOMAIN faults \cup {pg} |->
                     IF q # pg THEN faults[q]
                     ELSE IF q \in DOMAIN faults THEN Append(faults[q], u) ELSE <<u>>]
     /\ IF p = NoParent THEN UNCHANGED <<walks, fault_parents>>
        ELSE /\ walks' = [walks EXCEPT ![p] = @ - 1]
             \* the last walk of a parent drops the set of the whole thread
             /\ fault_parents' = IF walks[p] # 1 THEN fault_parents \cup {p} ELSE {}
     /\ UNCHANGED <<tlb, ru, retry_queue, fault_retry_queue, failed>>

do_page_table_walks(u) ==
  /\ WalkHits(u) \/ WalkPutOff(u) \/ WalkFaults(u)
  /\ UNCHANGED <<pending, page_table, free_frames, frame_to_allocate, frame_dimm, processing,
                 batch>>

FaultRetry ==
  /\ phase = "fault_retry" /\ todo # <<>>
  /\ do_page_table_walks(Head(todo))
  /\ todo' = Tail(todo) /\ UNCHANGED <<phase, walk_queue>>

StartWalks ==
  /\ phase = "fault_retry" /\ todo = <<>> /\ phase' = "walk"
  /\ UNCHANGED <<todo, core_vars, mmu_vars, queue_vars, batch, failed>>

WalkDue == walk_queue # <<>> /\ Head(walk_queue).left = 0
Walk ==
  /\ phase = "walk" /\ WalkDue
  /\ LET w == Head(walk_queue)
     IN /\ do_page_table_walks(Head(w.uops))
        /\ walk_queue' = IF Len(w.uops) = 1 THEN Tail(walk_queue)
                         ELSE <<[w EXCEPT !.uops = Tail(@)]>> \o Tail(walk_queue)
  /\ UNCHANGED <<phase, todo>>

EndCycle == phase = "walk" /\ ~WalkDue /\ Tick

MmuStep ==
  \/ HandlePageFaults \/ PllLocked \/ StartRetries \/ Retry
  \/ StartFaultRetries \/ FaultRetry \/ StartWalks \/ Walk \/ EndCycle
CoreStep ==
  \/ \E u \in Uops : \/ ExecSingle(u)
                     \/ \E n \in PageNums : Fetch(u, n)
  \/ \E p \in Parents :
       \/ ExecParent(p)
       \/ \E pn \in [{u \in Uops : ParentOf[u] = p} -> PageNums] : FetchParent(p, pn)
  \/ ExecChild \/ EndCores
Running == failed = "none" /\ UNCHANGED knob
Next == Running /\ (MmuStep \/ CoreStep)

Spec == Init /\ [][Next]_vars

(* Every cycle ends: the core loop visits finitely many uops, the MMU loops  *)
(* finite queues, and m_pll_lockout counts down to 0.                        *)
FairSpec == Spec /\ WF_vars(Running /\ MmuStep) /\ SF_vars(Running /\ StartRetries)
                 /\ SF_vars(Running /\ EndCores) /\ WF_vars(Running /\ ExecChild)

----------------------------------------------------------------------------
(* Properties                                                                *)

\* The four views of the mapping agree after every step of a fault, eviction
\* or walk: the TLB holds each page at most once and with the frame of the page
\* table; a frame is free (m_free_frames) or holds exactly one page; and the
\* replacement unit lists the mapped pages, each once, so that the victim it
\* names is mapped (one address space, KNOB_FOOL_PAGE_TABLE).
MappingsAgree ==
  /\ \A i \in DOMAIN tlb : /\ page_table[tlb[i].page] = tlb[i].frame
                           /\ \A j \in DOMAIN tlb : tlb[i].page = tlb[j].page => i = j
  /\ \A p, q \in Page : p # q /\ page_table[p] # NoFrame => page_table[p] # page_table[q]
  /\ NonSwap \/ free_frames = Frame \ {page_table[p] : p \in Page}
  /\ failed = "none" /\ ~NonSwap =>
       /\ {ru.key[ru.list[i]] : i \in DOMAIN ru.list} =
            {p.pn : p \in {q \in Page : page_table[q] # NoFrame}}
       /\ IsInjective([i \in DOMAIN ru.list |-> ru.key[ru.list[i]]])

\* "on m_batch_processing_next_event_cycle, a free page is ensured": once a
\* transfer has been prepared a frame stays free until it is resolved.
FreeFrameEnsured ==
  failed = "none" /\ batch.on /\ batch.first => NonSwap \/ free_frames # {}

\* A translation a uop holds (m_translated, m_paddr) is the current one when
\* the access that was denied is tried again; without page swapping.
TranslationIsCurrent ==
  NonSwap => \A u \in Uops :
    uop[u].frame # NoFrame => page_table[uop[u].page] = uop[u].frame

\* A uop that misses the TLB is translated in the end: it is woken from the
\* fault buffer, from the fault retry queue and from the walk queue, unless an
\* assert stops the program first.
MissIsTranslated ==
  \A u \in Uops :
    uop[u].st = "walk" ~> (uop[u].frame # NoFrame \/ uop[u].st = "idle" \/ failed # "none")

\* assert(it == m_table.end()) in ReplacementUnit::insert: a page that is
\* brought in is unknown to the replacement unit.
InsertedPageIsNew == failed # "page_already_in_replacement_unit"

============================================================================
