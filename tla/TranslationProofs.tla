------------------------- MODULE TranslationProofs -------------------------
(***************************************************************************)
(* Virtual memory, for all uops, pages, latencies, knobs and sizes: every  *)
(* step of the MMU keeps the invariant of MmuProofs, so page table, TLB,   *)
(* free frames and replacement unit always agree, and without page         *)
(* swapping a translation stays current.                                   *)
(***************************************************************************)
EXTENDS MmuProofs

-----------------------------------------------------------------------------
(* Page table walks                                                        *)

\* The fault buffer after uop u has faulted on page pg.
FaultsWith(fs, pg, u) ==
    [q \in DOMAIN fs \cup {pg} |->
        IF q # pg THEN fs[q] ELSE IF q \in DOMAIN fs THEN Append(fs[q], u) ELSE <<u>>]

\* Of fault buffer fs, with the one uop u more.
OneMore(fs, gs, u) ==
    \A q \in DOMAIN gs : \/ q \in DOMAIN fs /\ gs[q] = fs[q]
                         \/ q \in DOMAIN fs /\ Elements(gs[q]) = Elements(fs[q]) \cup {u}
                         \/ Elements(gs[q]) = {u}

\* One uop, in a state other than "fault", joins those that wait for page pg.
LEMMA FaultJoined ==
    ASSUME NEW P, NEW f, NEW g, NEW pt, NEW fs, FaultsRight(P, f, pt, fs), NEW u \in Uops,
           f[u].st # "fault", \A v \in Uops : v # u => g[v] = f[v],
           NEW pg \in P, pt[pg] = NoFrame, g[u].st = "fault", g[u].page = pg,
           NEW gs, gs = FaultsWith(fs, pg, u)
    PROVE  FaultsRight(P, g, pt, gs) /\ OneMore(fs, gs, u)
<1> DEFINE D == DOMAIN fs \cup {pg}
<1>1. /\ DOMAIN gs = D /\ gs = [q \in D |-> gs[q]]
      /\ \A q \in D : q # pg => q \in DOMAIN fs /\ gs[q] = fs[q]
      /\ pg \in DOMAIN fs => gs[pg] = Append(fs[pg], u)
      /\ pg \notin DOMAIN fs => gs[pg] = <<u>>
    BY DEF FaultsWith
<1>2. IsFiniteSet(D) /\ D \subseteq P
  <2>1. IsFiniteSet(DOMAIN fs) /\ DOMAIN fs \subseteq P
      BY DEF FaultsRight
  <2> QED
      BY <2>1, FS_AddElement, Zenon
<1>3. \A q \in DOMAIN fs : /\ Holds(f, fs[q], "fault") /\ OfPage(f, fs[q], q) /\ pt[q] = NoFrame
                           /\ u \notin Elements(fs[q])
    BY DEF FaultsRight, Holds
<1>4. \A q \in DOMAIN fs : Holds(g, fs[q], "fault") /\ OfPage(g, fs[q], q)
    BY <1>3, HoldsOther, Zenon
<1>5. /\ Holds(g, gs[pg], "fault") /\ OfPage(g, gs[pg], pg)
      /\ pg \in DOMAIN fs => Elements(gs[pg]) = Elements(fs[pg]) \cup {u}
      /\ pg \notin DOMAIN fs => Elements(gs[pg]) = {u}
  <2>1. CASE pg \in DOMAIN fs
    <3>1. /\ gs[pg] = Append(fs[pg], u) /\ u \notin Elements(fs[pg])
          /\ Holds(g, fs[pg], "fault") /\ OfPage(g, fs[pg], pg)
        BY <1>1, <1>3, <1>4, <2>1, Zenon
    <3> QED
        BY ONLY <2>1, <3>1, u \in Uops, g[u].st = "fault", g[u].page = pg, HoldsJoined
  <2>2. CASE pg \notin DOMAIN fs
    <3>1. gs[pg] = <<u>> /\ g[u].st = "fault" /\ g[u].page = pg /\ u \in Uops
        BY <1>1, <2>2
    <3> QED
        BY ONLY <2>2, <3>1, HoldsOne
  <2> QED
      BY <2>1, <2>2, Zenon
<1> HIDE DEF D
<1>6. \A q \in D : q = pg \/ (q \in DOMAIN fs /\ q # pg /\ gs[q] = fs[q])
    BY <1>1, Zenon
<1>7. \A q \in D : Holds(g, gs[q], "fault") /\ OfPage(g, gs[q], q) /\ pt[q] = NoFrame
    BY <1>3, <1>4, <1>5, <1>6, Zenon
<1>8. gs \in [D -> Seq(Uops)]
  <2>1. \A q \in D : gs[q] \in Seq(Uops)
      BY <1>7, Zenon DEF Holds
  <2> QED
      BY <1>1, <2>1, Zenon
<1>9. FaultsRight(P, g, pt, gs)
    BY <1>1, <1>2, <1>7, <1>8, Zenon DEF FaultsRight
<1> QED
    BY <1>1, <1>5, <1>6, <1>9, Zenon DEF OneMore

\* Uops of the batch do not fault again.
LEMMA ApartJoined ==
    ASSUME NEW P, NEW f, NEW pt, NEW b, BatchRight(P, f, pt, b), NEW fs, Apart(b, fs), NEW u,
           f[u].st # "fault", NEW gs, OneMore(fs, gs, u)
    PROVE  Apart(b, gs)
<1>1. \A i \in 1..Len(b) : u \notin Elements(b[i].uops)
    BY DEF BatchRight, Holds
<1> SUFFICES ASSUME NEW i \in 1..Len(b), b[i].page \in DOMAIN gs
             PROVE  Elements(b[i].uops) \cap Elements(gs[b[i].page]) = {}
    BY DEF Apart
<1> DEFINE q == b[i].page
<1>2. q \in DOMAIN fs => Elements(b[i].uops) \cap Elements(fs[q]) = {}
    BY Zenon DEF Apart
<1> QED
    BY <1>1, <1>2, Zenon DEF OneMore

\* What do_page_table_walks leaves of the queues: those of the other uops, and
\* the one it has put uop u into.
WalkedTo(u) ==
    /\ FaultsRight(Page, uop', page_table', faults') /\ Apart(processing', faults')
    /\ Holds(uop', retry_queue', "retry") /\ Holds(uop', fault_retry_queue', "fault_retry")
    /\ Elements(fault_retry_queue') \subseteq Elements(fault_retry_queue) \cup {u}

LEMMA Walked ==
    ASSUME knob' = knob, knob \in Knobs, failed = "none", MemInv, QueuesRight, TranslationIsCurrent,
           NEW u \in Uops, NEW from \in {"walk", "fault_retry"}, uop[u].st = from,
           u \notin Elements(fault_retry_queue), do_page_table_walks(u)
    PROVE  /\ MemInv' /\ TranslationIsCurrent' /\ UopsRight(Page, uop') /\ WalkedTo(u)
           /\ \A v \in Uops : v # u => uop'[v] = uop[v]
           /\ BatchRight(Page, uop', page_table', processing') /\ PendingRight(uop', pending')
<1> DEFINE pg == uop[u].page
<1>1. /\ uop[u] \in UopSet /\ pg \in Page /\ UopsRight(Page, uop)
      /\ Holds(uop, retry_queue, "retry") /\ Holds(uop, fault_retry_queue, "fault_retry")
      /\ FaultsRight(Page, uop, page_table, faults)
      /\ BatchRight(Page, uop, page_table, processing) /\ Apart(processing, faults)
      /\ PendingRight(uop, pending)
    BY DEF QueuesRight, UopsRight, UopSet
<1>2. /\ UNCHANGED <<pending, page_table, free_frames, frame_to_allocate, frame_dimm, processing>>
      /\ WalkHits(u) \/ WalkPutOff(u) \/ WalkFaults(u)
    BY DEF do_page_table_walks
<1>3. /\ MapRight(Page, page_table) /\ TlbRight(Page, page_table, tlb)
      /\ ~NonSwap => NodesRight(NumFrames, ru) /\ KeysRight(Page, page_table, ru)
    BY MemParts, Zenon
<1>4. u \notin Elements(retry_queue)
    BY <1>1 DEF Holds
<1>5. PICK a, b, c : uop[u] = [st |-> a, page |-> b, frame |-> c]
    BY <1>1, Zenon DEF UopSet
<1>6. uop[u].frame \in Nat \cup {NoFrame}
      /\ (NonSwap /\ uop[u].frame # NoFrame => page_table[pg] = uop[u].frame)
    BY <1>1, Zenon DEF UopSet, TranslationIsCurrent
<1>7. ASSUME NEW x \in UopSet, uop' = [uop EXCEPT ![u] = x], x.page = pg, x.st # "idle",
             x.frame = NoFrame \/ x.frame = uop[u].frame \/ x.frame = page_table[pg]
      PROVE  /\ TranslationIsCurrent' /\ UopsRight(Page, uop') /\ uop'[u] = x
             /\ \A v \in Uops : v # u => uop'[v] = uop[v]
             /\ BatchRight(Page, uop', page_table', processing') /\ PendingRight(uop', pending')
             /\ Holds(uop', retry_queue, "retry") /\ Holds(uop', fault_retry_queue, "fault_retry")
  <2>1. /\ TranslationIsCurrent' /\ UopsRight(Page, uop') /\ uop'[u] = x
        /\ \A v \in Uops : v # u => uop'[v] = uop[v]
      BY <1>1, <1>2, <1>6, <1>7, UopChanged, Zenon
  <2>2. Stays(uop, uop', "fault") /\ Stays(uop, uop', "core")
      BY <2>1 DEF Stays
  <2>3. BatchRight(Page, uop', page_table', processing') /\ PendingRight(uop', pending')
      BY <1>1, <1>2, <2>2, BatchKept, PendingKept, Zenon
  <2>4. Holds(uop', retry_queue, "retry") /\ Holds(uop', fault_retry_queue, "fault_retry")
      BY <1>1, <1>4, <2>1, HoldsOther, Zenon
  <2> QED
      BY <2>1, <2>3, <2>4, Zenon
<1>8. CASE WalkHits(u)
  <2> DEFINE x == [st |-> "retry", page |-> pg, frame |-> page_table[pg]]
  <2>1. page_table[pg] \in Nat
      BY <1>1, <1>3, <1>8, Zenon DEF WalkHits, MapRight
  <2>2. uop' = [uop EXCEPT ![u] = x]
    <3> DEFINE y == page_table[pg]
    <3>1. uop' = [uop EXCEPT ![u] = [[uop[u] EXCEPT !.frame = y] EXCEPT !.st = "retry"]]
        BY <1>8, Zenon DEF WalkHits
    <3> HIDE DEF y
    <3>2. [uop[u] EXCEPT !.frame = y] = [st |-> a, page |-> b, frame |-> y] /\ uop[u].page = b
        BY ONLY <1>5
    <3>3. [[st |-> a, page |-> b, frame |-> y] EXCEPT !.st = "retry"] = [st |-> "retry", page |-> b, frame |-> y]
        OBVIOUS
    <3> QED
        BY <3>1, <3>2, <3>3, Zenon DEF y
  <2>3. x \in UopSet /\ x.page = pg /\ x.st = "retry" /\ x.frame = page_table[pg]
      BY <1>1, <2>1, Zenon DEF UopSet, States
  <2>4. TlbRight(Page, page_table, tlb')
    <3>1. CASE TlbIndex(pg) = {}
      <4>1. tlb' = Inserted(tlb, [page |-> pg, frame |-> page_table[pg]])
          BY <1>8, <3>1, Zenon DEF WalkHits
      <4>2. \A i \in 1..Len(tlb) : tlb[i].page # pg
          BY <1>3, <3>1, ElementsIn DEF TlbIndex, TlbRight
      <4> QED
          BY <1>1, <1>3, <2>1, <4>1, <4>2, TlbInserted, Zenon
    <3>2. CASE TlbIndex(pg) # {}
      <4>1. PICK i \in TlbIndex(pg) : tlb' = Touched(tlb, i)
          BY <1>8, <3>2, Zenon DEF WalkHits
      <4>2. i \in 1..Len(tlb)
          BY <1>3, <4>1, ElementsIn, Zenon DEF TlbIndex, TlbRight
      <4> QED
          BY <1>3, <4>1, <4>2, TlbTouched, Zenon
    <3> QED
        BY <3>1, <3>2, Zenon
  <2>5. failed' = "none" /\ ~NonSwap => /\ NodesRight(NumFrames, ru')
                                        /\ KeysRight(Page, page_table, ru')
    <3> SUFFICES ASSUME failed' = "none", ~NonSwap
                 PROVE  NodesRight(NumFrames, ru') /\ KeysRight(Page, page_table, ru')
        OBVIOUS
    <3>1. /\ pg.pn \in DOMAIN ru.table /\ NodesRight(NumFrames, ru_update(ru, pg.pn))
          /\ KeysRight(Page, page_table, ru_update(ru, pg.pn))
      <4>1. NumFrames \in Nat /\ page_table[pg] # NoFrame
          BY <1>8, KnobTerms, Zenon DEF WalkHits
      <4> QED
          BY <1>1, <1>3, <4>1, NodesUpdated, Zenon
    <3>2. ru' = ru_update(ru, pg.pn)
        BY <1>8, <3>1, Zenon DEF WalkHits, ru_find
    <3> QED
        BY <3>1, <3>2, Zenon
  <2>6. MemInv'
      BY <1>2, <2>4, <2>5, MemTouched, Zenon
  <2> HIDE DEF x
  <2>7. /\ TranslationIsCurrent' /\ UopsRight(Page, uop') /\ uop'[u] = x
        /\ \A v \in Uops : v # u => uop'[v] = uop[v]
        /\ BatchRight(Page, uop', page_table', processing') /\ PendingRight(uop', pending')
        /\ Holds(uop', retry_queue, "retry") /\ Holds(uop', fault_retry_queue, "fault_retry")
      BY <1>7, <2>2, <2>3, Zenon
  <2>8. Holds(uop', retry_queue', "retry")
    <3>1. retry_queue' = Append(retry_queue, u)
        BY <1>8, Zenon DEF WalkHits
    <3> QED
        BY <1>4, <2>3, <2>7, <3>1, HoldsJoined, Zenon
  <2>9. Stays(uop, uop', "fault")
      BY <2>7, Zenon DEF Stays
  <2>10. faults' = faults /\ fault_retry_queue' = fault_retry_queue
      BY <1>8, Zenon DEF WalkHits
  <2>11. FaultsRight(Page, uop', page_table', faults')
      BY <1>1, <1>2, <2>9, <2>10, FaultsKept, Zenon
  <2>12. WalkedTo(u)
      BY <1>1, <1>2, <2>7, <2>8, <2>10, <2>11, Zenon DEF WalkedTo
  <2> QED
      BY <2>6, <2>7, <2>12, Zenon

<1>9. ASSUME NEW st \in {"fault_retry", "fault"}, uop' = [uop EXCEPT ![u].st = st],
             UNCHANGED <<tlb, ru, failed>>
      PROVE  /\ TranslationIsCurrent' /\ UopsRight(Page, uop')
             /\ uop'[u].st = st /\ uop'[u].page = pg
             /\ \A v \in Uops : v # u => uop'[v] = uop[v]
             /\ BatchRight(Page, uop', page_table', processing') /\ PendingRight(uop', pending')
             /\ Holds(uop', retry_queue, "retry") /\ Holds(uop', fault_retry_queue, "fault_retry")
             /\ MemInv'
  <2> DEFINE x == [st |-> st, page |-> pg, frame |-> uop[u].frame]
  <2>1. uop' = [uop EXCEPT ![u] = x]
    <3>1. [uop[u] EXCEPT !.st = st] = x
        BY ONLY <1>5
    <3> QED
        BY <1>9, <3>1, Zenon
  <2>2. x \in UopSet /\ x.page = pg /\ x.st = st /\ x.frame = uop[u].frame /\ st # "idle"
      BY <1>1, <1>6, <1>9, Zenon DEF UopSet, States
  <2> HIDE DEF x
  <2>3. MemInv'
      BY <1>2, <1>3, <1>9, MemTouched, Zenon
  <2> QED
      BY <1>7, <2>1, <2>2, <2>3, Zenon
<1>10. CASE WalkPutOff(u)
  <2>1. /\ uop' = [uop EXCEPT ![u].st = "fault_retry"]
        /\ fault_retry_queue' = Append(fault_retry_queue, u)
        /\ UNCHANGED <<tlb, ru, retry_queue, faults, failed>>
      BY <1>10, Zenon DEF WalkPutOff
  <2>2. /\ TranslationIsCurrent' /\ UopsRight(Page, uop')
        /\ uop'[u].st = "fault_retry" /\ uop'[u].page = pg
        /\ \A v \in Uops : v # u => uop'[v] = uop[v]
        /\ BatchRight(Page, uop', page_table', processing') /\ PendingRight(uop', pending')
        /\ Holds(uop', retry_queue, "retry") /\ Holds(uop', fault_retry_queue, "fault_retry")
        /\ MemInv'
      BY <1>9, <2>1, Zenon
  <2>3. /\ Holds(uop', fault_retry_queue', "fault_retry")
        /\ Elements(fault_retry_queue') = Elements(fault_retry_queue) \cup {u}
      BY <2>1, <2>2, HoldsJoined, Zenon
  <2>4. Stays(uop, uop', "fault")
      BY <2>2, Zenon DEF Stays
  <2>5. FaultsRight(Page, uop', page_table', faults')
      BY <1>1, <1>2, <2>1, <2>4, FaultsKept
  <2>6. WalkedTo(u)
      BY <1>1, <1>2, <2>1, <2>2, <2>3, <2>5, Zenon DEF WalkedTo
  <2> QED
      BY <2>2, <2>6, Zenon
<1>11. CASE WalkFaults(u)
  <2>1. /\ page_table[pg] = NoFrame /\ uop' = [uop EXCEPT ![u].st = "fault"]
        /\ faults' = [q \in DOMAIN faults \cup {pg} |->
                        IF q # pg THEN faults[q]
                        ELSE IF q \in DOMAIN faults THEN Append(faults[q], u) ELSE <<u>>]
        /\ UNCHANGED <<tlb, ru, retry_queue, fault_retry_queue, failed>>
      BY <1>11, Zenon DEF WalkFaults
  <2>2. /\ TranslationIsCurrent' /\ UopsRight(Page, uop')
        /\ uop'[u].st = "fault" /\ uop'[u].page = pg
        /\ \A v \in Uops : v # u => uop'[v] = uop[v]
        /\ BatchRight(Page, uop', page_table', processing') /\ PendingRight(uop', pending')
        /\ Holds(uop', retry_queue, "retry") /\ Holds(uop', fault_retry_queue, "fault_retry")
        /\ MemInv'
      BY <1>9, <2>1, Zenon
  <2> HIDE DEF pg
  <2>3. FaultsRight(Page, uop', page_table, faults') /\ OneMore(faults, faults', u)
    <3>1. uop[u].st # "fault"
        OBVIOUS
    <3>3. faults' = FaultsWith(faults, pg, u)
        BY <2>1, Zenon DEF FaultsWith
    <3>4. /\ page_table[pg] = NoFrame /\ uop'[u].st = "fault" /\ uop'[u].page = pg
          /\ \A v \in Uops : v # u => uop'[v] = uop[v]
        BY <2>1, <2>2, Zenon
    <3>2. FaultsRight(Page, uop, page_table, faults) /\ pg \in Page /\ u \in Uops
        BY <1>1, Zenon
    <3> QED
        BY ONLY <3>1, <3>2, <3>3, <3>4, FaultJoined, Zenon
  <2>4. Apart(processing, faults')
      BY <1>1, <2>3, ApartJoined, Zenon
  <2>5. WalkedTo(u)
      BY <1>2, <2>1, <2>2, <2>3, <2>4, Zenon DEF WalkedTo
  <2> QED
      BY <2>2, <2>5, Zenon
<1> QED
    BY <1>2, <1>8, <1>10, <1>11, Zenon

-----------------------------------------------------------------------------
(* The actions                                                             *)

\* What a step may rely on, and what it has to leave.
Before ==
    /\ knob' = knob /\ failed = "none"
    /\ IInv /\ MemInv /\ QueuesRight /\ TranslationIsCurrent
After == MemInv' /\ QueuesRight' /\ TranslationIsCurrent'

LEMMA BeforeParts ==
    ASSUME Before
    PROVE  /\ knob' = knob /\ knob \in Knobs /\ failed = "none" /\ MemInv /\ TranslationIsCurrent
           /\ UopsRight(Page, uop) /\ WalksRight(Page, uop, walk_queue)
           /\ Holds(uop, retry_queue, "retry") /\ Holds(uop, fault_retry_queue, "fault_retry")
           /\ FaultsRight(Page, uop, page_table, faults)
           /\ BatchRight(Page, uop, page_table, processing) /\ Apart(processing, faults)
           /\ (batch.on => processing # <<>>) /\ PendingRight(uop, pending)
           /\ TodoRight(uop, phase, todo, pending, retry_queue, fault_retry_queue)
  BY DEF Before, IInv, QueuesRight

\* Nothing left to visit.
LEMMA TodoEmpty ==
    ASSUME NEW f, NEW ph, NEW s, s = <<>>, NEW pend, NEW rq, NEW frq
    PROVE  TodoRight(f, ph, s, pend, rq, frq)
<1>1. s \in Seq(Uops) /\ Len(s) = 0
    OBVIOUS
<1>2. Elements(s) = {} /\ Distinct(s)
    BY <1>1 DEF Elements, Distinct
<1> QED
    BY <1>1, <1>2, Zenon DEF TodoRight

\* The next uop that the loop of a phase visits.
LEMMA TodoNext ==
    ASSUME Before, todo # <<>>
    PROVE  /\ Head(todo) \in Uops /\ Head(todo) \in Elements(todo)
           /\ Tail(todo) \in Seq(Uops) /\ Distinct(Tail(todo))
           /\ Elements(Tail(todo)) = Elements(todo) \ {Head(todo)}
           /\ phase = "cores" =>
                 \A u \in Elements(todo) : ParentOf[u] \in Parents /\ u \in pending[ParentOf[u]]
           /\ phase = "retry" => Elements(todo) \subseteq Elements(retry_queue)
           /\ phase = "fault_retry" =>
                 \A u \in Elements(todo) : /\ uop[u].st = "fault_retry"
                                           /\ u \notin Elements(fault_retry_queue)
<1>1. TodoRight(uop, phase, todo, pending, retry_queue, fault_retry_queue)
    BY BeforeParts, Zenon
<1>2. todo \in Seq(Uops) /\ Distinct(todo)
    BY <1>1, Zenon DEF TodoRight
<1>3. /\ Head(todo) \in Uops /\ Head(todo) \in Elements(todo)
      /\ Tail(todo) \in Seq(Uops) /\ Distinct(Tail(todo))
      /\ Elements(Tail(todo)) = Elements(todo) \ {Head(todo)}
    BY <1>2, TailRight, Zenon
<1> QED
    BY <1>1, <1>3, Zenon DEF TodoRight

\* What an access leaves, but for the queue that its uop comes from.
AccessStep(u, from) == AccessDenied(u, from) \/ AccessServed(u) \/ AccessWalks(u)

LEMMA AccessOthers ==
    ASSUME Before, NEW u \in Uops, NEW from \in {"core", "retry"}, uop[u].st = from,
           AccessStep(u, from),
           UNCHANGED <<page_table, ru, free_frames, frame_to_allocate, frame_dimm,
                       fault_retry_queue, faults, processing, batch, failed>>
    PROVE  /\ MemInv' /\ TranslationIsCurrent'
           /\ UopsRight(Page, uop') /\ WalksRight(Page, uop', walk_queue')
           /\ \A v \in Uops : v # u => uop'[v] = uop[v]
           /\ AccessDenied(u, from) => uop'[u].st = from
           /\ Holds(uop', fault_retry_queue', "fault_retry")
           /\ FaultsRight(Page, uop', page_table', faults')
           /\ BatchRight(Page, uop', page_table', processing') /\ Apart(processing', faults')
           /\ batch'.on => processing' # <<>>
           /\ from = "core" => Holds(uop', retry_queue, "retry")
           /\ from = "retry" => PendingRight(uop', pending)
<1>1. /\ MemInv' /\ TranslationIsCurrent'
      /\ UopsRight(Page, uop') /\ WalksRight(Page, uop', walk_queue')
      /\ \A v \in Uops : v # u => uop'[v] = uop[v]
      /\ AccessDenied(u, from) => uop'[u].st = from
    BY BeforeParts, Accessed, Zenon DEF AccessStep
<1>2. /\ Stays(uop, uop', "fault_retry") /\ Stays(uop, uop', "fault")
      /\ (from = "core" => Stays(uop, uop', "retry")) /\ (from = "retry" => Stays(uop, uop', "core"))
    BY <1>1, Zenon DEF Stays
<1>3. /\ Holds(uop', fault_retry_queue, "fault_retry")
      /\ from = "core" => Holds(uop', retry_queue, "retry")
    BY <1>2, BeforeParts, HoldsKept, Zenon
<1>4. FaultsRight(Page, uop', page_table, faults) /\ BatchRight(Page, uop', page_table, processing)
    BY <1>2, BeforeParts, FaultsKept, BatchKept, Zenon
<1>5. from = "retry" => PendingRight(uop', pending)
    BY <1>2, BeforeParts, PendingKept, Zenon
<1> QED
    BY <1>1, <1>3, <1>4, <1>5, BeforeParts, Zenon

LEMMA ExecSingleRight ==
    ASSUME Before, NEW u \in Uops, ExecSingle(u)
    PROVE  After
<1>1. /\ todo = <<>> /\ ParentOf[u] = NoParent /\ uop[u].st = "core" /\ AccessStep(u, "core")
      /\ UNCHANGED <<phase, todo, pending, page_table, ru, free_frames, frame_to_allocate,
                     frame_dimm, retry_queue, fault_retry_queue, faults, processing, batch, failed>>
    BY DEF ExecSingle, AccessStep
<1>2. /\ MemInv' /\ TranslationIsCurrent'
      /\ UopsRight(Page, uop') /\ WalksRight(Page, uop', walk_queue')
      /\ \A v \in Uops : v # u => uop'[v] = uop[v]
      /\ Holds(uop', fault_retry_queue', "fault_retry")
      /\ FaultsRight(Page, uop', page_table', faults')
      /\ BatchRight(Page, uop', page_table', processing') /\ Apart(processing', faults')
      /\ batch'.on => processing' # <<>>
      /\ Holds(uop', retry_queue, "retry")
    BY <1>1, AccessOthers, Zenon
<1>3. PendingRight(uop, pending) /\ knob' = knob
    BY BeforeParts, Zenon
<1>4. PendingRight(uop', pending)
    BY <1>1, <1>2, <1>3, ConstantsAssumption DEF PendingRight
<1>5. TodoRight(uop', phase', todo', pending', retry_queue', fault_retry_queue')
    BY <1>1, TodoEmpty, Zenon
<1>6. QueuesRight'
    BY <1>1, <1>2, <1>3, <1>4, <1>5, QueuesNext, Zenon
<1> QED
    BY <1>2, <1>6, Zenon DEF After

LEMMA ExecChildRight ==
    ASSUME Before, ExecChild
    PROVE  After
<1> DEFINE u == Head(todo)
<1>1. /\ phase = "cores" /\ todo # <<>> /\ AccessStep(u, "core") /\ todo' = Tail(todo)
      /\ \/ AccessDenied(u, "core") /\ pending' = pending
         \/ pending' = [pending EXCEPT ![ParentOf[u]] = @ \ {u}]
      /\ UNCHANGED <<phase, page_table, ru, free_frames, frame_to_allocate, frame_dimm,
                     retry_queue, fault_retry_queue, faults, processing, batch, failed>>
    BY Zenon DEF ExecChild, AccessStep
<1>2. /\ u \in Uops /\ u \in Elements(todo) /\ Tail(todo) \in Seq(Uops) /\ Distinct(Tail(todo))
      /\ Elements(Tail(todo)) = Elements(todo) \ {u}
      /\ \A v \in Elements(todo) : ParentOf[v] \in Parents /\ v \in pending[ParentOf[v]]
    BY <1>1, TodoNext, Zenon
<1>3. PendingRight(uop, pending) /\ knob' = knob
    BY BeforeParts, Zenon
<1>4. uop[u].st = "core"
    BY <1>2, <1>3 DEF PendingRight
<1> HIDE DEF u
<1>5. /\ MemInv' /\ TranslationIsCurrent'
      /\ UopsRight(Page, uop') /\ WalksRight(Page, uop', walk_queue')
      /\ \A v \in Uops : v # u => uop'[v] = uop[v]
      /\ AccessDenied(u, "core") => uop'[u].st = "core"
      /\ Holds(uop', fault_retry_queue', "fault_retry")
      /\ FaultsRight(Page, uop', page_table', faults')
      /\ BatchRight(Page, uop', page_table', processing') /\ Apart(processing', faults')
      /\ batch'.on => processing' # <<>>
      /\ Holds(uop', retry_queue, "retry")
    BY <1>1, <1>2, <1>4, AccessOthers, Zenon
<1>6. /\ PendingRight(uop', pending')
      /\ \A v \in Elements(Tail(todo)) : ParentOf[v] \in Parents /\ v \in pending'[ParentOf[v]]
  <2>1. /\ pending \in [Parents -> SUBSET Uops]
        /\ \A p \in Parents : \A v \in pending[p] : ParentOf[v] = p /\ uop[v].st = "core"
      BY <1>3, Zenon DEF PendingRight
  <2>2. CASE AccessDenied(u, "core") /\ pending' = pending
    <3>1. \A v \in Uops : uop[v].st = "core" => uop'[v].st = "core"
        BY <1>5, <2>2, Zenon
    <3> QED
        BY <1>2, <2>1, <2>2, <3>1, Zenon DEF PendingRight
  <2>3. CASE pending' = [pending EXCEPT ![ParentOf[u]] = @ \ {u}]
    <3>1. pending' \in [Parents -> SUBSET Uops]
        BY <1>2, <2>1, <2>3, Zenon
    <3>2. \A p \in Parents : \A v \in pending'[p] : v \in pending[p] /\ v # u
        BY <1>2, <2>1, <2>3, Zenon
    <3>3. \A p \in Parents : \A v \in pending[p] : v # u => v \in pending'[p]
        BY <1>2, <2>1, <2>3, Zenon
    <3>4. ASSUME NEW p \in Parents, NEW v \in pending'[p]
          PROVE  ParentOf[v] = p /\ uop'[v].st = "core"
      <4>1. v \in pending[p] /\ v # u
          BY <3>2, <3>4, Zenon
      <4>2. ParentOf[v] = p /\ uop[v].st = "core" /\ v \in Uops
          BY <2>1, <4>1, Zenon
      <4> QED
          BY <1>5, <4>1, <4>2, Zenon
    <3> QED
        BY <1>2, <3>1, <3>3, <3>4, Zenon DEF PendingRight
  <2> QED
      BY <1>1, <2>2, <2>3, Zenon
<1>7. TodoRight(uop', phase', todo', pending', retry_queue', fault_retry_queue')
    BY <1>1, <1>2, <1>6 DEF TodoRight
<1>8. QueuesRight'
    BY <1>1, <1>3, <1>5, <1>6, <1>7, QueuesNext, Zenon
<1> QED
    BY <1>5, <1>8, Zenon DEF After

LEMMA RetryRight ==
    ASSUME Before, Retry
    PROVE  After
<1> DEFINE u == Head(todo)
<1>1. /\ phase = "retry" /\ todo # <<>> /\ AccessStep(u, "retry") /\ todo' = Tail(todo)
      /\ \/ AccessDenied(u, "retry") /\ retry_queue' = retry_queue
         \/ retry_queue' = RemoveAt(retry_queue, PlaceOf(u, retry_queue))
      /\ UNCHANGED <<phase, pending, page_table, ru, free_frames, frame_to_allocate, frame_dimm,
                     fault_retry_queue, faults, processing, batch, failed>>
    BY DEF Retry, AccessStep
<1>2. /\ u \in Uops /\ u \in Elements(todo) /\ Tail(todo) \in Seq(Uops) /\ Distinct(Tail(todo))
      /\ Elements(Tail(todo)) = Elements(todo) \ {u}
      /\ Elements(todo) \subseteq Elements(retry_queue)
    BY <1>1, TodoNext
<1>3. Holds(uop, retry_queue, "retry") /\ knob' = knob
    BY BeforeParts
<1>4. uop[u].st = "retry" /\ u \in Elements(retry_queue)
    BY <1>2, <1>3 DEF Holds
<1> HIDE DEF u
<1>5. /\ MemInv' /\ TranslationIsCurrent'
      /\ UopsRight(Page, uop') /\ WalksRight(Page, uop', walk_queue')
      /\ \A v \in Uops : v # u => uop'[v] = uop[v]
      /\ AccessDenied(u, "retry") => uop'[u].st = "retry"
      /\ Holds(uop', fault_retry_queue', "fault_retry")
      /\ FaultsRight(Page, uop', page_table', faults')
      /\ BatchRight(Page, uop', page_table', processing') /\ Apart(processing', faults')
      /\ batch'.on => processing' # <<>>
      /\ PendingRight(uop', pending)
    BY <1>1, <1>2, <1>4, AccessOthers, Zenon
<1>6. Holds(uop', retry_queue', "retry") /\ Elements(Tail(todo)) \subseteq Elements(retry_queue')
  <2>1. retry_queue \in Seq(Uops) /\ Distinct(retry_queue) /\ Elements(retry_queue) \subseteq Uops
      BY <1>3, ElementsIn, Zenon DEF Holds
  <2>2. CASE AccessDenied(u, "retry") /\ retry_queue' = retry_queue
    <3>1. \A v \in Elements(retry_queue) : uop'[v].st = "retry"
        BY <1>3, <1>5, <2>1, <2>2, Zenon DEF Holds
    <3> QED
        BY <1>2, <2>1, <2>2, <3>1, Zenon DEF Holds
  <2>3. CASE retry_queue' = RemoveAt(retry_queue, PlaceOf(u, retry_queue))
    <3>1. PlaceOf(u, retry_queue) \in 1..Len(retry_queue) /\ retry_queue[PlaceOf(u, retry_queue)] = u
        BY <1>4, <2>1, PlaceRight, Zenon
    <3>2. /\ retry_queue' \in Seq(Uops) /\ Distinct(retry_queue')
          /\ Elements(retry_queue') = Elements(retry_queue) \ {u}
        BY <2>1, <2>3, <3>1, RemoveRight, Zenon
    <3>3. \A v \in Elements(retry_queue') : uop'[v].st = "retry"
        BY <1>3, <1>5, <2>1, <3>2, Zenon DEF Holds
    <3> QED
        BY <1>2, <3>2, <3>3, Zenon DEF Holds
  <2> QED
      BY <1>1, <2>2, <2>3, Zenon
<1>7. TodoRight(uop', phase', todo', pending', retry_queue', fault_retry_queue')
    BY <1>1, <1>2, <1>6, Zenon DEF TodoRight
<1>8. QueuesRight'
    BY <1>1, <1>3, <1>5, <1>6, <1>7, QueuesNext, Zenon
<1> QED
    BY <1>5, <1>8, Zenon DEF After

LEMMA FaultRetryRight ==
    ASSUME Before, FaultRetry
    PROVE  After
<1> DEFINE u == Head(todo)
<1>1. /\ phase = "fault_retry" /\ todo # <<>> /\ do_page_table_walks(u) /\ todo' = Tail(todo)
      /\ UNCHANGED <<phase, walk_queue, batch, processing>>
    BY Zenon DEF FaultRetry, do_page_table_walks
<1>2. /\ u \in Uops /\ u \in Elements(todo) /\ Tail(todo) \in Seq(Uops) /\ Distinct(Tail(todo))
      /\ Elements(Tail(todo)) = Elements(todo) \ {u}
      /\ \A v \in Elements(todo) : uop[v].st = "fault_retry" /\ v \notin Elements(fault_retry_queue)
    BY <1>1, TodoNext, Zenon
<1> HIDE DEF u
<1>3. /\ MemInv' /\ TranslationIsCurrent' /\ UopsRight(Page, uop') /\ WalkedTo(u)
      /\ \A v \in Uops : v # u => uop'[v] = uop[v]
      /\ BatchRight(Page, uop', page_table', processing') /\ PendingRight(uop', pending')
    BY <1>1, <1>2, Walked, Zenon DEF Before, IInv
<1>4. WalksRight(Page, uop', walk_queue')
    BY <1>1, <1>2, <1>3, BeforeParts, WalksOther, Zenon
<1>5. TodoRight(uop', phase', todo', pending', retry_queue', fault_retry_queue')
  <2>1. \A v \in Elements(Tail(todo)) : v \in Uops
      BY <1>2, ElementsIn, Zenon
  <2>2. Elements(fault_retry_queue') \subseteq Elements(fault_retry_queue) \cup {u}
      BY <1>3, Zenon DEF WalkedTo
  <2>3. \A v \in Elements(Tail(todo)) : uop'[v].st = "fault_retry" /\ v \notin Elements(fault_retry_queue')
      BY <1>2, <1>3, <2>1, <2>2, Zenon
  <2> QED
      BY <1>1, <1>2, <2>3, Zenon DEF TodoRight
<1>6. knob' = knob /\ (batch'.on => processing' # <<>>)
    BY <1>1, BeforeParts, Zenon
<1>7. QueuesRight'
    BY <1>3, <1>4, <1>5, <1>6, QueuesNext, Zenon DEF WalkedTo
<1> QED
    BY <1>3, <1>7, Zenon DEF After

LEMMA WalkRight ==
    ASSUME Before, Walk
    PROVE  After
<1> DEFINE w == Head(walk_queue)
           u == Head(w.uops)
           q == IF Len(w.uops) = 1 THEN Tail(walk_queue)
                ELSE <<[w EXCEPT !.uops = Tail(@)]>> \o Tail(walk_queue)
<1>1. /\ phase = "walk" /\ walk_queue # <<>> /\ do_page_table_walks(u) /\ walk_queue' = q
      /\ UNCHANGED <<phase, todo, batch, processing>>
    BY Zenon DEF Walk, WalkDue, do_page_table_walks
<1>2. WalksRight(Page, uop, walk_queue)
    BY BeforeParts, Zenon
<1>3. u \in Uops /\ uop[u].st = "walk"
    BY <1>1, <1>2, WalkLeft
<1>4. u \notin Elements(fault_retry_queue)
    BY <1>3, BeforeParts, Zenon DEF Holds
<1>5. /\ MemInv' /\ TranslationIsCurrent' /\ UopsRight(Page, uop') /\ WalkedTo(u)
      /\ \A v \in Uops : v # u => uop'[v] = uop[v]
      /\ BatchRight(Page, uop', page_table', processing') /\ PendingRight(uop', pending')
  <2> HIDE DEF u
  <2> QED
      BY <1>1, <1>3, <1>4, Walked, Zenon DEF Before, IInv
<1>6. WalksRight(Page, uop', q)
    BY <1>1, <1>2, <1>5, WalkLeft
<1>7. TodoRight(uop', phase', todo', pending', retry_queue', fault_retry_queue')
  <2>1. todo = <<>>
      BY <1>1, BeforeParts, Zenon DEF TodoRight
  <2> QED
      BY <1>1, <2>1, TodoEmpty, Zenon
<1>8. knob' = knob /\ (batch'.on => processing' # <<>>)
    BY <1>1, BeforeParts, Zenon
<1> HIDE DEF q, u
<1>9. QueuesRight'
    BY <1>1, <1>5, <1>6, <1>7, <1>8, QueuesNext, Zenon DEF WalkedTo
<1> QED
    BY <1>5, <1>9, Zenon DEF After

\* Steps that leave page table, TLB, frames and replacement unit alone.
LEMMA MemKept ==
    ASSUME Before, UNCHANGED <<mmu_vars, failed>>
    PROVE  MemInv' /\ page_table' = page_table
<1>1. /\ UNCHANGED <<page_table, free_frames, frame_to_allocate, frame_dimm>>
      /\ tlb' = tlb /\ ru' = ru /\ failed' = failed
    BY Zenon DEF mmu_vars
<1> QED
    BY <1>1, BeforeParts, MemParts, MemTouched, Zenon

\* Steps in which the uops that wait in the queues stay there.
LEMMA QueuesStay ==
    ASSUME Before, \A st \in {"walk", "retry", "fault_retry", "fault"} : Stays(uop, uop', st),
           page_table' = page_table, UNCHANGED queue_vars
    PROVE  /\ WalksRight(Page, uop', walk_queue')
           /\ Holds(uop', retry_queue', "retry") /\ Holds(uop', fault_retry_queue', "fault_retry")
           /\ FaultsRight(Page, uop', page_table', faults')
           /\ BatchRight(Page, uop', page_table', processing') /\ Apart(processing', faults')
<1>1. UNCHANGED <<walk_queue, retry_queue, fault_retry_queue, faults, processing>>
    BY DEF queue_vars
<1>2. /\ Stays(uop, uop', "walk") /\ Stays(uop, uop', "retry") /\ Stays(uop, uop', "fault_retry")
      /\ Stays(uop, uop', "fault")
    BY Zenon
<1>3. WalksRight(Page, uop', walk_queue)
    BY <1>2, BeforeParts, WalksKept, Zenon
<1>4. Holds(uop', retry_queue, "retry") /\ Holds(uop', fault_retry_queue, "fault_retry")
    BY <1>2, BeforeParts, HoldsKept, Zenon
<1>5. FaultsRight(Page, uop', page_table, faults) /\ BatchRight(Page, uop', page_table, processing)
    BY <1>2, BeforeParts, FaultsKept, BatchKept, Zenon
<1> QED
    BY <1>1, <1>3, <1>4, <1>5, BeforeParts, Zenon

\* Steps that change nothing but the phase and what is left to visit.
LEMMA QuietRight ==
    ASSUME Before, UNCHANGED <<uop, pending, mmu_vars, queue_vars, batch, failed>>,
           TodoRight(uop, phase', todo', pending, retry_queue, fault_retry_queue)
    PROVE  After
<1>1. MemInv' /\ page_table' = page_table
    BY MemKept, Zenon
<1>2. /\ WalksRight(Page, uop', walk_queue')
      /\ Holds(uop', retry_queue', "retry") /\ Holds(uop', fault_retry_queue', "fault_retry")
      /\ FaultsRight(Page, uop', page_table', faults')
      /\ BatchRight(Page, uop', page_table', processing') /\ Apart(processing', faults')
  <2>1. \A st \in {"walk", "retry", "fault_retry", "fault"} : Stays(uop, uop', st)
      BY Zenon DEF Stays
  <2> QED
      BY <1>1, <2>1, QueuesStay, Zenon
<1>3. /\ UopsRight(Page, uop') /\ PendingRight(uop', pending') /\ knob' = knob
      /\ batch'.on => processing' # <<>>
      /\ TodoRight(uop', phase', todo', pending', retry_queue', fault_retry_queue')
    BY BeforeParts, Zenon DEF queue_vars
<1>4. TranslationIsCurrent'
    BY <1>1, BeforeParts, CurrentNext, Zenon DEF TranslationIsCurrent
<1>5. QueuesRight'
    BY <1>2, <1>3, QueuesNext, Zenon
<1> QED
    BY <1>1, <1>4, <1>5, Zenon DEF After

LEMMA StartRetriesRight ==
    ASSUME Before, StartRetries
    PROVE  After
<1>1. Holds(uop, retry_queue, "retry")
    BY BeforeParts, Zenon
<1>2. TodoRight(uop, phase', todo', pending, retry_queue, fault_retry_queue)
    BY <1>1, Zenon DEF StartRetries, TodoRight, Holds
<1> QED
    BY <1>2, QuietRight, Zenon DEF StartRetries, core_vars

LEMMA StartFaultRetriesRight ==
    ASSUME Before, StartFaultRetries
    PROVE  After
<1>1. Holds(uop, fault_retry_queue, "fault_retry")
    BY BeforeParts, Zenon
<1>2. CASE DOMAIN faults # {}
  <2>1. TodoRight(uop, phase', todo', pending, retry_queue, fault_retry_queue)
      BY <1>2, TodoEmpty, Zenon DEF StartFaultRetries
  <2> QED
      BY <1>2, <2>1, QuietRight, Zenon DEF StartFaultRetries, core_vars, queue_vars
<1>3. CASE DOMAIN faults = {}
  <2>1. /\ phase' = "fault_retry" /\ todo' = fault_retry_queue /\ fault_retry_queue' = <<>>
        /\ UNCHANGED <<uop, pending, mmu_vars, walk_queue, retry_queue, faults, processing, batch, failed>>
      BY <1>3, Zenon DEF StartFaultRetries, core_vars
  <2>2. MemInv' /\ page_table' = page_table
      BY <2>1, MemKept, Zenon
  <2>3. fault_retry_queue' \in Seq(Uops) /\ Distinct(fault_retry_queue') /\ Elements(fault_retry_queue') = {}
    <3>1. fault_retry_queue' \in Seq(Uops) /\ Len(fault_retry_queue') = 0
        BY <2>1
    <3> QED
        BY <3>1 DEF Distinct, Elements
  <2>4. /\ Holds(uop', fault_retry_queue', "fault_retry")
        /\ TodoRight(uop', phase', todo', pending', retry_queue', fault_retry_queue')
      BY <1>1, <2>1, <2>3, Zenon DEF Holds, TodoRight
  <2>5. QueuesRight'
      BY <2>1, <2>2, <2>4, BeforeParts, QueuesNext, Zenon
  <2>6. TranslationIsCurrent'
      BY <2>1, <2>2, BeforeParts, CurrentNext, Zenon DEF TranslationIsCurrent
  <2> QED
      BY <2>2, <2>5, <2>6, Zenon DEF After
<1> QED
    BY <1>2, <1>3, Zenon

LEMMA StartWalksRight ==
    ASSUME Before, StartWalks
    PROVE  After
<1>1. TodoRight(uop, phase', todo', pending, retry_queue, fault_retry_queue)
    BY TodoEmpty, Zenon DEF StartWalks
<1> QED
    BY <1>1, QuietRight, Zenon DEF StartWalks, core_vars

LEMMA EndCoresRight ==
    ASSUME Before, EndCores
    PROVE  After
<1>1. TodoRight(uop, phase', todo', pending, retry_queue, fault_retry_queue)
    BY TodoEmpty, Zenon DEF EndCores
<1> QED
    BY <1>1, QuietRight, Zenon DEF EndCores, core_vars

\* A cycle passes for the walks.
Ticked(q) == [i \in DOMAIN q |-> [q[i] EXCEPT !.left = IF @ = 0 THEN 0 ELSE @ - 1]]

LEMMA WalksTicked ==
    ASSUME NEW P, NEW f, NEW q, WalksRight(P, f, q)
    PROVE  WalksRight(P, f, Ticked(q))
<1> DEFINE W == [page : P, left : Nat, uops : Seq(Uops)]
           r == Ticked(q)
<1>1. q \in Seq(W)
    BY Zenon DEF WalksRight
<1>2. \A i \in 1..Len(q) : r[i] \in W /\ r[i].page = q[i].page /\ r[i].uops = q[i].uops
  <2> TAKE i \in 1..Len(q)
  <2>1. q[i] \in W
    <3> HIDE DEF W
    <3> QED
        BY <1>1, ElementsIn, Zenon DEF Elements
  <2>2. PICK a \in P, b \in Nat, c \in Seq(Uops) : q[i] = [page |-> a, left |-> b, uops |-> c]
      BY <2>1, Zenon
  <2>3. r[i] = [q[i] EXCEPT !.left = IF @ = 0 THEN 0 ELSE @ - 1]
    <3>1. DOMAIN q = 1..Len(q)
      <4> HIDE DEF W
      <4> QED
          BY <1>1
    <3> QED
        BY <3>1, Zenon DEF Ticked
  <2>4. r[i] = [page |-> a, left |-> IF b = 0 THEN 0 ELSE b - 1, uops |-> c]
      BY ONLY <2>2, <2>3
  <2>5. (IF b = 0 THEN 0 ELSE b - 1) \in Nat
      BY <2>2
  <2> HIDE DEF r
  <2> QED
      BY <2>2, <2>4, <2>5
<1> HIDE DEF W
<1>3. r \in Seq(W) /\ Len(r) = Len(q)
  <2>1. DOMAIN q = 1..Len(q) /\ Len(q) \in Nat
      BY <1>1
  <2>2. r \in [1..Len(q) -> W]
      BY <1>2, <2>1, Zenon DEF Ticked
  <2> HIDE DEF r
  <2> QED
      BY <2>1, <2>2
<1> HIDE DEF r
<1>4. r \in Seq([page : P, left : Nat, uops : Seq(Uops)])
    BY <1>3, Zenon DEF W
<1>5. WalksRight(P, f, r)
    BY <1>2, <1>3, <1>4, Zenon DEF WalksRight
<1> QED
    BY <1>5, Zenon DEF r

LEMMA TickRight ==
    ASSUME Before, Tick, phase \in {"mmu", "walk"}
    PROVE  After
<1>1. /\ walk_queue' = Ticked(walk_queue) /\ batch' = [batch EXCEPT !.wait = IF @ = 0 THEN 0 ELSE @ - 1]
      /\ UNCHANGED <<todo, uop, pending, mmu_vars, retry_queue, fault_retry_queue, faults, processing,
                     failed>>
    BY DEF Tick, core_vars, Ticked
<1>2. MemInv' /\ page_table' = page_table
    BY <1>1, MemKept, Zenon
<1>3. batch'.on = batch.on
    BY <1>1, Zenon DEF Before, IInv, Batch
<1>4. WalksRight(Page, uop', walk_queue')
    BY <1>1, BeforeParts, WalksTicked, Zenon
<1>5. TodoRight(uop', phase', todo', pending', retry_queue', fault_retry_queue')
  <2>1. todo = <<>>
      BY BeforeParts, Zenon DEF TodoRight
  <2> QED
      BY <1>1, <2>1, TodoEmpty, Zenon
<1>6. QueuesRight'
    BY <1>1, <1>2, <1>3, <1>4, <1>5, BeforeParts, QueuesNext, Zenon
<1>7. TranslationIsCurrent'
    BY <1>1, <1>2, BeforeParts, CurrentNext, Zenon DEF TranslationIsCurrent
<1> QED
    BY <1>2, <1>6, <1>7, Zenon DEF After

\* A fresh uop.
LEMMA FreshUop ==
    ASSUME knob \in Knobs, NEW u \in Uops, NEW n \in PageNums
    PROVE  LET x == [st |-> "core", page |-> [pn |-> n, pid |-> Pid(u)], frame |-> NoFrame]
           IN  x \in UopSet /\ x.page \in Page
<1>1. [pn |-> n, pid |-> Pid(u)] \in Page
    BY KnobTerms, Zenon
<1> DEFINE p == [pn |-> n, pid |-> Pid(u)]
<1> HIDE DEF p
<1>2. p \in Page
    BY <1>1, Zenon DEF p
<1>3. [st |-> "core", page |-> p, frame |-> NoFrame] \in UopSet
    BY <1>2, Zenon DEF UopSet, States
<1> QED
    BY <1>2, <1>3, Zenon DEF p

LEMMA FetchRight ==
    ASSUME Before, NEW u \in Uops, NEW n \in PageNums, Fetch(u, n)
    PROVE  After
<1> DEFINE x == [st |-> "core", page |-> [pn |-> n, pid |-> Pid(u)], frame |-> NoFrame]
<1>1. /\ todo = <<>> /\ uop[u].st = "idle" /\ uop' = [uop EXCEPT ![u] = x]
      /\ UNCHANGED <<todo, pending, mmu_vars, queue_vars, batch, failed>>
    BY Zenon DEF Fetch
<1>2. x \in UopSet /\ x.page \in Page
    BY BeforeParts, FreshUop, Zenon
<1>3. x.st = "core" /\ x.frame = NoFrame
    BY Zenon
<1> HIDE DEF x
<1>4. MemInv' /\ page_table' = page_table
    BY <1>1, MemKept, Zenon
<1>5. /\ UopsRight(Page, uop') /\ TranslationIsCurrent'
      /\ \A v \in Uops : v # u => uop'[v] = uop[v]
    BY <1>1, <1>2, <1>3, <1>4, BeforeParts, UopChanged, Zenon
<1>6. \A st \in {"core", "walk", "retry", "fault_retry", "fault"} : Stays(uop, uop', st)
    BY <1>1, <1>5, Zenon DEF Stays
<1>7. /\ WalksRight(Page, uop', walk_queue')
      /\ Holds(uop', retry_queue', "retry") /\ Holds(uop', fault_retry_queue', "fault_retry")
      /\ FaultsRight(Page, uop', page_table', faults')
      /\ BatchRight(Page, uop', page_table', processing') /\ Apart(processing', faults')
    BY <1>1, <1>4, <1>6, QueuesStay, Zenon
<1>8. PendingRight(uop', pending')
    BY <1>1, <1>6, BeforeParts, PendingKept, Zenon
<1>9. /\ knob' = knob /\ (batch'.on => processing' # <<>>)
      /\ TodoRight(uop', phase', todo', pending', retry_queue', fault_retry_queue')
    BY <1>1, BeforeParts, TodoEmpty, Zenon DEF queue_vars
<1>10. QueuesRight'
    BY <1>5, <1>7, <1>8, <1>9, QueuesNext, Zenon
<1> QED
    BY <1>4, <1>5, <1>10, Zenon DEF After

LEMMA FetchParentRight ==
    ASSUME Before, NEW p \in Parents, NEW pn \in [{u \in Uops : ParentOf[u] = p} -> PageNums],
           FetchParent(p, pn)
    PROVE  After
<1> DEFINE kids == {u \in Uops : ParentOf[u] = p}
           x(u) == [st |-> "core", page |-> [pn |-> pn[u], pid |-> Pid(u)], frame |-> NoFrame]
<1>1. /\ todo = <<>> /\ \A u \in kids : uop[u].st = "idle"
      /\ uop' = [u \in Uops |-> IF u \notin kids THEN uop[u] ELSE x(u)]
      /\ pending' = [pending EXCEPT ![p] = kids]
      /\ UNCHANGED <<todo, mmu_vars, queue_vars, batch, failed>>
    BY Zenon DEF FetchParent
<1>2. /\ \A u \in kids : x(u) \in UopSet /\ x(u).page \in Page /\ x(u).st = "core" /\ x(u).frame = NoFrame
      /\ \A u \in kids : u \in Uops /\ ParentOf[u] = p
      /\ \A u \in Uops : ParentOf[u] = p => u \in kids
  <2>1. ASSUME NEW u \in kids
        PROVE  x(u) \in UopSet /\ x(u).page \in Page /\ x(u).st = "core" /\ x(u).frame = NoFrame
    <3>1. pn[u] \in PageNums /\ u \in Uops
        BY Zenon
    <3> QED
        BY <3>1, BeforeParts, FreshUop, Zenon
  <2> QED
      BY <2>1, Zenon
<1> HIDE DEF kids, x
<1>3. MemInv' /\ page_table' = page_table
    BY <1>1, MemKept, Zenon
<1>4. UopsRight(Page, uop) /\ PendingRight(uop, pending) /\ knob' = knob /\ TranslationIsCurrent
    BY BeforeParts, Zenon
<1>5. \A u \in Uops : IF u \in kids THEN uop'[u] = x(u) ELSE uop'[u] = uop[u]
    BY <1>1, Zenon
<1>6. UopsRight(Page, uop')
  <2>1. \A u \in Uops : uop[u] \in UopSet
      BY <1>4, Zenon DEF UopsRight, UopSet
  <2>2. uop' \in [Uops -> UopSet]
      BY <1>1, <1>2, <2>1, Zenon
  <2>3. \A u \in Uops : /\ uop'[u].st = "idle" => uop'[u].frame = NoFrame
                        /\ uop'[u].st # "idle" => uop'[u].page \in Page
      BY <1>2, <1>4, <1>5, Zenon DEF UopsRight
  <2> QED
      BY <2>2, <2>3, Zenon DEF UopsRight, UopSet
<1>7. TranslationIsCurrent'
  <2>1. ASSUME NonSwap, NEW u \in Uops, uop'[u].frame # NoFrame
        PROVE  page_table[uop'[u].page] = uop'[u].frame
    <3>1. uop'[u] = uop[u]
        BY <1>2, <1>5, <2>1, Zenon
    <3> QED
        BY <1>4, <2>1, <3>1, Zenon DEF TranslationIsCurrent
  <2> QED
      BY <1>3, <1>4, <2>1, CurrentNext, Zenon
<1>8. \A st \in {"core", "walk", "retry", "fault_retry", "fault"} : Stays(uop, uop', st)
    BY <1>1, <1>5, Zenon DEF Stays
<1>9. /\ WalksRight(Page, uop', walk_queue')
      /\ Holds(uop', retry_queue', "retry") /\ Holds(uop', fault_retry_queue', "fault_retry")
      /\ FaultsRight(Page, uop', page_table', faults')
      /\ BatchRight(Page, uop', page_table', processing') /\ Apart(processing', faults')
    BY <1>1, <1>3, <1>8, QueuesStay, Zenon
<1>10. PendingRight(uop', pending')
  <2>1. PendingRight(uop', pending)
      BY <1>4, <1>8, PendingKept
  <2>2. kids \in SUBSET Uops /\ \A u \in kids : ParentOf[u] = p /\ uop'[u].st = "core"
      BY <1>2, <1>5, Zenon
  <2> QED
      BY <1>1, <2>1, <2>2, Zenon DEF PendingRight
<1>11. /\ (batch'.on => processing' # <<>>)
       /\ TodoRight(uop', phase', todo', pending', retry_queue', fault_retry_queue')
    BY <1>1, BeforeParts, TodoEmpty, Zenon DEF queue_vars
<1>12. QueuesRight'
    BY <1>4, <1>6, <1>9, <1>10, <1>11, QueuesNext, Zenon
<1> QED
    BY <1>3, <1>7, <1>12, Zenon DEF After

\* The list of a finite set.
LEMMA ListOf ==
    ASSUME NEW S, IsFiniteSet(S)
    PROVE  /\ SetToSeq(S) \in Seq(S) /\ Distinct(SetToSeq(S))
           /\ Elements(SetToSeq(S)) \subseteq S
<1> DEFINE n == Cardinality(S)
           s == SetToSeq(S)
<1>1. n \in Nat /\ ExistsBijection(1..n, S)
    BY FS_CardinalityType, Zenon
<1>2. \E f \in [1..n -> S] : IsInjective(f)
    BY <1>1, Zenon DEF ExistsBijection, Bijection, Injection
<1>3. s \in [1..n -> S] /\ IsInjective(s)
    BY <1>2, Zenon DEF SetToSeq
<1> HIDE DEF n, s
<1>4. s \in Seq(S) /\ Len(s) = n
    BY <1>1, <1>3
<1>5. Distinct(s) /\ Elements(s) \subseteq S
    BY <1>3, <1>4, Zenon DEF Distinct, Elements, IsInjective
<1> QED
    BY <1>4, <1>5, Zenon DEF s

LEMMA ExecParentRight ==
    ASSUME Before, NEW p \in Parents, ExecParent(p)
    PROVE  After
<1>1. /\ phase = "cores" /\ todo' = SetToSeq(pending[p])
      /\ UNCHANGED <<phase, uop, pending, mmu_vars, queue_vars, batch, failed>>
    BY Zenon DEF ExecParent
<1>2. PendingRight(uop, pending)
    BY BeforeParts, Zenon
<1>3. pending[p] \in SUBSET Uops /\ \A u \in pending[p] : ParentOf[u] = p
    BY <1>2, Zenon DEF PendingRight
<1>4. IsFiniteSet(pending[p])
    BY <1>3, ConstantsAssumption, FS_Subset, Zenon
<1>5. todo' \in Seq(pending[p]) /\ Distinct(todo') /\ Elements(todo') \subseteq pending[p]
    BY <1>1, <1>4, ListOf, Zenon
<1>6. todo' \in Seq(Uops)
    BY <1>3, <1>5
<1>7. TodoRight(uop, phase', todo', pending, retry_queue, fault_retry_queue)
    BY <1>1, <1>3, <1>5, <1>6, Zenon DEF TodoRight
<1> QED
    BY <1>1, <1>7, QuietRight, Zenon

-----------------------------------------------------------------------------
(* handle_page_faults                                                      *)

\* The uops that the first fault of batch b wakes, with those that faulted on
\* its page since; fs is the fault buffer.
LateIn(fs, pg) == IF pg \in DOMAIN fs THEN fs[pg] ELSE <<>>

LEMMA FirstFault ==
    ASSUME NEW P, NEW f, NEW pt, NEW fs, FaultsRight(P, f, pt, fs),
           NEW b, BatchRight(P, f, pt, b), Apart(b, fs), b # <<>>, NEW h, h = Head(b)
    PROVE  /\ h.page \in P /\ pt[h.page] = NoFrame
           /\ Holds(f, h.uops \o LateIn(fs, h.page), "fault")
           /\ OfPage(f, h.uops \o LateIn(fs, h.page), h.page)
<1> DEFINE E == [page : P, uops : Seq(Uops)]
           pg == h.page
           s == h.uops
           t == LateIn(fs, pg)
<1>1. b \in Seq(E)
    BY Zenon DEF BatchRight
<1>2. h = b[1] /\ 1 \in 1..Len(b) /\ h \in E
  <2> HIDE DEF E
  <2>1. Len(b) \in Nat /\ Len(b) # 0
      BY <1>1
  <2> QED
      BY <1>1, <2>1, ElementsIn DEF Elements
<1>3. /\ pg \in P /\ pt[pg] = NoFrame /\ Holds(f, s, "fault") /\ OfPage(f, s, pg)
      /\ pg \in DOMAIN fs => Elements(s) \cap Elements(fs[pg]) = {}
    BY <1>2, Zenon DEF BatchRight, Apart
<1>4. Holds(f, t, "fault") /\ OfPage(f, t, pg) /\ Elements(s) \cap Elements(t) = {}
  <2>1. CASE pg \in DOMAIN fs
      BY <1>3, <2>1, Zenon DEF FaultsRight, LateIn
  <2>2. CASE pg \notin DOMAIN fs
    <3>1. t = <<>> /\ t \in Seq(Uops) /\ Len(t) = 0
        BY <2>2 DEF LateIn
    <3>2. Elements(t) = {} /\ Distinct(t)
        BY <3>1 DEF Elements, Distinct
    <3> QED
        BY <3>1, <3>2, Zenon DEF Holds, OfPage
  <2> QED
      BY <2>1, <2>2, Zenon
<1> HIDE DEF pg, s, t
<1>5. s \in Seq(Uops) /\ t \in Seq(Uops) /\ Distinct(s) /\ Distinct(t)
    BY <1>3, <1>4, Zenon DEF Holds
<1>6. /\ s \o t \in Seq(Uops) /\ Distinct(s \o t)
      /\ Elements(s \o t) = Elements(s) \cup Elements(t)
    BY <1>4, <1>5, JoinRight
<1>7. Holds(f, s \o t, "fault") /\ OfPage(f, s \o t, pg)
    BY <1>3, <1>4, <1>6, Zenon DEF Holds, OfPage
<1> QED
    BY <1>3, <1>7, Zenon DEF pg, s, t

\* The other faults, when only uops of the resolved page change and only that
\* page is mapped.
LEMMA OtherFaultsRight ==
    ASSUME NEW P, NEW f, NEW pt, NEW fs, FaultsRight(P, f, pt, fs),
           NEW b, BatchRight(P, f, pt, b), Apart(b, fs), b # <<>>, NEW pg, pg = Head(b).page,
           NEW g, \A v \in Uops : f[v].page # pg => g[v] = f[v],
           NEW qt, \A p \in P : p # pg /\ pt[p] = NoFrame => qt[p] = NoFrame,
           NEW gs, gs = [p \in DOMAIN fs \ {pg} |-> fs[p]]
    PROVE  FaultsRight(P, g, qt, gs) /\ BatchRight(P, g, qt, Tail(b)) /\ Apart(Tail(b), gs)
<1> DEFINE E == [page : P, uops : Seq(Uops)]
           c == Tail(b)
<1>1. b \in Seq(E)
    BY Zenon DEF BatchRight
<1>2. /\ c \in Seq(E) /\ Head(b) = b[1]
      /\ \A i \in 1..Len(c) : /\ i + 1 \in 1..Len(b) /\ c[i] = b[i + 1] /\ i \in Nat
                              /\ 1 \in 1..Len(b) /\ i + 1 # 1
  <2> HIDE DEF E
  <2>1. Len(b) \in Nat /\ Len(b) # 0
      BY <1>1
  <2> QED
      BY <1>1, <2>1
<1> HIDE DEF c, E
<1>3. \A i \in 1..Len(c) : /\ Holds(f, c[i].uops, "fault") /\ OfPage(f, c[i].uops, c[i].page)
                           /\ pt[c[i].page] = NoFrame /\ c[i].page # pg
  <2>1. /\ \A i \in 1..Len(b) : /\ Holds(f, b[i].uops, "fault") /\ OfPage(f, b[i].uops, b[i].page)
                                /\ pt[b[i].page] = NoFrame
        /\ \A i, j \in 1..Len(b) : b[i].page = b[j].page => i = j
      BY Zenon DEF BatchRight
  <2>2. pg = b[1].page
      BY <1>2, Zenon
  <2> TAKE i \in 1..Len(c)
  <2>3. i + 1 \in 1..Len(b) /\ 1 \in 1..Len(b) /\ i + 1 # 1 /\ c[i] = b[i + 1]
      BY ONLY <1>2, Zenon
  <2> DEFINE k == i + 1
  <2> HIDE DEF k
  <2>4. k \in 1..Len(b) /\ 1 \in 1..Len(b) /\ k # 1 /\ c[i] = b[k]
      BY <2>3, Zenon DEF k
  <2> QED
      BY ONLY <2>1, <2>2, <2>4, Zenon
<1>4. \A i, j \in 1..Len(c) : c[i].page = c[j].page => i = j
  <2> TAKE i, j \in 1..Len(c)
  <2> DEFINE k == i + 1
             l == j + 1
  <2>1. \A m, n \in 1..Len(b) : b[m].page = b[n].page => m = n
      BY Zenon DEF BatchRight
  <2>2. /\ k \in 1..Len(b) /\ l \in 1..Len(b) /\ c[i] = b[k] /\ c[j] = b[l]
        /\ k = l => i = j
      BY ONLY <1>2, i \in 1..Len(c), j \in 1..Len(c)
  <2> HIDE DEF k, l
  <2> QED
      BY ONLY <2>1, <2>2, Zenon
<1>5. ASSUME NEW s, Holds(f, s, "fault"), NEW p, OfPage(f, s, p), p # pg
      PROVE  Holds(g, s, "fault") /\ OfPage(g, s, p)
  <2>1. s \in Seq(Uops) /\ Elements(s) \subseteq Uops
      BY <1>5, ElementsIn, Zenon DEF Holds
  <2>2. \A v \in Elements(s) : g[v] = f[v]
      BY <1>5, <2>1, Zenon DEF OfPage
  <2> QED
      BY <1>5, <2>2, Zenon DEF Holds, OfPage
<1>6. \A i \in 1..Len(c) : c[i].page \in P
  <2>1. \A i \in 1..Len(c) : c[i] \in E
      BY <1>2, ElementsIn, Zenon DEF Elements
  <2> QED
      BY <2>1, Zenon DEF E
<1>7. BatchRight(P, g, qt, c)
  <2>1. c \in Seq([page : P, uops : Seq(Uops)])
      BY <1>2, Zenon DEF E
  <2>2. \A i \in 1..Len(c) : /\ Holds(g, c[i].uops, "fault") /\ OfPage(g, c[i].uops, c[i].page)
                             /\ qt[c[i].page] = NoFrame
      BY <1>3, <1>5, <1>6, Zenon
  <2> QED
      BY <1>4, <2>1, <2>2, Zenon DEF BatchRight
<1>8. FaultsRight(P, g, qt, gs)
  <2>1. /\ IsFiniteSet(DOMAIN fs) /\ DOMAIN fs \subseteq P /\ fs \in [DOMAIN fs -> Seq(Uops)]
        /\ \A p \in DOMAIN fs : Holds(f, fs[p], "fault") /\ OfPage(f, fs[p], p) /\ pt[p] = NoFrame
      BY Zenon DEF FaultsRight
  <2>2. DOMAIN gs = DOMAIN fs \ {pg} /\ IsFiniteSet(DOMAIN fs \ {pg})
      BY <2>1, FS_RemoveElement, Zenon
  <2>3. \A p \in DOMAIN gs : p \in DOMAIN fs /\ p # pg /\ gs[p] = fs[p]
      BY <2>2, Zenon
  <2>4. gs \in [DOMAIN gs -> Seq(Uops)]
      BY <2>1, <2>2, Zenon
  <2>5. \A p \in DOMAIN gs : Holds(g, gs[p], "fault") /\ OfPage(g, gs[p], p) /\ qt[p] = NoFrame
      BY <1>5, <2>1, <2>3, Zenon
  <2> QED
      BY <2>1, <2>2, <2>3, <2>4, <2>5, Zenon DEF FaultsRight
<1>9. Apart(c, gs)
  <2> SUFFICES ASSUME NEW i \in 1..Len(c), c[i].page \in DOMAIN gs
               PROVE  Elements(c[i].uops) \cap Elements(gs[c[i].page]) = {}
      BY Zenon DEF Apart
  <2>1. c[i].page \in DOMAIN fs /\ gs[c[i].page] = fs[c[i].page]
      OBVIOUS
  <2> QED
      BY <1>2, <2>1, Zenon DEF Apart
<1> QED
    BY <1>7, <1>8, <1>9, Zenon DEF c

\* begin_batch_processing takes over the fault buffer f.
LEMMA BatchBegun ==
    ASSUME NEW P, NEW g, NEW pt, NEW f, FaultsRight(P, g, pt, f), BeginBatch(f)
    PROVE  /\ FaultsRight(P, g, pt, faults') /\ BatchRight(P, g, pt, processing')
           /\ Apart(processing', faults') /\ (batch'.on => processing' # <<>>)
<1> DEFINE D == DOMAIN f
           E == [page : P, uops : Seq(Uops)]
<1>1. /\ IsFiniteSet(D) /\ D \subseteq P /\ f \in [D -> Seq(Uops)]
      /\ \A p \in D : Holds(g, f[p], "fault") /\ OfPage(g, f[p], p) /\ pt[p] = NoFrame
    BY Zenon DEF FaultsRight
<1>2. CASE D = {}
  <2>1. batch'.on = FALSE /\ processing' = <<>> /\ faults' = f
      BY <1>2 DEF BeginBatch
  <2>2. processing' \in Seq(E) /\ Len(processing') = 0
      BY <2>1
  <2>3. BatchRight(P, g, pt, processing') /\ Apart(processing', faults')
    <3>1. 1..Len(processing') = {}
        BY <2>2
    <3> QED
        BY <2>2, <3>1, Zenon DEF BatchRight, Apart
  <2> QED
      BY <2>1, <2>3, Zenon
<1>3. CASE D # {}
  <2> DEFINE n == Cardinality(D)
  <2>1. PICK s \in SetToSeqs(D) :
            processing' = [i \in DOMAIN s |-> [page |-> s[i], uops |-> f[s[i]]]]
      BY <1>3, Zenon DEF BeginBatch
  <2>2. s \in [1..n -> D] /\ \A i, j \in 1..n : i # j => s[i] # s[j]
      BY <2>1, Zenon DEF SetToSeqs
  <2>3. n \in Nat /\ n # 0
      BY <1>1, <1>3, FS_CardinalityType, FS_EmptySet, Zenon
  <2> HIDE DEF n, D, E
  <2>4. \A i \in 1..n : processing'[i] = [page |-> s[i], uops |-> f[s[i]]]
      BY <2>1, <2>2, Zenon
  <2>5. \A i \in 1..n : s[i] \in D /\ f[s[i]] \in Seq(Uops)
      BY <1>1, <2>2, Zenon
  <2>6. \A i \in 1..n : processing'[i] \in E /\ processing'[i].page = s[i] /\ processing'[i].uops = f[s[i]]
    <3> TAKE i \in 1..n
    <3>1. processing'[i] = [page |-> s[i], uops |-> f[s[i]]] /\ s[i] \in P /\ f[s[i]] \in Seq(Uops)
        BY <1>1, <2>4, <2>5, Zenon
    <3> QED
        BY ONLY <3>1 DEF E
  <2>7. processing' \in Seq(E) /\ Len(processing') = n
    <3>1. processing' \in [1..n -> E]
        BY <2>1, <2>2, <2>6, Zenon
    <3> QED
        BY <2>3, <3>1
  <2>8. BatchRight(P, g, pt, processing')
    <3>1. processing' \in Seq([page : P, uops : Seq(Uops)])
        BY <2>7, Zenon DEF E
    <3>2. \A i \in 1..Len(processing') :
              /\ Holds(g, processing'[i].uops, "fault")
              /\ OfPage(g, processing'[i].uops, processing'[i].page)
              /\ pt[processing'[i].page] = NoFrame
        BY <1>1, <2>5, <2>6, <2>7, Zenon
    <3>3. \A i, j \in 1..Len(processing') : processing'[i].page = processing'[j].page => i = j
        BY <2>2, <2>6, <2>7
    <3> QED
        BY <3>1, <3>2, <3>3, Zenon DEF BatchRight
  <2>9. faults' = [p \in {} |-> <<>>]
      BY <1>3, Zenon DEF BeginBatch, D
  <2>10. DOMAIN faults' = {} /\ faults' \in [{} -> Seq(Uops)] /\ IsFiniteSet({})
      BY <2>9, FS_EmptySet, Zenon
  <2>11. FaultsRight(P, g, pt, faults') /\ Apart(processing', faults')
      BY <2>10, Zenon DEF FaultsRight, Apart
  <2>12. processing' # <<>>
    <3>1. Len(<<>>) = 0
        BY Zenon
    <3> QED
        BY <2>3, <2>7, <3>1, Zenon
  <2> QED
      BY <2>8, <2>11, <2>12, Zenon
<1> QED
    BY <1>2, <1>3, Zenon

\* The loop of no phase is open while the faults are handled.
LEMMA FaultsPhase ==
    ASSUME Before, HandlePageFaults
    PROVE  /\ TodoRight(uop', phase', todo', pending', retry_queue', fault_retry_queue')
           /\ TodoRight(uop, phase', todo', pending, retry_queue, fault_retry_queue)
           /\ pending' = pending
<1>1. TodoRight(uop, phase, todo, pending, retry_queue, fault_retry_queue)
    BY BeforeParts, Zenon
<1>2. todo' = <<>> /\ pending' = pending
    BY <1>1, Zenon DEF HandlePageFaults, TodoRight
<1> QED
    BY <1>2, TodoEmpty, Zenon

LEMMA BatchWaitsRight ==
    ASSUME Before, HandlePageFaults, BatchWaits
    PROVE  After
  BY FaultsPhase, QuietRight, Zenon DEF BatchWaits

LEMMA NoBatchRight ==
    ASSUME Before, HandlePageFaults, NoBatch
    PROVE  After
<1>1. /\ BeginBatch(faults)
      /\ UNCHANGED <<mmu_vars, walk_queue, retry_queue, fault_retry_queue, uop, failed>>
    BY Zenon DEF NoBatch
<1>2. MemInv' /\ page_table' = page_table
    BY <1>1, MemKept, Zenon
<1>3. FaultsRight(Page, uop, page_table, faults)
    BY BeforeParts, Zenon
<1>4. /\ FaultsRight(Page, uop, page_table, faults') /\ BatchRight(Page, uop, page_table, processing')
      /\ Apart(processing', faults') /\ (batch'.on => processing' # <<>>)
    BY <1>1, <1>3, BatchBegun, Zenon
<1>5. QueuesRight'
    BY <1>1, <1>2, <1>4, BeforeParts, FaultsPhase, QueuesNext, Zenon
<1>6. TranslationIsCurrent'
    BY <1>1, <1>2, BeforeParts, CurrentNext, Zenon DEF TranslationIsCurrent
<1> QED
    BY <1>2, <1>5, <1>6, Zenon DEF After

LEMMA BatchPreparesFirstRight ==
    ASSUME Before, HandlePageFaults, BatchPreparesFirst
    PROVE  After
<1> DEFINE m == Prepare(Memory).m
<1>1. batch.on /\ SetMemory(m) /\ UNCHANGED <<queue_vars, uop>>
    BY DEF BatchPreparesFirst
<1>2. /\ MemRight(m) /\ \A p \in Page : Memory.pt[p] = NoFrame => m.pt[p] = NoFrame
      /\ NonSwap => m.pt = Memory.pt
    BY BeforeParts, MemPrepared, Zenon DEF MemInv
<1> HIDE DEF m
<1>3. MemInv'
    BY <1>1, <1>2, BeforeParts, MemStored, Zenon
<1>4. page_table' = m.pt /\ Memory.pt = page_table
    BY <1>1, Zenon DEF SetMemory, Memory
<1>5. \A p \in Page : page_table[p] = NoFrame => page_table'[p] = NoFrame
    BY <1>2, <1>4, Zenon
<1>6. uop' = uop /\ UNCHANGED <<walk_queue, retry_queue, fault_retry_queue, faults, processing>>
    BY <1>1, Zenon DEF queue_vars
<1>7. Stays(uop, uop', "fault")
    BY <1>6, Zenon DEF Stays
<1>8. FaultsRight(Page, uop', page_table', faults) /\ BatchRight(Page, uop', page_table', processing)
    BY <1>5, <1>7, BeforeParts, FaultsKept, BatchKept, Zenon
<1>9. QueuesRight'
    BY <1>1, <1>6, <1>8, BeforeParts, FaultsPhase, QueuesNext, Zenon
<1>10. TranslationIsCurrent'
    BY <1>2, <1>4, <1>6, BeforeParts, CurrentNext, Zenon DEF TranslationIsCurrent
<1> QED
    BY <1>3, <1>9, <1>10, Zenon DEF After

\* The uops that are woken go from the fault buffer to the retry queue.
LEMMA UopsWoken ==
    ASSUME NEW P, NEW f, UopsRight(P, f), NEW w, Holds(f, w, "fault"),
           NEW g, g = [u \in Uops |-> IF u \in ToSet(w) THEN [f[u] EXCEPT !.st = "retry"] ELSE f[u]],
           NEW rq, Holds(f, rq, "retry")
    PROVE  /\ UopsRight(P, g) /\ Holds(g, rq \o w, "retry")
           /\ \A u \in Uops : g[u].page = f[u].page /\ g[u].frame = f[u].frame
           /\ \A u \in Uops : u \notin Elements(w) => g[u] = f[u]
           /\ \A st \in {"core", "walk", "retry", "fault_retry"} : Stays(f, g, st)
<1> DEFINE S == [st : States, page : P \cup {NoPage}, frame : Nat \cup {NoFrame}]
<1>1. /\ f \in [Uops -> S]
      /\ \A u \in Uops : /\ f[u].st = "idle" => f[u].frame = NoFrame
                         /\ f[u].st # "idle" => f[u].page \in P
    BY DEF UopsRight
<1>2. w \in Seq(Uops) /\ Distinct(w) /\ \A u \in Elements(w) : f[u].st = "fault"
    BY DEF Holds
<1>3. rq \in Seq(Uops) /\ Distinct(rq) /\ \A u \in Elements(rq) : f[u].st = "retry"
    BY DEF Holds
<1>4. ToSet(w) = Elements(w) /\ Elements(w) \subseteq Uops /\ Elements(rq) \subseteq Uops
  <2>1. DOMAIN w = 1..Len(w)
      BY <1>2
  <2> QED
      BY <1>2, <1>3, <2>1, ElementsIn, Zenon DEF ToSet, Elements
<1>5. \A u \in Uops : u \notin Elements(w) => g[u] = f[u]
    BY <1>4, Zenon
<1>6. \A u \in Elements(w) : /\ g[u] \in S /\ g[u].st = "retry" /\ g[u].page = f[u].page
                             /\ g[u].frame = f[u].frame
  <2> TAKE u \in Elements(w)
  <2>1. g[u] = [f[u] EXCEPT !.st = "retry"] /\ f[u] \in S
      BY <1>1, <1>4, Zenon
  <2>2. PICK a \in States, b \in P \cup {NoPage}, c \in Nat \cup {NoFrame} :
            f[u] = [st |-> a, page |-> b, frame |-> c]
      BY <2>1, Zenon
  <2>3. g[u] = [st |-> "retry", page |-> b, frame |-> c]
      BY ONLY <2>1, <2>2
  <2> QED
      BY ONLY <2>2, <2>3 DEF States
<1> HIDE DEF S
<1>7. g \in [Uops -> S]
  <2>1. \A u \in Uops : g[u] \in S
      BY <1>1, <1>5, <1>6, Zenon
  <2>2. g = [u \in Uops |-> g[u]]
      OBVIOUS
  <2> QED
      BY <2>1, <2>2, Zenon
<1>8. \A u \in Uops : g[u].page = f[u].page /\ g[u].frame = f[u].frame
    BY <1>5, <1>6, Zenon
<1>9. UopsRight(P, g)
  <2>1. \A u \in Uops : /\ g[u].st = "idle" => g[u].frame = NoFrame
                        /\ g[u].st # "idle" => g[u].page \in P
    <3> TAKE u \in Uops
    <3>1. CASE u \notin Elements(w)
        BY <1>1, <1>5, <3>1, Zenon
    <3>2. CASE u \in Elements(w)
      <4>1. f[u].st = "fault" /\ g[u].st = "retry" /\ g[u].page = f[u].page
          BY <1>2, <1>6, <3>2, Zenon
      <4>2. f[u].st # "idle" /\ g[u].st # "idle"
          BY <4>1
      <4> QED
          BY <1>1, <4>1, <4>2, Zenon
    <3> QED
        BY <3>1, <3>2, Zenon
  <2> QED
      BY <1>7, <2>1, Zenon DEF UopsRight, S
<1>10. \A st \in {"core", "walk", "retry", "fault_retry"} : Stays(f, g, st)
    BY <1>2, <1>5, Zenon DEF Stays
<1>11. Elements(rq) \cap Elements(w) = {}
    BY <1>2, <1>3
<1>12. /\ rq \o w \in Seq(Uops) /\ Distinct(rq \o w)
       /\ Elements(rq \o w) = Elements(rq) \cup Elements(w)
    BY <1>2, <1>3, <1>11, JoinRight
<1>13. \A u \in Elements(rq \o w) : g[u].st = "retry"
    BY <1>3, <1>4, <1>5, <1>6, <1>12
<1>14. Holds(g, rq \o w, "retry")
    BY <1>12, <1>13, Zenon DEF Holds
<1> QED
    BY <1>5, <1>8, <1>9, <1>10, <1>14, Zenon

LEMMA BatchResolvesRight ==
    ASSUME Before, HandlePageFaults, BatchResolves
    PROVE  After
<1> DEFINE h == Head(processing)
           pg == h.page
           w == h.uops \o LateIn(faults, pg)
           rest == [p \in DOMAIN faults \ {pg} |-> faults[p]]
           m == Resolve(Memory, pg)
           n == Prepare(m).m
<1>1. /\ batch.on /\ batch.first /\ retry_queue' = retry_queue \o w
      /\ uop' = [u \in Uops |-> IF u \in ToSet(w) THEN [uop[u] EXCEPT !.st = "retry"] ELSE uop[u]]
      /\ UNCHANGED <<walk_queue, fault_retry_queue>>
      /\ \/ /\ Tail(processing) # <<>> /\ SetMemory(n) /\ processing' = Tail(processing)
            /\ faults' = rest
         \/ SetMemory(m) /\ BeginBatch(rest)
    BY Zenon DEF BatchResolves, LateUops, OtherFaults, LateIn
<1>2. /\ knob' = knob /\ knob \in Knobs /\ failed = "none" /\ MemInv /\ TranslationIsCurrent
      /\ UopsRight(Page, uop) /\ Holds(uop, retry_queue, "retry")
      /\ FaultsRight(Page, uop, page_table, faults)
      /\ BatchRight(Page, uop, page_table, processing) /\ Apart(processing, faults)
      /\ processing # <<>>
    BY <1>1, BeforeParts, Zenon
<1>3. NonSwap \/ free_frames # {}
    BY <1>1, Zenon DEF Before, IInv, FreeFrameEnsured
<1>4. pg \in Page /\ page_table[pg] = NoFrame /\ Holds(uop, w, "fault") /\ OfPage(uop, w, pg)
  <2> HIDE DEF h
  <2>1. h = Head(processing)
      BY Zenon DEF h
  <2> QED
      BY <1>2, <2>1, FirstFault, Zenon
<1> HIDE DEF w, pg
<1>5. MemRight(m) /\ \A p \in Page : p # pg => m.pt[p] = page_table[p]
    BY <1>2, <1>3, <1>4, MemResolved, Zenon
<1> HIDE DEF m
<1>6. /\ MemRight(n) /\ \A p \in Page : m.pt[p] = NoFrame => n.pt[p] = NoFrame
      /\ NonSwap => n.pt = m.pt
    BY <1>2, <1>5, MemPrepared, Zenon
<1> HIDE DEF n
<1>7. /\ UopsRight(Page, uop') /\ Holds(uop', retry_queue', "retry")
      /\ \A u \in Uops : uop'[u].page = uop[u].page /\ uop'[u].frame = uop[u].frame
      /\ \A u \in Uops : u \notin Elements(w) => uop'[u] = uop[u]
      /\ \A st \in {"core", "walk", "retry", "fault_retry"} : Stays(uop, uop', st)
    BY <1>1, <1>2, <1>4, UopsWoken
<1>8. WalksRight(Page, uop', walk_queue') /\ PendingRight(uop', pending')
      /\ Holds(uop', fault_retry_queue', "fault_retry")
    BY <1>1, <1>7, BeforeParts, FaultsPhase, WalksKept, PendingKept, HoldsKept, Zenon
<1>9. \A v \in Uops : uop[v].page # pg => uop'[v] = uop[v]
    BY <1>4, <1>7, Zenon DEF OfPage
<1>10. ASSUME NEW qt, \A p \in Page : p # pg /\ page_table[p] = NoFrame => qt[p] = NoFrame
       PROVE  /\ FaultsRight(Page, uop', qt, rest) /\ BatchRight(Page, uop', qt, Tail(processing))
              /\ Apart(Tail(processing), rest)
  <2>1. pg = Head(processing).page
      BY Zenon DEF pg
  <2> HIDE DEF rest
  <2>2. rest = [p \in DOMAIN faults \ {pg} |-> faults[p]]
      BY DEF rest
  <2> QED
      BY ONLY <1>2, <1>9, <1>10, <2>1, <2>2, OtherFaultsRight
<1> HIDE DEF rest
<1>11. ASSUME NonSwap => page_table' = m.pt
       PROVE  TranslationIsCurrent'
  <2>1. ASSUME NonSwap, NEW u \in Uops, uop'[u].frame # NoFrame
        PROVE  page_table'[uop'[u].page] = uop'[u].frame
    <3>1. uop[u].frame # NoFrame /\ page_table[uop[u].page] = uop[u].frame
        BY <1>2, <1>7, <2>1, Zenon DEF TranslationIsCurrent
    <3>2. uop[u].page \in Page /\ uop[u].page # pg
        BY <1>2, <1>4, <3>1, Zenon DEF UopsRight
    <3> QED
        BY <1>5, <1>7, <1>11, <2>1, <3>1, <3>2, Zenon
  <2> QED
      BY <1>2, <2>1, CurrentNext, Zenon
<1>12. CASE /\ Tail(processing) # <<>> /\ SetMemory(n) /\ processing' = Tail(processing)
            /\ faults' = rest
  <2>1. MemInv' /\ page_table' = n.pt
      BY <1>2, <1>6, <1>12, MemStored, Zenon DEF SetMemory
  <2>2. \A p \in Page : p # pg /\ page_table[p] = NoFrame => page_table'[p] = NoFrame
      BY <1>5, <1>6, <2>1, Zenon
  <2>3. /\ FaultsRight(Page, uop', page_table', faults') /\ Apart(processing', faults')
        /\ BatchRight(Page, uop', page_table', processing')
      BY <1>10, <1>12, <2>2, Zenon
  <2>4. QueuesRight'
      BY <1>2, <1>7, <1>8, <1>12, <2>3, FaultsPhase, QueuesNext, Zenon
  <2>5. TranslationIsCurrent'
      BY <1>6, <1>11, <2>1, Zenon
  <2> QED
      BY <2>1, <2>4, <2>5, Zenon DEF After
<1>13. CASE SetMemory(m) /\ BeginBatch(rest)
  <2>1. MemInv' /\ page_table' = m.pt
      BY <1>2, <1>5, <1>13, MemStored, Zenon DEF SetMemory
  <2>2. \A p \in Page : p # pg /\ page_table[p] = NoFrame => page_table'[p] = NoFrame
      BY <1>5, <2>1, Zenon
  <2>3. FaultsRight(Page, uop', page_table', rest)
      BY <1>10, <2>2, Zenon
  <2>4. /\ FaultsRight(Page, uop', page_table', faults') /\ Apart(processing', faults')
        /\ BatchRight(Page, uop', page_table', processing') /\ (batch'.on => processing' # <<>>)
      BY <1>13, <2>3, BatchBegun, Zenon
  <2>5. QueuesRight'
      BY <1>2, <1>7, <1>8, <2>4, FaultsPhase, QueuesNext, Zenon
  <2>6. TranslationIsCurrent'
      BY <1>11, <2>1, Zenon
  <2> QED
      BY <2>1, <2>5, <2>6 DEF After
<1> QED
    BY <1>1, <1>12, <1>13, Zenon

-----------------------------------------------------------------------------
(* The invariant                                                           *)

LEMMA StepRight ==
    ASSUME Before, Next
    PROVE  After
<1>1. CASE HandlePageFaults
    BY <1>1, BatchWaitsRight, BatchPreparesFirstRight, BatchResolvesRight, NoBatchRight, Zenon
       DEF HandlePageFaults
<1>2. CASE PllLocked \/ EndCycle
    BY <1>2, TickRight, Zenon DEF PllLocked, EndCycle
<1>3. CASE StartRetries \/ Retry \/ StartFaultRetries \/ FaultRetry \/ StartWalks \/ Walk
    BY <1>3, StartRetriesRight, RetryRight, StartFaultRetriesRight, FaultRetryRight, Zenon,
       StartWalksRight, WalkRight
<1>4. CASE CoreStep
    BY <1>4, ExecSingleRight, FetchRight, ExecParentRight, FetchParentRight, ExecChildRight, Zenon,
       EndCoresRight DEF CoreStep
<1> QED
    BY <1>1, <1>2, <1>3, <1>4, Zenon DEF Next, MmuStep

LEMMA AllInvStep ==
    ASSUME AllInv, [Next]_vars
    PROVE  AllInv'
<1>1. IInv'
    BY NextOk, Zenon DEF AllInv
<1>2. CASE Next
  <2>1. Before
      BY <1>2, Zenon DEF AllInv, Before, Next, Running
  <2> QED
      BY <1>1, <1>2, <2>1, StepRight, Zenon DEF AllInv, After
<1>3. CASE UNCHANGED vars
  <2>1. MemInv'
      BY <1>3, Zenon DEF vars, mmu_vars, AllInv, MemInv, MemRight, Memory, Page, Pid, PageNums, NonSwap, NumFrames
  <2>2. QueuesRight'
      BY <1>3, Zenon DEF vars, core_vars, mmu_vars, queue_vars, AllInv, QueuesRight, Page, Pid, PageNums
  <2>3. TranslationIsCurrent'
      BY <1>3, Zenon DEF vars, core_vars, mmu_vars, AllInv, TranslationIsCurrent, NonSwap
  <2> QED
      BY <1>1, <2>1, <2>2, <2>3, Zenon DEF AllInv
<1> QED
    BY <1>2, <1>3, Zenon

LEMMA EmptyList ==
    ASSUME NEW S, NEW s, s = <<>>
    PROVE  s \in Seq(S) /\ 1..Len(s) = {} /\ Elements(s) = {} /\ Distinct(s)
<1>1. s \in Seq(S) /\ Len(s) = 0
    OBVIOUS
<1> QED
    BY <1>1 DEF Elements, Distinct

LEMMA MemBegins ==
    ASSUME Init
    PROVE  MemInv
<1>1. /\ knob \in Knobs /\ page_table = [p \in Page |-> NoFrame] /\ tlb = <<>>
      /\ ru = [list |-> <<>>, free |-> [n \in Node |-> n],
               key |-> [n \in Node |-> NoFrame], table |-> [k \in {} |-> 0]]
      /\ free_frames = (IF NonSwap THEN {} ELSE Frame)
      /\ frame_to_allocate = 0 /\ frame_dimm = 0
    BY Zenon DEF Init
<1>2. NumFrames \in Nat \ {0}
    BY <1>1, KnobTerms, Zenon
<1>3. MapRight(Page, page_table) /\ DimmRight(Page, page_table, frame_dimm)
    BY <1>1, Zenon DEF MapRight, DimmRight
<1>4. TlbRight(Page, page_table, tlb)
    BY <1>1, EmptyList, Zenon DEF TlbRight
<1>5. ASSUME ~NonSwap
      PROVE  /\ FramesRight(Page, NumFrames, page_table, free_frames, frame_to_allocate)
             /\ NodesRight(NumFrames, ru) /\ KeysRight(Page, page_table, ru)
  <2> DEFINE N == NumFrames
  <2>1. FramesRight(Page, N, page_table, free_frames, frame_to_allocate)
    <3>1. \A p \in Page : page_table[p] = NoFrame
        BY <1>1, Zenon
    <3>2. (0..(N - 1)) \ {page_table[p] : p \in Page} = 0..(N - 1)
        BY <3>1 DEF NoFrame
    <3> QED
        BY <1>1, <1>2, <1>5, <3>1, <3>2 DEF FramesRight, Frame
  <2>2. /\ ru.list = <<>> /\ ru.free = [n \in 1..N |-> n]
        /\ ru.key = [n \in 1..N |-> NoFrame] /\ ru.table = [k \in {} |-> 0]
        /\ ru = [list |-> ru.list, free |-> ru.free, key |-> ru.key, table |-> ru.table]
      BY <1>1, Zenon DEF Node
  <2> HIDE DEF N
  <2>3. ru.free \in Seq(1..N) /\ Len(ru.free) = N /\ \A i \in 1..N : ru.free[i] = i
    <3>1. ru.free \in [1..N -> 1..N] /\ N \in Nat
        BY <1>2, <2>2 DEF N
    <3> QED
        BY <2>2, <3>1
  <2>4. Distinct(ru.free) /\ Elements(ru.free) = 1..N
      BY <2>3, Zenon DEF Distinct, Elements
  <2>5. ru.list \in Seq(1..N) /\ Elements(ru.list) = {} /\ Distinct(ru.list)
      BY <2>2, EmptyList, Zenon
  <2>6. ru.key \in [1..N -> Nat \cup {NoFrame}] /\ ru.table \in [DOMAIN ru.table -> 1..N]
      BY <2>2, Zenon
  <2>7. NodesRight(N, ru)
      BY ONLY <2>2, <2>3, <2>4, <2>5, <2>6, Zenon DEF NodesRight
  <2>8. KeysRight(Page, page_table, ru)
      BY <1>1, <2>5, Zenon DEF KeysRight
  <2> QED
      BY <2>1, <2>7, <2>8, Zenon DEF N
<1> QED
    BY <1>3, <1>4, <1>5, Zenon DEF MemInv, MemRight, Memory

LEMMA QueuesBegin ==
    ASSUME Init
    PROVE  QueuesRight /\ TranslationIsCurrent
<1>1. /\ uop = [u \in Uops |-> [st |-> "idle", page |-> NoPage, frame |-> NoFrame]]
      /\ pending = [p \in Parents |-> {}] /\ todo = <<>>
      /\ walk_queue = <<>> /\ retry_queue = <<>> /\ fault_retry_queue = <<>>
      /\ faults = [p \in {} |-> <<>>] /\ processing = <<>> /\ batch.on = FALSE
    BY Zenon DEF Init
<1>2. UopsRight(Page, uop)
  <2> DEFINE x == [st |-> "idle", page |-> NoPage, frame |-> NoFrame]
  <2>1. x \in UopSet /\ x.st = "idle" /\ x.frame = NoFrame
      BY Zenon DEF UopSet, States
  <2> HIDE DEF x
  <2>2. uop = [u \in Uops |-> x]
      BY <1>1, Zenon DEF x
  <2> QED
      BY <2>1, <2>2, Zenon DEF UopsRight, UopSet
<1>3. WalksRight(Page, uop, walk_queue)
    BY <1>1, EmptyList, Zenon DEF WalksRight
<1>4. Holds(uop, retry_queue, "retry") /\ Holds(uop, fault_retry_queue, "fault_retry")
    BY <1>1, EmptyList, Zenon DEF Holds
<1>5. FaultsRight(Page, uop, page_table, faults)
    BY <1>1, FS_EmptySet, Zenon DEF FaultsRight
<1>6. BatchRight(Page, uop, page_table, processing) /\ Apart(processing, faults)
    BY <1>1, EmptyList, Zenon DEF BatchRight, Apart
<1>7. PendingRight(uop, pending)
    BY <1>1, Zenon DEF PendingRight
<1>8. TodoRight(uop, phase, todo, pending, retry_queue, fault_retry_queue)
    BY <1>1, TodoEmpty, Zenon
<1>9. TranslationIsCurrent
    BY <1>1, Zenon DEF TranslationIsCurrent
<1> QED
    BY <1>1, <1>2, <1>3, <1>4, <1>5, <1>6, <1>7, <1>8, <1>9, Zenon DEF QueuesRight

LEMMA ViewsAgree ==
    ASSUME MemInv, knob \in Knobs
    PROVE  MappingsAgree
<1>1. MapRight(Page, page_table) /\ TlbRight(Page, page_table, tlb)
    BY MemParts, Zenon
<1>2. ASSUME NEW i \in DOMAIN tlb
      PROVE  /\ page_table[tlb[i].page] = tlb[i].frame
             /\ \A j \in DOMAIN tlb : tlb[i].page = tlb[j].page => i = j
  <2> DEFINE E == [page : Page, frame : Nat]
  <2>1. tlb \in Seq(E) /\ Distinct(tlb) /\ \A e \in Elements(tlb) : page_table[e.page] = e.frame
      BY <1>1, Zenon DEF TlbRight
  <2>2. DOMAIN tlb = 1..Len(tlb) /\ \A j \in DOMAIN tlb : tlb[j] \in Elements(tlb) /\ tlb[j] \in E
    <3> HIDE DEF E
    <3>1. DOMAIN tlb = 1..Len(tlb)
        BY <2>1
    <3> QED
        BY <2>1, <3>1, ElementsIn, Zenon DEF Elements
  <2>3. ASSUME NEW j \in DOMAIN tlb, tlb[i].page = tlb[j].page
        PROVE  i = j
    <3>1. tlb[i].frame = tlb[j].frame /\ tlb[i] \in E /\ tlb[j] \in E
        BY <1>2, <2>1, <2>2, <2>3, Zenon
    <3>2. tlb[i] = tlb[j]
        BY <2>3, <3>1
    <3> QED
        BY <1>2, <2>1, <2>2, <3>2, Zenon DEF Distinct
  <2> QED
      BY <1>2, <2>1, <2>2, <2>3, Zenon
<1>3. \A p, q \in Page : p # q /\ page_table[p] # NoFrame => page_table[p] # page_table[q]
    BY <1>1, Zenon DEF MapRight
<1>4. NonSwap \/ free_frames = Frame \ {page_table[p] : p \in Page}
    BY Zenon DEF MemInv, MemRight, Memory, FramesRight, Frame
<1>5. ASSUME failed = "none", ~NonSwap
      PROVE  /\ {ru.key[ru.list[i]] : i \in DOMAIN ru.list} =
                   {p.pn : p \in {q \in Page : page_table[q] # NoFrame}}
             /\ IsInjective([i \in DOMAIN ru.list |-> ru.key[ru.list[i]]])
  <2> DEFINE l == ru.list
             k == ru.key
             t == ru.table
  <2>1. NodesRight(NumFrames, ru) /\ KeysRight(Page, page_table, ru)
      BY <1>5, MemParts, Zenon
  <2>2. /\ l \in Seq(1..NumFrames) /\ Distinct(l)
        /\ \A n \in Elements(l) : t[k[n]] = n
      BY <2>1, Zenon DEF NodesRight
  <2>3. /\ \A n \in Elements(l) : \E p \in Page : page_table[p] # NoFrame /\ p.pn = k[n]
        /\ \A p \in Page : page_table[p] # NoFrame => \E n \in Elements(l) : k[n] = p.pn
      BY <2>1, Zenon DEF KeysRight
  <2> HIDE DEF l, k, t
  <2>4. DOMAIN l = 1..Len(l) /\ \A i \in DOMAIN l : l[i] \in Elements(l)
      BY <2>2 DEF Elements
  <2>5. \A n \in Elements(l) : \E i \in DOMAIN l : l[i] = n
      BY <2>4, Zenon DEF Elements
  <2>6. {k[l[i]] : i \in DOMAIN l} = {p.pn : p \in {q \in Page : page_table[q] # NoFrame}}
    <3>1. ASSUME NEW i \in DOMAIN l
          PROVE  k[l[i]] \in {p.pn : p \in {q \in Page : page_table[q] # NoFrame}}
        BY <2>3, <2>4, <3>1, Zenon
    <3>2. ASSUME NEW p \in Page, page_table[p] # NoFrame
          PROVE  p.pn \in {k[l[i]] : i \in DOMAIN l}
        BY <2>3, <2>5, <3>2
    <3> QED
        BY <3>1, <3>2, Zenon
  <2>7. \A i, j \in DOMAIN l : k[l[i]] = k[l[j]] => i = j
    <3> SUFFICES ASSUME NEW i \in DOMAIN l, NEW j \in DOMAIN l, k[l[i]] = k[l[j]]
                 PROVE  i = j
        BY Zenon
    <3>1. l[i] = l[j]
        BY <2>2, <2>4
    <3> QED
        BY <2>2, <2>4, <3>1, Zenon DEF Distinct
  <2>8. IsInjective([i \in DOMAIN l |-> k[l[i]]])
      BY <2>7, Zenon DEF IsInjective
  <2> QED
      BY <2>6, <2>8, Zenon DEF l, k
<1> QED
    BY <1>2, <1>3, <1>4, <1>5, Zenon DEF MappingsAgree

\* AllInv is inductive.
LEMMA AllInvHolds == Spec => []AllInv
<1>1. Init => AllInv
  <2>1. Init => IInv
      BY DEF Init, IInv, Batch, FreeFrameEnsured
  <2> QED
      BY <2>1, MemBegins, QueuesBegin, Zenon DEF AllInv
<1>2. AllInv /\ [Next]_vars => AllInv'
    BY AllInvStep, Zenon
<1> QED
    BY <1>1, <1>2, PTL DEF Spec

\* In every step of a walk, a fault, a batch of transfers or an eviction the
\* TLB has the frames of the page table and each page once, no two pages share
\* a frame, the free frames are those that hold no page, and the replacement
\* unit lists the mapped pages, each once.
THEOREM MappingsAlwaysAgree == Spec => []MappingsAgree
<1>1. AllInv => MappingsAgree
    BY ViewsAgree, Zenon DEF AllInv, IInv
<1> QED
    BY <1>1, AllInvHolds, PTL

\* Without page swapping, the frame with which a denied access is tried again
\* (m_translated, m_paddr) is the one the page table has for its page, however
\* long the uop waits in the retry queue or at its core.
THEOREM TranslationsStayCurrent == Spec => []TranslationIsCurrent
<1>1. AllInv => TranslationIsCurrent
    BY DEF AllInv
<1> QED
    BY <1>1, AllInvHolds, PTL
============================================================================
