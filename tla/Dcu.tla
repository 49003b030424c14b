-------------------------------- MODULE Dcu --------------------------------
(***************************************************************************)
(* The data caches of one core's path to memory (dcu_c in memory.cc): the  *)
(* input, output, fill and write-back queues of L1, L2, L3 and LLC, the    *)
(* lines with their dirty bits, and the requests that travel through them. *)
(* Levels are numbered as in memreq_info.h, 1 for MEM_L1 to 5 for MEM_MC.  *)
(* The three topologies that work with four levels (llc_decoupled_network, *)
(* l2_decoupled_network, igpu_network) differ in the caches they disable.  *)
(* L1 and L2 are coupled, all other levels talk through the network.       *)
(*                                                                         *)
(* A queue is a set: entries that are not ready, or whose next queue is    *)
(* full, are skipped, so any entry may be the next to be processed.  Ready *)
(* cycles, ports and the replacement order are nondeterministic choices.   *)
(* The packets for a level are a set as well: that receive() offers only   *)
(* the first of them, and those behind a refused one wait, is left out.    *)
(* Merging of requests is the subject of module Mshr; prefetches, LLC      *)
(* bypass and invalidate() are left out.                                   *)
(***************************************************************************)
EXTENDS Integers, FiniteSets

CONSTANTS
    Lines,         \* line addresses (other than 0, which marks "no victim")
    NoLine,        \* victim_line_addr = 0
    Reqs,          \* the MSHR entries of the core
    Wbs,           \* names for write-back requests, numbers
    Ways,          \* lines that a cache holds
    InSize,        \* m_size of each in_queue, by level
    OutSize,       \* m_size of an out_queue
    FillSize,      \* m_size of a fill_queue
    WbSize,        \* m_size of a wb_queue
    Topologies     \* the sets of disabled levels

Levels == 1 .. 4
MEM_LLC == 4
MEM_MC == 5
Ids == Reqs \cup Wbs

\* m_in_queue, m_out_queue, m_fill_queue, m_wb_queue and m_retry_queue of each
\* level, and the network's packets for it.
Places ==
    (Levels \X {"in", "out", "fill", "wb", "retry"}) \cup ((2 .. MEM_MC) \X {"net"})

ASSUME ConstantsAssumption ==
    /\ NoLine \notin Lines
    /\ Reqs \cap Wbs = {} /\ IsFiniteSet(Ids) /\ Wbs \subseteq Nat
    /\ Ways \in Nat \ {0}
    /\ InSize \in [Levels -> Nat \ {0}]
    /\ {OutSize, FillSize, WbSize} \subseteq Nat \ {0}
    /\ Topologies \subseteq SUBSET Levels

VARIABLES
    disabled,   \* the levels whose m_disable is set
    cache,      \* m_cache of each level: what it knows of each line
    queue,      \* the requests at each of Places
    req         \* m_type, m_addr, m_state and m_msg_type of each request

vars == <<disabled, cache, queue, req>>

Free == [type |-> "none", line |-> NoLine, state |-> "free", msg |-> "none"]

Init ==
    /\ disabled \in Topologies
    /\ cache = [k \in Levels |-> [l \in Lines |-> "none"]]
    /\ queue = [p \in Places |-> {}]
    /\ req = [i \in Ids |-> Free]

Live(i) == req[i].type # "none"

\* Request i goes from p to q.
Moved(i, p, q) == [queue EXCEPT ![p] = @ \ {i}, ![q] = @ \cup {i}]

\* Faulty: one entry of the fill queue is never used.
FillFullEarly(k) == Cardinality(queue[<<k, "fill">>]) >= FillSize - 1

\* queue_c::full.
InFull(k) == Cardinality(queue[<<k, "in">>]) >= InSize[k]
OutFull(k) == Cardinality(queue[<<k, "out">>]) >= OutSize
FillFull(k) == Cardinality(queue[<<k, "fill">>]) >= FillSize
WbFull(k) == Cardinality(queue[<<k, "wb">>]) >= WbSize

Present(k) == {l \in Lines : cache[k][l] # "none"}

\* access_cache: a disabled cache never hits.
Hit(k, i) == k \notin disabled /\ req[i].line \in Present(k)

-----------------------------------------------------------------------------

(* Filling a line: process_fill_queue and dcu_c::done.                     *)

\* find_replacement_line: a free way if there is one, else some line.
Victims(k) == IF Cardinality(Present(k)) < Ways THEN {NoLine} ELSE Present(k)

\* The line to be written back when v is replaced in cache k.
WriteBack(k, v) == IF v \in Lines /\ cache[k][v] = "dirty" THEN v ELSE NoLine

Mark(i) == IF req[i].type = "WB" THEN "dirty" ELSE "clean"

\* A faulty update of a line that is present, with = for |=.
MergedAssign(k, i) == Mark(i)

\* line->m_dirty |= req->m_dirty.
MergedMark(k, i) ==
    IF cache[k][req[i].line] = "dirty" THEN "dirty" ELSE Mark(i)

\* What filling request i's line can do to cache k: the lines it then has,
\* and the line it writes back.
Fills(k, i) ==
    LET l == req[i].line
    IN  IF k \in disabled
        THEN {[lines |-> cache[k], wb |-> NoLine]}
        ELSE IF l \in Present(k)
        THEN {[lines |-> [cache[k] EXCEPT ![l] = MergedMark(k, i)], wb |-> NoLine]}
        ELSE {[lines |-> [x \in Lines |-> IF x = l THEN Mark(i)
                                          ELSE IF x = v THEN "none"
                                          ELSE cache[k][x]],
               wb |-> WriteBack(k, v)] : v \in Victims(k)}

\* The name of a write-back of line l, as a set: none for no line, else the
\* first name in Wbs that no live request and no request of `taken' has.
NewWb(l, taken) ==
    LET unused == {w \in Wbs \ taken : ~Live(w)}
    IN  IF l = NoLine THEN {{}}
        ELSE {{w} : w \in {x \in unused : \A y \in unused : x <= y}}

\* new_wb_req: the requests r with those of n added for line l.
WithWb(r, n, l) ==
    [i \in Ids |-> IF i \in n
                   THEN [type |-> "WB", line |-> l, state |-> "NEW", msg |-> "none"]
                   ELSE r[i]]

-----------------------------------------------------------------------------

(* The core's side: dcu_c::access of L1 and new_mem_req.                   *)

\* A bound on the environment: as many stores can be outstanding, as dirty
\* lines, write-backs or store requests, as there are names for write-backs.
Outstanding ==
    Cardinality({d \in Levels \X Lines : cache[d[1]][d[2]] = "dirty"})
    + Cardinality({i \in Ids : req[i].type \in {"WB", "DSTORE"}})

MayStore == Outstanding < Cardinality(Wbs)

\* A store that hits in L1.
StoreHit(l) ==
    /\ 1 \notin disabled
    /\ l \in Present(1)
    /\ MayStore
    /\ cache' = [cache EXCEPT ![1][l] = "dirty"]
    /\ UNCHANGED <<disabled, queue, req>>

\* dcu_c::insert: where the request goes.
Entry(k) == IF InFull(k) THEN <<k, "retry">> ELSE <<k, "in">>

\* A load or store that misses in L1, or finds it disabled, and has no
\* request in flight to merge with.
Miss(t, l, i) ==
    /\ 1 \in disabled \/ l \notin Present(1)
    /\ ~Live(i)
    /\ \A j \in Reqs : req[j].line # l
    /\ t = "DSTORE" => MayStore
    /\ req' = [req EXCEPT ![i] = [type |-> t, line |-> l, state |-> "NEW", msg |-> "none"]]
    /\ queue' = [queue EXCEPT ![Entry(2)] = @ \cup {i}]
    /\ UNCHANGED <<disabled, cache>>

-----------------------------------------------------------------------------

(* dcu_c::run_a_cycle, one queue entry at a time.                          *)

\* A faulty retry that leaves the request on the retry queue.
RetryKeeps(k, i) ==
    /\ i \in queue[<<k, "retry">>]
    /\ ~InFull(k)
    /\ queue' = [queue EXCEPT ![<<k, "in">>] = @ \cup {i}]
    /\ UNCHANGED <<disabled, cache, req>>

\* A request put off by insert() gets into the input queue.
Retry(k, i) ==
    /\ i \in queue[<<k, "retry">>]
    /\ ~InFull(k)
    /\ queue' = Moved(i, <<k, "retry">>, <<k, "in">>)
    /\ UNCHANGED <<disabled, cache, req>>

\* process_wb_queue: L1 fills the coupled L2, the others use the network.
ProcessWb(k, i) ==
    /\ i \in queue[<<k, "wb">>]
    /\ IF k = 1
       THEN /\ ~FillFull(2)
            /\ queue' = Moved(i, <<1, "wb">>, <<2, "fill">>)
            /\ req' = [req EXCEPT ![i].state = "FILL_NEW"]
       ELSE /\ ~OutFull(k)
            /\ queue' = Moved(i, <<k, "wb">>, <<k, "out">>)
            /\ req' = [req EXCEPT ![i].state = "OUT_WB"]
    /\ UNCHANGED <<disabled, cache>>

\* process_out_queue: a new request and a write-back go down, a fill goes up.
ProcessOut(k, i) ==
    LET to == IF req[i].state = "OUT_FILL" THEN k - 1 ELSE k + 1
    IN  /\ i \in queue[<<k, "out">>]
        /\ queue' = Moved(i, <<k, "out">>, <<to, "net">>)
        /\ req' = [req EXCEPT ![i].state = "IN_NOC",
                    ![i].msg = IF req[i].state = "OUTQUEUE_NEW" THEN "NEW" ELSE "FILL"]
        /\ UNCHANGED <<disabled, cache>>

\* A hit marks the line dirty if it is a store's, whether or not the rest of
\* the hit succeeds in this cycle.
HitCache(k, i) ==
    IF req[i].type \in {"DSTORE", "WB"}
    THEN [cache EXCEPT ![k][req[i].line] = "dirty"]
    ELSE cache

\* A request goes from the given queue of level k to its output queue.
ToOut(k, i, from, state) ==
    /\ ~OutFull(k)
    /\ queue' = Moved(i, <<k, from>>, <<k, "out">>)
    /\ req' = [req EXCEPT ![i].state = state]

\* process_in_queue, a hit below L2: the line goes up through the network.
InHit(k, i) ==
    /\ k > 2
    /\ i \in queue[<<k, "in">>]
    /\ Hit(k, i)
    /\ cache' = HitCache(k, i)
    /\ \/ ToOut(k, i, "in", "OUT_FILL")
       \/ OutFull(k) /\ UNCHANGED <<queue, req>>
    /\ UNCHANGED disabled

\* process_in_queue, a miss or a disabled cache: the request goes down.
InMiss(k, i) ==
    /\ i \in queue[<<k, "in">>]
    /\ ~Hit(k, i)
    /\ ToOut(k, i, "in", "OUTQUEUE_NEW")
    /\ UNCHANGED <<disabled, cache>>

\* A faulty dcu_c::done that does not look at the write-back queue.
DoneUnchecked(i) == Fills(1, i)

\* dcu_c::done of L1, called at L2 through the done function of a request.
\* No outcome: it returns false because the write-back queue is full.
done(i) == IF WbFull(1) THEN {} ELSE Fills(1, i)

\* process_in_queue, a hit in L2: the done function fills L1 and the request
\* is freed, or it fails, also because the port is taken, and stays.
InDone(i) ==
    /\ i \in queue[<<2, "in">>]
    /\ Hit(2, i)
    /\ \/ \E f \in done(i) : \E n \in NewWb(f.wb, {}) :
            /\ cache' = [HitCache(2, i) EXCEPT ![1] = f.lines]
            /\ queue' = [queue EXCEPT ![<<2, "in">>] = @ \ {i}, ![<<1, "wb">>] = @ \cup n]
            /\ req' = [WithWb(req, n, f.wb) EXCEPT ![i] = Free]
       \/ cache' = HitCache(2, i) /\ UNCHANGED <<queue, req>>
    /\ UNCHANGED disabled

-----------------------------------------------------------------------------

(* process_fill_queue.                                                     *)

\* "if wb-queue is full, fill request cannot be made".
FillAllowed(k) == ~WbFull(k)

\* MEM_FILL_NEW at L2, where the done function is called: the line enters L2,
\* then L1 if the function succeeds; else the request waits to call it again.
\* A write-back from L1 has no done function and is complete.
FillL2(i) ==
    /\ i \in queue[<<2, "fill">>]
    /\ req[i].state = "FILL_NEW"
    /\ FillAllowed(2)
    /\ \E f \in Fills(2, i) : \E n \in NewWb(f.wb, {}) :
        \/ /\ req[i].type # "WB"
           /\ \E g \in done(i) : \E m \in NewWb(g.wb, n) :
                /\ cache' = [cache EXCEPT ![1] = g.lines, ![2] = f.lines]
                /\ queue' = [queue EXCEPT ![<<2, "fill">>] = @ \ {i}, ![<<2, "wb">>] = @ \cup n,
                                          ![<<1, "wb">>] = @ \cup m]
                /\ req' = [WithWb(WithWb(req, n, f.wb), m, g.wb) EXCEPT ![i] = Free]
        \/ /\ req[i].type # "WB"
           /\ cache' = [cache EXCEPT ![2] = f.lines]
           /\ queue' = [queue EXCEPT ![<<2, "wb">>] = @ \cup n]
           /\ req' = [WithWb(req, n, f.wb) EXCEPT ![i].state = "FILL_WAIT_DONE"]
        \/ /\ req[i].type = "WB"
           /\ cache' = [cache EXCEPT ![2] = f.lines]
           /\ queue' = [queue EXCEPT ![<<2, "fill">>] = @ \ {i}, ![<<2, "wb">>] = @ \cup n]
           /\ req' = [WithWb(req, n, f.wb) EXCEPT ![i] = Free]
    /\ UNCHANGED disabled

\* MEM_FILL_WAIT_DONE.
FillWaitDone(i) ==
    /\ i \in queue[<<2, "fill">>]
    /\ req[i].state = "FILL_WAIT_DONE"
    /\ FillAllowed(2)
    /\ \E g \in done(i) : \E n \in NewWb(g.wb, {}) :
        /\ cache' = [cache EXCEPT ![1] = g.lines]
        /\ queue' = [queue EXCEPT ![<<2, "fill">>] = @ \ {i}, ![<<1, "wb">>] = @ \cup n]
        /\ req' = [WithWb(req, n, g.wb) EXCEPT ![i] = Free]
    /\ UNCHANGED disabled

\* MEM_FILL_NEW at L3 and LLC: a write-back is complete, a line is passed up.
FillBelow(k, i) ==
    /\ k > 2
    /\ i \in queue[<<k, "fill">>]
    /\ req[i].state = "FILL_NEW"
    /\ FillAllowed(k)
    /\ \E f \in Fills(k, i) : \E n \in NewWb(f.wb, {}) :
        /\ cache' = [cache EXCEPT ![k] = f.lines]
        /\ \/ /\ req[i].type = "WB"
              /\ queue' = [queue EXCEPT ![<<k, "fill">>] = @ \ {i}, ![<<k, "wb">>] = @ \cup n]
              /\ req' = [WithWb(req, n, f.wb) EXCEPT ![i] = Free]
           \/ /\ req[i].type # "WB" /\ ~OutFull(k)
              /\ queue' = [queue EXCEPT ![<<k, "fill">>] = @ \ {i}, ![<<k, "wb">>] = @ \cup n,
                                        ![<<k, "out">>] = @ \cup {i}]
              /\ req' = [WithWb(req, n, f.wb) EXCEPT ![i].state = "OUT_FILL"]
           \/ /\ req[i].type # "WB" /\ OutFull(k)
              /\ queue' = [queue EXCEPT ![<<k, "wb">>] = @ \cup n]
              /\ req' = [WithWb(req, n, f.wb) EXCEPT ![i].state = "FILL_WAIT_FILL"]
    /\ UNCHANGED disabled

\* MEM_FILL_WAIT_FILL.
FillWaitFill(k, i) ==
    /\ i \in queue[<<k, "fill">>]
    /\ req[i].state = "FILL_WAIT_FILL"
    /\ FillAllowed(k)
    /\ ToOut(k, i, "fill", "OUT_FILL")
    /\ UNCHANGED <<disabled, cache>>

-----------------------------------------------------------------------------

\* receive_packet of a fill: it stays in the router when the queue is full.
ReceiveFill(k, i) ==
    /\ i \in queue[<<k, "net">>]
    /\ req[i].msg = "FILL"
    /\ ~FillFull(k)
    /\ queue' = Moved(i, <<k, "net">>, <<k, "fill">>)
    /\ req' = [req EXCEPT ![i].state = "FILL_NEW"]
    /\ UNCHANGED <<disabled, cache>>

\* receive_packet of a new request.  When the queue is full insert() keeps
\* it for a retry and reports failure, so that it stays in the router too.
ReceiveNew(k, i) ==
    /\ i \in queue[<<k, "net">>]
    /\ req[i].msg = "NEW"
    /\ queue' = IF InFull(k) THEN [queue EXCEPT ![<<k, "retry">>] = @ \cup {i}]
                ELSE Moved(i, <<k, "net">>, <<k, "in">>)
    /\ req' = [req EXCEPT ![i].state = "NOC_DONE"]
    /\ UNCHANGED <<disabled, cache>>

\* The memory controller: a write-back is retired, anything else is answered.
Dram(i) ==
    /\ i \in queue[<<MEM_MC, "net">>]
    /\ IF req[i].type = "WB"
       THEN /\ queue' = [queue EXCEPT ![<<MEM_MC, "net">>] = @ \ {i}]
            /\ req' = [req EXCEPT ![i] = Free]
       ELSE /\ queue' = Moved(i, <<MEM_MC, "net">>, <<MEM_LLC, "net">>)
            /\ req' = [req EXCEPT ![i].msg = "FILL"]
    /\ UNCHANGED <<disabled, cache>>

\* One step of request i, wherever it is.
Step(i) ==
    \/ \E k \in 2 .. 4 : Retry(k, i)
    \/ \E k \in Levels : ProcessWb(k, i)
    \/ \E k \in 2 .. 4 : ProcessOut(k, i)
    \/ \E k \in 3 .. 4 : InHit(k, i)
    \/ \E k \in 2 .. 4 : InMiss(k, i)
    \/ InDone(i)
    \/ FillL2(i)
    \/ FillWaitDone(i)
    \/ \E k \in 3 .. 4 : FillBelow(k, i)
    \/ \E k \in 3 .. 4 : FillWaitFill(k, i)
    \/ \E k \in 2 .. 4 : ReceiveFill(k, i)
    \/ \E k \in 3 .. 4 : ReceiveNew(k, i)
    \/ Dram(i)

Next ==
    \/ \E l \in Lines : StoreHit(l)
    \/ \E t \in {"DFETCH", "DSTORE"}, l \in Lines, i \in Reqs : Miss(t, l, i)
    \/ \E i \in Ids : Step(i)

Spec == Init /\ [][Next]_vars

\* Every cache scans its queues in every cycle, ports are free again in the
\* next cycle and network and memory serve what they accept: a request that
\* can move again and again does.
FairSpec == Spec /\ \A i \in Ids : SF_vars(Step(i))

-----------------------------------------------------------------------------

\* The queues and routers a request is in.
PlacesOf(i) == {p \in Places : i \in queue[p]}

\* A request in flight is in exactly one queue or router, as its one m_queue
\* pointer supposes, and a freed one is in none: no request is lost between
\* two queues, and none is completed, and so freed, twice.
InOnePlace ==
    \A i \in Ids : Cardinality(PlacesOf(i)) = IF Live(i) THEN 1 ELSE 0

\* The write-back queue has room whenever a victim is pushed on it: all other
\* pushes may fail and are tried again, this one is answered with ASSERT(0).
\* The room was tested by process_fill_queue or, for a line that the level
\* below hands up, by done().
WbNeverRejected == \A k \in Levels : Cardinality(queue[<<k, "wb">>]) <= WbSize

\* A line is modified somewhere: in a cache or in a write-back under way.
Modified(l) ==
    \/ \E k \in Levels : cache[k][l] = "dirty"
    \/ \E i \in Wbs : Live(i) /\ req[i].line = l

\* A write-back of line l is about to be retired by the memory, or is taken for
\* filled by a disabled cache.
Retired(l) ==
    \E i \in Wbs :
        /\ req[i].type = "WB" /\ req[i].line = l
        /\ i \in queue[<<MEM_MC, "net">>] \/ \E k \in disabled : i \in queue[<<k, "fill">>]

\* The last trace of a store to a line goes away only with a write-back of
\* that line that memory retires, or that a disabled cache takes for filled:
\* no eviction, refill or hand-over between caches makes a dirty line clean.
DirtyUntilRetired ==
    [][\A l \in Lines : Modified(l) /\ ~Modified(l)' => Retired(l)]_vars

\* Every request of the core is completed, although fills wait for room for
\* write-backs, write-backs for room in the next fill queue, and fills there
\* for room to go up.  It takes a fill queue with more entries than the core has
\* requests: with as many, three lines are enough for all of them to wait.
RequestsComplete == \A i \in Reqs : Live(i) ~> ~Live(i)

=============================================================================
