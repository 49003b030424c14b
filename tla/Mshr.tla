-------------------------------- MODULE Mshr --------------------------------
(***************************************************************************)
(* The miss-status entries of memory_c (memory.cc): how a miss of a core   *)
(* gets an entry, merges with a request in flight or promotes a prefetch,  *)
(* how a returning line serves the whole tree of merged requests, and how  *)
(* entries go back to the free list.  The path of a request through the    *)
(* cache queues and the network is reduced to its place: the one thing     *)
(* this code asks of it is whether m_queue is set (flush_prefetch) and     *)
(* whether the L2 input queue is full.  Compute-capability 2.0 stores,     *)
(* which never take an entry, are not modelled.                            *)
(*                                                                         *)
(* m_mshr and the free lists are sets: search_req returns the first match  *)
(* of a list, the model any match of the same list.                        *)
(***************************************************************************)
EXTENDS Integers, FiniteSets

CONSTANTS
    NumCores,      \* KNOB_NUM_SIM_CORES
    Entries,       \* all mem_req_s objects of all free lists
    Home,          \* Entries -> core whose free list the constructor puts it on
    Lines,         \* cache lines
    Loads,         \* data-cache clients (uops in dcu_c::access)
    Fetches,       \* instruction-cache clients (threads in access_icache)
    ClientCore,    \* the core each client runs on
    Asks,          \* the lines each client may ask for
    L2InSize,      \* entries of an L2 input queue
    Prefetched,    \* the lines prefetch requests are made for
    None           \* no line, no uop

Cores == 0 .. NumCores - 1
Prefetching == Prefetched # {}
Clients == Loads \cup Fetches
Types == {"IFETCH", "DFETCH", "DPRF"}
Queues == {"in", "out", "llc", "fill"}
Places == Queues \cup {"none", "retry", "noc", "reply", "merged"}

ASSUME ConstantsAssumption ==
    /\ NumCores \in Nat \ {0}
    /\ Home \in [Entries -> Cores]
    /\ ClientCore \in [Clients -> Cores]
    /\ L2InSize \in Nat
    /\ None \notin Lines \cup Clients \cup Entries
    /\ Loads \cap Fetches = {}

VARIABLES
    mshr,          \* m_mshr
    freeList,      \* m_mshr_free_list
    req,           \* the fields of each entry
    merge,         \* m_merge of each entry
    stopPrefetch,  \* m_stop_prefetch > m_cycle
    client         \* what each uop or fetching thread is waiting for

vars == <<mshr, freeList, req, merge, stopPrefetch, client>>

-----------------------------------------------------------------------------

\* mem_req_s::init.
InitReq ==
    [type |-> "IFETCH", line |-> None, core |-> 0, uop |-> None,
     place |-> "none", at |-> 0]

IdleClient == [state |-> "idle", line |-> None]

Init ==
    /\ mshr = [c \in Cores |-> {}]
    /\ freeList = [c \in Cores |-> {e \in Entries : Home[e] = c}]
    /\ req = [e \in Entries |-> InitReq]
    /\ merge = [e \in Entries |-> {}]
    /\ stopPrefetch = FALSE
    /\ client = [u \in Clients |-> IdleClient]

\* search_req over one core's list.
search_req(c, l) == {e \in mshr[c] : req[e].line = l}

\* new_mem_req searches the cores in order and stops at the first match.
MatchingReqs(l) ==
    UNION {search_req(c, l) : c \in {d \in Cores :
        \A b \in 0 .. d - 1 : search_req(b, l) = {}}}

InQueue(c) == {e \in Entries : req[e].place = "in" /\ req[e].at = c}

L2Full(c) == Cardinality(InQueue(c)) = L2InSize

\* The requests flush_prefetch(c) takes out of their queue and frees.
flush_prefetch(c) ==
    {e \in mshr[c] : /\ req[e].type = "DPRF"
                     /\ merge[e] = {}
                     /\ req[e].place \in Queues}

-----------------------------------------------------------------------------

(* The client's side of new_mem_req: dcu_c::access and access_icache.      *)

\* A uop whose request is accepted waits for its done function; a thread
\* blocks on m_fetch_ready_addr.
Accepted(u, l) == [client EXCEPT ![u] = [state |-> "waiting", line |-> l]]

\* A refused uop is denied and tries again.  access_icache returns false,
\* the value of CACHE_HIT, so the thread fetches on without the line.
Refused(u, l) ==
    [client EXCEPT ![u] =
        [state |-> IF u \in Fetches THEN "unfilled" ELSE "denied", line |-> l]]

RequestType(u) == IF u \in Fetches THEN "IFETCH" ELSE "DFETCH"

CanAsk(u, l) ==
    /\ l \in Asks[u]
    /\ client[u].state # "waiting"
    /\ client[u].state = "denied" => client[u].line = l

-----------------------------------------------------------------------------

(* new_mem_req.                                                            *)

\* A faulty adjust_req that leaves m_uop as it was.
AdjustKeepsUop(m, t, l, u, c) ==
    req' = [req EXCEPT ![m] = [@ EXCEPT !.type = t, !.line = l, !.core = c]]

\* A demand finds a prefetch of the line in flight: adjust_req turns the
\* prefetch into this demand and leaves it where it is.
adjust_req(m, t, l, u, c) ==
    req' = [req EXCEPT ![m] = [@ EXCEPT !.type = t, !.line = l, !.core = c, !.uop = u]]

Promote(u, l) ==
    /\ CanAsk(u, l)
    /\ \E m \in MatchingReqs(l) :
        /\ req[m].type = "DPRF"
        /\ adjust_req(m, RequestType(u), l, u, ClientCore[u])
    /\ client' = Accepted(u, l)
    /\ UNCHANGED <<mshr, freeList, merge, stopPrefetch>>

\* A prefetch is dropped while prefetching is stopped, or when a request of
\* the line is in flight.
DropPrefetch(l) ==
    /\ l \in Prefetched
    /\ stopPrefetch \/ MatchingReqs(l) # {}
    /\ UNCHANGED vars

\* A full L2 input queue, or an empty free list, stops prefetching and
\* flushes the core's queued prefetches.
Flushes(c) == L2Full(c) \/ freeList[c] = {}

Flushed(c) == IF Flushes(c) THEN flush_prefetch(c) ELSE {}

FlushedReq(c) ==
    [e \in Entries |-> IF e \in Flushed(c) THEN InitReq ELSE req[e]]

StillFull(c) == Cardinality(InQueue(c) \ Flushed(c)) = L2InSize

\* The free list when allocate_new_entry is first tried: only a full queue
\* has flushed by then.
FreeAtFirst(c) == freeList[c] \cup (IF L2Full(c) THEN Flushed(c) ELSE {})

\* The two ways a prefetch is given up after the flush.
PrefetchGivenUp(c) ==
    \/ L2Full(c) /\ StillFull(c)
    \/ FreeAtFirst(c) = {}

\* The effect of the flush alone.
FlushOnly(c) ==
    /\ mshr' = [mshr EXCEPT ![c] = @ \ Flushed(c)]
    /\ freeList' = [freeList EXCEPT ![c] = @ \cup Flushed(c)]
    /\ req' = FlushedReq(c)
    /\ stopPrefetch' = (stopPrefetch \/ Flushes(c))
    /\ UNCHANGED merge

\* A faulty allocate_new_entry without the pop_back.
AllocatedStaysFree(c, e) == freeList[c] \cup Flushed(c)

\* The free list after allocate_new_entry took e from it.
Unallocated(c, e) == (freeList[c] \cup Flushed(c)) \ {e}

\* A faulty merge that only marks the new request as merged.
JoinedNowhere(m, e) == merge

\* m_merge of every request once e has joined m, if there is an m.
Joined(m, e) == IF m = None THEN merge ELSE [merge EXCEPT ![m] = @ \cup {e}]

\* allocate_new_entry, init_new_req, and then the merge with m, or with
\* m = None the insertion in the L2 input queue; insert() puts the request
\* on the retry queue when the input queue is full.
Allocate(c, e, m, t, l, u) ==
    /\ mshr' = [mshr EXCEPT ![c] = (@ \ Flushed(c)) \cup {e}]
    /\ freeList' = [freeList EXCEPT ![c] = Unallocated(c, e)]
    /\ req' = [FlushedReq(c) EXCEPT ![e] =
                [type |-> t, line |-> l, core |-> c, uop |-> u,
                 place |-> IF m # None THEN "merged"
                           ELSE IF StillFull(c) THEN "retry" ELSE "in",
                 at |-> c]]
    /\ merge' = Joined(m, e)
    /\ stopPrefetch' = (stopPrefetch \/ Flushes(c))

\* A demand with no prefetch to promote: it takes an entry, merged or queued,
\* or is refused when the flush has left no free entry either.
DemandMiss(u, l) ==
    LET c == ClientCore[u]
        matches == MatchingReqs(l)
    IN  /\ CanAsk(u, l)
        /\ matches = {} \/ \E m \in matches : req[m].type # "DPRF"
        /\ \E m \in IF matches = {} THEN {None}
                    ELSE {x \in matches : req[x].type # "DPRF"} :
           \E e \in freeList[c] \cup Flushed(c) :
               Allocate(c, e, m, RequestType(u), l, u)
        /\ client' = Accepted(u, l)

DemandRefused(u, l) ==
    LET c == ClientCore[u]
        matches == MatchingReqs(l)
    IN  /\ CanAsk(u, l)
        /\ matches = {} \/ \E m \in matches : req[m].type # "DPRF"
        /\ freeList[c] \cup Flushed(c) = {}
        /\ FlushOnly(c)
        /\ client' = Refused(u, l)

\* A prefetch of a line no request is in flight for.
Prefetch(c, l) ==
    /\ l \in Prefetched
    /\ ~stopPrefetch
    /\ MatchingReqs(l) = {}
    /\ IF PrefetchGivenUp(c)
       THEN FlushOnly(c)
       ELSE \E e \in FreeAtFirst(c) : Allocate(c, e, None, "DPRF", l, None)
    /\ UNCHANGED client

\* 500 cycles later.
PrefetchAgain ==
    /\ stopPrefetch
    /\ stopPrefetch' = FALSE
    /\ UNCHANGED <<mshr, freeList, req, merge, client>>

-----------------------------------------------------------------------------

(* The way of a request to memory and back, as far as m_queue shows it.    *)

\* insert() of a request that was put off succeeds in a later cycle.
Retry(e) ==
    /\ req[e].place = "retry"
    /\ ~L2Full(req[e].at)
    /\ req' = [req EXCEPT ![e].place = "in"]
    /\ UNCHANGED <<mshr, freeList, merge, stopPrefetch, client>>

\* in: L2 miss, to the output queue; out: sent, m_queue = NULL; llc: the
\* LLC's queues; reply: the network, or the memory controller; fill: back in
\* the L2 fill queue, directly when the LLC is coupled.
NextPlaces ==
    [in |-> {"out"}, out |-> {"noc"}, noc |-> {"llc"},
     llc |-> {"reply", "fill"}, reply |-> {"fill"}]

Move(e) ==
    /\ req[e].place \in DOMAIN NextPlaces
    /\ \E p \in NextPlaces[req[e].place] : req' = [req EXCEPT ![e].place = p]
    /\ UNCHANGED <<mshr, freeList, merge, stopPrefetch, client>>

-----------------------------------------------------------------------------

(* The done functions.                                                     *)

\* e and every request merged with it, directly or through others.
Under(e) ==
    {x \in Entries : \A S \in SUBSET Entries :
        (e \in S /\ \A y \in S : merge[y] \subseteq S) => x \in S}

\* dcache_fill_line_wrapper and icache_fill_line_wrapper call the done
\* function of every merged request, and a request is done when all those
\* merged with it are and its own cache could be written.  busy is the set
\* of requests whose own dcu_c::done fails (port busy, write-back queue full).
Served(e, busy) == {x \in Under(e) : Under(x) \cap busy = {}}

\* The uops and threads that go on: a data request wakes its uop when it is
\* served; icache_fill_line runs even when a merged request has failed.
Woken(e, busy) ==
    {x \in Under(e) : x \in Served(e, busy) \/ req[x].type = "IFETCH"}

\* A faulty icache_fill_line that unblocks no thread.
WokenLoads(w) == {u \in Loads : \E x \in w : req[x].uop = u}

\* icache_fill_line unblocks every thread of the core waiting for the line.
WokenClients(w) ==
    {u \in Loads : \E x \in w : req[x].uop = u} \cup
    {u \in Fetches : \E x \in w : /\ req[x].type = "IFETCH"
                                  /\ req[x].core = ClientCore[u]
                                  /\ req[x].line = client[u].line
                                  /\ client[u].state = "waiting"}

\* m_merge once the served requests have left it.
Unserved(served) ==
    [x \in Entries |-> IF x \in served THEN {} ELSE merge[x] \ served]

\* free_req of every served request, on the lists of the core it names.
free_req(served) ==
    /\ mshr' = [c \in Cores |-> mshr[c] \ {x \in served : req[x].core = c}]
    /\ freeList' = [c \in Cores |->
                     freeList[c] \cup {x \in served : req[x].core = c}]
    /\ req' = [x \in Entries |-> IF x \in served THEN InitReq ELSE req[x]]

\* An L2 hit in the input queue, or a line in the fill queue: the done
\* function is called; what it could not serve stays and is tried again.
Complete(e, busy) ==
    /\ req[e].place \in {"in", "fill"}
    /\ LET served == Served(e, busy)
       IN  /\ free_req(served)
           /\ merge' = Unserved(served)
           /\ client' = [u \in Clients |->
                IF u \in WokenClients(Woken(e, busy))
                THEN [client[u] EXCEPT !.state = "filled"]
                ELSE client[u]]
    /\ UNCHANGED stopPrefetch

\* Requests whose done function can fail: not those of the icache.
MayBeBusy(e) == {x \in Under(e) : req[x].type # "IFETCH"}

-----------------------------------------------------------------------------

Next ==
    \/ \E u \in Clients, l \in Lines : Promote(u, l)
    \/ \E u \in Clients, l \in Lines : DemandMiss(u, l)
    \/ \E u \in Clients, l \in Lines : DemandRefused(u, l)
    \/ \E l \in Lines : DropPrefetch(l)
    \/ \E c \in Cores, l \in Lines : Prefetch(c, l)
    \/ PrefetchAgain
    \/ \E e \in Entries : Retry(e)
    \/ \E e \in Entries : Move(e)
    \/ \E e \in Entries : \E busy \in SUBSET MayBeBusy(e) : Complete(e, busy)

Spec == Init /\ [][Next]_vars

\* The caches are clocked every cycle and the network delivers, so a queued
\* request moves on; a request put off is not passed over for ever by newer
\* ones (the retry queue is served first in every cycle); a request whose line
\* is back is served in some cycle in which no port it needs is taken.
Progress(e) == Retry(e) \/ Move(e) \/ Complete(e, {})

Fairness == \A e \in Entries : SF_vars(Progress(e))

FairSpec == Spec /\ Fairness

-----------------------------------------------------------------------------

TypeOK ==
    /\ mshr \in [Cores -> SUBSET Entries]
    /\ freeList \in [Cores -> SUBSET Entries]
    /\ req \in [Entries -> [type : Types, line : Lines \cup {None}, core : Cores,
                            uop : Clients \cup {None}, place : Places, at : Cores]]
    /\ merge \in [Entries -> SUBSET Entries]
    /\ stopPrefetch \in BOOLEAN
    /\ client \in [Clients ->
         [state : {"idle", "waiting", "denied", "unfilled", "filled"},
          line : Lines \cup {None}]]

Live(e) == req[e].place # "none"

\* The constructor gives every core its own entries, and m_mshr and
\* m_mshr_free_list are "per L1 cache": at all times each of them is either
\* free or in use, on the lists of its own core and of no other.
EntriesStayHome ==
    \A e \in Entries, c \in Cores :
        /\ e \in mshr[c] <=> (c = Home[e] /\ Live(e))
        /\ e \in freeList[c] <=> (c = Home[e] /\ ~Live(e))

\* An entry is on some free list exactly when no request uses it: no request
\* in flight can be handed out a second time, and no entry is lost, whatever
\* is promoted, flushed or freed on whichever core's lists.
FreeIffUnused ==
    \A e \in Entries :
        /\ Live(e) <=> \A c \in Cores : e \notin freeList[c]
        /\ \A c, d \in Cores : e \in freeList[c] \cap freeList[d] => c = d

\* A uop that new_mem_req has accepted is carried by exactly one request in
\* flight until that request's done function has woken it: no flush, merge or
\* promotion drops a uop, and none duplicates one.
WaitingLoadHasEntry ==
    \A u \in Loads : client[u].state = "waiting" =>
        \E e \in Entries :
            /\ Live(e) /\ req[e].uop = u /\ req[e].line = client[u].line
            /\ \A f \in Entries : req[f].uop = u => f = e

\* A merged request hangs on exactly one other request in flight, of the same
\* line, and only merged requests hang on others: free_req never drops a
\* request that others wait behind.  Following m_merged_req, through the
\* requests of any cores, ends at one that is really on its way to memory.
MergedReachMemory ==
    \A e \in Entries :
        IF req[e].place = "merged"
        THEN /\ \E p \in Entries :
                   /\ Live(p) /\ req[p].line = req[e].line
                   /\ \A q \in Entries : e \in merge[q] <=> q = p
             /\ \E r \in Entries : e \in Under(r) /\ req[r].place \notin {"merged", "none"}
        ELSE \A q \in Entries : e \notin merge[q]

\* "return false, if mshr full": a demand is refused only when each of the
\* entries its core was built with really holds a request in flight.
RefusedOnlyWhenFull ==
    [][\A u \in Clients :
        client'[u].state \in {"denied", "unfilled"} /\ client[u] # client'[u] =>
            \A e \in Entries : Home[e] = ClientCore[u] => Live(e)]_vars

\* Every uop and every thread that waits for a line gets it.
WaitingIsServed ==
    \A u \in Clients : client[u].state = "waiting" ~> client[u].state = "filled"

=============================================================================
