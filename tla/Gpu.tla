-------------------------------- MODULE Gpu --------------------------------
(***************************************************************************)
(* The GPU (ptx) side of MacSim: the process manager hands the warps of    *)
(* thread blocks to the cores (sim_thread_schedule of process_manager.cc), *)
(* the frontend of a core fetches its warps round robin and holds a warp   *)
(* at a barrier (frontend.cc, trace_read_gpu.cc), and the retire stage     *)
(* counts the barriers, ends the warps, the blocks and the kernels and     *)
(* calls the process manager back (retire.cc).                             *)
(*                                                                         *)
(* A warp is a thread of the code: warp <<b, i>> is the i-th of block b,   *)
(* and block <<k, j>> the j-th of the k-th kernel of the one application.  *)
(* Its instructions are those left once KNOB_MAX_INSTS has cut its trace,  *)
(* one uop each: "op", "br" (a branch) or "bar" (BAR_FETCH).  What happens *)
(* between fetch and retire is the subject of Smc; here the oldest fetched *)
(* uop of a warp may be done at any time.  The width is one, as in         *)
(* params_gtx580 and params_gtx465, MT_NO_FETCH_BR is set as there, and    *)
(* every warp starts with its kernel.                                      *)
(*                                                                         *)
(* The program is sequential.  A stage of a core (frontend, retire) is one *)
(* call; the calls and the turns of the loops it makes are queued in       *)
(* `todo', and nothing else happens until they are done.                   *)
(***************************************************************************)
EXTENDS Integers, Sequences, FiniteSets, SequencesExt

CONSTANTS NumCores,      \* cores of m_core_list, all of type ptx
          NumSchedulers, \* KNOB_NUM_WARP_SCHEDULER
          MaxThreads,    \* max_threads_per_core, the ROBs of a core
          MaxBlock,      \* m_max_block, which each kernel of the process sets
          Program        \* m_applications: kernels, blocks, warps, instructions

Cores == 0 .. NumCores - 1

Blocks == UNION {{k} \X DOMAIN Program[k] : k \in DOMAIN Program}

\* m_total_thread_num
Total(b) == Len(Program[b[1]][b[2]])

Warps == UNION {{b} \X (1 .. Total(b)) : b \in Blocks}

Code(w) == Program[w[1][1]][w[1][2]][w[2]]

None == <<>>

\* The occupancy the trace names fits the core.
ASSUME OccupancyAssumption ==
    /\ NumCores \in Nat \ {0} /\ NumSchedulers \in Nat \ {0}
    /\ MaxBlock \in [DOMAIN Program -> Nat \ {0}]
    /\ \A b \in Blocks : Total(b) > 0 /\ MaxBlock[b[1]] * Total(b) <= MaxThreads
    /\ \A w \in Warps : Code(w) \in Seq({"op", "br", "bar"}) /\ Code(w) # <<>>

VARIABLES core,    \* per core: the counters of core_c and the barriers of its frontend
          warp,    \* per warp: where it runs and how far it is
          info,    \* m_block_schedule_info, the blocks not retired
          kernel,  \* m_current_vector_index
          todo     \* the calls the running stage has still to make

vars == <<core, warp, info, kernel, todo>>

\* m_thread_trace_info of core c, for the threads not terminated
Live(c) == {w \in Warps : warp[w].core = c /\ ~warp[w].finished}

\* m_fetch_ended: the last uop of the trace has been fetched
FetchEnded(w) == warp[w].fetched = Len(Code(w))

\* m_fetching_thread_num is not zero
Fetching(c) == \E w \in Live(c) : ~FetchEnded(w)

InFlight(w) == warp[w].retired < warp[w].fetched

Idle == todo = <<>>

\* The next call to make is a call of op.
Calls(op) == ~Idle /\ todo[1].op = op
-----------------------------------------------------------------------------
(* Dispatch of thread blocks *)

\* sim_thread_schedule fills the cores one after the other.
sim_thread_schedule(initial) ==
    [i \in 1 .. NumCores |-> [op |-> "fill", core |-> i - 1, initial |-> initial]]

\* m_total_thread_num > m_dispatched_thread_num of the block core c is fetching
Unserved(b) == b \in DOMAIN info /\ info[b].dispatched < Total(b)

\* Blocks not started, in the first round only those whose turn it is on core c
Startable(c, initial) ==
    {b \in DOMAIN info : ~info[b].started /\ (initial => (b[2] - 1) % NumCores = c)}

\* Faulty: a new block is started before the last one is given out.
NextBlockFirst(c, initial) ==
    IF core[c].blocks + 1 > MaxBlock[kernel] \/ Startable(c, initial) = {}
    THEN IF Unserved(core[c].fetching) THEN core[c].fetching ELSE None
    ELSE CHOOSE b \in Startable(c, initial) : \A a \in Startable(c, initial) : b[2] <= a[2]

\* The block the next warp of core c comes from: the one being given out, else
\* the first startable one if the core may run another.
sim_schedule_thread_block(c, initial) ==
    IF Unserved(core[c].fetching)
    THEN core[c].fetching
    ELSE IF core[c].blocks + 1 > MaxBlock[kernel] \/ Startable(c, initial) = {}
    THEN None
    ELSE CHOOSE b \in Startable(c, initial) : \A a \in Startable(c, initial) : b[2] <= a[2]

\* Core c is full, or there is no warp for it.
FillEnds(c, initial) ==
    /\ sim_schedule_thread_block(c, initial) = None
    /\ todo' = Tail(todo)
    /\ UNCHANGED <<core, warp, info, kernel>>

\* fetch_block, create_thread, create_trace_info: the next warp of b becomes
\* thread m_unique_scheduled_thread_num of core c, where reserve_rob asserts
\* that a ROB is free.  The loop ends when the core has all its threads.
FillOne(c, initial) ==
    LET b == sim_schedule_thread_block(c, initial)
        n == info[b].dispatched + 1
    IN  /\ b # None
        /\ info' = [info EXCEPT ![b].started = TRUE, ![b].dispatched = n]
        /\ warp' = [warp EXCEPT ![<<b, n>>].core = c, ![<<b, n>>].tid = core[c].next]
        /\ core' = [core EXCEPT ![c].blocks = IF info[b].started THEN @ ELSE @ + 1,
                                ![c].fetching = b,
                                ![c].next = @ + 1,
                                ![c].asserted = @ \/ Cardinality(Live(c)) >= MaxThreads]
        /\ todo' = IF Cardinality(Live(c)) + 1 = MaxThreads THEN Tail(todo) ELSE todo
        /\ UNCHANGED kernel

fill ==
    /\ Calls("fill")
    /\ \/ FillEnds(todo[1].core, todo[1].initial)
       \/ FillOne(todo[1].core, todo[1].initial)

\* insert_block for every warp of kernel k
NewBlocks(k) ==
    [b \in {a \in Blocks : a[1] = k} |-> [started |-> FALSE, dispatched |-> 0, retired |-> 0]]
-----------------------------------------------------------------------------
(* The frontend *)

\* max_try of fetch_rr; the loop is not entered when no thread fetches.
Tries(c) == IF Fetching(c) THEN core[c].next - core[c].last ELSE 0

\* frontend_c::run_a_cycle: one turn for each warp scheduler, each with its
\* outcome should it find a thread.  "miss": the instruction cache misses or
\* the miss is outstanding; "full": the frontend queue has no space, which
\* needs something in flight.
frontend(c, outcomes) ==
    /\ Idle
    /\ Fetching(c)
    /\ (\E i \in DOMAIN outcomes : outcomes[i] = "full") => \E w \in Live(c) : InFlight(w)
    /\ todo' = << [op |-> "turn", core |-> c, outcomes |-> outcomes, prev |-> -1,
                   tries |-> Tries(c)],
                  [op |-> "release", core |-> c] >>
    /\ UNCHANGED <<core, warp, info, kernel>>

\* fetch_rr skips a thread that has ended, waits at a barrier or for a branch.
MayFetch(w) == ~FetchEnded(w) /\ ~warp[w].blocked /\ ~warp[w].br_waiting

\* The thread fetch_rr tries now
FetchId(c) == IF core[c].arbiter >= core[c].next THEN core[c].arbiter % core[c].next
                                                 ELSE core[c].arbiter

Tried(c) == {w \in Live(c) : warp[w].tid = FetchId(c) /\ MayFetch(w)}

\* The arbiter stays where it is after a failed fetch, and jumps over the
\* threads that have all terminated.
NextArbiter(c) ==
    LET k == core[c]
        a == IF k.failed THEN k.arbiter ELSE IF k.arbiter + 1 = k.next THEN 0 ELSE k.arbiter + 1
    IN  IF a < k.last THEN k.last ELSE a

\* No thread was found in max_try tries.
TurnEnds ==
    /\ Calls("turn") /\ todo[1].tries = 0
    /\ todo' = Tail(todo)
    /\ UNCHANGED <<core, warp, info, kernel>>

\* The thread cannot be fetched, or it is the one the last turn has fetched.
TryFails ==
    /\ Calls("turn") /\ todo[1].tries > 0
    /\ LET c == todo[1].core
       IN  /\ Tried(c) = {} \/ FetchId(c) = todo[1].prev
           /\ core' = [core EXCEPT ![c].arbiter = NextArbiter(c), ![c].failed = FALSE]
           /\ todo' = IF Tried(c) = {} THEN [todo EXCEPT ![1].tries = @ - 1] ELSE Tail(todo)
    /\ UNCHANGED <<warp, info, kernel>>

\* get_uops_from_traces and predict_bpu: w with its next uop fetched
FetchUop(w) ==
    LET uop == Code(w)[warp[w].fetched + 1]
    IN  [warp[w] EXCEPT !.fetched = @ + 1,
                        !.blocked = (uop = "bar"),
                        !.br_waiting = (uop = "br")]

\* The barrier of the block of w, new with its first warp
Barrier(sync, w) ==
    IF w[1] \in DOMAIN sync THEN sync
    ELSE [b \in DOMAIN sync \cup {w[1]} |-> IF b = w[1] THEN 0 ELSE sync[b]]

\* A thread is found, and fetched if nothing is in the way.
TryFetches ==
    /\ Calls("turn") /\ todo[1].tries > 0
    /\ \E c \in Cores : \E w \in Tried(c) :
        LET o == todo[1].outcomes
        IN  /\ c = todo[1].core
            /\ FetchId(c) # todo[1].prev
            /\ warp' = IF o[1] = "uop" THEN [warp EXCEPT ![w] = FetchUop(w)] ELSE warp
            /\ core' = [core EXCEPT ![c].arbiter = NextArbiter(c),
                                    ![c].failed = (o[1] = "full"),
                                    ![c].sync = IF warp'[w].blocked THEN Barrier(@, w) ELSE @]
            /\ todo' = IF Len(o) = 1
                       THEN Tail(todo)
                       ELSE [todo EXCEPT ![1].outcomes = Tail(o), ![1].prev = FetchId(c),
                                         ![1].tries = Tries(c)']
    /\ UNCHANGED <<info, kernel>>

\* Faulty: the barrier and its count stay in m_sync_info.
ReleaseKeepsCount ==
    /\ Calls("release")
    /\ LET c == todo[1].core
           freed(w) == /\ w[1] \in ToSet(core[c].sync_done) /\ w \in Live(c) /\ ~FetchEnded(w)
                       /\ warp[w].tid \in core[c].last .. core[c].next - 1
       IN  /\ warp' = [w \in Warps |-> IF freed(w) THEN [warp[w] EXCEPT !.blocked = FALSE]
                                                   ELSE warp[w]]
           /\ core' = [core EXCEPT ![c].sync_done = <<>>]
    /\ todo' = Tail(todo)
    /\ UNCHANGED <<info, kernel>>

\* The end of run_a_cycle: every warp of a block whose barrier is complete
\* goes on, and the barrier is forgotten.
release ==
    /\ Calls("release")
    /\ LET c == todo[1].core
           freed(w) == /\ w[1] \in ToSet(core[c].sync_done) /\ w \in Live(c) /\ ~FetchEnded(w)
                       /\ warp[w].tid \in core[c].last .. core[c].next - 1
       IN  /\ warp' = [w \in Warps |-> IF freed(w) THEN [warp[w] EXCEPT !.blocked = FALSE]
                                                   ELSE warp[w]]
           /\ core' = [core EXCEPT ![c].sync = [b \in DOMAIN @ \ ToSet(core[c].sync_done) |-> @[b]],
                                   ![c].sync_done = <<>>]
    /\ todo' = Tail(todo)
    /\ UNCHANGED <<info, kernel>>

\* The branch w waits for executes.
set_br_ready(w) ==
    /\ Idle
    /\ warp[w].br_waiting
    /\ warp' = [warp EXCEPT ![w].br_waiting = FALSE]
    /\ UNCHANGED <<core, info, kernel, todo>>
-----------------------------------------------------------------------------
(* The retire stage *)

\* retire_c::run_a_cycle: the oldest uops of the warps in `ready' are done;
\* get_n_uops_in_ready_order lists them by thread id.
retire(c, ready) ==
    /\ Idle
    /\ ready # {}
    /\ \A w \in ready : InFlight(w) /\ (Code(w)[warp[w].retired + 1] = "br" => ~warp[w].br_waiting)
    /\ todo' = LET ws == SetToSortSeq(ready, LAMBDA v, w : warp[v].tid < warp[w].tid)
               IN  [i \in DOMAIN ws |-> [op |-> "uop", core |-> c, warp |-> ws[i]]]
    /\ UNCHANGED <<core, warp, info, kernel>>

\* Faulty: the number of other warps is waited for.
SynchedEarly(k, b) ==
    [k EXCEPT !.sync[b] = @ + 1,
              !.sync_done = IF k.sync[b] + 1 = Total(b) - 1 THEN Append(@, b) ELSE @]

\* synch_thread: a warp of block b retires its barrier.
Synched(k, b) ==
    [k EXCEPT !.sync[b] = @ + 1,
              !.sync_done = IF k.sync[b] + 1 = Total(b) THEN Append(@, b) ELSE @]

\* One uop retires.  After the last one terminate_thread is called, whose final
\* heartbeat schedules other threads while this one still holds its ROB.
RetireUop ==
    /\ Calls("uop")
    /\ LET c == todo[1].core
           w == todo[1].warp
           n == warp[w].retired + 1
       IN  /\ warp' = [warp EXCEPT ![w].retired = n]
           /\ core' = [core EXCEPT ![c] = IF Code(w)[n] = "bar" THEN Synched(@, w[1]) ELSE @]
           /\ todo' = IF n = Len(Code(w))
                      THEN sim_thread_schedule(FALSE)
                             \o << [op |-> "terminate", core |-> c, warp |-> w] >> \o Tail(todo)
                      ELSE Tail(todo)
    /\ UNCHANGED <<info, kernel>>

\* The first thread id from n on that is not in m_terminated_tid
FirstLive(n, terminated) ==
    CHOOSE m \in n .. n + Cardinality(terminated) :
        m \notin terminated /\ \A i \in n .. m - 1 : i \in terminated

\* Faulty: threads are taken to terminate in the order of their ids.
DeallocatedInOrder(k, tid) == [k EXCEPT !.last = tid + 1]

\* deallocate_thread_data: m_last_terminated_tid is the first id not terminated.
Deallocated(k, tid) ==
    LET last == FirstLive(k.last, k.terminated \cup {tid})
    IN  [k EXCEPT !.last = last,
                  !.terminated = {i \in @ \cup {tid} : i >= last}]

\* The rest of terminate_thread: the last warp of a block takes it along.
\* Others are scheduled, then a kernel that is over is replaced by the next.
terminate_thread ==
    /\ Calls("terminate")
    /\ LET c == todo[1].core
           w == todo[1].warp
           b == w[1]
           last == info[b].retired + 1 = Total(b)
       IN  /\ warp' = [warp EXCEPT ![w].finished = TRUE]
           /\ core' = [core EXCEPT ![c] = [Deallocated(@, warp[w].tid)
                                             EXCEPT !.blocks = IF last THEN @ - 1 ELSE @]]
           /\ info' = IF last THEN [a \in DOMAIN info \ {b} |-> info[a]]
                              ELSE [info EXCEPT ![b].retired = @ + 1]
    /\ todo' = sim_thread_schedule(FALSE) \o << [op |-> "kernel"] >>
                 \o sim_thread_schedule(FALSE) \o Tail(todo)
    /\ UNCHANGED kernel

\* m_no_of_threads_terminated = m_no_of_threads_created
KernelOver == \A w \in Warps : w[1][1] = kernel => warp[w].finished

\* terminate_process and setup_process, if there is another kernel
NextKernel ==
    /\ Calls("kernel")
    /\ IF KernelOver /\ kernel < Len(Program)
       THEN /\ kernel' = kernel + 1
            /\ info' = NewBlocks(kernel + 1)
            /\ todo' = sim_thread_schedule(TRUE) \o Tail(todo)
       ELSE /\ todo' = Tail(todo)
            /\ UNCHANGED <<info, kernel>>
    /\ UNCHANGED <<core, warp>>
-----------------------------------------------------------------------------
\* create_process has set up the first kernel; sim_thread_schedule is called.
Init ==
    /\ core = [c \in Cores |->
                 [next |-> 0, last |-> 0, terminated |-> {}, blocks |-> 0, fetching |-> None,
                  asserted |-> FALSE, arbiter |-> 0, failed |-> FALSE,
                  sync |-> <<>>, sync_done |-> <<>>]]
    /\ warp = [w \in Warps |->
                 [core |-> -1, tid |-> -1, fetched |-> 0, retired |-> 0, blocked |-> FALSE,
                  br_waiting |-> FALSE, finished |-> FALSE]]
    /\ info = NewBlocks(1)
    /\ kernel = 1
    /\ todo = sim_thread_schedule(TRUE)

Continue ==
    \/ fill
    \/ TurnEnds \/ TryFails \/ TryFetches \/ release
    \/ RetireUop \/ terminate_thread \/ NextKernel

Outcomes == [1 .. NumSchedulers -> {"uop", "miss", "full"}]

Retire(c) == \E ready \in SUBSET Live(c) : retire(c, ready)

\* The last kernel has ended.
Finished ==
    /\ Idle /\ kernel = Len(Program) /\ DOMAIN info = {}
    /\ UNCHANGED vars

Next ==
    \/ Continue
    \/ \E c \in Cores, o \in Outcomes : frontend(c, o)
    \/ \E w \in Warps : set_br_ready(w)
    \/ \E c \in Cores : Retire(c)
    \/ Finished

\* Core c executes a branch or retires.
Backend(c) == Retire(c) \/ \E w \in Live(c) : set_br_ready(w)

\* Every core runs all its stages in each of its cycles; the branches and the
\* uops in flight complete, misses are filled and the frontend queue drains, so
\* again and again a fetch that finds a thread gets its uop.
Fairness ==
    /\ WF_vars(Continue)
    /\ \A c \in Cores : SF_vars(\E o \in Outcomes : o[1] = "uop" /\ frontend(c, o))
    /\ \A c \in Cores : SF_vars(Backend(c))

Spec == Init /\ [][Next]_vars /\ Fairness
-----------------------------------------------------------------------------
\* The number of barriers among the first n uops of w
Bars(w, n) == Cardinality({i \in 1 .. n : Code(w)[i] = "bar"})

\* No warp is fetched past its n-th barrier (m_fetch_blocked) before every warp
\* of its block has retired its own n-th barrier (synch_thread).
BarrierHolds ==
    \A w, v \in Warps :
        w[1] = v[1] => Bars(w, warp[w].fetched - 1) <= Bars(v, warp[v].retired)

\* last_terminated_tid never runs ahead of a live thread: fetch_rr and the
\* release of a barrier, which look at the ids from there to the last one
\* scheduled, see every thread of the core, and every id below it is over.
LiveThreadsInWindow ==
    \A c \in Cores :
        /\ {warp[w].tid : w \in Live(c)}
               = (core[c].last .. core[c].next - 1) \ core[c].terminated
        /\ core[c].last \notin core[c].terminated

\* m_running_block_num of a core is the number of blocks with live warps on it,
\* and once the process manager is done every started block is given out whole.
\* reserve_rob always finds a free ROB, although the heartbeat of an ending
\* thread schedules new ones while it still holds its own.
BlocksAccounted ==
    /\ \A c \in Cores : ~core[c].asserted
    /\ \A c \in Cores : core[c].blocks = Cardinality({w[1] : w \in Live(c)})
    /\ Idle => \A b \in DOMAIN info : info[b].started => info[b].dispatched = Total(b)

\* Every warp of every kernel runs to its end: no barrier is waited for by all
\* and no thread is overlooked by the round robin.
AllWarpsFinish == <>(\A w \in Warps : warp[w].finished)
=============================================================================
