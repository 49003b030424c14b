------------------------------- MODULE Backend -------------------------------
(***************************************************************************)
(* The back end of a CPU core: allocation (allocate.cc), the reorder       *)
(* buffer with its fence lists and versions (rob.cc, fence.h), the         *)
(* out-of-order and the in-order scheduler (schedule*.cc), what execution  *)
(* does to fences and memory uops (exec.cc), and retirement with its write *)
(* buffer (retire.cc).  What a uop waits for is recorded when it is        *)
(* fetched (module Map).                                                   *)
(*                                                                         *)
(* core_c::run_a_cycle runs the stages backwards: retire, schedule,        *)
(* allocate, fetch.  `stage' is the point reached in the cycle, and one    *)
(* iteration of a stage's loop is one action.  Between two cycles the      *)
(* memory system and the functional units finish some of the executed      *)
(* uops.  Latencies are abstracted to that choice.  A uop is its place in  *)
(* the trace.                                                              *)
(***************************************************************************)
EXTENDS Map, Functions

CONSTANTS
    Unset,        \* values the members the constructor does not set may hold
    RobSize, Width, WbSize, StoreBuffers, LoadBuffers,
    FetchSize, QueueSize, SchedSize, SchedRate,
    VersionMod    \* 2^16 in the code: versions are uint16_t

Full == {"FULL_FENCE"}
Fences == Full \cup {"ACQ_FENCE", "REL_FENCE"}
Kinds == Fences \cup Memory \cup {"ALU"}

\* The trace readers give a fence no register (trace_read_cpu.cc, trace_read_a64.cc).
ASSUME BackendAssumption ==
    /\ \A t \in Traces : \A u \in 1..Len(t) :
          t[u].kind \in Kinds /\ (t[u].kind \in Fences => t[u].src = 0)
    /\ Knobs \subseteq [schedule : {"ooo", "io"}, acq_rel : BOOLEAN, use_wb : BOOLEAN,
                        wb_fifo : BOOLEAN, ooo_stores : BOOLEAN]
    /\ {RobSize, Width, WbSize, StoreBuffers, LoadBuffers, FetchSize, QueueSize,
        SchedSize, SchedRate} \subseteq Nat \ {0}
    /\ VersionMod \in Nat \ {0} /\ Unset \subseteq 0..(VersionMod - 1)

VARIABLES
    stage, count,                \* where the cycle is, iterations of its loop
    allocated,                   \* uops taken from the frontend queue so far
    rob, first, last, free,      \* the ring m_rob and its indices
    fences,                      \* fence_c: the active fences of each type
    version, last_fence_version, reset_uop_num, mem_version,
    orq, root,                   \* m_orq; the fences of m_root_fences that retired
    alloc_q, sched,              \* m_alloc_q and m_schedule_list
    num_per_sched,               \* m_num_per_sched: the entries of sched of each queue
    scan, next_inorder, ports,
    sb, lb,                      \* free store and load buffers
    wb, wb_empty                 \* m_write_buffer and what the rob believes of it

robVars == <<rob, first, last, free>>
versionVars == <<version, last_fence_version, reset_uop_num, mem_version, orq, root>>
schedVars == <<alloc_q, sched, num_per_sched, scan, next_inorder, ports>>
wbVars == <<wb, wb_empty>>
vars == <<trace, knobs, stage, count, allocated, executed, done, fences, sb, lb,
          mapVars, robVars, versionVars, schedVars, wbVars>>

Infinite == Len(trace) + 1       \* Counter -1: later than every uop
Index == 0..(2 * RobSize - 1)
inc_index(e) == (e + 1) % (2 * RobSize)
entries == RobSize - free
Queues == <<"gen", "mem">>
Queue == Range(Queues)
allocq(u) == IF IsMem(u) THEN "mem" ELSE "gen"

\* A list after erase() of its i-th element.
Erased(s, i) == SubSeq(s, 1, i - 1) \o SubSeq(s, i + 1, Len(s))

\* The constructors leave m_version, m_last_fence_version and m_reset_uop_num
\* unset: they start with whatever the memory held.
Init ==
    /\ MapInit
    /\ stage = "memory" /\ count = 0 /\ allocated = 0
    /\ rob = [e \in Index |-> 0] /\ first = 0 /\ last = 0 /\ free = RobSize
    /\ fences = [f \in Fences |-> <<>>]
    /\ version \in Unset /\ last_fence_version \in Unset /\ reset_uop_num \in Unset
    /\ mem_version = <<>> /\ orq = <<>> /\ root = {}
    /\ alloc_q = [q \in Queue |-> <<>>] /\ sched = <<>> /\ num_per_sched = [q \in Queue |-> 0]
    /\ scan = 1 /\ next_inorder = 0 /\ ports = [q \in Queue |-> 0]
    /\ sb = StoreBuffers /\ lb = LoadBuffers
    /\ wb = <<>> /\ wb_empty = TRUE

-----------------------------------------------------------------------------
(* Between two cycles: memory and functional units finish executed uops.   *)

complete ==
    /\ stage = "memory"
    /\ \E finished \in SUBSET (executed \ done) : done' = done \cup finished
    /\ stage' = "retire" /\ count' = 0
    /\ UNCHANGED <<trace, knobs, allocated, executed, fences, sb, lb, mapVars, robVars,
                   versionVars, schedVars, wbVars>>

-----------------------------------------------------------------------------
(* Ordering root queue and versions.                                       *)

\* Pop the retired fences at the front that are older than every store of
\* that age.
update_orq(q, lowest_age) ==
    LET Popped(n) == \A i \in 1..n : lowest_age > q[i].uop /\ q[i].uop \in root
    IN  SubSeq(q, 1 + CHOOSE n \in 0..Len(q) :
                        Popped(n) /\ (n = Len(q) \/ ~Popped(n + 1)), Len(q))

version_ordering_check(u) ==
    /\ orq # <<>>
    /\ Head(orq).version < mem_version[u]
    /\ reset_uop_num < u

process_version(u, kind) ==
    LET fence == (last_fence_version + 1) % VersionMod
    IN  /\ mem_version' = Append(mem_version,
                             IF kind \in {"ST_REL", "LD_ACQ"} THEN last_fence_version
                             ELSE IF kind \in Memory THEN version ELSE 0)
        /\ last_fence_version' = IF kind \in Fences THEN fence ELSE last_fence_version
        /\ orq' = IF kind \in Full \cup {"ACQ_FENCE"}
                  THEN Append(orq, [uop |-> u, version |-> fence]) ELSE orq
        /\ version' = IF kind \in Full THEN fence ELSE version

\* Without acquire/release knobs every fence is entered as a full one.
fence_type(u) == IF knobs.acq_rel THEN Kind(u) ELSE "FULL_FENCE"

-----------------------------------------------------------------------------
(* retire_c                                                                *)

front == rob[first]

\* A load waits when a store of the write buffer has a lower version, unless
\* the load is younger than the first one.  (get_min_wb takes the smallest
\* number met while the lowest version goes down: the buffer is in trace
\* order, so that is the number of its first store.)
check_ld_ordering_wb(u) ==
    /\ wb # <<>>
    /\ \E s \in Range(wb) : mem_version[u] > mem_version[s]
    /\ u <= Head(wb)

enters_wb(u) == knobs.use_wb /\ Kind(u) \in Stores /\ u \in executed

\* Mutant: an executed uop retires before it is done.
can_retireEarly ==
    /\ count < Width /\ entries > 0
    /\ IF enters_wb(front) THEN Len(wb) < WbSize ELSE front \in executed
    /\ Kind(front) \in Loads => ~check_ld_ordering_wb(front)

can_retire ==
    /\ count < Width /\ entries > 0
    /\ IF enters_wb(front) THEN Len(wb) < WbSize ELSE front \in done
    /\ Kind(front) \in Loads => ~check_ld_ordering_wb(front)

\* rob_c::pop: an empty buffer restarts the versions.
pop ==
    /\ IF entries = 1 /\ orq = <<>>
       THEN version' = 0 /\ last_fence_version' = 0 /\ reset_uop_num' = front
       ELSE UNCHANGED <<version, last_fence_version, reset_uop_num>>
    /\ first' = inc_index(first) /\ free' = free + 1

\* Retire the uop at the front of the reorder buffer.  The body of the loop
\* runs to the end: fence bookkeeping, pop, buffers, release of the uop.
retire_uop ==
    /\ stage = "retire" /\ can_retire
    /\ count' = count + 1
    /\ wb' = IF enters_wb(front) THEN Append(wb, front) ELSE wb
    /\ fences' = IF Kind(front) \in Fences
                 THEN [fences EXCEPT ![fence_type(front)] = Tail(@)] ELSE fences
    /\ root' = IF Kind(front) \in Full \cup {"ACQ_FENCE"} THEN root \cup {front} ELSE root
    /\ pop
    /\ lb' = IF Kind(front) \in Loads THEN lb + 1 ELSE lb
    /\ sb' = IF Kind(front) \in Stores THEN sb + 1 ELSE sb
    /\ IF knobs.use_wb /\ Kind(front) \in Stores THEN UNCHANGED mapVars
       ELSE free_uop_resources(front)
    /\ UNCHANGED <<trace, knobs, stage, allocated, executed, done, rob, last,
                   mem_version, orq, schedVars, wb_empty>>

\* The loop ends, and drain_wb begins unless the write buffer is empty.  (The
\* scheduler's cycle begins with clear_ports(), which drain_wb does not see.)
retire_end ==
    /\ stage = "retire" /\ ~can_retire
    /\ stage' = (IF wb = <<>> THEN "schedule" ELSE "drain")
    /\ count' = 0 /\ scan' = 1 /\ ports' = [q \in Queue |-> 0]
    /\ UNCHANGED <<trace, knobs, allocated, executed, done, fences, sb, lb, mapVars, robVars,
                   versionVars, alloc_q, sched, num_per_sched, next_inorder, wbVars>>

\* Mutant: a store release is treated like any other store.
may_drainAnyOrder(i) ==
    /\ wb[i] \in done
    /\ knobs.acq_rel => ~version_ordering_check(wb[i])

\* Whether the i-th store of the write buffer can be freed.
may_drain(i) ==
    /\ wb[i] \in done
    /\ knobs.acq_rel => IF Kind(wb[i]) = "ST_REL" THEN i = 1 ELSE ~version_ordering_check(wb[i])

\* One iteration of drain_wb's loop.  A store that stays ends the loop under
\* KNOB_WB_FIFO, but for a finished store release (scan is moved past the end).
drain_store ==
    /\ stage = "drain" /\ scan <= Len(wb)
    /\ IF may_drain(scan)
       THEN free_uop_resources(wb[scan]) /\ wb' = Erased(wb, scan) /\ UNCHANGED scan
       ELSE /\ scan' = IF knobs.wb_fifo /\ ~(wb[scan] \in done /\ knobs.acq_rel
                                             /\ Kind(wb[scan]) = "ST_REL")
                       THEN Len(wb) + 1 ELSE scan + 1
            /\ UNCHANGED <<wb, mapVars>>
    /\ UNCHANGED <<trace, knobs, stage, count, allocated, executed, done, fences, sb, lb, robVars,
                   versionVars, alloc_q, sched, num_per_sched, next_inorder, ports, wb_empty>>

\* The end of drain_wb: the reorder buffer learns of the write buffer.  (The last
\* call compares a version with m_uop_num, which counts from 0.)
drain_wb ==
    /\ stage = "drain" /\ scan > Len(wb)
    /\ LET oldest == IF wb = <<>> THEN Infinite ELSE Head(wb)
           low == {255} \cup {mem_version[u] : u \in Range(wb)}
           lowest == CHOOSE v \in low : \A w \in low : v <= w
       IN  /\ wb_empty' = (wb = <<>>)
           /\ orq' = update_orq(update_orq(orq, oldest), lowest + 1)
           /\ root' = root \cap {orq'[i].uop : i \in DOMAIN orq'}
    /\ stage' = "schedule" /\ scan' = 1
    /\ UNCHANGED <<trace, knobs, count, allocated, executed, done, fences, sb, lb, mapVars, robVars,
                   version, last_fence_version, reset_uop_num, mem_version,
                   alloc_q, sched, num_per_sched, next_inorder, ports, wb>>

-----------------------------------------------------------------------------
(* schedule_c and exec_c                                                   *)

InRob(e) == (e - first) % (2 * RobSize)      \* get_relative_index

\* An active fence at or before the entry holds memory uops back.
ensure_mem_ordering(e) ==
    /\ ~knobs.acq_rel
    /\ \E f \in Fences : \E i \in DOMAIN fences[f] : InRob(e) >= InRob(fences[f][i])

\* Mutant: stores in the write buffer are not pending.
pending_mem_opsInRob(e) ==
    \E d \in Index : InRob(d) < InRob(e) /\ IsMem(rob[d])

pending_mem_ops(e) ==
    \/ \E d \in Index : InRob(d) < InRob(e) /\ IsMem(rob[d])
    \/ knobs.use_wb /\ ~wb_empty

\* Mutant: a fence is entered again at every retry.
ins_fence_entryAgain(f, e) ==
    [fences EXCEPT ![f] = Append(@, e)]

ins_fence_entry(f, e) ==
    [fences EXCEPT ![f] = IF e \in Range(@) THEN @ ELSE Append(@, e)]

\* Mutant: the last port is never used.
schedulableOnePortLess(e) ==
    LET u == rob[e]
    IN  /\ check_srcs(u)
        /\ ports[allocq(u)] + 1 < SchedRate
        /\ IsMem(u) => ~ensure_mem_ordering(e)

\* Operands ready, a port free, no fence in the way.
schedulable(e) ==
    LET u == rob[e]
    IN  /\ check_srcs(u)
        /\ ports[allocq(u)] < SchedRate
        /\ IsMem(u) => ~ensure_mem_ordering(e)

\* uop_schedule and exec for one entry: whether the uop was issued.  A memory
\* uop may be refused by the memory system (exec returns false before it uses
\* a port); a fence that must wait has used its port and is active already.
\* A uop that waited before first looks at *m_last_dep_exec, the end of the
\* source it waited for, or of the uop that has the slot of that source now:
\* while an executed uop is unfinished it may be passed over once more.
uop_schedule(i, issued) ==
    LET e == sched[i]
        u == rob[e]
        waits == Kind(u) \in Fences /\ ~knobs.acq_rel
        passed == ~issued /\ UNCHANGED <<fences, ports, executed, sched, num_per_sched>>
    IN  IF ~schedulable(e) THEN passed
        ELSE \/ srcs[u] # {} /\ executed # done /\ passed
             \/ LET entered == IF Kind(u) \in Fences
                               THEN ins_fence_entry(fence_type(u), e) ELSE fences
                IN  /\ IsMem(u) \/ (issued <=> ~(waits /\ pending_mem_ops(e)))
                    /\ fences' = entered
                    /\ ports' = IF IsMem(u) /\ ~issued THEN ports
                                ELSE [ports EXCEPT ![allocq(u)] = @ + 1]
                    /\ executed' = IF issued THEN executed \cup {u} ELSE executed
                    /\ sched' = IF issued THEN Erased(sched, i) ELSE sched
                    /\ num_per_sched' = IF issued THEN [num_per_sched EXCEPT ![allocq(u)] = @ - 1]
                                        ELSE num_per_sched

\* One iteration of schedule_ooo_c::run_a_cycle: the list is walked in the
\* order of insertion, past the uops that cannot be issued.
schedule_ooo ==
    /\ stage = "schedule" /\ knobs.schedule = "ooo"
    /\ count < Width /\ scan <= Len(sched)
    /\ \E issued \in BOOLEAN :
          /\ uop_schedule(scan, issued)
          /\ count' = IF issued THEN count + 1 ELSE count
          /\ scan' = IF issued THEN scan ELSE scan + 1
    /\ UNCHANGED <<trace, knobs, stage, allocated, done, sb, lb, mapVars, robVars, versionVars,
                   alloc_q, next_inorder, wbVars>>

\* One iteration of schedule_io_c::run_a_cycle: in trace order, and the first
\* uop that cannot be issued ends the loop (scan is moved past the list).
schedule_io ==
    /\ stage = "schedule" /\ knobs.schedule = "io"
    /\ count < Width /\ scan <= Len(sched)
    /\ \E issued \in BOOLEAN, i \in DOMAIN sched :
          /\ sched[i] = next_inorder /\ uop_schedule(i, issued)
          /\ count' = IF issued THEN count + 1 ELSE count
          /\ scan' = IF issued THEN 1 ELSE Len(sched) + 1
          /\ next_inorder' = IF issued THEN inc_index(next_inorder) ELSE next_inorder
    /\ UNCHANGED <<trace, knobs, stage, allocated, done, sb, lb, mapVars, robVars, versionVars,
                   alloc_q, wbVars>>

\* How many entries advance() moves from an allocation queue this cycle.  (The
\* latency of the queue is left out, as is the test for a full m_schedule_list,
\* whose 8192 entries exceed those of the queues.)
Moved(q) ==
    LET inSched == num_per_sched[q]
        room == IF inSched + SchedRate < SchedSize THEN SchedRate ELSE SchedSize - inSched
    IN  IF inSched >= SchedSize THEN 0
        ELSE IF Len(alloc_q[q]) < room THEN Len(alloc_q[q]) ELSE room

\* The scheduler's loop is over; advance() runs for each queue in turn.
advance ==
    /\ stage = "schedule"
    /\ \/ count = Width
       \/ scan > Len(sched)
       \/ knobs.schedule = "io" /\ next_inorder \notin Range(sched)
    /\ sched' = sched \o SubSeq(alloc_q["gen"], 1, Moved("gen"))
                      \o SubSeq(alloc_q["mem"], 1, Moved("mem"))
    /\ alloc_q' = [q \in Queue |-> SubSeq(alloc_q[q], Moved(q) + 1, Len(alloc_q[q]))]
    /\ num_per_sched' = [q \in Queue |-> num_per_sched[q] + Moved(q)]
    /\ stage' = "allocate" /\ count' = 0 /\ scan' = 1
    /\ UNCHANGED <<trace, knobs, allocated, executed, done, fences, sb, lb, mapVars,
                   robVars, versionVars, next_inorder, ports, wbVars>>

-----------------------------------------------------------------------------
(* allocate_c                                                              *)

\* The next uop of the frontend queue gets an entry and its buffers, if all
\* are there.
allocate_uop ==
    LET u == allocated + 1
        kind == trace[u].kind
        q == allocq(u)
    IN  /\ stage = "allocate" /\ count < Width /\ allocated < fetched
        /\ free > 0 /\ Len(alloc_q[q]) < QueueSize
        /\ kind \in Stores => sb > 0
        /\ kind \in Loads => lb > 0
        /\ sb' = IF kind \in Stores THEN sb - 1 ELSE sb
        /\ lb' = IF kind \in Loads THEN lb - 1 ELSE lb
        /\ alloc_q' = [alloc_q EXCEPT ![q] = Append(@, last)]
        /\ rob' = [rob EXCEPT ![last] = u]
        /\ last' = inc_index(last) /\ free' = free - 1
        /\ process_version(u, kind)
        /\ allocated' = u /\ count' = count + 1
        /\ UNCHANGED <<trace, knobs, stage, executed, done, fences, first, mapVars,
                       reset_uop_num, root, sched, num_per_sched, scan, next_inorder, ports,
                       wbVars>>

\* The loop ends: the width is used, a resource is missing, or the frontend
\* queue has no uop that is ready.
allocate_end ==
    /\ stage = "allocate" /\ stage' = "fetch" /\ count' = 0
    /\ UNCHANGED <<trace, knobs, allocated, executed, done, fences, sb, lb, mapVars,
                   robVars, versionVars, schedVars, wbVars>>

-----------------------------------------------------------------------------
(* frontend_c                                                              *)

\* One iteration of the fetch loop: a uop for the frontend queue.
fetch_uop ==
    /\ stage = "fetch" /\ count < Width /\ fetched - allocated < FetchSize
    /\ fetch
    /\ count' = count + 1
    /\ UNCHANGED <<trace, knobs, stage, allocated, executed, done, fences, sb, lb,
                   robVars, versionVars, schedVars, wbVars>>

\* The loop ends, or the instruction cache or a branch stops it.
fetch_end ==
    /\ stage = "fetch" /\ stage' = "memory" /\ count' = 0
    /\ UNCHANGED <<trace, knobs, allocated, executed, done, fences, sb, lb, mapVars,
                   robVars, versionVars, schedVars, wbVars>>

\* A cycle of the core: every step of a stage's loop is one action.  For the
\* uops and their sources it does nothing that MapSpec does not allow.
Next ==
    \/ complete \/ retire_uop \/ retire_end \/ drain_store \/ drain_wb \/ schedule_ooo \/ schedule_io
    \/ advance \/ allocate_uop \/ allocate_end \/ fetch_uop \/ fetch_end

Spec == Init /\ [][Next]_vars

\* What the surroundings must not withhold for ever: an instruction, the end
\* of its way through the frontend, the end of an executed uop, the memory
\* system's acceptance of a uop.  Each happens at most once for a uop of the
\* finite trace, so one fairness condition on all gives each to every uop.
Served ==
    \/ fetch_uop
    \/ allocate_uop
    \/ complete /\ done' # done
    \/ (schedule_ooo \/ schedule_io) /\ executed' # executed

Fairness == WF_vars(Next) /\ SF_vars(Served)

FairSpec == Spec /\ Fairness

-----------------------------------------------------------------------------
(* Properties                                                              *)

\* Every active fence is a fence of the reorder buffer, each is listed once,
\* and a list is in trace order: retirement deactivates "the first fence
\* entry" (rob_c::del_fence_entry) and must hit the fence that retires.
ActiveFencesMatchRob ==
    \A f \in Fences :
        /\ \A i \in DOMAIN fences[f] :
              /\ InRob(fences[f][i]) < entries
              /\ Kind(rob[fences[f][i]]) \in Fences
        /\ \A i, j \in DOMAIN fences[f] : i < j => InRob(fences[f][i]) < InRob(fences[f][j])

\* A fence separates memory uops: none that comes after it in the trace is
\* issued while one that comes before it is unfinished.
FenceOrdersMemory ==
    \A f \in 1..allocated : Kind(f) \in Fences =>
        \A a \in 1..(f - 1), b \in (f + 1)..allocated :
            IsMem(a) /\ IsMem(b) /\ b \in executed => a \in done

\* With the in-order scheduler and without acquire/release versions, fences
\* order memory uops, through the reorder buffer and the write buffer.
InOrderFences ==
    knobs.schedule = "io" /\ ~knobs.acq_rel => FenceOrdersMemory

\* A store release leaves the write buffer after every older store
\* ("if current uop is store release and is oldest in wb, drain it").
ReleaseDrainsLast ==
    knobs.acq_rel =>
        \A r \in freed : Kind(r) = "ST_REL" =>
            \A s \in 1..(r - 1) : Kind(s) \in Stores => s \in freed

\* Every uop of the trace is retired and every store leaves the write buffer:
\* fences, buffers, versions and the write buffer never wait on each other
\* for good.  With versions this needs members that start at zero.
UopsRetire ==
    (~knobs.acq_rel \/ (version = 0 /\ last_fence_version = 0))
        => <>(freed = 1..Len(trace))
=============================================================================
