-------------------------------- MODULE Smc --------------------------------
(***************************************************************************)
(* The pipeline of one GPU core between fetch and retirement: the          *)
(* allocation of reorder buffer entries (allocate_smc.cc), the allocation  *)
(* queue, the list of the warp schedulers (schedule_smc.cc), execution,    *)
(* one reorder buffer per thread from a pool (rob_smc.cc) and the GPU path *)
(* of retire.cc.                                                           *)
(*                                                                         *)
(* The allocation queue is PQueue, whose variables are part of the state;  *)
(* an entry of it names a thread and an index into that thread's ROB, as   *)
(* do the entries of the schedulers' list.  The frontend queue is of the   *)
(* same class and appears here as the first-in first-out queue DelayQueue  *)
(* shows it to be.  All uops go through the general queue, so that         *)
(* m_num_per_sched[gen] is m_num_in_sched and one variable is enough.      *)
(* Cycles are counted down to: a stage is busy, or a uop executes, for so  *)
(* many cycles from now.  The Intel GPU scheduler (schedule_igpu.cc) is    *)
(* the case in which no dispatch takes time.                               *)
(***************************************************************************)
EXTENDS PQueue, FiniteSets, FiniteSetsExt, TLC

CONSTANTS Program,          \* the uops of each thread: [kind, src, bom]
          NumRobs,          \* max_threads_per_core, the ROBs of the pool
          RobSize,          \* usable entries of a ROB, which has twice as many
          Resources,        \* number of load buffers, registers, ... of resource_c
          SchlistSize,      \* m_schlist_size
          SchedRate,        \* m_sched_rate[gen]
          SchedSize,        \* m_sched_size[gen]
          NumSchedulers,    \* KNOB_NUM_WARP_SCHEDULER
          ScheduleRatio,    \* KNOB_GPU_SCHEDULE_RATIO
          MaxPort,          \* m_max_port[gen]
          Width,            \* the width of the allocation stage
          FeSize,           \* KNOB_FE_SIZE
          MaxInsts,         \* KNOB_MAX_INSTS
          MemSlots,         \* requests the memory system accepts at a time
          ExecLatency,      \* possible latencies of each kind of uop
          DispatchLatency   \* m_dispatch_latency of each kind of uop

Threads == 0 .. Len(Program) - 1
Code(t) == Program[t + 1]
Slots == 0 .. 2 * RobSize - 1
Ring == 0 .. SchlistSize - 1
NoUop == [n |-> 0]
Hole == [tid |-> -1]
NotIssued == -1

\* The resource a kind of uop holds from allocation to retirement
Requires == [load |-> "lb", store |-> "sb", int |-> "int_reg", fp |-> "fp_reg", sfu |-> "none"]
MemKinds == {"load", "store"}

\* A thread that reaches the limit does so with an instruction of one uop: the
\* limit counts an instruction when its first uop retires.
ASSUME LimitAssumption ==
    \A t \in Threads :
        LET insts == Cardinality({n \in DOMAIN Code(t) : Code(t)[n].bom})
        IN insts <= MaxInsts /\ (insts = MaxInsts => Code(t)[Len(Code(t))].bom)

VARIABLES fetched,  \* per thread: uops sent to the frontend queue
          feq,      \* m_q_frontend
          res,      \* free resources of resource_c
          rob,      \* m_thread_robs: [slot, first, last, free]
          map,      \* m_thread_to_rob_map
          pool,     \* m_free_list
          retired,  \* per thread: uops and instructions retired
          list,     \* m_schlist_tid and m_schlist_entry
          sch,      \* m_first_schlist, m_last_schlist, m_num_in_sched, ...
          stage,    \* the stage that runs
          cnt       \* the turns of its loop so far

queue == <<entry, current, last, num>>
smcVars == <<queue, fetched, feq, res, rob, map, pool, retired, list, sch, stage, cnt>>

Started(t) == t \in DOMAIN map
Finished(t) == retired[t].finished

EmptyRob == [slot |-> [i \in Slots |-> NoUop], first |-> 0, last |-> 0, free |-> RobSize]

\* operator[] and front of the ROB of thread t
Rob(t) == rob[map[t]]
Uop(x) == Rob(x.tid).slot[x.slot]
Kind(x) == Code(x.tid)[Uop(x).n].kind
entries(t) == RobSize - Rob(t).free

SmcInit ==
    /\ QueueInit
    /\ fetched = [t \in Threads |-> 0]
    /\ feq = <<>>
    /\ res = Resources
    /\ rob = [i \in 1 .. NumRobs |-> EmptyRob]
    /\ map = [t \in {u \in Threads : u < NumRobs} |-> t + 1]
    /\ pool = [i \in 1 .. NumRobs - Cardinality(DOMAIN map) |-> Cardinality(DOMAIN map) + i]
    /\ retired = [t \in Threads |-> [uops |-> 0, insts |-> 0, finished |-> FALSE]]
    /\ list = [i \in Ring |-> Hole]
    /\ sch = [first |-> 0, last |-> 0, num |-> 0, next |-> 0, modulo |-> ScheduleRatio - 1,
              ports |-> 0, busy |-> [s \in 0 .. NumSchedulers - 1 |-> 0], sfu |-> 0]
    /\ stage = "retire" /\ cnt = 0
-----------------------------------------------------------------------------
(* Retirement *)

\* The front uop of thread t is done.
Retirable(t) ==
    /\ Started(t) /\ entries(t) > 0
    /\ Rob(t).slot[Rob(t).first].left = 0

ToRetire == {t \in Threads : t >= cnt /\ Retirable(t)}

pop(r) == [r EXCEPT !.slot[r.first] = NoUop, !.first = (r.first + 1) % (2 * RobSize), !.free = @ + 1]

\* free_rob(t) and, when a thread waits for a place, reserve_rob of the next one
Reserved(t, r) ==
    LET waiting == {u \in Threads : ~Started(u) /\ ~Finished(u)}
        freed   == Append(pool, map[t])
        left    == [u \in DOMAIN map \ {t} |-> map[u]]
    IN IF waiting = {}
       THEN map' = left /\ pool' = freed /\ rob' = [rob EXCEPT ![map[t]] = r]
       ELSE /\ map' = left @@ (Min(waiting) :> Head(freed))
            /\ pool' = Tail(freed)
            /\ rob' = [[rob EXCEPT ![map[t]] = r] EXCEPT ![Head(freed)] = EmptyRob]

\* m_last_uop, or the limit on instructions is reached
LastUop(t, n, insts) == n = Len(Code(t)) \/ insts >= MaxInsts

\* Faulty: only load and store buffers are given back.
ReleasedBuffers(need) ==
    [r \in DOMAIN res |-> IF r = need /\ r \in {"lb", "sb"} THEN res[r] + 1 ELSE res[r]]
\* dealloc_lb, dealloc_sb, dealloc_int_reg or dealloc_fp_reg
Released(need) == [r \in DOMAIN res |-> IF r = need THEN res[r] + 1 ELSE res[r]]

\* One turn of the loop over the retirable uops, in the order of the thread ids
retire ==
    /\ stage = "retire" /\ ToRetire # {}
    /\ LET t     == Min(ToRetire)
           n     == Rob(t).slot[Rob(t).first].n
           need  == Requires[Code(t)[n].kind]
           insts == retired[t].insts + (IF Code(t)[n].bom THEN 1 ELSE 0)
           ends  == LastUop(t, n, insts)
       IN /\ retired' = [retired EXCEPT ![t] = [uops |-> @.uops + 1, insts |-> insts, finished |-> ends]]
          /\ res' = Released(need)
          /\ IF ends THEN Reserved(t, pop(Rob(t)))
             ELSE rob' = [rob EXCEPT ![map[t]] = pop(@)] /\ UNCHANGED <<map, pool>>
          /\ cnt' = t + 1
    /\ UNCHANGED <<queue, fetched, feq, list, sch, stage>>

\* The scheduler runs every ScheduleRatio cycles, and then clears the ports.
retireEnds ==
    /\ stage = "retire" /\ ToRetire = {}
    /\ LET m == (sch.modulo + 1) % ScheduleRatio
       IN /\ sch' = [sch EXCEPT !.modulo = m, !.ports = IF m = 0 THEN 0 ELSE @]
          /\ stage' = IF m = 0 THEN "schedule" ELSE "allocate"
    /\ cnt' = 0
    /\ UNCHANGED <<queue, fetched, feq, res, rob, map, pool, retired, list>>
-----------------------------------------------------------------------------
(* The warp schedulers *)

\* The list from m_first_schlist to m_last_schlist: position k is index At(k).
At(k) == (sch.first + k) % SchlistSize
Length == (sch.last - sch.first) % SchlistSize
IsHole(k) == list[At(k)] = Hole

\* check_srcs_smc: the uop this one depends on has retired or is done.
SrcsReady(x) ==
    LET src == Code(x.tid)[Uop(x).n].src
    IN src > retired[x.tid].uops =>
          \E i \in Slots : Rob(x.tid).slot[i].n = src /\ Rob(x.tid).slot[i].left = 0

\* The end of dcu_c::access: a request is denied when no MSHR entry is free.
Accepts == Cardinality({x \in Threads \X Slots :
                           /\ Started(x[1]) /\ Rob(x[1]).slot[x[2]] # NoUop
                           /\ Code(x[1])[Rob(x[1]).slot[x[2]].n].kind \in MemKinds
                           /\ Rob(x[1]).slot[x[2]].left > 0}) < MemSlots

\* uop_schedule_smc succeeds, and the special function unit is not busy.
CanIssue(x) ==
    /\ Kind(x) = "sfu" => sch.sfu = 0
    /\ SrcsReady(x)
    /\ sch.ports < MaxPort
    /\ Kind(x) \in MemKinds => Accepts

\* Faulty: a thread is tried again after its first uop could not be issued.
CandidatesAgain(s) ==
    {k \in 0 .. Length - 1 :
        /\ ~IsHole(k) /\ list[At(k)].tid % NumSchedulers = s
        /\ \A j \in 0 .. k - 1 : list[At(j)].tid = list[At(k)].tid => ~CanIssue(list[At(j)])}
\* What scheduler s tries: the first uop of each of its threads, since a thread
\* tried is in m_processed_threads.
Candidates(s) ==
    {k \in 0 .. Length - 1 :
        /\ ~IsHole(k) /\ list[At(k)].tid % NumSchedulers = s
        /\ \A j \in 0 .. k - 1 : list[At(j)].tid # list[At(k)].tid}

\* The holes the scan passes while they are at m_first_schlist
LeadingHoles == CHOOSE k \in 0 .. Length :
                    (\A j \in 0 .. k - 1 : IsHole(j)) /\ (k < Length => ~IsHole(k))

\* The scheduler whose turn it is
Turn == (sch.next + cnt) % NumSchedulers

Runs(s) == sch.busy[s] = 0 /\ sch.num > 0

\* The scan of scheduler s finds nothing to issue, or is not made.
ScheduleNone(s) ==
    /\ stage = "schedule" /\ cnt < NumSchedulers /\ s = Turn
    /\ Runs(s) => \A k \in Candidates(s) : ~CanIssue(list[At(k)])
    /\ sch' = IF Runs(s) THEN [sch EXCEPT !.first = At(LeadingHoles)] ELSE sch
    /\ cnt' = cnt + 1
    /\ UNCHANGED <<queue, fetched, feq, res, rob, map, pool, retired, list, stage>>

\* Scheduler s issues the first candidate that can be, which leaves a hole.
ScheduleOne(s) ==
    /\ stage = "schedule" /\ cnt < NumSchedulers /\ s = Turn /\ Runs(s)
    /\ LET issuable == {k \in Candidates(s) : CanIssue(list[At(k)])}
       IN /\ issuable # {}
          /\ LET k == Min(issuable)
                 x == list[At(k)]
                 d == DispatchLatency[Kind(x)]
             IN /\ list' = [list EXCEPT ![At(k)] = Hole]
                /\ sch' = [sch EXCEPT !.first = IF LeadingHoles = k THEN At(k + 1) ELSE At(LeadingHoles),
                                      !.num = @ - 1, !.ports = @ + 1,
                                      !.busy[s] = IF Kind(x) = "sfu" THEN @ ELSE d,
                                      !.sfu = IF Kind(x) = "sfu" THEN d ELSE @]
                /\ \E l \in ExecLatency[Kind(x)] :
                      rob' = [rob EXCEPT ![map[x.tid]].slot[x.slot].left = l]
    /\ cnt' = cnt + 1
    /\ UNCHANGED <<queue, fetched, feq, res, map, pool, retired, stage>>

scheduleEnds ==
    /\ stage = "schedule" /\ cnt = NumSchedulers
    /\ sch' = [sch EXCEPT !.next = (@ + 1) % NumSchedulers]
    /\ stage' = "advance" /\ cnt' = 0
    /\ UNCHANGED <<queue, fetched, feq, res, rob, map, pool, retired, list>>

\* Faulty: a full list takes one more uop.
MayMoveFull == ready /\ cnt < SchedRate /\ sch.num < SchedSize
\* advance(gen): the next uop of the allocation queue may enter the list.
MayMove ==
    /\ ready
    /\ (sch.last + 1) % SchlistSize # sch.first
    /\ cnt < SchedRate /\ sch.num < SchedSize

MoveOne ==
    /\ stage = "advance" /\ MayMove
    /\ dequeue
    /\ list' = [list EXCEPT ![sch.last] = peek(0)]
    /\ sch' = [sch EXCEPT !.last = (@ + 1) % SchlistSize, !.num = @ + 1]
    /\ cnt' = cnt + 1
    /\ UNCHANGED <<fetched, feq, res, rob, map, pool, retired, stage>>

MoveEnds ==
    /\ stage = "advance" /\ ~MayMove
    /\ stage' = "allocate" /\ cnt' = 0
    /\ UNCHANGED <<queue, fetched, feq, res, rob, map, pool, retired, list, sch>>
-----------------------------------------------------------------------------
(* Allocation and fetch *)

\* The uop at the head of the frontend queue finds everything it needs.
MayAllocate ==
    /\ cnt < Width /\ feq # <<>>
    /\ LET u == Head(feq)
           need == Requires[Code(u.tid)[u.n].kind]
       IN /\ Rob(u.tid).free >= 1 /\ space >= 1
          /\ need \in DOMAIN res => res[need] >= 1

AllocateOne ==
    /\ stage = "allocate" /\ MayAllocate
    /\ LET u == Head(feq)
           need == Requires[Code(u.tid)[u.n].kind]
       IN /\ enqueue(0, [tid |-> u.tid, slot |-> Rob(u.tid).last])
          /\ rob' = [rob EXCEPT ![map[u.tid]] =
                        [@ EXCEPT !.slot[@.last] = [n |-> u.n, left |-> NotIssued],
                                  !.last = (@ + 1) % (2 * RobSize), !.free = @ - 1]]
          /\ res' = [r \in DOMAIN res |-> IF r = need THEN res[r] - 1 ELSE res[r]]
    /\ feq' = Tail(feq)
    /\ cnt' = cnt + 1
    /\ UNCHANGED <<fetched, map, pool, retired, list, sch, stage>>

AllocateEnds ==
    /\ stage = "allocate" /\ ~MayAllocate
    /\ stage' = "fetch" /\ cnt' = 0
    /\ UNCHANGED <<queue, fetched, feq, res, rob, map, pool, retired, list, sch>>

\* The frontend sends the next uop of thread t, which Gpu chooses.
fetch(t) ==
    /\ stage = "fetch"
    /\ Len(feq) < FeSize /\ Started(t) /\ fetched[t] < Len(Code(t))
    /\ fetched' = [fetched EXCEPT ![t] = @ + 1]
    /\ feq' = Append(feq, [tid |-> t, n |-> fetched[t] + 1])
    /\ stage' = "tick"
    /\ UNCHANGED <<queue, res, rob, map, pool, retired, list, sch, cnt>>

\* Nothing is fetched: an instruction miss, a barrier, a branch, a full queue.
fetchNothing ==
    /\ stage = "fetch" /\ stage' = "tick"
    /\ UNCHANGED <<queue, fetched, feq, res, rob, map, pool, retired, list, sch, cnt>>

Countdown(n) == IF n > 0 THEN n - 1 ELSE n

\* The end of a cycle: advance_queues, and everything under way is one cycle nearer.
tick ==
    /\ stage = "tick" /\ advance
    /\ rob' = [i \in DOMAIN rob |->
                 [rob[i] EXCEPT !.slot = [k \in Slots |->
                     IF @[k] = NoUop THEN NoUop ELSE [@[k] EXCEPT !.left = Countdown(@)]]]]
    /\ sch' = [sch EXCEPT !.busy = [s \in DOMAIN @ |-> Countdown(@[s])], !.sfu = Countdown(@)]
    /\ stage' = "retire" /\ cnt' = 0
    /\ UNCHANGED <<fetched, feq, res, map, pool, retired, list>>
-----------------------------------------------------------------------------
SmcNext ==
    \/ retire \/ retireEnds
    \/ \E s \in 0 .. NumSchedulers - 1 : ScheduleNone(s) \/ ScheduleOne(s)
    \/ scheduleEnds \/ MoveOne \/ MoveEnds
    \/ AllocateOne \/ AllocateEnds
    \/ \E t \in Threads : fetch(t)
    \/ fetchNothing \/ tick

\* The simulator runs cycle after cycle, and as long as some thread can
\* be fetched one is in the end, which Gpu shows of the frontend.
SmcSpec ==
    /\ SmcInit /\ [][SmcNext]_smcVars
    /\ WF_smcVars(SmcNext)
    /\ SF_smcVars(\E t \in Threads : fetch(t))

-----------------------------------------------------------------------------
(* Properties *)

InRob(t) == {i \in Slots : Rob(t).slot[i] # NoUop}
Issued(t, i) == Rob(t).slot[i].left # NotIssued

\* "Instructions within a thread must be scheduled inorder" (schedule_smc.cc):
\* no uop has been issued while an older one of its thread has not, although
\* the schedulers pick from the middle of the list, leave holes there, and try
\* a later thread when the sources, ports or memory of one are not ready.
IssuedInOrder ==
    \A t \in DOMAIN map : \A i, j \in InRob(t) :
        Rob(t).slot[i].n < Rob(t).slot[j].n /\ Issued(t, j) => Issued(t, i)

\* An entry of the allocation queue or of the list leads through its thread's
\* ROB to a uop that has not been issued, no two to the same one, and each such
\* uop has an entry.  get_thread_rob asserts that the thread has a ROB, so a
\* thread may not end, nor its ROB go to another, while it has entries.  And
\* m_num_in_sched counts the uops in the list, all of which are between
\* m_first_schlist and m_last_schlist: the test in advance() keeps the list from
\* overwriting itself.  An empty list has room, for with nothing to schedule the
\* holes in it are not given back.
EntriesAreLive ==
    LET waiting == {<<t, i>> \in Threads \X Slots : Started(t) /\ i \in InRob(t) /\ ~Issued(t, i)}
        held    == {list[i] : i \in {k \in Ring : list[k] # Hole}}
        queued  == {InOrder[i].data : i \in DOMAIN InOrder}
    IN /\ {<<x.tid, x.slot>> : x \in held \union queued} = waiting
       /\ Cardinality(waiting) = sch.num + num
       /\ sch.num = Cardinality({i \in Ring : list[i] # Hole})
       /\ sch.num = Cardinality({k \in 0 .. Length - 1 : ~IsHole(k)})
       /\ sch.num = 0 => Length < SchlistSize - 1

\* Every uop of every thread retires: the frontend queue, in which a thread with
\* a full ROB holds up the others, the shared buffers, the allocation queue, the
\* list and the pool of ROBs never wait for each other in a circle.
AllRetire == <>(\A t \in Threads : Finished(t) /\ retired[t].uops = Len(Code(t)))
=============================================================================
