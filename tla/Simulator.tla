------------------------------ MODULE Simulator ------------------------------
(***************************************************************************)
(* The main loop of MacSim: run_a_cycle of macsim.cc with its clock        *)
(* domains and its termination test, and the process manager that hands    *)
(* threads to cores (process_manager.cc), called back from the retire      *)
(* stage when a thread ends and from the trace reader when the main        *)
(* thread of a process spawns the others.                                  *)
(*                                                                         *)
(* A core is one CPU core.  What a core does in its cycle is abstracted to *)
(* the two events that reach this part of the program: its main threads    *)
(* read an instruction (Read) and its threads retire their last uop        *)
(* (End).  The counters m_unique_scheduled_thread_num and                  *)
(* m_num_thread_reach_end differ by the number of unfinished threads, the  *)
(* set `running', and the first is positive as soon as the core is         *)
(* started.  m_num_waiting_dispatched_threads is the length of `queue'.    *)
(***************************************************************************)
EXTENDS Integers, Sequences, FiniteSets, SequencesExt

CONSTANTS NumCores,     \* m_num_sim_cores
          Freq,         \* m_domain_freq
          LcmBound,     \* the least common multiple of the frequencies is searched up to here
          MaxThreads,   \* max_threads_per_core
          MaxInsts,     \* KNOB_MAX_INSTS, not zero
          Procs,        \* the applications of the trace list
          Kernels,      \* m_applications.size() of each
          StartAt,      \* m_inst_count of m_thread_start_info[0], [1], ...
          MainLen       \* instructions in the trace of the main thread

Cores == 0 .. NumCores - 1

\* CLOCK_LLC, CLOCK_NOC, CLOCK_MC and CLOCK_IO
Uncore == NumCores .. NumCores + 3

Domains == Cores \cup Uncore

\* m_no_of_threads: the thread tid of p starts with instruction
\* StartAt[p][tid + 1] of thread 0, the main thread.
NumThreads(p) == Len(StartAt[p])

Threads == UNION {{p} \X (0 .. NumThreads(p) - 1) : p \in Procs}

ASSUME SimulatorAssumption ==
    /\ NumCores \in Nat \ {0} /\ MaxThreads \in Nat \ {0} /\ MaxInsts \in Nat \ {0}
    /\ Freq \in [Domains -> Nat \ {0}]
    /\ Kernels \in [Procs -> Nat \ {0}] /\ MainLen \in [Procs -> Nat \ {0}]
    /\ \A p \in Procs : StartAt[p] \in Seq(Nat) /\ StartAt[p] # <<>>

IsLcm(n) ==
    /\ \A d \in Domains : n % Freq[d] = 0
    /\ \A m \in 1 .. n - 1 : \E d \in Domains : m % Freq[d] # 0

ASSUME LcmAssumption == \E n \in 1 .. LcmBound : IsLcm(n)

\* m_clock_lcm
Lcm == CHOOSE n \in 1 .. LcmBound : IsLcm(n)

VARIABLES clock,      \* m_clock_internal
          count,      \* m_domain_count
          next,       \* m_domain_next
          checked,    \* the cores with m_termination_check set
          ran,        \* m_num_running_core > 0
          pool,       \* queue, running, simEnd, started: see Dispatch
          active,     \* m_num_active_threads
          proc,       \* process_s of each application
          unrepeated, \* m_process_count_without_repeat
          repeatDone, \* m_repeat_done
          cycle0,     \* m_core_cycle[0] modulo the number of cores
          pivot,      \* the local of run_a_cycle, modulo the number of cores
          turn,       \* kk, the counter of the core loop
          at,         \* where in run_a_cycle: "top", "loop", "core" or "ended"
          knobs       \* repeat_trace and core_thread_sched

clocks == <<clock, count, next>>

manager == <<pool, active, proc, unrepeated, repeatDone>>

vars == <<clocks, checked, ran, manager, cycle0, pivot, turn, at, knobs>>

(***************************************************************************)
(* Process manager.  `pool' holds what sim_thread_schedule works on: the   *)
(* threads waiting for a core, those running on each core, m_sim_end and   *)
(* m_core_started.                                                         *)
(***************************************************************************)

HasRoom(p, c) == Cardinality(p.running[c]) < MaxThreads

\* get_next_available_core and get_next_low_occupancy_core
NextCores(p) ==
    {c \in Cores :
        /\ HasRoom(p, c)
        /\ \A d \in Cores : HasRoom(p, d) =>
              IF knobs.sched = "greedy" THEN c <= d
              ELSE LET a == Cardinality(p.running[c])
                       b == Cardinality(p.running[d])
                   IN  a < b \/ (a = b /\ c <= d)}

\* One turn of the loop of sim_thread_schedule; without a core the thread stays.
PlaceAsleep(p, thread) ==
    IF NextCores(p) = {} THEN [p EXCEPT !.queue = Append(@, thread)]
    ELSE LET c == CHOOSE c \in NextCores(p) : TRUE
         IN  [p EXCEPT !.running[c] = @ \cup {thread}, !.started[c] = TRUE]
Place(p, thread) ==
    IF NextCores(p) = {} THEN [p EXCEPT !.queue = Append(@, thread)]
    ELSE LET c == CHOOSE c \in NextCores(p) : TRUE
         IN  [p EXCEPT !.running[c] = @ \cup {thread}, !.started[c] = TRUE,
                       !.simEnd[c] = FALSE]

\* sim_thread_schedule.  A second call in a row does nothing.
DispatchFirst(p) == IF p.queue = <<>> THEN p ELSE Place([p EXCEPT !.queue = Tail(@)], Head(p.queue))
Dispatch(p) == FoldLeft(Place, [p EXCEPT !.queue = <<>>], p.queue)

\* create_thread_node for the threads of p from tid a on, up to b.
WithNodes(pl, p, a, b) ==
    [pl EXCEPT !.queue = @ \o [i \in 1 .. b - a + 1 |-> <<p, a + i - 1>>]]

\* setup_process, but for the node of the main thread.
SetUp(kernel, repeat) ==
    [kernel |-> kernel, created |-> 1, terminated |-> 0, insts |-> 0, repeat |-> repeat]

Over(p) == proc[p].kernel = Kernels[p] /\ proc[p].terminated = proc[p].created

(***************************************************************************)
(* Initially open_traces has created one process per application, in some  *)
(* order, and dispatched their main threads.                               *)
(***************************************************************************)
Init ==
    /\ clock = 0 /\ count = [d \in Domains |-> 0] /\ next = [d \in Domains |-> 0]
    /\ checked = {} /\ ran = TRUE
    /\ knobs \in [repeat : BOOLEAN, sched : {"greedy", "balanced"}]
    /\ \E order \in SetToSeqs(Procs) :
          pool = FoldLeft(LAMBDA pl, p : Dispatch(WithNodes(pl, p, 0, 0)),
                          [queue |-> <<>>, running |-> [c \in Cores |-> {}],
                           simEnd |-> [c \in Cores |-> FALSE],
                           started |-> [c \in Cores |-> FALSE]],
                          order)
    /\ active = Cardinality(Procs)
    /\ proc = [p \in Procs |-> SetUp(1, FALSE)]
    /\ unrepeated = Cardinality(Procs) /\ repeatDone = FALSE
    /\ cycle0 = 0 /\ pivot = 0 /\ turn = 0 /\ at = "top"

(***************************************************************************)
(* run_a_cycle.                                                            *)
(***************************************************************************)

\* GET_NEXT_CYCLE for the domains ds.
TickLate(ds) ==
    /\ count' = [d \in Domains |-> IF d \in ds THEN count[d] + 1 ELSE count[d]]
    /\ next' = [d \in Domains |-> IF d \in ds THEN (Lcm * count'[d]) \div Freq[d] + 1 ELSE next[d]]
    /\ UNCHANGED clock
Tick(ds) ==
    /\ count' = [d \in Domains |-> IF d \in ds THEN count[d] + 1 ELSE count[d]]
    /\ next' = [d \in Domains |-> IF d \in ds THEN (Lcm * count'[d]) \div Freq[d] ELSE next[d]]
    /\ UNCHANGED clock

AllChecked == checked = Cores

\* The termination test: the simulation is finished.
Finish ==
    /\ at = "top" /\ AllChecked
    /\ active = 0 \/ repeatDone \/ ~ran
    /\ at' = "ended"
    /\ UNCHANGED <<clocks, checked, ran, manager, cycle0, pivot, turn, knobs>>

\* Otherwise the IO, NOC, LLC and MC domains that are due run a cycle.
StartCycle ==
    /\ at = "top"
    /\ ~(AllChecked /\ (active = 0 \/ repeatDone \/ ~ran))
    /\ checked' = IF AllChecked THEN {} ELSE checked
    /\ ran' = (ran /\ ~AllChecked)
    /\ pivot' = (cycle0 + 1) % NumCores
    /\ Tick({d \in Uncore : next[d] = clock})
    /\ turn' = 0 /\ at' = "loop"
    /\ UNCHANGED <<manager, cycle0, knobs>>

Core == (turn + pivot) % NumCores

\* A turn of the core loop for a core that is not due.
SkipCore ==
    /\ at = "loop" /\ turn < NumCores
    /\ next[Core] # clock
    /\ turn' = turn + 1
    /\ UNCHANGED <<clocks, checked, ran, manager, cycle0, pivot, at, knobs>>

\* A core with no thread, and none waiting for one, ends.
Ends(c) == pool.running[c] = {} /\ pool.started[c] /\ pool.queue = <<>>

\* A turn for a core that is due: it runs unless it has ended or not started.
StartCore ==
    /\ at = "loop" /\ turn < NumCores
    /\ next[Core] = clock
    /\ Tick({Core})
    /\ checked' = checked \cup {Core}
    /\ cycle0' = IF Core = 0 THEN (cycle0 + 1) % NumCores ELSE cycle0
    /\ LET idle == pool.simEnd[Core] \/ ~pool.started[Core]
       IN  /\ pool' = [pool EXCEPT !.simEnd[Core] = @ \/ (~idle /\ Ends(Core))]
           /\ IF idle \/ Ends(Core)
              THEN turn' = turn + 1 /\ UNCHANGED at
              ELSE at' = "core" /\ UNCHANGED turn
    /\ UNCHANGED <<ran, active, proc, unrepeated, repeatDone, pivot, knobs>>

\* The core's cycle is over.
LeaveCore ==
    /\ at = "core"
    /\ ran' = TRUE
    /\ pool' = [pool EXCEPT !.simEnd[Core] = (pool.running[Core] = {})]
    /\ turn' = turn + 1 /\ at' = "loop"
    /\ UNCHANGED <<clocks, checked, active, proc, unrepeated, repeatDone, cycle0, pivot, knobs>>

\* The end of run_a_cycle; a window of Lcm cycles starts over.
EndCycleStale ==
    /\ at = "loop" /\ turn = NumCores
    /\ at' = "top"
    /\ clock' = (clock + 1) % Lcm
    /\ count' = [d \in Domains |-> IF clock' = 0 THEN 0 ELSE count[d]]
    /\ UNCHANGED <<next, checked, ran, manager, cycle0, pivot, turn, knobs>>
EndCycle ==
    /\ at = "loop" /\ turn = NumCores
    /\ at' = "top"
    /\ IF clock + 1 = Lcm
       THEN /\ clock' = 0
            /\ count' = [d \in Domains |-> 0] /\ next' = [d \in Domains |-> 0]
       ELSE clock' = clock + 1 /\ UNCHANGED <<count, next>>
    /\ UNCHANGED <<checked, ran, manager, cycle0, pivot, turn, knobs>>

(***************************************************************************)
(* Events of the core that runs.                                           *)
(***************************************************************************)

\* The loop of the trace reader that creates the other threads of p.  Its
\* second test indexes m_thread_start_info with the number of threads before
\* the loop, so once the next thread is due all remaining ones are created.
Spawns(p, insts) ==
    LET n == proc[p].created
    IN  n < NumThreads(p) /\ StartAt[p][n + 1] \in {0, insts}

\* The main thread of p reads an instruction.
Read(p) ==
    /\ at = "core" /\ <<p, 0>> \in pool.running[Core]
    /\ proc[p].insts < MainLen[p]
    /\ LET insts == proc[p].insts + 1
           n == IF Spawns(p, insts) THEN NumThreads(p) ELSE proc[p].created
       IN  /\ proc' = [proc EXCEPT ![p].insts = insts, ![p].created = n]
           /\ pool' = IF Spawns(p, insts)
                      THEN Dispatch(WithNodes(pool, p, proc[p].created, n - 1))
                      ELSE pool
           /\ active' = active + n - proc[p].created
    /\ UNCHANGED <<clocks, checked, ran, unrepeated, repeatDone, cycle0, pivot, turn, at, knobs>>

\* terminate_thread for a thread of core c.
Terminate(pl, c, thread) ==
    Dispatch([Dispatch(pl) EXCEPT !.running[c] = @ \ {thread}])

\* The last uop of a thread retires, or as many instructions as MaxInsts.
\* With the last thread of p its next kernel starts; after the last kernel
\* p is done, and started again while another application has never ended.
\* (KNOB_MAX_INSTS1, a limit on all instructions that ends p early, is not met.)
End(p, tid) ==
    /\ at = "core" /\ <<p, tid>> \in pool.running[Core]
    /\ tid = 0 => proc[p].insts = MainLen[p] \/ proc[p].insts >= MaxInsts
    /\ LET pl == Terminate(pool, Core, <<p, tid>>)
           last == proc[p].terminated + 1 = proc[p].created
           done == last /\ proc[p].kernel = Kernels[p]
           left == IF done /\ ~proc[p].repeat THEN unrepeated - 1 ELSE unrepeated
           again == done /\ knobs.repeat /\ left > 0
       IN  /\ unrepeated' = left
           /\ repeatDone' = (repeatDone \/ (done /\ left = 0))
           /\ IF last /\ (~done \/ again)
              THEN /\ proc' = [proc EXCEPT ![p] = IF again THEN SetUp(1, TRUE)
                                                  ELSE SetUp(@.kernel + 1, @.repeat)]
                   /\ pool' = Dispatch(WithNodes(pl, p, 0, 0))
                   /\ UNCHANGED active
              ELSE /\ proc' = [proc EXCEPT ![p].terminated = @ + 1]
                   /\ pool' = Dispatch(pl)
                   /\ active' = active - 1
    /\ UNCHANGED <<clocks, checked, ran, cycle0, pivot, turn, at, knobs>>

Ended == at = "ended" /\ UNCHANGED vars

Next ==
    \/ Finish \/ StartCycle \/ SkipCore \/ StartCore \/ LeaveCore \/ EndCycle
    \/ \E p \in Procs : Read(p)
    \/ \E th \in Threads : End(th[1], th[2])
    \/ Ended

Spec == Init /\ [][Next]_vars

\* The loop goes on, and a thread whose core keeps running gets to read its
\* trace to the end and to retire.
FairSpec ==
    /\ Spec
    /\ WF_vars(Finish \/ StartCycle \/ SkipCore \/ StartCore \/ LeaveCore \/ EndCycle)
    /\ \A p \in Procs : SF_vars(Read(p))
    /\ \A th \in Threads : SF_vars(End(th[1], th[2]))

(***************************************************************************)
(* Properties.                                                             *)
(***************************************************************************)

\* Between two calls of run_a_cycle every clock domain has run exactly as
\* many cycles of this window as its frequency asks for: as many multiples
\* of Lcm / Freq as lie below the clock (GET_NEXT_CYCLE and the comparisons
\* with m_clock_internal; a domain whose next cycle lies behind the clock
\* would stand still until the window is over).
DomainsKeepTheirRate ==
    at = "top" =>
        \A d \in Domains :
            /\ (count[d] - 1) * Lcm < clock * Freq[d]
            /\ clock * Freq[d] <= count[d] * Lcm

\* No thread waits in the thread queue while a core has room for it, in
\* whatever order threads end, kernels start and main threads spawn
\* (sim_thread_schedule and its callers), and m_num_active_threads counts
\* the threads that wait or run.
NoThreadWaitsForFreeCore ==
    /\ pool.queue # <<>> => \A c \in Cores : ~HasRoom(pool, c)
    /\ active = Len(pool.queue) + Cardinality({th \in Threads :
                                     \E c \in Cores : th \in pool.running[c]})

\* run_a_cycle reports the end of the simulation only when every application
\* has run to the end of its last kernel at least once, and without repetition
\* when no thread is left; in particular no core sleeps (m_sim_end) with a
\* thread to run, which would let m_num_running_core come out as zero.
EndsOnlyWhenDone ==
    at = "ended" =>
        /\ \A p \in Procs : proc[p].repeat \/ Over(p)
        /\ ~knobs.repeat => active = 0 /\ \A c \in Cores : pool.running[c] = {}

\* The simulation ends, with and without repetition of the traces.
SimulationEnds == <>(at = "ended")

===============================================================================
