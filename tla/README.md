# TLA+ verification of MacSim

This directory holds TLA+ models of MacSim, the cycle-level CPU/GPU simulator under
`src/`, TLC configurations that check them on small instances, and TLAPS proofs of
theorems about them for every value of the constants.  `PROJECT.json` lists components, runs,
mutants, the map from definitions to source lines, findings, hazards and theorems.

## 1. The system

MacSim is one thread.  `macsim_c::run_a_cycle` advances a clock; each clock domain (a core,
LLC, NOC, memory controller, IO) whose cycle is due runs the cycle of its parts.  Concurrency
is *simulated*: what is interleaved are requests, packets, uops and threads that sit in queues,
and the loops that scan those queues.  What makes this code hard to test is therefore

* requests that are in several hands at once (an MSHR entry is on a core's list, in a queue, on
  a merge list, and named by a uop);
* calls that fail half way and are tried again in a later cycle (a done function that finds a
  port busy, a fill whose victim has no room, an access that is denied after translation);
* queues of bounded size whose owners wait on each other;
* flags, counters and pointers that one stage caches and another changes (`m_wb_empty`, credits,
  `m_translated`, `m_sim_end`, the sources of a uop in slots that are given away again);
* order: fences and the uops around them, warps at barriers, worms of flits, reads and
  write-backs of one address, threads and kernels that end in any order on any core.

### Inventory

| part | state | operations | talks to | what is hard |
|---|---|---|---|---|
| Main loop, `macsim.cc` | domain counts and next cycles, clock, `m_sim_end`, `m_num_running_core` | `run_a_cycle`, `init_clock_domain` | all | domains of unequal rate, end of simulation while threads still arrive |
| Process manager, `process_manager.cc`, `retire.cc`, `trace_read.cc` | thread queue, threads per core, kernels and repetitions of an application; blocks of a GPU kernel | `create_thread_node`, `sim_thread_schedule`, `terminate_thread`, `setup_process`, `repeat_traces`, `sim_schedule_thread_block` | cores, trace reader | re-entrant: called from retirement and from the reader in the middle of a cycle |
| GPU cores, `frontend.cc`, `core.cc`, `retire.cc` | warps, fetch arbiter, barrier counts, window of thread ids | fetch, branch stall, barrier, retirement, end of warps, blocks, kernels | process manager | warps pass barriers and end in any order |
| GPU pipeline, `allocate_smc.cc`, `schedule_smc.cc`, `rob_smc.cc` | pool of reorder buffers, list of the warp schedulers, resources | allocate, schedule, execute, retire | frontend, memory | holes in the list, buffers handed from thread to thread |
| Pipeline queue, `pqueue.h` | ring of buckets, number of entries | `enqueue`, `dequeue`, `advance` | pipeline stages | stalls and bubbles at both ends |
| Dependences, `map.cc`, `utils.h` | register map, store table, pool of uops | `map_uop`, `map_mem_dep`, `check_srcs`, `free_uop_resources` | frontend, scheduler, retirement | pointers to slots that other uops have now |
| CPU back end, `allocate.cc`, `rob.cc`, `fence.h`, `schedule*.cc`, `exec.cc`, `retire.cc` | reorder buffer, fence lists, versions, scheduler list, load/store buffers, write buffer | allocate, schedule (two policies), execute, retire, drain | data cache | order of memory uops around fences, circular waiting |
| MMU and TLB, `mmu.cc`, `tlb.cc` | page table, free frames, walk queue, retry queues, fault buffer and batch, replacement unit | `translate`, `run_a_cycle`, `do_page_table_walks`, `handle_page_faults` | data cache, cores | second fault on a page whose batch is under way, eviction under held translations |
| Miss-status entries, `memory_c` in `memory.cc` | per-core entry and free lists, requests, merge lists | `new_mem_req`, `search_req`, `adjust_req`, `flush_prefetch`, done functions, `free_req` | caches, frontend, prefetchers | merging across cores, promotion, partial completion |
| Data caches, `dcu_c` in `memory.cc` | lines and dirty bits; input, output, fill and write-back queues, retry queue | `access`, `fill`, `process_*_queue`, `receive_packet`, `run_a_cycle` | network, DRAM | fills and write-backs that wait for each other's queue |
| Routers, `network.cc`, `network_ring.cc`, `network_mesh.cc` | virtual channels, buffers, credits, routes | injection, RC, VCA, SA, ST, LT, credit return | caches, DRAM | deadlock, credits split over two routers |
| DRAM controller, `dram_ctrl.cc` | request buffers and command state of the banks, buses, answers | receive, select, command, data, complete, send | network | shared command slot, merging, reordering |

### Not modelled

* *Read-only and software-managed caches*: their misses enter the entries of `Mshr`; the caches
  themselves are one level without queues.
* *Hardware prefetchers* (`pref_*.cc`): their tables decide when a prefetch is sent, which is arbitrary
  in `Mshr`.  The request rings in `pref_common.cc` sit between the two; with them `Mshr` would be
  beyond TLC at the sizes at which merging is interesting.
* *Branch predictors, page mapper, HMC atomics*: sequential tables that only change timing
  or rewrite a trace.
* *Simple network*: a packet waits a fixed time; nothing is bounded or shared.
* `dram_simple_ctrl_c`, which only delays requests, and the *address mapping* of `dram_ctrl_c`.
* *Memory encryption engine*: skeletons, most functions have an empty body.
* *Adapters of ramulator, DRAMSim2, DRAMSim3, SST and the third-party simulators in the tree*: they pass
  on the timing of libraries with interfaces of their own.
* *Trace readers and generators*: decoding of files into uops.  The creation of threads and the
  barrier bookkeeping they contain are in `Simulator` and `Gpu`.
* *Knobs, statistics, factories, bug detector*: configuration, counting, printing.
* In modelled parts: `invalidate()`, prefetches and LLC bypass in `Dcu`; stores of compute capability 2.0,
  which bypass the entries; bogus uops, which the code never creates; the several child uops
  of one GPU memory instruction; PLL stalls of the main loop, `KNOB_SIM_CYCLE_COUNT`, and `KNOB_MAX_INSTS1`, a limit
  on the instructions of all applications that lets a process end before its last kernel (`retire.cc:317`); in
  `Dcu`, that a refused packet in front holds up those behind it (`memory.cc:922`); the GPU_VALIDATION build of
  `local_packet_injection`, which may begin its search at another virtual channel.  `schedule_igpu_c` is `schedule_smc_c`
  without dispatch latencies.

The map covers about 8 000 source lines, in files directly under `src/src`.  That is some 16% of the
49 000 lines there, of which trace decoding, knobs, statistics, prefetchers and headers of generated
events make up the larger part of the rest, and a smaller share of the whole tree with its third-party
simulators.

## 2. Modules

| module | models | run | proofs |
|---|---|---|---|
| `Simulator` | main loop, clock domains, process manager (CPU threads) | `simulator` | `TimingProofs` |
| `Gpu` | thread blocks, warp fetch, barriers, end of warps and kernels | `gpu` | |
| `Smc` | pipeline of a GPU core from allocation to retirement | `smc` | |
| `PQueue`, `DelayQueue` | `pqueue_c` and the delay queue it implements | `smc` | `TimingProofs` |
| `Map` | dependences between uops, the uop pool | `backend` | `CoreProofs` |
| `Backend` | fetch to retirement of one CPU core | `backend`, `backend_fence` | `CoreProofs`, `FenceProofs` |
| `Mmu` (with `StdList`, the list operations it uses) | MMU, TLB, replacement unit | `mmu`, `mmu_refault` | `MmuProofs`, `TranslationProofs` |
| `Mshr` | miss-status entries of all cores | `mshr`, `mshr_migration` | `MshrProofs` |
| `Dcu` | the data caches on one core's path to memory | `dcu` | `DcuProofs` |
| `Router`, `Ring`, `Mesh`, `Noc`, `NocCycle` | routers for any topology, ring and mesh, the two together, and their order in a cycle | `noc` | `RouterProofs` |
| `Dram` | DRAM controller | `dram` | |

`MC*` modules only give the constants their values.

**Composition.**  `Noc` extends `Ring` and `Mesh`, and both extend `Router`, whose topology is the three
operator constants `Link`, `Opposite` and `MayUse`.  `Smc` extends `PQueue`: the allocation queue of the GPU
pipeline *is* that module, driven by the stages around it.  `Backend` extends `Map`: fetching maps a uop,
scheduling asks `check_srcs`, retirement and the write buffer free it.  `Simulator` composes the main loop
with the process manager and the two callers that call it back; `Gpu` does the same for GPU kernels.
`Dcu` composes four cache levels, network and memory controller.  Where a module needs another part only at its
border, that part is a nondeterministic choice: `Mshr` sees the path to memory as a place that a
request moves through, `Dcu` leaves merging to `Mshr`, `Backend` lets the memory system accept and finish uops
whenever it likes, `Gpu` lets any fetched uop retire.

**Refinement.**  `PQueue` implements `DelayQueue` (`IsDelayQueue`, checked in `smc` under the use the pipeline
makes of it).  `Backend` implements `MapSpec`, the promise of `Map` to its core: uops are mapped in trace
order, none is issued before `check_srcs` allows it, each is freed once and after it is done.  The
mapping is the identity on the variables of `Map`.  The refinement is checked in `backend` and proved in
`CoreProofs`.

### How state and actions correspond to the code

**Simulator.**  `at` is the point reached in `run_a_cycle`.  `Finish` is the test for the end at the top
(no active thread, all applications repeated, or no running core);
`StartCycle` ticks the uncore domains that are due; `SkipCore`, `StartCore` and `LeaveCore` are an
iteration of the core loop, in the order given by the pivot; `EndCycle` advances the clock
and starts a new window when it reaches the least common multiple of the frequencies.
While a core runs, `Read(p)` is the reader fetching an instruction of the main thread, with the creation
and dispatch of further threads, and `End(p, tid)` is the retirement of a thread's last uop, with
the next kernel or the repetition of the application.

**Gpu.**  A stage of a core is one call; the calls and loop turns it makes are queued in `todo` and run before
anything else happens: `fill` gives warps to a core, `TryFetches` and `release` are the frontend's fetch
and barrier release, `RetireUop` and `terminate_thread` the GPU parts of retirement.

**Smc.**  One action per loop turn of retire, schedule (one per scheduler), move from the allocation queue,
allocate and fetch; `tick` ends the cycle.  Cycles are counted down to.

**PQueue.**  `enqueue`, `dequeue` and `advance` as in the header.  Each entry carries its age as history.

**Map.**  A uop is its place in the trace; a slot of the pool is a number, given out last-in first-out.  A recorded
source is a slot and the number of the uop that had it.  `fetch` takes a slot and maps the uop,
`free_uop_resources` removes its store entry and gives the slot back.

**Backend.**  A cycle is retire, drain, schedule, advance, allocate, fetch, as the code calls them;
one iteration of a stage's loop is one action.  `complete` stands for functional units and memory,
which finish some of the executed uops between two cycles.  Members that the constructor
of `rob_c` leaves uninitialised start with any value of `Unset`.

**Mmu.**  `phase` walks through `handle_page_faults`, the retry queues, the page table walks
and the cores.  Absolute cycles become remaining waits.  `failed` records the assertion that
stopped the program; no step follows it.

**Mshr.**  `Promote`, `DemandMiss` and `DemandRefused` are the outcomes of `new_mem_req`
for a uop or a fetching thread, `Prefetch` and `DropPrefetch` those for a prefetch.
`Complete(e, busy)` is a returning line: the done function of `e` and of every request under it,
of which those in `busy` find a port or queue busy and stay.

**Dcu.**  One action per queue, level and outcome: hit, miss, done, fill,
fill that waits for the done function, hand-over to the network, arrival, DRAM.

**Router.**  One action per iteration of a stage; the stages of all routers interleave freely, of which the
order in `run_a_cycle` is one case.  Arbitration is an arbitrary choice.  `NocCycle` takes the same
actions in the order of `run_a_cycle`, for workloads too large for all orders: `turn` is the place reached in it.

**Dram.**  `stage` walks through `run_a_cycle`: `send`, `channel_schedule_cmd`, `dataOne`, `completeOne`,
`bank_schedule_new`, `receive`.  Times are counted down to; `lockedCycle` is a cycle the PLL is locked.

## 3. Runs

| run | distinct states | checks |
|---|---|---|
| `simulator` | 53 thousand | `DomainsKeepTheirRate`, `NoThreadWaitsForFreeCore`, `EndsOnlyWhenDone`, `SimulationEnds` |
| `gpu` | 525 thousand | `BarrierHolds`, `LiveThreadsInWindow`, `BlocksAccounted`, `AllWarpsFinish` |
| `smc` | 530 thousand | `IssuedInOrder`, `EntriesAreLive`, `IsDelayQueue`, `AllRetire` |
| `backend` | 1.52 million | `ActiveFencesMatchRob`, `InOrderFences`, `ReleaseDrainsLast`, `SourcesAreDone`, `MapSpec`, `UopsRetire` |
| `mmu` | 755 thousand | `MappingsAgree`, `FreeFrameEnsured`, `TranslationIsCurrent`, `MissIsTranslated` |
| `mshr` | 89 thousand | `FreeIffUnused`, `WaitingLoadHasEntry`, `MergedReachMemory`, `WaitingIsServed` |
| `dcu` | 342 thousand | `InOnePlace`, `WbNeverRejected`, `DirtyUntilRetired`, `RequestsComplete` |
| `noc` | 52 thousand | `CreditsConserved`, `BuffersBounded`, `PacketsStayWhole`, `WaitsClimb`, `PacketsArrive` |
| `dram` | 399 thousand | `RequestsAccounted`, `BankProtocol`, `WritesBeforeReads`, `ProgressWithinBound`, `AllServed` |
| `mmu_refault`, `mshr_migration`, `backend_fence` | | one property each that the code violates, section 5 |

**What they show.**

* *simulator*: at every call of `run_a_cycle` each domain has had exactly the cycles its frequency asks for,
  also across the end of a window; no thread waits while a core has room, whatever ends and starts in the
  same cycle; the simulation ends, and never because a core that was given a thread still sleeps.
* *gpu*: no warp passes a barrier before all warps of its block have retired it, also with barriers in a row;
  the window of thread ids the frontend looks at never passes a live warp; blocks are handed out and
  counted down exactly; every warp of every kernel finishes.
* *smc*: a thread's uops are issued in order although two schedulers scan one list; an entry of a queue or of the
  list always names a uop that is there; everything retires; and the allocation queue is a first-in first-out queue
  with a fixed latency, full, stalled or empty.
* *backend*: the fence lists match the reorder buffer although a waiting fence is inserted at every retry; with
  the in-order scheduler fences order memory uops, also through the write buffer; a store release drains last;
  no uop overtakes what it depends on although slots are used again; nothing waits in a circle.
* *mmu*: page table, TLB, frames and replacement unit agree; a free frame is there when a transfer ends; a
  translation in use is the current one; every miss is translated.
* *mshr*: no entry is handed out twice, no uop loses its request, merge chains end at a request on its
  way to memory, blocked threads are woken.
* *dcu*: a request is in one queue at a time, no victim finds the write-back queue full, dirtiness is lost
  only where a write-back is retired, everything completes.
* *noc*: credits, buffers and worms on ring and mesh; packets wait for escape channels in one fixed order; all
  arrive, also when the buffers all round the ring are full.
* *dram*: no request is lost or answered twice; a bank's commands come in their order; a read never gets in
  front of an older write-back of its address; the controller never goes so long without a completion that the
  simulation would be given up.

**Bounds, and why they are enough.**

* `simulator`: two cores, frequencies 2, 2, 1, 3, 2, 1 (window of 6 cycles, domains that coincide
  and that do not), one application with four threads on four places that also hold the other
  application's two kernels, so that threads queue, wait and overtake; with and without
  repetition, both scheduling policies.  `LcmBound` (20) bounds the search for the least common
  multiple only.
* `gpu`: two cores of four threads, two kernels of three blocks: a block that waits for a core, two
  blocks on one core, blocks with one, two and a final barrier.  `OccupancyAssumption` keeps out traces whose
  occupancy does not fit the core; see hazard `process_manager.cc:1277`.
* `smc`: four threads for two reorder buffers of two entries, a list of three places for at most two
  uops, one unit of each resource: every buffer is reused and every wait happens.  `LimitAssumption`: see hazard
  `retire.cc:293`.
* `backend`: a computation, a store, two uops arbitrary among fence, release and load, and a load that
  overlaps them; a reorder buffer of two, one scheduler slot per queue: each resource runs out and slots of
  the pool are reused.  `VersionMod` 16 exceeds the fences in a trace.  Three configurations: in order with
  full fences, out of order with versions, out of order without write buffer.
* `mmu`: three pages for two frames, or two processes and a fixed memory; a TLB and a fault buffer of one entry.
* `mshr`: three entries on two cores for two lines, two loads and a fetching thread: merging, chains over
  cores, promotion and a full list all happen.
* `dcu`: two requests in three topologies, one way per cache, L2 input queue of one entry (it
  overflows into the retry queue), write-back queues of one, fill queues of three, one more than the requests.
  `CoreBound` limits what the core has under way, never what the caches do: two stores to two lines, in
  `llc_decoupled_network` also one store and loads of three lines, in `igpu_network` one store.  With three lines
  and a fill queue of only two entries `RequestsComplete` fails, which its mutant shows: see hazard `memory.cc:1068`.
  The other input queues hold all requests of the core, as 1024 entries hold those of its 128
  MSHR entries.
* `noc`: a ring of five routers and a mesh of 2 by 2, two virtual channels, buffers of two flits.  On
  each, two packets that share a link, with the steps in any order.  Two packets cannot wait in a circle:
  stage_st never waits for room, so a blocked packet is in one channel, and a circle needs two packets for
  every link of the ring.  Ten packets or more in all orders are out of reach, so crowds of twelve to the right, ten to the left
  and seven on the mesh follow `run_a_cycle`, with every outcome of arbitration.  The crowd to the right does fill
  the ring: without the first of the two tests in `stage_vca_pick_winner` it ends in a deadlock, the mutant of
  `PacketsArrive`.  A crowd that could close a circle on the mesh would be twice as large; for it there is the argument:
  the packet in front of an input buffer may ask for an escape channel, whatever channels it came by, and those
  behind it wait for nothing but that packet.  If it does not get one, a packet in the output buffer of
  that channel has no credit, hence the buffer at the other end is full and the packet in front of it, which came over
  the escape channel, waits too; by `WaitsClimb` for escape channels of higher rank only.  The last in
  that order cannot be waiting.
* `dram`: two banks on one channel, buffers of three, two sources with a prefetch, a write-back and a read of
  one address, a row conflict and a GPU read; both policies, with and without merging.

Deadlock checking is off for `mmu` and `mmu_refault` (a failed assertion stops the program)
and `noc` (all packets have arrived).

**Fairness.**  All loops of the simulator are scanned in every cycle of their domain, so weak fairness of
what the program does by itself is justified (`Next` in `Router`, `Backend`, `Smc` and `Dram`, the loop in
`Simulator`, `Continue` in `Gpu`, `MmuStep` and `ExecChild` in `Mmu`).  Strong fairness stands for repeated scans that
find the thing possible again and again, or for surroundings that do not withhold their service for ever:

* `Mshr`: `Progress(e)`: the retry queue is tried in every cycle, requests move on, ports are not busy for ever;
* `Dcu`: `Step(i)` for every request, as any ready entry of a queue is visited in every cycle;
* `Mmu`: `StartRetries` and `EndCores`, the phases that come round every cycle;
* `Backend`: `Served`: frontend, functional units and memory; each of these events happens at most once for a uop
  of a finite trace, so that one condition on all of them is enough;
* `Simulator`: `Read(p)` and `End(p, tid)`, that is, a running thread fetches and retires;
* `Gpu`: a core whose frontend can fetch does so in some cycle, and its fetched uops become ready to retire;
* `Smc`: as long as some thread can be fetched, one is;
* `Dram`: the network takes the first answer and delivers what it offers.

Every property of a passing run has a mutant in `PROJECT.json`: a plausible slip in a mapped definition
(a dropped guard, a missing reset, a swapped order) with which the same run fails.

## 4. Proofs

All theorems hold for every value of the constants that the named `ASSUME`s allow; TLC evaluates the
assumptions in the runs.

* `CoreProofs!SourcesAlwaysDone`: under `MapSpec`, for every trace and either setting of `KNOB_MEM_OOO_STORES`, a
  uop is issued after the last writer of its register and the stores that supply it.  `SourcesAreDone` speaks
  of uops, the code of slots, so the invariant relates the two: a slot leads to its uop until the uop is freed
  (`SlotsRight`), the pool has slots of freed uops, each once (`PoolRight`), the register map has the
  last writer of each register and the store table the last unfreed store of each address
  (`RegistersRight`, `StoresRight`), and so a fetched uop has its sources (`SourcesRight`).  Then a source whose number
  no longer matches was freed, and a freed uop is done.
* `CoreProofs!CoreImplementsMap`: `Spec => MapSpec` for all widths, sizes and knobs; with the theorem above,
  `CoreSourcesDone`: `Spec => []SourcesAreDone`.  The hard part is that each uop is freed once.  Ring entries are never
  cleared and the write buffer frees out of order, so the invariant says that the ring holds the youngest allocated
  uops in order (`Ring`); hence the front has not retired before, and the write buffer has retired, unfreed, distinct
  uops (`WriteBuffer`).  Queues name filled entries (`Waiting`).
* `CoreProofs!ReleasesDrainLast`: `Spec => []ReleaseDrainsLast`.  The first store of the write buffer is the oldest unfreed
  store because the buffer is in trace order, everything in it has retired, and every retired store that is
  not in it is freed; `Flow` says so, and that only executed uops retire, in trace order.
* `FenceProofs!FenceListsMatch`, `InOrderFencesHold`: `Spec => []ActiveFencesMatchRob` and `Spec => []InOrderFences`, for every
  trace, ring, width and scheduler.  A list of active fences is in trace order only because fences are first tried in
  trace order, which is a fact about the scheduler and not about the list: the invariant `CInv` says that each uop
  of the ring that is not issued is in the scheduler's list or an allocation queue, the uops of one queue in trace order
  (`Queued`); that a waiting fence is younger than the active ones unless it is active itself, and that the
  out-of-order scheduler has passed over an inactive fence only because the ports of its queue are used up, so that no
  later fence gets one in that cycle (`FenceLists`, `PortsRight`); that a fence has no sources (`FencesReady`).
  `InOrderFences` then follows from `IssuedInOrder` (the in-order scheduler has issued a prefix of the trace,
  and `next_inorder` is the entry of the next uop) and `FencesWaited` (a fence is issued when all memory uops before it
  are freed, so that neither the ring nor the write buffer holds one).  Assumption `BackendAssumption`: a fence names no source register;
  a fence that waited for a source could be passed over and a younger one entered first.
* `DcuProofs!RequestsInOnePlace`, `VictimsAlwaysFit`, `StoresSurvive`: for any lines, requests, ways, queue sizes and
  disabled caches.  The first two are one inductive invariant, since a rejected victim would be in no queue:
  to types and the place of every request it adds `Roles` (write-backs never enter an input queue nor call a
  done function).  `StoresSurvive` is an action property on top of it.  Assumption `LargeInputs`: the input queues
  below L2 hold every request of the core; without it a request can be in two queues (hazard `memory.cc:673`).
* `MmuProofs!TransferFindsFrame`: whatever pages, frames, knobs and latencies, the frame freed for a transfer is still
  free when it ends, or an assertion has failed.
* `TranslationProofs!MappingsAlwaysAgree`, `TranslationsStayCurrent`: `Spec => []MappingsAgree` and
  `Spec => []TranslationIsCurrent`, for any uops, pages, frames, TLB size, batch and knobs.  Neither is inductive: that a
  transfer maps a page that is not mapped yet depends on who waits for it.  `AllInv` therefore adds `MemRight` (page
  table, TLB and frames; the nodes of the replacement unit are attached or free, and its table leads from the key of an
  attached node to that node) and `QueuesRight`: each page is walked for once; a page in the fault buffer or in the batch is
  not mapped and in either once; the uops of a queue are in its state; and the uops of the batch are others than those
  that have faulted since.  The table of the replacement unit may know keys of evicted pages as well, which is why its
  part holds only until the assertion of section 5 fails.  `MmuProofs` has the lemmas on walks, faults, evictions
  and the replacement unit, `TranslationProofs` one lemma per action.
* `MshrProofs!FreeListsAreExact`, `NoUopIsDropped`: for any number of cores, entries, lines and clients, with
  or without prefetching.  The invariant `Inv` adds that only requests marked merged are on a merge
  list (so that a done function reaches requests in flight only), that unused entries are clear
  (so that an old uop pointer is never seen again) and that a uop named by a request waits for it and is
  named nowhere else.  One lemma per effect (allocate, flush, complete, promote, move), one step per action.
* `MshrProofs!EntriesKeepTheirCore`: with one core or no prefetching, each entry stays on the lists of its
  core.  The assumption `NoTakeover` is needed: run `mshr_migration` shows what happens without it.
* `RouterProofs!CreditsAlwaysConserved`: for every topology, any number of channels, buffer size and packets.
  The invariant adds types and `LocalBounded` (the local port is filled by injection only); with it credits bound every
  input buffer.  Assumption `LinksAssumption`: links go both ways, a route uses links that are there, and a packet
  is sent to the local port of its destination only.  `Noc` satisfies it, as TLC confirms.
* `RouterProofs!PacketsAlwaysWhole`, `BuffersNeverOverflow`: `Spec => []PacketsStayWhole` and `Spec => []BuffersBounded`.
  Only a head carries a route; a body flit follows because an input channel keeps its output channel until the tail
  has passed.  A packet may be spread over many routers with empty buffers in between, so the buffers alone do not
  say what is to come next.  `DeliveryInv` says that there are functions `gi` and `go` that name, for every input and
  output buffer, the flit it must get next (a head of any packet after a tail), `low`, the number of flits
  of each packet that have left, and `exit`, the channel they leave by, with which:
  buffers hold chains of flits that end where the next one is expected (`Inputs`, `Outputs`); an input channel with an
  output channel has for it what that one expects, and no other input channel holds it (`Claims`, `Alone`); what leaves a link
  is what the other end expects (`Links`); no flit is in two places, and packets in the network have left
  the senders (`Tracked`); a packet leaves by one channel of its destination, in order (`Exits`); packets received are
  out with their last flit (`Received`).  Every action is a lemma that gives the new functions.  The invariant was
  first checked by TLC, with the four functions as history variables.
* `TimingProofs!RatesAreExact`: for any number of cores and any frequencies.  `DomainsKeepTheirRate` speaks of
  the moment between two calls only; `ClockInv` says of every moment which domains have had their turn
  (`Visited`: the cores are visited in an order that starts at the pivot) and that a domain that has not is
  still due.  The rest is arithmetic of multiples of the period, which divides the window.
* `TimingProofs!NeverReadyEarly`: an entry leaves the queue only after `Latency` calls of `advance`.
  `NotReadyEarly` alone is not inductive: the new entry's distance is the latency only if the producer's
  bucket is the one behind the consumer's, so the invariant adds `RingIsClosed`.  The insertion by priority
  is covered by a lemma on the elements of the new sequence.

Only model-checked: all liveness properties (fairness and `ENABLED` are out of the prover's reach); the
refinement of `DelayQueue` (its mapping flattens the ring by a fold) and `NoThreadWaitsForFreeCore` and
`EndsOnlyWhenDone` of `Simulator` (dispatch is a fold over the cores), which need induction over data;
`MergedReachMemory` (reachability along merge lists); `WaitsClimb`, which is about ring and mesh and not about any
topology; all of `Gpu`, `Smc` and `Dram`.

## 5. Where the code differs from what it says

Three runs end in a counterexample.

* `mmu_refault`: `ReplacementUnit::getVictim` overwrites the node's key before it erases the key from the
  table (`mmu.cc:121`), so a page that was evicted and faults again fails `assert(it == m_table.end())`.
  For this reason `mmu` says what holds until the assertion stops the program.
* `mshr_migration`: a prefetch promoted by another core moves its entry to that core's free list for
  good (`memory.cc:1944`), so the first core can be refused with no request in flight.
* `backend_fence`: with the out-of-order scheduler a load can be issued before an older fence is active
  (`rob.cc:253`); `InOrderFences` states what does hold.

**Store dependences.**  `add_src_from_uop` (`map.cc:181`) skips a store that seems to be a source of the load already,
and compares the numbers now in the slots.  If the store has got the slot that the load's older register source once
had, or is the very first uop, it is taken for recorded and the load does not wait for it.  `SourcesAreDone` names this
exception (`Mistaken`); without the exception TLC finds it.  The store table has one entry per first byte and quadword, so a
short store hides a longer one before it, and a store across two quadwords is found from the first only (`map.cc:383`);
`Suppliers` is what the table can hold.  `m_last_store` is read but never set, so that without `KNOB_MEM_OOO_STORES` memory
uops depend on `m_invalid_uop`, that is, on nothing.

**Caches.**  In `llc_decoupled_network` nothing that L2 evicts is ever written to the LLC or to memory: a disabled cache
takes a write-back for filled and frees it (`memory.cc:1198`).  `insert()` into a full input queue keeps the request *and*
returns false (`memory.cc:673`).

Met while modelling, without a property:

* `trace_read.cc:289` tests the start of the first missing thread only, so all later threads start with it;
* `retire.cc:293` takes a limit of 0 instructions literally while `macsim.cc:1044` takes it for no limit;
* `apply_new_frequency` does not recompute the window (it has no caller), `macsim.cc:1151`;
* `invalidate()` reaches only the first cache (`memory.cc:2236`);
* a refused instruction miss looks like a hit (`frontend.cc:641`);
* `rob_c` compares and restarts versions that its constructor leaves uninitialised (`rob.cc:51`);
* the replacement unit has one table for all processes (`mmu.cc:522`);
* a victim at address 0 counts as none (`memory.cc:1142`);
* `dram_simple_ctrl_c` answers write-backs (`dram_ctrl.cc:921`);
* an entry of the L1 prefetch ring stays valid after it was sent (`pref_common.cc:709`).

## 6. Extending the project

What would come next, by what it adds: the barriers and blocks of `Gpu` for any number of warps; the request rings of
the prefetchers between `Dcu` and `Mshr`; `invalidate()` and prefetches in `Dcu`, which the MMU's evictions would then
call; the remaining fetch policies in `Gpu`.
