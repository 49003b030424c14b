-------------------------------- MODULE Dram --------------------------------
(***************************************************************************)
(* A DRAM controller (dram_ctrl.cc): a request buffer (DRB) per bank, the  *)
(* open row and the command state of each bank, the command and the data   *)
(* bus of each channel, and the buffers in which answers wait for the      *)
(* network.                                                                *)
(*                                                                         *)
(* The entries of a DRB are named by their requests, so the free list is   *)
(* a number.  Times are counted down to: 0 is "not later than m_cycle" and *)
(* Never is ULLONG_MAX.  m_timestamp of an entry is its place in order,    *)
(* for one request is received per cycle; of m_bank_timestamp only the     *)
(* order of the banks is kept.  The network on both sides is external.     *)
(***************************************************************************)
EXTENDS Integers, Sequences, FiniteSets, FiniteSetsExt, SequencesExt

CONSTANTS Streams,            \* per source, the requests it sends in this order:
                              \* [id, addr, bank, row, type, acc, size]
          NumBanks,           \* KNOB_DRAM_NUM_BANKS
          NumChannels,        \* KNOB_DRAM_NUM_CHANNEL
          BufferSize,         \* KNOB_DRAM_BUFFER_SIZE
          BusWidth,           \* KNOB_DRAM_BUS_WIDTH
          Precharge,          \* KNOB_DRAM_PRECHARGE
          Activate,           \* KNOB_DRAM_ACTIVATE
          Column,             \* KNOB_DRAM_COLUMN
          AdditionalLatency,  \* KNOB_DRAM_ADDITIONAL_LATENCY
          VcPartition         \* KNOB_ENABLE_NOC_VC_PARTITION

Reqs == UNION {ToSet(Streams[i]) : i \in DOMAIN Streams}

ASSUME DramAssumption ==
    /\ NumBanks \in Nat \ {0} /\ NumChannels \in Nat \ {0}
    /\ BufferSize \in Nat \ {0} /\ BusWidth \in Nat \ {0}
    /\ {Precharge, Activate, Column, AdditionalLatency} \subseteq Nat
    /\ \A r \in Reqs : r.bank \in 0 .. NumBanks - 1 /\ r.row \in Nat /\ r.size \in Nat
    /\ \A r, q \in Reqs : r.addr = q.addr => r.bank = q.bank /\ r.row = q.row

VARIABLES bank,       \* per bank: DRB, current request, open row, timers
          bus,        \* per channel: m_byte_avail, m_dbus_ready
          total,      \* m_total_req
          completed,  \* m_num_completed_in_last_cycle # 0
          starve,     \* m_starvation_cycle
          tmp,        \* m_tmp_output_buffer, with the cycles to m_rdy_cycle
          out,        \* m_output_buffer
          head,       \* the packet the network offers
          pending,    \* per source: requests the network has not offered yet
          order,      \* the requests received, in order
          sent,       \* requests answered
          freed,      \* requests given to free_req
          knob,       \* KNOB_DRAM_MERGE_REQUESTS and the scheduling policy
          stage       \* where run_a_cycle is

vars == <<bank, bus, total, completed, starve, tmp, out, head, pending, order, sent, freed, knob, stage>>

Banks == 0 .. NumBanks - 1
Channels == 0 .. NumChannels - 1
NoReq == [id |-> 0]
Never == -1
Closed == -1   \* ULLONG_MAX in m_current_rid

\* The banks of channel c; when the channels do not divide the banks, the
\* last ones are in no channel.
BanksOf(c) == LET n == NumBanks \div NumChannels IN c * n .. (c + 1) * n - 1

EmptyBank == [free |-> BufferSize, buffer |-> <<>>, cur |-> NoReq, state |-> "INIT", rid |-> Closed,
              ready |-> Never, avail |-> Never, data |-> Never, stamp |-> 0]

Init ==
    /\ bank = [b \in Banks |-> EmptyBank]
    /\ bus = [c \in Channels |-> [bytes |-> BusWidth, ready |-> 0]]
    /\ total = 0 /\ completed = FALSE /\ starve = 0
    /\ tmp = <<>> /\ out = <<>>
    /\ head = NoReq /\ pending = Streams /\ order = <<>> /\ sent = {} /\ freed = {}
    /\ knob \in [merge : BOOLEAN, frfcfs : BOOLEAN]
    /\ stage = "send"
-----------------------------------------------------------------------------
(* send and delay_packet *)

\* The first k requests of the output buffer are sent and, if another one was
\* tried, it was refused.  With partitioned virtual channels a second pass then
\* sends the first j of the kind (CPU or GPU) the first pass did not try.
Tried(k) == {out[i].acc : i \in 1 .. Min({k + 1, Len(out)})}
SecondPass(k) ==
    IF VcPartition THEN SelectSeq(SubSeq(out, k + 1, Len(out)), LAMBDA r : r.acc \notin Tried(k)) ELSE <<>>

\* delay_packet: the requests whose additional latency is over
Delayed == SelectSeq(tmp, LAMBDA x : x.left = 0)

send(k, j) ==
    /\ stage = "send"
    /\ k <= Len(out) /\ j <= Len(SecondPass(k))
    /\ LET gone == ToSet(SubSeq(out, 1, k)) \union ToSet(SubSeq(SecondPass(k), 1, j))
       IN /\ sent' = sent \union gone
          /\ out' = SelectSeq(out, LAMBDA r : r \notin gone)
                      \o [i \in DOMAIN Delayed |-> Delayed[i].req]
    /\ tmp' = SelectSeq(tmp, LAMBDA x : x.left # 0)
    /\ stage' = "cmd"
    /\ UNCHANGED <<bank, bus, total, completed, starve, head, pending, order, freed, knob>>
-----------------------------------------------------------------------------
(* channel_schedule *)

\* The oldest of the banks in S, the first of several
Oldest(S) ==
    CHOOSE b \in S : \A o \in S : bank[b].stamp < bank[o].stamp \/ (bank[b].stamp = bank[o].stamp /\ b <= o)

\* Faulty: a precharge leaves the row open.
CommandKeepingRow(k) ==
    IF k.rid = Closed THEN [k EXCEPT !.rid = k.cur.row, !.ready = Activate, !.avail = Never, !.state = "CMD_WAIT"]
    ELSE IF k.rid = k.cur.row THEN [k EXCEPT !.ready = Column, !.avail = Column, !.state = "DATA"]
    ELSE [k EXCEPT !.ready = Precharge, !.avail = Never, !.state = "CMD_WAIT"]
\* Activate, column access or precharge, as the open row asks for
Command(k) ==
    IF k.rid = Closed THEN [k EXCEPT !.rid = k.cur.row, !.ready = Activate, !.avail = Never, !.state = "CMD_WAIT"]
    ELSE IF k.rid = k.cur.row THEN [k EXCEPT !.ready = Column, !.avail = Column, !.state = "DATA"]
    ELSE [k EXCEPT !.rid = Closed, !.ready = Precharge, !.avail = Never, !.state = "CMD_WAIT"]

\* Each channel gives one command, to the bank that waits longest.
channel_schedule_cmd ==
    /\ stage = "cmd" /\ stage' = "data"
    /\ LET waiting(c) == {b \in BanksOf(c) : bank[b].state = "CMD"}
           chosen == {Oldest(waiting(c)) : c \in {d \in Channels : waiting(d) # {}}}
       IN bank' = [b \in Banks |-> IF b \in chosen THEN Command(bank[b]) ELSE bank[b]]
    /\ UNCHANGED <<bus, total, completed, starve, tmp, out, head, pending, order, sent, freed, knob>>

avail_data_bus(c) == bus[c].ready = 0
DataReady(c) == {b \in BanksOf(c) : bank[b].state = "DATA" /\ bank[b].avail = 0}

\* acquire_data_bus: the cycles a transfer takes, and the bytes of the bus left
\* over in the last of them
acquire_data_bus(bytes, size) ==
    IF size < bytes THEN [bytes |-> bytes - size, ready |-> 0]
    ELSE [bytes |-> BusWidth - ((size - bytes) % BusWidth), ready |-> (size - bytes) \div BusWidth + 1]

\* One turn of the while loop of channel_schedule_data
dataOne(c) ==
    /\ stage = "data"
    /\ avail_data_bus(c) /\ DataReady(c) # {}
    /\ LET b == Oldest(DataReady(c))
           t == acquire_data_bus(bus[c].bytes, bank[b].cur.size)
       IN /\ bus' = [bus EXCEPT ![c] = t]
          /\ bank' = [bank EXCEPT ![b].data = t.ready, ![b].avail = Never, ![b].state = "DATA_WAIT"]
    /\ UNCHANGED <<total, completed, starve, tmp, out, head, pending, order, sent, freed, knob, stage>>

dataEnds ==
    /\ stage = "data" /\ stage' = "complete"
    /\ \A c \in Channels : ~(avail_data_bus(c) /\ DataReady(c) # {})
    /\ completed' = FALSE
    /\ UNCHANGED <<bank, bus, total, starve, tmp, out, head, pending, order, sent, freed, knob>>
-----------------------------------------------------------------------------
(* bank_schedule *)

Due == {b \in Banks : bank[b].cur # NoReq /\ bank[b].data = 0}
IsWB(r) == r.type = "WB"

\* Faulty: m_data_ready keeps its value.
VacatedStale(k, merged) ==
    [k EXCEPT !.free = @ + Len(merged) + 1, !.buffer = SelectSeq(@, LAMBDA r : r \notin ToSet(merged)),
              !.cur = NoReq, !.state = "INIT"]
\* The bank after its current request and those merged with it are done
Vacated(k, merged) ==
    [k EXCEPT !.free = @ + Len(merged) + 1, !.buffer = SelectSeq(@, LAMBDA r : r \notin ToSet(merged)),
              !.cur = NoReq, !.state = "INIT", !.data = Never]

\* Faulty: merged requests stay in m_total_req.
TotalAfterCurrent(merged) == total - 1
TotalAfter(merged) == total - Len(merged) - 1

\* The turn of bank_schedule_complete for a bank whose data has arrived: the
\* requests of the buffer for the same address are done with the current one.
completeOne ==
    /\ stage = "complete" /\ Due # {}
    /\ LET b == Min(Due)
           cur == bank[b].cur
           merged == IF knob.merge THEN SelectSeq(bank[b].buffer, LAMBDA r : r.addr = cur.addr) ELSE <<>>
           done == Append(merged, cur)
           answers == SelectSeq(done, LAMBDA r : ~IsWB(r))
       IN /\ bank' = [bank EXCEPT ![b] = Vacated(@, merged)]
          /\ freed' = freed \union {r \in ToSet(done) : IsWB(r)}
          /\ IF AdditionalLatency > 0
             THEN tmp' = tmp \o [i \in DOMAIN answers |-> [req |-> answers[i], left |-> AdditionalLatency]]
                  /\ out' = out
             ELSE out' = out \o answers /\ tmp' = tmp
          /\ total' = TotalAfter(merged)
    /\ completed' = TRUE
    /\ UNCHANGED <<bus, starve, head, pending, order, sent, knob, stage>>

ArrivedBefore(r, q) ==
    \E i, j \in DOMAIN order : i < j /\ order[i] = r /\ order[j] = q

\* Faulty: of two rows alike, the younger request first.
PrecedesYounger(r, q, row) ==
    IF (r.type = "DPRF") # (q.type = "DPRF") THEN q.type = "DPRF"
    ELSE IF (r.row = row) # (q.row = row) THEN r.row = row
    ELSE ArrivedBefore(q, r)
\* sort_func of FR-FCFS: prefetches last, row hits first, then by age (for rows
\* that fit an int, to which current_rid is narrowed)
Precedes(r, q, row) ==
    IF (r.type = "DPRF") # (q.type = "DPRF") THEN q.type = "DPRF"
    ELSE IF (r.row = row) # (q.row = row) THEN r.row = row
    ELSE ArrivedBefore(r, q)

\* schedule: the buffer in the order of the policy, whose first is selected
Sorted(k) == IF knob.frfcfs THEN SortSeq(k.buffer, LAMBDA r, q : Precedes(r, q, k.rid)) ELSE k.buffer

Selects(b) == bank[b].cur = NoReq /\ bank[b].buffer # <<>>
Resumes(b) == bank[b].cur # NoReq /\ bank[b].ready = 0 /\ bank[b].state = "CMD_WAIT"
Touched == {b \in Banks : Selects(b) \/ Resumes(b)}

\* The banks in the order of m_bank_timestamp once those touched have the newest
Stamp(b) ==
    LET others == {bank[o].stamp : o \in Banks \ Touched}
    IN IF b \in Touched THEN Cardinality(others)
       ELSE Cardinality({s \in others : s < bank[b].stamp})

bank_schedule_new ==
    /\ stage = "complete" /\ Due = {} /\ stage' = "receive"
    /\ bank' = [b \in Banks |->
          CASE Selects(b) -> [bank[b] EXCEPT !.cur = Sorted(bank[b])[1], !.state = "CMD", !.ready = Never,
                                             !.buffer = Tail(Sorted(bank[b])), !.stamp = Stamp(b)]
            [] Resumes(b) -> [bank[b] EXCEPT !.state = "CMD", !.ready = Never, !.stamp = Stamp(b)]
            [] OTHER -> [bank[b] EXCEPT !.stamp = Stamp(b)]]
    /\ UNCHANGED <<bus, total, completed, starve, tmp, out, head, pending, order, sent, freed, knob>>
-----------------------------------------------------------------------------
(* receive, progress_check and the end of the cycle *)

Countdown(n) == IF n > 0 THEN n - 1 ELSE n
Later(k) == [k EXCEPT !.ready = Countdown(@), !.avail = Countdown(@), !.data = Countdown(@)]
TimePasses(banks) ==
    /\ bank' = [b \in Banks |-> Later(banks[b])]
    /\ bus' = [c \in Channels |-> [bus[c] EXCEPT !.ready = Countdown(@)]]
    /\ tmp' = [i \in DOMAIN tmp |-> [tmp[i] EXCEPT !.left = Countdown(@)]]
    /\ stage' = "send"

progress_check(t) == starve' = IF t > 0 /\ ~completed THEN starve + 1 ELSE 0

\* What receive finds in front of m_req_buffer: the packet that was not taken, and
\* so not popped, last time, or the next one of any source
Offered == IF head # NoReq THEN {head}
           ELSE {Head(pending[i]) : i \in {n \in DOMAIN pending : pending[n] # <<>>}}

\* flush_prefetch when the free list of the bank is empty
Prefetches(k) == SelectSeq(k.buffer, LAMBDA r : r.type = "DPRF")
Flushed(k) == IF k.free > 0 THEN <<>> ELSE Prefetches(k)

\* Faulty: a packet that finds no entry is popped all the same.
TakenAlways(k) == TRUE
\* insert_new_req finds an entry.
Taken(k) == k.free + Len(Flushed(k)) > 0

receive(r) ==
    /\ stage = "receive" /\ r \in Offered
    /\ LET b == r.bank
           k == bank[b]
           gone == ToSet(Flushed(k))
           kept == [k EXCEPT !.free = @ + Len(Flushed(k)), !.buffer = SelectSeq(@, LAMBDA q : q \notin gone)]
           in == kept.free > 0
           left == total - Len(Flushed(k))
       IN /\ TimePasses([bank EXCEPT ![b] =
                IF in THEN [kept EXCEPT !.free = @ - 1, !.buffer = Append(@, r)] ELSE kept])
          /\ freed' = freed \union gone
          /\ total' = IF in THEN left + 1 ELSE left
          /\ order' = IF in THEN Append(order, r) ELSE order
          /\ head' = IF Taken(k) THEN NoReq ELSE r
          /\ progress_check(total')
    /\ pending' = [i \in DOMAIN pending |-> SelectSeq(pending[i], LAMBDA q : q # r)]
    /\ UNCHANGED <<completed, out, sent, knob>>

\* The network has nothing for this controller.
receiveNothing ==
    /\ stage = "receive" /\ head = NoReq
    /\ TimePasses(bank)
    /\ progress_check(total)
    /\ UNCHANGED <<total, completed, out, head, pending, order, sent, freed, knob>>

\* While the clock generator is locked, a cycle only passes.
lockedCycle ==
    /\ stage = "send"
    /\ TimePasses(bank)
    /\ UNCHANGED <<total, completed, starve, out, head, pending, order, sent, freed, knob>>
-----------------------------------------------------------------------------
Next ==
    \/ \E k, j \in 0 .. Len(out) : send(k, j)
    \/ channel_schedule_cmd
    \/ \E c \in Channels : dataOne(c)
    \/ dataEnds \/ completeOne \/ bank_schedule_new
    \/ \E r \in Reqs : receive(r)
    \/ receiveNothing \/ lockedCycle

\* The clock is not locked for ever, the network takes the first answer sooner
\* or later, and what it has for the controller arrives.
Spec ==
    /\ Init /\ [][Next]_vars
    /\ WF_vars(Next)
    /\ SF_vars(\E k, j \in 0 .. Len(out) : (out # <<>> => k > 0) /\ send(k, j))
    /\ SF_vars(\E r \in Reqs : receive(r))
-----------------------------------------------------------------------------
(* Properties *)

InDrb(b) == ToSet(bank[b].buffer) \union ({bank[b].cur} \ {NoReq})
Answers == ToSet(out) \union {tmp[i].req : i \in DOMAIN tmp}

\* The entries of a bank's DRB are free, buffered or current, m_total_req counts
\* the last two of all banks, and a request received is in one DRB, on its way
\* back, answered or freed, and in one of these only: nothing is lost or done
\* twice, whether it is merged, flushed, or refused and offered again.
RequestsAccounted ==
    /\ \A b \in Banks : bank[b].free + Cardinality(InDrb(b)) = BufferSize
    /\ total = FoldSet(LAMBDA b, n : n + Cardinality(InDrb(b)), 0, Banks)
    /\ LET places == <<sent, freed, Answers>> \o [b \in 1 .. NumBanks |-> InDrb(b - 1)]
       IN /\ \A i, j \in DOMAIN places : i # j => places[i] \intersect places[j] = {}
          /\ UNION ToSet(places) = ToSet(order)
          /\ Reqs = UNION {ToSet(pending[i]) : i \in DOMAIN pending}
                      \union ToSet(order) \union ({head} \ {NoReq})

\* The timers of a bank agree with its state.  Data can only arrive for a
\* request that waits for it, as bank_schedule_complete asserts; a column is
\* read from the row of the current request only; and a bank that waits for a
\* command to finish has the time set at which it goes on.
BankProtocol ==
    \A b \in Banks :
        /\ bank[b].data # Never <=> bank[b].state = "DATA_WAIT"
        /\ bank[b].avail # Never <=> bank[b].state = "DATA"
        /\ bank[b].state \in {"DATA", "DATA_WAIT"} => bank[b].rid = bank[b].cur.row
        /\ bank[b].state = "CMD_WAIT" => bank[b].ready # Never
        /\ bank[b].cur = NoReq <=> bank[b].state = "INIT"

\* A read is answered only after every write back to its address that was
\* received before it, with and without merging and under both policies:
\* sorting by row hits and age may not let it overtake.
WritesBeforeReads ==
    \A i, j \in DOMAIN order :
        i < j /\ order[i].addr = order[j].addr /\ IsWB(order[i]) /\ order[j] \in Answers \union sent
            => order[i] \in freed

\* The longest time without a completion: a precharge, an activation, a column
\* access, each command possibly behind one of every other bank of the channel,
\* and the longest transfer.
StarvationBound ==
    4 + Precharge + Activate + Column + 3 * (NumBanks \div NumChannels - 1)
      + (Max({r.size : r \in Reqs}) - 1) \div BusWidth + 1

\* progress_check gives up when nothing has completed for 5000 cycles although
\* there are requests; the count stays within what the latencies explain.
ProgressWithinBound == starve <= StarvationBound

\* Every request is served in the end: a write back is freed, a prefetch is
\* answered or flushed, and anything else is answered, although packets are
\* refused by full buffers, answers by the network, and cycles are lost.
AllServed == <>(sent \union freed = Reqs /\ \A r \in freed : r.type # "DEMAND")
=============================================================================
