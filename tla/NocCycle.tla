------------------------------ MODULE NocCycle ------------------------------
(***************************************************************************)
(* The routers of Noc in the order in which the program runs them.  A few  *)
(* packets are sent with the steps of Router in any order; a crowd of      *)
(* packets follows run_a_cycle, which is one of these orders: the routers  *)
(* one after the other, another one first in each cycle, and in each the   *)
(* stages, their ports and their virtual channels in turn.  Arbitration    *)
(* stays an arbitrary choice and latencies are left out, as in Router.     *)
(***************************************************************************)
EXTENDS Noc, SequencesExt

CONSTANT Crowds     \* the workloads that follow run_a_cycle

ASSUME CrowdsAssumption ==
    Crowds \subseteq Workloads /\ \A w \in Crowds : \A j, k \in w : Src[j][1] = Src[k][1]

VARIABLE turn       \* <<net, n>>: n steps of Steps[net] are over; or Free

Free == <<"free", 0>>

PortOrder == <<"LOCAL", "LEFT", "RIGHT", "UP", "DOWN">>

\* router_c::run_a_cycle as <<router, stage, port, vc>>: the loops of the stages
\* over output ports and channels, unrolled.  The senders come first.
RouterSteps(r) ==
    LET ports == SelectSeq(PortOrder, LAMBDA p : <<r, p, 0>> \in Channels)
        Once(stage) == <<<<r, stage, LocalPort, 0>>>>
        Each(stage) == [i \in 1 .. Len(ports) |-> <<r, stage, ports[i], 0>>]
        vca == [i \in 1 .. Len(ports) * NumVC |->
                  <<r, "vca", ports[((i - 1) \div NumVC) + 1], (i - 1) % NumVC>>]
    IN Once("send") \o Once("credit") \o Each("lt") \o Each("sa_st") \o Once("rc")
         \o vca \o Once("injection")

NumRouters(net) == Cardinality({r \in NocRouters : r[1] = net})

\* run_a_cycle of the ring and of the mesh for as many cycles as there are
\* routers: in each, the first to run is CYCLE % m_num_router.
Steps ==
    [net \in {"ring", "mesh"} |->
        LET N == NumRouters(net) IN
        FlattenSeq([i \in 1 .. N * N |->
            RouterSteps(<<net, (((i - 1) \div N) + i - 1) % N>>)])]

\* One round of the loop of a stage; packets are sent in the order of Packets.
Do(step) ==
    LET r == step[1]
        p == step[3]
    IN CASE step[2] = "send" ->
              \E k \in unsent : /\ Src[k] = r /\ \A j \in unsent : Src[j] = r => k <= j
                                /\ inject_packet(k)
         [] step[2] = "credit" -> \E c \in ChannelsOf[r] : process_pending_credit(c)
         [] step[2] = "lt" -> \E v \in VCs : stage_lt(<<r, p, v>>)
         [] step[2] = "sa_st" ->
              \E c \in ChannelsOf[r] : outChannel[c] \in {p} \X VCs /\ stage_sa_st(c)
         [] step[2] = "rc" -> \E c \in ChannelsOf[r] : stage_rc(c)
         [] step[2] = "vca" -> stage_vca(r, <<p, step[4]>>)
         [] step[2] = "injection" -> local_packet_injection(r)

\* lt, sa_st and vca act once in a cycle for a port or a channel, the other loops
\* go on as long as they find something to do.
OncePerCycle == {"lt", "sa_st", "vca"}

\* The next step that has something to do; it comes round within two cycles.
run_a_cycle ==
    LET steps == Steps[turn[1]]
        At(d) == (turn[2] + d) % Len(steps)
        ahead == (2 * Len(steps)) \div NumRouters(turn[1])
        first[d \in 0 .. ahead] ==
            IF d = ahead \/ ENABLED Do(steps[At(d) + 1]) THEN d ELSE first[d + 1]
        next == first[0]
        step == steps[At(next) + 1]
    IN /\ next < ahead
       /\ Do(step)
       /\ turn' = <<turn[1], At(next + IF step[2] \in OncePerCycle THEN 1 ELSE 0)>>

NocInit ==
    /\ Init
    /\ turn = IF unsent \in Crowds THEN <<Src[CHOOSE k \in unsent : TRUE][1], 0>> ELSE Free

NocNext ==
    \/ turn = Free /\ Next /\ UNCHANGED turn
    \/ turn # Free /\ run_a_cycle

\* The fairness of FairSpec.
NocSpec == NocInit /\ [][NocNext]_<<vars, turn>> /\ WF_vars(Next)
=============================================================================
