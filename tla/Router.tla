------------------------------- MODULE Router -------------------------------
(***************************************************************************)
(* The wormhole routers of network.cc: virtual channels, credits and the   *)
(* pipeline stages of router_c, for any topology.  The topology is three   *)
(* operators: Link, Opposite and MayUse (stage_rc together with the        *)
(* filter of stage_vca_pick_winner).                                       *)
(*                                                                         *)
(* Every loop iteration of a stage is an action of its own and the actions *)
(* of all routers interleave freely; run_a_cycle is one such interleaving. *)
(* Oldest-first arbitration becomes an arbitrary choice and the cycle      *)
(* counters that only delay a stage are left out.  stage_sa and stage_st   *)
(* are one action: a flit that wins the switch is moved by the stage_st    *)
(* call that directly follows.                                             *)
(***************************************************************************)
EXTENDS Integers, Sequences, FiniteSets

CONSTANTS
    Routers,
    Ports,              \* LOCAL and the directions
    NumVC,              \* KNOB_NUM_VC
    BufferMax,          \* m_buffer_max_size, also the initial credit (10)
    InjectionMax,       \* m_injection_buffer_max_size (32)
    Packets,
    Workloads,          \* the sets of packets that may be sent
    Src, Dst,           \* the routers of a packet's source and destination
    NumFlit,            \* flits of a packet: 1 + m_size / m_link_width
    Link(_, _),         \* m_link: the router at the end of a port's link
    Opposite(_),        \* m_opposite_dir
    MayUse(_, _, _, _), \* may this packet, at this router, take this port and vc
    NoChannel

LocalPort == "LOCAL"
VCs == 0 .. NumVC - 1

\* The channels of the local ports and of the ports that have a link.
Channels ==
    {c \in Routers \X Ports \X VCs : c[2] = LocalPort \/ Link(c[1], c[2]) \in Routers}

\* The channels of each router.
ChannelsOf == [r \in Routers |-> {c \in Channels : c[1] = r}]

ASSUME SizesAssumption ==
    /\ NumVC \in Nat \ {0} /\ BufferMax \in Nat /\ InjectionMax \in Nat
    /\ LocalPort \in Ports
    /\ Src \in [Packets -> Routers] /\ Dst \in [Packets -> Routers]
    /\ NumFlit \in [Packets -> Nat \ {0}]
    /\ NoChannel \notin Ports \X VCs
    /\ Workloads \subseteq SUBSET Packets

\* Links go both ways, a route only uses links that are there, and a packet
\* leaves the network where it is going.
ASSUME LinksAssumption ==
    \A r \in Routers, p \in Ports :
        /\ Opposite(p) \in Ports /\ Opposite(Opposite(p)) = p
        /\ Opposite(p) = LocalPort <=> p = LocalPort
        /\ Link(r, p) \in Routers => Link(Link(r, p), Opposite(p)) = r
        /\ \A k \in Packets, v \in VCs :
             MayUse(r, k, p, v) =>
                IF p = LocalPort THEN Dst[k] = r ELSE Link(r, p) \in Routers

VARIABLES
    unsent,     \* packets whose sender has not called send yet
    injection,  \* m_injection_buffer
    inBuf,      \* m_input_buffer
    outBuf,     \* m_output_buffer
    routed,     \* whether the flit in front of an input buffer is in state RC
    outChannel, \* m_output_port_id and m_output_vc_id, set with m_route_fixed
    vcAvail,    \* m_output_vc_avail
    credit,     \* m_credit
    pending,    \* credits in m_pending_credit, by the channel they are for
    ejected     \* m_req_buffer: the packets handed to the receiver

vars == <<unsent, injection, inBuf, outBuf, routed, outChannel, vcAvail,
          credit, pending, ejected>>

Flit == [pkt : Packets, id : Nat]
IsHead(f) == f.id = 0
IsTail(f) == f.id = NumFlit[f.pkt] - 1

-----------------------------------------------------------------------------

Init ==
    /\ unsent \in Workloads
    /\ injection = [r \in Routers |-> <<>>]
    /\ inBuf = [c \in Channels |-> <<>>]
    /\ outBuf = [c \in Channels |-> <<>>]
    /\ routed = [c \in Channels |-> FALSE]
    /\ outChannel = [c \in Channels |-> NoChannel]
    /\ vcAvail = [c \in Channels |-> TRUE]
    /\ credit = [c \in Channels |-> BufferMax]
    /\ pending = [c \in Channels |-> 0]
    /\ ejected = [r \in Routers |-> <<>>]

\* network_c::send: refused when the injection buffer is full.
inject_packet(k) ==
    /\ k \in unsent
    /\ Len(injection[Src[k]]) < InjectionMax
    /\ unsent' = unsent \ {k}
    /\ injection' = [injection EXCEPT ![Src[k]] = Append(@, k)]
    /\ UNCHANGED <<inBuf, outBuf, routed, outChannel, vcAvail, credit, pending, ejected>>

PacketFlits(k) == [i \in 1 .. NumFlit[k] |-> [pkt |-> k, id |-> i - 1]]

\* The virtual channels of the local port with room for all flits of k.
RoomFor(r, k) ==
    {v \in VCs : Len(inBuf[<<r, LocalPort, v>>]) + NumFlit[k] <= BufferMax}

\* One round of the loop: the packet in front goes to the first such channel.
\* (The GPU_VALIDATION build may begin the search at another channel.)
local_packet_injection(r) ==
    /\ injection[r] # <<>>
    /\ LET k == Head(injection[r]) IN
       \E v \in RoomFor(r, k) :
        /\ \A w \in RoomFor(r, k) : v <= w
        /\ inBuf' = [inBuf EXCEPT ![<<r, LocalPort, v>>] = @ \o PacketFlits(k)]
    /\ injection' = [injection EXCEPT ![r] = Tail(@)]
    /\ UNCHANGED <<unsent, outBuf, routed, outChannel, vcAvail, credit, pending, ejected>>

\* The head flit in front of an input buffer gets its route.  The mesh does not
\* test m_route_fixed; a head in front that has a channel is routed already.
stage_rc(c) ==
    /\ outChannel[c] = NoChannel
    /\ inBuf[c] # <<>> /\ IsHead(Head(inBuf[c])) /\ ~routed[c]
    /\ routed' = [routed EXCEPT ![c] = TRUE]
    /\ UNCHANGED <<unsent, injection, inBuf, outBuf, outChannel, vcAvail, credit,
                   pending, ejected>>

\* The input channels of router r whose head may be given the output channel o.
\* A flit never leaves by the port it came in.
Requesters(r, o) ==
    {c \in ChannelsOf[r] :
        /\ c[2] # o[1]
        /\ inBuf[c] # <<>> /\ IsHead(Head(inBuf[c]))
        /\ routed[c] /\ outChannel[c] = NoChannel
        /\ MayUse(r, Head(inBuf[c]).pkt, o[1], o[2])}

\* A faulty allocator that forgets to take the output channel.
AllocateShared(r, o, c) ==
    /\ outChannel' = [outChannel EXCEPT ![c] = o]
    /\ UNCHANGED vcAvail

\* An output channel that is free is given to the requester that wins.
Allocate(r, o, c) ==
    /\ outChannel' = [outChannel EXCEPT ![c] = o]
    /\ vcAvail' = [vcAvail EXCEPT ![<<r, o[1], o[2]>>] = FALSE]

stage_vca(r, o) ==
    /\ vcAvail[<<r, o[1], o[2]>>]
    /\ \E c \in Requesters(r, o) : Allocate(r, o, c)
    /\ UNCHANGED <<unsent, injection, inBuf, outBuf, routed, credit, pending, ejected>>

\* The channel of the neighbour that feeds, or is fed by, channel c.
Peer(c) == <<Link(c[1], c[2]), Opposite(c[2]), c[3]>>

\* Faulty: only the tail of a packet gives a credit back.
CreditForTailOnly(c) ==
    IF c[2] # LocalPort /\ IsTail(Head(inBuf[c]))
    THEN [pending EXCEPT ![Peer(c)] = @ + 1] ELSE pending

\* insert_credit on the upstream router; the local port has none.
insert_credit(c) ==
    IF c[2] # LocalPort THEN [pending EXCEPT ![Peer(c)] = @ + 1] ELSE pending

\* The tail clears m_route_fixed, m_output_port_id and m_output_vc_id.
ChannelAfter(c, f) ==
    IF IsTail(f) THEN [outChannel EXCEPT ![c] = NoChannel] ELSE outChannel

\* stage_sa picks the flit in front of c for its output port, stage_st moves it.
\* There is no check of the room in the output buffer.
stage_sa_st(c) ==
    /\ outChannel[c] # NoChannel
    /\ inBuf[c] # <<>>
    /\ LET f == Head(inBuf[c])
           o == <<c[1], outChannel[c][1], outChannel[c][2]>>
       IN /\ outBuf' = [outBuf EXCEPT ![o] = Append(@, f)]
          /\ outChannel' = ChannelAfter(c, f)
          /\ pending' = insert_credit(c)
    /\ inBuf' = [inBuf EXCEPT ![c] = Tail(@)]
    /\ routed' = [routed EXCEPT ![c] = FALSE]
    /\ UNCHANGED <<unsent, injection, vcAvail, credit, ejected>>

\* Faulty: the output channel is free again once the head has left.
FreedByHead(c, f) == IF IsHead(f) THEN [vcAvail EXCEPT ![c] = TRUE] ELSE vcAvail

\* The output channel is free again once the tail has left.
FreedBy(c, f) == IF IsTail(f) THEN [vcAvail EXCEPT ![c] = TRUE] ELSE vcAvail

\* The tail hands the packet to the receiver.
Eject(c, f) ==
    IF IsTail(f) THEN [ejected EXCEPT ![c[1]] = Append(@, f.pkt)] ELSE ejected

\* The flit in front of an output buffer may take the link.
MayLeave(c) == outBuf[c] # <<>> /\ credit[c] # 0

\* insert_packet on the neighbour, or the ejection at the local port.  A credit
\* is needed in both cases and used up in the first only.
stage_lt(c) ==
    /\ MayLeave(c)
    /\ LET f == Head(outBuf[c]) IN
        /\ vcAvail' = FreedBy(c, f)
        /\ \/ /\ c[2] = LocalPort
              /\ ejected' = Eject(c, f)
              /\ UNCHANGED <<inBuf, credit>>
           \/ /\ c[2] # LocalPort
              /\ inBuf' = [inBuf EXCEPT ![Peer(c)] = Append(@, f)]
              /\ credit' = [credit EXCEPT ![c] = @ - 1]
              /\ UNCHANGED ejected
    /\ outBuf' = [outBuf EXCEPT ![c] = Tail(@)]
    /\ UNCHANGED <<unsent, injection, routed, outChannel, pending>>

process_pending_credit(c) ==
    /\ pending[c] > 0
    /\ pending' = [pending EXCEPT ![c] = @ - 1]
    /\ credit' = [credit EXCEPT ![c] = @ + 1]
    /\ UNCHANGED <<unsent, injection, inBuf, outBuf, routed, outChannel, vcAvail, ejected>>

Next ==
    \/ \E k \in Packets : inject_packet(k)
    \/ \E r \in Routers : local_packet_injection(r)
    \/ \E c \in Channels : stage_rc(c)
    \/ \E c \in Channels : stage_vca(c[1], <<c[2], c[3]>>)
    \/ \E c \in Channels : stage_sa_st(c)
    \/ \E c \in Channels : stage_lt(c)
    \/ \E c \in Channels : process_pending_credit(c)

Spec == Init /\ [][Next]_vars

\* run_a_cycle runs every stage of every router in every network cycle, so
\* some step is taken as long as one can be.  Which one is left open.
FairSpec == Spec /\ WF_vars(Next)

-----------------------------------------------------------------------------

\* The type invariant of the router state.
TypeOK ==
    /\ unsent \subseteq Packets
    /\ injection \in [Routers -> Seq(Packets)]
    /\ inBuf \in [Channels -> Seq(Flit)] /\ outBuf \in [Channels -> Seq(Flit)]
    /\ routed \in [Channels -> BOOLEAN] /\ vcAvail \in [Channels -> BOOLEAN]
    /\ outChannel \in [Channels -> (Ports \X VCs) \cup {NoChannel}]
    /\ credit \in [Channels -> Nat] /\ pending \in [Channels -> Nat]
    /\ ejected \in [Routers -> Seq(Packets)]

\* Credits are conserved: what the sender of a link has, what is on its way back
\* to it and what sits in the buffer it feeds always add up to the buffer size,
\* although stage_lt, stage_st and process_pending_credit of two routers change
\* the three separately.
CreditsConserved ==
    \A c \in Channels :
        c[2] # LocalPort =>
            credit[c] + pending[c] + Len(inBuf[Peer(c)]) = BufferMax

\* No input buffer outgrows m_buffer_max_size, although insert_packet never
\* looks at its length.
InputBuffersBounded == \A c \in Channels : Len(inBuf[c]) <= BufferMax

\* No output buffer outgrows it either, although stage_st never looks at the
\* room: one packet at a time holds the channel, and local_packet_injection let
\* in no packet longer than a buffer.
BuffersBounded == InputBuffersBounded /\ \A c \in Channels : Len(outBuf[c]) <= BufferMax

Contiguous(buf) ==
    \A i \in 1 .. Len(buf) - 1 :
        IF IsTail(buf[i]) THEN IsHead(buf[i + 1])
        ELSE buf[i + 1] = [buf[i] EXCEPT !.id = @ + 1]

Holding(k, buf) == \E i \in 1 .. Len(buf) : buf[i].pkt = k

InNetwork(k) == \E c \in Channels : Holding(k, inBuf[c]) \/ Holding(k, outBuf[c])

\* The flits of two packets never mix in a virtual channel: behind a flit comes
\* the next one of its packet, behind a tail a head.  stage_sa_pick_winner and
\* stage_lt rely on it, body flits carry no route.  And a packet is handed to its
\* receiver at its destination, once, with no flit of it left in the network.
PacketsStayWhole ==
    /\ \A c \in Channels : Contiguous(inBuf[c]) /\ Contiguous(outBuf[c])
    /\ \A r \in Routers : \A i \in 1 .. Len(ejected[r]) :
          LET k == ejected[r][i] IN
          /\ Dst[k] = r /\ ~InNetwork(k)
          /\ \A j \in 1 .. Len(ejected[r]) : ejected[r][j] = k => i = j

\* The output channels of the virtual channels E that packet k is in or behind.
Held(k, E) ==
    {c \in Channels :
        /\ c[2] # LocalPort /\ c[3] \in E
        /\ Holding(k, outBuf[c]) \/ Holding(k, inBuf[Peer(c)])}

\* The input channels where the head in front waits for an output channel.
Waiting ==
    {c \in Channels :
        inBuf[c] # <<>> /\ IsHead(Head(inBuf[c])) /\ outChannel[c] = NoChannel}

\* The output channels of E that packet k, at router r, asks for.
Wanted(r, k, E) ==
    {o \in {r} \X (Ports \ {LocalPort}) \X E : MayUse(r, k, o[2], o[3])}

Arrived(k) == \E i \in 1 .. Len(ejected[Dst[k]]) : ejected[Dst[k]][i] = k

\* All packets that are sent arrive, also when the buffers all round the ring
\* are full of packets on their way to a router further on.  The tests marked as
\* DUATO's deadlock prevention protocol let some packet go on then.
PacketsArrive == <>(\E w \in Workloads : \A k \in w : Arrived(k))
=============================================================================
