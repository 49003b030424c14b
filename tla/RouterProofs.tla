---------------------------- MODULE RouterProofs ----------------------------
(***************************************************************************)
(* The routers, for every topology whose links go both ways, every number  *)
(* of virtual channels, every buffer size and every set of packets:        *)
(* credits are conserved, no buffer overflows, and packets travel and      *)
(* arrive whole.                                                           *)
(***************************************************************************)
EXTENDS Router, SequenceTheorems, TLAPS

Linked(c) == c[2] # LocalPort /\ Link(c[1], c[2]) \in Routers

\* The local port is filled by local_packet_injection alone.
LocalBounded == \A c \in Channels : c[2] = LocalPort => Len(inBuf[c]) <= BufferMax

IInv == TypeOK /\ CreditsConserved /\ LocalBounded

-----------------------------------------------------------------------------

\* A channel is the triple of its components.
LEMMA ChannelParts ==
    ASSUME NEW c \in Channels
    PROVE  /\ c[1] \in Routers /\ c[2] \in Ports /\ c[3] \in VCs
           /\ c = <<c[1], c[2], c[3]>>
           /\ c[2] # LocalPort => Linked(c)
  BY DEF Channels, Linked

\* The far end of a link is a channel whose far end is this one.
LEMMA PeerIsMutual ==
    ASSUME NEW c \in Channels, Linked(c)
    PROVE  Peer(c) \in Channels /\ Linked(Peer(c)) /\ Peer(Peer(c)) = c
<1>1. c[1] \in Routers /\ c[2] \in Ports /\ c[3] \in VCs /\ c = <<c[1], c[2], c[3]>>
  BY ChannelParts
<1> DEFINE r == Link(c[1], c[2])
           p == Opposite(c[2])
<1>2. r \in Routers /\ c[2] # LocalPort
  BY DEF Linked
<1>3. p \in Ports /\ p # LocalPort /\ Opposite(p) = c[2] /\ Link(r, p) = c[1]
  BY <1>1, <1>2, LinksAssumption
<1> HIDE DEF r, p
<1>4. Peer(c) = <<r, p, c[3]>>
  BY DEF Peer, r, p
<1>5. Peer(c) \in Channels
  <2>1. Peer(c) \in Routers \X Ports \X VCs
    BY <1>1, <1>2, <1>3, <1>4
  <2>2. Link(Peer(c)[1], Peer(c)[2]) \in Routers
    BY <1>1, <1>3, <1>4
  <2> QED
    BY <2>1, <2>2 DEF Channels
<1>6. Linked(Peer(c))
  BY <1>1, <1>3, <1>4 DEF Linked
<1>7. Peer(Peer(c)) = <<c[1], c[2], c[3]>>
  BY <1>3, <1>4 DEF Peer
<1> QED
  BY <1>1, <1>5, <1>6, <1>7

\* An update with a value of the range keeps the range.
LEMMA Updated ==
    ASSUME NEW D, NEW S, NEW f \in [D -> S], NEW d, NEW y, d \in D => y \in S
    PROVE  [f EXCEPT ![d] = y] \in [D -> S]
  BY Zenon

\* The flits of a packet are a sequence as long as NumFlit says.
LEMMA FlitsOfPacket ==
    ASSUME NEW k \in Packets
    PROVE  PacketFlits(k) \in Seq(Flit) /\ Len(PacketFlits(k)) = NumFlit[k]
<1>1. NumFlit[k] \in Nat
  BY SizesAssumption
<1>2. \A i \in 1 .. NumFlit[k] : [pkt |-> k, id |-> i - 1] \in Flit
  BY <1>1 DEF Flit
<1>3. PacketFlits(k) \in [1 .. NumFlit[k] -> Flit]
  BY <1>2 DEF PacketFlits
<1> QED
  BY <1>1, <1>3

\* The initial state has all credits at home.
LEMMA InitHolds == Init => IInv
<1> SUFFICES ASSUME Init PROVE IInv
  OBVIOUS
<1> USE SizesAssumption
<1>1. TypeOK
  BY DEF Init, TypeOK
<1>3. CreditsConserved
  <2> SUFFICES ASSUME NEW c \in Channels, Linked(c)
               PROVE  credit[c] + pending[c] + Len(inBuf[Peer(c)]) = BufferMax
    BY ChannelParts DEF CreditsConserved
  <2>1. Peer(c) \in Channels
    BY PeerIsMutual
  <2> QED
    BY <2>1 DEF Init
<1>4. LocalBounded
  BY DEF Init, LocalBounded
<1> QED
  BY <1>1, <1>3, <1>4 DEF IInv

\* Every stage keeps the types.
LEMMA TypesHold == TypeOK /\ [Next]_vars => TypeOK'
<1> SUFFICES ASSUME TypeOK, [Next]_vars PROVE TypeOK'
  OBVIOUS
<1> USE SizesAssumption
<1>1. ASSUME NEW k \in Packets, inject_packet(k) PROVE TypeOK'
  BY <1>1 DEF TypeOK, inject_packet
<1>2. ASSUME NEW r \in Routers, local_packet_injection(r) PROVE TypeOK'
  <2> DEFINE k == Head(injection[r])
  <2>1. k \in Packets
    BY <1>2 DEF TypeOK, local_packet_injection
  <2>2. PICK v \in VCs : inBuf' = [inBuf EXCEPT ![<<r, LocalPort, v>>] = @ \o PacketFlits(k)]
    BY <1>2, Zenon DEF local_packet_injection, RoomFor
  <2> HIDE DEF k
  <2>3. PacketFlits(k) \in Seq(Flit)
    BY <2>1, FlitsOfPacket
  <2>6. \A c \in Channels : inBuf[c] \o PacketFlits(k) \in Seq(Flit)
    BY <2>3 DEF TypeOK
  <2>4. inBuf' \in [Channels -> Seq(Flit)]
    <3> DEFINE l == <<r, LocalPort, v>>
               y == inBuf[l] \o PacketFlits(k)
    <3>1. inBuf' = [inBuf EXCEPT ![l] = y] /\ (l \in Channels => y \in Seq(Flit))
      BY <2>2, <2>6
    <3> HIDE DEF l, y
    <3> QED
      BY <3>1, Updated DEF TypeOK
  <2>5. injection' \in [Routers -> Seq(Packets)]
    BY <1>2 DEF TypeOK, local_packet_injection
  <2> QED
    BY <1>2, <2>4, <2>5, Zenon DEF TypeOK, local_packet_injection
<1>3. ASSUME NEW c \in Channels, stage_rc(c) PROVE TypeOK'
  BY <1>3 DEF TypeOK, stage_rc
<1>4. ASSUME NEW q \in Channels, stage_vca(q[1], <<q[2], q[3]>>) PROVE TypeOK'
  <2> DEFINE o == <<q[2], q[3]>>
  <2>4. o \in Ports \X VCs
    BY ChannelParts
  <2>1. PICK c : /\ outChannel' = [outChannel EXCEPT ![c] = o]
                 /\ vcAvail' = [vcAvail EXCEPT ![<<q[1], o[1], o[2]>>] = FALSE]
    BY <1>4, Zenon DEF stage_vca, Allocate
  <2> HIDE DEF o
  <2>2. outChannel' \in [Channels -> (Ports \X VCs) \cup {NoChannel}]
    BY <2>1, <2>4, Updated DEF TypeOK
  <2>3. vcAvail' \in [Channels -> BOOLEAN]
    BY <2>1, Updated, Zenon DEF TypeOK
  <2> QED
    BY <1>4, <2>2, <2>3, Zenon DEF TypeOK, stage_vca
<1>5. ASSUME NEW c \in Channels, stage_sa_st(c) PROVE TypeOK'
  <2>1. inBuf[c] \in Seq(Flit) /\ inBuf[c] # <<>>
    BY <1>5 DEF TypeOK, stage_sa_st
  <2>2. Head(inBuf[c]) \in Flit /\ Tail(inBuf[c]) \in Seq(Flit)
    BY <2>1
  <2>3. pending' \in [Channels -> Nat]
    <3>1. \A d \in Channels : pending[d] + 1 \in Nat
      BY DEF TypeOK
    <3> QED
      BY <1>5, <3>1, Updated, Zenon DEF TypeOK, stage_sa_st, insert_credit
  <2>4. outChannel' \in [Channels -> (Ports \X VCs) \cup {NoChannel}]
    BY <1>5 DEF TypeOK, stage_sa_st, ChannelAfter
  <2>5. inBuf' \in [Channels -> Seq(Flit)] /\ routed' \in [Channels -> BOOLEAN]
    BY <1>5, <2>2 DEF TypeOK, stage_sa_st
  <2>6. outBuf' \in [Channels -> Seq(Flit)]
    <3>1. \A d \in Channels : Append(outBuf[d], Head(inBuf[c])) \in Seq(Flit)
      BY <2>2 DEF TypeOK
    <3> QED
      BY <1>5, <3>1, Updated, Zenon DEF TypeOK, stage_sa_st
  <2> QED
    BY <1>5, <2>3, <2>4, <2>5, <2>6, Zenon DEF TypeOK, stage_sa_st
<1>6. ASSUME NEW c \in Channels, stage_lt(c) PROVE TypeOK'
  <2>1. outBuf[c] \in Seq(Flit) /\ outBuf[c] # <<>>
    BY <1>6 DEF TypeOK, stage_lt, MayLeave
  <2>2. Head(outBuf[c]) \in Flit /\ Tail(outBuf[c]) \in Seq(Flit)
    BY <2>1
  <2>3. outBuf' \in [Channels -> Seq(Flit)]
    BY <1>6, <2>2 DEF TypeOK, stage_lt
  <2>4. vcAvail' \in [Channels -> BOOLEAN]
    BY <1>6 DEF TypeOK, stage_lt, FreedBy
  <2>5. ejected' \in [Routers -> Seq(Packets)]
    <3>1. \A r \in Routers : Append(ejected[r], Head(outBuf[c]).pkt) \in Seq(Packets)
      <4>1. Head(outBuf[c]).pkt \in Packets
        BY ONLY <2>2 DEF Flit
      <4>2. \A r \in Routers : ejected[r] \in Seq(Packets)
        BY DEF TypeOK
      <4> QED
        BY ONLY <4>1, <4>2
    <3>2. CASE UNCHANGED ejected
      BY <3>2 DEF TypeOK
    <3>3. CASE ejected' = [ejected EXCEPT ![c[1]] = Append(@, Head(outBuf[c]).pkt)]
      BY <3>1, <3>3, Updated, Zenon DEF TypeOK
    <3> QED
      BY <1>6, <3>2, <3>3 DEF stage_lt, Eject
  <2>6. credit' \in [Channels -> Nat]
    <3>1. credit[c] - 1 \in Nat
      BY <1>6 DEF TypeOK, stage_lt, MayLeave
    <3> QED
      BY <1>6, <3>1, Updated DEF TypeOK, stage_lt
  <2>7. inBuf' \in [Channels -> Seq(Flit)]
    <3>1. \A d \in Channels : Append(inBuf[d], Head(outBuf[c])) \in Seq(Flit)
      BY <2>2 DEF TypeOK
    <3>2. CASE UNCHANGED inBuf
      BY <3>2 DEF TypeOK
    <3>3. CASE inBuf' = [inBuf EXCEPT ![Peer(c)] = Append(@, Head(outBuf[c]))]
      BY <3>1, <3>3, Updated DEF TypeOK
    <3> QED
      BY <1>6, <3>2, <3>3 DEF stage_lt
  <2> QED
    BY <1>6, <2>3, <2>4, <2>5, <2>6, <2>7, Zenon DEF TypeOK, stage_lt
<1>7. ASSUME NEW c \in Channels, process_pending_credit(c) PROVE TypeOK'
  BY <1>7 DEF TypeOK, process_pending_credit
<1>8. CASE UNCHANGED vars
  BY <1>8 DEF TypeOK, vars
<1> QED
  BY <1>1, <1>2, <1>3, <1>4, <1>5, <1>6, <1>7, <1>8, Zenon DEF Next

\* A flit that goes over a link takes a credit with it, one that leaves the
\* buffer sends one back.
LEMMA SumKept ==
    ASSUME NEW a \in Nat, NEW b \in Nat, NEW n \in Nat
    PROVE  /\ (a - 1) + b + (n + 1) = a + b + n
           /\ a + (b + 1) + (n - 1) = a + b + n
  OBVIOUS

\* Every stage keeps the sum of credits, returning credits and buffered flits.
LEMMA CreditsHold == TypeOK /\ CreditsConserved /\ [Next]_vars => CreditsConserved'
<1> SUFFICES ASSUME TypeOK, CreditsConserved, [Next]_vars,
                    NEW d \in Channels, Linked(d)
             PROVE  credit'[d] + pending'[d] + Len(inBuf'[Peer(d)]) = BufferMax
  BY ChannelParts DEF CreditsConserved, Peer
<1> DEFINE e == Peer(d)
<1>1. e \in Channels /\ Linked(e) /\ Peer(e) = d /\ e[2] # LocalPort
  BY PeerIsMutual DEF Linked
<1>2. credit[d] + pending[d] + Len(inBuf[e]) = BufferMax
  BY DEF CreditsConserved, Linked
<1>3. inBuf[e] \in Seq(Flit) /\ credit[d] \in Nat /\ pending[d] \in Nat
  BY <1>1 DEF TypeOK
<1> HIDE DEF e
<1> SUFFICES credit'[d] + pending'[d] + Len(inBuf'[e]) = BufferMax
  BY DEF e
<1>4. CASE UNCHANGED <<inBuf, credit, pending>>
  BY <1>2, <1>4
<1>5. ASSUME NEW r \in Routers, local_packet_injection(r) PROVE inBuf'[e] = inBuf[e]
  <2>1. PICK v \in VCs :
          inBuf' = [inBuf EXCEPT ![<<r, LocalPort, v>>] = @ \o PacketFlits(Head(injection[r]))]
    BY <1>5, Zenon DEF local_packet_injection, RoomFor
  <2> DEFINE l == <<r, LocalPort, v>>
  <2>2. l # e
    BY <1>1
  <2>3. inBuf' = [inBuf EXCEPT ![l] = @ \o PacketFlits(Head(injection[r]))]
    BY <2>1
  <2> HIDE DEF l
  <2> QED
    BY <1>1, <2>2, <2>3, Zenon DEF TypeOK
<1>6. ASSUME NEW c \in Channels, stage_sa_st(c)
      PROVE  credit'[d] + pending'[d] + Len(inBuf'[e]) = BufferMax
  <2>1. inBuf' = [inBuf EXCEPT ![c] = Tail(@)] /\ inBuf[c] # <<>> /\ UNCHANGED credit
    BY <1>6 DEF stage_sa_st
  <2>2. CASE c = e
    <3>1. pending' = [pending EXCEPT ![d] = @ + 1]
      BY <1>1, <1>6, <2>2 DEF stage_sa_st, insert_credit
    <3>2. pending'[d] = pending[d] + 1
      BY <3>1 DEF TypeOK
    <3>3. Len(inBuf'[e]) = Len(inBuf[e]) - 1
      BY <1>1, <1>3, <2>1, <2>2 DEF TypeOK
    <3>4. Len(inBuf[e]) \in Nat /\ credit'[d] = credit[d]
      BY <1>3, <2>1
    <3>5. credit[d] \in Nat /\ pending[d] \in Nat
      BY <1>3
    <3>6. credit[d] + (pending[d] + 1) + (Len(inBuf[e]) - 1)
            = credit[d] + pending[d] + Len(inBuf[e])
      BY ONLY <3>4, <3>5, SumKept, Zenon
    <3> QED
      BY ONLY <1>2, <3>2, <3>3, <3>4, <3>6, Zenon
  <2>3. CASE c # e
    <3>1. c[2] # LocalPort => Peer(c) # d
      <4>1. c[2] # LocalPort => Linked(c)
        BY ChannelParts
      <4> QED
        BY <2>3, <4>1, PeerIsMutual DEF e
    <3>2. pending'[d] = pending[d]
      BY <1>6, <3>1 DEF stage_sa_st, insert_credit, TypeOK
    <3>3. inBuf'[e] = inBuf[e]
      BY <1>1, <2>1, <2>3 DEF TypeOK
    <3> QED
      BY <1>2, <2>1, <3>2, <3>3, Zenon
  <2> QED
    BY <2>2, <2>3
<1>7. ASSUME NEW c \in Channels, stage_lt(c)
      PROVE  credit'[d] + pending'[d] + Len(inBuf'[e]) = BufferMax
  <2>1. UNCHANGED pending /\ outBuf[c] # <<>> /\ credit[c] # 0
    BY <1>7 DEF stage_lt, MayLeave
  <2>2. CASE c[2] = LocalPort
    BY <1>2, <1>7, <2>1, <2>2 DEF stage_lt
  <2>3. CASE c[2] # LocalPort
    <3>1. /\ inBuf' = [inBuf EXCEPT ![Peer(c)] = Append(@, Head(outBuf[c]))]
          /\ credit' = [credit EXCEPT ![c] = @ - 1]
      BY <1>7, <2>3 DEF stage_lt
    <3>2. Linked(c)
      BY <2>3, ChannelParts
    <3>3. CASE c = d
      <4>1. credit'[d] = credit[d] - 1
        BY <3>1, <3>3 DEF TypeOK
      <4>2. Len(inBuf'[e]) = Len(inBuf[e]) + 1
        <5>1. inBuf'[e] = Append(inBuf[e], Head(outBuf[c]))
          BY <1>1, <3>1, <3>3 DEF TypeOK, e
        <5> QED
          BY <1>3, <5>1
      <4>3. Len(inBuf[e]) \in Nat /\ pending'[d] = pending[d]
        BY <1>3, <2>1
      <4>4. (credit[d] - 1) + pending[d] + (Len(inBuf[e]) + 1)
              = credit[d] + pending[d] + Len(inBuf[e])
        BY <1>3, <4>3, SumKept, Zenon
      <4> QED
        BY ONLY <1>2, <4>1, <4>2, <4>3, <4>4
    <3>4. CASE c # d
      <4>1. Peer(c) # e
        BY <1>1, <3>2, <3>4, PeerIsMutual
      <4>2. inBuf'[e] = inBuf[e] /\ credit'[d] = credit[d]
        BY <1>1, <3>1, <3>4, <4>1 DEF TypeOK
      <4> QED
        BY <1>2, <2>1, <4>2
    <3> QED
      BY <3>3, <3>4
  <2> QED
    BY <2>2, <2>3
<1>8. ASSUME NEW c \in Channels, process_pending_credit(c)
      PROVE  credit'[d] + pending'[d] + Len(inBuf'[e]) = BufferMax
  <2>1. /\ pending' = [pending EXCEPT ![c] = @ - 1] /\ credit' = [credit EXCEPT ![c] = @ + 1]
        /\ inBuf'[e] = inBuf[e]
    BY <1>8 DEF process_pending_credit
  <2>2. credit'[d] + pending'[d] = credit[d] + pending[d]
    BY <1>3, <2>1 DEF TypeOK
  <2> QED
    BY <1>2, <2>1, <2>2
<1> QED
  <2>1. CASE \E r \in Routers : local_packet_injection(r)
    BY <1>2, <1>5, <2>1, Zenon DEF local_packet_injection
  <2>2. CASE \/ UNCHANGED vars
             \/ \E k \in Packets : inject_packet(k)
             \/ \E c \in Channels : stage_rc(c)
             \/ \E c \in Channels : stage_vca(c[1], <<c[2], c[3]>>)
    BY <1>4, <2>2, Zenon DEF vars, inject_packet, stage_rc, stage_vca
  <2> QED
    BY <1>6, <1>7, <1>8, <2>1, <2>2, Zenon DEF Next

\* The local port takes a packet only when it fits.
LEMMA LocalHolds == TypeOK /\ LocalBounded /\ [Next]_vars => LocalBounded'
<1> SUFFICES ASSUME TypeOK, LocalBounded, [Next]_vars,
                    NEW d \in Channels, d[2] = LocalPort
             PROVE  Len(inBuf'[d]) <= BufferMax
  BY DEF LocalBounded
<1>1. inBuf[d] \in Seq(Flit) /\ Len(inBuf[d]) <= BufferMax
  BY DEF TypeOK, LocalBounded
<1>2. CASE inBuf'[d] = inBuf[d]
  BY <1>1, <1>2
<1>3. ASSUME NEW r \in Routers, local_packet_injection(r) PROVE Len(inBuf'[d]) <= BufferMax
  <2> DEFINE k == Head(injection[r])
  <2>1. PICK v \in RoomFor(r, k) :
          inBuf' = [inBuf EXCEPT ![<<r, LocalPort, v>>] = @ \o PacketFlits(k)]
    BY <1>3, Zenon DEF local_packet_injection
  <2>2. k \in Packets
    BY <1>3 DEF local_packet_injection, TypeOK
  <2> HIDE DEF k
  <2> DEFINE l == <<r, LocalPort, v>>
  <2>3. Len(inBuf[l]) + NumFlit[k] <= BufferMax
    BY <2>1 DEF RoomFor
  <2>4. inBuf' = [inBuf EXCEPT ![l] = @ \o PacketFlits(k)]
    BY <2>1
  <2> HIDE DEF l
  <2>5. CASE d = l
    <3>1. inBuf'[d] = inBuf[d] \o PacketFlits(k)
      BY <2>4, <2>5, Zenon DEF TypeOK
    <3>2. Len(inBuf'[d]) = Len(inBuf[d]) + NumFlit[k]
      <4> DEFINE a == inBuf[d]
                 b == PacketFlits(k)
      <4>1. a \in Seq(Flit) /\ b \in Seq(Flit) /\ Len(b) = NumFlit[k]
        BY <1>1, <2>2, FlitsOfPacket
      <4> HIDE DEF a, b
      <4>2. Len(a \o b) = Len(a) + Len(b)
        BY <4>1
      <4> QED
        BY <3>1, <4>1, <4>2 DEF a, b
    <3> QED
      BY <2>3, <2>5, <3>2
  <2>6. CASE d # l
    BY <1>2, <2>4, <2>6 DEF TypeOK
  <2> QED
    BY <2>5, <2>6
<1>4. ASSUME NEW c \in Channels, stage_sa_st(c) PROVE Len(inBuf'[d]) <= BufferMax
  <2>1. inBuf' = [inBuf EXCEPT ![c] = Tail(@)] /\ inBuf[c] # <<>>
    BY <1>4 DEF stage_sa_st
  <2>2. CASE c = d
    <3>1. inBuf'[d] = Tail(inBuf[d]) /\ inBuf[d] # <<>>
      BY <2>1, <2>2 DEF TypeOK
    <3> QED
      BY <1>1, <3>1, SizesAssumption
  <2>3. CASE c # d
    BY <1>2, <2>1, <2>3 DEF TypeOK
  <2> QED
    BY <2>2, <2>3, Zenon
<1>5. ASSUME NEW c \in Channels, stage_lt(c) PROVE inBuf'[d] = inBuf[d]
  <2>1. CASE c[2] = LocalPort
    BY <1>5, <2>1 DEF stage_lt
  <2>2. CASE c[2] # LocalPort
    <3>1. inBuf' = [inBuf EXCEPT ![Peer(c)] = Append(@, Head(outBuf[c]))] /\ outBuf[c] # <<>>
      BY <1>5, <2>2 DEF stage_lt, MayLeave
    <3>2. Linked(c)
      BY <2>2, ChannelParts
    <3>3. Peer(c) # d
      BY <3>2, PeerIsMutual DEF Linked
    <3> QED
      BY <3>1, <3>3 DEF TypeOK
  <2> QED
    BY <2>1, <2>2
<1> QED
  <2>1. CASE \/ UNCHANGED vars
             \/ \E k \in Packets : inject_packet(k)
             \/ \E c \in Channels : stage_rc(c)
             \/ \E c \in Channels : stage_vca(c[1], <<c[2], c[3]>>)
             \/ \E c \in Channels : process_pending_credit(c)
    BY <1>2, <2>1, Zenon DEF vars, inject_packet, stage_rc, stage_vca, process_pending_credit
  <2> QED
    BY <1>2, <1>3, <1>4, <1>5, <2>1, Zenon DEF Next

\* The invariant is inductive.
LEMMA StepHolds == IInv /\ [Next]_vars => IInv'
  BY TypesHold, CreditsHold, LocalHolds, Zenon DEF IInv

\* For every topology with links both ways, what a sender believes about the
\* buffer it feeds is exact at any moment: its credit, the credits still on the
\* way from stage_st of the neighbour and the flits in that buffer add up to the
\* buffer size.
THEOREM CreditsAlwaysConserved == Spec => []CreditsConserved
<1>1. IInv => CreditsConserved
  BY DEF IInv
<1> QED
  BY InitHolds, StepHolds, <1>1, PTL DEF Spec

\* The credits bound the buffers.
LEMMA CreditsBound ==
    ASSUME IInv
    PROVE  InputBuffersBounded
<1> SUFFICES ASSUME NEW c \in Channels PROVE Len(inBuf[c]) <= BufferMax
  BY DEF InputBuffersBounded
<1>1. CASE c[2] = LocalPort
  BY <1>1 DEF IInv, LocalBounded
<1>2. CASE inBuf[c] = <<>>
  BY <1>2, SizesAssumption
<1>3. CASE c[2] # LocalPort /\ inBuf[c] # <<>>
  <2>1. Linked(c)
    BY <1>3, ChannelParts
  <2> DEFINE d == Peer(c)
  <2>2. d \in Channels /\ Linked(d) /\ Peer(d) = c
    BY <2>1, PeerIsMutual
  <2>3. credit[d] + pending[d] + Len(inBuf[c]) = BufferMax
    BY <2>2 DEF IInv, CreditsConserved, Linked
  <2>4. credit[d] \in Nat /\ pending[d] \in Nat /\ Len(inBuf[c]) \in Nat
    BY <2>2 DEF IInv, TypeOK
  <2> HIDE DEF d
  <2> QED
    BY <2>3, <2>4, SizesAssumption
<1> QED
  BY <1>1, <1>2, <1>3

\* No input buffer ever holds more than m_buffer_max_size flits, although
\* insert_packet appends without a check.
THEOREM InputBuffersNeverOverflow == Spec => []InputBuffersBounded
  BY InitHolds, StepHolds, CreditsBound, PTL DEF Spec

-----------------------------------------------------------------------------
(* Worms.  The flits of a packet are spread over buffers, with gaps, and    *)
(* body flits say nothing of where they belong.  Two functions gi and go     *)
(* therefore name, for the input and the output buffer of a channel, the     *)
(* flit that must come next; an id of 0 stands for the head of any packet.   *)

NoPacket == CHOOSE k : k \notin Packets
Mark == {m \in [pkt : Packets \cup {NoPacket}, id : Nat] : m.id = 0 \/ m.pkt \in Packets}

\* What follows flit f in a channel.
After(f) == [pkt |-> f.pkt, id |-> IF IsTail(f) THEN 0 ELSE f.id + 1]

\* Flit f may come where e is expected.
Fits(e, f) == IF e.id = 0 THEN f.id = 0 ELSE f = e

\* What leaves next a buffer with content b that expects e.
NextOf(b, e) == IF b = <<>> THEN e ELSE b[1]

\* Whole packets one after the other, but for the first and the last.
Chain(b, e) ==
    /\ \A i \in 1 .. Len(b) - 1 : Fits(After(b[i]), b[i + 1])
    /\ b # <<>> => Fits(After(b[Len(b)]), e)

\* Flits of one packet.
Run(b, e) ==
    /\ \A i \in 1 .. Len(b) : b[i] = [pkt |-> b[1].pkt, id |-> b[1].id + (i - 1)]
    /\ b # <<>> => Fits(After(b[Len(b)]), e)

\* Expectations are passed on.
LEMMA FitsOn ==
    ASSUME NEW a, NEW e, NEW f, Fits(a, e), Fits(e, f)
    PROVE  Fits(a, f)
  BY DEF Fits

\* A flit is the record of its packet and its number.
LEMMA FlitParts ==
    ASSUME NEW f \in Flit
    PROVE  /\ f.pkt \in Packets /\ f.id \in Nat /\ f = [pkt |-> f.pkt, id |-> f.id]
           /\ After(f) \in Mark /\ After(f).pkt = f.pkt /\ NumFlit[f.pkt] \in Nat \ {0}
           /\ IsTail(f) => After(f).id = 0
           /\ ~IsTail(f) => After(f).id = f.id + 1
<1>1. PICK k \in Packets, n \in Nat : f = [pkt |-> k, id |-> n]
  BY DEF Flit
<1>2. f.pkt = k /\ f.id = n
  BY <1>1
<1>3. NumFlit[k] \in Nat \ {0}
  BY SizesAssumption
<1> DEFINE m == IF IsTail(f) THEN 0 ELSE n + 1
<1>4. After(f) = [pkt |-> k, id |-> m] /\ m \in Nat
  BY <1>2 DEF After
<1>5. (IsTail(f) => m = 0) /\ (~IsTail(f) => m = n + 1)
  OBVIOUS
<1> HIDE DEF m
<1>6. After(f) \in Mark /\ After(f).pkt = k /\ After(f).id = m
  BY <1>4 DEF Mark
<1> QED
  BY <1>1, <1>2, <1>3, <1>5, <1>6

\* The elements of a sequence of flits.
LEMMA FlitAt ==
    ASSUME NEW b \in Seq(Flit), NEW i \in 1 .. Len(b)
    PROVE  b[i] \in Flit
  OBVIOUS

\* What is left of a buffer when its first flit has gone.
LEMMA TailAt ==
    ASSUME NEW b \in Seq(Flit), b # <<>>
    PROVE  /\ Tail(b) \in Seq(Flit) /\ Len(b) \in Nat \ {0} /\ Len(Tail(b)) = Len(b) - 1
           /\ \A i \in 1 .. Len(b) - 1 : Tail(b)[i] = b[i + 1]
           /\ Tail(b) = <<>> <=> Len(b) = 1
           /\ Head(b) = b[1] /\ b[1] \in Flit
<1>1. Len(b) \in Nat /\ Len(b) # 0
  BY EmptySeq
<1>2. Tail(b) \in Seq(Flit) /\ Len(Tail(b)) = Len(b) - 1
  BY <1>1
<1>3. Tail(b) = <<>> <=> Len(Tail(b)) = 0
  BY <1>2, EmptySeq, Zenon
<1> QED
  BY <1>1, <1>2, <1>3

\* A flit more at the end of a buffer.
LEMMA AppendAt ==
    ASSUME NEW b \in Seq(Flit), NEW f \in Flit
    PROVE  /\ Append(b, f) \in Seq(Flit) /\ Len(Append(b, f)) = Len(b) + 1 /\ Len(b) \in Nat
           /\ \A i \in 1 .. Len(b) : Append(b, f)[i] = b[i]
           /\ Append(b, f)[Len(b) + 1] = f
           /\ Append(b, f) # <<>> /\ (b = <<>> <=> Len(b) = 0)
  BY EmptySeq

\* The first flit of a chain leaves.
LEMMA ChainTail ==
    ASSUME NEW b \in Seq(Flit), b # <<>>, NEW e, Chain(b, e)
    PROVE  Chain(Tail(b), e) /\ Fits(After(b[1]), NextOf(Tail(b), e))
<1> DEFINE t == Tail(b)
           n == Len(b)
<1>1. /\ n \in Nat \ {0} /\ Len(t) = n - 1 /\ (t = <<>> <=> n = 1)
      /\ \A i \in 1 .. n - 1 : t[i] = b[i + 1]
  BY TailAt
<1>2. /\ \A i \in 1 .. n - 1 : Fits(After(b[i]), b[i + 1])
      /\ Fits(After(b[n]), e)
  BY DEF Chain
<1> HIDE DEF t, n
<1>3. CASE n = 1
  <2>1. t = <<>> /\ Len(t) = 0
    BY <1>1, <1>3
  <2>2. Chain(t, e)
    BY <2>1 DEF Chain
  <2>3. NextOf(t, e) = e
    BY <2>1 DEF NextOf
  <2> QED
    BY <1>2, <1>3, <2>2, <2>3 DEF t
<1>4. CASE n # 1
  <2>1. n - 1 \in 1 .. n - 1 /\ 1 \in 1 .. n - 1 /\ t # <<>>
    BY <1>1, <1>4
  <2>2. t[1] = b[2] /\ t[n - 1] = b[n] /\ Fits(After(b[1]), b[2])
    BY <1>1, <1>2, <2>1
  <2>3. \A i \in 1 .. (n - 1) - 1 : Fits(After(t[i]), t[i + 1])
    <3> TAKE i \in 1 .. (n - 1) - 1
    <3>1. i + 1 \in 1 .. n - 1 /\ i \in 1 .. n - 1
      BY <1>1
    <3> DEFINE j == i + 1
    <3>2. t[i] = b[j] /\ t[j] = b[j + 1] /\ Fits(After(b[j]), b[j + 1])
      BY <1>1, <1>2, <3>1
    <3> QED
      BY <3>2
  <2>4. Chain(t, e)
    BY <1>1, <1>2, <2>2, <2>3 DEF Chain
  <2>5. NextOf(t, e) = b[2]
    BY <2>1, <2>2 DEF NextOf
  <2> QED
    BY <2>2, <2>4, <2>5 DEF t
<1> QED
  BY <1>3, <1>4

\* A flit that fits comes in.
LEMMA ChainAppend ==
    ASSUME NEW b \in Seq(Flit), NEW f \in Flit, NEW e, Chain(b, e), Fits(e, f)
    PROVE  Chain(Append(b, f), After(f))
<1> DEFINE t == Append(b, f)
           n == Len(b)
<1>1. /\ n \in Nat /\ Len(t) = n + 1 /\ (b = <<>> <=> n = 0) /\ t[n + 1] = f
      /\ \A i \in 1 .. n : t[i] = b[i]
  BY AppendAt
<1>2. /\ \A i \in 1 .. n - 1 : Fits(After(b[i]), b[i + 1])
      /\ b # <<>> => Fits(After(b[n]), e)
  BY DEF Chain
<1> HIDE DEF t, n
<1>3. Fits(After(f), After(f))
  BY DEF Fits
<1>4. ASSUME NEW i \in 1 .. n PROVE Fits(After(t[i]), t[i + 1])
  <2>1. CASE i = n
    <3>1. Fits(After(b[n]), f)
      BY <1>1, <1>2, <2>1, FitsOn
    <3> QED
      BY <1>1, <2>1, <3>1
  <2>2. CASE i # n
    <3>1. i \in 1 .. n - 1 /\ i + 1 \in 1 .. n
      BY <1>1, <2>2
    <3> DEFINE j == i + 1
    <3>2. t[i] = b[i] /\ t[j] = b[j] /\ Fits(After(b[i]), b[j])
      BY <1>1, <1>2, <3>1
    <3> QED
      BY <3>2
  <2> QED
    BY <2>1, <2>2
<1>5. Len(t) - 1 = n
  BY <1>1
<1> QED
  BY <1>1, <1>3, <1>4, <1>5 DEF Chain, t

\* The flit that leaves next stays the same, or becomes known.
LEMMA NextAppend ==
    ASSUME NEW b \in Seq(Flit), NEW f \in Flit, NEW e, Fits(e, f), NEW g
    PROVE  /\ Fits(NextOf(b, e), NextOf(Append(b, f), g))
           /\ b # <<>> \/ e.id # 0 => NextOf(Append(b, f), g) = NextOf(b, e)
<1>1. CASE b = <<>>
  <2>1. NextOf(b, e) = e /\ NextOf(Append(b, f), g) = f
    BY <1>1, AppendAt DEF NextOf
  <2> QED
    BY <1>1, <2>1 DEF Fits
<1>2. CASE b # <<>>
  <2>1. NextOf(b, e) = b[1] /\ NextOf(Append(b, f), g) = b[1]
    BY <1>2, AppendAt DEF NextOf
  <2> QED
    BY <1>2, <2>1 DEF Fits
<1> QED
  BY <1>1, <1>2

\* The first flit of a run leaves; after a tail there is nothing.
LEMMA RunTail ==
    ASSUME NEW b \in Seq(Flit), b # <<>>, NEW e \in Mark, Run(b, e),
           \A i \in 1 .. Len(b) : b[i].id < NumFlit[b[i].pkt]
    PROVE  /\ Run(Tail(b), e) /\ Fits(After(b[1]), NextOf(Tail(b), e))
           /\ IsTail(b[1]) => Tail(b) = <<>> /\ e.id = 0
<1> DEFINE t == Tail(b)
           n == Len(b)
           k == b[1].pkt
           m == b[1].id
<1>1. /\ n \in Nat \ {0} /\ Len(t) = n - 1 /\ (t = <<>> <=> n = 1) /\ b[1] \in Flit
      /\ \A i \in 1 .. n - 1 : t[i] = b[i + 1]
  BY TailAt
<1>2. /\ \A i \in 1 .. n : b[i] = [pkt |-> k, id |-> m + (i - 1)]
      /\ Fits(After(b[n]), e)
  BY DEF Run
<1>3. k \in Packets /\ m \in Nat /\ NumFlit[k] \in Nat \ {0} /\ b[1] = [pkt |-> k, id |-> m]
  BY <1>1, FlitParts, Zenon
<1>4. \A i \in 1 .. n : b[i].id < NumFlit[b[i].pkt]
  OBVIOUS
<1> HIDE DEF t, n, k, m
<1>5. CASE n = 1
  <2>1. t = <<>> /\ Len(t) = 0
    BY <1>1, <1>5, Zenon
  <2>2. Run(t, e)
    BY <2>1 DEF Run
  <2>3. NextOf(t, e) = e
    BY <2>1 DEF NextOf
  <2>4. IsTail(b[1]) => e.id = 0
    BY <1>1, <1>2, <1>5, FlitParts, Zenon DEF Fits
  <2> QED
    BY <1>2, <1>5, <2>1, <2>2, <2>3, <2>4 DEF t
<1>6. CASE n # 1
  <2>1. n - 1 \in 1 .. n - 1 /\ 1 \in 1 .. n - 1 /\ t # <<>> /\ 2 \in 1 .. n
    BY <1>1, <1>6
  <2>2. t[1] = b[2] /\ t[n - 1] = b[n] /\ b[2] = [pkt |-> k, id |-> m + 1]
    BY <1>1, <1>2, <1>3, <2>1
  <2>3. m + 1 < NumFlit[k]
    BY <1>4, <2>1, <2>2
  <2>4. ~IsTail(b[1])
    BY <1>3, <2>3 DEF IsTail
  <2>5. After(b[1]) = b[2] /\ NextOf(t, e) = b[2]
    BY <1>3, <2>1, <2>2, <2>4 DEF After, NextOf
  <2>6. \A i \in 1 .. n - 1 : t[i] = [pkt |-> t[1].pkt, id |-> t[1].id + (i - 1)]
    <3> TAKE i \in 1 .. n - 1
    <3>1. t[1].pkt = k /\ t[1].id = m + 1
      BY <2>2
    <3>2. t[i] = [pkt |-> k, id |-> m + ((i + 1) - 1)]
      <4>1. i + 1 \in 1 .. n
        BY ONLY <1>1, i \in 1 .. n - 1
      <4> QED
        BY <1>1, <1>2, <4>1, Zenon
    <3>3. m + ((i + 1) - 1) = (m + 1) + (i - 1)
      BY <1>1, <1>3
    <3> QED
      BY <3>1, <3>2, <3>3, Zenon
  <2>7. Run(t, e)
    BY <1>1, <1>2, <2>2, <2>6 DEF Run
  <2>8. Fits(b[2], b[2])
    BY DEF Fits
  <2> QED
    BY <2>4, <2>5, <2>7, <2>8 DEF t
<1> QED
  BY <1>5, <1>6

\* The next flit of a packet joins the run of the ones before it.
LEMMA RunAppend ==
    ASSUME NEW b \in Seq(Flit), NEW f \in Flit, NEW e, Run(b, e),
           b = <<>> \/ (e.id # 0 /\ f = e)
    PROVE  Run(Append(b, f), After(f))
<1> DEFINE t == Append(b, f)
           n == Len(b)
<1>1. /\ n \in Nat /\ Len(t) = n + 1 /\ (b = <<>> <=> n = 0) /\ t[n + 1] = f /\ t # <<>>
      /\ \A i \in 1 .. n : t[i] = b[i]
  BY AppendAt
<1>2. Fits(After(f), After(f))
  BY DEF Fits
<1>3. f.id \in Nat /\ f = [pkt |-> f.pkt, id |-> f.id]
  BY FlitParts, Zenon
<1>4. CASE b = <<>>
  <2>1. n = 0 /\ t[1] = f
    BY <1>1, <1>4
  <2>2. \A i \in 1 .. 1 : t[i] = [pkt |-> t[1].pkt, id |-> t[1].id + (i - 1)]
    BY <1>3, <2>1
  <2> HIDE DEF t, n
  <2> QED
    BY <1>1, <1>2, <2>1, <2>2 DEF Run, t
<1>5. CASE b # <<>>
  <2> DEFINE k == b[1].pkt
             m == b[1].id
  <2>1. /\ \A i \in 1 .. n : b[i] = [pkt |-> k, id |-> m + (i - 1)]
        /\ Fits(After(b[n]), e) /\ e.id # 0 /\ f = e
    BY <1>5, Zenon DEF Run
  <2>2. n \in 1 .. n /\ 1 \in 1 .. n /\ t[1] = b[1] /\ b[1] \in Flit /\ b[n] \in Flit
    BY <1>1, <1>5, FlitAt
  <2>3. m \in Nat
    BY <2>2, FlitParts
  <2> HIDE DEF t, n, k, m
  <2>4. b[n] = [pkt |-> k, id |-> m + (n - 1)]
    BY <2>1, <2>2
  <2>5. After(b[n]).id # 0 /\ f = After(b[n])
    BY <2>1, Zenon DEF Fits
  <2>6. ~IsTail(b[n]) /\ After(b[n]) = [pkt |-> k, id |-> m + (n - 1) + 1]
    BY <2>4, <2>5 DEF After
  <2>7. f = [pkt |-> k, id |-> m + ((n + 1) - 1)]
    BY <1>1, <2>3, <2>5, <2>6
  <2>8. \A i \in 1 .. n + 1 : t[i] = [pkt |-> k, id |-> m + (i - 1)]
    <3> TAKE i \in 1 .. n + 1
    <3>1. CASE i = n + 1
      BY ONLY <1>1, <2>7, <3>1
    <3>2. CASE i # n + 1
      <4>1. i \in 1 .. n
        BY <1>1, <3>2
      <4> QED
        BY ONLY <1>1, <2>1, <4>1, Zenon
    <3> QED
      BY <3>1, <3>2, Zenon
  <2>9. t[1].pkt = k /\ t[1].id = m
    BY <2>2, Zenon DEF k, m
  <2> QED
    BY <1>1, <1>2, <2>8, <2>9 DEF Run, t
<1> QED
  BY <1>4, <1>5

\* A run is no longer than its packet.
LEMMA RunBounded ==
    ASSUME NEW b \in Seq(Flit), b # <<>>, NEW e, Run(b, e),
           \A i \in 1 .. Len(b) : b[i].id < NumFlit[b[i].pkt]
    PROVE  Len(b) <= NumFlit[b[1].pkt] /\ Chain(b, e)
<1> DEFINE n == Len(b)
           k == b[1].pkt
           m == b[1].id
<1>1. n \in Nat \ {0} /\ b[1] \in Flit
  BY TailAt
<1>2. /\ \A i \in 1 .. n : b[i] = [pkt |-> k, id |-> m + (i - 1)]
      /\ Fits(After(b[n]), e)
  BY DEF Run
<1>3. k \in Packets /\ m \in Nat /\ NumFlit[k] \in Nat \ {0}
  BY <1>1, FlitParts
<1>4. \A i \in 1 .. n : b[i].id < NumFlit[b[i].pkt]
  OBVIOUS
<1> HIDE DEF n, k, m
<1>5. ASSUME NEW i \in 1 .. n PROVE m + (i - 1) < NumFlit[k]
  <2>1. b[i] = [pkt |-> k, id |-> m + (i - 1)] /\ b[i].id < NumFlit[b[i].pkt]
    BY <1>2, <1>4, Zenon
  <2>2. b[i].pkt = k /\ b[i].id = m + (i - 1)
    BY ONLY <2>1
  <2> QED
    BY ONLY <2>1, <2>2, Zenon
<1>6. n <= NumFlit[k]
  <2>1. n \in 1 .. n
    BY ONLY <1>1
  <2>2. m + (n - 1) < NumFlit[k]
    BY <1>5, <2>1
  <2> QED
    BY ONLY <1>1, <1>3, <2>2
<1>7. ASSUME NEW i \in 1 .. n - 1 PROVE Fits(After(b[i]), b[i + 1])
  <2> DEFINE j == i + 1
  <2>1. j \in 1 .. n /\ i \in 1 .. n
    BY <1>1
  <2>2. b[i] = [pkt |-> k, id |-> m + (i - 1)] /\ b[j] = [pkt |-> k, id |-> m + (j - 1)]
    BY <1>2, <2>1
  <2>3. m + (j - 1) < NumFlit[k] /\ m + (j - 1) = m + (i - 1) + 1
    BY <1>1, <1>3, <1>5, <2>1
  <2> HIDE DEF j
  <2>4. ~IsTail(b[i])
    BY <1>3, <2>2, <2>3 DEF IsTail
  <2>5. After(b[i]) = b[j]
    BY <2>2, <2>3, <2>4 DEF After
  <2> QED
    BY <2>5 DEF Fits, j
<1> QED
  BY <1>2, <1>6, <1>7 DEF Chain, n, k

\* A whole packet comes in where a head is expected.
LEMMA ChainPacket ==
    ASSUME NEW b \in Seq(Flit), NEW k \in Packets, NEW e, e.id = 0, Chain(b, e)
    PROVE  /\ b \o PacketFlits(k) # <<>> /\ Chain(b \o PacketFlits(k), e)
           /\ (b \o PacketFlits(k))[1] = IF b = <<>> THEN [pkt |-> k, id |-> 0] ELSE b[1]
<1> DEFINE p == PacketFlits(k)
           t == b \o p
           n == Len(b)
           m == NumFlit[k]
<1>1. p \in Seq(Flit) /\ Len(p) = m /\ m \in Nat \ {0} /\ n \in Nat /\ (b = <<>> <=> n = 0)
  BY FlitsOfPacket, SizesAssumption, EmptySeq
<1>2. \A i \in 1 .. m : p[i] = [pkt |-> k, id |-> i - 1]
  BY DEF PacketFlits
<1>3. /\ \A i \in 1 .. n - 1 : Fits(After(b[i]), b[i + 1])
      /\ b # <<>> => Fits(After(b[n]), e)
  BY DEF Chain
<1> HIDE DEF p, n, m
<1>4. /\ Len(t) = n + m
      /\ \A i \in 1 .. n : t[i] = b[i]
      /\ \A i \in 1 .. m : t[n + i] = p[i]
  <2>1. /\ Len(t) = n + m
        /\ \A i \in 1 .. n + m : t[i] = IF i <= n THEN b[i] ELSE p[i - n]
    <3>1. /\ Len(b \o p) = Len(b) + Len(p)
          /\ \A i \in 1 .. Len(b) + Len(p) : (b \o p)[i] = IF i <= Len(b) THEN b[i] ELSE p[i - Len(b)]
      <4>1. p \in Seq(Flit)
        BY <1>1, Zenon
      <4> QED
        BY ONLY b \in Seq(Flit), <4>1
    <3> QED
      BY <1>1, <3>1, Zenon DEF n
  <2> HIDE DEF t
  <2>2. ASSUME NEW i \in 1 .. n PROVE t[i] = b[i]
    BY ONLY <1>1, <2>1
  <2>3. ASSUME NEW i \in 1 .. m PROVE t[n + i] = p[i]
    <3>1. n + i \in 1 .. n + m /\ ~(n + i <= n) /\ (n + i) - n = i
      BY ONLY <1>1
    <3> QED
      BY ONLY <2>1, <3>1
  <2> QED
    BY <2>1, <2>2, <2>3
<1> HIDE DEF t
<1>5. t # <<>>
  BY <1>1, <1>4, EmptySeq
<1>6. ASSUME NEW i \in 1 .. m, i # m PROVE Fits(After(p[i]), p[i + 1])
  <2>1. i + 1 \in 1 .. m
    BY <1>1, <1>6
  <2>2. p[i] = [pkt |-> k, id |-> i - 1] /\ p[i + 1] = [pkt |-> k, id |-> i]
    BY <1>2, <2>1
  <2>3. ~IsTail(p[i]) /\ (i - 1) + 1 = i
    BY <1>1, <1>6, <2>2 DEF IsTail, m
  <2>4. After(p[i]) = p[i + 1]
    BY <2>2, <2>3 DEF After
  <2> QED
    BY <2>4 DEF Fits
<1>7. p[1] = [pkt |-> k, id |-> 0] /\ p[m] = [pkt |-> k, id |-> m - 1]
  BY <1>1, <1>2
<1>8. After(p[m]).id = 0
  BY <1>7 DEF After, IsTail, m
<1>9. ASSUME NEW i \in 1 .. Len(t) - 1 PROVE Fits(After(t[i]), t[i + 1])
  <2>1. CASE i < n
    <3> DEFINE j == i + 1
    <3>1. i \in 1 .. n - 1 /\ i \in 1 .. n /\ j \in 1 .. n
      BY <1>1, <2>1
    <3>2. t[i] = b[i] /\ t[j] = b[j] /\ Fits(After(b[i]), b[j])
      BY <1>3, <1>4, <3>1, Zenon
    <3> QED
      BY <3>2
  <2>2. CASE i = n
    <3>1. n \in 1 .. n /\ 1 \in 1 .. m
      BY <1>1, <2>2
    <3>2. t[n] = b[n] /\ t[n + 1] = p[1]
      BY <1>4, <3>1
    <3>3. Fits(After(b[n]), e)
      BY <1>1, <1>3, <3>1
    <3>4. Fits(e, p[1])
      BY <1>7 DEF Fits
    <3> QED
      BY <2>2, <3>2, <3>3, <3>4, FitsOn
  <2>3. CASE i > n
    <3> DEFINE j == i - n
    <3>1. j \in 1 .. m /\ j # m /\ j + 1 \in 1 .. m /\ i = n + j /\ i + 1 = n + (j + 1)
      BY <1>1, <1>4, <2>3
    <3> HIDE DEF j
    <3>2. t[i] = p[j] /\ t[i + 1] = p[j + 1]
      BY <1>4, <3>1
    <3> QED
      BY <1>6, <3>1, <3>2, Zenon
  <2> QED
    BY <1>1, <2>1, <2>2, <2>3
<1>10. t[Len(t)] = p[m]
  BY <1>1, <1>4
<1>11. Fits(After(p[m]), e)
  BY <1>8 DEF Fits
<1>12. t[1] = IF b = <<>> THEN [pkt |-> k, id |-> 0] ELSE b[1]
  <2>1. CASE b = <<>>
    BY <1>1, <1>4, <1>7, <2>1
  <2>2. CASE b # <<>>
    BY <1>1, <1>4, <2>2
  <2> QED
    BY <2>1, <2>2, Zenon
<1>13. Chain(t, e)
  BY <1>9, <1>10, <1>11 DEF Chain
<1> QED
  BY <1>5, <1>12, <1>13 DEF t, p

\* All buffers of the network, and the flits in them.
Places == {"in", "out"} \X Channels

Content(ib, ob) == [p \in Places |-> IF p[1] = "in" THEN ib[p[2]] ELSE ob[p[2]]]

Flying(B) == {f \in Flit : \E p \in Places : \E i \in 1 .. Len(B[p]) : B[p][i] = f}

\* No flit is in two places.
Once(B) ==
    \A p, q \in Places : \A i \in 1 .. Len(B[p]), j \in 1 .. Len(B[q]) :
        B[p][i] = B[q][j] => p = q /\ i = j

\* A flit that is in a buffer flies.
LEMMA FlyingAt ==
    ASSUME NEW B \in [Places -> Seq(Flit)], NEW p \in Places, NEW i \in 1 .. Len(B[p])
    PROVE  B[p][i] \in Flying(B) /\ B[p][i] \in Flit
<1>1. B[p] \in Seq(Flit)
  OBVIOUS
<1>2. B[p][i] \in Flit
  BY <1>1
<1> QED
  BY <1>2 DEF Flying

\* Flit i of place x in C is flit N[x][i] of place P[x][i] in B.
Origins(B, C, P, N) ==
    \A x \in Places : \A i \in 1 .. Len(C[x]) :
        /\ P[x][i] \in Places /\ N[x][i] \in 1 .. Len(B[P[x][i]])
        /\ C[x][i] = B[P[x][i]][N[x][i]]

Injective(C, P, N) ==
    \A x, y \in Places : \A i \in 1 .. Len(C[x]), j \in 1 .. Len(C[y]) :
        P[x][i] = P[y][j] /\ N[x][i] = N[y][j] => x = y /\ i = j

\* Flits that come from places of their own stay unique.
LEMMA OnceFrom ==
    ASSUME NEW B \in [Places -> Seq(Flit)], NEW C \in [Places -> Seq(Flit)], Once(B),
           NEW P, NEW N, Origins(B, C, P, N), Injective(C, P, N)
    PROVE  Once(C) /\ Flying(C) \subseteq Flying(B)
<1>1. ASSUME NEW x \in Places, NEW y \in Places, NEW i \in 1 .. Len(C[x]), NEW j \in 1 .. Len(C[y]),
             C[x][i] = C[y][j]
      PROVE  x = y /\ i = j
  <2>1. /\ P[x][i] \in Places /\ N[x][i] \in 1 .. Len(B[P[x][i]]) /\ C[x][i] = B[P[x][i]][N[x][i]]
        /\ P[y][j] \in Places /\ N[y][j] \in 1 .. Len(B[P[y][j]]) /\ C[y][j] = B[P[y][j]][N[y][j]]
    BY Zenon DEF Origins
  <2> DEFINE a == P[x][i]
             b == P[y][j]
             m == N[x][i]
             n == N[y][j]
  <2> HIDE DEF a, b, m, n
  <2>3. /\ a \in Places /\ b \in Places /\ m \in 1 .. Len(B[a]) /\ n \in 1 .. Len(B[b])
        /\ B[a][m] = B[b][n]
    BY <1>1, <2>1, Zenon DEF a, b, m, n
  <2>2. a = b /\ m = n
    BY <2>3 DEF Once
  <2> QED
    BY <2>2, Zenon DEF Injective, a, b, m, n
<1>2. ASSUME NEW f \in Flit, NEW x \in Places, NEW i \in 1 .. Len(C[x]), C[x][i] = f
      PROVE  \E y \in Places : \E j \in 1 .. Len(B[y]) : B[y][j] = f
  BY <1>2, Zenon DEF Origins
<1>3. Once(C)
  BY <1>1, Zenon DEF Once
<1>4. Flying(C) \subseteq Flying(B)
  BY <1>2, Zenon DEF Flying
<1> QED
  BY <1>3, <1>4

\* C is B but for the places S.
Frame(B, C, S) == \A x \in Places : x \notin S => C[x] = B[x]

\* The first flit of p goes to the end of q.
LEMMA FlitMoves ==
    ASSUME NEW B \in [Places -> Seq(Flit)], NEW C \in [Places -> Seq(Flit)], Once(B),
           NEW p \in Places, NEW q \in Places, p # q, B[p] # <<>>,
           C[p] = Tail(B[p]), C[q] = Append(B[q], B[p][1]),
           Frame(B, C, {p, q})
    PROVE  Once(C) /\ Flying(C) \subseteq Flying(B)
<1> USE DEF Frame
<1>1. /\ Len(B[p]) \in Nat \ {0} /\ Len(C[p]) = Len(B[p]) - 1
      /\ \A i \in 1 .. Len(B[p]) - 1 : C[p][i] = B[p][i + 1]
      /\ B[p][1] \in Flit
  BY TailAt
<1>2. /\ Len(B[q]) \in Nat /\ Len(C[q]) = Len(B[q]) + 1
      /\ \A i \in 1 .. Len(B[q]) : C[q][i] = B[q][i]
      /\ C[q][Len(B[q]) + 1] = B[p][1]
  BY <1>1, AppendAt
<1> DEFINE new(x, i) == x = q /\ i = Len(B[q]) + 1
           P == [x \in Places |-> [i \in 1 .. Len(C[x]) |-> IF new(x, i) THEN p ELSE x]]
           N == [x \in Places |-> [i \in 1 .. Len(C[x]) |->
                   IF new(x, i) THEN 1 ELSE IF x = p THEN i + 1 ELSE i]]
<1>3. ASSUME NEW x \in Places, NEW i \in 1 .. Len(C[x])
      PROVE  /\ P[x][i] = IF new(x, i) THEN p ELSE x
             /\ N[x][i] = IF new(x, i) THEN 1 ELSE IF x = p THEN i + 1 ELSE i
             /\ i \in Nat \ {0}
             /\ x = p => i \in 1 .. Len(B[p]) - 1
             /\ x = q /\ ~new(x, i) => i \in 1 .. Len(B[q])
             /\ x \notin {p, q} => i \in 1 .. Len(B[x])
  <2>1. C[x] \in Seq(Flit) /\ Len(C[x]) \in Nat
    OBVIOUS
  <2> QED
    BY <1>1, <1>2, <2>1
<1> HIDE DEF P, N
<1>4. Origins(B, C, P, N)
  <2> SUFFICES ASSUME NEW x \in Places, NEW i \in 1 .. Len(C[x])
               PROVE  /\ P[x][i] \in Places /\ N[x][i] \in 1 .. Len(B[P[x][i]])
                      /\ C[x][i] = B[P[x][i]][N[x][i]]
    BY Zenon DEF Origins
  <2>1. CASE new(x, i)
    BY <1>1, <1>2, <1>3, <2>1
  <2>2. CASE x = p
    <3>1. P[x][i] = p /\ N[x][i] = i + 1 /\ i \in 1 .. Len(B[p]) - 1
      BY <1>3, <2>2, Zenon
    <3> DEFINE j == i + 1
    <3>2. j \in 1 .. Len(B[p]) /\ C[p][i] = B[p][j] /\ N[x][i] = j
      BY <1>1, <3>1
    <3> HIDE DEF j
    <3> QED
      BY <2>2, <3>1, <3>2, Zenon
  <2>3. CASE x # p /\ ~new(x, i)
    <3>1. P[x][i] = x /\ N[x][i] = i /\ i \in 1 .. Len(B[x])
      BY <1>3, <2>3, Zenon
    <3> QED
      BY <1>2, <2>3, <3>1, Zenon
  <2> QED
    BY <2>1, <2>2, <2>3
<1> HIDE DEF Frame
<1>5. Injective(C, P, N)
  <2> USE DEF Injective
  <2> TAKE x, y \in Places
  <2> TAKE i \in 1 .. Len(C[x]), j \in 1 .. Len(C[y])
  <2> HAVE P[x][i] = P[y][j] /\ N[x][i] = N[y][j]
  <2> HIDE DEF Injective
  <2>1. /\ P[x][i] = IF new(x, i) THEN p ELSE x
        /\ N[x][i] = IF new(x, i) THEN 1 ELSE IF x = p THEN i + 1 ELSE i
        /\ P[y][j] = IF new(y, j) THEN p ELSE y
        /\ N[y][j] = IF new(y, j) THEN 1 ELSE IF y = p THEN j + 1 ELSE j
        /\ i \in Nat \ {0} /\ j \in Nat \ {0}
    BY <1>3, Zenon
  <2> QED
    BY ONLY <2>1, P[x][i] = P[y][j], N[x][i] = N[y][j], p # q
<1> QED
  BY <1>4, <1>5, OnceFrom, Zenon

\* The first flit of p leaves the network.
LEMMA FlitLeaves ==
    ASSUME NEW B \in [Places -> Seq(Flit)], NEW C \in [Places -> Seq(Flit)], Once(B),
           NEW p \in Places, B[p] # <<>>, C[p] = Tail(B[p]),
           Frame(B, C, {p})
    PROVE  Once(C) /\ Flying(C) \subseteq Flying(B) \ {B[p][1]}
<1> USE DEF Frame
<1>1. /\ Len(B[p]) \in Nat \ {0} /\ Len(C[p]) = Len(B[p]) - 1
      /\ \A i \in 1 .. Len(B[p]) - 1 : C[p][i] = B[p][i + 1]
      /\ B[p][1] \in Flit
  BY TailAt
<1> DEFINE P == [x \in Places |-> [i \in 1 .. Len(C[x]) |-> x]]
           N == [x \in Places |-> [i \in 1 .. Len(C[x]) |-> IF x = p THEN i + 1 ELSE i]]
<1>2. ASSUME NEW x \in Places, NEW i \in 1 .. Len(C[x])
      PROVE  /\ P[x][i] = x /\ N[x][i] = IF x = p THEN i + 1 ELSE i
             /\ i \in Nat \ {0} /\ (x = p => i \in 1 .. Len(B[p]) - 1)
  <2>1. C[x] \in Seq(Flit) /\ Len(C[x]) \in Nat
    OBVIOUS
  <2> QED
    BY <1>1, <2>1
<1> HIDE DEF P, N
<1>3. Origins(B, C, P, N)
  <2> SUFFICES ASSUME NEW x \in Places, NEW i \in 1 .. Len(C[x])
               PROVE  /\ P[x][i] \in Places /\ N[x][i] \in 1 .. Len(B[P[x][i]])
                      /\ C[x][i] = B[P[x][i]][N[x][i]]
    BY Zenon DEF Origins
  <2>1. CASE x = p
    <3> DEFINE j == i + 1
    <3>1. j \in 1 .. Len(B[p]) /\ C[p][i] = B[p][j] /\ N[x][i] = j /\ P[x][i] = p
      BY <1>1, <1>2, <2>1
    <3> HIDE DEF j
    <3> QED
      BY <2>1, <3>1, Zenon
  <2>2. CASE x # p
    BY <1>2, <2>2
  <2> QED
    BY <2>1, <2>2
<1> HIDE DEF Frame
<1>4. Injective(C, P, N)
  <2> USE DEF Injective
  <2> TAKE x, y \in Places
  <2> TAKE i \in 1 .. Len(C[x]), j \in 1 .. Len(C[y])
  <2> HAVE P[x][i] = P[y][j] /\ N[x][i] = N[y][j]
  <2> HIDE DEF Injective
  <2>1. /\ P[x][i] = x /\ P[y][j] = y
        /\ N[x][i] = IF x = p THEN i + 1 ELSE i
        /\ N[y][j] = IF y = p THEN j + 1 ELSE j
        /\ i \in Nat \ {0} /\ j \in Nat \ {0}
    BY <1>2, Zenon
  <2> QED
    BY ONLY <2>1, P[x][i] = P[y][j], N[x][i] = N[y][j]
<1>5. Once(C) /\ Flying(C) \subseteq Flying(B)
  BY <1>3, <1>4, OnceFrom, Zenon
<1>6. ASSUME NEW x \in Places, NEW i \in 1 .. Len(C[x]), C[x][i] = B[p][1] PROVE FALSE
  <2> DEFINE n == N[x][i]
  <2>5. /\ P[x][i] \in Places /\ N[x][i] \in 1 .. Len(B[P[x][i]])
        /\ C[x][i] = B[P[x][i]][N[x][i]] /\ P[x][i] = x
    BY <1>2, <1>3, Zenon DEF Origins
  <2>1. n \in 1 .. Len(B[x]) /\ B[x][n] = B[p][1] /\ 1 \in 1 .. Len(B[p])
    BY <1>1, <1>6, <2>5
  <2>2. n = IF x = p THEN i + 1 ELSE i
    BY <1>2, Zenon
  <2>3. i \in Nat \ {0}
    BY <1>2
  <2> HIDE DEF n
  <2>4. x = p /\ n = 1
    BY <2>1 DEF Once
  <2> QED
    BY ONLY <2>2, <2>3, <2>4
<1>7. B[p][1] \notin Flying(C)
  BY <1>6, Zenon DEF Flying
<1> QED
  BY <1>5, <1>7

\* The flits of packet k come in at l, where none of k are yet.
LEMMA PacketEnters ==
    ASSUME NEW B \in [Places -> Seq(Flit)], NEW C \in [Places -> Seq(Flit)], Once(B),
           NEW l \in Places, NEW k \in Packets, C[l] = B[l] \o PacketFlits(k),
           Frame(B, C, {l}), \A f \in Flying(B) : f.pkt # k
    PROVE  /\ Once(C)
           /\ \A f \in Flying(C) : f \in Flying(B) \/ (f.pkt = k /\ f.id < NumFlit[k])
<1> USE DEF Frame
<1> DEFINE n == Len(B[l])
           m == NumFlit[k]
<1>1. PacketFlits(k) \in Seq(Flit) /\ Len(PacketFlits(k)) = m /\ m \in Nat \ {0} /\ n \in Nat
  BY FlitsOfPacket, SizesAssumption
<1>2. \A i \in 1 .. m : PacketFlits(k)[i] = [pkt |-> k, id |-> i - 1]
  BY Zenon DEF PacketFlits
<1>3. /\ Len(C[l]) = n + m
      /\ \A i \in 1 .. n + m : C[l][i] = IF i <= n THEN B[l][i] ELSE PacketFlits(k)[i - n]
  <2> DEFINE b == B[l]
             p == PacketFlits(k)
  <2>1. b \in Seq(Flit) /\ p \in Seq(Flit) /\ Len(p) = m
    BY <1>1
  <2> HIDE DEF b, p
  <2>2. /\ Len(b \o p) = Len(b) + Len(p)
        /\ \A i \in 1 .. Len(b) + Len(p) : (b \o p)[i] = IF i <= Len(b) THEN b[i] ELSE p[i - Len(b)]
    BY <2>1, ConcatProperties, Zenon
  <2> QED
    BY <2>1, <2>2, Zenon DEF b, p
<1> DEFINE New(x, i) == x = l /\ i > n
<1> HIDE DEF n, m
<1>4. ASSUME NEW x \in Places, NEW i \in 1 .. Len(C[x]), ~New(x, i)
      PROVE  /\ i \in 1 .. Len(B[x]) /\ C[x][i] = B[x][i] /\ C[x][i] \in Flying(B)
             /\ C[x][i].pkt # k
  <2>1. i \in 1 .. Len(B[x]) /\ C[x][i] = B[x][i]
    <3>1. CASE x = l
      <4>1. i \in 1 .. n + m /\ i <= n
        BY <1>1, <1>3, <1>4, <3>1
      <4> QED
        BY <1>1, <1>3, <3>1, <4>1 DEF n
    <3>2. CASE x # l
      BY <3>2, Zenon
    <3> QED
      BY <3>1, <3>2, Zenon
  <2> QED
    BY <2>1, FlyingAt, Zenon
<1>5. ASSUME NEW x \in Places, NEW i \in 1 .. Len(C[x]), New(x, i)
      PROVE  C[x][i].pkt = k /\ C[x][i].id = (i - n) - 1 /\ (i - n) - 1 < m /\ i \in Nat
  <2>1. i \in 1 .. n + m /\ ~(i <= n) /\ i - n \in 1 .. m /\ x = l
    BY <1>1, <1>3, <1>5
  <2>2. C[l][i] = PacketFlits(k)[i - n]
    BY <1>3, <2>1, Zenon
  <2>3. C[x][i] = [pkt |-> k, id |-> (i - n) - 1] /\ (i - n) - 1 < m /\ i \in Nat
    BY <1>1, <1>2, <2>1, <2>2
  <2> QED
    BY ONLY <2>3
<1>6. ASSUME NEW x \in Places, NEW y \in Places, NEW i \in 1 .. Len(C[x]), NEW j \in 1 .. Len(C[y]),
             C[x][i] = C[y][j]
      PROVE  x = y /\ i = j
  <2>1. CASE ~New(x, i) /\ ~New(y, j)
    BY <1>4, <1>6, <2>1 DEF Once
  <2>2. CASE New(x, i) /\ New(y, j)
    <3>2. C[x][i].id = (i - n) - 1 /\ i \in Nat
      BY <1>5, <2>2, Zenon
    <3>3. C[y][j].id = (j - n) - 1 /\ j \in Nat
      BY <1>5, <2>2, Zenon
    <3>1. x = l /\ y = l /\ (i - n) - 1 = (j - n) - 1 /\ i \in Nat /\ j \in Nat
      BY <1>6, <2>2, <3>2, <3>3, Zenon
    <3> QED
      BY ONLY <1>1, <3>1
  <2>3. CASE ~(New(x, i) <=> New(y, j))
    <3>1. (C[x][i].pkt = k) <=> New(x, i)
      BY <1>4, <1>5, Zenon
    <3>2. (C[y][j].pkt = k) <=> New(y, j)
      BY <1>4, <1>5, Zenon
    <3> QED
      BY <1>6, <2>3, <3>1, <3>2, Zenon
  <2> QED
    BY <2>1, <2>2, <2>3, Zenon
<1>7. ASSUME NEW f \in Flying(C) PROVE f \in Flying(B) \/ (f.pkt = k /\ f.id < m)
  <2>1. PICK x \in Places : \E i \in 1 .. Len(C[x]) : C[x][i] = f
    BY DEF Flying
  <2>4. PICK i \in 1 .. Len(C[x]) : C[x][i] = f
    BY <2>1, Zenon
  <2>2. CASE New(x, i)
    <3>1. C[x][i].pkt = k /\ C[x][i].id = (i - n) - 1 /\ (i - n) - 1 < m
      BY <1>5, <2>2, Zenon
    <3> QED
      BY ONLY <2>4, <3>1
  <2>3. CASE ~New(x, i)
    BY <1>4, <2>3, <2>4
  <2> QED
    BY <2>2, <2>3, Zenon
<1> QED
  BY <1>6, <1>7, Zenon DEF Once, m

\* The state of the routers as far as worms go, with the two functions.
Worming(ib, ob, oc, av, gi, go) ==
    /\ ib \in [Channels -> Seq(Flit)] /\ ob \in [Channels -> Seq(Flit)]
    /\ oc \in [Channels -> (Ports \X VCs) \cup {NoChannel}]
    /\ av \in [Channels -> BOOLEAN]
    /\ gi \in [Channels -> Mark] /\ go \in [Channels -> Mark]

\* An input channel c with content b and route oc that expects e.
InputOk(c, b, oc, e) ==
    /\ Chain(b, e)
    /\ c[2] = LocalPort => e.id = 0
    /\ oc = NoChannel => NextOf(b, e).id = 0

\* An output channel with content b that expects e and is free if a.
OutputOk(b, a, e) == Run(b, e) /\ (a => b = <<>> /\ e.id = 0)

\* Input channel c, with content b and expecting e, holds output channel o,
\* with content w, expecting g and free if a.
ClaimOk(c, o, b, e, w, g, a) ==
    /\ ~a /\ Fits(g, NextOf(b, e))
    /\ g.id = 0 => w = <<>> /\ b # <<>>
    /\ o[2] = LocalPort => Dst[NextOf(b, e).pkt] = c[1]

\* The output channel that route oc of input channel c stands for.
Out(c, oc) == <<c[1], oc[1], oc[2]>>

Inputs(ib, oc, gi) == \A c \in Channels : InputOk(c, ib[c], oc[c], gi[c])

Outputs(ob, av, go) == \A o \in Channels : OutputOk(ob[o], av[o], go[o])

Claims(ib, ob, oc, av, gi, go) ==
    \A c \in Channels :
        oc[c] # NoChannel =>
            /\ Out(c, oc[c]) \in Channels
            /\ ClaimOk(c, Out(c, oc[c]), ib[c], gi[c], ob[Out(c, oc[c])],
                       go[Out(c, oc[c])], av[Out(c, oc[c])])

Alone(oc) ==
    \A c, d \in Channels :
        oc[c] # NoChannel /\ oc[d] # NoChannel /\ Out(c, oc[c]) = Out(d, oc[d]) => c = d

Links(ob, gi, go) ==
    \A o \in Channels : o[2] # LocalPort => Fits(gi[Peer(o)], NextOf(ob[o], go[o]))

Worms(ib, ob, oc, av, gi, go) ==
    /\ Worming(ib, ob, oc, av, gi, go)
    /\ Inputs(ib, oc, gi) /\ Outputs(ob, av, go)
    /\ Claims(ib, ob, oc, av, gi, go) /\ Alone(oc) /\ Links(ob, gi, go)

\* g is f but for v at c.
Put(f, g, c, v) == g[c] = v /\ \A x \in Channels : x # c => g[x] = f[x]

\* An update is a Put.
LEMMA Puts ==
    ASSUME NEW S, NEW f \in [Channels -> S], NEW c \in Channels, NEW v
    PROVE  Put(f, [f EXCEPT ![c] = v], c, v)
  BY DEF Put

\* An empty input channel that holds an output channel has a packet on its way.
LEMMA ClaimOpen ==
    ASSUME NEW c, NEW o, NEW b, NEW e, NEW w, NEW g, NEW a, ClaimOk(c, o, b, e, w, g, a)
    PROVE  b # <<>> \/ e.id # 0
  BY DEF ClaimOk, Fits, NextOf

\* More flits come in behind the one that leaves next.
LEMMA ClaimFed ==
    ASSUME NEW c, NEW o, NEW b, NEW e, NEW w, NEW g, NEW a, ClaimOk(c, o, b, e, w, g, a),
           NEW t, NEW h, t # <<>>, NextOf(t, h) = NextOf(b, e)
    PROVE  ClaimOk(c, o, t, h, w, g, a)
  BY Zenon DEF ClaimOk

\* A flit that is no tail crosses the switch.
LEMMA ClaimMoved ==
    ASSUME NEW c, NEW o, NEW b \in Seq(Flit), NEW e, NEW w \in Seq(Flit), NEW g, NEW a,
           ClaimOk(c, o, b, e, w, g, a), b # <<>>, Chain(b, e), ~IsTail(b[1])
    PROVE  ClaimOk(c, o, Tail(b), e, Append(w, b[1]), After(b[1]), a)
<1>1. b[1] \in Flit
  BY TailAt
<1>2. After(b[1]).pkt = b[1].pkt /\ After(b[1]).id # 0
  BY <1>1, FlitParts
<1>3. Fits(After(b[1]), NextOf(Tail(b), e))
  BY ChainTail, Zenon
<1>4. NextOf(Tail(b), e) = After(b[1])
  BY <1>2, <1>3 DEF Fits
<1>5. NextOf(b, e) = b[1]
  BY DEF NextOf
<1> QED
  BY <1>2, <1>3, <1>4, <1>5, Zenon DEF ClaimOk

\* A flit leaves a channel that is held.
LEMMA ClaimDrained ==
    ASSUME NEW c, NEW o, NEW b, NEW e, NEW w, NEW g, NEW a,
           ClaimOk(c, o, b, e, w, g, a), w # <<>>
    PROVE  g.id # 0 /\ ClaimOk(c, o, b, e, Tail(w), g, a)
  BY Zenon DEF ClaimOk

\* local_packet_injection: a packet comes in at the local port.
LEMMA WormsInjected ==
    ASSUME NEW ib, NEW ob, NEW oc, NEW av, NEW gi, NEW go, Worms(ib, ob, oc, av, gi, go),
           NEW l \in Channels, l[2] = LocalPort, NEW k \in Packets,
           NEW jb \in [Channels -> Seq(Flit)], Put(ib, jb, l, ib[l] \o PacketFlits(k))
    PROVE  Worms(jb, ob, oc, av, gi, go)
<1>1. /\ Worming(ib, ob, oc, av, gi, go) /\ Inputs(ib, oc, gi) /\ Outputs(ob, av, go)
      /\ Claims(ib, ob, oc, av, gi, go) /\ Alone(oc) /\ Links(ob, gi, go)
  BY Zenon DEF Worms
<1>2. jb[l] = ib[l] \o PacketFlits(k) /\ \A x \in Channels : x # l => jb[x] = ib[x]
  BY DEF Put
<1>3. InputOk(l, ib[l], oc[l], gi[l]) /\ ib[l] \in Seq(Flit)
  BY <1>1, Zenon DEF Inputs, Worming
<1>4. gi[l].id = 0 /\ Chain(ib[l], gi[l])
  BY <1>3, Zenon DEF InputOk
<1>5. /\ jb[l] # <<>> /\ Chain(jb[l], gi[l])
      /\ jb[l][1] = IF ib[l] = <<>> THEN [pkt |-> k, id |-> 0] ELSE ib[l][1]
  BY <1>2, <1>3, <1>4, ChainPacket, ZenonT(60)
<1>6. ib[l] # <<>> => NextOf(jb[l], gi[l]) = NextOf(ib[l], gi[l])
  BY <1>5 DEF NextOf
<1>7. ib[l] = <<>> => NextOf(jb[l], gi[l]).id = 0
  BY <1>5 DEF NextOf
<1>8. InputOk(l, jb[l], oc[l], gi[l])
  BY <1>3, <1>5, <1>6, <1>7, Zenon DEF InputOk
<1>9. Inputs(jb, oc, gi)
  BY <1>1, <1>2, <1>8, Zenon DEF Inputs
<1>10. Claims(jb, ob, oc, av, gi, go)
  <2> SUFFICES ASSUME NEW c \in Channels, oc[c] # NoChannel
               PROVE  /\ Out(c, oc[c]) \in Channels
                      /\ ClaimOk(c, Out(c, oc[c]), jb[c], gi[c], ob[Out(c, oc[c])],
                                 go[Out(c, oc[c])], av[Out(c, oc[c])])
    BY Zenon DEF Claims
  <2> DEFINE o == Out(c, oc[c])
  <2>1. o \in Channels /\ ClaimOk(c, o, ib[c], gi[c], ob[o], go[o], av[o])
    BY <1>1, Zenon DEF Claims
  <2> HIDE DEF o
  <2>2. CASE c # l
    BY <1>2, <2>1, <2>2, Zenon DEF o
  <2>3. CASE c = l
    <3>1. ib[l] # <<>>
      BY <1>4, <2>1, <2>3, ClaimOpen, Zenon
    <3>2. ClaimOk(c, o, jb[l], gi[l], ob[o], go[o], av[o])
      BY <1>5, <1>6, <2>1, <2>3, <3>1, ClaimFed, Zenon
    <3> QED
      BY <2>1, <2>3, <3>2, Zenon DEF o
  <2> QED
    BY <2>2, <2>3, Zenon
<1>11. Worming(jb, ob, oc, av, gi, go)
  BY <1>1 DEF Worming
<1> QED
  BY <1>1, <1>9, <1>10, <1>11, Zenon DEF Worms

\* stage_vca: the input channel c gets the free output channel q.
LEMMA WormsAllocated ==
    ASSUME NEW ib, NEW ob, NEW oc, NEW av, NEW gi, NEW go, Worms(ib, ob, oc, av, gi, go),
           NEW c \in Channels, NEW q \in Channels, av[q], oc[c] = NoChannel,
           ib[c] # <<>>, ib[c][1].id = 0, c[1] = q[1],
           q[2] = LocalPort => Dst[ib[c][1].pkt] = c[1],
           NEW od \in [Channels -> (Ports \X VCs) \cup {NoChannel}], Put(oc, od, c, <<q[2], q[3]>>),
           NEW aw \in [Channels -> BOOLEAN], Put(av, aw, q, FALSE)
    PROVE  Worms(ib, ob, od, aw, gi, go)
<1>1. /\ Worming(ib, ob, oc, av, gi, go) /\ Inputs(ib, oc, gi) /\ Outputs(ob, av, go)
      /\ Claims(ib, ob, oc, av, gi, go) /\ Alone(oc) /\ Links(ob, gi, go)
  BY Zenon DEF Worms
<1>2. od[c] = <<q[2], q[3]>> /\ \A x \in Channels : x # c => od[x] = oc[x]
  BY Zenon DEF Put
<1>3. aw[q] = FALSE /\ \A x \in Channels : x # q => aw[x] = av[x]
  BY Zenon DEF Put
<1>4. Out(c, od[c]) = q /\ od[c] # NoChannel
  <2>1. q = <<q[1], q[2], q[3]>> /\ q[2] \in Ports /\ q[3] \in VCs
    BY ChannelParts, Zenon
  <2> QED
    BY <1>2, <2>1, SizesAssumption DEF Out
<1>5. ob[q] = <<>> /\ go[q].id = 0
  BY <1>1, Zenon DEF Outputs, OutputOk
<1>6. NextOf(ib[c], gi[c]) = ib[c][1]
  BY Zenon DEF NextOf
<1>7. ClaimOk(c, q, ib[c], gi[c], ob[q], go[q], aw[q])
  BY <1>3, <1>5, <1>6, Zenon DEF ClaimOk, Fits
<1>8. ASSUME NEW x \in Channels, x # c, od[x] # NoChannel
      PROVE  /\ od[x] = oc[x] /\ Out(x, od[x]) \in Channels /\ Out(x, od[x]) # q
             /\ ClaimOk(x, Out(x, od[x]), ib[x], gi[x], ob[Out(x, od[x])],
                        go[Out(x, od[x])], aw[Out(x, od[x])])
  <2>1. od[x] = oc[x]
    BY <1>2, <1>8
  <2> DEFINE o == Out(x, oc[x])
  <2>2. o \in Channels /\ ClaimOk(x, o, ib[x], gi[x], ob[o], go[o], av[o])
    BY <1>1, <1>8, <2>1, Zenon DEF Claims
  <2>3. o # q
    BY <2>2, Zenon DEF ClaimOk
  <2> HIDE DEF o
  <2>4. ClaimOk(x, o, ib[x], gi[x], ob[o], go[o], aw[o])
    BY <1>3, <2>2, <2>3
  <2> QED
    BY <2>1, <2>2, <2>3, <2>4, Zenon DEF o
<1>9. Claims(ib, ob, od, aw, gi, go)
  BY <1>4, <1>7, <1>8, Zenon DEF Claims
<1>10. Alone(od)
  <2> SUFFICES ASSUME NEW x \in Channels, NEW y \in Channels, od[x] # NoChannel, od[y] # NoChannel,
                      Out(x, od[x]) = Out(y, od[y])
               PROVE  x = y
    BY Zenon DEF Alone
  <2>1. CASE x = c \/ y = c
    BY <1>4, <1>8, <2>1, Zenon
  <2>2. CASE x # c /\ y # c
    <3>1. od[x] = oc[x] /\ od[y] = oc[y]
      BY <1>2, <2>2, Zenon
    <3>2. Out(x, oc[x]) = Out(y, oc[y]) /\ oc[x] # NoChannel /\ oc[y] # NoChannel
      BY <3>1
    <3> QED
      BY <1>1, <3>2, Zenon DEF Alone
  <2> QED
    BY <2>1, <2>2
<1>11. Inputs(ib, od, gi)
  BY <1>1, <1>2, <1>4, Zenon DEF Inputs, InputOk
<1>12. Outputs(ob, aw, go)
  <2>1. ASSUME NEW o \in Channels PROVE OutputOk(ob[o], aw[o], go[o])
    BY <1>1, <1>3, Zenon DEF Outputs, OutputOk
  <2> QED
    BY <2>1, Zenon DEF Outputs
<1>13. Worming(ib, ob, od, aw, gi, go)
  BY <1>1 DEF Worming
<1> QED
  BY <1>1, <1>9, <1>10, <1>11, <1>12, <1>13, Zenon DEF Worms

\* The first flit f of input channel c goes to the output channel o that c holds.
FlitSwitched(ib, ob, oc, go, c, o, f, jb, pb, od, gp) ==
    /\ oc[c] # NoChannel /\ ib[c] # <<>> /\ o = Out(c, oc[c]) /\ f = ib[c][1]
    /\ jb \in [Channels -> Seq(Flit)] /\ Put(ib, jb, c, Tail(ib[c]))
    /\ pb \in [Channels -> Seq(Flit)] /\ Put(ob, pb, o, Append(ob[o], f))
    /\ od \in [Channels -> (Ports \X VCs) \cup {NoChannel}]
    /\ od = IF IsTail(f) THEN [oc EXCEPT ![c] = NoChannel] ELSE oc
    /\ gp \in [Channels -> Mark] /\ Put(go, gp, o, After(f))

\* stage_sa and stage_st.
LEMMA WormsSwitched ==
    ASSUME NEW ib, NEW ob, NEW oc, NEW av, NEW gi, NEW go, Worms(ib, ob, oc, av, gi, go),
           NEW c \in Channels, NEW o, NEW f, NEW jb, NEW pb, NEW od, NEW gp,
           FlitSwitched(ib, ob, oc, go, c, o, f, jb, pb, od, gp)
    PROVE  Worms(jb, pb, od, av, gi, gp)
<1> USE DEF FlitSwitched
<1>1. /\ Worming(ib, ob, oc, av, gi, go) /\ Inputs(ib, oc, gi) /\ Outputs(ob, av, go)
      /\ Claims(ib, ob, oc, av, gi, go) /\ Alone(oc) /\ Links(ob, gi, go)
  BY Zenon DEF Worms
<1>2. jb[c] = Tail(ib[c]) /\ \A x \in Channels : x # c => jb[x] = ib[x]
  BY Zenon DEF Put
<1>3. /\ pb[o] = Append(ob[o], f) /\ gp[o] = After(f)
      /\ \A x \in Channels : x # o => pb[x] = ob[x] /\ gp[x] = go[x]
  BY Zenon DEF Put
<1>4. /\ IsTail(f) => od[c] = NoChannel
      /\ ~IsTail(f) => od[c] = oc[c]
      /\ \A x \in Channels : x # c => od[x] = oc[x]
  BY <1>1 DEF Worming
<1>5. o \in Channels /\ ClaimOk(c, o, ib[c], gi[c], ob[o], go[o], av[o])
  BY <1>1, Zenon DEF Claims
<1>6. ib[c] \in Seq(Flit) /\ ob[o] \in Seq(Flit) /\ f \in Flit
  BY <1>1, <1>5, TailAt DEF Worming
<1>7. InputOk(c, ib[c], oc[c], gi[c]) /\ OutputOk(ob[o], av[o], go[o])
  BY <1>1, <1>5, Zenon DEF Inputs, Outputs
<1>8. Chain(jb[c], gi[c]) /\ Fits(After(f), NextOf(jb[c], gi[c]))
  BY <1>2, <1>6, <1>7, ChainTail, Zenon DEF InputOk
<1>9. IsTail(f) => After(f).id = 0
  BY <1>6, FlitParts, Zenon
<1>10. NextOf(ib[c], gi[c]) = f
  BY Zenon DEF NextOf
<1>11. Fits(go[o], f) /\ ~av[o] /\ (ob[o] = <<>> \/ (go[o].id # 0 /\ f = go[o]))
  BY <1>5, <1>10, Zenon DEF ClaimOk, Fits
<1>12. Inputs(jb, od, gi)
  <2>1. InputOk(c, jb[c], od[c], gi[c])
    BY <1>4, <1>7, <1>8, <1>9, Zenon DEF InputOk, Fits
  <2> QED
    BY <1>1, <1>2, <1>4, <2>1, Zenon DEF Inputs
<1>13. Outputs(pb, av, gp)
  <2>1. Run(pb[o], gp[o])
    BY <1>3, <1>6, <1>7, <1>11, RunAppend, Zenon DEF OutputOk
  <2>2. OutputOk(pb[o], av[o], gp[o])
    BY <1>11, <2>1, Zenon DEF OutputOk
  <2> QED
    BY <1>1, <1>3, <2>2, Zenon DEF Outputs
<1>14. Claims(jb, pb, od, av, gi, gp)
  <2> SUFFICES ASSUME NEW x \in Channels, od[x] # NoChannel
               PROVE  /\ Out(x, od[x]) \in Channels
                      /\ ClaimOk(x, Out(x, od[x]), jb[x], gi[x], pb[Out(x, od[x])],
                                 gp[Out(x, od[x])], av[Out(x, od[x])])
    BY Zenon DEF Claims
  <2>1. CASE x = c
    <3>1. ~IsTail(f) /\ Out(x, od[x]) = o
      BY <1>4, <2>1, Zenon
    <3>2. ClaimOk(c, o, jb[c], gi[c], pb[o], gp[o], av[o])
      BY <1>2, <1>3, <1>5, <1>6, <1>7, <3>1, ClaimMoved, Zenon DEF InputOk
    <3> QED
      BY <1>5, <2>1, <3>1, <3>2, Zenon
  <2>2. CASE x # c
    <3> DEFINE p == Out(x, oc[x])
    <3>1. od[x] = oc[x] /\ oc[x] # NoChannel
      BY <1>4, <2>2
    <3>2. p \in Channels /\ ClaimOk(x, p, ib[x], gi[x], ob[p], go[p], av[p])
      BY <1>1, <3>1, Zenon DEF Claims
    <3>3. p # o
      BY <1>1, <2>2, <3>1, Zenon DEF Alone
    <3> HIDE DEF p
    <3>4. ClaimOk(x, p, jb[x], gi[x], pb[p], gp[p], av[p])
      BY <1>2, <1>3, <2>2, <3>2, <3>3, Zenon
    <3> QED
      BY <3>1, <3>2, <3>4, Zenon DEF p
  <2> QED
    BY <2>1, <2>2, Zenon
<1>15. Alone(od)
  BY <1>1, <1>4, Zenon DEF Alone
<1>16. Links(pb, gi, gp)
  <2>1. Fits(NextOf(ob[o], go[o]), NextOf(pb[o], gp[o]))
    BY <1>3, <1>6, <1>11, NextAppend, Zenon
  <2>2. ASSUME o[2] # LocalPort PROVE Fits(gi[Peer(o)], NextOf(pb[o], gp[o]))
    BY <1>1, <1>5, <2>1, <2>2, FitsOn, Zenon DEF Links
  <2>3. ASSUME NEW x \in Channels, x[2] # LocalPort PROVE Fits(gi[Peer(x)], NextOf(pb[x], gp[x]))
    BY <1>1, <1>3, <2>2, <2>3, Zenon DEF Links
  <2> QED
    BY <2>3, Zenon DEF Links
<1>17. Worming(jb, pb, od, av, gi, gp)
  BY <1>1, Zenon DEF Worming
<1> QED
  BY <1>12, <1>13, <1>14, <1>15, <1>16, <1>17, Zenon DEF Worms

\* The first flit f of c leaves, the channel is free after a tail.
FlitLeft(ob, av, c, f, pb, aw) ==
    /\ ob[c] # <<>> /\ f = ob[c][1]
    /\ \A i \in 1 .. Len(ob[c]) : ob[c][i].id < NumFlit[ob[c][i].pkt]
    /\ pb \in [Channels -> Seq(Flit)] /\ Put(ob, pb, c, Tail(ob[c]))
    /\ aw \in [Channels -> BOOLEAN]
    /\ aw = IF IsTail(f) THEN [av EXCEPT ![c] = TRUE] ELSE av

\* Behind f come the flits b, then those expected as e.
Behind(f, b, e) == Fits(After(f), NextOf(b, e)) /\ (IsTail(f) => b = <<>> /\ e.id = 0)

\* stage_lt, at the output channels.
LEMMA WormsLeft ==
    ASSUME NEW ib, NEW ob, NEW oc, NEW av, NEW gi, NEW go, Worms(ib, ob, oc, av, gi, go),
           NEW c \in Channels, NEW f, NEW pb, NEW aw, FlitLeft(ob, av, c, f, pb, aw)
    PROVE  Outputs(pb, aw, go) /\ Claims(ib, pb, oc, aw, gi, go) /\ Behind(f, pb[c], go[c])
<1> USE DEF FlitLeft
<1>1. /\ Worming(ib, ob, oc, av, gi, go) /\ Inputs(ib, oc, gi) /\ Outputs(ob, av, go)
      /\ Claims(ib, ob, oc, av, gi, go) /\ Alone(oc) /\ Links(ob, gi, go)
  BY Zenon DEF Worms
<1>2. pb[c] = Tail(ob[c]) /\ \A x \in Channels : x # c => pb[x] = ob[x]
  BY DEF Put
<1>3. /\ ~IsTail(f) => aw[c] = av[c]
      /\ \A x \in Channels : x # c => aw[x] = av[x]
  BY <1>1, Zenon DEF Worming
<1>4. OutputOk(ob[c], av[c], go[c]) /\ ob[c] \in Seq(Flit) /\ go[c] \in Mark
  BY <1>1 DEF Outputs, Worming
<1>5. /\ Run(pb[c], go[c]) /\ Fits(After(f), NextOf(pb[c], go[c]))
      /\ IsTail(f) => pb[c] = <<>> /\ go[c].id = 0
  BY <1>2, <1>4, RunTail, Zenon DEF OutputOk
<1>6. ~av[c]
  BY <1>4, Zenon DEF OutputOk
<1>7. OutputOk(pb[c], aw[c], go[c])
  BY <1>3, <1>5, <1>6, Zenon DEF OutputOk
<1>8. Outputs(pb, aw, go)
  BY <1>1, <1>2, <1>3, <1>7, Zenon DEF Outputs
<1>9. Claims(ib, pb, oc, aw, gi, go)
  <2> SUFFICES ASSUME NEW x \in Channels, oc[x] # NoChannel
               PROVE  /\ Out(x, oc[x]) \in Channels
                      /\ ClaimOk(x, Out(x, oc[x]), ib[x], gi[x], pb[Out(x, oc[x])],
                                 go[Out(x, oc[x])], aw[Out(x, oc[x])])
    BY Zenon DEF Claims
  <2> DEFINE p == Out(x, oc[x])
  <2>1. p \in Channels /\ ClaimOk(x, p, ib[x], gi[x], ob[p], go[p], av[p])
    BY <1>1, Zenon DEF Claims
  <2> HIDE DEF p
  <2>2. CASE p # c
    BY <1>2, <1>3, <2>1, <2>2, Zenon DEF p
  <2>3. CASE p = c
    <3>3. ClaimOk(x, p, ib[x], gi[x], ob[c], go[c], av[c])
      BY <2>1, <2>3, Zenon
    <3>1. go[c].id # 0 /\ ClaimOk(x, p, ib[x], gi[x], pb[c], go[c], av[c])
      BY <1>2, <3>3, ClaimDrained, ZenonT(60)
    <3>2. aw[c] = av[c]
      BY <1>3, <1>5, <3>1, Zenon
    <3> QED
      BY <2>1, <2>3, <3>1, <3>2, Zenon DEF p
  <2> QED
    BY <2>2, <2>3, Zenon
<1> QED
  BY <1>5, <1>8, <1>9, Zenon DEF Behind

\* stage_lt at the local port: the input channels do not change.
LEMMA WormsEjected ==
    ASSUME NEW ib, NEW ob, NEW oc, NEW av, NEW gi, NEW go, Worms(ib, ob, oc, av, gi, go),
           NEW c \in Channels, c[2] = LocalPort, NEW f, NEW pb, NEW aw, FlitLeft(ob, av, c, f, pb, aw)
    PROVE  Worms(ib, pb, oc, aw, gi, go)
<1>1. /\ Worming(ib, ob, oc, av, gi, go) /\ Inputs(ib, oc, gi) /\ Alone(oc) /\ Links(ob, gi, go)
  BY DEF Worms
<1>2. Outputs(pb, aw, go) /\ Claims(ib, pb, oc, aw, gi, go) /\ Behind(f, pb[c], go[c])
  BY WormsLeft, Zenon
<1> USE DEF FlitLeft
<1>3. Links(pb, gi, go)
  BY <1>1, Zenon DEF Links, Put
<1>4. Worming(ib, pb, oc, aw, gi, go)
  BY <1>1 DEF Worming
<1> QED
  BY <1>1, <1>2, <1>3, <1>4, Zenon DEF Worms

\* stage_lt at a link: the flit goes to the input channel of the neighbour.
LEMMA WormsLinked ==
    ASSUME NEW ib, NEW ob, NEW oc, NEW av, NEW gi, NEW go, Worms(ib, ob, oc, av, gi, go),
           NEW c \in Channels, c[2] # LocalPort, NEW f, NEW pb, NEW aw, FlitLeft(ob, av, c, f, pb, aw),
           NEW p, p = Peer(c),
           NEW jb \in [Channels -> Seq(Flit)], Put(ib, jb, p, Append(ib[p], f)),
           NEW gj \in [Channels -> Mark], Put(gi, gj, p, After(f))
    PROVE  Worms(jb, pb, oc, aw, gj, go)
<1>1. /\ Worming(ib, ob, oc, av, gi, go) /\ Inputs(ib, oc, gi) /\ Alone(oc) /\ Links(ob, gi, go)
  BY DEF Worms
<1>2. Outputs(pb, aw, go) /\ Claims(ib, pb, oc, aw, gi, go) /\ Behind(f, pb[c], go[c])
  BY WormsLeft, Zenon
<1> USE DEF FlitLeft
<1>3. /\ jb[p] = Append(ib[p], f) /\ gj[p] = After(f)
      /\ \A x \in Channels : x # p => jb[x] = ib[x] /\ gj[x] = gi[x]
  BY Zenon DEF Put
<1>4. \A x \in Channels : x # c => pb[x] = ob[x]
  BY DEF Put
<1>5. p \in Channels /\ p[2] # LocalPort
  BY ChannelParts, PeerIsMutual, Zenon DEF Linked
<1>6. f \in Flit /\ ib[p] \in Seq(Flit) /\ ob[c] \in Seq(Flit)
  BY <1>1, <1>5, TailAt DEF Worming
<1>7. Fits(gi[p], f)
  <2>1. NextOf(ob[c], go[c]) = f
    BY Zenon DEF NextOf
  <2> QED
    BY <1>1, <2>1, Zenon DEF Links
<1>8. /\ Fits(NextOf(ib[p], gi[p]), NextOf(jb[p], gj[p]))
      /\ ib[p] # <<>> \/ gi[p].id # 0 => NextOf(jb[p], gj[p]) = NextOf(ib[p], gi[p])
  BY ONLY <1>3, <1>6, <1>7, NextAppend
<1>9. Inputs(jb, oc, gj)
  <2>1. InputOk(p, ib[p], oc[p], gi[p])
    BY <1>1, <1>5, Zenon DEF Inputs
  <2>2. Chain(jb[p], gj[p])
    BY <1>3, <1>6, <1>7, <2>1, ChainAppend, Zenon DEF InputOk
  <2>3. oc[p] = NoChannel => NextOf(jb[p], gj[p]).id = 0
    BY <1>8, <2>1, Zenon DEF InputOk, Fits
  <2>4. InputOk(p, jb[p], oc[p], gj[p])
    BY <1>5, <2>2, <2>3, Zenon DEF InputOk
  <2> QED
    BY <1>1, <1>3, <2>4, Zenon DEF Inputs
<1>10. Claims(jb, pb, oc, aw, gj, go)
  <2> SUFFICES ASSUME NEW x \in Channels, oc[x] # NoChannel
               PROVE  /\ Out(x, oc[x]) \in Channels
                      /\ ClaimOk(x, Out(x, oc[x]), jb[x], gj[x], pb[Out(x, oc[x])],
                                 go[Out(x, oc[x])], aw[Out(x, oc[x])])
    BY Zenon DEF Claims
  <2> DEFINE o == Out(x, oc[x])
  <2>1. o \in Channels /\ ClaimOk(x, o, ib[x], gi[x], pb[o], go[o], aw[o])
    BY <1>2, Zenon DEF Claims
  <2> HIDE DEF o
  <2>2. CASE x # p
    BY <1>3, <2>1, <2>2, Zenon DEF o
  <2>3. CASE x = p
    <3>1. ClaimOk(x, o, ib[p], gi[p], pb[o], go[o], aw[o])
      BY <2>1, <2>3, Zenon
    <3>2. ib[p] # <<>> \/ gi[p].id # 0
      BY <3>1, ClaimOpen, Zenon
    <3>3. jb[p] # <<>> /\ NextOf(jb[p], gj[p]) = NextOf(ib[p], gi[p])
      BY <1>3, <1>6, <1>8, <3>2, AppendAt, ZenonT(60)
    <3>4. ClaimOk(x, o, jb[p], gj[p], pb[o], go[o], aw[o])
      BY <3>1, <3>3, ClaimFed, Zenon
    <3> QED
      BY <2>1, <2>3, <3>4, Zenon DEF o
  <2> QED
    BY <2>2, <2>3, Zenon
<1>11. Links(pb, gj, go)
  <2>1. ASSUME NEW x \in Channels, x[2] # LocalPort, x # c PROVE Peer(x) \in Channels /\ Peer(x) # p
    <3>1. Peer(Peer(x)) = x /\ Peer(Peer(c)) = c /\ Peer(x) \in Channels
      BY <2>1, ChannelParts, PeerIsMutual, Zenon
    <3> QED
      BY <2>1, <3>1
  <2>2. ASSUME NEW x \in Channels, x[2] # LocalPort PROVE Fits(gj[Peer(x)], NextOf(pb[x], go[x]))
    <3>1. CASE x = c
      BY <1>2, <1>3, <3>1, Zenon DEF Behind
    <3>2. CASE x # c
      BY <1>1, <1>3, <1>4, <2>1, <2>2, <3>2, Zenon DEF Links
    <3> QED
      BY <3>1, <3>2, Zenon
  <2> QED
    BY <2>2, Zenon DEF Links
<1>12. Worming(jb, pb, oc, aw, gj, go)
  BY <1>1, Zenon DEF Worming
<1> QED
  BY <1>1, <1>2, <1>9, <1>10, <1>11, <1>12, Zenon DEF Worms

\* What leaves next is a flit of a packet, unless any head may come.
LEMMA NextKnown ==
    ASSUME NEW b \in Seq(Flit), NEW e \in Mark, b # <<>> \/ e.id # 0
    PROVE  NextOf(b, e).pkt \in Packets /\ NextOf(b, e).id \in Nat
<1>1. CASE b = <<>>
  BY <1>1, Zenon DEF NextOf, Mark
<1>2. CASE b # <<>>
  <2>1. b[1] \in Flit
    BY <1>2, TailAt, Zenon
  <2> QED
    BY <1>2, <2>1, FlitParts, Zenon DEF NextOf
<1> QED
  BY <1>1, <1>2

In(c) == <<"in", c>>
AtOut(c) == <<"out", c>>

\* The buffers are told apart by their places.
LEMMA PlacesAre ==
    /\ \A c \in Channels : In(c) \in Places /\ AtOut(c) \in Places
    /\ \A p \in Places : \E c \in Channels : p = In(c) \/ p = AtOut(c)
    /\ \A c, d \in Channels : /\ In(c) # AtOut(d)
                              /\ In(c) = In(d) => c = d
                              /\ AtOut(c) = AtOut(d) => c = d
<1>1. ASSUME NEW p \in Places PROVE p[2] \in Channels /\ (p = In(p[2]) \/ p = AtOut(p[2]))
  BY DEF Places, In, AtOut
<1>2. \A c \in Channels : In(c) \in Places /\ AtOut(c) \in Places
  BY DEF Places, In, AtOut
<1>3. \A c, d \in Channels : /\ In(c) # AtOut(d)
                             /\ In(c) = In(d) => c = d
                             /\ AtOut(c) = AtOut(d) => c = d
  BY DEF In, AtOut
<1>4. \A p \in Places : \E c \in Channels : p = In(c) \/ p = AtOut(c)
  BY <1>1, Zenon
<1> QED
  BY <1>2, <1>3, <1>4, Zenon

\* B holds the input buffers ib and the output buffers ob.
Holds(B, ib, ob) ==
    /\ B \in [Places -> Seq(Flit)]
    /\ \A c \in Channels : B[In(c)] = ib[c] /\ B[AtOut(c)] = ob[c]

\* The places hold the buffers.
LEMMA ContentHolds ==
    ASSUME NEW ib \in [Channels -> Seq(Flit)], NEW ob \in [Channels -> Seq(Flit)]
    PROVE  Holds(Content(ib, ob), ib, ob)
<1>1. ASSUME NEW p \in Places PROVE (IF p[1] = "in" THEN ib[p[2]] ELSE ob[p[2]]) \in Seq(Flit)
  BY DEF Places
<1>2. Content(ib, ob) \in [Places -> Seq(Flit)]
  BY <1>1, Zenon DEF Content
<1>3. ASSUME NEW c \in Channels
      PROVE  Content(ib, ob)[In(c)] = ib[c] /\ Content(ib, ob)[AtOut(c)] = ob[c]
  BY Zenon DEF Content, Places, In, AtOut
<1> QED
  BY <1>2, <1>3, Zenon DEF Holds

\* Only the buffers at the places S change.
SameBut(ib, ob, jb, pb, S) ==
    \A d \in Channels :
        (In(d) \notin S => jb[d] = ib[d]) /\ (AtOut(d) \notin S => pb[d] = ob[d])

\* Buffers that are the same hold the same.
LEMMA HoldsSame ==
    ASSUME NEW B, NEW C, NEW ib, NEW ob, NEW jb, NEW pb, Holds(B, ib, ob), Holds(C, jb, pb),
           NEW S, SameBut(ib, ob, jb, pb, S)
    PROVE  Frame(B, C, S)
<1> SUFFICES ASSUME NEW x \in Places, x \notin S PROVE C[x] = B[x]
  BY Zenon DEF Frame
<1>1. PICK d \in Channels : x = In(d) \/ x = AtOut(d)
  BY PlacesAre, Zenon
<1>2. CASE x = In(d)
  BY <1>2, Zenon DEF Holds, SameBut
<1>3. CASE x = AtOut(d)
  BY <1>3, Zenon DEF Holds, SameBut
<1> QED
  BY <1>1, <1>2, <1>3

\* stage_st moves a flit, none is copied.
LEMMA ContentSwitched ==
    ASSUME NEW ib \in [Channels -> Seq(Flit)], NEW ob \in [Channels -> Seq(Flit)],
           NEW jb \in [Channels -> Seq(Flit)], NEW pb \in [Channels -> Seq(Flit)],
           NEW c \in Channels, NEW o \in Channels, ib[c] # <<>>, Once(Content(ib, ob)),
           Put(ib, jb, c, Tail(ib[c])), Put(ob, pb, o, Append(ob[o], ib[c][1]))
    PROVE  /\ Once(Content(jb, pb))
           /\ Flying(Content(jb, pb)) \subseteq Flying(Content(ib, ob))
<1> DEFINE B == Content(ib, ob)
           C == Content(jb, pb)
           p == In(c)
           q == AtOut(o)
<1>1. Holds(B, ib, ob) /\ Holds(C, jb, pb) /\ Once(B)
  BY ContentHolds, Zenon
<1> HIDE DEF B, C
<1>2. p \in Places /\ q \in Places /\ p # q
  BY PlacesAre, Zenon
<1>3. C[p] = Tail(B[p]) /\ C[q] = Append(B[q], B[p][1]) /\ B[p] # <<>>
  BY <1>1, Zenon DEF Put, Holds
<1>4. Frame(B, C, {p, q})
  <2>1. SameBut(ib, ob, jb, pb, {p, q})
    BY Zenon DEF Put, SameBut
  <2> QED
    BY <1>1, <2>1, HoldsSame, Zenon
<1> HIDE DEF p, q
<1>5. Once(C) /\ Flying(C) \subseteq Flying(B)
  BY <1>1, <1>2, <1>3, <1>4, FlitMoves, Zenon DEF Holds
<1> QED
  BY <1>5 DEF B, C

\* Nor does stage_lt copy one that it puts on a link.
LEMMA ContentLinked ==
    ASSUME NEW ib \in [Channels -> Seq(Flit)], NEW ob \in [Channels -> Seq(Flit)],
           NEW jb \in [Channels -> Seq(Flit)], NEW pb \in [Channels -> Seq(Flit)],
           NEW c \in Channels, NEW o \in Channels, ob[o] # <<>>, Once(Content(ib, ob)),
           Put(ob, pb, o, Tail(ob[o])), Put(ib, jb, c, Append(ib[c], ob[o][1]))
    PROVE  /\ Once(Content(jb, pb))
           /\ Flying(Content(jb, pb)) \subseteq Flying(Content(ib, ob))
<1> DEFINE B == Content(ib, ob)
           C == Content(jb, pb)
           p == AtOut(o)
           q == In(c)
<1>1. Holds(B, ib, ob) /\ Holds(C, jb, pb) /\ Once(B)
  BY ContentHolds, Zenon
<1> HIDE DEF B, C
<1>2. p \in Places /\ q \in Places /\ p # q
  BY PlacesAre, Zenon
<1>3. C[p] = Tail(B[p]) /\ C[q] = Append(B[q], B[p][1]) /\ B[p] # <<>>
  BY <1>1, Zenon DEF Put, Holds
<1>4. Frame(B, C, {p, q})
  <2>1. SameBut(ib, ob, jb, pb, {p, q})
    BY Zenon DEF Put, SameBut
  <2> QED
    BY <1>1, <2>1, HoldsSame, Zenon
<1> HIDE DEF p, q
<1>5. Once(C) /\ Flying(C) \subseteq Flying(B)
  BY <1>1, <1>2, <1>3, <1>4, FlitMoves, Zenon DEF Holds
<1> QED
  BY <1>5 DEF B, C

\* stage_lt at the local port takes a flit out.
LEMMA ContentEjected ==
    ASSUME NEW ib \in [Channels -> Seq(Flit)], NEW ob \in [Channels -> Seq(Flit)],
           NEW pb \in [Channels -> Seq(Flit)], NEW o \in Channels, ob[o] # <<>>,
           Once(Content(ib, ob)), Put(ob, pb, o, Tail(ob[o]))
    PROVE  /\ Once(Content(ib, pb))
           /\ Flying(Content(ib, pb)) \subseteq Flying(Content(ib, ob)) \ {ob[o][1]}
<1> DEFINE B == Content(ib, ob)
           C == Content(ib, pb)
           p == AtOut(o)
<1>1. Holds(B, ib, ob) /\ Holds(C, ib, pb) /\ Once(B)
  BY ContentHolds, Zenon
<1> HIDE DEF B, C
<1>2. p \in Places
  BY PlacesAre, Zenon
<1>3. C[p] = Tail(B[p]) /\ B[p] # <<>> /\ B[p][1] = ob[o][1]
  BY <1>1, Zenon DEF Put, Holds
<1>4. Frame(B, C, {p})
  <2>1. SameBut(ib, ob, ib, pb, {p})
    BY Zenon DEF Put, SameBut
  <2> QED
    BY <1>1, <2>1, HoldsSame, Zenon
<1> HIDE DEF p
<1>5. Once(C) /\ Flying(C) \subseteq Flying(B) \ {B[p][1]}
  BY <1>1, <1>2, <1>3, <1>4, FlitLeaves, Zenon DEF Holds
<1> QED
  BY <1>3, <1>5 DEF B, C

\* local_packet_injection adds the flits of one packet.
LEMMA ContentInjected ==
    ASSUME NEW ib \in [Channels -> Seq(Flit)], NEW ob \in [Channels -> Seq(Flit)],
           NEW jb \in [Channels -> Seq(Flit)], NEW c \in Channels, NEW k \in Packets,
           Once(Content(ib, ob)), \A f \in Flying(Content(ib, ob)) : f.pkt # k,
           Put(ib, jb, c, ib[c] \o PacketFlits(k))
    PROVE  /\ Once(Content(jb, ob))
           /\ \A f \in Flying(Content(jb, ob)) :
                f \in Flying(Content(ib, ob)) \/ (f.pkt = k /\ f.id < NumFlit[k])
<1> DEFINE B == Content(ib, ob)
           C == Content(jb, ob)
           l == In(c)
<1>1. Holds(B, ib, ob) /\ Holds(C, jb, ob) /\ Once(B) /\ \A f \in Flying(B) : f.pkt # k
  BY ContentHolds, Zenon
<1> HIDE DEF B, C
<1>2. l \in Places
  BY PlacesAre, Zenon
<1>3. C[l] = B[l] \o PacketFlits(k)
  BY <1>1, Zenon DEF Put, Holds
<1>4. Frame(B, C, {l})
  <2>1. SameBut(ib, ob, jb, ob, {l})
    BY Zenon DEF Put, SameBut
  <2> QED
    BY <1>1, <2>1, HoldsSame, Zenon
<1> HIDE DEF l
<1>5. B \in [Places -> Seq(Flit)] /\ C \in [Places -> Seq(Flit)]
  BY <1>1 DEF Holds
<1>6. Once(C) /\ \A f \in Flying(C) : f \in Flying(B) \/ (f.pkt = k /\ f.id < NumFlit[k])
  BY <1>1, <1>2, <1>3, <1>4, <1>5, PacketEnters, Zenon
<1> QED
  BY <1>6 DEF B, C

\* The flits in front of an input and an output buffer fly.
LEMMA FrontFlies ==
    ASSUME NEW ib \in [Channels -> Seq(Flit)], NEW ob \in [Channels -> Seq(Flit)], NEW c \in Channels
    PROVE  /\ \A i \in 1 .. Len(ib[c]) : ib[c][i] \in Flying(Content(ib, ob))
           /\ \A i \in 1 .. Len(ob[c]) : ob[c][i] \in Flying(Content(ib, ob))
<1> DEFINE B == Content(ib, ob)
<1>1. Holds(B, ib, ob)
  BY ContentHolds
<1> HIDE DEF B
<1>2. /\ B \in [Places -> Seq(Flit)] /\ In(c) \in Places /\ AtOut(c) \in Places
      /\ B[In(c)] = ib[c] /\ B[AtOut(c)] = ob[c]
  BY <1>1, PlacesAre, Zenon DEF Holds
<1>3. ASSUME NEW i \in 1 .. Len(ib[c]) PROVE ib[c][i] \in Flying(B)
  <2>1. i \in 1 .. Len(B[In(c)])
    BY <1>2, Zenon
  <2>2. B[In(c)][i] \in Flying(B)
    BY <1>2, <2>1, FlyingAt, Zenon
  <2> QED
    BY <1>2, <2>2, Zenon
<1>4. ASSUME NEW i \in 1 .. Len(ob[c]) PROVE ob[c][i] \in Flying(B)
  <2>1. i \in 1 .. Len(B[AtOut(c)])
    BY <1>2
  <2>2. B[AtOut(c)][i] \in Flying(B)
    BY <1>2, <2>1, FlyingAt, Zenon
  <2> QED
    BY <1>2, <2>2, Zenon
<1> QED
  BY <1>3, <1>4, Zenon DEF B

Parted(ib, ob) ==
    \A c, o \in Channels : ib[c] # <<>> /\ ob[o] # <<>> => ib[c][1] # ob[o][1]

\* A flit in front of an input buffer is in no output buffer.
LEMMA FrontOnce ==
    ASSUME NEW ib \in [Channels -> Seq(Flit)], NEW ob \in [Channels -> Seq(Flit)],
           Once(Content(ib, ob))
    PROVE  Parted(ib, ob)
<1> SUFFICES ASSUME NEW c \in Channels, NEW o \in Channels, ib[c] # <<>>, ob[o] # <<>>
             PROVE  ib[c][1] # ob[o][1]
  BY Zenon DEF Parted
<1> DEFINE B == Content(ib, ob)
<1>1. Holds(B, ib, ob) /\ Once(B)
  BY ContentHolds, Zenon
<1> HIDE DEF B
<1>2. /\ In(c) \in Places /\ AtOut(o) \in Places /\ In(c) # AtOut(o)
      /\ B[In(c)] = ib[c] /\ B[AtOut(o)] = ob[o]
  BY <1>1, PlacesAre, Zenon DEF Holds
<1>3. 1 \in 1 .. Len(ib[c]) /\ 1 \in 1 .. Len(ob[o])
  BY TailAt
<1> QED
  BY <1>1, <1>2, <1>3 DEF Once

\* Channel o of a local port, with content b and expecting e, hands out one
\* packet: low counts the flits of a packet that have left the network, exit is
\* the channel they leave by.
ExitOk(o, b, e, low, exit) ==
    b # <<>> \/ e.id # 0 =>
        /\ low[NextOf(b, e).pkt] = NextOf(b, e).id
        /\ exit[NextOf(b, e).pkt] = o /\ Dst[NextOf(b, e).pkt] = o[1]

Exits(ob, go, low, exit) ==
    \A o \in Channels : o[2] = LocalPort => ExitOk(o, ob[o], go[o], low, exit)

\* The packet of the head f leaves by o, if o is a local channel.
ExitBy(exit, f, o) == IF f.id = 0 THEN [exit EXCEPT ![f.pkt] = o] ELSE exit

\* No flit of a packet leaves before its head.
LEMMA NoneBelow ==
    ASSUME NEW m \in Nat, NEW n, m <= n, n = 0
    PROVE  m = 0
  OBVIOUS

\* stage_st, at the local ports.
LEMMA ExitsSwitched ==
    ASSUME NEW ib, NEW ob, NEW oc, NEW av, NEW gi, NEW go, Worms(ib, ob, oc, av, gi, go),
           NEW c \in Channels, NEW o, NEW f, NEW jb, NEW pb, NEW od, NEW gp,
           FlitSwitched(ib, ob, oc, go, c, o, f, jb, pb, od, gp), Once(Content(ib, ob)),
           NEW low \in [Packets -> Nat], low[f.pkt] <= f.id,
           NEW exit \in [Packets -> Channels \cup {NoChannel}], Exits(ob, go, low, exit)
    PROVE  Exits(pb, gp, low, ExitBy(exit, f, o))
<1> DEFINE ex == ExitBy(exit, f, o)
<1>0. /\ oc[c] # NoChannel /\ ib[c] # <<>> /\ o = Out(c, oc[c]) /\ f = ib[c][1]
      /\ Put(ob, pb, o, Append(ob[o], f)) /\ Put(go, gp, o, After(f))
  BY Zenon DEF FlitSwitched
<1>1. /\ ib \in [Channels -> Seq(Flit)] /\ ob \in [Channels -> Seq(Flit)] /\ go \in [Channels -> Mark]
      /\ Claims(ib, ob, oc, av, gi, go)
  BY DEF Worms, Worming
<1>2. /\ pb[o] = Append(ob[o], f) /\ gp[o] = After(f)
      /\ \A x \in Channels : x # o => pb[x] = ob[x] /\ gp[x] = go[x]
  BY <1>0, Zenon DEF Put
<1>3. o \in Channels /\ ClaimOk(c, o, ib[c], gi[c], ob[o], go[o], av[o])
  BY <1>0, <1>1, Zenon DEF Claims
<1>4. ib[c] \in Seq(Flit) /\ ob[o] \in Seq(Flit) /\ go[o] \in Mark
  BY <1>1, <1>3, Zenon
<1>5. f \in Flit /\ f.pkt \in Packets /\ f.id \in Nat /\ f = [pkt |-> f.pkt, id |-> f.id]
  BY <1>0, <1>4, TailAt, FlitParts, Zenon
<1>6. NextOf(ib[c], gi[c]) = f
  BY <1>0, Zenon DEF NextOf
<1>7. /\ Fits(go[o], f) /\ (o[2] = LocalPort => Dst[f.pkt] = c[1])
      /\ go[o].id = 0 => ob[o] = <<>>
  BY <1>3, <1>6, Zenon DEF ClaimOk
<1>8. /\ \A k \in Packets : k # f.pkt => ex[k] = exit[k]
      /\ f.id # 0 => ex = exit
      /\ f.id = 0 => ex[f.pkt] = o
  BY <1>5 DEF ExitBy
<1> HIDE DEF ex
<1>16. low[f.pkt] \in Nat /\ low[f.pkt] <= f.id
  BY <1>5, Zenon
<1>9. f.id = 0 => low[f.pkt] = 0
  BY <1>16, NoneBelow, Zenon
<1>10. o[1] = c[1]
  BY <1>0, Zenon DEF Out
<1>11. pb[o] # <<>>
  BY <1>2, <1>4, <1>5, AppendAt
<1>12. ASSUME o[2] = LocalPort PROVE ExitOk(o, pb[o], gp[o], low, ex)
  <2>1. CASE go[o].id = 0
    <3>1. f.id = 0 /\ ob[o] = <<>>
      BY <1>7, <2>1, Zenon DEF Fits
    <3>2. NextOf(pb[o], gp[o]) = f
      BY <1>2, <1>4, <1>5, <3>1, AppendAt DEF NextOf
    <3> QED
      BY <1>7, <1>8, <1>9, <1>10, <1>12, <3>1, <3>2, Zenon DEF ExitOk
  <2>2. CASE go[o].id # 0
    <3>1. f.id # 0 /\ ex = exit
      BY <1>7, <1>8, <2>2, Zenon DEF Fits
    <3>2. NextOf(pb[o], gp[o]) = NextOf(ob[o], go[o])
      BY <1>2, <1>4, <1>5, <1>7, <2>2, NextAppend
    <3>3. ExitOk(o, ob[o], go[o], low, exit)
      BY <1>3, <1>12, Zenon DEF Exits
    <3> QED
      BY <2>2, <3>1, <3>2, <3>3, Zenon DEF ExitOk
  <2> QED
    BY <2>1, <2>2, Zenon
<1>14. Parted(ib, ob)
  BY <1>1, FrontOnce, Zenon
<1>13. ASSUME NEW x \in Channels, x[2] = LocalPort, x # o PROVE ExitOk(x, pb[x], gp[x], low, ex)
  <2> DEFINE h == NextOf(ob[x], go[x])
  <2>1. pb[x] = ob[x] /\ gp[x] = go[x] /\ ExitOk(x, ob[x], go[x], low, exit)
    BY <1>2, <1>13, Zenon DEF Exits
  <2>2. ASSUME ob[x] # <<>> \/ go[x].id # 0 PROVE ex[h.pkt] = exit[h.pkt]
    <3>1. h.pkt \in Packets /\ h.id \in Nat
      BY <1>1, <2>2, NextKnown, Zenon
    <3>2. CASE h.pkt # f.pkt \/ f.id # 0
      BY <1>8, <3>1, <3>2, Zenon
    <3>3. CASE h.pkt = f.pkt /\ f.id = 0
      <4>1. h.id = 0
        BY <1>9, <2>1, <2>2, <3>3, Zenon DEF ExitOk
      <4>2. ob[x] # <<>> /\ h = ob[x][1]
        BY <2>2, <4>1, Zenon DEF NextOf
      <4>3. h \in Flit
        BY <1>1, <4>2, TailAt, Zenon
      <4>4. h = f
        BY <1>5, <3>3, <4>1, <4>3, FlitParts, Zenon
      <4>5. ib[c][1] # ob[x][1]
        BY <1>0, <1>14, <4>2, Zenon DEF Parted
      <4> QED
        BY <1>0, <4>2, <4>4, <4>5, Zenon
    <3> QED
      BY <3>2, <3>3, Zenon
  <2> QED
    BY <2>1, <2>2, Zenon DEF ExitOk
<1>15. Exits(pb, gp, low, ex)
  BY <1>12, <1>13, Zenon DEF Exits
<1> QED
  BY <1>15 DEF ex

\* One more flit, f, has left.
LowAfter(low, f) == [low EXCEPT ![f.pkt] = f.id + 1]

\* Only the count of the packet of f changes.
LEMMA LowGrows ==
    ASSUME NEW low \in [Packets -> Nat], NEW f, f.pkt \in Packets, f.id \in Nat
    PROVE  /\ LowAfter(low, f) \in [Packets -> Nat] /\ LowAfter(low, f)[f.pkt] = f.id + 1
           /\ \A k \in Packets : k # f.pkt => LowAfter(low, f)[k] = low[k]
  BY DEF LowAfter

\* f is the next flit of its packet to leave, at r.
LeavesAt(low, f, r) == low[f.pkt] = f.id /\ Dst[f.pkt] = r

\* stage_lt at the local port.
LEMMA ExitsEjected ==
    ASSUME NEW ib, NEW ob, NEW oc, NEW av, NEW gi, NEW go, Worms(ib, ob, oc, av, gi, go),
           NEW c \in Channels, c[2] = LocalPort, NEW f, NEW pb, NEW aw, FlitLeft(ob, av, c, f, pb, aw),
           NEW low \in [Packets -> Nat], NEW exit, Exits(ob, go, low, exit)
    PROVE  Exits(pb, go, LowAfter(low, f), exit) /\ LeavesAt(low, f, c[1])
<1> DEFINE lo == LowAfter(low, f)
<1>1. Outputs(pb, aw, go) /\ Claims(ib, pb, oc, aw, gi, go) /\ Behind(f, pb[c], go[c])
  BY WormsLeft, Zenon
<1>2. ob \in [Channels -> Seq(Flit)] /\ go \in [Channels -> Mark]
  BY Zenon DEF Worms, Worming
<1>3. /\ ob[c] # <<>> /\ f = ob[c][1] /\ f \in Flit
      /\ \A x \in Channels : x # c => pb[x] = ob[x]
  BY <1>2, TailAt, Zenon DEF FlitLeft, Put
<1>4. f.pkt \in Packets /\ f.id \in Nat
  BY <1>3, FlitParts, Zenon
<1>5. NextOf(ob[c], go[c]) = f
  BY <1>3, Zenon DEF NextOf
<1>6. low[f.pkt] = f.id /\ exit[f.pkt] = c /\ Dst[f.pkt] = c[1]
  BY <1>3, <1>5, Zenon DEF Exits, ExitOk
<1>7. lo[f.pkt] = f.id + 1 /\ \A k \in Packets : k # f.pkt => lo[k] = low[k]
  BY <1>4, LowGrows, Zenon
<1> HIDE DEF lo
<1>8. ExitOk(c, pb[c], go[c], lo, exit)
  <2>1. CASE IsTail(f)
    BY <1>1, <2>1, Zenon DEF ExitOk, Behind
  <2>2. CASE ~IsTail(f)
    <3>3. After(f).pkt = f.pkt /\ After(f).id = f.id + 1
      BY <1>3, <2>2, FlitParts, Zenon
    <3>4. f.id + 1 # 0
      BY ONLY <1>4
    <3>1. After(f).pkt = f.pkt /\ After(f).id = f.id + 1 /\ f.id + 1 # 0
      BY <3>3, <3>4, Zenon
    <3>2. NextOf(pb[c], go[c]) = After(f)
      BY <1>1, <3>1, Zenon DEF Fits, Behind
    <3> QED
      BY <1>6, <1>7, <3>1, <3>2, Zenon DEF ExitOk
  <2> QED
    BY <2>1, <2>2, Zenon
<1>9. ASSUME NEW x \in Channels, x[2] = LocalPort, x # c PROVE ExitOk(x, pb[x], go[x], lo, exit)
  <2> DEFINE h == NextOf(ob[x], go[x])
  <2>1. pb[x] = ob[x] /\ ExitOk(x, ob[x], go[x], low, exit)
    BY <1>3, <1>9, Zenon DEF Exits
  <2>2. ASSUME ob[x] # <<>> \/ go[x].id # 0 PROVE lo[h.pkt] = low[h.pkt]
    <3>1. h.pkt \in Packets
      BY <1>2, <2>2, NextKnown, Zenon
    <3>2. h.pkt # f.pkt
      BY <1>6, <1>9, <2>1, <2>2, Zenon DEF ExitOk
    <3> QED
      BY <1>7, <3>1, <3>2, Zenon
  <2> QED
    BY <2>1, <2>2, Zenon DEF ExitOk
<1>10. Exits(pb, go, lo, exit)
  BY <1>8, <1>9, Zenon DEF Exits
<1> QED
  BY <1>6, <1>10, Zenon DEF lo, LeavesAt

\* The packets s that router r handed to its receiver are out, at their
\* destination, and each of them once.
ReceivedAt(r, s, low) ==
    \A i \in 1 .. Len(s) :
        /\ low[s[i]] = NumFlit[s[i]] /\ Dst[s[i]] = r
        /\ \A j \in 1 .. Len(s) : s[j] = s[i] => i = j

Received(ej, low) == \A r \in Routers : ReceivedAt(r, ej[r], low)

\* A packet that is not out yet is not among them.
LEMMA ReceivedStay ==
    ASSUME NEW ej \in [Routers -> Seq(Packets)], NEW low \in [Packets -> Nat], Received(ej, low),
           NEW k \in Packets, low[k] < NumFlit[k], NEW n \in Nat
    PROVE  /\ Received(ej, [low EXCEPT ![k] = n])
           /\ \A r \in Routers : \A i \in 1 .. Len(ej[r]) : ej[r][i] # k
<1> DEFINE lo == [low EXCEPT ![k] = n]
<1>1. low[k] # NumFlit[k]
  BY SizesAssumption
<1>2. ASSUME NEW r \in Routers, NEW i \in 1 .. Len(ej[r])
      PROVE  /\ ej[r][i] # k /\ lo[ej[r][i]] = NumFlit[ej[r][i]] /\ Dst[ej[r][i]] = r
             /\ \A j \in 1 .. Len(ej[r]) : ej[r][j] = ej[r][i] => i = j
  <2>1. /\ low[ej[r][i]] = NumFlit[ej[r][i]] /\ Dst[ej[r][i]] = r
        /\ \A j \in 1 .. Len(ej[r]) : ej[r][j] = ej[r][i] => i = j
    BY Zenon DEF Received, ReceivedAt
  <2>5. ej[r] \in Seq(Packets)
    BY Zenon
  <2>2. ej[r][i] \in Packets
    BY ONLY <2>5, i \in 1 .. Len(ej[r])
  <2> DEFINE m == ej[r][i]
  <2>3. m \in Packets /\ low[m] = NumFlit[m]
    BY <2>1, <2>2, Zenon
  <2> HIDE DEF m
  <2>4. m # k /\ lo[m] = NumFlit[m]
    BY <1>1, <2>3
  <2> QED
    BY <2>1, <2>4, Zenon DEF m
<1>3. Received(ej, lo)
  BY <1>2, Zenon DEF Received, ReceivedAt
<1> QED
  BY <1>2, <1>3, Zenon

\* The tail of packet k has left at its destination r.
LEMMA ReceivedMore ==
    ASSUME NEW ej \in [Routers -> Seq(Packets)], NEW low \in [Packets -> Nat], Received(ej, low),
           NEW k \in Packets, low[k] < NumFlit[k], NEW r \in Routers, Dst[k] = r,
           NEW el, el = [ej EXCEPT ![r] = Append(@, k)]
    PROVE  Received(el, [low EXCEPT ![k] = NumFlit[k]])
<1> DEFINE lo == [low EXCEPT ![k] = NumFlit[k]]
           s == ej[r]
           t == Append(s, k)
<1>1. NumFlit[k] \in Nat
  BY SizesAssumption
<1>2. Received(ej, lo) /\ \A q \in Routers : \A i \in 1 .. Len(ej[q]) : ej[q][i] # k
  BY <1>1, ReceivedStay, Zenon
<1>3. lo[k] = NumFlit[k]
  BY Zenon
<1>4. el[r] = t /\ \A q \in Routers : q # r => el[q] = ej[q]
  OBVIOUS
<1>5. ReceivedAt(r, s, lo) /\ \A i \in 1 .. Len(s) : s[i] # k
  BY <1>2, Zenon DEF Received
<1>6. s \in Seq(Packets)
  BY Zenon
<1> HIDE DEF lo, s
<1>7. /\ Len(t) = Len(s) + 1 /\ Len(s) \in Nat /\ t[Len(s) + 1] = k
      /\ \A i \in 1 .. Len(s) : t[i] = s[i]
  BY <1>6
<1> HIDE DEF t
<1>8. ReceivedAt(r, t, lo)
  <2>1. ASSUME NEW i \in 1 .. Len(t), NEW j \in 1 .. Len(t), t[j] = t[i] PROVE i = j
    <3>1. ASSUME NEW h \in 1 .. Len(t) PROVE h = Len(s) + 1 \/ h \in 1 .. Len(s)
      BY <1>7
    <3>2. CASE i \in 1 .. Len(s) /\ j \in 1 .. Len(s)
      BY <1>5, <1>7, <2>1, <3>2 DEF ReceivedAt
    <3>3. CASE i = Len(s) + 1 /\ j = Len(s) + 1
      BY <3>3, Zenon
    <3>4. CASE i = Len(s) + 1 /\ j \in 1 .. Len(s)
      BY <1>5, <1>7, <2>1, <3>4, Zenon
    <3>5. CASE i \in 1 .. Len(s) /\ j = Len(s) + 1
      BY <1>5, <1>7, <2>1, <3>5, Zenon
    <3> QED
      BY <3>1, <3>2, <3>3, <3>4, <3>5, Zenon
  <2>2. ASSUME NEW i \in 1 .. Len(t) PROVE lo[t[i]] = NumFlit[t[i]] /\ Dst[t[i]] = r
    <3>1. CASE i = Len(s) + 1
      BY <1>3, <1>7, <3>1, Zenon
    <3>2. CASE i \in 1 .. Len(s)
      BY <1>5, <1>7, <3>2, Zenon DEF ReceivedAt
    <3> QED
      BY <1>7, <3>1, <3>2
  <2> QED
    BY <2>1, <2>2, Zenon DEF ReceivedAt
<1>9. Received(el, lo)
  BY <1>2, <1>4, <1>8, Zenon DEF Received
<1> QED
  BY <1>9, Zenon DEF lo

\* The packets in the injection buffers, each of them once.
Injected(inj) == {k \in Packets : \E r \in Routers : \E i \in 1 .. Len(inj[r]) : inj[r][i] = k}

InjectedOnce(inj) ==
    \A r, s \in Routers : \A i \in 1 .. Len(inj[r]), j \in 1 .. Len(inj[s]) :
        inj[r][i] = inj[s][j] => r = s /\ i = j

\* send puts a packet behind the others of its router.
LEMMA InjectionGrows ==
    ASSUME NEW inj \in [Routers -> Seq(Packets)], InjectedOnce(inj), NEW k \in Packets,
           k \notin Injected(inj), NEW r \in Routers, NEW ink, ink = [inj EXCEPT ![r] = Append(@, k)]
    PROVE  InjectedOnce(ink) /\ Injected(ink) = Injected(inj) \cup {k}
<1> DEFINE n == Len(inj[r]) + 1
           New(x, i) == x = r /\ i = n
<1>1. /\ \A x \in Routers : x # r => ink[x] = inj[x]
      /\ Len(ink[r]) = n /\ n \in Nat \ {0} /\ ink[r][n] = k /\ n \in 1 .. Len(ink[r])
      /\ \A i \in 1 .. Len(inj[r]) : ink[r][i] = inj[r][i]
  <2>1. inj[r] \in Seq(Packets) /\ ink[r] = Append(inj[r], k)
    OBVIOUS
  <2> QED
    BY <2>1
<1>2. ASSUME NEW x \in Routers, NEW i \in 1 .. Len(ink[x]), ~New(x, i)
      PROVE  i \in 1 .. Len(inj[x]) /\ ink[x][i] = inj[x][i] /\ ink[x][i] \in Injected(inj)
  <2>1. i \in 1 .. Len(inj[x]) /\ ink[x][i] = inj[x][i]
    <3>1. CASE x = r
      <4>1. i \in 1 .. Len(inj[r])
        BY <1>1, <1>2, <3>1
      <4> QED
        BY <1>1, <3>1, <4>1, Zenon
    <3>2. CASE x # r
      BY <1>1, <3>2, Zenon
    <3> QED
      BY <3>1, <3>2, Zenon
  <2>2. inj[x][i] \in Packets
    BY <2>1
  <2> QED
    BY <2>1, <2>2, Zenon DEF Injected
<1>3. ASSUME NEW x \in Routers, NEW i \in 1 .. Len(inj[x])
      PROVE  i \in 1 .. Len(ink[x]) /\ ink[x][i] = inj[x][i]
  BY <1>1
<1> HIDE DEF n
<1>4. ASSUME NEW x \in Routers, NEW y \in Routers, NEW i \in 1 .. Len(ink[x]), NEW j \in 1 .. Len(ink[y]),
             ink[x][i] = ink[y][j]
      PROVE  x = y /\ i = j
  <2>1. (New(x, i) <=> ink[x][i] = k) /\ (New(y, j) <=> ink[y][j] = k)
    BY <1>1, <1>2, ZenonT(60)
  <2>2. CASE New(x, i) /\ New(y, j)
    BY <2>2
  <2>3. CASE ~New(x, i) /\ ~New(y, j)
    <3>1. /\ i \in 1 .. Len(inj[x]) /\ ink[x][i] = inj[x][i]
          /\ j \in 1 .. Len(inj[y]) /\ ink[y][j] = inj[y][j]
      BY <1>2, <2>3, Zenon
    <3> QED
      BY <1>4, <3>1 DEF InjectedOnce
  <2> QED
    BY <1>4, <2>1, <2>2, <2>3, Zenon
<1>5. InjectedOnce(ink)
  BY <1>4, Zenon DEF InjectedOnce
<1>6. ASSUME NEW m \in Injected(ink) PROVE m \in Injected(inj) \/ m = k
  <2>1. PICK x \in Routers : \E i \in 1 .. Len(ink[x]) : ink[x][i] = m
    BY Zenon DEF Injected
  <2>2. PICK i \in 1 .. Len(ink[x]) : ink[x][i] = m
    BY <2>1
  <2> QED
    BY <1>1, <1>2, <2>2, Zenon
<1>7. ASSUME NEW m \in Injected(inj) PROVE m \in Injected(ink)
  <2>1. PICK x \in Routers : \E i \in 1 .. Len(inj[x]) : inj[x][i] = m
    BY Zenon DEF Injected
  <2>2. PICK i \in 1 .. Len(inj[x]) : inj[x][i] = m
    BY <2>1
  <2>3. i \in 1 .. Len(ink[x]) /\ ink[x][i] = m /\ m \in Packets
    BY <1>3, <2>2, Zenon DEF Injected
  <2> QED
    BY <2>3, Zenon DEF Injected
<1>8. k \in Injected(ink)
  BY <1>1, Zenon DEF Injected
<1> QED
  BY <1>5, <1>6, <1>7, <1>8, Zenon

\* local_packet_injection takes the packet in front.
LEMMA InjectionShrinks ==
    ASSUME NEW inj \in [Routers -> Seq(Packets)], InjectedOnce(inj), NEW r \in Routers,
           inj[r] # <<>>, NEW ink, ink = [inj EXCEPT ![r] = Tail(@)]
    PROVE  /\ InjectedOnce(ink) /\ Head(inj[r]) \in Injected(inj)
           /\ Injected(ink) \subseteq Injected(inj) \ {Head(inj[r])}
<1> DEFINE k == Head(inj[r])
           N(x, i) == IF x = r THEN i + 1 ELSE i
<1>1. /\ \A x \in Routers : x # r => ink[x] = inj[x]
      /\ Len(inj[r]) \in Nat \ {0} /\ k = inj[r][1] /\ k \in Packets
      /\ Len(ink[r]) = Len(inj[r]) - 1
      /\ \A i \in 1 .. Len(inj[r]) - 1 : ink[r][i] = inj[r][i + 1]
  <2>1. inj[r] \in Seq(Packets) /\ ink[r] = Tail(inj[r])
    OBVIOUS
  <2>2. Len(inj[r]) \in Nat /\ Len(inj[r]) # 0
    BY <2>1, EmptySeq, Zenon
  <2> QED
    BY <2>1, <2>2
<1> HIDE DEF k
<1>2. ASSUME NEW x \in Routers, NEW i \in 1 .. Len(ink[x])
      PROVE  /\ N(x, i) \in 1 .. Len(inj[x]) /\ ink[x][i] = inj[x][N(x, i)]
             /\ i \in Nat \ {0} /\ (x = r => N(x, i) # 1)
  <2>1. CASE x = r
    <3> DEFINE j == i + 1
    <3>1. i \in 1 .. Len(inj[r]) - 1 /\ j \in 1 .. Len(inj[r]) /\ N(x, i) = j /\ j # 1 /\ i \in Nat \ {0}
      BY <1>1, <2>1
    <3>2. ink[r][i] = inj[r][j]
      BY <1>1, <3>1, Zenon
    <3> HIDE DEF j
    <3> QED
      BY <2>1, <3>1, <3>2, Zenon
  <2>2. CASE x # r
    <3>1. ink[x] = inj[x] /\ inj[x] \in Seq(Packets)
      BY <1>1, <2>2, Zenon
    <3> QED
      BY <2>2, <3>1
  <2> QED
    BY <2>1, <2>2, Zenon
<1>3. ASSUME NEW x \in Routers, NEW y \in Routers, NEW i \in 1 .. Len(ink[x]), NEW j \in 1 .. Len(ink[y]),
             ink[x][i] = ink[y][j]
      PROVE  x = y /\ i = j
  <2>1. /\ N(x, i) \in 1 .. Len(inj[x]) /\ N(y, j) \in 1 .. Len(inj[y])
        /\ inj[x][N(x, i)] = inj[y][N(y, j)] /\ i \in Nat /\ j \in Nat
    BY <1>2, <1>3, Zenon
  <2> DEFINE a == N(x, i)
             b == N(y, j)
  <2>2. a \in 1 .. Len(inj[x]) /\ b \in 1 .. Len(inj[y]) /\ inj[x][a] = inj[y][b]
    BY <2>1, Zenon
  <2> HIDE DEF a, b
  <2>3. x = y /\ a = b
    BY <2>2 DEF InjectedOnce
  <2> QED
    BY ONLY <2>1, <2>3 DEF a, b
<1>4. InjectedOnce(ink)
  BY <1>3, Zenon DEF InjectedOnce
<1>5. k \in Injected(inj)
  <2>1. 1 \in 1 .. Len(inj[r])
    BY <1>1
  <2> QED
    BY <1>1, <2>1, Zenon DEF Injected
<1>6. ASSUME NEW m \in Injected(ink) PROVE m \in Injected(inj) /\ m # k
  <2>1. PICK x \in Routers : \E i \in 1 .. Len(ink[x]) : ink[x][i] = m
    BY Zenon DEF Injected
  <2>2. PICK i \in 1 .. Len(ink[x]) : ink[x][i] = m
    BY <2>1, Zenon
  <2> DEFINE a == N(x, i)
  <2>3. a \in 1 .. Len(inj[x]) /\ inj[x][a] = m /\ (x = r => a # 1)
    BY <1>2, <2>2, Zenon
  <2> HIDE DEF a
  <2>4. m \in Injected(inj)
    <3>1. m \in Packets
      BY Zenon DEF Injected
    <3> QED
      BY <2>3, <3>1, Zenon DEF Injected
  <2>5. m # k
    <3>1. 1 \in 1 .. Len(inj[r])
      BY <1>1
    <3> QED
      BY <1>1, <2>3, <3>1 DEF InjectedOnce
  <2> QED
    BY <2>4, <2>5, Zenon
<1> QED
  BY <1>4, <1>5, <1>6, Zenon DEF k

\* A flit of F belongs to a packet that has left the set S of packets that wait,
\* that fits in a buffer, and of which low flits have left.
Flits(F, S, low) ==
    \A f \in F : /\ f.id < NumFlit[f.pkt] /\ NumFlit[f.pkt] <= BufferMax
                 /\ low[f.pkt] <= f.id /\ f.pkt \notin S

Tracked(ib, ob, un, inj, low) ==
    /\ Once(Content(ib, ob))
    /\ Flits(Flying(Content(ib, ob)), un \cup Injected(inj), low)
    /\ \A k \in un \cup Injected(inj) : low[k] = 0
    /\ un \cap Injected(inj) = {} /\ InjectedOnce(inj)

\* The invariant, for the history gi, go, low and exit.
Delivering(ib, ob, oc, av, un, inj, ej, gi, go, low, exit) ==
    /\ low \in [Packets -> Nat] /\ exit \in [Packets -> Channels \cup {NoChannel}]
    /\ Worms(ib, ob, oc, av, gi, go)
    /\ Tracked(ib, ob, un, inj, low)
    /\ Exits(ob, go, low, exit) /\ Received(ej, low)

DeliveryInv ==
    \E gi, go, low, exit :
        Delivering(inBuf, outBuf, outChannel, vcAvail, unsent, injection, ejected, gi, go, low, exit)

\* Nothing is in the network at the start.
LEMMA DeliveryStarts == Init => DeliveryInv
<1> SUFFICES ASSUME Init PROVE DeliveryInv
  OBVIOUS
<1> DEFINE m == [pkt |-> NoPacket, id |-> 0]
           g == [c \in Channels |-> m]
           low == [k \in Packets |-> 0]
           exit == [k \in Packets |-> NoChannel]
<1>1. /\ inBuf = [c \in Channels |-> <<>>] /\ outBuf = [c \in Channels |-> <<>>]
      /\ outChannel = [c \in Channels |-> NoChannel] /\ vcAvail = [c \in Channels |-> TRUE]
      /\ injection = [r \in Routers |-> <<>>] /\ ejected = [r \in Routers |-> <<>>]
      /\ unsent \subseteq Packets
  BY SizesAssumption, Zenon DEF Init
<1>2. m \in Mark /\ m.id = 0
  BY DEF Mark
<1> HIDE DEF m
<1>3. g \in [Channels -> Mark] /\ \A c \in Channels : g[c].id = 0
  BY <1>2, Zenon
<1> HIDE DEF g
<1>4. Worming(inBuf, outBuf, outChannel, vcAvail, g, g)
  BY <1>1, <1>3 DEF Worming
<1>5. Inputs(inBuf, outChannel, g)
  BY <1>1, <1>3 DEF Inputs, InputOk, Chain, NextOf
<1>6. Outputs(outBuf, vcAvail, g)
  BY <1>1, <1>3 DEF Outputs, OutputOk, Run
<1>7. Claims(inBuf, outBuf, outChannel, vcAvail, g, g) /\ Alone(outChannel)
  BY <1>1, Zenon DEF Claims, Alone
<1>8. Links(outBuf, g, g)
  <2> SUFFICES ASSUME NEW o \in Channels, o[2] # LocalPort
               PROVE  Fits(g[Peer(o)], NextOf(outBuf[o], g[o]))
    BY Zenon DEF Links
  <2>1. Peer(o) \in Channels
    BY ChannelParts, PeerIsMutual, Zenon
  <2> QED
    BY <1>1, <1>3, <2>1, Zenon DEF Fits, NextOf
<1>9. Worms(inBuf, outBuf, outChannel, vcAvail, g, g)
  BY <1>4, <1>5, <1>6, <1>7, <1>8, Zenon DEF Worms
<1> DEFINE B == Content(inBuf, outBuf)
<1>10. \A p \in Places : B[p] = <<>>
  <2>1. Holds(B, inBuf, outBuf)
    BY <1>4, ContentHolds, Zenon DEF Worming
  <2> HIDE DEF B
  <2>2. \A c \in Channels : B[In(c)] = <<>> /\ B[AtOut(c)] = <<>>
    BY <1>1, <2>1, Zenon DEF Holds
  <2> QED
    BY <2>2, PlacesAre, Zenon
<1> HIDE DEF B
<1>11. \A p \in Places : 1 .. Len(B[p]) = {}
  BY <1>10
<1>12. Once(B) /\ Flying(B) = {}
  BY <1>11, Zenon DEF Once, Flying
<1>13. \A r \in Routers : 1 .. Len(injection[r]) = {} /\ 1 .. Len(ejected[r]) = {}
  BY <1>1
<1>14. Injected(injection) = {} /\ InjectedOnce(injection)
  BY <1>13, Zenon DEF Injected, InjectedOnce
<1>15. Received(ejected, low)
  BY <1>13, Zenon DEF Received, ReceivedAt
<1>16. low \in [Packets -> Nat] /\ exit \in [Packets -> Channels \cup {NoChannel}]
  BY Zenon
<1>17. \A k \in unsent \cup {} : low[k] = 0
  BY <1>1
<1>18. Exits(outBuf, g, low, exit)
  BY <1>1, <1>3, Zenon DEF Exits, ExitOk
<1> HIDE DEF low, exit
<1>19. Tracked(inBuf, outBuf, unsent, injection, low)
  BY <1>12, <1>14, <1>17, Zenon DEF Tracked, Flits, B
<1>20. Delivering(inBuf, outBuf, outChannel, vcAvail, unsent, injection, ejected, g, g, low, exit)
  BY <1>9, <1>15, <1>16, <1>18, <1>19, Zenon DEF Delivering
<1> QED
  BY <1>20, Zenon DEF DeliveryInv

\* send only moves a packet from one waiting place to the other.
LEMMA DeliverySent ==
    ASSUME TypeOK, NEW k \in Packets, inject_packet(k), DeliveryInv
    PROVE  DeliveryInv'
<1>1. PICK gi, go, low, exit :
        Delivering(inBuf, outBuf, outChannel, vcAvail, unsent, injection, ejected, gi, go, low, exit)
  BY Zenon DEF DeliveryInv
<1>2. /\ k \in unsent /\ unsent' = unsent \ {k}
      /\ injection' = [injection EXCEPT ![Src[k]] = Append(@, k)]
      /\ UNCHANGED <<inBuf, outBuf, outChannel, vcAvail, ejected>>
  BY DEF inject_packet
<1>3. Tracked(inBuf, outBuf, unsent, injection, low)
  BY <1>1, Zenon DEF Delivering
<1>4. InjectedOnce(injection) /\ k \notin Injected(injection)
  BY <1>2, <1>3, Zenon DEF Tracked
<1>5. injection \in [Routers -> Seq(Packets)] /\ Src[k] \in Routers
  BY SizesAssumption DEF TypeOK
<1>6. InjectedOnce(injection') /\ Injected(injection') = Injected(injection) \cup {k}
  BY <1>2, <1>4, <1>5, InjectionGrows, Zenon
<1>7. unsent' \cup Injected(injection') = unsent \cup Injected(injection)
  BY <1>2, <1>6, Zenon
<1>8. unsent' \cap Injected(injection') = {}
  BY <1>2, <1>3, <1>6, Zenon DEF Tracked
<1>9. Tracked(inBuf, outBuf, unsent', injection', low)
  BY <1>3, <1>6, <1>7, <1>8, Zenon DEF Tracked
<1>10. Delivering(inBuf', outBuf', outChannel', vcAvail', unsent', injection', ejected',
                  gi, go, low, exit)
  BY <1>1, <1>2, <1>9, Zenon DEF Delivering
<1> QED
  BY <1>10, Zenon DEF DeliveryInv

\* local_packet_injection makes the flits of a packet that waited.
LEMMA DeliveryInjected ==
    ASSUME TypeOK, TypeOK', NEW r \in Routers, local_packet_injection(r), DeliveryInv
    PROVE  DeliveryInv'
<1>1. PICK gi, go, low, exit :
        Delivering(inBuf, outBuf, outChannel, vcAvail, unsent, injection, ejected, gi, go, low, exit)
  BY Zenon DEF DeliveryInv
<1> DEFINE k == Head(injection[r])
<1>2. /\ injection[r] # <<>> /\ injection' = [injection EXCEPT ![r] = Tail(@)]
      /\ UNCHANGED <<unsent, outBuf, outChannel, vcAvail, ejected>>
  BY DEF local_packet_injection
<1>3. PICK v \in RoomFor(r, k) : inBuf' = [inBuf EXCEPT ![<<r, LocalPort, v>>] = @ \o PacketFlits(k)]
  BY Zenon DEF local_packet_injection
<1> DEFINE l == <<r, LocalPort, v>>
<1>4. /\ inBuf \in [Channels -> Seq(Flit)] /\ inBuf' \in [Channels -> Seq(Flit)]
      /\ outBuf \in [Channels -> Seq(Flit)] /\ injection \in [Routers -> Seq(Packets)]
  BY Zenon DEF TypeOK
<1>5. v \in VCs /\ Len(inBuf[l]) + NumFlit[k] <= BufferMax
  BY Zenon DEF RoomFor
<1>6. l \in Channels /\ l[2] = LocalPort
  BY <1>5, SizesAssumption, Zenon DEF Channels
<1>7. k \in Packets
  BY <1>2, <1>4
<1>8. NumFlit[k] <= BufferMax
  BY <1>4, <1>5, <1>6, <1>7, SizesAssumption
<1> HIDE DEF k, l
<1>9. Put(inBuf, inBuf', l, inBuf[l] \o PacketFlits(k))
  BY <1>3, <1>4, <1>6, Zenon DEF Put, l
<1>10. Tracked(inBuf, outBuf, unsent, injection, low) /\ low \in [Packets -> Nat]
  BY <1>1 DEF Delivering
<1>11. /\ InjectedOnce(injection') /\ k \in Injected(injection)
       /\ Injected(injection') \subseteq Injected(injection) \ {k}
  BY <1>2, <1>4, <1>10, InjectionShrinks, Zenon DEF Tracked, k
<1> DEFINE F == Flying(Content(inBuf, outBuf))
           G == Flying(Content(inBuf', outBuf))
           S == unsent \cup Injected(injection)
           T == unsent \cup Injected(injection')
<1>12. /\ Once(Content(inBuf, outBuf)) /\ Flits(F, S, low) /\ \A h \in S : low[h] = 0
       /\ unsent \cap Injected(injection) = {}
  BY <1>10 DEF Tracked
<1>13. T \subseteq S /\ k \in S /\ k \notin T /\ unsent \cap Injected(injection') = {}
  BY <1>11, <1>12, Zenon
<1> HIDE DEF S, T
<1>14. \A f \in F : f.pkt # k
  BY <1>12, <1>13, Zenon DEF Flits
<1>15. Once(Content(inBuf', outBuf)) /\ \A f \in G : f \in F \/ (f.pkt = k /\ f.id < NumFlit[k])
  BY <1>4, <1>6, <1>7, <1>9, <1>12, <1>14, ContentInjected, Zenon
<1>16. \A f \in G : f.id \in Nat
  BY FlitParts DEF Flying
<1> HIDE DEF F, G
<1>17. low[k] = 0
  BY <1>12, <1>13, Zenon
<1>18. Flits(G, T, low)
  <2> SUFFICES ASSUME NEW f \in G
               PROVE  /\ f.id < NumFlit[f.pkt] /\ NumFlit[f.pkt] <= BufferMax
                      /\ low[f.pkt] <= f.id /\ f.pkt \notin T
    BY Zenon DEF Flits
  <2>1. CASE f \in F
    BY <1>12, <1>13, <2>1, Zenon DEF Flits
  <2>2. CASE f.pkt = k /\ f.id < NumFlit[k]
    BY <1>8, <1>13, <1>16, <1>17, <2>2
  <2> QED
    BY <1>15, <2>1, <2>2, Zenon
<1>19. \A h \in T : low[h] = 0
  BY <1>12, <1>13, Zenon
<1>20. Tracked(inBuf', outBuf, unsent, injection', low)
  BY <1>11, <1>13, <1>15, <1>18, <1>19, Zenon DEF Tracked, G, T
<1>21. Worms(inBuf, outBuf, outChannel, vcAvail, gi, go)
  BY <1>1 DEF Delivering
<1>22. Worms(inBuf', outBuf, outChannel, vcAvail, gi, go)
  BY <1>4, <1>6, <1>7, <1>9, <1>21, WormsInjected, Zenon
<1>23. Delivering(inBuf', outBuf', outChannel', vcAvail', unsent', injection', ejected',
                  gi, go, low, exit)
  BY <1>1, <1>2, <1>20, <1>22, Zenon DEF Delivering
<1> QED
  BY <1>23, Zenon DEF DeliveryInv

\* stage_vca gives a channel to a packet that may use it.
LEMMA DeliveryAllocated ==
    ASSUME TypeOK, TypeOK', NEW q \in Channels, stage_vca(q[1], <<q[2], q[3]>>), DeliveryInv
    PROVE  DeliveryInv'
<1>1. PICK gi, go, low, exit :
        Delivering(inBuf, outBuf, outChannel, vcAvail, unsent, injection, ejected, gi, go, low, exit)
  BY Zenon DEF DeliveryInv
<1> DEFINE o == <<q[2], q[3]>>
<1>2. q = <<q[1], q[2], q[3]>> /\ q[1] \in Routers /\ q[2] \in Ports /\ q[3] \in VCs
  BY ChannelParts, Zenon
<1>3. o[1] = q[2] /\ o[2] = q[3]
  OBVIOUS
<1>4. PICK c \in Requesters(q[1], o) : Allocate(q[1], o, c)
  BY Zenon DEF stage_vca
<1> HIDE DEF o
<1>5. /\ vcAvail[q] /\ vcAvail' = [vcAvail EXCEPT ![q] = FALSE]
      /\ outChannel' = [outChannel EXCEPT ![c] = o]
      /\ UNCHANGED <<unsent, injection, inBuf, outBuf, ejected>>
  <2>1. <<q[1], o[1], o[2]>> = q
    BY <1>2, <1>3, Zenon
  <2> QED
    BY <1>4, <2>1, Zenon DEF stage_vca, Allocate, o
<1>6. /\ c \in Channels /\ c[1] = q[1] /\ inBuf[c] # <<>> /\ Head(inBuf[c]).id = 0
      /\ outChannel[c] = NoChannel /\ MayUse(q[1], Head(inBuf[c]).pkt, q[2], q[3])
  <2>1. ChannelsOf[q[1]] = {d \in Channels : d[1] = q[1]}
    BY <1>2, Zenon DEF ChannelsOf
  <2> QED
    BY <1>3, <1>4, <2>1, Zenon DEF Requesters, IsHead
<1>7. /\ outChannel \in [Channels -> (Ports \X VCs) \cup {NoChannel}]
      /\ outChannel' \in [Channels -> (Ports \X VCs) \cup {NoChannel}]
      /\ vcAvail \in [Channels -> BOOLEAN] /\ vcAvail' \in [Channels -> BOOLEAN]
      /\ inBuf \in [Channels -> Seq(Flit)]
  BY Zenon DEF TypeOK
<1>8. Head(inBuf[c]) = inBuf[c][1] /\ inBuf[c][1] \in Flit
  BY <1>6, <1>7, TailAt, Zenon
<1>9. inBuf[c][1].pkt \in Packets
  BY <1>8, FlitParts, Zenon
<1>10. q[2] = LocalPort => Dst[inBuf[c][1].pkt] = c[1]
  <2> DEFINE k == inBuf[c][1].pkt
  <2>1. MayUse(q[1], k, q[2], q[3]) /\ k \in Packets
    BY <1>6, <1>8, <1>9, Zenon
  <2> HIDE DEF k
  <2>2. q[2] = LocalPort => Dst[k] = q[1]
    BY <1>2, <2>1, LinksAssumption
  <2> QED
    BY <1>6, <2>2, Zenon DEF k
<1>11. Put(outChannel, outChannel', c, o) /\ Put(vcAvail, vcAvail', q, FALSE)
  BY <1>5, <1>6, <1>7, Puts, Zenon
<1>12. Worms(inBuf, outBuf, outChannel, vcAvail, gi, go)
  BY <1>1 DEF Delivering
<1>13. Worms(inBuf, outBuf, outChannel', vcAvail', gi, go)
  BY <1>5, <1>6, <1>7, <1>8, <1>10, <1>11, <1>12, WormsAllocated, Zenon DEF o
<1>14. Delivering(inBuf', outBuf', outChannel', vcAvail', unsent', injection', ejected',
                  gi, go, low, exit)
  BY <1>1, <1>5, <1>13, Zenon DEF Delivering
<1> QED
  BY <1>14, Zenon DEF DeliveryInv

\* Fewer flits are right as well.
LEMMA TrackedLess ==
    ASSUME NEW ib, NEW ob, NEW jb, NEW pb, NEW un, NEW inj, NEW low,
           Tracked(ib, ob, un, inj, low), Once(Content(jb, pb)),
           Flying(Content(jb, pb)) \subseteq Flying(Content(ib, ob))
    PROVE  Tracked(jb, pb, un, inj, low)
  BY Zenon DEF Tracked, Flits

\* What is known of the flits in front of the buffers of c.
LEMMA TrackedAt ==
    ASSUME NEW ib \in [Channels -> Seq(Flit)], NEW ob \in [Channels -> Seq(Flit)],
           NEW un, NEW inj, NEW low, Tracked(ib, ob, un, inj, low), NEW c \in Channels
    PROVE  /\ ib[c] # <<>> => low[ib[c][1].pkt] <= ib[c][1].id
           /\ \A i \in 1 .. Len(ob[c]) : /\ ob[c][i].id < NumFlit[ob[c][i].pkt]
                                         /\ NumFlit[ob[c][i].pkt] <= BufferMax
           /\ ob[c] # <<>> => ob[c][1].pkt \notin un \cup Injected(inj)
<1>1. Flits(Flying(Content(ib, ob)), un \cup Injected(inj), low)
  BY DEF Tracked
<1>2. /\ \A i \in 1 .. Len(ib[c]) : ib[c][i] \in Flying(Content(ib, ob))
      /\ \A i \in 1 .. Len(ob[c]) : ob[c][i] \in Flying(Content(ib, ob))
  BY FrontFlies, Zenon
<1>3. (ib[c] # <<>> => 1 \in 1 .. Len(ib[c])) /\ (ob[c] # <<>> => 1 \in 1 .. Len(ob[c]))
  BY TailAt
<1>4. ib[c] # <<>> => low[ib[c][1].pkt] <= ib[c][1].id
  BY <1>1, <1>2, <1>3, Zenon DEF Flits
<1>5. \A i \in 1 .. Len(ob[c]) : /\ ob[c][i].id < NumFlit[ob[c][i].pkt]
                                 /\ NumFlit[ob[c][i].pkt] <= BufferMax
  BY <1>1, <1>2, Zenon DEF Flits
<1>6. ob[c] # <<>> => ob[c][1].pkt \notin un \cup Injected(inj)
  BY <1>1, <1>2, <1>3, Zenon DEF Flits
<1> QED
  BY <1>4, <1>5, <1>6, Zenon

\* stage_sa and stage_st.
LEMMA DeliverySwitched ==
    ASSUME TypeOK, TypeOK', NEW c \in Channels, stage_sa_st(c), DeliveryInv
    PROVE  DeliveryInv'
<1>1. PICK gi, go, low, exit :
        Delivering(inBuf, outBuf, outChannel, vcAvail, unsent, injection, ejected, gi, go, low, exit)
  BY Zenon DEF DeliveryInv
<1> DEFINE o == Out(c, outChannel[c])
           f == inBuf[c][1]
           gp == [go EXCEPT ![o] = After(f)]
           ex == ExitBy(exit, f, o)
<1>2. /\ inBuf \in [Channels -> Seq(Flit)] /\ outBuf \in [Channels -> Seq(Flit)]
      /\ inBuf' \in [Channels -> Seq(Flit)] /\ outBuf' \in [Channels -> Seq(Flit)]
      /\ outChannel' \in [Channels -> (Ports \X VCs) \cup {NoChannel}]
  BY Zenon DEF TypeOK
<1>3. inBuf[c] # <<>> /\ outChannel[c] # NoChannel
  BY DEF stage_sa_st
<1>4. Head(inBuf[c]) = f /\ f \in Flit
  BY <1>2, <1>3, TailAt, Zenon
<1>5. /\ outBuf' = [outBuf EXCEPT ![o] = Append(outBuf[o], f)]
      /\ outChannel' = IF IsTail(f) THEN [outChannel EXCEPT ![c] = NoChannel] ELSE outChannel
      /\ inBuf' = [inBuf EXCEPT ![c] = Tail(inBuf[c])]
      /\ UNCHANGED <<unsent, injection, vcAvail, ejected>>
  BY <1>4, Zenon DEF stage_sa_st, ChannelAfter, Out
<1>6. /\ low \in [Packets -> Nat] /\ exit \in [Packets -> Channels \cup {NoChannel}]
      /\ Worms(inBuf, outBuf, outChannel, vcAvail, gi, go)
      /\ Tracked(inBuf, outBuf, unsent, injection, low)
      /\ Exits(outBuf, go, low, exit) /\ Received(ejected, low)
  BY <1>1 DEF Delivering
<1>7. o \in Channels /\ go \in [Channels -> Mark]
  BY <1>3, <1>6, Zenon DEF Worms, Worming, Claims
<1>8. After(f) \in Mark /\ f.pkt \in Packets
  BY <1>4, FlitParts, Zenon
<1>9. low[f.pkt] <= f.id /\ Once(Content(inBuf, outBuf))
  BY <1>2, <1>3, <1>6, TrackedAt, Zenon DEF Tracked
<1> HIDE DEF f, o
<1>10. gp \in [Channels -> Mark] /\ ex \in [Packets -> Channels \cup {NoChannel}]
  BY <1>6, <1>7, <1>8, Zenon DEF ExitBy
<1>11. /\ Put(inBuf, inBuf', c, Tail(inBuf[c])) /\ Put(outBuf, outBuf', o, Append(outBuf[o], f))
       /\ Put(go, gp, o, After(f))
  BY <1>2, <1>5, <1>7, Puts, Zenon
<1> HIDE DEF gp
<1>12. FlitSwitched(inBuf, outBuf, outChannel, go, c, o, f, inBuf', outBuf', outChannel', gp)
  BY <1>2, <1>3, <1>5, <1>10, <1>11, Zenon DEF FlitSwitched, o, f
<1>13. Worms(inBuf', outBuf', outChannel', vcAvail, gi, gp)
  BY <1>6, <1>12, WormsSwitched, Zenon
<1>14. Exits(outBuf', gp, low, ex)
  BY <1>6, <1>9, <1>12, ExitsSwitched, Zenon
<1> HIDE DEF ex
<1>15. Tracked(inBuf', outBuf', unsent, injection, low)
  <2>1. /\ Once(Content(inBuf', outBuf'))
        /\ Flying(Content(inBuf', outBuf')) \subseteq Flying(Content(inBuf, outBuf))
    BY <1>2, <1>3, <1>7, <1>9, <1>11, ContentSwitched, Zenon DEF f
  <2> QED
    BY <1>6, <2>1, TrackedLess, Zenon
<1>16. Delivering(inBuf', outBuf', outChannel', vcAvail', unsent', injection', ejected',
                  gi, gp, low, ex)
  BY <1>5, <1>6, <1>10, <1>13, <1>14, <1>15, Zenon DEF Delivering
<1> QED
  BY <1>16, Zenon DEF DeliveryInv

\* stage_lt.
LEMMA DeliveryLeft ==
    ASSUME TypeOK, TypeOK', NEW c \in Channels, stage_lt(c), DeliveryInv
    PROVE  DeliveryInv'
<1>1. PICK gi, go, low, exit :
        Delivering(inBuf, outBuf, outChannel, vcAvail, unsent, injection, ejected, gi, go, low, exit)
  BY Zenon DEF DeliveryInv
<1> DEFINE f == outBuf[c][1]
<1>2. /\ inBuf \in [Channels -> Seq(Flit)] /\ outBuf \in [Channels -> Seq(Flit)]
      /\ inBuf' \in [Channels -> Seq(Flit)] /\ outBuf' \in [Channels -> Seq(Flit)]
      /\ vcAvail' \in [Channels -> BOOLEAN] /\ ejected \in [Routers -> Seq(Packets)]
  BY Zenon DEF TypeOK
<1>3. outBuf[c] # <<>>
  BY Zenon DEF stage_lt, MayLeave
<1>4. Head(outBuf[c]) = f /\ f \in Flit /\ 1 \in 1 .. Len(outBuf[c])
  BY <1>2, <1>3, TailAt
<1>5. /\ outBuf' = [outBuf EXCEPT ![c] = Tail(outBuf[c])]
      /\ vcAvail' = IF IsTail(f) THEN [vcAvail EXCEPT ![c] = TRUE] ELSE vcAvail
      /\ UNCHANGED <<unsent, injection, outChannel>>
  BY <1>4, Zenon DEF stage_lt, FreedBy
<1>6. /\ low \in [Packets -> Nat] /\ exit \in [Packets -> Channels \cup {NoChannel}]
      /\ Worms(inBuf, outBuf, outChannel, vcAvail, gi, go)
      /\ Tracked(inBuf, outBuf, unsent, injection, low)
      /\ Exits(outBuf, go, low, exit) /\ Received(ejected, low)
  BY <1>1 DEF Delivering
<1>7. /\ \A i \in 1 .. Len(outBuf[c]) : outBuf[c][i].id < NumFlit[outBuf[c][i].pkt]
      /\ f.pkt \notin unsent \cup Injected(injection)
  BY <1>2, <1>3, <1>6, TrackedAt, Zenon
<1>8. f.pkt \in Packets /\ f.id \in Nat /\ NumFlit[f.pkt] \in Nat \ {0} /\ After(f) \in Mark
  BY <1>4, FlitParts, Zenon
<1>9. f.id < NumFlit[f.pkt]
  BY <1>4, <1>7, Zenon
<1>10. Put(outBuf, outBuf', c, Tail(outBuf[c]))
  BY <1>2, <1>5, Puts, Zenon
<1>11. FlitLeft(outBuf, vcAvail, c, f, outBuf', vcAvail')
  BY <1>2, <1>3, <1>5, <1>7, <1>10, Zenon DEF FlitLeft
<1>12. Once(Content(inBuf, outBuf))
  BY <1>6, Zenon DEF Tracked
<1>13. CASE c[2] = LocalPort
  <2> DEFINE lo == LowAfter(low, f)
             F == Flying(Content(inBuf, outBuf))
             G == Flying(Content(inBuf, outBuf'))
             S == unsent \cup Injected(injection)
  <2>1. inBuf' = inBuf /\ ejected' = IF IsTail(f) THEN [ejected EXCEPT ![c[1]] = Append(@, f.pkt)] ELSE ejected
    BY <1>4, <1>13, Zenon DEF stage_lt, Eject
  <2>2. Worms(inBuf, outBuf', outChannel, vcAvail', gi, go)
    BY <1>6, <1>11, <1>13, WormsEjected, Zenon
  <2>4. Once(Content(inBuf, outBuf')) /\ G \subseteq F \ {f}
    BY <1>2, <1>3, <1>10, <1>12, ContentEjected, Zenon
  <2>5. Flits(F, S, low) /\ \A k \in S : low[k] = 0
    BY <1>6, Zenon DEF Tracked
  <2>6. F \subseteq Flit
    BY DEF Flying
  <2> HIDE DEF f, F, G, S
  <2>14. Exits(outBuf', go, lo, exit) /\ LeavesAt(low, f, c[1])
    BY <1>6, <1>11, <1>13, ExitsEjected, Zenon
  <2>3. Exits(outBuf', go, lo, exit) /\ low[f.pkt] = f.id /\ Dst[f.pkt] = c[1]
    BY <2>14, Zenon DEF LeavesAt
  <2>7. /\ lo \in [Packets -> Nat] /\ lo[f.pkt] = f.id + 1
        /\ \A k \in Packets : k # f.pkt => lo[k] = low[k]
    BY <1>6, <1>8, LowGrows, Zenon
  <2> HIDE DEF lo
  <2>8. Flits(G, S, lo)
    <3> SUFFICES ASSUME NEW g \in G
                 PROVE  /\ g.id < NumFlit[g.pkt] /\ NumFlit[g.pkt] <= BufferMax
                        /\ lo[g.pkt] <= g.id /\ g.pkt \notin S
      BY Zenon DEF Flits
    <3>1. g \in F /\ g # f /\ g \in Flit
      BY <2>4, <2>6, Zenon
    <3>2. /\ g.id < NumFlit[g.pkt] /\ NumFlit[g.pkt] <= BufferMax
          /\ low[g.pkt] <= g.id /\ g.pkt \notin S
      BY <2>5, <3>1, Zenon DEF Flits
    <3>3. g.pkt \in Packets /\ g.id \in Nat /\ g = [pkt |-> g.pkt, id |-> g.id]
      BY <3>1, FlitParts, Zenon
    <3>4. f = [pkt |-> f.pkt, id |-> f.id]
      BY <1>4, FlitParts, Zenon DEF f
    <3>5. lo[g.pkt] <= g.id
      <4>1. CASE g.pkt = f.pkt
        <5>1. g.id # f.id
          BY <3>1, <3>3, <3>4, <4>1, Zenon
        <5> QED
          BY ONLY <1>8, <2>3, <2>7, <3>2, <3>3, <4>1, <5>1
      <4>2. CASE g.pkt # f.pkt
        BY <2>7, <3>2, <3>3, <4>2, Zenon
      <4> QED
        BY <4>1, <4>2, Zenon
    <3> QED
      BY <3>2, <3>5, Zenon
  <2>9. \A k \in S : lo[k] = 0
    <3>1. S \subseteq Packets /\ f.pkt \notin S
      BY <1>7, Zenon DEF S, f, TypeOK, Injected
    <3> QED
      BY <2>5, <2>7, <3>1, Zenon
  <2>10. Tracked(inBuf, outBuf', unsent, injection, lo)
    BY <1>6, <2>4, <2>8, <2>9, Zenon DEF Tracked, G, S
  <2>11. Received(ejected', lo)
    <3>1. f.id + 1 \in Nat /\ c[1] \in Routers /\ low[f.pkt] < NumFlit[f.pkt]
      BY <1>8, <1>9, <2>3, ChannelParts
    <3>2. CASE IsTail(f)
      <4>1. f.id + 1 = NumFlit[f.pkt]
        BY <1>8, <3>2 DEF IsTail
      <4>2. lo = [low EXCEPT ![f.pkt] = NumFlit[f.pkt]]
        BY <4>1, Zenon DEF lo, LowAfter
      <4>3. ejected' = [ejected EXCEPT ![c[1]] = Append(@, f.pkt)]
        BY <2>1, <3>2, Zenon
      <4> QED
        BY <1>2, <1>6, <1>8, <2>3, <3>1, <4>2, <4>3, ReceivedMore, Zenon
    <3>3. CASE ~IsTail(f)
      <4>1. ejected' = ejected
        BY <2>1, <3>3, Zenon
      <4> QED
        BY <1>2, <1>6, <1>8, <3>1, <4>1, ReceivedStay, Zenon DEF lo, LowAfter
    <3> QED
      BY <3>2, <3>3, Zenon
  <2>12. Delivering(inBuf', outBuf', outChannel', vcAvail', unsent', injection', ejected',
                    gi, go, lo, exit)
    BY <1>5, <1>6, <2>1, <2>2, <2>3, <2>7, <2>10, <2>11, Zenon DEF Delivering
  <2> QED
    BY <2>12, Zenon DEF DeliveryInv
<1>14. CASE c[2] # LocalPort
  <2> DEFINE p == Peer(c)
             gj == [gi EXCEPT ![p] = After(f)]
  <2>1. inBuf' = [inBuf EXCEPT ![p] = Append(inBuf[p], f)] /\ ejected' = ejected
    BY <1>4, <1>14, Zenon DEF stage_lt
  <2>2. p \in Channels
    BY <1>14, ChannelParts, PeerIsMutual, Zenon
  <2> HIDE DEF p, f
  <2>3. gi \in [Channels -> Mark]
    BY <1>6 DEF Worms, Worming
  <2>4. gj \in [Channels -> Mark] /\ Put(gi, gj, p, After(f)) /\ Put(inBuf, inBuf', p, Append(inBuf[p], f))
    BY <1>2, <1>8, <2>1, <2>2, <2>3, Puts, Zenon
  <2> HIDE DEF gj
  <2>5. Worms(inBuf', outBuf', outChannel, vcAvail', gj, go)
    BY <1>2, <1>6, <1>11, <1>14, <2>4, WormsLinked, Zenon DEF p
  <2>6. Exits(outBuf', go, low, exit)
    BY <1>6, <1>10, <1>14, Zenon DEF Exits, Put
  <2>7. /\ Once(Content(inBuf', outBuf'))
        /\ Flying(Content(inBuf', outBuf')) \subseteq Flying(Content(inBuf, outBuf))
    BY <1>2, <1>3, <1>10, <1>12, <2>2, <2>4, ContentLinked, Zenon DEF f
  <2>8. Tracked(inBuf', outBuf', unsent, injection, low)
    BY <1>6, <2>7, TrackedLess
  <2>9. Delivering(inBuf', outBuf', outChannel', vcAvail', unsent', injection', ejected',
                   gj, go, low, exit)
    BY <1>5, <1>6, <2>1, <2>5, <2>6, <2>8, Zenon DEF Delivering
  <2> QED
    BY <2>9, Zenon DEF DeliveryInv
<1> QED
  BY <1>13, <1>14, Zenon

\* Every stage of every router keeps the invariant.
LEMMA DeliveryHolds == TypeOK /\ TypeOK' /\ DeliveryInv /\ [Next]_vars => DeliveryInv'
<1> SUFFICES ASSUME TypeOK, TypeOK', DeliveryInv, [Next]_vars PROVE DeliveryInv'
  OBVIOUS
<1>1. ASSUME NEW k \in Packets, inject_packet(k) PROVE DeliveryInv'
  BY <1>1, DeliverySent, Zenon
<1>2. ASSUME NEW r \in Routers, local_packet_injection(r) PROVE DeliveryInv'
  BY <1>2, DeliveryInjected, Zenon
<1>3. ASSUME NEW c \in Channels, stage_rc(c) PROVE DeliveryInv'
  BY <1>3, Zenon DEF stage_rc, DeliveryInv
<1>4. ASSUME NEW c \in Channels, stage_vca(c[1], <<c[2], c[3]>>) PROVE DeliveryInv'
  BY <1>4, DeliveryAllocated, Zenon
<1>5. ASSUME NEW c \in Channels, stage_sa_st(c) PROVE DeliveryInv'
  BY <1>5, DeliverySwitched, Zenon
<1>6. ASSUME NEW c \in Channels, stage_lt(c) PROVE DeliveryInv'
  BY <1>6, DeliveryLeft, Zenon
<1>7. ASSUME NEW c \in Channels, process_pending_credit(c) PROVE DeliveryInv'
  BY <1>7, Zenon DEF process_pending_credit, DeliveryInv
<1>8. CASE UNCHANGED vars
  BY <1>8, Zenon DEF vars, DeliveryInv
<1> QED
  BY <1>1, <1>2, <1>3, <1>4, <1>5, <1>6, <1>7, <1>8, Zenon DEF Next

\* Flits in a chain follow each other.
LEMMA ChainContiguous ==
    ASSUME NEW b \in Seq(Flit), NEW e, Chain(b, e)
    PROVE  Contiguous(b)
<1> SUFFICES ASSUME NEW i \in 1 .. Len(b) - 1
             PROVE  IF IsTail(b[i]) THEN IsHead(b[i + 1])
                    ELSE b[i + 1] = [b[i] EXCEPT !.id = @ + 1]
  BY Zenon DEF Contiguous
<1> DEFINE f == b[i]
           g == b[i + 1]
<1>1. f \in Flit /\ Fits(After(f), g)
  BY DEF Chain
<1> HIDE DEF f, g
<1>2. /\ f = [pkt |-> f.pkt, id |-> f.id] /\ f.id \in Nat
      /\ IsTail(f) => After(f).id = 0
      /\ ~IsTail(f) => After(f).id = f.id + 1
  BY <1>1, FlitParts, Zenon
<1>3. ASSUME IsTail(f) PROVE IsHead(g)
  BY <1>1, <1>2, <1>3, Zenon DEF Fits, IsHead
<1>4. ASSUME ~IsTail(f) PROVE g = [f EXCEPT !.id = @ + 1]
  <2>1. After(f).id # 0
    BY <1>2, <1>4
  <2>2. g = After(f)
    BY <1>1, <2>1, Zenon DEF Fits
  <2>3. After(f) = [pkt |-> f.pkt, id |-> f.id + 1]
    BY <1>4, Zenon DEF After
  <2> QED
    BY ONLY <1>2, <2>2, <2>3
<1> QED
  BY <1>3, <1>4, Zenon DEF f, g

\* A packet that was handed to its receiver has no flit left.
LEMMA NoneLeft ==
    ASSUME TypeOK, NEW low \in [Packets -> Nat], NEW k \in Packets, low[k] = NumFlit[k],
           Flits(Flying(Content(inBuf, outBuf)), unsent \cup Injected(injection), low)
    PROVE  ~InNetwork(k)
<1> SUFFICES ASSUME InNetwork(k) PROVE FALSE
  BY Zenon
<1> DEFINE F == Flying(Content(inBuf, outBuf))
<1>1. inBuf \in [Channels -> Seq(Flit)] /\ outBuf \in [Channels -> Seq(Flit)]
  BY DEF TypeOK
<1>2. PICK c \in Channels : Holding(k, inBuf[c]) \/ Holding(k, outBuf[c])
  BY Zenon DEF InNetwork
<1>3. /\ \A i \in 1 .. Len(inBuf[c]) : inBuf[c][i] \in F
      /\ \A i \in 1 .. Len(outBuf[c]) : outBuf[c][i] \in F
  BY <1>1, FrontFlies, Zenon
<1>4. Flits(F, unsent \cup Injected(injection), low) /\ F \subseteq Flit
  BY DEF Flying
<1> HIDE DEF F
<1>5. PICK f \in F : f.pkt = k
  BY <1>2, <1>3, Zenon DEF Holding
<1>6. f.id < NumFlit[k] /\ NumFlit[k] <= f.id
  BY <1>4, <1>5, Zenon DEF Flits
<1>7. f.id \in Nat /\ NumFlit[k] \in Nat
  BY <1>4, <1>5, FlitParts, SizesAssumption, Zenon
<1> QED
  BY <1>6, <1>7

\* What the invariant says of the buffers and the receivers.
LEMMA DeliveryImplies ==
    ASSUME TypeOK, DeliveryInv
    PROVE  PacketsStayWhole /\ \A c \in Channels : Len(outBuf[c]) <= BufferMax
<1>1. PICK gi, go, low, exit :
        Delivering(inBuf, outBuf, outChannel, vcAvail, unsent, injection, ejected, gi, go, low, exit)
  BY Zenon DEF DeliveryInv
<1>2. /\ low \in [Packets -> Nat] /\ Worms(inBuf, outBuf, outChannel, vcAvail, gi, go)
      /\ Tracked(inBuf, outBuf, unsent, injection, low) /\ Received(ejected, low)
  BY <1>1, Zenon DEF Delivering
<1>3. /\ inBuf \in [Channels -> Seq(Flit)] /\ outBuf \in [Channels -> Seq(Flit)]
      /\ ejected \in [Routers -> Seq(Packets)]
  BY Zenon DEF TypeOK
<1>4. Inputs(inBuf, outChannel, gi) /\ Outputs(outBuf, vcAvail, go)
  BY <1>2 DEF Worms
<1>5. ASSUME NEW c \in Channels PROVE Contiguous(inBuf[c])
  <2>1. Chain(inBuf[c], gi[c])
    BY <1>4, Zenon DEF Inputs, InputOk
  <2> QED
    BY <1>3, <2>1, ChainContiguous, Zenon
<1>6. ASSUME NEW c \in Channels PROVE Contiguous(outBuf[c]) /\ Len(outBuf[c]) <= BufferMax
  <2> DEFINE b == outBuf[c]
  <2>1. b \in Seq(Flit) /\ Run(b, go[c])
    BY <1>3, <1>4, Zenon DEF Outputs, OutputOk
  <2>2. \A i \in 1 .. Len(b) : b[i].id < NumFlit[b[i].pkt] /\ NumFlit[b[i].pkt] <= BufferMax
    BY <1>2, <1>3, TrackedAt, Zenon
  <2> HIDE DEF b
  <2>3. CASE b = <<>>
    <3>1. Contiguous(b) /\ Len(b) <= BufferMax
      BY ONLY <2>3, SizesAssumption DEF Contiguous
    <3> QED
      BY <3>1 DEF b
  <2>4. CASE b # <<>>
    <3>1. Len(b) <= NumFlit[b[1].pkt] /\ Chain(b, go[c])
      BY <2>1, <2>2, <2>4, RunBounded, Zenon
    <3>2. Len(b) \in Nat /\ 1 \in 1 .. Len(b) /\ b[1] \in Flit
      BY <2>1, <2>4, TailAt
    <3>3. NumFlit[b[1].pkt] \in Nat /\ NumFlit[b[1].pkt] <= BufferMax
      BY <2>2, <3>2, FlitParts, Zenon
    <3>4. Len(b) <= BufferMax
      BY ONLY <3>1, <3>2, <3>3, SizesAssumption
    <3> QED
      BY <2>1, <3>1, <3>4, ChainContiguous, Zenon DEF b
  <2> QED
    BY <2>3, <2>4, Zenon
<1>7. ASSUME NEW r \in Routers, NEW i \in 1 .. Len(ejected[r])
      PROVE  /\ Dst[ejected[r][i]] = r /\ ~InNetwork(ejected[r][i])
             /\ \A j \in 1 .. Len(ejected[r]) : ejected[r][j] = ejected[r][i] => i = j
  <2>1. /\ low[ejected[r][i]] = NumFlit[ejected[r][i]] /\ Dst[ejected[r][i]] = r
        /\ \A j \in 1 .. Len(ejected[r]) : ejected[r][j] = ejected[r][i] => i = j
    BY <1>2, Zenon DEF Received, ReceivedAt
  <2>2. ejected[r][i] \in Packets
    BY <1>3
  <2>3. Flits(Flying(Content(inBuf, outBuf)), unsent \cup Injected(injection), low)
    BY <1>2, Zenon DEF Tracked
  <2>4. ~InNetwork(ejected[r][i])
    BY <1>2, <2>1, <2>2, <2>3, NoneLeft, Zenon
  <2> QED
    BY <2>1, <2>4, Zenon
<1>8. PacketsStayWhole
  BY <1>5, <1>6, <1>7, Zenon DEF PacketsStayWhole
<1> QED
  BY <1>6, <1>8, Zenon

-----------------------------------------------------------------------------
\* For every topology with links both ways and every set of packets, each of
\* any length: flits of two packets never mix in a virtual channel, where
\* stage_sa and stage_lt move body flits that carry no route, and a packet
\* reaches its receiver at its destination, once, with no flit left behind.
THEOREM PacketsAlwaysWhole == Spec => []PacketsStayWhole
<1>1. Init => TypeOK /\ DeliveryInv
  BY InitHolds, DeliveryStarts, Zenon DEF IInv
<1>2. TypeOK /\ DeliveryInv /\ [Next]_vars => (TypeOK /\ DeliveryInv)'
  BY TypesHold, DeliveryHolds, Zenon
<1>3. TypeOK /\ DeliveryInv => PacketsStayWhole
  BY DeliveryImplies
<1> QED
  BY <1>1, <1>2, <1>3, PTL DEF Spec

\* No buffer of a router ever holds more than m_buffer_max_size flits.  For the
\* output buffers, whose room stage_st never looks at, that is because a channel
\* carries one packet at a time and local_packet_injection lets in no packet
\* longer than a buffer.
THEOREM BuffersNeverOverflow == Spec => []BuffersBounded
<1>1. Init => IInv /\ DeliveryInv
  BY InitHolds, DeliveryStarts, Zenon
<1>2. IInv /\ DeliveryInv /\ [Next]_vars => (IInv /\ DeliveryInv)'
  <2> SUFFICES ASSUME IInv, DeliveryInv, [Next]_vars PROVE IInv' /\ DeliveryInv'
    OBVIOUS
  <2>1. IInv' /\ TypeOK /\ TypeOK'
    BY StepHolds, Zenon DEF IInv
  <2> QED
    BY <2>1, DeliveryHolds, Zenon
<1>3. IInv /\ DeliveryInv => BuffersBounded
  <2> SUFFICES ASSUME IInv, DeliveryInv PROVE BuffersBounded
    OBVIOUS
  <2>1. InputBuffersBounded /\ TypeOK
    BY CreditsBound, Zenon DEF IInv
  <2> QED
    BY <2>1, DeliveryImplies, Zenon DEF BuffersBounded
<1> QED
  BY <1>1, <1>2, <1>3, PTL DEF Spec

=============================================================================
