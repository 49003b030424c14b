-------------------------------- MODULE Noc ---------------------------------
(***************************************************************************)
(* Two of the networks default_network can build.  A router is named by    *)
(* its topology and its m_id; packets stay in the network they are sent    *)
(* in, so which of the two there is follows from the packets sent.         *)
(***************************************************************************)
EXTENDS Ring, Mesh

NocRouters ==
    ({"ring"} \X (0 .. NumRouter - 1)) \cup ({"mesh"} \X (0 .. Width * Width - 1))

NocPorts == RingPorts \cup MeshPorts

NocLink(r, p) ==
    <<r[1], IF r[1] = "ring" THEN RingLink(r[2], p) ELSE MeshLink(r[2], p)>>

NocMayUse(r, k, p, v) ==
    /\ r[1] = Dst[k][1]
    /\ IF r[1] = "ring" THEN RingMayUse(r[2], Src[k][2], Dst[k][2], p, v)
       ELSE MeshMayUse(r[2], Dst[k][2], p, v)

Escape(k) == IF Src[k][1] = "ring" THEN RingEscape ELSE MeshEscape

Rank(c) ==
    IF c[1][1] = "ring" THEN RingRank(c[1][2], c[2], c[3]) ELSE MeshRank(c[1][2], c[2])

\* A packet only ever waits for escape channels that come after all those it
\* holds.  On the ring that is what the two tests marked as DUATO's deadlock
\* prevention protocol are for, on the mesh the second row of m_route, also when
\* the packet took adaptive channels in between.  So no cycle of packets wait
\* for each other on escape channels.
WaitsClimb ==
    \A c \in Waiting :
        LET k == Head(inBuf[c]).pkt IN
        \A w \in Wanted(c[1], k, Escape(k)) : \A h \in Held(k, Escape(k)) : Rank(h) < Rank(w)
=============================================================================
