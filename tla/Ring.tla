-------------------------------- MODULE Ring --------------------------------
(***************************************************************************)
(* The ring of network_ring.cc: the links between neighbours, shortest     *)
(* distance routing and the two virtual channels that break the cycle.     *)
(***************************************************************************)
EXTENDS Router

CONSTANT NumRouter      \* m_num_router; the routers are 0 .. NumRouter - 1

RingPorts == {"LOCAL", "LEFT", "RIGHT"}

RingOpposite(p) ==
    CASE p = "LEFT" -> "RIGHT" [] p = "RIGHT" -> "LEFT" [] OTHER -> p

\* network_ring_c::init, set_link.  The local port has no link.
RingLink(r, p) ==
    CASE p = "LEFT" -> (r - 1 + NumRouter) % NumRouter
      [] p = "RIGHT" -> (r + 1) % NumRouter
      [] OTHER -> -1

\* Shortest distance, to the right on a tie.
Direction(r, dst) ==
    LET left == IF r > dst THEN r - dst ELSE r - dst + NumRouter
        right == IF r > dst THEN dst - r + NumRouter ELSE dst - r
    IN IF left < right THEN "LEFT" ELSE "RIGHT"

\* router_ring_c::stage_rc: the direction is picked where the packet starts, it
\* stays in m_dir on the way.
RingRoute(r, src, dst) == IF dst = r THEN LocalPort ELSE Direction(src, dst)

\* Faulty: the last channel but one is open on both sides of the destination.
OneClassOpen(r, src, dst, p, v) ==
    /\ p = RingRoute(r, src, dst)
    /\ v = NumVC - 1 => r >= dst

\* The filter of stage_vca_pick_winner.
RingMayUse(r, src, dst, p, v) ==
    /\ p = RingRoute(r, src, dst)
    /\ v = NumVC - 2 => r <= dst
    /\ v = NumVC - 1 => r >= dst

RingEscape == NumVC - 2 .. NumVC - 1

\* An order of the two escape channels of every link: to the right the last
\* channel counts up to the link that closes the ring and the one before goes
\* on from there, to the left the other way round.
RingRank(r, p, v) ==
    LET first == IF p = "RIGHT" THEN NumVC - 1 ELSE NumVC - 2
        along == IF p = "RIGHT" THEN r ELSE NumRouter - 1 - r
    IN IF v = first THEN along ELSE NumRouter + along
=============================================================================
