-------------------------------- MODULE Mesh --------------------------------
(***************************************************************************)
(* The square mesh of network_mesh.cc: adaptive minimal routes on all      *)
(* virtual channels but the last, which is the escape channel and goes     *)
(* along the row first.                                                    *)
(***************************************************************************)
EXTENDS Router

CONSTANT Width          \* sqrt(m_num_router), after the dummies were added

MeshPorts == {"LOCAL", "LEFT", "RIGHT", "UP", "DOWN"}

MeshOpposite(p) ==
    CASE p = "LEFT" -> "RIGHT" [] p = "RIGHT" -> "LEFT"
      [] p = "UP" -> "DOWN" [] p = "DOWN" -> "UP" [] OTHER -> p

\* network_mesh_c::init, set_link; no link beyond the border.
MeshLink(r, p) ==
    CASE p = "UP" /\ r \div Width > 0 -> r - Width
      [] p = "DOWN" /\ r \div Width < Width - 1 -> r + Width
      [] p = "LEFT" /\ r % Width # 0 -> r - 1
      [] p = "RIGHT" /\ r % Width # Width - 1 -> r + 1
      [] OTHER -> -1

Column(r) == r % Width
Row(r) == r \div Width

AlongRow(r, dst) ==
    {p \in {"LEFT", "RIGHT"} :
        IF p = "LEFT" THEN Column(r) > Column(dst) ELSE Column(r) < Column(dst)}

AlongColumn(r, dst) ==
    {p \in {"UP", "DOWN"} :
        IF p = "UP" THEN Row(r) > Row(dst) ELSE Row(r) < Row(dst)}

\* m_route[port][vc][0] and m_route[port][vc][1] of router_mesh_c::stage_rc.
AdaptiveRoute(r, dst) ==
    IF r = dst THEN {LocalPort} ELSE AlongRow(r, dst) \cup AlongColumn(r, dst)

EscapeRoute(r, dst) ==
    IF r = dst THEN {LocalPort}
    ELSE IF AlongRow(r, dst) # {} THEN AlongRow(r, dst) ELSE AlongColumn(r, dst)

\* Faulty: the escape channel is as adaptive as the others.
NoEscape(r, dst, p, v) == p \in AdaptiveRoute(r, dst)

\* rc_index of stage_vca_pick_winner: 1 for the last channel, else 0.
MeshMayUse(r, dst, p, v) ==
    p \in IF v \div (NumVC - 1) = 0 THEN AdaptiveRoute(r, dst) ELSE EscapeRoute(r, dst)

MeshEscape == {NumVC - 1}

\* An order of the escape channels: the links along the rows, in the direction
\* of travel, before the links along the columns.
MeshRank(r, p) ==
    CASE p = "RIGHT" -> Column(r)
      [] p = "LEFT" -> Width - 1 - Column(r)
      [] p = "DOWN" -> Width + Row(r)
      [] p = "UP" -> Width + Width - 1 - Row(r)
=============================================================================
