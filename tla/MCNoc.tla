-------------------------------- MODULE MCNoc -------------------------------
EXTENDS NocCycle

On(net, ids) == [i \in 1 .. Len(ids) |-> <<net, ids[i]>>]

\* Crowds: on the ring two or more packets per router, all to the right or all
\* to the left, most of them over two links, enough to fill every buffer round
\* the ring; on the mesh packets across in all four ways.
RightCrowd == 1 .. 12
LeftCrowd == 13 .. 22
MeshCrowd == 23 .. 29
MeetCrowds == {RightCrowd, LeftCrowd, MeshCrowd}

\* In any order: a packet that comes over the link where the ring closes meets
\* one that starts at the next router; two packets share the last link of one of
\* the two ways across the mesh.
MeetWorkloads == MeetCrowds \cup {{30, 31}, {32, 33}}

MeetPackets == 1 .. 33

MeetSrc ==
    On("ring", <<0, 0, 1, 1, 2, 2, 3, 3, 4, 4, 4, 4>>)
      \o On("ring", <<4, 4, 3, 3, 2, 2, 1, 1, 0, 0>>)
      \o On("mesh", <<0, 0, 1, 1, 2, 3, 3>>)
      \o On("ring", <<4, 0>>) \o On("mesh", <<3, 2>>)

MeetDst ==
    On("ring", <<2, 1, 3, 2, 4, 3, 0, 4, 1, 1, 0, 0>>)
      \o On("ring", <<2, 3, 1, 2, 0, 1, 4, 0, 3, 3>>)
      \o On("mesh", <<3, 3, 2, 2, 1, 0, 0>>)
      \o On("ring", <<1, 1>>) \o On("mesh", <<0, 0>>)

MeetFlits == [k \in MeetPackets |-> IF k = 32 THEN 1 ELSE 2]
=============================================================================
