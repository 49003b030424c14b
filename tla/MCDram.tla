------------------------------- MODULE MCDram -------------------------------
(***************************************************************************)
(* Two banks on one channel, with DRBs of three entries.  One source sends *)
(* a prefetch, a write back and a read of the same address, all for bank   *)
(* 0, the other a read for bank 0 and a GPU read for bank 1.               *)
(***************************************************************************)
EXTENDS Dram

Req(id, addr, bank_, row, type, acc, size) ==
    [id |-> id, addr |-> addr, bank |-> bank_, row |-> row, type |-> type, acc |-> acc, size |-> size]

MCStreams == << << Req(1, 4, 0, 1, "DPRF", FALSE, 3),
                   Req(2, 0, 0, 0, "WB", FALSE, 2),
                   Req(3, 0, 0, 0, "DEMAND", FALSE, 1) >>,
                << Req(4, 5, 0, 1, "DEMAND", FALSE, 5),
                   Req(5, 2, 1, 0, "DEMAND", TRUE, 1) >> >>
=============================================================================
