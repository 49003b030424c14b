------------------------------- MODULE MCSmc -------------------------------
(***************************************************************************)
(* Two ROBs of two entries and four threads, so that a ROB is used again; *)
(* a list of two uops, one load buffer and one slot in memory, so that   *)
(* everything a uop can wait for is exhausted.                             *)
(***************************************************************************)
EXTENDS Smc

U(kind, src) == [kind |-> kind, src |-> src, bom |-> TRUE]
Rest(kind, src) == [kind |-> kind, src |-> src, bom |-> FALSE]

MCProgram ==
    << <<U("load", 0), U("int", 1), U("sfu", 0)>>,
       <<U("sfu", 0), U("store", 0), Rest("int", 2)>>,
       <<U("fp", 0), U("load", 1)>>,
       <<U("int", 0)>> >>

MCData == [tid : Threads, slot : Slots]
MCPriorities == {0}
MCResources == [lb |-> 1, sb |-> 1, int_reg |-> 1, fp_reg |-> 1]
MCExecLatency == [load |-> {1, 8}, store |-> {3}, int |-> {1}, fp |-> {2}, sfu |-> {2}]
MCDispatchLatency == [load |-> 1, store |-> 1, int |-> 1, fp |-> 2, sfu |-> 5]
=============================================================================
