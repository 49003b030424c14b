------------------------------ MODULE MCBackend ------------------------------
(* Small instances of Backend.                                             *)
EXTENDS Backend

CONSTANT MCKinds

Uop(kind, dst, src, addr, size) ==
    [kind |-> kind, dst |-> dst, src |-> src, addr |-> addr, size |-> size]

\* A computation and a store, two uops of any kind, and a load.  Their
\* addresses overlap; the load and the uop before it (unless it is a fence)
\* need the computation.
MCTraces ==
    {<<Uop("ALU", 1, 0, 0, 0), Uop("ST", 0, 0, 0, 4), Uop(a, 0, 0, 0, 4),
       Uop(b, 0, IF b \in Fences THEN 0 ELSE 1, 4, 4), Uop("LD", 0, 1, 0, 8)>> :
     a \in MCKinds, b \in MCKinds}

\* A load, a computation that needs it, a fence and a load.
FenceTrace ==
    {<<Uop("LD", 1, 0, 0, 8), Uop("ALU", 0, 1, 0, 0), Uop("FULL_FENCE", 0, 0, 0, 0),
       Uop("LD", 0, 0, 8, 8)>>}

Configuration(schedule, acq_rel, use_wb, wb_fifo, ooo_stores) ==
    [schedule |-> schedule, acq_rel |-> acq_rel, use_wb |-> use_wb, wb_fifo |-> wb_fifo,
     ooo_stores |-> ooo_stores]

\* In order with full fences, the write buffer a queue; out of order with
\* versions; out of order without a write buffer, a load waiting for one store
\* only.
MCKnobs == {Configuration("io", FALSE, TRUE, TRUE, TRUE),
            Configuration("ooo", TRUE, TRUE, FALSE, TRUE),
            Configuration("ooo", FALSE, FALSE, FALSE, FALSE)}

OutOfOrder == {Configuration("ooo", FALSE, TRUE, FALSE, TRUE)}
=============================================================================
