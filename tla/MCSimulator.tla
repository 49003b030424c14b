---------------------------- MODULE MCSimulator ----------------------------
(***************************************************************************)
(* Two cores with room for two threads each; application A has a main      *)
(* thread and three others that start with its instructions 1, 2 and 2, B  *)
(* one thread and two kernels.                                             *)
(***************************************************************************)
EXTENDS Simulator

\* Two cores, then LLC, NOC, MC and IO; a window has 6 cycles.
MCFreq == [d \in 0 .. 5 |-> <<2, 2, 1, 3, 2, 1>>[d + 1]]

MCProcs == {"A", "B"}

MCKernels == [A |-> 1, B |-> 2]

MCStartAt == [A |-> <<0, 1, 2, 2>>, B |-> <<0>>]

MCMainLen == [A |-> 2, B |-> 1]
=============================================================================
