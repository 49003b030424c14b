------------------------------- MODULE MCMmu -------------------------------
(* Instances of Mmu: a parent uop with two child uops and a single uop.      *)
EXTENDS Mmu

CONSTANTS c1, c2, s1, p1

MCUops == {c1, c2, s1}
MCParents == {p1}
MCParentOf == [u \in MCUops |-> IF u = s1 THEN NoParent ELSE p1]
TwoPids == [u \in MCUops |-> IF u = s1 THEN 1 ELSE 0]

\* One address space that swaps, or two processes that touch the same page
\* number and never swap.
Swapping(frames, pages) ==
  [no_swap |-> FALSE, fool |-> TRUE, frames |-> frames, fault_latency |-> 0,
   pages |-> pages]
Resident ==
  [no_swap |-> TRUE, fool |-> FALSE, frames |-> 2, fault_latency |-> 2, pages |-> {0}]
BothModes == {Swapping(2, {0, 1, 2}), Resident}
OneFrame == {Swapping(1, {0, 1})}

============================================================================
