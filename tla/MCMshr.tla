------------------------------- MODULE MCMshr -------------------------------
(* Small instances of the miss-status entries. *)
EXTENDS Mshr

CONSTANTS e1, e2, e3, u1, u2, u3

\* Core 1 has e3, core 0 the others.
TwoHomes == [e \in Entries |-> IF e = e3 THEN 1 ELSE 0]

\* u2 runs on core 1, the others on core 0.
TwoCoreClients == [u \in Clients |-> IF u = u2 THEN 1 ELSE 0]

\* One client asks for both lines, the others compete for the first.
OneRoams == [u \in Clients |-> IF u = u2 THEN Lines ELSE {CHOOSE l \in Lines : l \notin Prefetched}]
AnyLine == [u \in Clients |-> Lines]
=============================================================================
