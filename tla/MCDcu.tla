------------------------------- MODULE MCDcu -------------------------------
(* A small instance of the data caches: every cache holds one line. *)
EXTENDS Dcu

CONSTANT Third      \* one of Lines

\* llc_decoupled_network disables L3, l2_decoupled_network L2 and L3,
\* igpu_network L1 and L2.
MCTopologies == {{3}, {2, 3}, {1, 2}}

\* L2's input queue overflows into the retry queue; the others hold every
\* request, as 1024 entries hold those of a core's 128 MSHR entries.
MCInSize == [k \in Levels |-> IF k = 2 THEN 1 ELSE Cardinality(Reqs)]

\* A fill queue has more entries than the core has requests, as in the code.
ASSUME FillAssumption == FillSize > Cardinality(Reqs)

\* The third line is in a cache or asked for.
ThirdInUse ==
    \/ \E k \in Levels : cache[k][Third] # "none"
    \/ \E i \in Ids : req[i].line = Third

\* What the core has under way: two stores to two lines; in
\* llc_decoupled_network also one store and loads of three lines, in
\* igpu_network one store at a time.
CoreBound ==
    /\ ThirdInUse => disabled = {3} /\ Outstanding <= 1
    /\ disabled = {1, 2} => Outstanding <= 1

MCNext ==
    \/ \E l \in Lines : StoreHit(l) /\ CoreBound'
    \/ \E t \in {"DFETCH", "DSTORE"}, l \in Lines, i \in Reqs : Miss(t, l, i) /\ CoreBound'
    \/ \E i \in Ids : Step(i)

MCSpec == Init /\ [][MCNext]_vars /\ \A i \in Ids : SF_vars(Step(i))
=============================================================================
