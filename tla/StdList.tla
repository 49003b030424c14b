------------------------------- MODULE StdList -------------------------------
(***************************************************************************)
(* The few list operations the memory manager needs: std::list with its    *)
(* push, pop and erase, and a container visited in an order the standard   *)
(* library leaves open.  They mean what the operators of the same names in *)
(* SequencesExt mean.  They stand here alone so that the proofs about the  *)
(* memory manager do not carry that whole library in every obligation.     *)
(***************************************************************************)
EXTENDS Integers, Sequences, FiniteSets, Functions

\* std::list::back().
Last(s) == s[Len(s)]

\* What pop_back() leaves of a list.
Front(s) == SubSeq(s, 1, Len(s) - 1)

\* What erase() of the element at place i leaves of a list.
RemoveAt(s, i) == SubSeq(s, 1, i - 1) \o SubSeq(s, i + 1, Len(s))

\* The elements of a list.
ToSet(s) == {s[i] : i \in DOMAIN s}

\* Every order in which the elements of S can be visited, and one of them.
SetToSeqs(S) == {f \in [1..Cardinality(S) -> S] : \A i, j \in DOMAIN f : i # j => f[i] # f[j]}
SetToSeq(S) == CHOOSE f \in [1..Cardinality(S) -> S] : IsInjective(f)
==============================================================================
