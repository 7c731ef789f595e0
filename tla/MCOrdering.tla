----------------------------- MODULE MCOrdering -----------------------------
(* Instances of Ordering for TLC. *)
EXTENDS OrderRefinement, TLC

\* Request slots and order ids are interchangeable.
SlotSymmetry == Permutations(Requests) \cup Permutations(OrderIds)
=============================================================================
