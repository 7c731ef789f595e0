--------------------------- MODULE MCAdminOrders ----------------------------
(* Instances of AdminOrders for TLC. *)
EXTENDS AdminOrders, TLC

\* All orders, or all but one.
MCFilters == {F \in SUBSET Orders : Cardinality(F) >= Cardinality(Orders) - 1}

OrderSymmetry == Permutations(Orders)
=============================================================================
