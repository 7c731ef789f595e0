------------------------------- MODULE MCMenu -------------------------------
(* Instances of Menu for TLC. *)
EXTENDS Menu, TLC

\* Ids, names and request slots are interchangeable.
MenuSymmetry ==
    Permutations(CategoryIds) \cup Permutations(ItemIds) \cup
    Permutations(CategoryNames) \cup Permutations(Editors)
=============================================================================
