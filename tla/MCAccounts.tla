----------------------------- MODULE MCAccounts -----------------------------
(* Instances of Accounts for TLC. *)
EXTENDS Accounts, TLC

\* Display names that tell the ids apart, and that nobody registers.
DistinctNames == [u \in UserIds |-> u]
\* Ids that agree in the characters the display name keeps.
SameName == [u \in UserIds |-> "shared"]
MailOf == [n \in Names \cup UserIds \cup {"shared"} |-> n]

\* With DistinctNames ids are interchangeable; login slots and what WeChat says
\* always are.
AccountSymmetry ==
    Permutations(Logins) \cup Permutations(UserIds) \cup
    Permutations(OpenIds) \cup Permutations(UnionIds)
=============================================================================
