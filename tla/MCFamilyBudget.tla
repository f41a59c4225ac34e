---------------------------- MODULE MCFamilyBudget ----------------------------
\* Attempts are interchangeable, and so are children.
EXTENDS FamilyBudget, TLC

Symmetric == Permutations(Lease) \cup Permutations(Child)
=============================================================================
