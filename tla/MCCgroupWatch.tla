--------------------------- MODULE MCCgroupWatch ---------------------------
EXTENDS CgroupWatch, TLC

CONSTANTS h1, h2, a, b, c

MCHierarchies == {h1, h2}
Symmetry == Permutations(MCHierarchies)
MCNames == {Root, a, b, c}
MCNewNames == {c}
MCParent == [n \in {a, b, c} |-> IF n = b THEN a ELSE Root]
=============================================================================
