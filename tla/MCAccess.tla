----------------------------- MODULE MCAccess -----------------------------
EXTENDS Access, TLC
CONSTANTS c1, c2, c3
MCLimit == [b \in Bucket |-> IF b = "enroll" THEN 2 ELSE 1]
MCSymmetry == Permutations(Call)
=============================================================================
