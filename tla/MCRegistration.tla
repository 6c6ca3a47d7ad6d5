--------------------------- MODULE MCRegistration ---------------------------
EXTENDS Registration, TLC

CONSTANTS founder, a, aUpper, b

MCLower == [e \in Emails |-> IF e = aUpper THEN a ELSE e]
MCFounderEmail == [u \in Founders |-> b]
MCInScope == [u \in UserIds |-> IF u = founder THEN Companies ELSE {}]

Symmetry == Permutations(Requests) \cup Permutations(UserIds \ Founders)
=============================================================================
