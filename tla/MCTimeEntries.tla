---------------------------- MODULE MCTimeEntries ----------------------------
EXTENDS TimeEntries, TLC

MCProjectOf == [t \in Tasks |-> CHOOSE p \in Projects : TRUE]
\* The project is the administrator's, its tasks are everybody else's; all are
\* in its company.
MCUserOf == [x \in Projects \cup Tasks |-> CHOOSE u \in Users : u \in Admins <=> x \in Projects]
MCCanRead == [u \in Users |-> Projects]

Symmetry == Permutations(EntryIds) \cup Permutations(Requests)
=============================================================================
