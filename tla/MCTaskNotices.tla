---------------------------- MODULE MCTaskNotices ----------------------------
EXTENDS TaskNotices, TLC

CONSTANTS ann, bob

\* One project, ann's.
MCOwnerOf == [t \in TaskIds |-> ann]

Symmetry == Permutations(NoticeIds \ LetterIds) \cup Permutations(Requests)
=============================================================================
