------------------------------ MODULE MCRecords ------------------------------
EXTENDS Records, TLC

CONSTANTS ann, root

\* Ann works on what is hers and her companies'; root's roles change, from all
\* permissions to sight of all projects, but of no task, and back.
MCHeld ==
    (ann :> {{"companies.delete", "projects.create", "projects.read", "projects.delete",
              "tasks.create", "tasks.read", "tasks.delete"}})
    @@ (root :> {{MANAGE_ALL}, {"projects.read.all", "tasks.create"}})

Symmetry == Permutations(RecordIds) \cup Permutations(Calls) \cup Permutations(Requests)
            \cup Permutations(CompanyIds) \cup Permutations(ProjectIds) \cup Permutations(TaskIds)
=============================================================================
