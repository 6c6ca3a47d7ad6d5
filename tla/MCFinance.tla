------------------------------ MODULE MCFinance ------------------------------
EXTENDS Finance, TLC

\* Everybody reads every project.
MCCanRead == [u \in UserIds |-> ProjectIds]

MCByHand == {[year |-> 1, n |-> 2]}

Symmetry == Permutations(InvoiceIds) \cup Permutations(PaymentIds) \cup Permutations(Requests)
=============================================================================
