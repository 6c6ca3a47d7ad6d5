------------------------------ MODULE OwnedRows ------------------------------
(***************************************************************************)
(* What a table of rows that belong to users promises to the rest of the   *)
(* system: a row is inserted once, under an id of its own and for one user *)
(* who exists at that moment; it never changes hands; it is removed at most*)
(* once and never comes back, and it does not outlive its user, nor does a *)
(* user come back.  What else a row holds, and how requests get to it, is  *)
(* invisible at this level.                                                *)
(***************************************************************************)
CONSTANTS Users, Ids, NoUser

VARIABLES
    members,    \* users that exist
    joined,     \* users that ever existed
    born,       \* ids of all rows ever inserted
    owner       \* per id: the user of a row in the table, else NoUser

vars == <<members, joined, born, owner>>

Init ==
    /\ members \in SUBSET Users
    /\ joined = members
    /\ born = {}
    /\ owner = [i \in Ids |-> NoUser]

Enlist(u) ==
    /\ u \notin joined
    /\ members' = members \cup {u}
    /\ joined' = joined \cup {u}
    /\ UNCHANGED <<born, owner>>

Insert(i, u) ==
    /\ i \notin born
    /\ u \in members
    /\ born' = born \cup {i}
    /\ owner' = [owner EXCEPT ![i] = u]
    /\ UNCHANGED <<members, joined>>

Remove(i) ==
    /\ owner[i] # NoUser
    /\ owner' = [owner EXCEPT ![i] = NoUser]
    /\ UNCHANGED <<members, joined, born>>

\* The user goes, and every row of the user with it.
Expel(u) ==
    /\ u \in members
    /\ members' = members \ {u}
    /\ owner' = [i \in Ids |-> IF owner[i] = u THEN NoUser ELSE owner[i]]
    /\ UNCHANGED <<joined, born>>

Next ==
    \/ \E u \in Users : Enlist(u) \/ Expel(u)
    \/ \E i \in Ids : Remove(i) \/ \E u \in Users : Insert(i, u)

Spec == Init /\ [][Next]_vars
=============================================================================
