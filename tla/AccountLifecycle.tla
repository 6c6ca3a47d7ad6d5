-------------------------- MODULE AccountLifecycle --------------------------
(***************************************************************************)
(* What signing up promises: an account is made once, gets a profile (that *)
(* of a freelancer, of a client or both) and keeps it for good; a session  *)
(* comes out of POST /auth/register only once it has one; and an account   *)
(* that is deleted does not come back.                                     *)
(***************************************************************************)
CONSTANTS Users

VARIABLES
    stage,      \* per user: unborn, bare (no profile), profiled or deleted
    signedIn    \* users that got a session from POST /auth/register

vars == <<stage, signedIn>>

Init ==
    /\ stage \in [Users -> {"unborn", "bare", "profiled"}]
    /\ signedIn = {}

\* The ways on: there is none back.
Order == {<<"unborn", "bare">>, <<"bare", "profiled">>,
          <<"bare", "deleted">>, <<"profiled", "deleted">>}

Advance(u) ==
    /\ <<stage[u], stage'[u]>> \in Order
    /\ stage' = [stage EXCEPT ![u] = stage'[u]]
    /\ UNCHANGED signedIn

SignIn(u) ==
    /\ u \notin signedIn
    /\ stage[u] = "profiled"
    /\ signedIn' = signedIn \cup {u}
    /\ UNCHANGED stage

Next == \E u \in Users : Advance(u) \/ SignIn(u)

Spec == Init /\ [][Next]_vars
=============================================================================
