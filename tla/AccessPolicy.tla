---------------------------- MODULE AccessPolicy ----------------------------
(***************************************************************************)
(* What the writers of an IAM policy promise each other: the policy is a   *)
(* set of grants <<role, condition, member>>, and each change of it is one *)
(* that somebody is entitled to make at that moment, as if reading and     *)
(* writing the policy were one step.                                       *)
(***************************************************************************)
EXTENDS Naturals

CONSTANTS Roles, Principals, Conds, Members, RoleOf, PrincipalOf,
          PolicyCRs, PolicySpecs, OtherGrants

VARIABLES grants, phase

CRNames == Members \cup PolicyCRs

Init == grants = {} /\ phase = [w \in CRNames |-> "live"]

Own(w) == {<<RoleOf[w], c, PrincipalOf[w]>> : c \in Conds}

\* A member CR adds its grant while it is there.
Grant(w) ==
    /\ phase[w] # "gone"
    /\ \E g \in Own(w) : grants' = grants \cup {g}
    /\ UNCHANGED phase

\* It takes the grant back only once it was deleted.
Revoke(w) ==
    /\ phase[w] = "deleting"
    /\ \E g \in Own(w) : grants' = grants \ {g}
    /\ UNCHANGED phase

\* The owner of the whole policy replaces it.
Replace(w) ==
    /\ phase[w] # "gone"
    /\ \E p \in PolicySpecs : grants' =
          {g \in Roles \X Conds \X Principals : g[3] \in p[g[1]][g[2]]}
    /\ UNCHANGED phase

\* It empties it only once it was deleted.
Clear(w) ==
    /\ phase[w] = "deleting"
    /\ grants' = {}
    /\ UNCHANGED phase

Other ==
    /\ \E g \in OtherGrants : grants' \in {grants \cup {g}, grants \ {g}}
    /\ UNCHANGED phase

\* CRs are deleted, disappear and are created again; the policy does not change.
Lifecycle(w) ==
    /\ \/ phase[w] = "live" /\ \E q \in {"deleting", "gone"} : phase' = [phase EXCEPT ![w] = q]
       \/ phase[w] = "deleting" /\ phase' = [phase EXCEPT ![w] = "gone"]
       \/ phase[w] = "gone" /\ phase' = [phase EXCEPT ![w] = "live"]
    /\ UNCHANGED grants

Next ==
    \/ \E w \in Members : Grant(w) \/ Revoke(w)
    \/ \E w \in PolicyCRs : Replace(w) \/ Clear(w)
    \/ \E w \in CRNames : Lifecycle(w)
    \/ Other

Spec == Init /\ [][Next]_<<grants, phase>>
=============================================================================
