----------------------------- MODULE Credential -----------------------------
(***************************************************************************)
(* What a controller promises that hands out a secret which GCP tells, or  *)
(* takes, only once: the root password of a database, the private half of  *)
(* a service account key.  Credentials are numbered in the order in which  *)
(* GCP has them.                                                           *)
(***************************************************************************)
EXTENDS Naturals

VARIABLES issued,  \* how many credentials GCP has ever known
          inHand,  \* the one the provider holds in memory, 0 if none
          told     \* the one in the connection secret, 0 if none

credentialVars == <<issued, inHand, told>>

Init == issued = 0 /\ inHand = 0 /\ told = 0

\* GCP accepts a new credential; the answer may not arrive.
Issue ==
    /\ inHand = 0
    /\ issued' = issued + 1
    /\ inHand' \in {0, issued + 1}
    /\ UNCHANGED told

Tell ==
    /\ inHand # 0
    /\ told' = inHand
    /\ inHand' = 0
    /\ UNCHANGED issued

\* The provider stops.
Lose ==
    /\ inHand' = 0
    /\ UNCHANGED <<issued, told>>

\* The connection secret goes away with its CR.
Forget ==
    /\ inHand = 0
    /\ told' = 0
    /\ UNCHANGED <<issued, inHand>>

Next == Issue \/ Tell \/ Lose \/ Forget

Spec == Init /\ [][Next]_credentialVars
=============================================================================
