---------------------------- MODULE MCReferences ----------------------------
(***************************************************************************)
(* References for TLC: three CRs at a time, in the shapes the kinds of the *)
(* provider refer to each other.                                           *)
(***************************************************************************)
EXTENDS References

MCObjects == {"a", "b", "c"}

\* a, b and c have these kinds and make their requests for these CRs.
Three(ka, ra, kb, rb, kc, rc) ==
    [kind |-> [a |-> ka, b |-> kb, c |-> kc], refs |-> [a |-> ra, b |-> rb, c |-> rc]]

Two(ka, ra, kb, rb) == Three(ka, ra, kb, rb, "", <<>>)

A == {"a"}
B == {"b"}

MCWorlds == {
    Three("Network", <<>>, "Subnetwork", <<A>>, "Cluster", <<A, B>>),
    Three("Network", <<>>, "GlobalAddress", <<A>>, "Connection", <<A, {}>>),
    Two("ServiceAccount", <<>>, "BucketPolicyMember", <<{}, A>>),
    Two("GlobalAddress", <<{}>>, "Connection", <<{}, A>>),
    Two("Cluster", <<{}, {}>>, "NodePool", <<A>>),
    Two("Network", <<>>, "Firewall", <<A>>),
    Two("Network", <<>>, "Router", <<A>>),
    Two("Network", <<>>, "CloudSQLInstance", <<A>>),
    Two("KeyRing", <<>>, "CryptoKey", <<A>>),
    Two("CryptoKey", <<{}>>, "Topic", <<A>>),
    Two("CryptoKey", <<{}>>, "CryptoKeyPolicy", <<A, {}>>),
    Two("Bucket", <<>>, "BucketPolicy", <<A, {}>>),
    Two("ServiceAccount", <<>>, "ServiceAccountKey", <<A>>),
    Two("ServiceAccount", <<>>, "ServiceAccountPolicy", <<A, A>>)}
=============================================================================
