--------------------------- MODULE PolicyDocuments ---------------------------
(***************************************************************************)
(* CryptoKeyPolicy (pkg/controller/kms) and ServiceAccountPolicy           *)
(* (pkg/controller/iam) with their clients, whose methods are the same: a  *)
(* CR owns the whole policy of a key or an account, its bindings and its   *)
(* audit configurations.  IAMPolicy.tla is about several writers of one    *)
(* policy; here a list of bindings is one value.                           *)
(***************************************************************************)
EXTENDS Fields

PolicyKinds == {"CryptoKeyPolicy", "ServiceAccountPolicy"}

Policy == {"AuditConfigs", "Bindings"}

CryptoKeyPolicyParameters == Policy \cup {"CryptoKey"}
ServiceAccountPolicyParameters == Policy \cup {"ServiceAccount"}

\* Nothing that a binding or an audit configuration has is left out.
GeneratePolicyInstance(spec) == [f \in DOMAIN spec |-> ValueOf(spec[f])]

IsEmptyPolicy(conf) == \A f \in DOMAIN conf \cap Policy : conf[f] = Zero

\* A policy that is absent is an empty one.
PolicyIsUpToDate(spec, conf) ==
    \A f \in DOMAIN spec \cap Policy :
        GeneratePolicyInstance(spec)[f] = IF f \in DOMAIN conf THEN conf[f] ELSE Zero

\* Only a policy that is up to date is reported as available.
PolicyObserve(spec, conf) ==
    LET upToDate == PolicyIsUpToDate(spec, conf)
    IN  Seen(spec, spec, IF upToDate THEN "Available" ELSE "", upToDate)

\* A Set without an etag: it replaces a policy written since Observe.
PolicyCreate(spec) == Creation("Creating", GeneratePolicyInstance(spec))

\* A Set with the etag of the policy Update read.
PolicyUpdate(spec, conf) ==
    IF PolicyIsUpToDate(spec, conf) THEN NoCall ELSE Patch(GeneratePolicyInstance(spec))

\* A Set of an empty policy.
PolicyDelete == Deletion("", TRUE)
=============================================================================
