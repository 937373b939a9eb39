----------------------------- MODULE References -----------------------------
(***************************************************************************)
(* Custom resources (CRs) that refer to each other, and the controllers of *)
(* all of them running side by side: the ResolveReferences methods under   *)
(* src/apis together with the part of each controller that decides whether *)
(* a resource can be created, found again or deleted.                      *)
(*                                                                         *)
(* A CR's spec names other CRs (a reference or a selector).  While the CR  *)
(* is live every reconcile first fills the fields that are still empty     *)
(* from the CRs named; nothing is created before that has succeeded, and   *)
(* a field that has a value is never looked up again.  People create and   *)
(* delete the CRs in any order.                                            *)
(***************************************************************************)
EXTENDS Naturals, Sequences, FiniteSets

CONSTANTS Objects,         \* the CRs
          Worlds,          \* which kinds they have ("": not used) and how they
                           \* refer to each other
          MaxMishaps       \* bound on failed calls, restarts and replaced specs

ASSUME MishapsAssumption == MaxMishaps \in Nat

VARIABLES world,    \* the kinds and the references people write
          crs,      \* the stored CRs
          ext,      \* the CRs whose resource exists at GCP
          uses,     \* what each such resource was created to refer to
          pcs,      \* where each CR's reconcile is
          mem,      \* each reconcile's in-memory copy of its CR
          current,  \* its resourceVersion is the stored one
          found,    \* what its Observe found
          cleared,  \* the CRs whose resolved values somebody removed
          mishaps   \* failed calls, restarts and replaced specs left

crVars == <<world, crs, ext, uses, pcs, mem, current, found, cleared, mishaps>>

-----------------------------------------------------------------------------
(* What a reference extracts from the CR it names: "" (FALSE here) while    *)
(* the status, respectively the external name, has not been written.        *)

\* Mutant: the URL is built from the name instead of the observed self link.
NetworkURLFromName(t) == t.named

NetworkURL(t) == t.observed

SubnetworkURL(t) == t.observed

\* Mutant: the type assertion names another version of the type.
ClusterURLOtherVersion(t) == FALSE

ClusterURL(t) == t.observed

KeyRingRRN(t) == t.observed

CryptoKeyRRN(t) == t.observed

ServiceAccountRRN(t) == t.observed

ServiceAccountMemberName(t) == t.observed

\* reference.ExternalName of crossplane-runtime.
ExternalName(t) == t.named

Extract(by, t) ==
    CASE by = "NetworkURL"               -> NetworkURL(t)
      [] by = "SubnetworkURL"            -> SubnetworkURL(t)
      [] by = "ClusterURL"               -> ClusterURL(t)
      [] by = "KeyRingRRN"               -> KeyRingRRN(t)
      [] by = "CryptoKeyRRN"             -> CryptoKeyRRN(t)
      [] by = "ServiceAccountRRN"        -> ServiceAccountRRN(t)
      [] by = "ServiceAccountMemberName" -> ServiceAccountMemberName(t)
      [] OTHER                           -> ExternalName(t)

-----------------------------------------------------------------------------
(* The resolution requests of each kind, in the order its ResolveReferences *)
(* makes them: the kind referred to, the extractor, and whether the request *)
(* carries a selector even when people wrote none, which then selects every *)
(* CR of that kind.                                                         *)

To(kind, by) == [to |-> kind, by |-> by, selectsAll |-> FALSE]

GlobalAddressReferences == <<To("Network", "NetworkURL")>>
SubnetworkReferences == <<To("Network", "NetworkURL")>>
FirewallReferences == <<To("Network", "NetworkURL")>>
RouterReferences == <<To("Network", "NetworkURL")>>
CloudSQLInstanceReferences == <<To("Network", "NetworkURL")>>

ClusterReferences ==
    <<To("Network", "NetworkURL"), To("Subnetwork", "SubnetworkURL")>>

NodePoolReferences == <<To("Cluster", "ClusterURL")>>

\* Selector: &mg.Spec.ForProvider.ReservedPeeringRangeSelector is never nil.
ConnectionReferences ==
    <<To("Network", "NetworkURL"),
      [To("GlobalAddress", "ExternalName") EXCEPT !.selectsAll = TRUE]>>

CryptoKeyReferences == <<To("KeyRing", "KeyRingRRN")>>

CryptoKeyPolicyReferences ==
    <<To("CryptoKey", "CryptoKeyRRN"),
      To("ServiceAccount", "ServiceAccountMemberName")>>

BucketPolicyReferences ==
    <<To("Bucket", "ExternalName"),
      To("ServiceAccount", "ServiceAccountMemberName")>>

BucketPolicyMemberReferences ==
    <<To("Bucket", "ExternalName"),
      To("ServiceAccount", "ServiceAccountMemberName")>>

\* ServiceAccountReferer.resolveReferences, shared by the next two.
ServiceAccountReference == To("ServiceAccount", "ServiceAccountRRN")

ServiceAccountKeyReferences == <<ServiceAccountReference>>

ServiceAccountPolicyReferences ==
    <<ServiceAccountReference,
      To("ServiceAccount", "ServiceAccountMemberName")>>

TopicReferences == <<To("CryptoKey", "CryptoKeyRRN")>>

RequestsOf(kind) ==
    CASE kind = "GlobalAddress"        -> GlobalAddressReferences
      [] kind = "Subnetwork"           -> SubnetworkReferences
      [] kind = "Firewall"             -> FirewallReferences
      [] kind = "Router"               -> RouterReferences
      [] kind = "CloudSQLInstance"     -> CloudSQLInstanceReferences
      [] kind = "Cluster"              -> ClusterReferences
      [] kind = "NodePool"             -> NodePoolReferences
      [] kind = "Connection"           -> ConnectionReferences
      [] kind = "CryptoKey"            -> CryptoKeyReferences
      [] kind = "CryptoKeyPolicy"      -> CryptoKeyPolicyReferences
      [] kind = "BucketPolicy"         -> BucketPolicyReferences
      [] kind = "BucketPolicyMember"   -> BucketPolicyMemberReferences
      [] kind = "ServiceAccountKey"    -> ServiceAccountKeyReferences
      [] kind = "ServiceAccountPolicy" -> ServiceAccountPolicyReferences
      [] kind = "Topic"                -> TopicReferences
      [] OTHER                         -> <<>>

Kinds == {"Network", "GlobalAddress", "Subnetwork", "Firewall", "Router",
          "CloudSQLInstance", "Cluster", "NodePool", "Connection", "KeyRing",
          "CryptoKey", "CryptoKeyPolicy", "Bucket", "BucketPolicy",
          "BucketPolicyMember", "ServiceAccount", "ServiceAccountKey",
          "ServiceAccountPolicy", "Topic", ""}

RequestsTable == [kind \in Kinds |-> RequestsOf(kind)]

\* The kinds whose resource is looked up under what the first reference
\* resolved to: with that field empty there is nothing to be found.
FoundUnderReference ==
    {"NodePool", "Connection", "CryptoKey", "CryptoKeyPolicy", "BucketPolicy",
     "BucketPolicyMember", "ServiceAccountKey", "ServiceAccountPolicy"}

\* Mutant: the crypto key's Observe does not look at the deletion timestamp.
NotThereOnceDeletedRings == {"KeyRing"}

\* Mutant: a policy's Observe copies the key's early return.
NotThereOnceDeletedPolicies == {"KeyRing", "CryptoKey", "CryptoKeyPolicy"}

\* The kinds whose Observe says "not there" once the CR is deleted, because
\* Cloud KMS keeps the resource for ever ...
NotThereOnceDeleted == {"KeyRing", "CryptoKey"}

\* ... and whose Delete makes no call.
DeleteDoesNothing == {"KeyRing", "CryptoKey"}

\* A world gives every CR a kind and every request of it the CRs it names.
ASSUME WorldsAssumption ==
    \A w \in Worlds :
        /\ w.kind \in [Objects -> Kinds]
        /\ \A o \in Objects :
             w.refs[o] \in [1..Len(RequestsTable[w.kind[o]]) -> SUBSET Objects]

-----------------------------------------------------------------------------
(* Google Cloud: a resource is created only where what it refers to exists; *)
(* what lives inside another resource goes with it, anything else that      *)
(* refers to a resource keeps it from being deleted.                        *)

Inside == {"NodePool", "BucketPolicy", "BucketPolicyMember",
           "ServiceAccountKey", "ServiceAccountPolicy", "CryptoKeyPolicy"}

Kind(o) == world.kind[o]

Requests(o) == RequestsTable[Kind(o)]

GCPAccepts(o) == \A i \in DOMAIN mem[o].values : mem[o].values[i] \subseteq ext

Users(o) == {u \in ext : \E i \in DOMAIN uses[u] : o \in uses[u][i]}

\* What lives inside a resource is found under its first reference.
Contents(o) == {u \in Users(o) : Kind(u) \in Inside /\ o \in uses[u][1]}

GCPReleases(o) == \A u \in Users(o) : Kind(u) \in Inside

-----------------------------------------------------------------------------
Values(o) == [1..Len(Requests(o)) -> SUBSET Objects]

NoValues(o) == [i \in 1..Len(Requests(o)) |-> {}]

NewRecord(o) == [phase |-> "none", finalizer |-> FALSE, named |-> FALSE,
             values |-> NoValues(o), observed |-> FALSE]

Stored(o) == crs[o].phase \in {"live", "deleting"}

Goto(o, where) == pcs' = [pcs EXCEPT ![o] = where]

\* A write of the copy c: refused when the stored CR has moved on.
Write(o, c, where) ==
    IF current[o]
    THEN /\ crs' = [crs EXCEPT ![o] = c]
         /\ mem' = [mem EXCEPT ![o] = c]
         /\ Goto(o, where)
    ELSE /\ UNCHANGED <<crs, mem>>
         /\ Goto(o, "finish")

CRInit ==
    /\ world \in Worlds
    /\ crs = [o \in Objects |->
                IF Kind(o) = "" THEN [NewRecord(o) EXCEPT !.phase = "gone"] ELSE NewRecord(o)]
    /\ ext = {}
    /\ uses = [o \in Objects |-> NoValues(o)]
    /\ pcs = [o \in Objects |-> "idle"]
    /\ mem = [o \in Objects |-> NewRecord(o)]
    /\ current = [o \in Objects |-> TRUE]
    /\ found = [o \in Objects |-> FALSE]
    /\ cleared = {}
    /\ mishaps = MaxMishaps

\* The reconciler reads the CR and runs the initializers, of which
\* NameAsExternalName names it.  (A ServiceAccountKey is named by its Create;
\* nothing refers to one.)
Begin(o) ==
    /\ pcs[o] = "idle" /\ Stored(o)
    /\ LET c == [crs[o] EXCEPT !.named = TRUE]
       IN /\ crs' = [crs EXCEPT ![o] = c]
          /\ mem' = [mem EXCEPT ![o] = c]
          /\ Goto(o, IF c.phase = "live" THEN "resolve" ELSE "observe")
    /\ current' = [current EXCEPT ![o] = TRUE]
    /\ UNCHANGED <<world, ext, uses, found, cleared, mishaps>>

\* The CRs request i of o looks at: none if the field has its value already.
Chosen(o, i) ==
    IF mem[o].values[i] # {} THEN {}
    ELSE IF world.refs[o][i] = {} /\ Requests(o)[i].selectsAll
    THEN {t \in Objects : Stored(t) /\ Kind(t) = Requests(o)[i].to}
    ELSE world.refs[o][i]

Resolves(o, i) ==
    /\ \A t \in Chosen(o, i) : Stored(t) /\ Extract(Requests(o)[i].by, crs[t])
    /\ (Requests(o)[i].selectsAll /\ mem[o].values[i] = {}) => Chosen(o, i) # {}

Resolved(o) ==
    [i \in DOMAIN mem[o].values |-> mem[o].values[i] \cup Chosen(o, i)]

\* Mutant: an error of ResolveReferences does not end the reconcile.
ResolveReferencesRegardless(o) ==
    /\ pcs[o] = "resolve"
    /\ IF \A i \in DOMAIN mem[o].values : Resolves(o, i)
       THEN Write(o, [mem[o] EXCEPT !.values = Resolved(o)], "observe")
       ELSE Goto(o, "observe") /\ UNCHANGED <<crs, mem>>
    /\ UNCHANGED <<world, ext, uses, current, found, cleared, mishaps>>

\* ResolveReferences: the requests are made in order, the first that fails ends
\* the reconcile, and the CR is written only when all have succeeded.
ResolveReferences(o) ==
    /\ pcs[o] = "resolve"
    /\ IF \A i \in DOMAIN mem[o].values : Resolves(o, i)
       THEN Write(o, [mem[o] EXCEPT !.values = Resolved(o)], "observe")
       ELSE Goto(o, "finish") /\ UNCHANGED <<crs, mem>>
    /\ UNCHANGED <<world, ext, uses, current, found, cleared, mishaps>>

\* Observe: what is found puts the link, name or email others refer to into
\* the status.
CRObserve(o) ==
    /\ pcs[o] = "observe"
    /\ LET deleted == mem[o].phase = "deleting"
           there == /\ o \in ext
                    /\ ~(deleted /\ Kind(o) \in NotThereOnceDeleted)
                    /\ Kind(o) \in FoundUnderReference
                       => \/ world.refs[o][1] = {}
                          \/ mem[o].values[1] # {}
       IN /\ found' = [found EXCEPT ![o] = there]
          /\ mem' = [mem EXCEPT ![o].observed = @ \/ there]
          /\ Goto(o, IF ~deleted THEN "finalize"
                     ELSE IF there THEN "delete" ELSE "unfinalize")
    /\ UNCHANGED <<world, crs, ext, uses, current, cleared, mishaps>>

\* AddFinalizer: an Update of the CR, which leaves the stored status alone and
\* brings it back into memory.
AddFinalizer(o) ==
    /\ pcs[o] = "finalize"
    /\ LET next == IF found[o] THEN "finish" ELSE "create"
       IN IF mem[o].finalizer
          THEN Goto(o, next) /\ UNCHANGED <<crs, mem>>
          ELSE IF current[o]
          THEN /\ crs' = [crs EXCEPT ![o].finalizer = TRUE]
               /\ mem' = [mem EXCEPT ![o] = [@ EXCEPT !.finalizer = TRUE,
                                                      !.observed = crs[o].observed]]
               /\ Goto(o, next)
          ELSE Goto(o, "finish") /\ UNCHANGED <<crs, mem>>
    /\ UNCHANGED <<world, ext, uses, current, found, cleared, mishaps>>

CRCreate(o) ==
    /\ pcs[o] = "create"
    /\ IF GCPAccepts(o)
       THEN /\ ext' = ext \cup {o}
            /\ uses' = [uses EXCEPT ![o] = mem[o].values]
       ELSE UNCHANGED <<ext, uses>>
    /\ Goto(o, "finish")
    /\ UNCHANGED <<world, crs, mem, current, found, cleared, mishaps>>

CRDelete(o) ==
    /\ pcs[o] = "delete"
    /\ LET going == IF GCPReleases(o) /\ Kind(o) \notin DeleteDoesNothing
                    THEN {o} \cup Contents(o) ELSE {}
       IN /\ ext' = ext \ going
          /\ uses' = [u \in Objects |-> IF u \in going THEN NoValues(u) ELSE uses[u]]
    /\ Goto(o, "finish")
    /\ UNCHANGED <<world, crs, mem, current, found, cleared, mishaps>>

RemoveFinalizer(o) ==
    /\ pcs[o] = "unfinalize"
    /\ crs' = IF current[o] THEN [crs EXCEPT ![o] = [NewRecord(o) EXCEPT !.phase = "gone"]]
              ELSE crs
    /\ Goto(o, IF current[o] THEN "idle" ELSE "finish")
    /\ mem' = IF current[o] THEN [mem EXCEPT ![o] = NewRecord(o)] ELSE mem
    /\ UNCHANGED <<world, ext, uses, current, found, cleared, mishaps>>

\* The Status().Update that ends every reconcile.
CRFinish(o) ==
    /\ pcs[o] = "finish"
    /\ crs' = [crs EXCEPT ![o].observed = IF current[o] THEN mem[o].observed ELSE @]
    /\ Goto(o, "idle")
    /\ mem' = [mem EXCEPT ![o] = NewRecord(o)]
    /\ current' = [current EXCEPT ![o] = TRUE]
    /\ found' = [found EXCEPT ![o] = FALSE]
    /\ UNCHANGED <<world, ext, uses, cleared, mishaps>>

CRReconcile(o) ==
    \/ Begin(o) \/ ResolveReferences(o) \/ CRObserve(o) \/ AddFinalizer(o)
    \/ CRCreate(o) \/ CRDelete(o) \/ RemoveFinalizer(o) \/ CRFinish(o)

-----------------------------------------------------------------------------
(* People, and what goes wrong.                                             *)

PeopleCreate(o) ==
    /\ crs[o].phase = "none"
    /\ crs' = [crs EXCEPT ![o].phase = "live"]
    /\ UNCHANGED <<world, ext, uses, pcs, mem, current, found, cleared, mishaps>>

\* Without a finalizer the CR is gone at once.
PeopleDelete(o) ==
    /\ crs[o].phase = "live"
    /\ crs' = [crs EXCEPT ![o] =
                  IF @.finalizer THEN [@ EXCEPT !.phase = "deleting"]
                  ELSE [NewRecord(o) EXCEPT !.phase = "gone"]]
    /\ current' = [current EXCEPT ![o] = FALSE]
    /\ UNCHANGED <<world, ext, uses, pcs, mem, found, cleared, mishaps>>

\* The spec is replaced by the manifest people wrote, which has the references
\* and not the values.
PeopleReplace(o) ==
    /\ mishaps > 0 /\ Stored(o) /\ crs[o].values # NoValues(o)
    /\ crs' = [crs EXCEPT ![o].values = NoValues(o)]
    /\ current' = [current EXCEPT ![o] = FALSE]
    /\ cleared' = cleared \cup {o}
    /\ mishaps' = mishaps - 1
    /\ UNCHANGED <<world, ext, uses, pcs, mem, found>>

CRCallFails(o) ==
    /\ mishaps > 0 /\ pcs[o] \in {"resolve", "observe", "finalize", "create", "delete"}
    /\ Goto(o, "finish")
    /\ mishaps' = mishaps - 1
    /\ UNCHANGED <<world, crs, ext, uses, mem, current, found, cleared>>

CRRestart ==
    /\ mishaps > 0 /\ \E o \in Objects : pcs[o] # "idle"
    /\ pcs' = [o \in Objects |-> "idle"]
    /\ mem' = [o \in Objects |-> NewRecord(o)]
    /\ current' = [o \in Objects |-> TRUE]
    /\ found' = [o \in Objects |-> FALSE]
    /\ mishaps' = mishaps - 1
    /\ UNCHANGED <<world, crs, ext, uses, cleared>>

People(o) == PeopleCreate(o) \/ PeopleDelete(o) \/ PeopleReplace(o)

CRNext ==
    \/ \E o \in Objects : CRReconcile(o) \/ People(o) \/ CRCallFails(o)
    \/ CRRestart

CRSpec == CRInit /\ [][CRNext]_crVars

\* Every stored CR is reconciled again and again: failures are requeued and
\* successes polled.
CRFairSpec == CRSpec /\ \A o \in Objects : WF_crVars(CRReconcile(o))

-----------------------------------------------------------------------------
CRPCs == {"idle", "resolve", "observe", "finalize", "create", "delete",
        "unfinalize", "finish"}

CRRecords(o) ==
    [phase : {"none", "live", "deleting", "gone"}, finalizer : BOOLEAN,
     named : BOOLEAN, values : Values(o), observed : BOOLEAN]

\* Every request people wrote something for, and every one that always selects,
\* has its value in vals.
Complete(o, vals) ==
    \A i \in DOMAIN vals :
        (world.refs[o][i] # {} \/ Requests(o)[i].selectsAll) => vals[i] # {}

\* The kinds whose resource outlives its CR.
Outlives(o) == Kind(o) \in {"KeyRing", "CryptoKey"} \/ o \in cleared

\* ResolveReferences of a kind with several references (Cluster, Connection,
\* the policies) fills all of them or none: the stored CR never carries the
\* values of the first requests of a resolution that failed later.
AllOrNone ==
    \A o \in Objects : Complete(o, crs[o].values) \/ crs[o].values = NoValues(o)

\* References are not resolved once a CR is deleted, so what its Observe and
\* Delete need must already be there: a CR that has a finalizer has all its
\* values, unless somebody took them out of its spec.
FinalizerMeansResolved ==
    \A o \in Objects :
        (crs[o].finalizer /\ o \notin cleared) => Complete(o, crs[o].values)

\* A resource is created only after every resource it refers to by what GCP
\* reported of it (its self link, relative name or email) has been observed,
\* however the controllers of the two interleave.
CreatedAfterReferents ==
    \A o \in ext : \A i \in DOMAIN uses[o] : \A t \in uses[o][i] :
        Requests(o)[i].by # "ExternalName"
            => crs[t].observed \/ crs[t].phase = "gone"

\* A CR goes only when its resource is gone too.  The KMS kinds are left
\* behind on purpose; a CR whose values were taken out of its spec is looked
\* for in the wrong place.
NoOrphan ==
    \A o \in ext : Stored(o) \/ Outlives(o)

\* What the finalizer and the reconcile in progress know, for the induction:
\* the copy is the stored CR as long as it is current, a CR is past "resolve"
\* only with its values, a finalizer is removed only by the CR's own reconcile
\* and only when the resource is not there.
LocalInv(o) ==
    /\ crs[o].finalizer =>
         /\ Stored(o)
         /\ o \notin cleared => Complete(o, crs[o].values)
    /\ crs[o].phase = "deleting" => crs[o].finalizer
    /\ Complete(o, crs[o].values) \/ crs[o].values = NoValues(o)
    /\ o \in ext => crs[o].finalizer \/ Outlives(o)
    /\ pcs[o] # "idle" =>
         /\ current[o] => /\ Stored(o)
                        /\ mem[o].values = crs[o].values
                        /\ mem[o].phase = crs[o].phase
                        /\ mem[o].finalizer = crs[o].finalizer
         /\ mem[o].finalizer =>
              /\ crs[o].finalizer
              /\ o \notin cleared => Complete(o, mem[o].values)
         /\ mem[o].phase = "deleting" => mem[o].finalizer
    /\ pcs[o] \in {"finalize", "create"} => Complete(o, mem[o].values)
    /\ (pcs[o] = "observe" /\ mem[o].phase # "deleting") => Complete(o, mem[o].values)
    /\ pcs[o] = "create" => crs[o].finalizer
    /\ pcs[o] = "unfinalize" => o \notin ext \/ Outlives(o)

\* The types, as far as the induction needs them.
Typed ==
    /\ world \in Worlds
    /\ crs = [o \in Objects |-> crs[o]] /\ mem = [o \in Objects |-> mem[o]]
    /\ \A o \in Objects : crs[o] \in CRRecords(o) /\ mem[o] \in CRRecords(o)
    /\ pcs \in [Objects -> CRPCs] /\ current \in [Objects -> BOOLEAN]
    /\ found \in [Objects -> BOOLEAN]
    /\ ext \subseteq Objects

CRInv == Typed /\ \A o \in Objects : LocalInv(o)

\* What GCP reported of t is in its status, unless t is gone.
Reported(t) == crs[t].observed \/ crs[t].phase = "gone"

\* The values of o's requests, as far as they were extracted from a status.
FromStatus(o, vals) ==
    \A i \in DOMAIN vals : \A t \in vals[i] :
        Requests(o)[i].by # "ExternalName" => Reported(t)

\* For the induction of CreatedAfterReferents: it holds of the stored values
\* and of those in memory too, and a copy that is current has not forgotten that
\* its resource was observed.
ReferentsInv ==
    /\ CRInv
    /\ uses = [o \in Objects |-> uses[o]]
    /\ \A o \in Objects :
         /\ uses[o] \in Values(o)
         /\ FromStatus(o, crs[o].values)
         /\ FromStatus(o, mem[o].values)
         /\ FromStatus(o, uses[o])
         /\ (pcs[o] # "idle" /\ current[o] /\ crs[o].observed) => mem[o].observed

\* Whatever the order in which people create CRs that refer to each other, if
\* they leave them alone every resource is created in the end.
CreatedInAnyOrder ==
    <>[](\A o \in Objects : Kind(o) # "" => crs[o].phase = "live")
        => <>(\A o \in Objects : Kind(o) # "" => o \in ext)

\* Whatever the order in which they delete them, all CRs go in the end: a
\* resource that is still referred to waits for the ones that refer to it.
DeletedInAnyOrder ==
    (\A o \in Objects : crs[o].phase \in {"deleting", "gone"} /\ cleared = {})
        ~> (cleared # {} \/ \A o \in Objects : crs[o].phase = "gone")
=============================================================================
