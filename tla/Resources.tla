------------------------------ MODULE Resources ------------------------------
(***************************************************************************)
(* Any one of the controllers that keep the settings of a CR and of a      *)
(* resource in GCP equal: the methods Observe, Create, Update and Delete   *)
(* of a kind, defined in Compute, PubSub, Services, Storage and            *)
(* PolicyDocuments, run by the reconciler of Managed against GCP and       *)
(* against people who work on both sides.                                  *)
(*                                                                         *)
(* `inst` is the kind and the fields of its spec that are looked at.  A    *)
(* kind with a region, location or key ring in its spec, a managed zone    *)
(* and type, or a parent and network, uses it to address the resource:     *)
(* that field is the place.  The others have one place, Home.  Every method is one step up to its last call to  *)
(* GCP; an Update is a read (of the ones that read again) and a call.      *)
(***************************************************************************)
EXTENDS Managed, Compute, PubSub, Services, Storage, PolicyDocuments, FiniteSets

CONSTANTS Instances,  \* [kind, fields]
          Places, Home,
          Yes         \* the value of a boolean that is true

Kinds == {"Network", "Subnetwork", "GlobalAddress", "Firewall", "Router",
          "Topic", "Subscription", "CloudMemorystoreInstance",
          "ServiceAccount", "KeyRing", "CryptoKey", "ResourceRecordSet",
          "Connection", "Bucket"} \cup PolicyKinds

ParametersOf(k) == CASE k = "Network" -> NetworkParameters
                     [] k = "Subnetwork" -> SubnetworkParameters
                     [] k = "GlobalAddress" -> GlobalAddressParameters
                     [] k = "Firewall" -> FirewallParameters
                     [] k = "Router" -> RouterParameters
                     [] k = "Topic" -> TopicParameters
                     [] k = "Subscription" -> SubscriptionParameters
                     [] k = "CloudMemorystoreInstance" -> CloudMemorystoreInstanceParameters
                     [] k = "ServiceAccount" -> ServiceAccountParameters
                     [] k = "KeyRing" -> KeyRingParameters
                     [] k = "CryptoKey" -> CryptoKeyParameters
                     [] k = "ResourceRecordSet" -> ResourceRecordSetParameters
                     [] k = "Connection" -> ConnectionParameters
                     [] k = "Bucket" -> BucketSpecAttrs
                     [] k = "CryptoKeyPolicy" -> CryptoKeyPolicyParameters
                     [] k = "ServiceAccountPolicy" -> ServiceAccountPolicyParameters

PlainOf(k) == CASE k = "Subnetwork" -> SubnetworkPlain
                [] k = "Firewall" -> FirewallPlain
                [] k = "Router" -> RouterPlain
                [] k = "Topic" -> TopicPlain
                [] k = "Subscription" -> SubscriptionPlain
                [] k = "CloudMemorystoreInstance" -> CloudMemorystorePlain
                [] k = "KeyRing" -> KeyRingParameters
                [] k = "CryptoKey" -> CryptoKeyPlain
                [] k = "ResourceRecordSet" -> ResourceRecordSetPlain
                [] k = "Connection" -> ConnectionPlain
                [] k = "Bucket" -> BucketPlain
                [] k \in PolicyKinds -> Policy
                [] OTHER -> {}

\* The field whose value is part of the name under which GCP is asked; two
\* parameters that are only used together are one.
PlaceField(k) == CASE k \in {"Subnetwork", "Router", "CloudMemorystoreInstance"} -> "Region"
                   [] k = "KeyRing" -> "Location"
                   [] k = "CryptoKey" -> "KeyRing"
                   [] k = "ResourceRecordSet" -> "ManagedZone/Type"
                   [] k = "Connection" -> "Parent/Network"
                   [] k = "CryptoKeyPolicy" -> "CryptoKey"
                   [] k = "ServiceAccountPolicy" -> "ServiceAccount"
                   [] OTHER -> "none"

ASSUME InstancesAssumption ==
    \A i \in Instances : i.kind \in Kinds /\ i.fields \subseteq ParametersOf(i.kind)
ASSUME YesAssumption == Yes \in Values \ {Zero}
ASSUME URLsApartAssumption == NetworkURLs \cap {Default, Short, Full, Wrong, Dated} = {}
ASSUME PlacesAssumption ==
    /\ Home \in Places
    /\ Places \cap (Values \cup {Nil} \cup NetworkURLs) = {}

VARIABLES inst,    \* the kind and fields, fixed
          ext,     \* what GCP has, at each place
          plan,    \* the request Update is about to send
          late,    \* ResourceLateInitialized: the reconciler has to persist
          touched, \* somebody changed the resource since Observe read it
          moved    \* somebody changed the place in the spec

vars == <<managedVars, inst, ext, plan, late, touched, moved>>

kind == inst.kind
At(spec) == IF PlaceField(kind) \in DOMAIN spec THEN spec[PlaceField(kind)] ELSE Home

\* Required fields with no empty value.
NeverZero == {"IPCidrRange", "MemorySizeGB", "Purpose", "Tier"}

Booleans == {"AutoCreateSubnetworks", "AuthEnabled", "DefaultEventBasedHold",
             "Detached", "Disabled", "EnableFlowLogs", "EnableMessageOrdering",
             "EncryptedInterconnectRouter", "PrivateIPGoogleAccess",
             "RequesterPays", "RetainAckedMessages", "VersioningEnabled"}

\* Kinds that name their network by URL.
InNetwork == {"Subnetwork", "GlobalAddress", "Firewall", "Router"}

ConfValues(k, f) == CASE f = PlaceField(k) -> Places
                      [] f \in Booleans -> {Zero, Yes}
                      [] f \in NeverZero -> Values \ {Zero}
                      [] k \in InNetwork /\ f = "Network" -> {Whole, Elsewhere}
                      [] k = "Subscription" /\ f \in TopicNames -> {Zero, Full}
                      [] k = "Subscription" /\ f = "AckDeadlineSeconds" -> Values \cup {Default}
                      [] k = "Bucket" /\ f \in PredefinedACLs -> {Zero}
                      [] k = "Bucket" /\ f = "Lifecycle" -> Values \cup {Dated}
                      [] OTHER -> Values

\* What a person may write: a network by part of its URL, a topic by its short
\* name or, as the API documents it, by its full one.
WrittenValues(k, f) ==
    CASE f = PlaceField(k) -> Places
      [] k \in InNetwork /\ f = "Network" -> NetworkURLs \cup {Nil}
      [] k = "Subscription" /\ f \in TopicNames -> {IF f \in PlainOf(k) THEN Zero ELSE Nil, Short, Full}
      [] k = "Bucket" /\ f \in PredefinedACLs -> Values
      [] OTHER -> ConfValues(k, f) \cup (IF f \in PlainOf(k) THEN {} ELSE {Nil})

\* The specs people write, and the configurations GCP may have.
Written ==
    [i \in Instances |->
        {s \in [i.fields -> UNION {WrittenValues(i.kind, f) : f \in i.fields}] :
            \A f \in i.fields : s[f] \in WrittenValues(i.kind, f)}]

Confs ==
    [i \in Instances |->
        {c \in [i.fields -> UNION {ConfValues(i.kind, f) : f \in i.fields}] :
            /\ \A f \in i.fields : c[f] \in ConfValues(i.kind, f)
            /\ i.kind \in PolicyKinds => ~IsEmptyPolicy(c)}]

SpecValues(k, f) == WrittenValues(k, f) \cup ConfValues(k, f)
                        \cup IF k = "Subscription" /\ f = "DeadLetterPolicy" THEN {Wrong} ELSE {}

\* The specs a CR may have, written or late-initialized.
SpecsOf(i) ==
    {s \in [i.fields -> UNION {SpecValues(i.kind, f) : f \in i.fields}] :
        \A f \in i.fields : s[f] \in SpecValues(i.kind, f)}

ASSUME SpecsOfAssumption == \A i \in Instances : SpecsOf(i) \subseteq Specs

\* ready is the state every resource reaches; the others are of a Connection.
ExtStates == {"absent", "creating", "ready", "deleting", "inactive", "unpeered", "unlisted"}

Absent == [state |-> "absent", conf |-> <<>>, made |-> FALSE]

\* A resource that somebody else created.
Foreign(c) == [state |-> "ready", conf |-> c, made |-> FALSE]
Placed(p) == {c \in Confs[inst] : \A f \in inst.fields \cap {PlaceField(kind)} : c[f] = p}

resource == ext[At(cr.spec)]

\* A resource after a write: an empty policy is none.
Present(r) == IF kind \in PolicyKinds /\ IsEmptyPolicy(r.conf) THEN Absent ELSE r

\* The resource after a request that sets "set": a policy is made by the first.
Stored(set) ==
    Present(IF resource.state = "absent"
            THEN [state |-> "ready", conf |-> set, made |-> TRUE]
            ELSE [resource EXCEPT !.conf = Applied(set, @)])

(***************************************************************************)
(* The methods of the kind.                                                *)
(***************************************************************************)

ObserveOf(k, spec, r) ==
    CASE k = "Network" -> NetworkObserve(spec, r.conf)
      [] k = "Subnetwork" -> SubnetworkObserve(spec, r.conf)
      [] k = "GlobalAddress" -> GlobalAddressObserve(spec, r.conf, r.state)
      [] k = "Firewall" -> FirewallObserve(spec, r.conf)
      [] k = "Router" -> RouterObserve(spec, r.conf)
      [] k = "Topic" -> TopicObserve(spec, r.conf)
      [] k = "Subscription" -> SubscriptionObserve(spec, r.conf)
      [] k = "CloudMemorystoreInstance" -> CloudMemorystoreObserve(spec, r.conf, r.state)
      [] k = "ServiceAccount" -> ServiceAccountObserve(spec, r.conf, r.state)
      [] k = "KeyRing" -> KeyRingObserve(spec)
      [] k = "CryptoKey" -> CryptoKeyObserve(spec, r.conf)
      [] k = "ResourceRecordSet" -> ResourceRecordSetObserve(spec, r.conf)
      [] k = "Connection" -> ConnectionObserve(spec, r.conf, r.state)
      [] k = "Bucket" -> BucketObserve(spec, r.conf)
      [] k \in PolicyKinds -> PolicyObserve(spec, r.conf)

CreateOf(k, spec) == CASE k = "Network" -> NetworkCreate(spec)
                       [] k = "Subnetwork" -> SubnetworkCreate(spec)
                       [] k = "GlobalAddress" -> GlobalAddressCreate(spec)
                       [] k = "Firewall" -> FirewallCreate(spec)
                       [] k = "Router" -> RouterCreate(spec)
                       [] k = "Topic" -> TopicCreate(spec)
                       [] k = "Subscription" -> SubscriptionCreate(spec)
                       [] k = "CloudMemorystoreInstance" -> CloudMemorystoreCreate(spec)
                       [] k = "ServiceAccount" -> ServiceAccountCreate(spec)
                       [] k = "KeyRing" -> KeyRingCreate(spec)
                       [] k = "CryptoKey" -> CryptoKeyCreate(spec)
                       [] k = "ResourceRecordSet" -> ResourceRecordSetCreate(spec)
                       [] k = "Connection" -> ConnectionCreate(spec)
                       [] k = "Bucket" -> BucketCreate(spec)
                       [] k \in PolicyKinds -> PolicyCreate(spec)

UpdateOf(k, spec, conf) == CASE k = "Network" -> NetworkUpdate(spec, conf)
                             [] k = "Subnetwork" -> SubnetworkUpdate(spec, conf)
                             [] k = "GlobalAddress" -> GlobalAddressUpdate
                             [] k = "Firewall" -> FirewallUpdate(spec, conf)
                             [] k = "Router" -> RouterUpdate(spec, conf)
                             [] k = "Topic" -> TopicUpdate(spec, conf)
                             [] k = "Subscription" -> SubscriptionUpdate(spec, conf)
                             [] k = "CloudMemorystoreInstance" -> CloudMemorystoreUpdate(spec)
                             [] k = "ServiceAccount" -> ServiceAccountUpdate(spec)
                             [] k = "KeyRing" -> KeyRingUpdate
                             [] k = "CryptoKey" -> CryptoKeyUpdate(spec, conf)
                             [] k = "ResourceRecordSet" -> ResourceRecordSetUpdate(spec)
                             [] k = "Connection" -> ConnectionUpdate(spec)
                             [] k = "Bucket" -> BucketUpdate(spec, conf)
                             [] k \in PolicyKinds -> PolicyUpdate(spec, conf)

DeleteOf(k) == CASE k = "Network" -> NetworkDelete
                 [] k = "Subnetwork" -> SubnetworkDelete
                 [] k = "GlobalAddress" -> GlobalAddressDelete
                 [] k = "Firewall" -> FirewallDelete
                 [] k = "Router" -> RouterDelete
                 [] k = "Topic" -> TopicDelete
                 [] k = "Subscription" -> SubscriptionDelete
                 [] k = "CloudMemorystoreInstance" -> CloudMemorystoreDelete
                 [] k = "ServiceAccount" -> ServiceAccountDelete
                 [] k = "KeyRing" -> KeyRingDelete
                 [] k = "CryptoKey" -> CryptoKeyDelete
                 [] k = "ResourceRecordSet" -> ResourceRecordSetDelete
                 [] k = "Connection" -> ConnectionDelete
                 [] k = "Bucket" -> BucketDelete
                 [] k \in PolicyKinds -> PolicyDelete

ObservePanics(k, spec, conf) ==
    \/ k = "Firewall" /\ FirewallLateInitializePanics(spec, conf)
    \/ k = "CryptoKey" /\ CryptoKeyIsUpToDatePanics(CryptoKeyLateInitialize(spec, conf), conf)

\* What GCP refuses to do to a resource it has.
Refuses(k, set, conf, changed) ==
    \/ k = "Network" /\ NetworkRefuses(set, conf)
    \/ k = "Subnetwork" /\ SubnetworkRefuses(set, conf, changed)
    \/ k \in {"Topic", "Subscription"} /\ PubSubRefuses(set)
    \/ k = "CryptoKey" /\ CryptoKeyRefuses(set)
    \/ k \in PolicyKinds /\ changed

\* Mutant: Network's Observe forgets to write it.
WritesInObserveNoNetwork == {"Subnetwork", "GlobalAddress", "Router", "Bucket"}

\* Where a late-initialized spec is written: by Observe, by the reconciler.
WritesInObserve == Kinds \ ({"Firewall", "CryptoKey", "ServiceAccount", "KeyRing", "Connection"}
                                \cup PolicyKinds)
WritesAfter == {"Firewall", "CryptoKey", "ResourceRecordSet"}

\* Update starts with a Get; it fails if the resource is gone (an empty policy
\* is not, it is set).
ReadsAgain == {"Network", "Subnetwork", "Firewall", "Router", "Topic",
               "Subscription", "CryptoKey", "Bucket"}

\* KMS resources outlive their CR.
Permanent == {"KeyRing", "CryptoKey"}

\* Creation and deletion are long-running operations.
Slow == {"Network", "Subnetwork", "GlobalAddress", "Firewall", "Router",
         "CloudMemorystoreInstance", "Connection"}

(***************************************************************************)
(* The controller.                                                         *)
(***************************************************************************)

Conditioned(ready) == IF ready = "" THEN cr.ready ELSE ready

\* Mutant: only a resource that is ready is found.
FoundReady(r) == r.state = "ready"

Found(r) == r.state # "absent"

\* Observe does not look for a KMS resource whose CR is deleted.
ObserveNothing ==
    /\ pc = "observe"
    /\ ~Found(resource) \/ (kind \in Permanent /\ cr.phase = "deleting")
    /\ obs' = NotThere
    /\ touched' = FALSE
    /\ pc' = "decide"
    /\ UNCHANGED <<kube, cr, fresh, budget, inst, ext, plan, late, moved>>

ObservePanic ==
    /\ pc = "observe"
    /\ Found(resource)
    /\ kind \in Permanent => cr.phase = "live"
    /\ ObservePanics(kind, cr.spec, resource.conf)
    /\ pc' = "panic"
    /\ UNCHANGED <<kube, cr, fresh, obs, budget, inst, ext, plan, late, touched, moved>>

\* A late-initialized spec is written first; if the API server refuses it,
\* Observe fails.
Observe ==
    /\ pc = "observe"
    /\ Found(resource)
    /\ kind \in Permanent => cr.phase = "live"
    /\ ~ObservePanics(kind, cr.spec, resource.conf)
    /\ LET seen == ObserveOf(kind, cr.spec, resource)
           changed == seen.spec # cr.spec
           writes == changed /\ kind \in WritesInObserve
       IN  /\ cr' = IF writes /\ ~fresh THEN [cr EXCEPT !.spec = seen.spec]
                    ELSE [cr EXCEPT !.spec = seen.mem, !.ready = Conditioned(seen.ready)]
           /\ kube' = IF writes /\ fresh THEN [kube EXCEPT !.spec = seen.spec] ELSE kube
           /\ obs' = IF writes /\ ~fresh THEN obs
                     ELSE [exists |-> TRUE, upToDate |-> seen.upToDate, wrote |-> writes]
           /\ pc' = IF writes /\ ~fresh THEN "finish" ELSE "decide"
           /\ late' = (changed /\ kind \in WritesAfter /\ cr.phase = "live" /\ pc' = "decide")
    /\ touched' = FALSE
    /\ UNCHANGED <<fresh, budget, inst, ext, plan, moved>>

\* The reconciler persists what Observe late-initialized; the status in the
\* API server's answer replaces the one in memory.
Persist ==
    /\ late /\ pc \in {"finish", "update"}
    /\ late' = FALSE
    /\ IF fresh
       THEN /\ kube' = [kube EXCEPT !.spec = cr.spec]
            /\ cr' = Decoded(cr)
            /\ UNCHANGED pc
       ELSE /\ pc' = "finish"
            /\ UNCHANGED <<kube, cr>>
    /\ UNCHANGED <<fresh, obs, budget, inst, ext, plan, touched, moved>>

\* GCP keeps what the request sets and chooses the rest.
Created(set, spec) ==
    {c \in Placed(At(spec)) : \A f \in DOMAIN set : c[f] = set[f]}

\* A name that is taken is refused, except by the forced patch that creates
\* a Connection and by the Set that creates a policy.
Create ==
    /\ pc = "create"
    /\ LET c == CreateOf(kind, cr.spec)
       IN  /\ \/ /\ resource.state = "absent"
                 /\ \E conf \in Created(c.set, cr.spec) :
                       ext' = [ext EXCEPT ![At(cr.spec)] =
                                  [state |-> IF kind \in Slow THEN "creating" ELSE "ready",
                                   conf |-> conf, made |-> TRUE]]
                 /\ cr' = [cr EXCEPT !.ready = Conditioned(c.ready)]
              \/ /\ resource.state # "absent" \/ Created(c.set, cr.spec) = {}
                 /\ ext' = IF /\ kind \in PolicyKinds \cup {"Connection"}
                              /\ resource.state \notin {"absent", "deleting"}
                           THEN [ext EXCEPT ![At(cr.spec)] = Stored(c.set)] ELSE ext
                 /\ cr' = IF kind = "ResourceRecordSet" THEN cr
                          ELSE [cr EXCEPT !.ready = Conditioned(c.ready)]
    /\ pc' = "finish"
    /\ UNCHANGED <<kube, fresh, obs, budget, inst, plan, late, touched, moved>>

\* Update up to its call.
Update ==
    /\ pc = "update"
    /\ ~late
    /\ IF resource.state = "absent" /\ kind \in ReadsAgain
       THEN pc' = "finish" /\ UNCHANGED plan
       ELSE LET u == UpdateOf(kind, cr.spec, resource.conf)
            IN  /\ pc' = CASE u.call = "none" -> "finish"
                           [] u.call = "patch" -> "updateCall"
                           [] u.call = "panic" -> "panic"
                /\ plan' = u
    /\ touched' = (touched /\ kind \notin PolicyKinds)
    /\ UNCHANGED <<kube, cr, fresh, obs, budget, inst, ext, late, moved>>

UpdateCall ==
    /\ pc = "updateCall"
    /\ ext' = IF \/ kind \notin PolicyKinds /\ resource.state \in {"absent", "deleting"}
                 \/ Refuses(kind, plan.set, resource.conf, touched)
              THEN ext
              ELSE [ext EXCEPT ![At(cr.spec)] = Stored(plan.set)]
    /\ pc' = "finish"
    /\ UNCHANGED <<kube, cr, fresh, obs, budget, inst, plan, late, touched, moved>>

\* A resource that is gone already is no error.
Delete ==
    /\ pc = "delete"
    /\ cr' = [cr EXCEPT !.ready = Conditioned(DeleteOf(kind).ready)]
    /\ ext' = IF DeleteOf(kind).calls /\ resource.state # "absent"
              THEN [ext EXCEPT ![At(cr.spec)] =
                       IF kind \in Slow THEN [@ EXCEPT !.state = "deleting"] ELSE Absent]
              ELSE ext
    /\ pc' = "finish"
    /\ UNCHANGED <<kube, fresh, obs, budget, inst, plan, late, touched, moved>>

\* A call to GCP fails: the method returns an error, and the reconcile ends.
CallFails ==
    /\ pc \in {"observe", "create", "update", "updateCall", "delete"}
    /\ ~late
    /\ Disturb
    /\ cr' = CASE pc = "create" /\ kind # "ResourceRecordSet" ->
                      [cr EXCEPT !.ready = Conditioned(CreateOf(kind, cr.spec).ready)]
               [] pc = "delete" -> [cr EXCEPT !.ready = Conditioned(DeleteOf(kind).ready)]
               [] OTHER -> cr
    /\ pc' = "finish"
    /\ UNCHANGED <<kube, fresh, obs, inst, ext, plan, late, touched, moved>>

\* The steps of Managed; what belongs to one reconcile is dropped with it.
Reconcile ==
    /\ (ManagedStep /\ ~(late /\ pc = "finish")) \/ Crash
    /\ IF pc' = "idle"
       THEN plan' = NoCall /\ late' = FALSE /\ touched' = FALSE
       ELSE UNCHANGED <<plan, late, touched>>
    /\ UNCHANGED <<inst, ext, moved>>

(***************************************************************************)
(* GCP and people.                                                         *)
(***************************************************************************)

\* A long-running operation completes.
OperationDone ==
    /\ \E p \in Places :
          /\ ext[p].state \in {"creating", "deleting"}
          /\ ext' = [ext EXCEPT ![p] = IF @.state = "creating" THEN [@ EXCEPT !.state = "ready"]
                                                             ELSE Absent]
    /\ UNCHANGED <<managedVars, inst, plan, late, touched, moved>>

\* Somebody else works on the resource in GCP: creates one of that name,
\* changes a setting or the state of the peering, or deletes it.
Somebody ==
    /\ Disturb
    /\ \E p \in IF PlaceField(kind) \in inst.fields THEN Places ELSE {Home} :
          /\ \/ /\ ext[p].state = "absent"
                /\ \E c \in Placed(p) : ext' = [ext EXCEPT ![p] = Foreign(c)]
             \/ /\ ext[p].state = "ready"
                /\ \E f \in inst.fields \ {PlaceField(kind)} :
                      \E v \in ConfValues(kind, f) \ {ext[p].conf[f]} :
                         ext' = [ext EXCEPT ![p] = Present([@ EXCEPT !.conf[f] = v])]
             \/ /\ kind = "Connection" /\ ext[p].state = "ready"
                /\ \E s \in {"inactive", "unpeered", "unlisted"} : ext' = [ext EXCEPT ![p].state = s]
             \/ /\ ext[p].state = "ready"
                /\ ext' = [ext EXCEPT ![p] = Absent]
          /\ touched' = (touched \/ (pc \notin {"idle", "observe"} /\ p = At(cr.spec)))
    /\ UNCHANGED <<kube, cr, fresh, obs, pc, inst, plan, late, moved>>

\* People create, edit and delete the CR.
PeopleWrite ==
    /\ Disturb
    /\ \E s \in Written[inst] :
          IF kube.phase = "gone"
          THEN kube' = NewCR(s) /\ UNCHANGED moved
          ELSE /\ s # kube.spec
               /\ kube' = [kube EXCEPT !.spec = s]
               /\ moved' = (moved \/ At(s) # At(kube.spec))
    /\ fresh' = FALSE
    /\ UNCHANGED <<cr, obs, pc, inst, ext, plan, late, touched>>

PeopleDelete == UserDelete /\ UNCHANGED <<inst, ext, plan, late, touched, moved>>

Init ==
    /\ ManagedInit
    /\ inst \in Instances
    /\ kube.spec \in Written[inst]
    /\ \/ ext = [p \in Places |-> Absent]
       \/ \E c \in Placed(At(kube.spec)) :
             ext = [[p \in Places |-> Absent] EXCEPT ![At(kube.spec)] = Foreign(c)]
    /\ plan = NoCall
    /\ late = FALSE
    /\ touched = FALSE
    /\ moved = FALSE

Controller == \/ ObserveNothing \/ ObservePanic \/ Observe \/ Persist
              \/ Create \/ Update \/ UpdateCall \/ Delete

Progress == Controller \/ (Reconcile /\ budget' = budget)

Next == Controller \/ Reconcile \/ CallFails \/ OperationDone \/ Somebody
             \/ PeopleWrite \/ PeopleDelete

Spec == Init /\ [][Next]_vars

FairSpec == Spec /\ WF_vars(Progress) /\ WF_vars(OperationDone)

(***************************************************************************)
(* Properties.                                                             *)
(***************************************************************************)

TypeOK ==
    /\ ManagedTypeOK
    /\ inst \in Instances
    /\ kube.spec \in SpecsOf(inst)
    /\ ext \in [Places -> [state : ExtStates, conf : Confs[inst] \cup {<<>>}, made : BOOLEAN]]
    /\ \A p \in Places : Found(ext[p]) => ext[p].conf \in Confs[inst]
    /\ plan.call \in {"none", "patch", "panic"}
    /\ late \in BOOLEAN /\ touched \in BOOLEAN /\ moved \in BOOLEAN

\* What a controller created in GCP always has a CR that addresses it and
\* holds the finalizer: no order of calls, failures, crashes, edits, deletions
\* and re-creations leaves a resource that nothing will delete.  Not so for
\* KMS resources, which Delete leaves behind, and not once somebody changed
\* the region, key ring, managed zone, record type, parent or network in the
\* spec, which the API does not prevent: Observe then looks in the new place.
NoOrphan ==
    \A p \in Places :
        (ext[p].made /\ ~moved /\ kind \notin Permanent)
            => kube.finalizer /\ At(kube.spec) = p

IsSet(f, v) == ~Unset(f, v, PlainOf(kind)) /\ (kind = "Bucket" => v # Zero)

\* Settings that Observe replaces although a person set them: the BGP
\* configuration of a Router, the labels of a CryptoKey, a deadline of 10
\* seconds and the name of the dead letter topic of a Subscription.
Overruled(f, v) ==
    \/ kind = "Router" /\ f \in RouterBgp
    \/ kind = "CryptoKey" /\ f = "Labels"
    \/ kind = "Subscription" /\ (f = "DeadLetterPolicy" \/ v = Default)

\* What a person set in the spec of a CR stays as it is: late initialization
\* in Observe, the reconciler's write of it and the one that adds the
\* finalizer, also with a copy of the CR that people changed meanwhile, write
\* nothing over it.
IntentKept ==
    [][budget' = budget =>
          \A f \in inst.fields :
             IsSet(f, kube.spec[f]) /\ ~Overruled(f, kube.spec[f])
                => kube'.spec[f] = kube.spec[f]]_vars

KeepsTheRest == kind \notin {"ServiceAccount", "Connection"} \cup PolicyKinds

\* Update changes nothing that the spec does not set, unless somebody changed
\* the resource after Observe read it.  Late initialization before the
\* comparison is what makes this so: a setting that only GCP has is in the
\* spec when the request is built.  Some kinds have none: an update of the
\* display name of a ServiceAccount clears a description it was given
\* elsewhere, and a Connection or a policy is meant to have what is in its
\* spec only.
UpdateKeepsTheRest ==
    [][UpdateCall /\ ~touched /\ KeepsTheRest =>
          \A f \in inst.fields :
             IsSet(f, cr.spec[f]) \/ ext'[At(cr.spec)].conf[f] = resource.conf[f]]_vars

\* The process panics only on a firewall that denies and does not allow, on a
\* crypto key without a version template, and when private access was turned
\* on between Subnetwork's Observe and the second read in its Update.
PanicsOnlyOn ==
    [][pc # "panic" /\ pc' = "panic" =>
          \/ /\ kind = "Firewall" /\ resource.conf["Denied"] # Zero
             /\ "Allowed" \in inst.fields => resource.conf["Allowed"] = Zero
          \/ /\ kind = "CryptoKey"
             /\ \A f \in inst.fields \cap CryptoKeyVersionTemplate : resource.conf[f] = Zero
          \/ kind = "Subnetwork" /\ touched /\ resource.conf["PrivateIPGoogleAccess"] # Zero]_vars

(***************************************************************************)
(* The inductive invariant behind these.                                   *)
(***************************************************************************)

\* The copy and the request of an Update are well typed.
CopyInv ==
    /\ pc = "idle" => ~fresh /\ ~cr.finalizer
    /\ pc # "idle" => cr.spec \in SpecsOf(inst)
    /\ pc = "updateCall" =>
         /\ \A f \in inst.fields \cap DOMAIN plan.set : plan.set[f] \in ConfValues(kind, f)
         /\ kind \in PolicyKinds => plan.set = [f \in inst.fields |-> plan.set[f]]

\* The copy addresses the same place as the stored CR while it is fresh, or as
\* long as the CR has a finalizer and nobody moved it; a finalizer is only
\* removed when nothing that the controller made is left.
PlaceInv ==
    /\ \A p \in Places : ext[p].state = "absent" => ~ext[p].made
    /\ fresh \/ (cr.finalizer /\ ~moved) => At(cr.spec) = At(kube.spec)
    /\ NoOrphan
    /\ pc = "unfinalize" \/ (pc = "decide" /\ cr.phase = "deleting" /\ ~obs.exists)
         => moved \/ kind \in Permanent \/ \A p \in Places : ~ext[p].made

\* A fresh copy has what people set.
IntentInv ==
    /\ fresh => \A f \in inst.fields :
                   IsSet(f, kube.spec[f]) /\ ~Overruled(f, kube.spec[f])
                      => cr.spec[f] = kube.spec[f]
    /\ fresh /\ pc = "observe" => cr.spec = kube.spec

Filled(spec, conf) == \A f \in inst.fields : IsSet(f, spec[f]) \/ conf[f] = Zero

\* Until somebody touches the resource, what the spec in memory does not set
\* after late initialization is not set in GCP either; nor does a request
\* change it.
RestInv ==
    /\ (KeepsTheRest /\ kind # "ResourceRecordSet" /\ pc \in {"decide", "update"}
             /\ obs.exists /\ ~touched /\ Found(resource))
         => Filled(cr.spec, resource.conf)
    /\ (KeepsTheRest /\ pc = "updateCall" /\ ~touched /\ Found(resource))
         => \A f \in inst.fields \cap DOMAIN plan.set :
               IsSet(f, cr.spec[f]) \/ plan.set[f] = resource.conf[f]

ResourceInv == TypeOK /\ LifecycleInv /\ CopyInv /\ PlaceInv /\ IntentInv /\ RestInv

\* What GCP has at a place says so, and an Update asks for the place where the
\* controller looked.
PlacedInv ==
    PlaceField(kind) \in inst.fields =>
        /\ \A p \in Places : Found(ext[p]) => ext[p].conf[PlaceField(kind)] = p
        /\ pc = "updateCall" /\ PlaceField(kind) \in DOMAIN plan.set
             => plan.set[PlaceField(kind)] = At(cr.spec)

\* What the next reconcile makes of the stored spec, and the effect of the
\* Update it would do.
Settled(spec, r) ==
    LET seen == ObserveOf(kind, spec, r)
        u == UpdateOf(kind, seen.mem, r.conf)
    IN  /\ seen.spec = spec
        /\ \/ seen.upToDate
           \/ u.call = "none"
           \/ u.call = "patch" /\ (\/ Refuses(kind, u.set, r.conf, FALSE)
                                   \/ Applied(u.set, r.conf) = r.conf)

\* Settings that Update cannot change.
Immovable(f) ==
    \/ kind = "Network" /\ f = "Description"
    \/ kind = "Network" /\ f = "AutoCreateSubnetworks" /\ kube.spec[f] = Yes
    \/ kind = "Subnetwork" /\ f \in {"Network"} \cup SubnetworkImmutable
    \/ kind \in {"GlobalAddress", "KeyRing"}
    \/ kind = "Topic" /\ f = "KmsKeyName"
    \/ kind = "Subscription" /\ f \in {"DeadLetterPolicy", "EnableMessageOrdering", "Topic"}
    \/ kind = "CloudMemorystoreInstance" /\ f \notin CloudMemorystoreUpdateMask
    \/ kind = "CryptoKey" /\ f \in CryptoKeyImmutable
    \/ kind = "Bucket" /\ f \notin BucketUpdatableAttrs \ PredefinedACLs

Differs(f) == kube.spec[f] # Nil /\ IsSet(f, kube.spec[f])
                 /\ Expanded(kube.spec)[f] # ext[At(kube.spec)].conf[f]

\* Once a controller has settled, what the spec sets is what GCP has, with
\* four exceptions: the settings that cannot be changed, everything of a
\* Network, Subnetwork or CryptoKey that has one of them different (the patch
\* with both is refused as a whole), a setting that the spec sets to zero, false or
\* empty, which the client does not send, and a network that has the name of
\* the one in the spec and is in another project.
SettledAgrees ==
    (kube.phase = "live" /\ Found(ext[At(kube.spec)])
        /\ ~ObservePanics(kind, kube.spec, ext[At(kube.spec)].conf)
        /\ Settled(kube.spec, ext[At(kube.spec)]))
      => \A f \in inst.fields : Differs(f) =>
            \/ Immovable(f)
            \/ /\ kind \in {"Network", "Subnetwork", "CryptoKey"}
               /\ \E g \in inst.fields : Immovable(g) /\ Differs(g)
            \/ /\ kind \in {"Network", "Subnetwork", "Firewall", "Router"}
               /\ kube.spec[f] = Zero
               /\ f \notin {"AutoCreateSubnetworks", "PrivateIPGoogleAccess"}
            \/ /\ kind \in InNetwork /\ f = "Network"
               /\ EquateComputeURLs(kube.spec[f], ext[At(kube.spec)].conf[f])

\* After the last disturbance every controller comes to rest: a deleted CR is
\* gone, and the resource of a live one exists and neither late initialization
\* nor Update changes anything any more, or the process keeps panicking on the
\* resource.  A Subscription with the full name of a topic in its spec may not:
\* it cannot be created.  Observe writes such names into the spec when it adopts
\* a subscription.  Nor may an empty policy, which Observe never finds.
Converges ==
    <>[](kube.phase # "gone" =>
            LET r == ext[At(kube.spec)]
            IN  \/ /\ Found(r) /\ ObservePanics(kind, kube.spec, r.conf)
                   /\ kind \in Permanent => kube.phase = "live"
                \/ kube.phase = "live" /\ Found(r) /\ Settled(kube.spec, r)
                \/ /\ kube.phase = "live" /\ kind = "Subscription"
                   /\ \E f \in inst.fields : kube.spec[f] \in {Full, Wrong}
                \/ kube.phase = "live" /\ kind \in PolicyKinds /\ IsEmptyPolicy(kube.spec))
=============================================================================
