# provider-gcp: specification and proofs

provider-gcp is a Crossplane provider. For every kind of Google Cloud resource
it manages, a controller compares a custom resource (CR) kept by the Kubernetes
API server with the resource in Google Cloud (GCP), and creates, updates or
deletes the latter. This directory holds TLA+ models of its controllers, TLC
runs over small instances of them, and theorems checked by TLAPS.

## 1. The system

| Part | Source | Modules |
|---|---|---|
| Cluster | `pkg/controller/container/cluster.go`, `pkg/clients/cluster` | `GKECluster`, `ClusterSettings`, `ClusterTypes` |
| NodePool | `pkg/controller/container/nodepool.go`, `pkg/clients/nodepool` | `NodePool` |
| CloudSQLInstance | `pkg/controller/database`, `pkg/clients/cloudsql` | `CloudSQL`, `Credential` |
| Network, Subnetwork, Firewall, Router, GlobalAddress | `pkg/controller/compute` and clients | `Compute`, `Resources` |
| Topic, Subscription | `pkg/controller/pubsub` and clients | `PubSub`, `Resources` |
| CloudMemorystoreInstance, ServiceAccount, KeyRing, CryptoKey, ResourceRecordSet, Connection | `pkg/controller/{cache,iam,kms,dns,servicenetworking}` and clients | `Services`, `Resources` |
| Bucket | `pkg/controller/storage/bucket.go`, `apis/storage/v1alpha3/types.go` | `Storage`, `Resources` |
| BucketPolicy, CryptoKeyPolicy, ServiceAccountPolicy, BucketPolicyMember | `pkg/controller/{storage,kms,iam}/*policy*.go` and clients | `IAMPolicy`, `AccessPolicy`; `PolicyDocuments`, `Resources` |
| ServiceAccountKey | `pkg/controller/iam/serviceaccountkey.go` | `ServiceAccountKey`, `Credential` |
| References between CRs | `ResolveReferences` under `apis` | `References` |
| ProviderConfig, credentials | `pkg/clients/gcp.go`, `pkg/controller/config` | `ProviderConfig` |

Every controller is driven by the reconciler of crossplane-runtime
(`managed.NewReconciler`), which is not in this repository. Each controller has
one worker; different controllers run concurrently, and so do the people who
edit CRs and everybody else who uses the same Google Cloud project.

What is hard about it:

* The CR in memory is a copy. A person edits or deletes the stored one during a
  reconcile; a write of the copy then fails, and what it decided is lost.
* `client.Update` decodes the API server's answer into the object it is given.
  Where Observe persists a late-initialized spec, the status it has just read
  from GCP is replaced by the stored, older one, and later guards
  (`cr.Status.AtProvider.Status == ...`) read that.
* GCP's operations take time, are refused while another one runs, and fail; the
  controller sees them only through the next Observe.
* A resource is read in one call and written in another.
* Some things are told only once: a private key, a generated password.
* The process stops anywhere, and goes on from what was stored.
* Four pieces of code must agree on each of several hundred fields: the one that
  generates the request, the one that late-initializes the spec, the comparison
  and the update. If they do not, the controller reverts an edit, resets what
  somebody else set, or updates forever.

The hazards, each with its line, are listed in `PROJECT.json`.

## 2. Modules

**`Managed`** (external: written from how this repository uses the runtime,
v0.15.1-0.20210913015452). `kube` is the stored CR, `cr` the reconciler's copy,
and `fresh` says that the copy's resourceVersion is still the stored one. `pc`
walks through one reconcile: Start, Observe, then for a deleted CR Delete or the
removal of the finalizer, for a live one AddFinalizer and then Create, Update or
nothing, and last `Status().Update`. All the steps that are not the system's own
progress (edits, failed calls, crashes, drift) share one `budget`, the constant
`MaxDisturbances`.

**`Fields`** has what the clients share: a spec field is `Nil` or a value, plain
fields are `Zero` when unset; the helpers of `clients/gcp.go`; and, external,
that a Google API client omits zero values that are not in `ForceSendFields` and
that an update mask clears what it names and the body lacks. An operation of a
controller yields a record: what Observe has seen (`Seen`), what Create sends
(`Creation`), and so on.

**`GKECluster`**: the Cluster controller and GKE. A field stands for one group
that `IsUpToDate` compares on its own. Observe is one step with its Get, its late
initialization and its `kube.Update`: between them only the stored CR can change,
and `fresh` accounts for that. Update is two steps, because GKE can change between
its Get and the request. The panic of `LateInitializeSpec` is a step to
`pc = "panic"`, from which the process restarts.

**`ClusterSettings`, `ClusterTypes`**: the same client function by function and
struct by struct, for every field of `ClusterParameters`. One behaviour is about
one group and at most `MaxLeaves` of its leaves: the groups have nothing in
common, and neither have leaves that are compared apart. The controller around
them is reduced to Observe, Update, GKE's changes and edits.

**`NodePool`**: the NodePool controller in a cluster that runs one operation at a
time; the cluster is somebody else's, may be busy and may go away.

**`CloudSQL`**: the instance, its password, the connection details in the hands of
a reconcile (`conn`) and in the secret. `lost` is a history variable: passwords
in hand when the provider stopped. A deleted instance's name stays reserved for
a while.

**`Resources`**: the operations of one kind, chosen by `inst`, run by `Managed`
against GCP at one or two places: what the spec says of the resource's address,
which is a region, a location, a key ring, a key or an account, for a record set
its managed zone and type, and for a connection its parent and network. The
operations are in `Compute`, `PubSub`, `Services`, `Storage` and
`PolicyDocuments`, one operator per function of the source. An instance is a
kind and one or two of its fields: fields that a kind treats in the same way are
represented once. `touched` records whether somebody changed the resource since
the controller read it (the fingerprint of a subnetwork, the etag of a policy),
`late` a late initialization that the reconciler still has to store.

**`IAMPolicy`, `AccessPolicy`**: a policy maps role and condition to a set of
members. Which binding of a role `BindRoleToMember` and `UnbindRoleFromMember`
meet first is IAM's choice, so both yield the set of policies they may make. A
Set with an etag succeeds only if the policy was not written since; Create and
Delete of the whole policy Set without one. The reconciler is folded into
`Begin`. `AccessPolicy` is the abstract specification: each change of the policy
is one that its writer is entitled to at that moment, as if reading and writing
were one step. `OnlyOwnGrants` says that `IAMPolicy` implements it.

**`ServiceAccountKey`, `Credential`**: after `keys.create` the answer is in hand
(`created`) until the reconciler has stored the name and published the connection
details. `dropped` and `withdrawn` are history variables: where the provider
stopped with a new key in hand, and whether access was ever withdrawn.
`Credential` is the abstract specification of a secret that is told once: it is
issued, in hand, then told or lost, and never told again. `CloudSQL` and
`ServiceAccountKey` both implement it (`ToldOnce`).

**`References`**: several CRs with the controllers of all of them. `world` says
which kinds they have and which CRs people refer to. A live CR is resolved at the
start of each reconcile; the kinds' own rules say whether a value is the external
name or something GCP reported, whether several references are stored together,
and what GCP refuses to create or delete.

**`ProviderConfig`**: `GetAuthInfo` in two steps, the usage and the read of the
config, for any number of CRs, next to the reconciler that counts the usages.
`early` and `late` are history variables: the config was deleted before its
controller had seen it, or a usage was recorded after the count.

The `MC` modules are the instances for TLC; `*Proofs` hold the theorems.

## 3. Runs

| Run | Shows | States |
|---|---|---|
| `cluster` | no cluster outlives its CR (`NoOrphan`); a second update during one of the controller's own happens only after a late initialization (`OneUpdateUnlessLateInitialized`); "up to date" is true (`UpToDateReflectsSpec`); a deleted CR goes away, and a live one and its cluster settle or are in one of two known traps (`SettlesUnlessStuck`) | 190,000 |
| `cluster_settings` | for every field: what Observe calls up to date agrees (`UpToDateAgrees`), late initialization keeps what is set (`IntentKept`), an update resets nothing the spec leaves open (`UpdateKeepsTheRest`), the updates end (`Settles`) | 240,000 |
| `node_pool` | `NoOrphan`, `OneUpdateUnlessLateInitialized` and `SettlesUnlessStuck` as in `cluster`; a pool with automatic upgrades is not sent back to its spec's version for the version alone (`VersionOnlyAlong`) | 720,000 |
| `cloudsql` | no instance outlives its CR (`NoOrphan`); the password of an instance is in the secret or on its way, unless the provider stopped (`PasswordKept`), and told once (`ToldOnce`); a deleted CR goes away, and a live one and its instance agree in the end (`Converges`); the endpoint is the private address if there is one (`EndpointPrefersPrivate`) | 500,000 |
| `resources` | for sixteen kinds: nothing that was created is left behind (`NoOrphan`); a controller at rest means that GCP has what the spec sets (`SettledAgrees`); edits are kept (`IntentKept`); updates reset nothing (`UpdateKeepsTheRest`); the panics are the known ones (`PanicsOnlyOn`); every controller comes to rest (`Converges`) | 400,000 |
| `iam_mixed` | a member CR, a whole-policy CR and another writer implement `AccessPolicy` (`OnlyOwnGrants`); once the member CR is gone, the policy ends up as its CR says (`PolicySettles`) | 66,000 |
| `iam_members` | a member CR that is gone has left no grant (`GrantRevoked`); live ones end up bound (`MembersSettle`) | 1,400 |
| `service_account_key` | until access is withdrawn no key is forgotten except in a lost answer (`NoOrphanKey`); Available means that the private key was published, unless the provider stopped before (`AvailableHasPrivateKey`); it is told once (`ToldOnce`); everything settles (`Settles`) | 110,000 |
| `references` | references are resolved before the finalizer is set (`FinalizerMeansResolved`); a resource is created after what it refers to (`CreatedAfterReferents`) and gone before its CR (`NoOrphan`); CRs can be created and deleted in any order (`CreatedInAnyOrder`, `DeletedInAnyOrder`) | 510,000 |
| `provider_config` | a CR with a finalizer has its credentials, but for two races (`ConfigKept`, `CountedIsKept`); config and CRs can be deleted together (`TeardownCompletes`) | 240,000 |

Two runs show a violation of what a comment of the code says:

| Run | The code |
|---|---|
| `iam_condition` | does not unbind a member from a second binding of its role (`UnbindsWhatIsBound`) |
| `key_orphan` | takes a 403 for the absence of a key, and leaves the key behind (`SafeToIgnoreForbidden`) |

### Deviations that the properties except

The passing properties name what the code does not do, so that the rest can be
checked.

* A cluster or node pool that disappears while the stored status is PROVISIONING
  is waited for forever (`WaitsForNothing`; `container/cluster.go:147-148`,
  `container/nodepool.go:145`).
* "Do not issue another update until the cluster finishes the previous one"
  (`container/cluster.go:178`) fails after a late initialization.
* A cluster with a recurring maintenance window panics the process if the spec
  has no maintenance policy (`CrashLoop`; `clients/cluster/cluster.go:830`).
* `LateInitializeSpec` overwrites a CloudRunConfig and a ClientCertificateConfig
  that are set (`ClusterSettings.Unconditional`), and never sees a changed Pub/Sub
  setting of the notification config (`NotReconciled`).
* An empty logging service, monitoring service or datapath provider cannot be
  sent (`Unsendable`).
* A node pool whose spec differs in a field that no update sends is updated
  forever (`NodePool.Futile`).
* A CloudSQL instance whose spec turns automatic resizing off and asks for a
  smaller disk at the same time never converges (`Refused`).
* Observe replaces the BGP settings of a Router, the labels of a CryptoKey, a
  deadline of ten seconds and the dead letter topic of a Subscription
  (`Overruled`).
* A Subscription with the full name of a topic in its spec cannot be created, and
  Observe writes such names (`Converges`; `subscription.go:40-59,181-193`).
* A firewall that denies and does not allow, a crypto key without version
  template, and a subnetwork whose private access was turned on during the
  reconcile panic the process (`PanicsOnlyOn`).
* A network of the same name in another project counts as the one in the spec
  (`SettledAgrees`; `clients/gcp.go:227-257`), and zero values that the client
  does not send are not compared.
* A resource whose address is edited in the spec (a region or key ring, the zone
  or type of a record set, the parent or network of a connection) is left behind
  (`moved`); the API does not prevent the edit.
* A subnetwork whose description or range is edited in the spec is refused every
  patch, with whatever else was edited (`SubnetworkRefuses`, `Immovable`).
* A bucket with an undated lifecycle rule or a predefined ACL is updated at every
  reconcile, to no effect (`LifecyclesEqual`, `PredefinedACLs`).
* A policy CR without bindings is created at every reconcile, to no effect
  (`Converges`); Create and Delete of a policy have no etag
  (`storage/bucketpolicy.go:128,168`), which `AccessPolicy` allows.
* The answer of `keys.create` or of the insertion of an instance may be lost with
  what it tells (`dropped`, `lost`).
* A ProviderConfig can be let go under a CR in two races (`early`, `late`).

### Bounds

* `cluster`: the labels, which Create sends, late initialization fills and an update
  replaces, and the group whose late initialization panics; two values, one of them Go's zero value, and `Nil`.
* `cluster_settings`: all groups, two leaves at a time, one disturbance: an edit or
  a change in GKE from any pair of spec and cluster, since Init has them all.
* `node_pool`: the management group, which decides about the version, the
  version, and a setting that only Create sends.
* `cloudsql`: disk size, automatic resizing and labels, the fields that depend on
  each other or on the tagger.
* `resources`: one or two fields of a kind for each way its code treats a field,
  two values, two places, and values of their own where the code looks into them
  (topic names, network URLs, dated rules, the default deadline).
* `references`: worlds of two or three CRs that have every reference of every kind.
* `MaxDisturbances` is 1 to 5: each known failure needs one or two of them (an
  edit and a failed call, a crash and a deletion).
* IAM: two roles, two conditions, up to three principals, one or two member CRs
  and one whole-policy CR, which may ask for a role in two bindings: enough for the
  order of bindings to matter and for each pair of writers to meet between a read
  and a Set.
* Keys: `MaxKeys` is one more than `MaxDisturbances`, since each disturbance
  costs one key at most; it is never reached.

Deadlock is not checked where the CR may be gone and no disturbance be left:
nothing happens any more then. `cluster_settings` never stops and checks it.

### Fairness

The reconciler polls every CR (`--poll`, one minute) and retries after errors, so
its steps are weakly fair; each member CR is polled although its controller's
only worker serves others too, hence strong fairness of each `MemberObserve`.
Weak fairness of GCP's progress says that it finishes the operations it
accepted, releases names and garbage-collects usages, that of `Allow` that access
is given back. Edits, failures and crashes have no fairness and are bounded.

## 4. Theorems

For every value of the constants that satisfies the assumptions named in the
modules, and in particular any number of disturbances:

* `ManagedProofs` has lemmas that all controllers on `Managed` share: a fresh copy
  agrees with the stored CR, and the finalizer is there before the external
  resource is changed.
* `GKEClusterProofs`: `TypeCorrect`, `NoOrphanHolds`, `OneUpdateHolds`,
  `IntentKeptHolds` (without the two fields that are always assigned) and
  `UpToDateReflectsSpecHolds` (without the notification config). The inductive
  invariant `Inv` adds to `NoOrphan` that a CR without finalizer has no cluster,
  that the reconciler acts on a 404 only while it still holds (only this
  controller creates the cluster), and that a status that was not overwritten
  still shows the controller's own operation.
* `SharedProofs`, about what several controllers share. For `IAMPolicy`:
  `Invariance`, `OnlyOwnGrantsHolds` (the refinement of `AccessPolicy`) and
  `GrantRevokedHolds` (one condition only, see `iam_condition`). The invariant says that a Set whose etag is current makes
  exactly the change that was read for, and that the CR of a running reconcile
  keeps its finalizer. Each step is then mapped to one of `AccessPolicy` or to a
  stutter. For `ProviderConfig`: `Kept` and `Counted`, for any number of CRs and
  configs. The invariant: a CR past Track has a usage, and since its count the
  config's controller can have missed only the usages in `late`.
* `OrderProofs`, about what must happen in a certain order. For
  `ServiceAccountKey`: `KeyInvariance`, `NoOrphanKeyHolds`, `NoSecondKeyHolds`,
  `ToldOnceHolds` (the refinement of `Credential`) and
  `AvailableHasPrivateKeyHolds`. The invariant needs that the copy has the stored
  name at every step, that Create is reached only while the named key does not
  exist (unless access has been withdrawn), and that the answer of `keys.create`
  is in hand until it is published. For `References`: `Resolution`, `Together`,
  `NothingLeft` and `AfterReferents`, for any set of CRs and references. The invariant follows one
  CR and its reconcile: the copy has its values from "finalize" on, and a
  finalizer is removed only by the CR's own reconcile and only when the resource
  is not there. `ReferentsInv` adds for `AfterReferents` that a value taken from a
  status, stored or in memory, was reported for a resource that existed.
* `MethodsProofs` and, on it, `ResourcesProofs`, for each of the sixteen kinds, any subset of its fields, and
  any values and places:
  * `ResourceInvariance` is the induction. Of the five parts of `ResourceInv` next
    to the types, `LifecycleInv` and `CopyInv` are about the copy of the CR,
    `PlaceInv` strengthens `NoOrphan` (the copy addresses the place of the stored
    CR unless it moved, and the finalizer goes only when nothing that was made is
    left), `IntentInv` and `RestInv` follow a setting from Observe to the request:
    what people set is in the copy, and what the copy does not set after late
    initialization is not set in GCP either.
  * Of it follow `ResourcesTypeCorrect`, `Orphanless`, `ResourcesIntentKept`,
    `ResourcesKeepTheRest` and `ResourcesPanicsOnlyOn`. They rest on the lemmas of
    `MethodsProofs` about the Observe and the Update of each kind.
  * `ResourcesSettledAgree` needs also `PlacedInvariance`: what is at a place says
    so, hence the place is never what differs. It is then an argument about the
    pure functions, kind by kind: if late initialization leaves the spec as it is
    and the comparison finds no difference, or the request changes nothing or is
    refused, a setting that differs is one of the exceptions of `SettledAgrees`.
  * Assumed: `Instances` are kinds with some of their parameters; names of places,
    topics and networks, the default deadline and dated rules are not ordinary
    values (`PlacesAssumption`, `NamesAssumption`, `URLsAssumption`,
    `URLsApartAssumption`, `DatedAssumption`): they stand for values the code
    looks into, and an ordinary value for one it does not.

* `ContainerProofs`, about the other two models of the container API. For
  `NodePool`: `PoolInvariance`, `NoOrphanHolds`, `OneUpdateHolds` and
  `VersionOnlyAlongHolds`, for any fields that include the version. The invariant
  is that of the cluster, and that the request is of the kind `NextUpdate` chose
  for what was read: the last theorem needs it, because a pool can change between
  the read and the request.
  For `ClusterSettings`: `SettingsInvariance`, `UpToDateMeansAgreement`,
  `SettingsIntentKept` and `SettingsUpdateKeepsTheRest`, for every group of
  `ClusterParameters`, all its leaves at once (the run takes two at a time), any
  values and any number of changes.
  * `SettingsInv` says that spec and cluster stay well-formed (a struct only inside
    the one that holds it, a plain value with its struct), which each update function
    has to preserve on GKE's side and each clause of `LateInitializeSpec` in the
    spec; and that between Observe and Update a field that the spec leaves open was
    empty in GKE (`Absorbed`).
  * `LateSound` is the lemma about `LateInitializeSpec`: the three forms its
    clauses have (`Filled`, `Copied`, `Overwritten`) are each shown to keep what is
    set and to leave open only what GKE does not have, then composed clause by clause.
    Five groups are `Forgetful`: their clause is missing or leaves fields out.
  * `GenerateAssigns` gives `UpToDateAgrees`; `UpdateFnSends` and
    `UpdateApplied` say what a request sends and what GKE has then. For `Autopilot`
    and `NotificationConfig`, which are forgetful and compared as a whole,
    `UpdateKeepsTheRest` holds for another reason: a difference is seen only if
    the spec has the struct, and then it sets all of it (`ForgetfulSet`).
  * Assumed: `SetAssumption`, a struct that is there is not a nil pointer or an
    empty value.
* `CloudSQLProofs`: `SQLInvariance`, `NoOrphanHolds`, `PasswordKeptHolds` and
  `ToldOnceHolds` (the refinement of `Credential`). The invariant: only the latest
  instance can exist, its password is in hand from the answer of Insert to the
  publishing and only then, and a CR with a password in hand has its finalizer,
  so that its secret cannot go away meanwhile. Observe hands out addresses only
  (`DetailsKeys`, for the lists of at most two addresses that the model has).

The inductive invariants (`Inv`, `ReferentsInv`, `ResourceInv`, `PlacedInv`,
`SettingsInv`) and the type invariants (but for that of `Resources`),
`NoSecondKey`, `References.AllOrNone` and `GKECluster.IntentKept` are proved and
in no run; the other properties that the theorems are about are both proved and
run.

Only model-checked: the liveness properties, which need fairness and are beyond
the prover. Every invariant and every action property of the passing runs is also
proved.

## 5. Not modelled

* Two replicas of the provider at a time, and reads from a stale informer cache:
  the reconciler reads the stored CR.
* The bucket, key or account of a policy going away under it: `IAMPolicy` has it
  throughout. Observe answers for a bucket that is not found as it does for an
  empty policy (`storage/bucketpolicy.go:99`, `storage/bucketpolicymember.go:96`).
* What the comparison of a node pool leaves out of account: the case of an image
  type and empty elements of lists and maps (`clients/nodepool/nodepool.go:89,
  448-452`). Two values that it equates are one value of the model.
* A firewall with allowed and denied rules in different numbers: Compute takes
  either the ones or the others.
* A service account without an email address, which gets no Ready condition
  (`iam/serviceaccount.go:111`): IAM gives every account one when it is created.
* The connection details of clusters and of Memorystore instances, the decoding
  of credentials, logging and events.
* Registration, deep copies, accessors and other generated code under `apis`,
  the command line: no state.
