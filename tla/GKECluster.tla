----------------------------- MODULE GKECluster -----------------------------
(***************************************************************************)
(* The Cluster controller (pkg/controller/container/cluster.go) with the   *)
(* pure functions it rests on (pkg/clients/cluster/cluster.go), running    *)
(* against the GKE API.                                                    *)
(*                                                                         *)
(* A cluster's configuration is a function from Fields to Values; in the   *)
(* spec a field may also be Nil.  A field stands for one group of          *)
(* container.Cluster that IsUpToDate compares on its own, and keeps the    *)
(* way the code treats it: see the sets of fields below.                   *)
(***************************************************************************)
EXTENDS Managed, Sequences

CONSTANTS Fields,  \* the fields of this instance
          Values,  \* their values in GKE
          Zero,    \* Go's zero value: an absent or empty setting
          Nil      \* the field is not set in the spec

\* IsUpToDate's comparisons in the order of the source: the first
\* difference is the one that is updated.  RecurringWindow is the
\* MaintenancePolicy group holding a recurring window.
UpdateChain ==
    << "AddonsConfig", "CloudRunConfig", "Autopilot", "Autoscaling",
       "BinaryAuthorization", "DatabaseEncryption", "LegacyAbac", "Locations",
       "LoggingService", "MaintenancePolicy", "RecurringWindow",
       "MasterAuthorizedNetworksConfig", "MonitoringService",
       "IntraNodeVisibility", "DatapathProvider", "NetworkPolicy",
       "NotificationConfig", "PrivateClusterConfig", "ReleaseChannel",
       "ResourceLabels", "ResourceUsageExportConfig",
       "VerticalPodAutoscaling", "WorkloadIdentityConfig" >>

Updatable == {UpdateChain[i] : i \in DOMAIN UpdateChain}

\* Sent by Create and never compared again.
CreateOnly ==
    {"AuthenticatorGroupsConfig", "ClientCertificateConfig", "ClusterIpv4Cidr",
     "ConfidentialNodes", "DefaultMaxPodsConstraint", "Description",
     "EnableKubernetesAlpha", "EnableTpu", "InitialClusterVersion",
     "IPAllocationPolicy", "LabelFingerprint", "MasterAuthUsername", "Network",
     "Subnetwork"}

\* GenerateCluster assigns these even when the spec does not set them.
ScalarFields ==
    {"Locations", "LoggingService", "MonitoringService", "ResourceLabels",
     "ClusterIpv4Cidr", "Description", "EnableKubernetesAlpha", "EnableTpu",
     "InitialClusterVersion", "LabelFingerprint", "Network", "Subnetwork"}

\* Lists and maps: an empty one counts as not set.
Lists == {"Locations", "ResourceLabels"}

\* Left out of the body of an update when they have Go's zero value.
OmittedWhenZero ==
    {"Locations", "LoggingService", "MonitoringService", "DatapathProvider"}

\* Parts of NetworkConfig: setting one of them makes GenerateCluster assign
\* all of them.
NetworkConfigFields == {"IntraNodeVisibility", "DatapathProvider"}

\* LateInitializeSpec has no clause for these.
NeverLateInitialized == {"Autopilot", "ConfidentialNodes"}

\* LateInitializeSpec assigns these whether or not the spec sets them.
AlwaysLateInitialized == {"CloudRunConfig", "ClientCertificateConfig"}

GkeStates == {"PROVISIONING", "RUNNING", "RECONCILING", "STOPPING", "ERROR",
              "DEGRADED", "STATUS_UNSPECIFIED"}

ASSUME FieldsAssumption == Fields \subseteq Updatable \cup CreateOnly
ASSUME ValuesAssumption == Zero \in Values /\ Nil \notin Values
ASSUME ClusterSpecs == Specs = [Fields -> Values \cup {Nil}]
ASSUME ClusterStates == States = GkeStates \cup {""}

VARIABLES gke,  \* the cluster in GKE and the operation running on it
          plan  \* the update chosen by Update, while its call is pending

vars == <<managedVars, gke, plan>>

Confs == [Fields -> Values]

\* Who started the running operation: Create, this controller's Update (of
\* the configuration or of the bootstrap node pool), or somebody else.
Ops == {"none", "create", "update", "deletePool", "other"}

Clusters == [state : GkeStates \cup {"absent"}, conf : Confs,
             bootstrap : BOOLEAN, op : Ops, to : Confs]

Empty == [f \in Fields |-> Zero]
Absent == [state |-> "absent", conf |-> Empty, bootstrap |-> FALSE,
           op |-> "none", to |-> Empty]

TypeOK ==
    /\ ManagedTypeOK
    /\ gke \in Clusters
    /\ plan \in Updatable \cup {"none", "bootstrap"}

(***************************************************************************)
(* Pure functions of the client.                                           *)
(***************************************************************************)

ValueOf(v) == IF v = Nil THEN Zero ELSE v

Unset(f, v) == v = Nil \/ (f \in Lists /\ v = Zero)

\* Mutant: every group is filled only where the cluster has none.
AssignsWhereNone(spec, conf, f) == spec[f] # Nil /\ conf[f] = Zero

\* Whether GenerateCluster writes field f over what the cluster has; the
\* Pubsub of a NotificationConfig is written only where there is none.
Assigns(spec, conf, f) ==
    CASE f \in ScalarFields -> TRUE
      [] f \in NetworkConfigFields ->
            \E g \in NetworkConfigFields \cap Fields : spec[g] # Nil
      [] f = "NotificationConfig" -> spec[f] # Nil /\ conf[f] = Zero
      [] OTHER -> spec[f] # Nil

\* GenerateCluster(name, spec, conf).
Generate(spec, conf) ==
    [f \in Fields |-> IF Assigns(spec, conf, f) THEN ValueOf(spec[f]) ELSE conf[f]]

LateInitialized(f, spec) ==
    f \notin NeverLateInitialized /\ (Unset(f, spec[f]) \/ f \in AlwaysLateInitialized)

\* LateInitializeSpec(spec, conf).
LateInitialize(spec, conf) ==
    [f \in Fields |->
        IF LateInitialized(f, spec) /\ conf[f] # Zero THEN conf[f] ELSE spec[f]]

\* The times of a recurring window are read from the spec that is being
\* filled, where the window is still nil.
LateInitializePanics(spec, conf) ==
    "RecurringWindow" \in Fields
        /\ spec["RecurringWindow"] = Nil /\ conf["RecurringWindow"] # Zero

Differs(spec, conf, f) == f \in Fields /\ Generate(spec, conf)[f] # conf[f]

\* IsUpToDate: "none" when up to date, else which update to issue.
NextUpdate(spec, cluster) ==
    IF cluster.bootstrap THEN "bootstrap"
    ELSE IF \A f \in Updatable : ~Differs(spec, cluster.conf, f) THEN "none"
    ELSE UpdateChain[CHOOSE i \in DOMAIN UpdateChain :
                        /\ Differs(spec, cluster.conf, UpdateChain[i])
                        /\ \A j \in 1 .. (i - 1) :
                              ~Differs(spec, cluster.conf, UpdateChain[j])]

\* Mutant: the request is sent without the field it is for.
SentWithNothing(f) == {}

\* The fields one update request carries.
SentWith(f) == IF f \in {"AddonsConfig", "CloudRunConfig"}
               THEN {"AddonsConfig", "CloudRunConfig"} ELSE {f}

\* What the update function built from the spec asks for.
Requested(spec, f, conf) ==
    [g \in Fields |->
        IF g \in SentWith(f) /\ ~(g \in OmittedWhenZero /\ ValueOf(spec[g]) = Zero)
        THEN ValueOf(spec[g]) ELSE conf[g]]

\* GenerateObservation: the status of the CR, of which the controller uses
\* the state of the cluster.
GenerateObservation(cluster) == cluster.state

\* The Ready condition Observe sets; STOPPING leaves it alone.
ReadyFor(state, ready) ==
    CASE state \in {"RUNNING", "RECONCILING"} -> "Available"
      [] state = "PROVISIONING" -> "Creating"
      [] state \in {"STATUS_UNSPECIFIED", "DEGRADED", "ERROR"} -> "Unavailable"
      [] OTHER -> ready

(***************************************************************************)
(* The controller's methods.                                               *)
(***************************************************************************)

Autopilot(spec) == "Autopilot" \in Fields /\ ValueOf(spec["Autopilot"]) # Zero

\* Mutant: a cluster that is being deleted counts as absent.
ObserveAbsentOrStopping ==
    /\ pc = "observe"
    /\ gke.state \in {"absent", "STOPPING"}
    /\ obs' = NotThere
    /\ pc' = "decide"
    /\ UNCHANGED <<kube, cr, fresh, budget, gke, plan>>

\* Get answers 404.  The in-memory status is left as it was stored.
ObserveAbsent ==
    /\ pc = "observe"
    /\ gke.state = "absent"
    /\ obs' = NotThere
    /\ pc' = "decide"
    /\ UNCHANGED <<kube, cr, fresh, budget, gke, plan>>

\* Get answers with the cluster; a late-initialized spec is persisted, which
\* fails when the CR was changed since it was read.
Observe ==
    /\ pc = "observe"
    /\ gke.state # "absent"
    /\ ~LateInitializePanics(cr.spec, gke.conf)
    /\ LET seen == [cr EXCEPT !.state = GenerateObservation(gke),
                              !.spec = LateInitialize(@, gke.conf)]
           wrote == seen.spec # cr.spec
           kept == IF wrote THEN Decoded(seen) ELSE seen
       IN  IF wrote /\ ~fresh
           THEN /\ cr' = seen
                /\ pc' = "finish"
                /\ UNCHANGED <<kube, obs>>
           ELSE /\ kube' = IF wrote THEN [kube EXCEPT !.spec = seen.spec] ELSE kube
                /\ cr' = [kept EXCEPT !.ready = ReadyFor(kept.state, @)]
                /\ obs' = [exists |-> TRUE, wrote |-> wrote,
                           upToDate |-> NextUpdate(kept.spec, gke) = "none"]
                /\ pc' = "decide"
    /\ UNCHANGED <<fresh, budget, gke, plan>>

\* The nil dereference in LateInitializeSpec takes the process down.
ObservePanics ==
    /\ pc = "observe"
    /\ gke.state # "absent"
    /\ LateInitializePanics(cr.spec, gke.conf)
    /\ pc' = "panic"
    /\ UNCHANGED <<kube, cr, fresh, obs, budget, gke, plan>>

\* Nothing is sent when the status says the cluster is being provisioned.
\* GKE refuses to create a cluster that exists.
Create ==
    /\ pc = "create"
    /\ cr' = [cr EXCEPT !.ready = "Creating"]
    /\ gke' = IF cr.state = "PROVISIONING" \/ gke.state # "absent" THEN gke
              ELSE LET conf == Generate(cr.spec, Empty) IN
                   [state |-> "PROVISIONING", conf |-> conf, op |-> "create",
                    bootstrap |-> ~Autopilot(cr.spec), to |-> conf]
    /\ pc' = "finish"
    /\ UNCHANGED <<kube, fresh, obs, budget, plan>>

\* Mutant: only PROVISIONING is waited for.
UpdateGetWhileReconciling ==
    /\ pc = "update"
    /\ plan' = IF cr.state = "PROVISIONING" \/ gke.state = "absent"
               THEN "none" ELSE NextUpdate(cr.spec, gke)
    /\ pc' = IF plan' = "none" THEN "finish" ELSE "updateCall"
    /\ UNCHANGED <<kube, cr, fresh, obs, budget, gke>>

\* The first half of Update: nothing is done while the status says the
\* cluster is busy; else the cluster is read again and the update chosen.
UpdateGet ==
    /\ pc = "update"
    /\ LET next == IF cr.state \in {"RECONCILING", "PROVISIONING"}
                      \/ gke.state = "absent"
                   THEN "none" ELSE NextUpdate(cr.spec, gke)
       IN  /\ plan' = next
           /\ pc' = IF next = "none" THEN "finish" ELSE "updateCall"
    /\ UNCHANGED <<kube, cr, fresh, obs, budget, gke>>

\* The second half: the chosen request.  GKE refuses it while another
\* operation is running.
UpdateCall ==
    /\ pc = "updateCall"
    /\ gke' = IF gke.state \notin {"RUNNING", "DEGRADED", "STATUS_UNSPECIFIED"} THEN gke
              ELSE IF plan = "bootstrap"
              THEN [gke EXCEPT !.state = "RECONCILING", !.op = "deletePool"]
              ELSE [gke EXCEPT !.state = "RECONCILING", !.op = "update",
                               !.to = Requested(cr.spec, plan, gke.conf)]
    /\ plan' = "none"
    /\ pc' = "finish"
    /\ UNCHANGED <<kube, cr, fresh, obs, budget>>

\* Nothing is sent when the status says the cluster is being deleted.  GKE
\* refuses while another operation is running; a 404 is not an error.
Delete ==
    /\ pc = "delete"
    /\ cr' = [cr EXCEPT !.ready = "Deleting"]
    /\ gke' = IF cr.state = "STOPPING"
                 \/ gke.state \notin {"RUNNING", "DEGRADED", "ERROR", "STATUS_UNSPECIFIED"}
              THEN gke ELSE [gke EXCEPT !.state = "STOPPING", !.op = "other"]
    /\ pc' = "finish"
    /\ UNCHANGED <<kube, fresh, obs, budget, plan>>

\* A call to GKE fails before it has an effect; the method returns the error.
CallFails ==
    /\ pc \in {"observe", "create", "update", "updateCall", "delete"}
    /\ Disturb
    /\ cr' = [cr EXCEPT !.ready = CASE pc = "create" -> "Creating"
                                    [] pc = "delete" -> "Deleting"
                                    [] OTHER -> @]
    /\ plan' = "none"
    /\ pc' = "finish"
    /\ UNCHANGED <<kube, fresh, obs, gke>>

Reconcile ==
    \/ ManagedStep /\ UNCHANGED <<gke, plan>>
    \/ ObserveAbsent \/ Observe \/ ObservePanics
    \/ Create \/ UpdateGet \/ UpdateCall \/ Delete

(***************************************************************************)
(* GKE and its other users.                                                *)
(***************************************************************************)

\* Provisioning ends; GKE chooses values for some of the unset fields.
ProvisionDone ==
    /\ gke.op = "create"
    /\ \E d \in [Fields -> Values] :
          /\ \A f \in Fields : gke.conf[f] # Zero => d[f] = gke.conf[f]
          /\ gke' = [gke EXCEPT !.state = "RUNNING", !.op = "none",
                                !.conf = d, !.to = d]
    /\ UNCHANGED <<managedVars, plan>>

OperationDone ==
    /\ gke.state = "RECONCILING"
    /\ gke' = [gke EXCEPT !.state = "RUNNING", !.op = "none", !.conf = gke.to,
                          !.bootstrap = @ /\ gke.op # "deletePool"]
    /\ UNCHANGED <<managedVars, plan>>

StopDone ==
    /\ gke.state = "STOPPING"
    /\ gke' = Absent
    /\ UNCHANGED <<managedVars, plan>>

GKEProgress == ProvisionDone \/ OperationDone \/ StopDone

\* An operation fails, the cluster degrades or GKE no longer tells its state,
\* it is repaired, maintenance starts, somebody deletes the cluster or changes
\* its configuration.
GKEEvent ==
    /\ Disturb
    /\ \/ /\ gke.op = "create"
          /\ gke' = [gke EXCEPT !.state = "ERROR", !.op = "none"]
       \/ /\ gke.state = "RECONCILING"
          /\ gke' = [gke EXCEPT !.state = "RUNNING", !.op = "none", !.to = gke.conf]
       \/ /\ gke.state = "RUNNING"
          /\ \E s \in {"DEGRADED", "STATUS_UNSPECIFIED"} : gke' = [gke EXCEPT !.state = s]
       \/ /\ gke.state \in {"DEGRADED", "ERROR", "STATUS_UNSPECIFIED"}
          /\ gke' = [gke EXCEPT !.state = "RUNNING"]
       \/ /\ gke.state = "RUNNING"
          /\ gke' = [gke EXCEPT !.state = "RECONCILING", !.op = "other"]
       \/ /\ gke.state \in {"RUNNING", "DEGRADED", "ERROR", "STATUS_UNSPECIFIED"}
          /\ gke' = [gke EXCEPT !.state = "STOPPING", !.op = "other"]
       \/ /\ gke.state = "RUNNING"
          /\ \E f \in Fields \ CreateOnly, v \in Values :
                gke' = [gke EXCEPT !.conf[f] = v, !.to[f] = v]
    /\ UNCHANGED <<kube, cr, fresh, obs, pc, plan>>

Init ==
    /\ ManagedInit
    /\ gke = Absent
    /\ plan = "none"

Next ==
    \/ Reconcile
    \/ GKEProgress
    \/ CallFails
    \/ GKEEvent
    \/ Crash /\ plan' = "none" /\ UNCHANGED gke
    \/ UserStep /\ UNCHANGED <<gke, plan>>

\* The reconciler polls every CR and retries after errors; GKE finishes the
\* operations it accepted.
Fairness == WF_vars(Reconcile) /\ WF_vars(GKEProgress)

Spec == Init /\ [][Next]_vars
FairSpec == Spec /\ Fairness
(***************************************************************************)
(* Properties.                                                             *)
(***************************************************************************)

\* No cluster is left behind without a CR that will delete it: while the
\* cluster exists, the CR is there and holds its finalizer.  Rests on the
\* order finalizer, Create, Delete, 404 from Observe, finalizer removed.
NoOrphan == gke.state # "absent" => kube.finalizer /\ kube.phase # "gone"

\* LateInitializeSpec "fills unassigned fields": what a person has set in the
\* spec only a person changes, also when they edit while Observe is between
\* reading the CR and persisting the late-initialized one.
IntentKept ==
    [][UserStep \/ \A f \in Fields :
          ~Unset(f, kube.spec[f]) => kube'.spec[f] = kube.spec[f]]_vars

\* An operation this controller started is running.
OwnOperation == gke.op \in {"create", "update", "deletePool"}

\* "Do not issue another update until the cluster finishes the previous one":
\* the guard of Update fails in one case only, when the kube.Update of Observe
\* has put the stored, older status over the one just read from GKE.
OneUpdateUnlessLateInitialized ==
    pc = "updateCall" /\ OwnOperation => obs.wrote

\* The inductive invariant behind the two: a CR without finalizer has no
\* cluster; the reconciler acts on a 404 only while it still holds; and a
\* status that was not overwritten still shows the controller's own operation.
Inv ==
    /\ ManagedInv
    /\ ~kube.finalizer => gke.state = "absent"
    /\ pc = "unfinalize" => gke.state = "absent"
    /\ pc = "decide" /\ ~obs.exists => gke.state = "absent"
    /\ gke.op = "create" => gke.state = "PROVISIONING"
    /\ gke.op \in {"update", "deletePool"} => gke.state = "RECONCILING"
    /\ pc \in {"decide", "update"} /\ obs.exists /\ ~obs.wrote /\ OwnOperation
          => cr.state \in {"PROVISIONING", "RECONCILING"}
    /\ OneUpdateUnlessLateInitialized

\* The cluster has every value the spec asks for.
Reflects(spec, conf) ==
    \A f \in Fields \cap Updatable : Unset(f, spec[f]) \/ spec[f] = conf[f]

\* IsUpToDate "checks whether current state is up-to-date compared to the
\* given set of parameters": when Observe says so, the cluster it read has
\* every updatable value of the spec and no bootstrap node pool.
UpToDateReflectsSpec ==
    [][pc = "observe" /\ pc' = "decide" /\ obs'.upToDate
          => Reflects(cr'.spec, gke.conf) /\ ~gke.bootstrap]_vars

\* Nothing is left to do: the CR and the cluster are gone, the cluster runs
\* as specified, or it is broken and the CR says so.
Settled ==
    \/ kube.phase = "gone" /\ gke.state = "absent"
    \/ /\ kube.phase = "live"
       /\ gke.state = "RUNNING" /\ ~gke.bootstrap
       /\ Reflects(kube.spec, gke.conf)
       /\ kube.ready = "Available"
    \/ /\ kube.phase = "live"
       /\ gke.state \in {"ERROR", "DEGRADED", "STATUS_UNSPECIFIED"}
       /\ kube.ready = "Unavailable"

\* The stored status says PROVISIONING and there is no cluster.
WaitsForNothing ==
    kube.phase = "live" /\ gke.state = "absent" /\ kube.state = "PROVISIONING"

\* Every Observe of this CR panics.
CrashLoop ==
    /\ kube.phase # "gone" /\ gke.state # "absent"
    /\ LateInitializePanics(kube.spec, gke.conf)

\* There are two ways not to settle: a cluster that disappeared while the
\* last stored status was PROVISIONING, for which Create waits forever, and
\* the panic in LateInitializeSpec.  A deleted CR goes away in particular,
\* through busy clusters, failed calls and crashes, unless Observe panics.
SettlesUnlessStuck == <>[](Settled \/ WaitsForNothing \/ CrashLoop)
=============================================================================
