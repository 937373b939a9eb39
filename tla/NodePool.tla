------------------------------ MODULE NodePool ------------------------------
(***************************************************************************)
(* The NodePool controller (pkg/controller/container/nodepool.go) with its *)
(* client (pkg/clients/nodepool), against a GKE cluster that runs one      *)
(* operation at a time, on itself or on one of its node pools.  The        *)
(* cluster belongs to somebody else: it may be busy, and its deletion      *)
(* takes the node pool with it.                                            *)
(***************************************************************************)
EXTENDS Managed, Fields

CONSTANTS PoolFields,  \* the fields of this instance
          AutoUpgrade  \* the value of Management with automatic upgrades

\* Settings of the nodes: assigned whether or not the spec has them, or
\* only if it has.
ConfigScalars ==
    {"BootDiskKmsKey", "DiskSizeGb", "DiskType", "ImageType", "Labels",
     "LocalSsdCount", "MachineType", "Metadata", "MinCPUPlatform",
     "NodeGroup", "OauthScopes", "Preemptible", "ServiceAccount", "Tags"}

ConfigGroups ==
    {"Accelerators", "KubeletConfig", "LinuxNodeConfig",
     "ReservationAffinity", "SandboxConfig", "ShieldedInstanceConfig",
     "Taints", "WorkloadMetadataConfig"}

NodeConfig == ConfigScalars \cup ConfigGroups

NodePoolParameters ==
    NodeConfig \cup
    {"Autoscaling", "InitialNodeCount", "Locations", "Management",
     "MaxPodsConstraint", "UpgradeSettings", "Version"}

NodePoolPlain == {"Accelerators", "Labels", "Locations", "Metadata",
                  "OauthScopes", "Tags", "Taints"}

PoolStates == {"PROVISIONING", "RUNNING", "RUNNING_WITH_ERROR", "RECONCILING",
               "STOPPING", "ERROR", "STATUS_UNSPECIFIED"}

PoolValues(f) == CASE f = "Management" -> {Zero, AutoUpgrade}
                   [] f \in {"Version", "MachineType"} -> Values \ {Zero}
                   [] OTHER -> Values

Confs == {c \in [PoolFields -> Values] : \A f \in PoolFields : c[f] \in PoolValues(f)}

PoolSpecs == {s \in [PoolFields -> Values \cup {Nil}] :
                 \A f \in PoolFields : s[f] \in PoolValues(f) \cup
                                          (IF f \in NodePoolPlain THEN {Zero} ELSE {Nil})}

ASSUME PoolFieldsAssumption == PoolFields \subseteq NodePoolParameters /\ "Version" \in PoolFields
ASSUME PoolSpecsAssumption == Specs = PoolSpecs
ASSUME PoolStatesAssumption == States = PoolStates \cup {""}

VARIABLES pool,     \* the node pool in GKE and the operation running on it
          plan,     \* while Update's call is pending: the update it chose and
                    \* the pool it had read
          cluster   \* the cluster: "idle", "busy" with something else, "gone"

vars == <<managedVars, pool, plan, cluster>>

NoPool == [state |-> "absent", conf |-> <<>>, op |-> "none", to |-> <<>>]

NoPlan == [update |-> "none", read |-> <<>>]

(***************************************************************************)
(* Pure functions of the client.                                           *)
(***************************************************************************)

isAutoUpgradeEnabled(spec) ==
    "Management" \in PoolFields /\ spec["Management"] = AutoUpgrade

\* Mutant: the version of the spec is always assigned.
GenerateVersionAlways(spec, conf) == ValueOf(spec["Version"])

\* With automatic upgrades the version of the pool stands.
GenerateVersion(spec, conf) ==
    IF conf["Version"] = Zero \/ ~isAutoUpgradeEnabled(spec)
    THEN ValueOf(spec["Version"]) ELSE conf["Version"]

\* The spec has a config when it sets some part of it.
HasConfig(spec) == \E f \in NodeConfig \cap PoolFields : ~Unset(f, spec[f], NodePoolPlain)

\* Without a config in the spec the pool's stands.
GenerateConfig(spec, conf) ==
    IF HasConfig(spec) THEN Generated(spec, conf, ConfigScalars) ELSE conf

GenerateNodePool(spec, conf) ==
    [f \in PoolFields |->
        CASE f = "Version" -> GenerateVersion(spec, conf)
          [] f \in {"InitialNodeCount", "Locations"} -> ValueOf(spec[f])
          [] f \in NodeConfig -> GenerateConfig(spec, conf)[f]
          [] OTHER -> Generated(spec, conf, {})[f]]

\* Nil and empty lists are filled; a constraint or a group only as a whole.
LateInitializeSpec(spec, conf) == FillUnset(spec, conf, NodePoolPlain, NodePoolParameters)

Differs(spec, conf, f) == f \in PoolFields /\ GenerateNodePool(spec, conf)[f] # conf[f]

\* IsUpToDate: which update function it returns.  Values are compared as the
\* code does: an image type in upper case, and a list or map without regard
\* to empty elements, so two values that it equates are one member of Values.
NextUpdate(spec, conf) ==
    CASE Differs(spec, conf, "Autoscaling") -> "autoscaling"
      [] ~Differs(spec, conf, "Autoscaling") /\ Differs(spec, conf, "Management") -> "management"
      [] GenerateNodePool(spec, conf) = conf -> "none"
      [] OTHER -> "general"

\* Mutant: both functions send the autoscaling settings.
SpecializedUpdateSame(spec, u) ==
    Restricted([f \in PoolFields |-> ValueOf(spec[f])], {"Autoscaling"})

\* newAutoscalingUpdateFn and newManagementUpdateFn.
SpecializedUpdate(spec, u) ==
    Restricted([f \in PoolFields |-> ValueOf(spec[f])],
               {IF u = "autoscaling" THEN "Autoscaling" ELSE "Management"})

\* The version goes with every general update.
GenerateNodePoolUpdate(spec) ==
    Body(Restricted([f \in PoolFields |-> ValueOf(spec[f])],
                    {"ImageType", "Locations", "Version", "WorkloadMetadataConfig"}), {})

Requested(spec, u) == IF u = "general" THEN GenerateNodePoolUpdate(spec)
                                       ELSE SpecializedUpdate(spec, u)

(***************************************************************************)
(* The controller's methods.                                               *)
(***************************************************************************)

ReadyFor(state, ready) ==
    CASE state \in {"RUNNING", "RECONCILING"} -> "Available"
      [] state = "PROVISIONING" -> "Creating"
      [] state \in {"STATUS_UNSPECIFIED", "RUNNING_WITH_ERROR", "ERROR"} -> "Unavailable"
      [] OTHER -> ready

\* Mutant: a pool that is being deleted counts as gone.
ObserveAbsentOrStopping ==
    /\ pc = "observe"
    /\ pool.state \in {"absent", "STOPPING"}
    /\ obs' = NotThere
    /\ pc' = "decide"
    /\ UNCHANGED <<kube, cr, fresh, budget, pool, plan, cluster>>

ObserveAbsent ==
    /\ pc = "observe"
    /\ pool.state = "absent"
    /\ obs' = NotThere
    /\ pc' = "decide"
    /\ UNCHANGED <<kube, cr, fresh, budget, pool, plan, cluster>>

\* The status is set before the late-initialized spec is written, and the
\* API server's answer puts the stored status over it.
Observe ==
    /\ pc = "observe"
    /\ pool.state # "absent"
    /\ LET seen == [cr EXCEPT !.state = pool.state,
                              !.spec = LateInitializeSpec(@, pool.conf)]
           wrote == seen.spec # cr.spec
           kept == IF wrote THEN Decoded(seen) ELSE seen
       IN  IF wrote /\ ~fresh
           THEN /\ cr' = seen
                /\ pc' = "finish"
                /\ UNCHANGED <<kube, obs>>
           ELSE /\ kube' = IF wrote THEN [kube EXCEPT !.spec = seen.spec] ELSE kube
                /\ cr' = [kept EXCEPT !.ready = ReadyFor(kept.state, @)]
                /\ obs' = [exists |-> TRUE, wrote |-> wrote,
                           upToDate |-> NextUpdate(kept.spec, pool.conf) = "none"]
                /\ pc' = "decide"
    /\ UNCHANGED <<fresh, budget, pool, plan, cluster>>

\* GKE takes one operation at a time.
Accepts == cluster = "idle" /\ pool.op = "none"

\* GKE creates the pool with what is sent and its own choice of the rest.
Create ==
    /\ pc = "create"
    /\ cr' = [cr EXCEPT !.ready = "Creating"]
    /\ IF cr.state = "PROVISIONING" \/ pool.state # "absent" \/ ~Accepts
       THEN UNCHANGED pool
       ELSE LET set == Body(GenerateNodePool(cr.spec, [f \in PoolFields |-> Zero]), {}) IN
            \E c \in Confs :
               /\ \A f \in DOMAIN set : c[f] = set[f]
               /\ pool' = [state |-> "PROVISIONING", conf |-> c, op |-> "create", to |-> c]
    /\ pc' = "finish"
    /\ UNCHANGED <<kube, fresh, obs, budget, plan, cluster>>

\* Mutant: only PROVISIONING is waited for.
UpdateGetWhileReconciling ==
    /\ pc = "update"
    /\ plan' = IF cr.state = "PROVISIONING" \/ pool.state = "absent"
                  \/ NextUpdate(cr.spec, pool.conf) = "none"
               THEN NoPlan
               ELSE [update |-> NextUpdate(cr.spec, pool.conf), read |-> pool.conf]
    /\ pc' = IF plan' = NoPlan THEN "finish" ELSE "updateCall"
    /\ UNCHANGED <<kube, cr, fresh, obs, budget, pool, cluster>>

\* Update up to its call: nothing while the status says the pool is busy,
\* else the pool is read again and the kind of update chosen.
UpdateGet ==
    /\ pc = "update"
    /\ plan' = IF cr.state \in {"RECONCILING", "PROVISIONING"} \/ pool.state = "absent"
                  \/ NextUpdate(cr.spec, pool.conf) = "none"
               THEN NoPlan
               ELSE [update |-> NextUpdate(cr.spec, pool.conf), read |-> pool.conf]
    /\ pc' = IF plan' = NoPlan THEN "finish" ELSE "updateCall"
    /\ UNCHANGED <<kube, cr, fresh, obs, budget, pool, cluster>>

UpdateCall ==
    /\ pc = "updateCall"
    /\ pool' = IF ~Accepts \/ pool.state \in {"absent", "ERROR"} THEN pool
               ELSE [pool EXCEPT !.state = "RECONCILING", !.op = "update",
                                 !.to = Applied(Requested(cr.spec, plan.update), pool.conf)]
    /\ plan' = NoPlan
    /\ pc' = "finish"
    /\ UNCHANGED <<kube, cr, fresh, obs, budget, cluster>>

\* Nothing is sent while the status says the pool is being deleted.
Delete ==
    /\ pc = "delete"
    /\ cr' = [cr EXCEPT !.ready = "Deleting"]
    /\ pool' = IF cr.state = "STOPPING" \/ pool.state = "absent" \/ ~Accepts THEN pool
               ELSE [pool EXCEPT !.state = "STOPPING", !.op = "delete"]
    /\ pc' = "finish"
    /\ UNCHANGED <<kube, fresh, obs, budget, plan, cluster>>

\* A call fails, and the method returns the error.
CallFails ==
    /\ pc \in {"observe", "create", "update", "updateCall", "delete"}
    /\ Disturb
    /\ cr' = [cr EXCEPT !.ready = CASE pc = "create" -> "Creating"
                                    [] pc = "delete" -> "Deleting"
                                    [] OTHER -> @]
    /\ plan' = NoPlan
    /\ pc' = "finish"
    /\ UNCHANGED <<kube, fresh, obs, pool, cluster>>

Reconcile ==
    \/ ManagedStep /\ UNCHANGED <<pool, plan, cluster>>
    \/ ObserveAbsent \/ Observe \/ Create \/ UpdateGet \/ UpdateCall \/ Delete

(***************************************************************************)
(* GKE and its other users.                                                *)
(***************************************************************************)

OperationDone ==
    /\ pool.op # "none"
    /\ pool' = IF pool.op = "delete" THEN NoPool
               ELSE [pool EXCEPT !.state = "RUNNING", !.op = "none", !.conf = pool.to]
    /\ UNCHANGED <<managedVars, plan, cluster>>

ClusterDone ==
    /\ cluster = "busy"
    /\ cluster' = "idle"
    /\ UNCHANGED <<managedVars, pool, plan>>

\* An operation on the pool fails, GKE loses sight of the pool and finds it
\* again, an automatic upgrade, drift, a deletion by
\* somebody else, an operation on the cluster or its deletion.
GKEEvent ==
    /\ Disturb
    /\ \/ /\ pool.op = "create"
          /\ pool' = [pool EXCEPT !.state = "ERROR", !.op = "none"]
          /\ UNCHANGED cluster
       \/ /\ pool.op = "update"
          /\ pool' = [pool EXCEPT !.state = "RUNNING_WITH_ERROR", !.op = "none"]
          /\ UNCHANGED cluster
       \/ /\ pool.state = "RUNNING"
          /\ pool' = [pool EXCEPT !.state = "STATUS_UNSPECIFIED"]
          /\ UNCHANGED cluster
       \/ /\ pool.state = "STATUS_UNSPECIFIED"
          /\ pool' = [pool EXCEPT !.state = "RUNNING"]
          /\ UNCHANGED cluster
       \/ /\ pool.state = "RUNNING"
          /\ \E f \in PoolFields, v \in Values :
                /\ v \in PoolValues(f)
                /\ pool' = [pool EXCEPT !.conf[f] = v, !.to[f] = v]
          /\ UNCHANGED cluster
       \/ /\ pool.state # "absent" /\ Accepts
          /\ pool' = [pool EXCEPT !.state = "STOPPING", !.op = "delete"]
          /\ UNCHANGED cluster
       \/ /\ Accepts
          /\ cluster' = "busy"
          /\ UNCHANGED pool
       \/ /\ Accepts
          /\ cluster' = "gone"
          /\ pool' = NoPool
    /\ UNCHANGED <<kube, cr, fresh, obs, pc, plan>>

Init ==
    /\ ManagedInit
    /\ pool = NoPool
    /\ plan = NoPlan
    /\ cluster = "idle"

Next ==
    \/ Reconcile \/ OperationDone \/ ClusterDone \/ CallFails \/ GKEEvent
    \/ Crash /\ plan' = NoPlan /\ UNCHANGED <<pool, cluster>>
    \/ UserStep /\ UNCHANGED <<pool, plan, cluster>>

Spec == Init /\ [][Next]_vars

\* The reconciler polls and retries; GKE finishes its operations.
FairSpec == Spec /\ WF_vars(Reconcile) /\ WF_vars(OperationDone) /\ WF_vars(ClusterDone)

(***************************************************************************)
(* Properties.                                                             *)
(***************************************************************************)

Pools == {NoPool} \cup [state : PoolStates, conf : Confs, to : Confs,
                         op : {"none", "create", "update", "delete"}]

Plans == [update : {"autoscaling", "management", "general"}, read : Confs]

TypeOK ==
    /\ ManagedTypeOK
    /\ pool \in Pools
    /\ plan \in Plans \cup {NoPlan}
    /\ cluster \in {"idle", "busy", "gone"}

\* No node pool without a CR that will delete it.
NoOrphan == pool.state # "absent" => kube.finalizer /\ kube.phase # "gone"

\* "Do not issue another update until the node pool finishes the previous
\* one" fails in one case only: the kube.Update of Observe has put the stored
\* status over the one just read.
OneUpdateUnlessLateInitialized ==
    pc = "updateCall" /\ pool.op \in {"create", "update"} => obs.wrote

\* GenerateNodePool leaves the version of a pool with automatic upgrades
\* alone, so a newer version is no reason for an update; the version in the
\* spec is sent back only along with a general update that something else
\* calls for.
VersionOnlyAlong ==
    [][pc = "updateCall" /\ pc' = "finish" /\ pool' # pool /\ isAutoUpgradeEnabled(cr.spec)
          /\ pool'.to["Version"] # pool.conf["Version"]
          => \E f \in PoolFields \ {"Version"} : Differs(cr.spec, plan.read, f)]_vars

\* The inductive invariant behind the three: a CR without finalizer has no
\* pool; the reconciler acts on a 404 only while it still holds; a status that
\* was not overwritten still shows the controller's own operation; and the
\* pending call is the one IsUpToDate chose for the pool that Update read.
Inv ==
    /\ ManagedInv
    /\ ~kube.finalizer => pool.state = "absent"
    /\ pc = "unfinalize" => pool.state = "absent"
    /\ pc = "decide" /\ ~obs.exists => pool.state = "absent"
    /\ pool.op = "create" => pool.state = "PROVISIONING"
    /\ pool.op = "update" => pool.state = "RECONCILING"
    /\ pc \in {"decide", "update"} /\ obs.exists /\ ~obs.wrote
          /\ pool.op \in {"create", "update"}
          => cr.state \in {"PROVISIONING", "RECONCILING"}
    /\ OneUpdateUnlessLateInitialized
    /\ pc = "updateCall" => plan \in Plans /\ plan.update = NextUpdate(cr.spec, plan.read)

\* The spec sets what the pool does not have and no update can give it: the
\* general update is sent again and again.
Futile == pool.state \in {"RUNNING", "RECONCILING", "RUNNING_WITH_ERROR", "STATUS_UNSPECIFIED"} /\
          \E f \in PoolFields \ {"Autoscaling", "Management"} :
             /\ Differs(LateInitializeSpec(kube.spec, pool.conf), pool.conf, f)
             /\ f \notin DOMAIN GenerateNodePoolUpdate(kube.spec)

\* The stored status says PROVISIONING and there is no pool.
WaitsForNothing == pool.state = "absent" /\ kube.state = "PROVISIONING"

Settled ==
    \/ kube.phase = "gone" /\ pool.state = "absent"
    \/ /\ kube.phase = "live"
       /\ pool.state = "RUNNING" /\ kube.ready = "Available"
       /\ NextUpdate(kube.spec, pool.conf) = "none"
    \/ /\ kube.phase = "live"
       /\ pool.state \in {"ERROR", "RUNNING_WITH_ERROR", "STATUS_UNSPECIFIED"}
       /\ kube.ready = "Unavailable"
    \/ kube.phase = "live" /\ cluster = "gone"

\* Once the disturbances stop, CR and node pool settle, or Create waits for a
\* pool that is gone, or the update cannot make a difference.  A deleted CR
\* goes away in every case, through busy clusters, failed calls and crashes.
SettlesUnlessStuck == <>[](Settled \/ (kube.phase = "live" /\ (WaitsForNothing \/ Futile)))
=============================================================================
