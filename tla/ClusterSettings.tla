-------------------------- MODULE ClusterSettings ---------------------------
(***************************************************************************)
(* The settings of a Cluster struct by struct: what GenerateCluster,       *)
(* LateInitializeSpec, IsUpToDate and the update functions of              *)
(* pkg/clients/cluster/cluster.go do to every field of ClusterTypes.       *)
(* GKECluster.tla has the controller around them and the order of the      *)
(* updates; here one behaviour is about one group, a field of              *)
(* ClusterParameters with the structs below it, and about a few of its     *)
(* leaves: the groups have nothing in common, and neither have leaves that *)
(* are compared apart.                                                     *)
(*                                                                         *)
(* A field is <<struct, leaf>>; <<struct, "">> is the pointer to the       *)
(* struct, Set or not.  A spec and a cluster are functions from fields.    *)
(***************************************************************************)
EXTENDS Fields, ClusterTypes, FiniteSets

CONSTANTS MaxLeaves,  \* leaves of the group that a behaviour is about
          MaxChanges  \* edits of the spec and changes made in GKE

Set == "set"

\* A struct that is there is told from a nil pointer and from an empty value.
ASSUME SetAssumption == Set \notin {Nil, Zero}

Pointer(s) == <<s, "">>
Leaves(s) == {<<s, l>> : l \in Structs[s].ptr \cup Structs[s].list \cup Structs[s].val}
Ancestors(s) == LET p == Structs[s].parent
                    q == Structs[p].parent
                    r == Structs[q].parent
                IN  {s} \cup ({p, q, r} \ {Top})
GroupOf(s) == IF s = Top THEN Top
              ELSE CHOOSE t \in Ancestors(s) : Structs[t].parent = Top
Groups == {GroupOf(s) : s \in DOMAIN Structs}
GroupLeaves == [g \in Groups |->
                  UNION {Leaves(s) : s \in {t \in DOMAIN Structs : GroupOf(t) = g}}]

(***************************************************************************)
(* Generate...: a struct that the spec has is made where there is none,    *)
(* and its fields are assigned, nil as zero.                               *)
(***************************************************************************)

Overlay(in, c, structs) ==
    [f \in DOMAIN in |->
        IF f[1] \in structs /\ in[Pointer(f[1])] # Nil THEN ValueOf(in[f]) ELSE c[f]]

\* Fields that are assigned only when the spec has them.
Sparing(in, c, out, fs) ==
    [f \in DOMAIN in |-> IF f \in fs /\ in[f] = Nil THEN c[f] ELSE out[f]]

GenerateScalars(in, c) == Overlay(in, c, {"ClusterParameters"})

AddonStructs ==
    {"CloudRunConfig", "ConfigConnectorConfig", "DNSCacheConfig",
     "GCEPersistentDiskCSIDriverConfig", "HorizontalPodAutoscaling",
     "HTTPLoadBalancing", "KubernetesDashboard", "NetworkPolicyConfig"}

GenerateAddonsConfig(in, c) == Overlay(in, c, {"AddonsConfig"} \cup AddonStructs)
GenerateAutopilot(in, c) == Overlay(in, c, {"Autopilot"})
GenerateAuthenticatorGroupsConfig(in, c) ==
    Overlay(in, c, {"AuthenticatorGroupsConfig"})

DiskType == <<"AutoprovisioningNodePoolDefaults", "DiskType">>

\* The type of the disks is not assigned.
GenerateAutoscaling(in, c) ==
    LET out == Overlay(in, c, {"Autoscaling", "AutoprovisioningNodePoolDefaults",
                               "Management", "ShieldedInstanceConfig",
                               "UpgradeSettings"})
        all == Sparing(in, c, out, {<<"Autoscaling", "ResourceLimits">>})
    IN  [f \in DOMAIN in |-> IF f = DiskType THEN c[f] ELSE all[f]]

GenerateBinaryAuthorization(in, c) == Overlay(in, c, {"BinaryAuthorization"})
GenerateConfidentialNodes(in, c) == Overlay(in, c, {"ConfidentialNodes"})
GenerateDatabaseEncryption(in, c) == Overlay(in, c, {"DatabaseEncryption"})
GenerateDefaultMaxPodsConstraint(in, c) ==
    Overlay(in, c, {"DefaultMaxPodsConstraint"})
GenerateIPAllocationPolicy(in, c) == Overlay(in, c, {"IPAllocationPolicy"})
GenerateLegacyAbac(in, c) == Overlay(in, c, {"LegacyAbac"})

GenerateMaintenancePolicy(in, c) ==
    Sparing(in, c,
            Overlay(in, c, {"MaintenancePolicy", "Window", "DailyMaintenanceWindow",
                            "RecurringWindow", "RecurringTimes"}),
            {<<"Window", "MaintenanceExclusions">>,
             <<"RecurringWindow", "Recurrence">>})

GenerateMasterAuth(in, c) ==
    Overlay(in, c, {"MasterAuth", "ClientCertificateConfig"})
GenerateMasterAuthorizedNetworksConfig(in, c) ==
    Sparing(in, c, Overlay(in, c, {"MasterAuthorizedNetworksConfig"}),
            {<<"MasterAuthorizedNetworksConfig", "CidrBlocks">>})
GenerateNetworkConfig(in, c) ==
    Overlay(in, c, {"NetworkConfig", "DefaultSnatStatus"})
GenerateNetworkPolicy(in, c) == Overlay(in, c, {"NetworkPolicy"})

\* The topic is assigned only where the cluster has none.
GenerateNotificationConfig(in, c) ==
    Overlay(in, c, {"NotificationConfig"}
                       \cup {s \in {"Pubsub"} : c[Pointer(s)] = Zero})

GeneratePrivateClusterConfig(in, c) ==
    Overlay(in, c, {"PrivateClusterConfig", "MasterGlobalAccessConfig"})
GenerateReleaseChannel(in, c) == Overlay(in, c, {"ReleaseChannel"})
GenerateResourceUsageExportConfig(in, c) ==
    Overlay(in, c, {"ResourceUsageExportConfig", "BigqueryDestination",
                    "ConsumptionMeteringConfig"})
GenerateVerticalPodAutoscaling(in, c) == Overlay(in, c, {"VerticalPodAutoscaling"})
GenerateWorkloadIdentityConfig(in, c) == Overlay(in, c, {"WorkloadIdentityConfig"})

\* GenerateCluster, the part for group g.
GenerateCluster(g, in, c) ==
    CASE g = "ClusterParameters" -> GenerateScalars(in, c)
      [] g = "AddonsConfig" -> GenerateAddonsConfig(in, c)
      [] g = "Autopilot" -> GenerateAutopilot(in, c)
      [] g = "AuthenticatorGroupsConfig" -> GenerateAuthenticatorGroupsConfig(in, c)
      [] g = "Autoscaling" -> GenerateAutoscaling(in, c)
      [] g = "BinaryAuthorization" -> GenerateBinaryAuthorization(in, c)
      [] g = "ConfidentialNodes" -> GenerateConfidentialNodes(in, c)
      [] g = "DatabaseEncryption" -> GenerateDatabaseEncryption(in, c)
      [] g = "DefaultMaxPodsConstraint" -> GenerateDefaultMaxPodsConstraint(in, c)
      [] g = "IPAllocationPolicy" -> GenerateIPAllocationPolicy(in, c)
      [] g = "LegacyAbac" -> GenerateLegacyAbac(in, c)
      [] g = "MaintenancePolicy" -> GenerateMaintenancePolicy(in, c)
      [] g = "MasterAuth" -> GenerateMasterAuth(in, c)
      [] g = "MasterAuthorizedNetworksConfig" ->
            GenerateMasterAuthorizedNetworksConfig(in, c)
      [] g = "NetworkConfig" -> GenerateNetworkConfig(in, c)
      [] g = "NetworkPolicy" -> GenerateNetworkPolicy(in, c)
      [] g = "NotificationConfig" -> GenerateNotificationConfig(in, c)
      [] g = "PrivateClusterConfig" -> GeneratePrivateClusterConfig(in, c)
      [] g = "ReleaseChannel" -> GenerateReleaseChannel(in, c)
      [] g = "ResourceUsageExportConfig" -> GenerateResourceUsageExportConfig(in, c)
      [] g = "VerticalPodAutoscaling" -> GenerateVerticalPodAutoscaling(in, c)
      [] g = "WorkloadIdentityConfig" -> GenerateWorkloadIdentityConfig(in, c)

(***************************************************************************)
(* LateInitializeSpec(spec, in), clause by clause.                         *)
(***************************************************************************)

\* "if spec.X == nil { spec.X = &X{} }", then LateInitialize... per leaf.
Filled(spec, in, structs) ==
    FillUnset(spec, in, {}, {f \in DOMAIN spec : f[1] \in structs})

\* "if spec.X == nil && in.X != nil { spec.X = &X{...} }".
Copied(spec, in, structs) ==
    [f \in DOMAIN spec |->
        IF /\ f[1] \in structs
           /\ spec[Pointer(f[1])] = Nil /\ in[Pointer(f[1])] # Zero
        THEN in[f] ELSE spec[f]]

\* "if in.X != nil { spec.X = &X{...} }": whatever the spec has is replaced.
Overwritten(spec, in, structs) ==
    [f \in DOMAIN spec |->
        IF f[1] \in structs /\ in[Pointer(f[1])] # Zero
        THEN IF in[f] = Zero /\ f[2] \in Structs[f[1]].ptr THEN Nil ELSE in[f]
        ELSE spec[f]]

LateInitializeScalars(spec, in) == Filled(spec, in, {"ClusterParameters"})

LateInitializeAddonsConfig(spec, in) ==
    Overwritten(Copied(Filled(spec, in, {"AddonsConfig"}),
                       in, AddonStructs \ {"CloudRunConfig"}),
                in, {"CloudRunConfig"})

LateInitializeAuthenticatorGroupsConfig(spec, in) ==
    Filled(spec, in, {"AuthenticatorGroupsConfig"})
LateInitializeAutoscaling(spec, in) ==
    Filled(spec, in, {"Autoscaling", "AutoprovisioningNodePoolDefaults",
                      "Management", "ShieldedInstanceConfig", "UpgradeSettings"})
LateInitializeBinaryAuthorization(spec, in) ==
    Copied(spec, in, {"BinaryAuthorization"})
LateInitializeDatabaseEncryption(spec, in) ==
    Filled(spec, in, {"DatabaseEncryption"})
LateInitializeDefaultMaxPodsConstraint(spec, in) ==
    Copied(spec, in, {"DefaultMaxPodsConstraint"})

\* Two of its fields have no line.
LateInitializeIPAllocationPolicy(spec, in) ==
    LET out == Filled(spec, in, {"IPAllocationPolicy"})
    IN  [f \in DOMAIN spec |->
            IF f[2] \in {"ServicesSecondaryRangeName", "UseRoutes"}
            THEN spec[f] ELSE out[f]]

LateInitializeLegacyAbac(spec, in) == Copied(spec, in, {"LegacyAbac"})

\* Only a spec without any policy takes the one of the cluster, whole.
LateInitializeMaintenancePolicy(spec, in) ==
    IF spec[Pointer("MaintenancePolicy")] # Nil \/ in[Pointer("Window")] = Zero
    THEN spec
    ELSE [f \in DOMAIN spec |->
            IF in[f] # Zero \/ (f[2] \in Structs[f[1]].val /\ in[Pointer(f[1])] # Zero)
            THEN in[f] ELSE Nil]

\* The times of the recurring window are read from the new, empty spec.
LateInitializePanics(spec, in) ==
    /\ Pointer("RecurringWindow") \in DOMAIN spec
    /\ spec[Pointer("MaintenancePolicy")] = Nil
    /\ in[Pointer("RecurringWindow")] # Zero

LateInitializeMasterAuth(spec, in) ==
    Overwritten(Filled(spec, in, {"MasterAuth"}), in, {"ClientCertificateConfig"})
LateInitializeMasterAuthorizedNetworksConfig(spec, in) ==
    Filled(spec, in, {"MasterAuthorizedNetworksConfig"})
LateInitializeNetworkConfig(spec, in) ==
    Copied(Filled(spec, in, {"NetworkConfig"}), in, {"DefaultSnatStatus"})
LateInitializeNetworkPolicy(spec, in) == Filled(spec, in, {"NetworkPolicy"})

\* Mutant: the access through the global address is forgotten.
LateInitializePrivateClusterConfigShort(spec, in) ==
    Filled(spec, in, {"PrivateClusterConfig"})

LateInitializePrivateClusterConfig(spec, in) ==
    Copied(Filled(spec, in, {"PrivateClusterConfig"}),
           in, {"MasterGlobalAccessConfig"})

LateInitializeNotificationConfig(spec, in) ==
    IF in[Pointer("Pubsub")] = Zero THEN spec
    ELSE Copied(spec, in, {"NotificationConfig", "Pubsub"})

LateInitializeReleaseChannel(spec, in) == Copied(spec, in, {"ReleaseChannel"})
LateInitializeResourceUsageExportConfig(spec, in) ==
    Copied(Filled(spec, in, {"ResourceUsageExportConfig"}),
           in, {"BigqueryDestination", "ConsumptionMeteringConfig"})
LateInitializeVerticalPodAutoscaling(spec, in) ==
    Copied(spec, in, {"VerticalPodAutoscaling"})
LateInitializeWorkloadIdentityConfig(spec, in) ==
    Copied(spec, in, {"WorkloadIdentityConfig"})

\* LateInitializeSpec, the clause for group g; two groups have none.
LateInitializeClusterSpec(g, spec, in) ==
    CASE g = "ClusterParameters" -> LateInitializeScalars(spec, in)
      [] g = "AddonsConfig" -> LateInitializeAddonsConfig(spec, in)
      [] g = "AuthenticatorGroupsConfig" ->
            LateInitializeAuthenticatorGroupsConfig(spec, in)
      [] g = "Autoscaling" -> LateInitializeAutoscaling(spec, in)
      [] g = "BinaryAuthorization" -> LateInitializeBinaryAuthorization(spec, in)
      [] g = "DatabaseEncryption" -> LateInitializeDatabaseEncryption(spec, in)
      [] g = "DefaultMaxPodsConstraint" ->
            LateInitializeDefaultMaxPodsConstraint(spec, in)
      [] g = "IPAllocationPolicy" -> LateInitializeIPAllocationPolicy(spec, in)
      [] g = "LegacyAbac" -> LateInitializeLegacyAbac(spec, in)
      [] g = "MaintenancePolicy" -> LateInitializeMaintenancePolicy(spec, in)
      [] g = "MasterAuth" -> LateInitializeMasterAuth(spec, in)
      [] g = "MasterAuthorizedNetworksConfig" ->
            LateInitializeMasterAuthorizedNetworksConfig(spec, in)
      [] g = "NetworkConfig" -> LateInitializeNetworkConfig(spec, in)
      [] g = "NetworkPolicy" -> LateInitializeNetworkPolicy(spec, in)
      [] g = "PrivateClusterConfig" -> LateInitializePrivateClusterConfig(spec, in)
      [] g = "NotificationConfig" -> LateInitializeNotificationConfig(spec, in)
      [] g = "ReleaseChannel" -> LateInitializeReleaseChannel(spec, in)
      [] g = "ResourceUsageExportConfig" ->
            LateInitializeResourceUsageExportConfig(spec, in)
      [] g = "VerticalPodAutoscaling" ->
            LateInitializeVerticalPodAutoscaling(spec, in)
      [] g = "WorkloadIdentityConfig" ->
            LateInitializeWorkloadIdentityConfig(spec, in)
      [] OTHER -> spec

(***************************************************************************)
(* The update functions: the fields a request sets.  The Desired... message *)
(* of a group replaces it, omitted fields become zero; of the addons, GKE   *)
(* changes those that are in the request.                                  *)
(***************************************************************************)

\* Mutant: ForceSendFields is not set.
newAddonsConfigUpdateFnUnforced(in) ==
    Body(GenerateAddonsConfig(in, Nothing(in)), {})

newAddonsConfigUpdateFn(in) ==
    Body(GenerateAddonsConfig(in, Nothing(in)),
         {f \in DOMAIN in : f[1] \in AddonStructs /\ in[Pointer(f[1])] # Nil})
newAutoscalingUpdateFn(in) == GenerateAutoscaling(in, Nothing(in))
newBinaryAuthorizationUpdateFn(in) == GenerateBinaryAuthorization(in, Nothing(in))
newAutopilotUpdateFn(in) == GenerateAutopilot(in, Nothing(in))
newDatabaseEncryptionUpdateFn(in) == GenerateDatabaseEncryption(in, Nothing(in))
newLegacyAbacUpdateFn(in) == GenerateLegacyAbac(in, Nothing(in))
newMaintenancePolicyUpdateFn(in) == GenerateMaintenancePolicy(in, Nothing(in))
newMasterAuthorizedNetworksConfigUpdateFn(in) ==
    GenerateMasterAuthorizedNetworksConfig(in, Nothing(in))
newNetworkPolicyUpdateFn(in) == GenerateNetworkPolicy(in, Nothing(in))
newNotificationConfigUpdateFn(in) == GenerateNotificationConfig(in, Nothing(in))
newPrivateClusterConfigUpdateFn(in) == GeneratePrivateClusterConfig(in, Nothing(in))
newReleaseChannelUpdateFn(in) == GenerateReleaseChannel(in, Nothing(in))
newResourceUsageExportConfigUpdateFn(in) ==
    GenerateResourceUsageExportConfig(in, Nothing(in))
newVerticalPodAutoscalingUpdateFn(in) ==
    GenerateVerticalPodAutoscaling(in, Nothing(in))
newWorkloadIdentityConfigUpdateFn(in) ==
    GenerateWorkloadIdentityConfig(in, Nothing(in))

\* One field of ClusterParameters.
Scalar(in, l) == Restricted(GenerateScalars(in, Nothing(in)), {<<Top, l>>})

\* Left out of the request, which then asks for nothing, when it is empty.
newLocationsUpdateFn(in) == Body(Scalar(in, "Locations"), {})
newLoggingServiceUpdateFn(in) == Body(Scalar(in, "LoggingService"), {})
newMonitoringServiceUpdateFn(in) == Body(Scalar(in, "MonitoringService"), {})
newResourceLabelsUpdateFn(in) == Scalar(in, "ResourceLabels")

\* One field of NetworkConfig.
Networking(in, l) ==
    Restricted(GenerateNetworkConfig(in, Nothing(in)),
               {Pointer("NetworkConfig"), <<"NetworkConfig", l>>})

\* A message of its own, sent also when it is false.
newIntraNodeVisibilityConfigUpdateFn(in) == Networking(in, "EnableIntraNodeVisibility")
newDatapathProviderUpdateFn(in) ==
    IF ValueOf(in[<<"NetworkConfig", "DatapathProvider">>]) = Zero THEN <<>>
    ELSE Networking(in, "DatapathProvider")

(***************************************************************************)
(* IsUpToDate.                                                             *)
(***************************************************************************)

\* The groups that are compared as a whole.
Compared ==
    {"AddonsConfig", "Autopilot", "Autoscaling", "BinaryAuthorization",
     "DatabaseEncryption", "LegacyAbac", "MaintenancePolicy",
     "MasterAuthorizedNetworksConfig", "NetworkPolicy", "NotificationConfig",
     "PrivateClusterConfig", "ReleaseChannel", "ResourceUsageExportConfig",
     "VerticalPodAutoscaling", "WorkloadIdentityConfig"}

\* The leaves that are compared one by one.
ComparedLeaves ==
    {<<Top, l>> : l \in {"Locations", "LoggingService", "MonitoringService",
                         "ResourceLabels"}}
        \cup {<<"NetworkConfig", l>> : l \in {"EnableIntraNodeVisibility",
                                              "DatapathProvider"}}

\* Mutant: the IntraNodeVisibility of a NetworkConfig is not compared.
DifferingFieldsBlind(g, in, c) ==
    LET desired == GenerateCluster(g, in, c)
    IN  {f \in DOMAIN c : /\ g \in Compared \/ f \in ComparedLeaves
                          /\ f # <<"NetworkConfig", "EnableIntraNodeVisibility">>
                          /\ desired[f] # c[f]}

\* The fields in which cmp.Equal finds a difference.
DifferingFields(g, in, c) ==
    LET desired == GenerateCluster(g, in, c)
    IN  {f \in DOMAIN c : (g \in Compared \/ f \in ComparedLeaves) /\ desired[f] # c[f]}

IsUpToDate(g, in, c) == DifferingFields(g, in, c) = {}

\* The update function IsUpToDate returns: the first difference in its order.
UpdateFn(g, in, c) ==
    LET d == DifferingFields(g, in, c) IN
    CASE g = "AddonsConfig" -> newAddonsConfigUpdateFn(in)
      [] g = "Autopilot" -> newAutopilotUpdateFn(in)
      [] g = "Autoscaling" -> newAutoscalingUpdateFn(in)
      [] g = "BinaryAuthorization" -> newBinaryAuthorizationUpdateFn(in)
      [] g = "DatabaseEncryption" -> newDatabaseEncryptionUpdateFn(in)
      [] g = "LegacyAbac" -> newLegacyAbacUpdateFn(in)
      [] g = "ClusterParameters" ->
            IF <<Top, "Locations">> \in d THEN newLocationsUpdateFn(in)
            ELSE IF <<Top, "LoggingService">> \in d THEN newLoggingServiceUpdateFn(in)
            ELSE IF <<Top, "MonitoringService">> \in d
                 THEN newMonitoringServiceUpdateFn(in)
            ELSE newResourceLabelsUpdateFn(in)
      [] g = "MaintenancePolicy" -> newMaintenancePolicyUpdateFn(in)
      [] g = "MasterAuthorizedNetworksConfig" ->
            newMasterAuthorizedNetworksConfigUpdateFn(in)
      [] g = "NetworkConfig" ->
            IF <<g, "EnableIntraNodeVisibility">> \in d
            THEN newIntraNodeVisibilityConfigUpdateFn(in)
            ELSE newDatapathProviderUpdateFn(in)
      [] g = "NetworkPolicy" -> newNetworkPolicyUpdateFn(in)
      [] g = "NotificationConfig" -> newNotificationConfigUpdateFn(in)
      [] g = "PrivateClusterConfig" -> newPrivateClusterConfigUpdateFn(in)
      [] g = "ReleaseChannel" -> newReleaseChannelUpdateFn(in)
      [] g = "ResourceUsageExportConfig" -> newResourceUsageExportConfigUpdateFn(in)
      [] g = "VerticalPodAutoscaling" -> newVerticalPodAutoscalingUpdateFn(in)
      [] g = "WorkloadIdentityConfig" -> newWorkloadIdentityConfigUpdateFn(in)

(***************************************************************************)
(* The reconciles of one Cluster.                                          *)
(***************************************************************************)

VARIABLES group,    \* the group this behaviour is about
          spec,     \* the stored spec
          conf,     \* the cluster in GKE
          exists,   \* whether there is one
          mem,      \* the spec an Update is made from
          seen,     \* the cluster Observe has read for that Update
          stage,    \* "observe", "update" or "panic"
          upToDate, \* what the last Observe reported
          changes

settingsVars == <<group, spec, conf, exists, mem, seen, stage, upToDate, changes>>

Unread == <<>>

IsPointer(f) == f[2] = ""
IsList(f) == f[2] \in Structs[f[1]].list
IsValue(f) == f[2] \in Structs[f[1]].val
ParentPointer(f) == Pointer(Structs[f[1]].parent)

\* A struct is there only with the one that holds it, a leaf only with its
\* struct; a plain value is set with its struct, a list is never set empty.
SpecOK(s) ==
    \A f \in DOMAIN s :
        IF IsPointer(f)
        THEN /\ s[f] \in {Nil, Set}
             /\ f[1] = Top => s[f] = Set
             /\ ParentPointer(f) \in DOMAIN s /\ s[ParentPointer(f)] = Nil => s[f] = Nil
             /\ f[1] \in ByValue => s[f] = s[ParentPointer(f)]
        ELSE /\ s[f] \in IF IsList(f) THEN (Values \ {Zero}) \cup {Nil}
                         ELSE Values \cup {Nil}
             /\ s[Pointer(f[1])] = Nil => s[f] = Nil
             /\ IsValue(f) /\ s[Pointer(f[1])] = Set => s[f] # Nil

ConfOK(c) ==
    \A f \in DOMAIN c :
        IF IsPointer(f)
        THEN /\ c[f] \in {Zero, Set}
             /\ f[1] = Top => c[f] = Set
             /\ ParentPointer(f) \in DOMAIN c /\ c[ParentPointer(f)] = Zero => c[f] = Zero
        ELSE /\ c[f] \in Values
             /\ c[Pointer(f[1])] = Zero => c[f] = Zero

\* The leaves a behaviour is about, with the structs that hold them.
Scope(leaves) ==
    leaves \cup {Pointer(t) : t \in UNION {Ancestors(f[1]) : f \in leaves}}
Scopes ==
    [g \in Groups |-> {Scope(ls) : ls \in {l \in SUBSET GroupLeaves[g] :
                                            Cardinality(l) \in 1 .. MaxLeaves}}]
Assignments(d, none, vs) ==
    UNION {{[f \in d |-> IF IsPointer(f) THEN p[f] ELSE l[f]] :
               l \in [{f \in d : ~IsPointer(f)} -> vs]} :
           p \in [{f \in d : IsPointer(f)} -> {none, Set}]}
SpecsOn == [g \in Groups |-> [d \in Scopes[g] |->
              {s \in Assignments(d, Nil, Values \cup {Nil}) : SpecOK(s)}]]
ConfsOn == [g \in Groups |-> [d \in Scopes[g] |->
              {c \in Assignments(d, Zero, Values) : ConfOK(c)}]]

\* A new cluster, or one that is there already and has been given a CR.
SettingsInit ==
    /\ group \in Groups
    /\ \E d \in Scopes[group] :
          /\ spec \in SpecsOn[group][d]
          /\ \/ exists = TRUE /\ conf \in ConfsOn[group][d]
             \/ exists = FALSE /\ conf = Nothing(spec)
    /\ mem = Unread /\ seen = Unread
    /\ stage = "observe"
    /\ upToDate = FALSE
    /\ changes = MaxChanges

\* Create sends what GenerateCluster makes of the spec; GKE chooses the rest.
CreateCluster ==
    /\ stage = "observe"
    /\ ~exists
    /\ LET sent == Body(GenerateCluster(group, spec, Nothing(spec)), {})
       IN  conf' \in {c \in ConfsOn[group][DOMAIN spec] :
                        \A f \in DOMAIN sent : c[f] = sent[f]}
    /\ exists' = TRUE
    /\ UNCHANGED <<group, spec, mem, seen, stage, upToDate, changes>>

\* Observe persists the late-initialized spec and compares it.
ObserveCluster ==
    /\ stage = "observe"
    /\ exists
    /\ ~LateInitializePanics(spec, conf)
    /\ spec' = LateInitializeClusterSpec(group, spec, conf)
    /\ upToDate' = IsUpToDate(group, spec', conf)
    /\ IF upToDate' THEN UNCHANGED <<mem, seen, stage>>
       ELSE mem' = spec' /\ seen' = conf /\ stage' = "update"
    /\ UNCHANGED <<group, conf, exists, changes>>

ObservePanics ==
    /\ stage = "observe"
    /\ exists
    /\ LateInitializePanics(spec, conf)
    /\ stage' = "panic"
    /\ UNCHANGED <<group, spec, conf, exists, mem, seen, upToDate, changes>>

\* The process is started again.
RestartProvider ==
    /\ stage = "panic"
    /\ stage' = "observe"
    /\ UNCHANGED <<group, spec, conf, exists, mem, seen, upToDate, changes>>

\* Update reads the cluster again and sends what differs now.
UpdateCluster ==
    /\ stage = "update"
    /\ conf' = IF IsUpToDate(group, mem, conf) THEN conf
               ELSE Applied(UpdateFn(group, mem, conf), conf)
    /\ stage' = "observe"
    /\ mem' = Unread /\ seen' = Unread
    /\ UNCHANGED <<group, spec, exists, upToDate, changes>>

ReconcileCluster ==
    CreateCluster \/ ObserveCluster \/ ObservePanics \/ RestartProvider \/ UpdateCluster

\* A person changes the spec, or somebody else the cluster.
PeopleWrite ==
    /\ changes > 0 /\ changes' = changes - 1
    /\ spec' \in SpecsOn[group][DOMAIN spec] \ {spec}
    /\ upToDate' = FALSE
    /\ UNCHANGED <<group, conf, exists, mem, seen, stage>>

Drift ==
    /\ changes > 0 /\ changes' = changes - 1
    /\ exists
    /\ conf' \in ConfsOn[group][DOMAIN spec] \ {conf}
    /\ upToDate' = FALSE
    /\ UNCHANGED <<group, spec, exists, mem, seen, stage>>

SettingsNext == ReconcileCluster \/ PeopleWrite \/ Drift

SettingsSpec == SettingsInit /\ [][SettingsNext]_settingsVars
SettingsFairSpec == SettingsSpec /\ WF_settingsVars(ReconcileCluster)

(***************************************************************************)
(* Properties.                                                             *)
(***************************************************************************)

\* The two structs whose clause in LateInitializeSpec has no nil check.
Unconditional == {"CloudRunConfig", "ClientCertificateConfig"}

\* "LateInitializeSpec fills unassigned fields": in every struct but those
\* two Observe leaves each field that is set as it is.
IntentKept ==
    [][PeopleWrite \/ \A f \in DOMAIN spec :
          spec[f] # Nil /\ f[1] \notin Unconditional => spec'[f] = spec[f]]_settingsVars

\* Fields of which only Create takes notice, or nothing at all.
NotReconciled(f) ==
    \/ group \notin Compared /\ f \notin ComparedLeaves
    \/ f = DiskType
    \/ f[1] = "Pubsub"

\* IsUpToDate "checks whether current state is up-to-date compared to the
\* given set of parameters": while Observe reports so, GKE has every value of
\* the spec, except those that are never sent again.
UpToDateAgrees ==
    upToDate => \A f \in DOMAIN spec : spec[f] = Nil \/ conf[f] = spec[f] \/ NotReconciled(f)

\* An update function sends a whole group, so what the spec leaves open is
\* in danger of being reset.  LateInitializeSpec saves it: unless GKE changed
\* since Observe, an update changes only fields that the spec sets, the disk
\* type and the rest of a maintenance policy apart.
UpdateKeepsTheRest ==
    [][UpdateCluster /\ seen = conf =>
          \A f \in DOMAIN conf :
             \/ conf'[f] = conf[f]
             \/ mem[f] # Nil /\ conf'[f] = mem[f]
             \/ f = DiskType \/ group = "MaintenancePolicy"]_settingsVars

\* An empty string is left out of the request that is to set it.
Unsendable ==
    \E f \in {<<Top, "LoggingService">>, <<Top, "MonitoringService">>,
              <<"NetworkConfig", "DatapathProvider">>} \cap DOMAIN spec :
        spec[f] = Zero /\ conf[f] # Zero

\* No two clauses of the code fight over a field: when nobody changes spec
\* and cluster any more, the updates come to an end, unless one of
\* them cannot be sent or every Observe panics.
Settles == <>[](upToDate \/ Unsendable \/ LateInitializePanics(spec, conf))
=============================================================================
