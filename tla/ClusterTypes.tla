---------------------------- MODULE ClusterTypes ----------------------------
(***************************************************************************)
(* The structs under spec.forProvider of a Cluster                         *)
(* (apis/container/v1beta2/cluster_types.go) and, with the same names, of  *)
(* container.Cluster.  A struct has a parent, pointers (ptr), lists and    *)
(* maps (list) and plain values (val); in a spec a plain value is set      *)
(* whenever its struct is.                                                 *)
(***************************************************************************)

Struct(parent, ptr, list, val) ==
    [parent |-> parent, ptr |-> ptr, list |-> list, val |-> val]

Top == "ClusterParameters"

\* A struct with one plain value.
Switch(parent, name) == Struct(parent, {}, {}, {name})

ClusterParameters ==
    Struct(Top,
           {"ClusterIpv4Cidr", "Description", "EnableKubernetesAlpha",
            "EnableTpu", "InitialClusterVersion", "LabelFingerprint",
            "LoggingService", "MonitoringService", "Network", "Subnetwork"},
           {"Locations", "ResourceLabels"}, {})

AddonsConfig == Struct(Top, {}, {}, {})
CloudRunConfig == Struct("AddonsConfig", {"LoadBalancerType"}, {}, {"Disabled"})
ConfigConnectorConfig == Switch("AddonsConfig", "Enabled")
DNSCacheConfig == Switch("AddonsConfig", "Enabled")
GCEPersistentDiskCSIDriverConfig == Switch("AddonsConfig", "Enabled")
HorizontalPodAutoscaling == Switch("AddonsConfig", "Disabled")
HTTPLoadBalancing == Switch("AddonsConfig", "Disabled")
KubernetesDashboard == Switch("AddonsConfig", "Disabled")
NetworkPolicyConfig == Switch("AddonsConfig", "Disabled")

AuthenticatorGroupsConfig == Struct(Top, {"Enabled", "SecurityGroup"}, {}, {})
Autopilot == Switch(Top, "Enabled")

ClusterAutoscaling ==
    Struct(Top, {"EnableNodeAutoprovisioning"},
           {"AutoprovisioningLocations", "ResourceLimits"}, {})
AutoprovisioningNodePoolDefaults ==
    Struct("Autoscaling",
           {"BootDiskKMSKey", "DiskSizeGb", "DiskType", "MinCPUPlatform",
            "ServiceAccount"}, {"OauthScopes"}, {})
NodeManagement ==
    Struct("AutoprovisioningNodePoolDefaults", {"AutoRepair", "AutoUpgrade"}, {}, {})
ShieldedInstanceConfig ==
    Struct("AutoprovisioningNodePoolDefaults",
           {"EnableIntegrityMonitoring", "EnableSecureBoot"}, {}, {})
UpgradeSettings ==
    Struct("AutoprovisioningNodePoolDefaults", {"MaxSurge", "MaxUnavailable"}, {}, {})

BinaryAuthorization == Switch(Top, "Enabled")
ConfidentialNodes == Switch(Top, "Enabled")
DatabaseEncryption == Struct(Top, {"KeyName", "State"}, {}, {})
ReleaseChannel == Switch(Top, "Channel")
NotificationConfig == Struct(Top, {}, {}, {})
PubSub == Struct("NotificationConfig", {}, {}, {"Enabled", "Topic"})
MaxPodsConstraint == Switch(Top, "MaxPodsPerNode")

IPAllocationPolicy ==
    Struct(Top,
           {"ClusterIpv4CidrBlock", "ClusterSecondaryRangeName",
            "CreateSubnetwork", "NodeIpv4CidrBlock", "ServicesIpv4CidrBlock",
            "ServicesSecondaryRangeName", "SubnetworkName", "TpuIpv4CidrBlock",
            "UseIPAliases", "UseRoutes"}, {}, {})

LegacyAbac == Switch(Top, "Enabled")

MaintenancePolicySpec == Struct(Top, {}, {}, {})
MaintenanceWindowSpec ==
    Struct("MaintenancePolicy", {}, {"MaintenanceExclusions"}, {})
DailyMaintenanceWindowSpec == Switch("Window", "StartTime")
RecurringTimeWindow == Struct("Window", {"Recurrence"}, {}, {})
TimeWindow == Struct("RecurringWindow", {}, {}, {"EndTime", "StartTime"})

MasterAuth == Struct(Top, {"Username"}, {}, {})
ClientCertificateConfig == Switch("MasterAuth", "IssueClientCertificate")
MasterAuthorizedNetworksConfig == Struct(Top, {"Enabled"}, {"CidrBlocks"}, {})

NetworkConfigSpec ==
    Struct(Top, {"DatapathProvider", "EnableIntraNodeVisibility",
                 "PrivateIpv6GoogleAccess"}, {}, {})
DefaultSnatStatus == Switch("NetworkConfig", "Disabled")
NetworkPolicy == Struct(Top, {"Enabled", "Provider"}, {}, {})

PrivateClusterConfigSpec ==
    Struct(Top, {"EnablePrivateEndpoint", "EnablePrivateNodes",
                 "MasterIpv4CidrBlock"}, {}, {})
PrivateClusterMasterGlobalAccessConfig == Switch("PrivateClusterConfig", "Enabled")

ResourceUsageExportConfig == Struct(Top, {"EnableNetworkEgressMetering"}, {}, {})
BigQueryDestination == Switch("ResourceUsageExportConfig", "DatasetID")
ConsumptionMeteringConfig == Switch("ResourceUsageExportConfig", "Enabled")

VerticalPodAutoscaling == Switch(Top, "Enabled")
WorkloadIdentityConfig == Switch(Top, "WorkloadPool")

\* Every struct, by the name of the field that holds it.
Structs ==
    [ClusterParameters |-> ClusterParameters, AddonsConfig |-> AddonsConfig,
     CloudRunConfig |-> CloudRunConfig,
     ConfigConnectorConfig |-> ConfigConnectorConfig,
     DNSCacheConfig |-> DNSCacheConfig,
     GCEPersistentDiskCSIDriverConfig |-> GCEPersistentDiskCSIDriverConfig,
     HorizontalPodAutoscaling |-> HorizontalPodAutoscaling,
     HTTPLoadBalancing |-> HTTPLoadBalancing,
     KubernetesDashboard |-> KubernetesDashboard,
     NetworkPolicyConfig |-> NetworkPolicyConfig,
     AuthenticatorGroupsConfig |-> AuthenticatorGroupsConfig,
     Autopilot |-> Autopilot, Autoscaling |-> ClusterAutoscaling,
     AutoprovisioningNodePoolDefaults |-> AutoprovisioningNodePoolDefaults,
     Management |-> NodeManagement,
     ShieldedInstanceConfig |-> ShieldedInstanceConfig,
     UpgradeSettings |-> UpgradeSettings,
     BinaryAuthorization |-> BinaryAuthorization,
     ConfidentialNodes |-> ConfidentialNodes,
     DatabaseEncryption |-> DatabaseEncryption,
     ReleaseChannel |-> ReleaseChannel,
     NotificationConfig |-> NotificationConfig, Pubsub |-> PubSub,
     DefaultMaxPodsConstraint |-> MaxPodsConstraint,
     IPAllocationPolicy |-> IPAllocationPolicy, LegacyAbac |-> LegacyAbac,
     MaintenancePolicy |-> MaintenancePolicySpec,
     Window |-> MaintenanceWindowSpec,
     DailyMaintenanceWindow |-> DailyMaintenanceWindowSpec,
     RecurringWindow |-> RecurringTimeWindow, RecurringTimes |-> TimeWindow,
     MasterAuth |-> MasterAuth,
     ClientCertificateConfig |-> ClientCertificateConfig,
     MasterAuthorizedNetworksConfig |-> MasterAuthorizedNetworksConfig,
     NetworkConfig |-> NetworkConfigSpec, DefaultSnatStatus |-> DefaultSnatStatus,
     NetworkPolicy |-> NetworkPolicy,
     PrivateClusterConfig |-> PrivateClusterConfigSpec,
     MasterGlobalAccessConfig |-> PrivateClusterMasterGlobalAccessConfig,
     ResourceUsageExportConfig |-> ResourceUsageExportConfig,
     BigqueryDestination |-> BigQueryDestination,
     ConsumptionMeteringConfig |-> ConsumptionMeteringConfig,
     VerticalPodAutoscaling |-> VerticalPodAutoscaling,
     WorkloadIdentityConfig |-> WorkloadIdentityConfig]

\* Structs that the spec holds by value: there whenever their parent is.
ByValue == {"Window", "Pubsub"}
=============================================================================
