----------------------------- MODULE MCResources -----------------------------
(***************************************************************************)
(* Resources for TLC: every kind, with one or two fields at a time, chosen *)
(* so that every special case of its methods has its fields.               *)
(***************************************************************************)
EXTENDS Resources

CONSTANTS a, zero, nil, default, dated, short, full, wrong, partial, whole, elsewhere, here, there

MCTwoValues == {zero, a}
MCPlaces == {here, there}

With(k, fields) == [kind |-> k, fields |-> fields]

MCInstances ==
    {With("Network", {"AutoCreateSubnetworks", "RoutingConfig"}),
     With("Network", {"Description"}),
     With("Subnetwork", {"Region", "PrivateIPGoogleAccess"}),
     With("Subnetwork", {"Network"}),
     With("Subnetwork", {"Description", "SecondaryIPRanges"}),
     With("GlobalAddress", {"Address"}),
     With("Firewall", {"Allowed", "Denied"}),
     With("Firewall", {"LogConfig"}),
     With("Firewall", {"Network"}),
     With("Router", {"Region"}),
     With("Router", {"AdvertisedGroups", "Asn"}),
     With("Router", {"Nats"}),
     With("Topic", {"KmsKeyName", "Labels"}),
     With("Topic", {"MessageStoragePolicy"}),
     With("Subscription", {"AckDeadlineSeconds"}),
     With("Subscription", {"DeadLetterPolicy"}),
     With("Subscription", {"Topic"}),
     With("CloudMemorystoreInstance", {"Region"}),
     With("CloudMemorystoreInstance", {"DisplayName"}),
     With("CloudMemorystoreInstance", {"Labels", "Tier"}),
     With("ServiceAccount", {"Description", "DisplayName"}),
     With("KeyRing", {"Location"}),
     With("CryptoKey", {"KeyRing", "Labels"}),
     With("CryptoKey", {"Purpose", "RotationPeriod"}),
     With("CryptoKey", {"Algorithm", "ProtectionLevel"}),
     With("ResourceRecordSet", {"ManagedZone/Type", "TTL"}),
     With("ResourceRecordSet", {"RRDatas", "SignatureRRDatas"}),
     With("Connection", {"Parent/Network", "ReservedPeeringRanges"}),
     With("Bucket", {"LabelA"}),
     With("Bucket", {"Encryption"}),
     With("Bucket", {"VersioningEnabled", "StorageClass"}),
     With("Bucket", {"Lifecycle"}),
     With("Bucket", {"PredefinedACL", "RetentionPolicy"}),
     With("CryptoKeyPolicy", {"AuditConfigs", "Bindings"}),
     With("ServiceAccountPolicy", {"Bindings", "ServiceAccount"})}

MCSpecs == UNION {SpecsOf(i) : i \in MCInstances}
=============================================================================
