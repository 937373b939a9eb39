------------------------------ MODULE Services ------------------------------
(***************************************************************************)
(* The controllers of CloudMemorystoreInstance (pkg/controller/cache),     *)
(* ServiceAccount (pkg/controller/iam), KeyRing and CryptoKey              *)
(* (pkg/controller/kms), ResourceRecordSet (pkg/controller/dns) and        *)
(* Connection (pkg/controller/servicenetworking), with their clients.      *)
(***************************************************************************)
EXTENDS Fields

(***************************************************************************)
(* CloudMemorystoreInstance.                                               *)
(***************************************************************************)

CloudMemorystoreInstanceParameters ==
    {"AlternativeLocationID", "AuthEnabled", "AuthorizedNetwork",
     "ConnectMode", "DisplayName", "Labels", "LocationID", "MemorySizeGB",
     "RedisConfigs", "RedisVersion", "Region", "ReservedIPRange", "Tier"}

CloudMemorystorePlain == {"Labels", "MemorySizeGB", "RedisConfigs", "Region", "Tier"}

\* The mask of Update and what IsUpToDate compares: "only fields that can be
\* modified in place".
CloudMemorystoreUpdateMask == {"DisplayName", "Labels", "MemorySizeGB", "RedisConfigs"}

\* Mutant: the labels are forgotten.
CloudMemorystoreLateInitializeNoLabels(spec, conf) ==
    FillUnset(spec, conf, CloudMemorystorePlain, CloudMemorystoreInstanceParameters \ {"Labels"})

CloudMemorystoreLateInitialize(spec, conf) ==
    FillUnset(spec, conf, CloudMemorystorePlain, CloudMemorystoreInstanceParameters)

GenerateRedisInstance(spec) == [f \in DOMAIN spec |-> ValueOf(spec[f])]

CloudMemorystoreIsUpToDate(spec, conf) ==
    \A f \in DOMAIN spec \cap CloudMemorystoreUpdateMask :
        GenerateRedisInstance(spec)[f] = conf[f]

CloudMemorystoreObserve(spec, conf, state) ==
    LET late == CloudMemorystoreLateInitialize(spec, conf)
    IN  Seen(late, late, CASE state = "ready" -> "Available"
                           [] state = "creating" -> "Creating"
                           [] state = "deleting" -> "Deleting"
                           [] OTHER -> "Unavailable",
             CloudMemorystoreIsUpToDate(late, conf))

CloudMemorystoreCreate(spec) == Creation("Creating", Body(GenerateRedisInstance(spec), {}))

CloudMemorystoreUpdate(spec) ==
    Patch(Masked(GenerateRedisInstance(spec), CloudMemorystoreUpdateMask))

CloudMemorystoreDelete == Deletion("Deleting", TRUE)

(***************************************************************************)
(* ServiceAccount.                                                         *)
(***************************************************************************)

ServiceAccountParameters == {"Description", "DisplayName"}

ServiceAccountIsUpToDate(spec, conf) == \A f \in DOMAIN spec : spec[f] \in {Nil, conf[f]}

\* An account that is ready has its email address; without one no condition
\* is set.
ServiceAccountObserve(spec, conf, state) ==
    Seen(spec, spec, IF state = "ready" THEN "Available" ELSE "",
         ServiceAccountIsUpToDate(spec, conf))

ServiceAccountCreate(spec) ==
    Creation("", Body([f \in DOMAIN spec |-> ValueOf(spec[f])], {}))

\* Mutant: what is not set is sent as nil.
ServiceAccountUpdateNil(spec) == Patch(Masked(spec, ServiceAccountParameters))

\* The mask always names both fields.
ServiceAccountUpdate(spec) ==
    Patch(Masked([f \in DOMAIN spec |-> ValueOf(spec[f])], ServiceAccountParameters))

ServiceAccountDelete == Deletion("", TRUE)

(***************************************************************************)
(* KeyRing and CryptoKey: KMS has no method to delete them.  Observe says  *)
(* that they do not exist once the CR is deleted.                          *)
(***************************************************************************)

KeyRingParameters == {"Location"}

KeyRingObserve(spec) == Seen(spec, spec, "Available", TRUE)
KeyRingCreate(spec) == Creation("Creating", Body(spec, {}))
KeyRingUpdate == NoCall
KeyRingDelete == Deletion("", FALSE)

\* The fields of the template for versions of the key, which is absent when
\* it has none of them.
CryptoKeyVersionTemplate == {"Algorithm", "ProtectionLevel"}

CryptoKeyParameters ==
    CryptoKeyVersionTemplate \cup
    {"KeyRing", "Labels", "NextRotationTime", "Purpose", "RotationPeriod"}

CryptoKeyPlain == {"Labels", "Purpose"}

\* The labels of the spec are replaced whether or not there are any.
CryptoKeyLateInitialize(spec, conf) ==
    [f \in DOMAIN spec |->
        IF f = "Labels" THEN conf[f]
        ELSE FillUnset(spec, conf, CryptoKeyPlain,
                       CryptoKeyVersionTemplate \cup {"NextRotationTime", "RotationPeriod"})[f]]

SetsTemplate(spec) == \E f \in DOMAIN spec \cap CryptoKeyVersionTemplate : spec[f] # Nil

GenerateCryptoKeyInstance(spec, conf) ==
    Generated(spec, conf, CryptoKeyParameters \ (IF SetsTemplate(spec) THEN {}
                                                 ELSE CryptoKeyVersionTemplate))

\* IsUpToDate's second result: what differs.
CryptoKeyUpdateMask(spec, conf) ==
    {f \in DOMAIN spec : GenerateCryptoKeyInstance(spec, conf)[f] # conf[f]}

\* IsUpToDate compares the algorithms of the two templates once they differ,
\* also when the key has none.
CryptoKeyIsUpToDatePanics(spec, conf) ==
    /\ SetsTemplate(spec)
    /\ \A f \in DOMAIN spec \cap CryptoKeyVersionTemplate : conf[f] = Zero

CryptoKeyObserve(spec, conf) ==
    LET late == CryptoKeyLateInitialize(spec, conf)
    IN  Seen(late, late, "Available", CryptoKeyUpdateMask(late, conf) = {})

CryptoKeyCreate(spec) ==
    Creation("Creating", Body(GenerateCryptoKeyInstance(spec, Nothing(spec)), {}))

CryptoKeyUpdate(spec, conf) ==
    IF CryptoKeyIsUpToDatePanics(spec, conf) THEN NilDereference
    ELSE IF CryptoKeyUpdateMask(spec, conf) = {} THEN NoCall
    ELSE Patch(Masked(GenerateCryptoKeyInstance(spec, conf), CryptoKeyUpdateMask(spec, conf)))

CryptoKeyDelete == Deletion("", FALSE)

\* Neither the purpose of a key nor its protection level can be changed.
CryptoKeyImmutable == {"ProtectionLevel", "Purpose"}
CryptoKeyRefuses(set) == DOMAIN set \cap CryptoKeyImmutable # {}

(***************************************************************************)
(* ResourceRecordSet.  Get, Patch and Delete address it by its managed     *)
(* zone and its type (and its name): the two are one field here.           *)
(***************************************************************************)

ResourceRecordSetParameters == {"ManagedZone/Type", "RRDatas", "SignatureRRDatas", "TTL"}
ResourceRecordSetPlain == ResourceRecordSetParameters

ResourceRecordSetLateInitialize(spec, conf) ==
    FillUnset(spec, conf, ResourceRecordSetPlain, {"SignatureRRDatas"})

GenerateResourceRecordSet(spec, conf) ==
    [f \in DOMAIN spec |->
        IF f = "SignatureRRDatas" /\ spec[f] = Zero THEN conf[f] ELSE spec[f]]

ResourceRecordSetIsUpToDate(spec, conf) == GenerateResourceRecordSet(spec, conf) = conf

ResourceRecordSetObserve(spec, conf) ==
    LET late == ResourceRecordSetLateInitialize(spec, conf)
    IN  Seen(late, late, "Available", ResourceRecordSetIsUpToDate(late, conf))

ResourceRecordSetCreate(spec) ==
    Creation("Creating", Body(GenerateResourceRecordSet(spec, Nothing(spec)), {}))

ResourceRecordSetUpdate(spec) ==
    Patch(Body(GenerateResourceRecordSet(spec, Nothing(spec)), {}))

ResourceRecordSetDelete == Deletion("", TRUE)

(***************************************************************************)
(* Connection: a peering of the network with the service's network.  List  *)
(* and Patch address it by its parent, the service, and its network: the   *)
(* two are one field here.  Delete removes the peering, whose name Observe *)
(* put into the status, from the network.                                  *)
(***************************************************************************)

ConnectionParameters == {"Parent/Network", "ReservedPeeringRanges"}
ConnectionPlain == {"ReservedPeeringRanges"}

FromParameters(spec) ==
    Body([f \in DOMAIN spec |-> ValueOf(spec[f])], DOMAIN spec \cap {"ReservedPeeringRanges"})

ConnectionIsUpToDate(spec, conf) ==
    \A f \in DOMAIN spec \cap {"ReservedPeeringRanges"} : spec[f] = conf[f]

\* UpdateStatus: no condition is set when the network has peerings and this
\* connection's is not one of them.
ConnectionReady(state) == CASE state = "ready" -> "Available"
                            [] state \in {"inactive", "unpeered"} -> "Unavailable"
                            [] OTHER -> ""

ConnectionObserve(spec, conf, state) ==
    Seen(spec, spec, ConnectionReady(state), ConnectionIsUpToDate(spec, conf))

\* A forced patch: it also takes over a connection that exists.
ConnectionCreate(spec) == Creation("Creating", FromParameters(spec))
ConnectionUpdate(spec) == Patch(FromParameters(spec))
ConnectionDelete == Deletion("Deleting", TRUE)
=============================================================================
