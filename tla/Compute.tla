------------------------------ MODULE Compute -------------------------------
(***************************************************************************)
(* The compute controllers (pkg/controller/compute) and their clients      *)
(* (pkg/clients/network, subnetwork, globaladdress, firewall, router).     *)
(***************************************************************************)
EXTENDS Fields

\* URLs of networks of one name: as people write it, as GCP returns it, and
\* that of another project's network.
CONSTANTS Partial, Whole, Elsewhere

NetworkURLs == {Partial, Whole, Elsewhere}

ASSUME URLsAssumption ==
    NetworkURLs \cap (Values \cup {Nil}) = {} /\ Partial \notin {Whole, Elsewhere}

\* A URL that GCP returned equals every URL with the same last element.
EquateComputeURLs(x, y) == x = y \/ {x, y} \subseteq NetworkURLs

\* cmp.Equal of a generated configuration and the observed one.
SameConf(gen, conf) == \A f \in DOMAIN conf : EquateComputeURLs(gen[f], conf[f])

\* GCP keeps whole URLs.
Expanded(set) == [f \in DOMAIN set |-> IF set[f] = Partial THEN Whole ELSE set[f]]

(***************************************************************************)
(* Network.                                                                *)
(***************************************************************************)

NetworkParameters == {"AutoCreateSubnetworks", "Description", "RoutingConfig"}

NetworkLateInitialize(spec, conf) == FillUnset(spec, conf, {}, NetworkParameters)

GenerateNetwork(spec, conf) == Generated(spec, conf, {"Description"})

\* ForceSendFields: an explicit false is sent.
NetworkForced(spec) ==
    {f \in DOMAIN spec \cap {"AutoCreateSubnetworks"} : spec[f] = Zero}

NetworkIsUpToDate(spec, conf) == GenerateNetwork(spec, conf) = conf

\* IsUpToDate's second result.
SwitchToCustom(spec, conf) ==
    \E f \in DOMAIN spec \cap {"AutoCreateSubnetworks"} :
        GenerateNetwork(spec, conf)[f] = Zero /\ conf[f] # Zero

NetworkObserve(spec, conf) ==
    LET late == NetworkLateInitialize(spec, conf)
    IN  Seen(late, late, "Available", NetworkIsUpToDate(late, conf))

NetworkCreate(spec) ==
    Creation("Creating", Body(GenerateNetwork(spec, Nothing(spec)), NetworkForced(spec)))

\* Mutant: the automatic mode is left with the patch like everything else.
NetworkUpdateWithoutSwitch(spec, conf) ==
    IF NetworkIsUpToDate(spec, conf) THEN NoCall
    ELSE Patch(Body(GenerateNetwork(spec, Nothing(spec)), NetworkForced(spec)))

\* Update reads the network again; leaving the automatic mode is a call of
\* its own, everything else a patch.
NetworkUpdate(spec, conf) ==
    IF NetworkIsUpToDate(spec, conf) THEN NoCall
    ELSE IF SwitchToCustom(spec, conf)
    THEN Patch([f \in {"AutoCreateSubnetworks"} |-> Zero])
    ELSE Patch(Body(GenerateNetwork(spec, Nothing(spec)), NetworkForced(spec)))

NetworkDelete == Deletion("Deleting", TRUE)

\* "All parameters except routing config are immutable": GCP refuses a patch
\* that would change another one; only SwitchToCustomMode may do so.
NetworkRefuses(set, conf) ==
    \E f \in DOMAIN set \ {"RoutingConfig"} :
        set[f] # conf[f] /\ ~(f = "AutoCreateSubnetworks" /\ DOMAIN set = {f} /\ set[f] = Zero)

(***************************************************************************)
(* Subnetwork.                                                             *)
(***************************************************************************)

SubnetworkParameters ==
    {"Description", "EnableFlowLogs", "IPCidrRange", "Network",
     "PrivateIPGoogleAccess", "Region", "SecondaryIPRanges"}

SubnetworkPlain == {"IPCidrRange", "Region", "SecondaryIPRanges"}

\* Mutant: private access is forgotten.
SubnetworkLateInitializeNoAccess(spec, conf) ==
    FillUnset(spec, conf, SubnetworkPlain, SubnetworkParameters \ {"PrivateIPGoogleAccess"})

SubnetworkLateInitialize(spec, conf) ==
    FillUnset(spec, conf, SubnetworkPlain, SubnetworkParameters)

\* Empty secondary ranges leave those of the subnetwork alone.
GenerateSubnetwork(spec, conf) ==
    [f \in DOMAIN spec |->
        IF f = "SecondaryIPRanges" /\ spec[f] = Zero THEN conf[f] ELSE ValueOf(spec[f])]

SubnetworkIsUpToDate(spec, conf) == SameConf(GenerateSubnetwork(spec, conf), conf)

\* IsUpToDate's second result: private access differs.
PrivateAccess(spec, conf) ==
    \E f \in DOMAIN spec \cap {"PrivateIPGoogleAccess"} : ValueOf(spec[f]) # conf[f]

\* GenerateSubnetworkForUpdate leaves out the network and the region.
GenerateSubnetworkForUpdate(spec) ==
    Body(Restricted(GenerateSubnetwork(spec, Nothing(spec)),
                    SubnetworkParameters \ {"Network", "Region"}), {})

SubnetworkObserve(spec, conf) ==
    LET late == SubnetworkLateInitialize(spec, conf)
    IN  Seen(late, late, "Available", SubnetworkIsUpToDate(late, conf))

SubnetworkCreate(spec) ==
    Creation("Creating", Expanded(Body(GenerateSubnetwork(spec, Nothing(spec)), {})))

\* Private access has a call of its own, which dereferences the pointer in
\* the spec.
SubnetworkUpdate(spec, conf) ==
    IF SubnetworkIsUpToDate(spec, conf) THEN NoCall
    ELSE IF PrivateAccess(spec, conf)
    THEN IF spec["PrivateIPGoogleAccess"] = Nil THEN NilDereference
         ELSE Patch(Restricted(spec, {"PrivateIPGoogleAccess"}))
    ELSE Patch(GenerateSubnetworkForUpdate(spec))

SubnetworkDelete == Deletion("Deleting", TRUE)

\* "Can be set only at resource creation time", and still sent.
SubnetworkImmutable == {"Description", "IPCidrRange"}

\* The patch carries the fingerprint Observe read; GCP refuses it when the
\* subnetwork was changed since.  The call for private access carries none.
\* "Users are notified of invalid updates": a patch with another value for a
\* setting that cannot be changed is refused.
SubnetworkRefuses(set, conf, touched) ==
    \/ touched /\ DOMAIN set # {"PrivateIPGoogleAccess"}
    \/ \E f \in DOMAIN set \cap SubnetworkImmutable : set[f] # conf[f]

(***************************************************************************)
(* GlobalAddress.                                                          *)
(***************************************************************************)

GlobalAddressParameters ==
    {"Address", "AddressType", "Description", "IPVersion", "Network",
     "PrefixLength", "Purpose", "Subnetwork"}

GlobalAddressLateInitialize(spec, conf) ==
    FillUnset(spec, conf, {}, GlobalAddressParameters)

GenerateGlobalAddress(spec) == Generated(spec, Nothing(spec), GlobalAddressParameters)

\* "Global addresses are always up to date because they can't be updated."
GlobalAddressObserve(spec, conf, state) ==
    LET late == GlobalAddressLateInitialize(spec, conf)
    IN  Seen(late, late, IF state = "creating" THEN "Creating" ELSE "Available", TRUE)

GlobalAddressCreate(spec) ==
    Creation("Creating", Expanded(Body(GenerateGlobalAddress(spec), {})))

GlobalAddressUpdate == NoCall

GlobalAddressDelete == Deletion("Deleting", TRUE)

(***************************************************************************)
(* Firewall.                                                               *)
(***************************************************************************)

FirewallGroups == {"Allowed", "Denied", "LogConfig"}

FirewallParameters ==
    FirewallGroups \cup
    {"Description", "DestinationRanges", "Direction", "Disabled", "Network",
     "Priority", "SourceRanges", "SourceServiceAccounts", "SourceTags",
     "TargetServiceAccounts", "TargetTags"}

FirewallPlain ==
    {"Allowed", "Denied", "DestinationRanges", "SourceRanges",
     "SourceServiceAccounts", "SourceTags", "TargetServiceAccounts",
     "TargetTags"}

FirewallLateInitialize(spec, conf) ==
    FillUnset(spec, conf, FirewallPlain, FirewallParameters)

\* The list of denied rules is made as long as the list of allowed rules: a
\* firewall that only denies does not fit into it.  (One that does both is
\* taken to have as many of each.)
FirewallLateInitializePanics(spec, conf) ==
    /\ "Denied" \in DOMAIN spec
    /\ spec["Denied"] = Zero /\ conf["Denied"] # Zero
    /\ "Allowed" \in DOMAIN spec => conf["Allowed"] = Zero

\* Rules and the log configuration are left alone when the spec has none.
GenerateFirewall(spec, conf) ==
    [f \in DOMAIN spec |->
        IF f \in FirewallGroups /\ Unset(f, spec[f], FirewallPlain)
        THEN conf[f] ELSE ValueOf(spec[f])]

FirewallIsUpToDate(spec, conf) == SameConf(GenerateFirewall(spec, conf), conf)

FirewallObserve(spec, conf) ==
    LET late == FirewallLateInitialize(spec, conf)
    IN  Seen(late, late, "Available", FirewallIsUpToDate(late, conf))

FirewallCreate(spec) ==
    Creation("", Expanded(Body(GenerateFirewall(spec, Nothing(spec)), {})))

FirewallUpdate(spec, conf) ==
    IF FirewallIsUpToDate(spec, conf) THEN NoCall
    ELSE Patch(Expanded(Body(GenerateFirewall(spec, Nothing(spec)), {})))

FirewallDelete == Deletion("Deleting", TRUE)

(***************************************************************************)
(* Router.                                                                 *)
(***************************************************************************)

\* The fields of Bgp.  A Bgp with none of them is taken for no Bgp.
RouterBgp == {"AdvertiseMode", "AdvertisedGroups", "AdvertisedIpRanges", "Asn"}

\* Lists of structs, copied element by element.
RouterLists == {"BgpPeers", "Interfaces", "Nats"}

RouterParameters ==
    RouterBgp \cup RouterLists \cup
    {"Description", "EncryptedInterconnectRouter", "Network", "Region"}

RouterPlain == RouterLists \cup {"AdvertisedGroups", "AdvertisedIpRanges", "Region"}

SetsBgp(spec) == \E f \in DOMAIN spec \cap RouterBgp : ~Unset(f, spec[f], RouterPlain)
HasBgp(conf) == \E f \in DOMAIN conf \cap RouterBgp : conf[f] # Zero

\* Bgp is emptied before it is filled: what the spec says is lost to what the
\* router has.
BgpLateInitialize(spec, conf, f) ==
    CASE ~HasBgp(conf) -> spec[f]
      [] HasBgp(conf) /\ conf[f] = Zero /\ f \notin RouterPlain -> Nil
      [] OTHER -> conf[f]

RouterLateInitialize(spec, conf) ==
    [f \in DOMAIN spec |->
        IF f \in RouterBgp THEN BgpLateInitialize(spec, conf, f)
        ELSE FillUnset(spec, conf, RouterPlain, RouterParameters \ {"Region"})[f]]

\* Scalars are always assigned; Bgp and the lists only when the spec has them,
\* and Bgp as a whole.
GenerateRouter(spec, conf) ==
    [f \in DOMAIN spec |->
        IF \/ f \in RouterBgp /\ ~SetsBgp(spec)
           \/ f \in RouterLists /\ spec[f] = Zero
        THEN conf[f] ELSE ValueOf(spec[f])]

RouterIsUpToDate(spec, conf) == SameConf(GenerateRouter(spec, conf), conf)

RouterObserve(spec, conf) ==
    LET late == RouterLateInitialize(spec, conf)
    IN  Seen(late, late, "Available", RouterIsUpToDate(late, conf))

RouterCreate(spec) ==
    Creation("", Expanded(Body(GenerateRouter(spec, Nothing(spec)), {})))

RouterUpdate(spec, conf) ==
    IF RouterIsUpToDate(spec, conf) THEN NoCall
    ELSE Patch(Expanded(Body(GenerateRouter(spec, Nothing(spec)), {})))

RouterDelete == Deletion("Deleting", TRUE)
=============================================================================
