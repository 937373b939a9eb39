---------------------------- MODULE MethodsProofs ----------------------------
(***************************************************************************)
(* What the methods of the controllers in Resources compute, for every     *)
(* instance: which specs they leave alone, what Observe and Update make of *)
(* a spec, and where a controller with nothing left to do leaves GCP.      *)
(***************************************************************************)
EXTENDS Resources, TLAPS

(***************************************************************************)
(* Values.                                                                 *)
(***************************************************************************)

\* A set of specs is closed under the functions that stay within the values.
LEMMA SpecIntro ==
    ASSUME NEW i, NEW s, s = [f \in i.fields |-> s[f]],
           \A f \in i.fields : s[f] \in SpecValues(i.kind, f)
    PROVE  s \in SpecsOf(i)
BY ZenonT(60) DEF SpecsOf

\* What a spec of an instance is.
LEMMA SpecElim ==
    ASSUME NEW i, NEW s \in SpecsOf(i)
    PROVE  /\ s = [f \in i.fields |-> s[f]] /\ DOMAIN s = i.fields
           /\ \A f \in i.fields : s[f] \in SpecValues(i.kind, f)
BY ZenonT(60) DEF SpecsOf

\* What it takes to be a configuration of an instance.
LEMMA ConfIntro ==
    ASSUME NEW i \in Instances, NEW c, c = [f \in i.fields |-> c[f]],
           \A f \in i.fields : c[f] \in ConfValues(i.kind, f),
           i.kind \in PolicyKinds => ~IsEmptyPolicy(c)
    PROVE  c \in Confs[i]
BY ZenonT(60) DEF Confs

\* What a configuration of an instance is.
LEMMA ConfElim ==
    ASSUME NEW i \in Instances, NEW c \in Confs[i]
    PROVE  /\ c = [f \in i.fields |-> c[f]] /\ DOMAIN c = i.fields
           /\ \A f \in i.fields : c[f] \in ConfValues(i.kind, f)
BY ZenonT(60) DEF Confs

\* What a person writes is a spec.
LEMMA WrittenElim ==
    ASSUME NEW i \in Instances, NEW s \in Written[i]
    PROVE  s \in SpecsOf(i)
BY DEF Written, SpecsOf, SpecValues

\* The place is a field of the kind's parameters that has no other role.
LEMMA PlaceFields ==
    ASSUME NEW k \in Kinds
    PROVE  /\ PlaceField(k) \notin Booleans \cup NeverZero
           /\ k \in InNetwork => PlaceField(k) # "Network"
           /\ PlaceField(k) \notin TopicNames \cup PredefinedACLs
           /\ PlaceField(k) \notin {"AckDeadlineSeconds", "Lifecycle", "DeadLetterPolicy"}
BY ZenonT(60) DEF Kinds, PolicyKinds, PlaceField, Booleans, NeverZero, InNetwork,
   TopicNames, PredefinedACLs

\* GCP never has a nil pointer; a place is a place.
LEMMA ConfNotNil ==
    ASSUME NEW k \in Kinds, NEW f, NEW v \in ConfValues(k, f)
    PROVE  v # Nil
BY ZenonT(60), ValuesAssumption, YesAssumption, PlacesAssumption, URLsAssumption,
   NamesAssumption,
   DatedAssumption DEF ConfValues, NetworkURLs

\* The values of the field that says where the resource is.
LEMMA PlaceValues ==
    ASSUME NEW k \in Kinds
    PROVE  /\ ConfValues(k, PlaceField(k)) = Places
           /\ SpecValues(k, PlaceField(k)) = Places
<1>1. ConfValues(k, PlaceField(k)) = Places /\ WrittenValues(k, PlaceField(k)) = Places
  BY ZenonT(60), PlaceFields DEF ConfValues, WrittenValues
<1>2. ~(k = "Subscription" /\ PlaceField(k) = "DeadLetterPolicy")
  BY ZenonT(60), PlaceFields
<1> QED
  BY ZenonT(60), <1>1, <1>2 DEF SpecValues

\* A plain field is never nil in a spec, any other may be, the place excepted.
LEMMA NilValues ==
    ASSUME NEW k \in Kinds, NEW f
    PROVE  /\ f \in PlainOf(k) \/ f = PlaceField(k) => Nil \notin SpecValues(k, f)
           /\ f \notin PlainOf(k) /\ f # PlaceField(k) => Nil \in SpecValues(k, f)
<1>1. Nil \notin ConfValues(k, f)
  BY ZenonT(60), ConfNotNil
<1>2. CASE f = PlaceField(k)
  BY ZenonT(60), <1>2, PlaceValues, PlacesAssumption
<1>3. CASE f # PlaceField(k) /\ f \in PlainOf(k)
  <2>1. Nil \notin WrittenValues(k, f)
    BY ZenonT(60), <1>1, <1>3, ValuesAssumption, NamesAssumption
    DEF WrittenValues, PlainOf, InNetwork, PolicyKinds, Policy, SubnetworkPlain, FirewallPlain,
        RouterPlain, RouterLists
  <2>2. ~(k = "Subscription" /\ f = "DeadLetterPolicy")
    BY ZenonT(60), <1>3 DEF PlainOf, SubscriptionPlain, PolicyKinds
  <2> QED
    BY ZenonT(60), <1>1, <1>3, <2>1, <2>2 DEF SpecValues
<1>4. CASE f # PlaceField(k) /\ f \notin PlainOf(k)
  <2>1. ~(k = "Bucket" /\ f \in PredefinedACLs)
    BY ZenonT(60), <1>4 DEF PlainOf, PolicyKinds, BucketPlain, BucketSpecAttrs,
       BucketUpdatableAttrs,
                PredefinedACLs
  <2>2. Nil \in WrittenValues(k, f)
    BY ZenonT(60), <1>4, <2>1 DEF WrittenValues
  <2> QED
    BY ZenonT(60), <1>4, <2>2 DEF SpecValues
<1> QED
  BY ZenonT(60), <1>2, <1>3, <1>4

\* GCP may have no value for a field, unless it has to have one.
LEMMA ZeroValues ==
    ASSUME NEW k \in Kinds, NEW f, f # PlaceField(k), f \notin NeverZero,
           ~(k \in InNetwork /\ f = "Network")
    PROVE  Zero \in ConfValues(k, f)
BY ZenonT(60), ValuesAssumption DEF ConfValues

\* The fields whose values in a spec are those in GCP, and nil.
Ordinary(k, f) ==
    /\ ~(k \in InNetwork /\ f = "Network")
    /\ ~(k = "Subscription" /\ f \in TopicNames)
    /\ ~(k = "Bucket" /\ f \in PredefinedACLs)

\* What a spec sets of an ordinary field is a value GCP may have.
LEMMA OrdinaryValues ==
    ASSUME NEW k \in Kinds, NEW f, Ordinary(k, f), NEW v \in SpecValues(k, f), v # Nil
    PROVE  v \in ConfValues(k, f)
<1>1. v \in WrittenValues(k, f) \cup ConfValues(k, f)
  BY ZenonT(60) DEF Ordinary, SpecValues, TopicNames
<1>2. WrittenValues(k, f) \subseteq ConfValues(k, f) \cup {Nil}
  BY ZenonT(60), PlaceValues DEF Ordinary, WrittenValues
<1> QED
  BY ZenonT(60), <1>1, <1>2

(***************************************************************************)
(* Controllers at rest.                                                    *)
(***************************************************************************)

standing == ext[At(kube.spec)]

AtRest ==
    /\ inst \in Instances
    /\ kube.spec \in SpecsOf(inst)
    /\ standing.conf \in Confs[inst]
    /\ PlaceField(kind) \in inst.fields => standing.conf[PlaceField(kind)] = At(kube.spec)
    /\ Settled(kube.spec, standing)

\* What GCP refuses of a request that nobody interferes with.
Refused(set) == Refuses(kind, set, standing.conf, FALSE)

\* The exceptions of SettledAgrees.
Excused(f) ==
    \/ Immovable(f)
    \/ /\ kind \in {"Network", "Subnetwork", "CryptoKey"}
       /\ \E g \in inst.fields : Immovable(g) /\ Differs(g)
    \/ /\ kind \in {"Network", "Subnetwork", "Firewall", "Router"}
       /\ kube.spec[f] = Zero
       /\ f \notin {"AutoCreateSubnetworks", "PrivateIPGoogleAccess"}
    \/ /\ kind \in InNetwork /\ f = "Network"
       /\ EquateComputeURLs(kube.spec[f], ext[At(kube.spec)].conf[f])

\* Only the network of a kind is named by a URL.
LEMMA NotURL ==
    ASSUME NEW k \in Kinds, NEW f, ~(k \in InNetwork /\ f = "Network"), NEW v \in SpecValues(k, f)
    PROVE  v \notin NetworkURLs
<1>1. ConfValues(k, f) \cap NetworkURLs = {}
  BY ZenonT(60), ValuesAssumption, YesAssumption, PlacesAssumption, URLsAssumption,
     URLsApartAssumption
  DEF ConfValues
<1>2. WrittenValues(k, f) \cap NetworkURLs = {}
  BY ZenonT(60), <1>1, ValuesAssumption, PlacesAssumption, URLsAssumption,
     URLsApartAssumption
  DEF WrittenValues
<1> QED
  BY ZenonT(60), <1>1, <1>2, URLsApartAssumption DEF SpecValues

\* GCP never has part of a URL.
LEMMA NeverPartial ==
    ASSUME NEW k \in Kinds, NEW f, NEW v \in ConfValues(k, f)
    PROVE  v # Partial
<1>1. CASE k \in InNetwork /\ f = "Network"
  <2>1. PlaceField(k) # "Network"
    BY ZenonT(60), <1>1, PlaceFields
  <2> QED
    BY ZenonT(60), <1>1, <2>1, URLsAssumption DEF ConfValues, Booleans, NeverZero, InNetwork
<1>2. CASE ~(k \in InNetwork /\ f = "Network")
  BY ZenonT(60), <1>2, NotURL DEF SpecValues, NetworkURLs
<1> QED
  BY ZenonT(60), <1>1, <1>2

\* What it means for a setting to differ.
LEMMA DiffersMeans ==
    ASSUME AtRest, NEW f \in inst.fields
    PROVE  /\ DOMAIN kube.spec = inst.fields /\ DOMAIN standing.conf = inst.fields
           /\ kind \in Kinds /\ f \in ParametersOf(kind)
           /\ kube.spec[f] \in SpecValues(kind, f)
           /\ standing.conf[f] \in ConfValues(kind, f) /\ standing.conf[f] # Nil
           /\ Differs(f) <=> /\ kube.spec[f] # Nil /\ IsSet(f, kube.spec[f])
                             /\ Expanded(kube.spec)[f] # standing.conf[f]
           /\ Differs(f) => kube.spec[f] # standing.conf[f] /\ f # PlaceField(kind)
           /\ ~(kind \in InNetwork /\ f = "Network") => Expanded(kube.spec)[f] = kube.spec[f]
<1> DEFINE s == kube.spec
           c == standing.conf
<1>1. /\ DOMAIN s = inst.fields /\ kind \in Kinds /\ f \in ParametersOf(kind)
      /\ s[f] \in SpecValues(kind, f)
  BY ZenonT(60), SpecElim, InstancesAssumption DEF AtRest, kind
<1>2. DOMAIN c = inst.fields /\ c[f] \in ConfValues(kind, f)
  BY ZenonT(60), ConfElim DEF AtRest, kind
<1>3. c[f] # Nil /\ c[f] # Partial
  BY ZenonT(60), <1>1, <1>2, ConfNotNil, NeverPartial
<1>4. Expanded(s)[f] = IF s[f] = Partial THEN Whole ELSE s[f]
  BY ZenonT(60), <1>1 DEF Expanded
<1>5. Differs(f) <=> s[f] # Nil /\ IsSet(f, s[f]) /\ Expanded(s)[f] # c[f]
  BY ZenonT(60) DEF Differs, standing
<1>6. ~(kind \in InNetwork /\ f = "Network") => Expanded(s)[f] = s[f]
  BY ZenonT(60), <1>1, <1>4, NotURL DEF NetworkURLs
<1>7. Differs(f) => s[f] # c[f]
  BY ZenonT(60), <1>3, <1>4, <1>5
<1>8. f = PlaceField(kind) => s[f] = c[f]
  BY ZenonT(60), <1>1 DEF AtRest, At
<1> QED
  BY ZenonT(60), <1>1, <1>2, <1>3, <1>5, <1>6, <1>7, <1>8

\* What it means to be at rest.
LEMMA RestMeans ==
    ASSUME AtRest, NEW new, NEW mem,
           ObserveOf(kind, kube.spec, standing).spec = new,
           ObserveOf(kind, kube.spec, standing).mem = mem,
           NEW u, u = UpdateOf(kind, mem, standing.conf)
    PROVE  /\ new = kube.spec
           /\ \/ ObserveOf(kind, kube.spec, standing).upToDate
              \/ u.call = "none"
              \/ u.call = "patch" /\ Refused(u.set)
              \/ /\ u.call = "patch"
                 /\ \A f \in inst.fields \cap DOMAIN u.set : u.set[f] = standing.conf[f]
<1> DEFINE seen == ObserveOf(kind, kube.spec, standing)
           c == standing.conf
<1>1. DOMAIN c = inst.fields
  BY ZenonT(60), ConfElim DEF AtRest
<1>2. ASSUME Applied(u.set, c) = c, NEW f \in inst.fields \cap DOMAIN u.set
      PROVE  u.set[f] = c[f]
  <2>1. Applied(u.set, c)[f] = u.set[f]
    BY ZenonT(60), <1>1 DEF Applied
  <2> QED
    BY ZenonT(60), <1>2, <2>1
<1>3. /\ seen.spec = kube.spec
      /\ \/ seen.upToDate
         \/ u.call = "none"
         \/ u.call = "patch" /\ (Refused(u.set) \/ Applied(u.set, c) = c)
  BY ZenonT(60) DEF AtRest, Settled, Refused
<1> QED
  BY ZenonT(60), <1>2, <1>3

\* Leaving the automatic mode is never refused, so it is no reason to rest;
\* entering it always is.
LEMMA NetworkAgrees ==
    ASSUME AtRest, kind = "Network", NEW f \in inst.fields, Differs(f)
    PROVE  Excused(f)
<1> DEFINE s == kube.spec
           c == standing.conf
           auto == "AutoCreateSubnetworks"
           new == NetworkLateInitialize(s, c)
           body == Body(GenerateNetwork(s, Nothing(s)), NetworkForced(s))
           u == NetworkUpdate(s, c)
<1>1. /\ DOMAIN s = inst.fields /\ DOMAIN c = inst.fields
      /\ inst.fields \subseteq NetworkParameters
      /\ \A g \in inst.fields :
            /\ Differs(g) <=> s[g] # Nil /\ s[g] # c[g]
            /\ s[g] \in SpecValues(kind, g) /\ c[g] \in ConfValues(kind, g) /\ c[g] # Nil
  <2>1. ASSUME NEW g \in inst.fields
        PROVE  /\ DOMAIN s = inst.fields /\ DOMAIN c = inst.fields
               /\ g \in NetworkParameters
               /\ Differs(g) <=> s[g] # Nil /\ s[g] # c[g]
               /\ s[g] \in SpecValues(kind, g) /\ c[g] \in ConfValues(kind, g) /\ c[g] # Nil
    <3>1. ParametersOf(kind) = NetworkParameters /\ PlainOf(kind) = {} /\ kind \notin InNetwork
      BY ZenonT(60) DEF ParametersOf, PlainOf, InNetwork, PolicyKinds
    <3> QED
      BY ZenonT(60), <2>1, <3>1, DiffersMeans DEF IsSet, Unset
  <2> QED
    BY ZenonT(60), <2>1
<1>2. /\ new = s
      /\ \/ NetworkIsUpToDate(s, c)
         \/ u.call = "none"
         \/ u.call = "patch" /\ NetworkRefuses(u.set, c)
         \/ u.call = "patch" /\ \A g \in inst.fields \cap DOMAIN u.set : u.set[g] = c[g]
  <2> DEFINE v == NetworkUpdate(new, c)
             seen == ObserveOf(kind, s, standing)
  <2>1. seen.spec = new /\ seen.mem = new /\ (seen.upToDate <=> NetworkIsUpToDate(new, c))
    BY ZenonT(60) DEF ObserveOf, PolicyKinds, NetworkObserve, Seen
  <2>2. v = UpdateOf(kind, new, c)
    BY ZenonT(60) DEF UpdateOf, PolicyKinds
  <2>3. Refused(v.set) => NetworkRefuses(v.set, c)
    BY ZenonT(60) DEF Refused, Refuses, PolicyKinds
  <2> HIDE DEF new, v
  <2>4. /\ new = s
        /\ \/ seen.upToDate
           \/ v.call = "none"
           \/ v.call = "patch" /\ Refused(v.set)
           \/ v.call = "patch" /\ \A g \in inst.fields \cap DOMAIN v.set : v.set[g] = c[g]
    BY SMTT(60), <2>1, <2>2, RestMeans
  <2> QED
    BY ZenonT(60), <2>1, <2>3, <2>4 DEF v
<1>3. ~NetworkIsUpToDate(s, c)
  <2>1. SUFFICES ASSUME NetworkIsUpToDate(s, c) PROVE FALSE
    BY ZenonT(60)
  <2>2. GenerateNetwork(s, c)[f] = s[f]
    BY ZenonT(60), <1>1 DEF GenerateNetwork, Generated, ValueOf
  <2> QED
    BY ZenonT(60), <1>1, <2>1, <2>2 DEF NetworkIsUpToDate
<1>4. ~SwitchToCustom(s, c) /\ u = Patch(body)
  <2>1. SUFFICES ASSUME SwitchToCustom(s, c) PROVE FALSE
    BY ZenonT(60), <1>3 DEF NetworkUpdate
  <2> DEFINE set == [g \in {auto} |-> Zero]
  <2>2. auto \in inst.fields /\ c[auto] # Zero
    BY ZenonT(60), <1>1, <2>1 DEF SwitchToCustom
  <2>3. u = Patch(set)
    BY ZenonT(60), <1>3, <2>1 DEF NetworkUpdate
  <2>4. u.call = "patch" /\ u.set = set /\ DOMAIN set = {auto} /\ set[auto] = Zero
    BY SMTT(60), <2>3 DEF Patch
  <2> HIDE DEF set
  <2>5. ~NetworkRefuses(u.set, c)
    BY ZenonT(60), <2>4 DEF NetworkRefuses
  <2> QED
    BY ZenonT(60), <1>2, <1>3, <2>2, <2>4, <2>5
<1>5. u.call = "patch" /\ u.set = body
  BY SMTT(60), <1>4 DEF Patch
<1>6. /\ DOMAIN body \subseteq inst.fields
      /\ \A g \in DOMAIN body : body[g] = ValueOf(s[g]) /\ s[g] # Nil
      /\ \A g \in inst.fields : s[g] # Nil /\ (s[g] # Zero \/ g = auto) => g \in DOMAIN body
  <2>1. /\ DOMAIN GenerateNetwork(s, Nothing(s)) = inst.fields
        /\ \A g \in inst.fields : GenerateNetwork(s, Nothing(s))[g] = ValueOf(s[g])
    BY ZenonT(60), <1>1 DEF GenerateNetwork, Generated, Nothing, ValueOf
  <2>2. \A g : g \in NetworkForced(s) <=> g = auto /\ g \in inst.fields /\ s[g] = Zero
    BY ZenonT(60), <1>1 DEF NetworkForced
  <2>3. Zero # Nil
    BY ZenonT(60), ValuesAssumption
  <2> QED
    BY ZenonT(60), <2>1, <2>2, <2>3 DEF Body, Restricted, ValueOf
<1> HIDE DEF body, u
<1>7. CASE NetworkRefuses(body, c)
  <2>1. PICK g \in DOMAIN body \ {"RoutingConfig"} : body[g] # c[g]
    BY ZenonT(60), <1>7 DEF NetworkRefuses
  <2>2. g \in inst.fields /\ s[g] # Nil /\ s[g] # c[g]
    BY ZenonT(60), <1>6, <2>1 DEF ValueOf
  <2>3. CASE g = "Description"
    BY ZenonT(60), <1>1, <2>2, <2>3 DEF Excused, Immovable
  <2>4. CASE g = auto
    <3>1. ConfValues(kind, auto) = {Zero, Yes} /\ SpecValues(kind, auto) \subseteq {Zero, Yes, Nil}
      <4>1. /\ PlaceField(kind) # auto /\ kind \notin InNetwork
            /\ kind \notin {"Subscription", "Bucket"}
        BY ZenonT(60) DEF PlaceField, InNetwork, PolicyKinds
      <4>2. ConfValues(kind, auto) = {Zero, Yes}
        BY ZenonT(60), <4>1 DEF ConfValues, Booleans, NeverZero, TopicNames, PredefinedACLs
      <4>3. WrittenValues(kind, auto) \subseteq {Zero, Yes, Nil}
        BY ZenonT(60), <4>1, <4>2 DEF WrittenValues
      <4> QED
        BY ZenonT(60), <4>1, <4>2, <4>3 DEF SpecValues
    <3>2. s[g] \in {Zero, Yes} /\ c[g] \in {Zero, Yes}
      BY ZenonT(60), <1>1, <2>2, <2>4, <3>1
    <3>3. s[g] # Zero
      <4>1. SUFFICES ASSUME s[g] = Zero PROVE FALSE
        BY ZenonT(60)
      <4>2. GenerateNetwork(s, c)[g] = Zero
        BY ZenonT(60), <1>1, <2>2, <4>1 DEF GenerateNetwork, Generated, ValueOf
      <4> QED
        BY ZenonT(60), <1>1, <1>4, <2>2, <2>4, <4>1, <4>2 DEF SwitchToCustom
    <3>4. Immovable(g) /\ Differs(g)
      BY ZenonT(60), <1>1, <2>2, <2>4, <3>2, <3>3 DEF Immovable
    <3> QED
      BY ZenonT(60), <2>2, <3>4 DEF Excused
  <2> QED
    BY ZenonT(60), <1>1, <2>1, <2>2, <2>3, <2>4 DEF NetworkParameters
<1>8. CASE \A g \in inst.fields \cap DOMAIN body : body[g] = c[g]
  <2>1. s[f] = Zero /\ f # auto
    BY ZenonT(60), <1>1, <1>6, <1>8 DEF ValueOf
  <2> QED
    BY ZenonT(60), <1>1, <2>1 DEF Excused, NetworkParameters
<1> QED
  BY ZenonT(60), <1>2, <1>3, <1>5, <1>7, <1>8

\* The network of a subnetwork cannot be changed; private access is compared
\* and sent on its own.
LEMMA SubnetworkAgrees ==
    ASSUME AtRest, kind = "Subnetwork", NEW f \in inst.fields, Differs(f)
    PROVE  Excused(f)
<1> DEFINE s == kube.spec
           c == standing.conf
           access == "PrivateIPGoogleAccess"
           new == SubnetworkLateInitialize(s, c)
           u == SubnetworkUpdate(s, c)
<1>1. /\ DOMAIN s = inst.fields /\ DOMAIN c = inst.fields
      /\ f \in SubnetworkParameters /\ f # "Region"
      /\ s[f] # Nil /\ s[f] # c[f] /\ (f = "SecondaryIPRanges" => s[f] # Zero)
      /\ f # "Network" => s[f] \notin NetworkURLs
  <2>1. ParametersOf(kind) = SubnetworkParameters /\ PlainOf(kind) = SubnetworkPlain
        /\ PlaceField(kind) = "Region"
    BY ZenonT(60) DEF ParametersOf, PlainOf, PlaceField, PolicyKinds
  <2>2. f # "Network" => s[f] \notin NetworkURLs
    BY ZenonT(60), DiffersMeans, NotURL
  <2> QED
    BY ZenonT(60), <2>1, <2>2, DiffersMeans DEF IsSet, Unset, SubnetworkPlain
<1>2. \/ SubnetworkIsUpToDate(s, c)
      \/ u.call = "none"
      \/ u.call = "patch" /\ SubnetworkRefuses(u.set, c, FALSE)
      \/ u.call = "patch" /\ \A g \in inst.fields \cap DOMAIN u.set : u.set[g] = c[g]
  <2> DEFINE v == SubnetworkUpdate(new, c)
             seen == ObserveOf(kind, s, standing)
  <2>1. seen.spec = new /\ seen.mem = new /\ (seen.upToDate <=> SubnetworkIsUpToDate(new, c))
    BY ZenonT(60) DEF ObserveOf, PolicyKinds, SubnetworkObserve, Seen
  <2>2. v = UpdateOf(kind, new, c)
    BY ZenonT(60) DEF UpdateOf, PolicyKinds
  <2>3. Refused(v.set) => SubnetworkRefuses(v.set, c, FALSE)
    BY ZenonT(60) DEF Refused, Refuses, PolicyKinds
  <2> HIDE DEF new, v
  <2>4. /\ new = s
        /\ \/ seen.upToDate
           \/ v.call = "none"
           \/ v.call = "patch" /\ Refused(v.set)
           \/ v.call = "patch" /\ \A g \in inst.fields \cap DOMAIN v.set : v.set[g] = c[g]
    BY SMTT(60), <2>1, <2>2, RestMeans
  <2> QED
    BY ZenonT(60), <2>1, <2>3, <2>4 DEF v
<1>3. CASE SubnetworkIsUpToDate(s, c)
  <2>1. GenerateSubnetwork(s, c)[f] = s[f]
    BY ZenonT(60), <1>1 DEF GenerateSubnetwork, ValueOf
  <2>2. EquateComputeURLs(s[f], c[f])
    BY ZenonT(60), <1>1, <1>3, <2>1 DEF SubnetworkIsUpToDate, SameConf
  <2>3. f = "Network"
    BY ZenonT(60), <1>1, <2>2 DEF EquateComputeURLs
  <2> QED
    BY ZenonT(60), <2>3 DEF Excused, Immovable
<1>4. CASE ~SubnetworkIsUpToDate(s, c) /\ PrivateAccess(s, c)
  <2>1. access \in inst.fields /\ ValueOf(s[access]) # c[access]
    BY ZenonT(60), <1>1, <1>4 DEF PrivateAccess
  <2>2. CASE s[access] = Nil
    BY ZenonT(60), <1>2, <1>4, <2>2 DEF SubnetworkUpdate, NilDereference
  <2>3. CASE s[access] # Nil
    <3> DEFINE set == Restricted(s, {access})
    <3>1. u.call = "patch" /\ u.set = set
      BY ZenonT(60), <1>4, <2>3 DEF SubnetworkUpdate, Patch
    <3>2. access \in DOMAIN set /\ set[access] = s[access]
      BY ZenonT(60), <1>1, <2>1 DEF Restricted
    <3>3. ~SubnetworkRefuses(set, c, FALSE)
      BY ZenonT(60) DEF SubnetworkRefuses, SubnetworkImmutable, Restricted
    <3> HIDE DEF set
    <3> QED
      BY ZenonT(60), <1>2, <1>4, <2>1, <2>3, <3>1, <3>2, <3>3 DEF ValueOf
  <2> QED
    BY ZenonT(60), <2>2, <2>3
<1>5. CASE ~SubnetworkIsUpToDate(s, c) /\ ~PrivateAccess(s, c)
  <2> DEFINE set == GenerateSubnetworkForUpdate(s)
             gen == GenerateSubnetwork(s, Nothing(s))
  <2>1. u.call = "patch" /\ u.set = set
    BY ZenonT(60), <1>5 DEF SubnetworkUpdate, Patch
  <2>2. DOMAIN gen = inst.fields /\ gen[f] = s[f]
    BY ZenonT(60), <1>1 DEF GenerateSubnetwork, ValueOf
  <2>3. f # "Network" /\ s[f] # Zero => f \in DOMAIN set /\ set[f] = s[f]
    <3> HIDE DEF gen
    <3> QED
      BY ZenonT(60), <1>1, <2>2 DEF GenerateSubnetworkForUpdate, Body, Restricted, gen
  <2>r. CASE SubnetworkRefuses(set, c, FALSE)
    <3>1. PICK g \in DOMAIN set \cap SubnetworkImmutable : set[g] # c[g]
      BY ZenonT(60), <2>r DEF SubnetworkRefuses
    <3>2. g \in inst.fields /\ set[g] = gen[g] /\ gen[g] # Zero
      <4> HIDE DEF gen
      <4> QED
        BY ZenonT(60), <2>2, <3>1 DEF GenerateSubnetworkForUpdate, Body, Restricted, gen
    <3>3. g # "SecondaryIPRanges" /\ g # "Network"
      BY ZenonT(60), <3>1 DEF SubnetworkImmutable
    <3>4. gen[g] = ValueOf(s[g])
      BY ZenonT(60), <1>1, <3>2, <3>3 DEF GenerateSubnetwork
    <3>5. s[g] # Nil /\ s[g] = set[g] /\ s[g] # Zero
      BY ZenonT(60), <3>2, <3>4 DEF ValueOf
    <3>6. IsSet(g, s[g])
      BY ZenonT(60), <3>5 DEF IsSet, Unset
    <3>7. Differs(g)
      BY ZenonT(60), <3>1, <3>2, <3>3, <3>5, <3>6, DiffersMeans
    <3> QED
      BY ZenonT(60), <3>1, <3>2, <3>7 DEF Excused, Immovable
  <2> HIDE DEF set
  <2>4. CASE f = "Network" \/ s[f] = Zero
    <3>1. f # access
      BY ZenonT(60), <1>1, <1>5 DEF PrivateAccess, ValueOf
    <3>2. f # "AutoCreateSubnetworks"
      BY ZenonT(60), <1>1 DEF SubnetworkParameters
    <3> QED
      BY ZenonT(60), <2>4, <3>1, <3>2 DEF Excused, Immovable
  <2> QED
    BY ZenonT(60), <1>1, <1>2, <1>5, <2>1, <2>3, <2>r, <2>4
<1> QED
  BY ZenonT(60), <1>3, <1>4, <1>5

\* Firewall and Router send all that the spec sets and is not zero.
LEMMA PatchedAgrees ==
    ASSUME AtRest, kind \in {"Firewall", "Router"}, NEW f \in inst.fields, Differs(f),
           NEW gen, DOMAIN gen = inst.fields, gen[f] = kube.spec[f],
           \/ EquateComputeURLs(kube.spec[f], standing.conf[f])
           \/ \A g \in inst.fields \cap DOMAIN Expanded(Body(gen, {})) :
                 Expanded(Body(gen, {}))[g] = standing.conf[g]
    PROVE  Excused(f)
<1> DEFINE s == kube.spec
           c == standing.conf
           set == Expanded(Body(gen, {}))
<1>1. /\ s[f] # c[f] /\ DOMAIN s = inst.fields /\ Expanded(s)[f] # c[f]
      /\ f # "Network" => s[f] \notin NetworkURLs
      /\ f \in FirewallParameters \cup RouterParameters
  <2>1. ParametersOf(kind) \subseteq FirewallParameters \cup RouterParameters
    BY ZenonT(60) DEF ParametersOf, PolicyKinds
  <2>2. f # "Network" => s[f] \notin NetworkURLs
    BY ZenonT(60), DiffersMeans, NotURL
  <2> QED
    BY ZenonT(60), <2>1, <2>2, DiffersMeans
<1>2. CASE EquateComputeURLs(s[f], c[f])
  <2>1. f = "Network"
    BY ZenonT(60), <1>1, <1>2 DEF EquateComputeURLs
  <2> QED
    BY ZenonT(60), <1>2, <2>1 DEF Excused, InNetwork, standing
<1>3. CASE \A g \in inst.fields \cap DOMAIN set : set[g] = c[g]
  <2>1. s[f] # Zero => f \in DOMAIN set /\ set[f] = Expanded(s)[f]
    BY ZenonT(60), <1>1 DEF Expanded, Body, Restricted
  <2>2. s[f] = Zero
    BY ZenonT(60), <1>1, <1>3, <2>1
  <2>3. f \notin {"AutoCreateSubnetworks", "PrivateIPGoogleAccess"}
    BY ZenonT(60), <1>1 DEF FirewallParameters, FirewallGroups, RouterParameters,
       RouterBgp, RouterLists
  <2> QED
    BY ZenonT(60), <2>2, <2>3 DEF Excused
<1> QED
  BY ZenonT(60), <1>2, <1>3

\* A Firewall at rest.
LEMMA FirewallAgrees ==
    ASSUME AtRest, kind = "Firewall", NEW f \in inst.fields, Differs(f)
    PROVE  Excused(f)
<1> DEFINE s == kube.spec
           c == standing.conf
           new == FirewallLateInitialize(s, c)
           gen == GenerateFirewall(s, Nothing(s))
           u == FirewallUpdate(s, c)
<1>1. /\ DOMAIN s = inst.fields /\ DOMAIN c = inst.fields
      /\ s[f] # Nil /\ ~Unset(f, s[f], FirewallPlain)
  <2>1. PlainOf(kind) = FirewallPlain
    BY ZenonT(60) DEF PlainOf, PolicyKinds
  <2> QED
    BY ZenonT(60), <2>1, DiffersMeans DEF IsSet
<1>2. \/ FirewallIsUpToDate(s, c)
      \/ u.call = "none"
      \/ u.call = "patch" /\ \A g \in inst.fields \cap DOMAIN u.set : u.set[g] = c[g]
  <2> DEFINE v == FirewallUpdate(new, c)
             seen == ObserveOf(kind, s, standing)
  <2>1. seen.spec = new /\ seen.mem = new /\ (seen.upToDate <=> FirewallIsUpToDate(new, c))
    BY ZenonT(60) DEF ObserveOf, PolicyKinds, FirewallObserve, Seen
  <2>2. v = UpdateOf(kind, new, c)
    BY ZenonT(60) DEF UpdateOf, PolicyKinds
  <2>3. ~Refused(v.set)
    BY ZenonT(60) DEF Refused, Refuses, PolicyKinds
  <2> HIDE DEF new, v
  <2>4. /\ new = s
        /\ \/ seen.upToDate
           \/ v.call = "none"
           \/ v.call = "patch" /\ Refused(v.set)
           \/ v.call = "patch" /\ \A g \in inst.fields \cap DOMAIN v.set : v.set[g] = c[g]
    BY SMTT(60), <2>1, <2>2, RestMeans
  <2> QED
    BY ZenonT(60), <2>1, <2>3, <2>4 DEF v
<1>3. DOMAIN gen = inst.fields /\ gen[f] = s[f] /\ GenerateFirewall(s, c)[f] = s[f]
  BY ZenonT(60), <1>1 DEF GenerateFirewall, ValueOf
<1>4. CASE FirewallIsUpToDate(s, c)
  <2>1. EquateComputeURLs(s[f], c[f])
    BY ZenonT(60), <1>1, <1>3, <1>4 DEF FirewallIsUpToDate, SameConf
  <2> HIDE DEF gen
  <2> QED
    BY ZenonT(60), <1>3, <2>1, PatchedAgrees
<1>5. CASE ~FirewallIsUpToDate(s, c)
  <2>1. u.call = "patch" /\ u.set = Expanded(Body(gen, {}))
    BY ZenonT(60), <1>5 DEF FirewallUpdate, Patch
  <2> HIDE DEF gen, u
  <2> QED
    BY ZenonT(60), <1>2, <1>3, <1>5, <2>1, PatchedAgrees
<1> QED
  BY ZenonT(60), <1>4, <1>5

\* A setting of Bgp that the spec sets is sent with the whole of it.
LEMMA RouterAgrees ==
    ASSUME AtRest, kind = "Router", NEW f \in inst.fields, Differs(f)
    PROVE  Excused(f)
<1> DEFINE s == kube.spec
           c == standing.conf
           new == RouterLateInitialize(s, c)
           gen == GenerateRouter(s, Nothing(s))
           u == RouterUpdate(s, c)
<1>1. /\ DOMAIN s = inst.fields /\ DOMAIN c = inst.fields
      /\ s[f] # Nil /\ ~Unset(f, s[f], RouterPlain)
  <2>1. PlainOf(kind) = RouterPlain
    BY ZenonT(60) DEF PlainOf, PolicyKinds
  <2> QED
    BY ZenonT(60), <2>1, DiffersMeans DEF IsSet
<1>2. \/ RouterIsUpToDate(s, c)
      \/ u.call = "none"
      \/ u.call = "patch" /\ \A g \in inst.fields \cap DOMAIN u.set : u.set[g] = c[g]
  <2> DEFINE v == RouterUpdate(new, c)
             seen == ObserveOf(kind, s, standing)
  <2>1. seen.spec = new /\ seen.mem = new /\ (seen.upToDate <=> RouterIsUpToDate(new, c))
    BY ZenonT(60) DEF ObserveOf, PolicyKinds, RouterObserve, Seen
  <2>2. v = UpdateOf(kind, new, c)
    BY ZenonT(60) DEF UpdateOf, PolicyKinds
  <2>3. ~Refused(v.set)
    BY ZenonT(60) DEF Refused, Refuses, PolicyKinds
  <2> HIDE DEF new, v
  <2>4. /\ new = s
        /\ \/ seen.upToDate
           \/ v.call = "none"
           \/ v.call = "patch" /\ Refused(v.set)
           \/ v.call = "patch" /\ \A g \in inst.fields \cap DOMAIN v.set : v.set[g] = c[g]
    BY SMTT(60), <2>1, <2>2, RestMeans
  <2> QED
    BY ZenonT(60), <2>1, <2>3, <2>4 DEF v
<1>3. DOMAIN gen = inst.fields /\ gen[f] = s[f] /\ GenerateRouter(s, c)[f] = s[f]
  <2>1. f \in RouterBgp => SetsBgp(s)
    BY ZenonT(60), <1>1 DEF SetsBgp
  <2>2. f \in RouterLists => s[f] # Zero
    BY ZenonT(60), <1>1 DEF Unset, RouterPlain
  <2> QED
    BY ZenonT(60), <1>1, <2>1, <2>2 DEF GenerateRouter, ValueOf
<1>4. CASE RouterIsUpToDate(s, c)
  <2>1. EquateComputeURLs(s[f], c[f])
    BY ZenonT(60), <1>1, <1>3, <1>4 DEF RouterIsUpToDate, SameConf
  <2> HIDE DEF gen
  <2> QED
    BY ZenonT(60), <1>3, <2>1, PatchedAgrees
<1>5. CASE ~RouterIsUpToDate(s, c)
  <2>1. u.call = "patch" /\ u.set = Expanded(Body(gen, {}))
    BY ZenonT(60), <1>5 DEF RouterUpdate, Patch
  <2> HIDE DEF gen, u
  <2> QED
    BY ZenonT(60), <1>2, <1>3, <1>5, <2>1, PatchedAgrees
<1> QED
  BY ZenonT(60), <1>4, <1>5

\* The names of topics aside, no setting of Pub/Sub is one that GCP refuses.
LEMMA NotWrong ==
    ASSUME NEW k \in {"Topic", "Subscription"}, NEW g \in ParametersOf(k) \ TopicNames,
           NEW v \in SpecValues(k, g)
    PROVE  v # Wrong
<1>1. /\ k \in Kinds /\ k \notin InNetwork /\ k # "Bucket"
      /\ PlaceField(k) = "none" /\ g # "none" /\ g # "DeadLetterPolicy"
  BY ZenonT(60) DEF Kinds, InNetwork, PlaceField, PolicyKinds, ParametersOf,
     TopicParameters, TopicNames,
         SubscriptionParameters, SubscriptionPlain, SubscriptionGroups
<1>2. Wrong \notin Values /\ Wrong # Nil /\ Wrong # Default /\ Zero # Wrong /\ Yes # Wrong
  BY ZenonT(60), NamesAssumption, ValuesAssumption, YesAssumption
<1>3. Wrong \notin ConfValues(k, g)
  BY ZenonT(60), <1>1, <1>2 DEF ConfValues
<1>4. Wrong \notin WrittenValues(k, g)
  BY ZenonT(60), <1>1, <1>2, <1>3 DEF WrittenValues
<1> QED
  BY ZenonT(60), <1>1, <1>3, <1>4 DEF SpecValues

\* A Topic at rest: Update never sends its key.
LEMMA TopicAgrees ==
    ASSUME AtRest, kind = "Topic", NEW f \in inst.fields, Differs(f)
    PROVE  Excused(f)
<1> DEFINE s == kube.spec
           c == standing.conf
           new == TopicLateInitialize(s, c)
           mask == TopicUpdateMask(s, c)
           gen == GenerateTopic(s)
           set == Masked(gen, mask)
           u == TopicUpdate(s, c)
<1>1. /\ DOMAIN s = inst.fields /\ DOMAIN c = inst.fields
      /\ f \in TopicParameters /\ s[f] # Nil /\ s[f] # c[f]
      /\ \A g \in inst.fields : g \in TopicParameters /\ s[g] # Wrong
  <2>1. ParametersOf(kind) = TopicParameters
    BY ZenonT(60) DEF ParametersOf, PolicyKinds
  <2>2. ASSUME NEW g \in inst.fields PROVE g \in TopicParameters /\ s[g] # Wrong
    BY ZenonT(60), <2>1, <2>2, DiffersMeans, NotWrong DEF TopicParameters, TopicNames
  <2> QED
    BY ZenonT(60), <2>1, <2>2, DiffersMeans
<1>2. \/ TopicIsUpToDate(s, c)
      \/ u.call = "none"
      \/ u.call = "patch" /\ PubSubRefuses(u.set)
      \/ u.call = "patch" /\ \A g \in inst.fields \cap DOMAIN u.set : u.set[g] = c[g]
  <2> DEFINE v == TopicUpdate(new, c)
             seen == ObserveOf(kind, s, standing)
  <2>1. seen.spec = new /\ seen.mem = new /\ (seen.upToDate <=> TopicIsUpToDate(new, c))
    BY ZenonT(60) DEF ObserveOf, PolicyKinds, TopicObserve, Seen
  <2>2. v = UpdateOf(kind, new, c)
    BY ZenonT(60) DEF UpdateOf, PolicyKinds
  <2>3. Refused(v.set) => PubSubRefuses(v.set)
    BY ZenonT(60) DEF Refused, Refuses, PolicyKinds
  <2> HIDE DEF new, v
  <2>4. /\ new = s
        /\ \/ seen.upToDate
           \/ v.call = "none"
           \/ v.call = "patch" /\ Refused(v.set)
           \/ v.call = "patch" /\ \A g \in inst.fields \cap DOMAIN v.set : v.set[g] = c[g]
    BY SMTT(60), <2>1, <2>2, RestMeans
  <2> QED
    BY ZenonT(60), <2>1, <2>3, <2>4 DEF v
<1>3. TopicObserved(c)[f] \in {c[f], Nil}
  BY ZenonT(60), <1>1 DEF TopicObserved
<1>4. ~TopicIsUpToDate(s, c)
  BY ZenonT(60), <1>1, <1>3 DEF TopicIsUpToDate
<1>5. SUFFICES ASSUME f # "KmsKeyName" PROVE FALSE
  BY ZenonT(60) DEF Excused, Immovable
<1>6. f \in mask
  BY ZenonT(60), <1>1, <1>3, <1>5 DEF TopicUpdateMask, TopicParameters
<1>7. DOMAIN gen = inst.fields /\ \A g \in inst.fields : gen[g] = ValueOf(s[g])
  BY ZenonT(60), <1>1 DEF GenerateTopic, Generated, Nothing, ValueOf
<1> HIDE DEF gen, mask
<1>8. /\ f \in DOMAIN set /\ DOMAIN set \subseteq inst.fields
      /\ \A g \in DOMAIN set : set[g] = ValueOf(s[g])
  BY ZenonT(60), <1>6, <1>7 DEF Masked, Restricted
<1>9. u.call = "patch" /\ u.set = set
  BY ZenonT(60) DEF TopicUpdate, Patch, gen, mask
<1> HIDE DEF set, u
<1>10. ~PubSubRefuses(set)
  BY ZenonT(60), <1>1, <1>8, NamesAssumption, ValuesAssumption DEF PubSubRefuses, ValueOf
<1> QED
  BY ZenonT(60), <1>1, <1>2, <1>4, <1>8, <1>9, <1>10 DEF ValueOf

\* Observe has qualified the name of the dead letter topic in memory; Update
\* does not send it.
LEMMA SubscriptionAgrees ==
    ASSUME AtRest, kind = "Subscription", NEW f \in inst.fields, Differs(f)
    PROVE  Excused(f)
<1> DEFINE s == kube.spec
           c == standing.conf
           new == SubscriptionLateInitialize(s, c)
           mem == QualifiedInPlace(s)
           mask == SubscriptionUpdateMask(mem, c)
           gen == [g \in DOMAIN mem |-> ValueOf(mem[g])]
           set == Masked(gen, mask)
           u == SubscriptionUpdate(mem, c)
<1>0. SUFFICES ASSUME f \notin {"DeadLetterPolicy", "EnableMessageOrdering", "Topic"} PROVE FALSE
  BY ZenonT(60) DEF Excused, Immovable
<1>1. /\ DOMAIN s = inst.fields /\ DOMAIN c = inst.fields
      /\ s[f] # Nil /\ s[f] # c[f]
      /\ \A g \in inst.fields : g \notin TopicNames => s[g] # Wrong
  <2>1. ASSUME NEW g \in inst.fields, g \notin TopicNames PROVE s[g] # Wrong
    BY ZenonT(60), <2>1, DiffersMeans, NotWrong
  <2> QED
    BY ZenonT(60), <2>1, DiffersMeans
<1>2. \/ SubscriptionIsUpToDate(s, c)
      \/ u.call = "none"
      \/ u.call = "patch" /\ PubSubRefuses(u.set)
      \/ u.call = "patch" /\ \A g \in inst.fields \cap DOMAIN u.set : u.set[g] = c[g]
  <2> DEFINE m == QualifiedInPlace(new)
             v == SubscriptionUpdate(m, c)
             seen == ObserveOf(kind, s, standing)
  <2>1. seen.spec = new /\ seen.mem = m /\ (seen.upToDate <=> SubscriptionIsUpToDate(new, c))
    BY ZenonT(60) DEF ObserveOf, PolicyKinds, SubscriptionObserve, Seen
  <2>2. v = UpdateOf(kind, m, c)
    BY ZenonT(60) DEF UpdateOf, PolicyKinds
  <2>3. Refused(v.set) => PubSubRefuses(v.set)
    BY ZenonT(60) DEF Refused, Refuses, PolicyKinds
  <2> HIDE DEF new, v, m
  <2>4. /\ new = s
        /\ \/ seen.upToDate
           \/ v.call = "none"
           \/ v.call = "patch" /\ Refused(v.set)
           \/ v.call = "patch" /\ \A g \in inst.fields \cap DOMAIN v.set : v.set[g] = c[g]
    BY SMTT(60), <2>1, <2>2, RestMeans
  <2> QED
    BY ZenonT(60), <2>1, <2>3, <2>4 DEF v, m
<1>3. SubscriptionObserved(c)[f] \in {c[f], Nil}
  BY ZenonT(60), <1>1 DEF SubscriptionObserved
<1>4. ~SubscriptionIsUpToDate(s, c)
  BY ZenonT(60), <1>0, <1>1, <1>3 DEF SubscriptionIsUpToDate, TopicNames
<1>5. DOMAIN mem = inst.fields /\ \A g \in inst.fields : g # "DeadLetterPolicy" => mem[g] = s[g]
  BY ZenonT(60), <1>1 DEF QualifiedInPlace
<1>6. f \in mask /\ mask \cap TopicNames = {}
  BY ZenonT(60), <1>0, <1>1, <1>3, <1>5 DEF SubscriptionUpdateMask, TopicNames
<1>7. u.call = "patch" /\ u.set = set
  BY ZenonT(60) DEF SubscriptionUpdate, Patch
<1> HIDE DEF mask, mem
<1>8. /\ f \in DOMAIN set /\ DOMAIN set \subseteq inst.fields \ TopicNames
      /\ \A g \in DOMAIN set : set[g] = ValueOf(s[g])
  BY ZenonT(60), <1>5, <1>6 DEF Masked, Restricted, TopicNames
<1> HIDE DEF set, u
<1>9. ~PubSubRefuses(set)
  BY ZenonT(60), <1>1, <1>8, NamesAssumption, ValuesAssumption DEF PubSubRefuses, ValueOf
<1> QED
  BY ZenonT(60), <1>1, <1>2, <1>4, <1>7, <1>8, <1>9 DEF ValueOf

\* A CloudMemorystoreInstance at rest: the settings of the mask agree.
LEMMA CloudMemorystoreAgrees ==
    ASSUME AtRest, kind = "CloudMemorystoreInstance", NEW f \in inst.fields, Differs(f)
    PROVE  Excused(f)
<1> DEFINE s == kube.spec
           c == standing.conf
           new == CloudMemorystoreLateInitialize(s, c)
           gen == GenerateRedisInstance(s)
           set == Masked(gen, CloudMemorystoreUpdateMask)
           u == CloudMemorystoreUpdate(s)
<1>0. SUFFICES ASSUME f \in CloudMemorystoreUpdateMask PROVE FALSE
  BY ZenonT(60) DEF Excused, Immovable
<1>1. DOMAIN s = inst.fields /\ s[f] # Nil /\ s[f] # c[f]
  BY ZenonT(60), DiffersMeans
<1>2. \/ CloudMemorystoreIsUpToDate(s, c)
      \/ u.call = "none"
      \/ u.call = "patch" /\ \A g \in inst.fields \cap DOMAIN u.set : u.set[g] = c[g]
  <2> DEFINE v == CloudMemorystoreUpdate(new)
             seen == ObserveOf(kind, s, standing)
  <2>1. seen.spec = new /\ seen.mem = new /\ (seen.upToDate <=> CloudMemorystoreIsUpToDate(new, c))
    BY ZenonT(60) DEF ObserveOf, PolicyKinds, CloudMemorystoreObserve, Seen
  <2>2. v = UpdateOf(kind, new, c)
    BY ZenonT(60) DEF UpdateOf, PolicyKinds
  <2>3. ~Refused(v.set)
    BY ZenonT(60) DEF Refused, Refuses, PolicyKinds
  <2> HIDE DEF new, v
  <2>4. /\ new = s
        /\ \/ seen.upToDate
           \/ v.call = "none"
           \/ v.call = "patch" /\ Refused(v.set)
           \/ v.call = "patch" /\ \A g \in inst.fields \cap DOMAIN v.set : v.set[g] = c[g]
    BY SMTT(60), <2>1, <2>2, RestMeans
  <2> QED
    BY ZenonT(60), <2>1, <2>3, <2>4 DEF v
<1>3. DOMAIN gen = inst.fields /\ gen[f] = s[f]
  BY ZenonT(60), <1>1 DEF GenerateRedisInstance, ValueOf
<1>4. ~CloudMemorystoreIsUpToDate(s, c)
  BY ZenonT(60), <1>0, <1>1, <1>3 DEF CloudMemorystoreIsUpToDate
<1>5. u.call = "patch" /\ u.set = set
  BY ZenonT(60) DEF CloudMemorystoreUpdate, Patch
<1> HIDE DEF gen, u
<1>6. f \in DOMAIN set /\ set[f] = s[f]
  BY ZenonT(60), <1>0, <1>3 DEF Masked, Restricted
<1> QED
  BY ZenonT(60), <1>1, <1>2, <1>4, <1>5, <1>6

\* A ServiceAccount at rest: the mask names both of its settings.
LEMMA ServiceAccountAgrees ==
    ASSUME AtRest, kind = "ServiceAccount", NEW f \in inst.fields, Differs(f)
    PROVE  Excused(f)
<1> DEFINE s == kube.spec
           c == standing.conf
           new == s
           gen == [g \in DOMAIN s |-> ValueOf(s[g])]
           set == Masked(gen, ServiceAccountParameters)
           u == ServiceAccountUpdate(s)
<1>1. DOMAIN s = inst.fields /\ s[f] # Nil /\ s[f] # c[f] /\ f \in ServiceAccountParameters
  <2>1. ParametersOf(kind) = ServiceAccountParameters
    BY ZenonT(60) DEF ParametersOf, PolicyKinds
  <2> QED
    BY ZenonT(60), <2>1, DiffersMeans
<1>2. \/ ServiceAccountIsUpToDate(s, c)
      \/ u.call = "none"
      \/ u.call = "patch" /\ \A g \in inst.fields \cap DOMAIN u.set : u.set[g] = c[g]
  <2> DEFINE v == ServiceAccountUpdate(new)
             seen == ObserveOf(kind, s, standing)
  <2>1. seen.spec = new /\ seen.mem = new /\ (seen.upToDate <=> ServiceAccountIsUpToDate(new, c))
    BY ZenonT(60) DEF ObserveOf, PolicyKinds, ServiceAccountObserve, Seen
  <2>2. v = UpdateOf(kind, new, c)
    BY ZenonT(60) DEF UpdateOf, PolicyKinds
  <2>3. ~Refused(v.set)
    BY ZenonT(60) DEF Refused, Refuses, PolicyKinds
  <2> HIDE DEF new, v
  <2>4. /\ new = s
        /\ \/ seen.upToDate
           \/ v.call = "none"
           \/ v.call = "patch" /\ Refused(v.set)
           \/ v.call = "patch" /\ \A g \in inst.fields \cap DOMAIN v.set : v.set[g] = c[g]
    BY SMTT(60), <2>1, <2>2, RestMeans
  <2> QED
    BY ZenonT(60), <2>1, <2>3, <2>4 DEF v
<1>3. ~ServiceAccountIsUpToDate(s, c)
  BY ZenonT(60), <1>1 DEF ServiceAccountIsUpToDate
<1>4. u.call = "patch" /\ u.set = set
  BY ZenonT(60) DEF ServiceAccountUpdate, Patch
<1>5. f \in DOMAIN set /\ set[f] = s[f]
  BY ZenonT(60), <1>1 DEF Masked, Restricted, ValueOf
<1> HIDE DEF set, u
<1> QED
  BY ZenonT(60), <1>1, <1>2, <1>3, <1>4, <1>5

\* A ResourceRecordSet at rest: all of it is compared and sent.
LEMMA ResourceRecordSetAgrees ==
    ASSUME AtRest, kind = "ResourceRecordSet", NEW f \in inst.fields, Differs(f)
    PROVE  Excused(f)
<1> DEFINE s == kube.spec
           c == standing.conf
           new == ResourceRecordSetLateInitialize(s, c)
           gen == GenerateResourceRecordSet(s, Nothing(s))
           set == Body(gen, {})
           u == ResourceRecordSetUpdate(s)
<1>1. DOMAIN s = inst.fields /\ s[f] # Zero /\ s[f] # c[f]
  <2>1. ParametersOf(kind) = ResourceRecordSetPlain /\ PlainOf(kind) = ResourceRecordSetPlain
    BY ZenonT(60) DEF ParametersOf, PlainOf, PolicyKinds, ResourceRecordSetPlain
  <2> QED
    BY ZenonT(60), <2>1, DiffersMeans DEF IsSet, Unset
<1>2. \/ ResourceRecordSetIsUpToDate(s, c)
      \/ u.call = "none"
      \/ u.call = "patch" /\ \A g \in inst.fields \cap DOMAIN u.set : u.set[g] = c[g]
  <2> DEFINE v == ResourceRecordSetUpdate(new)
             seen == ObserveOf(kind, s, standing)
  <2>1. seen.spec = new /\ seen.mem = new /\ (seen.upToDate <=> ResourceRecordSetIsUpToDate(new, c))
    BY ZenonT(60) DEF ObserveOf, PolicyKinds, ResourceRecordSetObserve, Seen
  <2>2. v = UpdateOf(kind, new, c)
    BY ZenonT(60) DEF UpdateOf, PolicyKinds
  <2>3. ~Refused(v.set)
    BY ZenonT(60) DEF Refused, Refuses, PolicyKinds
  <2> HIDE DEF new, v
  <2>4. /\ new = s
        /\ \/ seen.upToDate
           \/ v.call = "none"
           \/ v.call = "patch" /\ Refused(v.set)
           \/ v.call = "patch" /\ \A g \in inst.fields \cap DOMAIN v.set : v.set[g] = c[g]
    BY SMTT(60), <2>1, <2>2, RestMeans
  <2> QED
    BY ZenonT(60), <2>1, <2>3, <2>4 DEF v
<1>3. /\ DOMAIN gen = inst.fields /\ gen[f] = s[f]
      /\ GenerateResourceRecordSet(s, c)[f] = s[f]
  BY ZenonT(60), <1>1 DEF GenerateResourceRecordSet
<1>4. ~ResourceRecordSetIsUpToDate(s, c)
  BY ZenonT(60), <1>1, <1>3 DEF ResourceRecordSetIsUpToDate
<1>5. u.call = "patch" /\ u.set = set
  BY ZenonT(60) DEF ResourceRecordSetUpdate, Patch
<1> HIDE DEF gen, u
<1>6. f \in DOMAIN set /\ set[f] = s[f]
  BY ZenonT(60), <1>1, <1>3 DEF Body, Restricted
<1> QED
  BY ZenonT(60), <1>1, <1>2, <1>4, <1>5, <1>6

\* A Connection at rest: the ranges are sent even when there are none.
LEMMA ConnectionAgrees ==
    ASSUME AtRest, kind = "Connection", NEW f \in inst.fields, Differs(f)
    PROVE  Excused(f)
<1> DEFINE s == kube.spec
           c == standing.conf
           new == s
           set == FromParameters(s)
           u == ConnectionUpdate(s)
<1>1. DOMAIN s = inst.fields /\ s[f] # Nil /\ s[f] # c[f] /\ f = "ReservedPeeringRanges"
  <2>1. ParametersOf(kind) = ConnectionParameters /\ PlaceField(kind) = "Parent/Network"
    BY ZenonT(60) DEF ParametersOf, PolicyKinds, PlaceField
  <2> QED
    BY ZenonT(60), <2>1, DiffersMeans DEF ConnectionParameters
<1>2. \/ ConnectionIsUpToDate(s, c)
      \/ u.call = "none"
      \/ u.call = "patch" /\ \A g \in inst.fields \cap DOMAIN u.set : u.set[g] = c[g]
  <2> DEFINE v == ConnectionUpdate(new)
             seen == ObserveOf(kind, s, standing)
  <2>1. seen.spec = new /\ seen.mem = new /\ (seen.upToDate <=> ConnectionIsUpToDate(new, c))
    BY ZenonT(60) DEF ObserveOf, PolicyKinds, ConnectionObserve, Seen
  <2>2. v = UpdateOf(kind, new, c)
    BY ZenonT(60) DEF UpdateOf, PolicyKinds
  <2>3. ~Refused(v.set)
    BY ZenonT(60) DEF Refused, Refuses, PolicyKinds
  <2> HIDE DEF new, v
  <2>4. /\ new = s
        /\ \/ seen.upToDate
           \/ v.call = "none"
           \/ v.call = "patch" /\ Refused(v.set)
           \/ v.call = "patch" /\ \A g \in inst.fields \cap DOMAIN v.set : v.set[g] = c[g]
    BY SMTT(60), <2>1, <2>2, RestMeans
  <2> QED
    BY ZenonT(60), <2>1, <2>3, <2>4 DEF v
<1>3. ~ConnectionIsUpToDate(s, c)
  BY ZenonT(60), <1>1 DEF ConnectionIsUpToDate
<1>4. u.call = "patch" /\ u.set = set
  BY ZenonT(60) DEF ConnectionUpdate, Patch
<1>5. f \in DOMAIN set /\ set[f] = s[f]
  BY ZenonT(60), <1>1 DEF FromParameters, Body, Restricted, ValueOf
<1> HIDE DEF set, u
<1> QED
  BY ZenonT(60), <1>1, <1>2, <1>3, <1>4, <1>5

\* A policy at rest: Update replaces the whole of it.
LEMMA PolicyAgrees ==
    ASSUME AtRest, kind \in PolicyKinds, NEW f \in inst.fields, Differs(f)
    PROVE  Excused(f)
<1> DEFINE s == kube.spec
           c == standing.conf
           new == s
           set == GeneratePolicyInstance(s)
           u == PolicyUpdate(s, c)
<1>1. /\ DOMAIN s = inst.fields /\ DOMAIN c = inst.fields
      /\ s[f] # Nil /\ s[f] # c[f] /\ f \in Policy
  <2>1. ParametersOf(kind) \subseteq Policy \cup {PlaceField(kind)}
    BY ZenonT(60) DEF ParametersOf, PolicyKinds, PlaceField, CryptoKeyPolicyParameters,
           ServiceAccountPolicyParameters
  <2> QED
    BY ZenonT(60), <2>1, DiffersMeans
<1>2. \/ PolicyIsUpToDate(s, c)
      \/ u.call = "none"
      \/ u.call = "patch" /\ \A g \in inst.fields \cap DOMAIN u.set : u.set[g] = c[g]
  <2> DEFINE v == PolicyUpdate(new, c)
             seen == ObserveOf(kind, s, standing)
  <2>1. seen.spec = new /\ seen.mem = new /\ (seen.upToDate <=> PolicyIsUpToDate(new, c))
    BY ZenonT(60) DEF ObserveOf, PolicyKinds, PolicyObserve, Seen
  <2>2. v = UpdateOf(kind, new, c)
    BY ZenonT(60) DEF UpdateOf, PolicyKinds
  <2>3. ~Refused(v.set)
    BY ZenonT(60) DEF Refused, Refuses, PolicyKinds
  <2> HIDE DEF new, v
  <2>4. /\ new = s
        /\ \/ seen.upToDate
           \/ v.call = "none"
           \/ v.call = "patch" /\ Refused(v.set)
           \/ v.call = "patch" /\ \A g \in inst.fields \cap DOMAIN v.set : v.set[g] = c[g]
    BY SMTT(60), <2>1, <2>2, RestMeans
  <2> QED
    BY ZenonT(60), <2>1, <2>3, <2>4 DEF v
<1>3. DOMAIN set = inst.fields /\ set[f] = s[f]
  BY ZenonT(60), <1>1 DEF GeneratePolicyInstance, ValueOf
<1>4. ~PolicyIsUpToDate(s, c)
  BY ZenonT(60), <1>1, <1>3 DEF PolicyIsUpToDate
<1>5. u.call = "patch" /\ u.set = set
  BY ZenonT(60), <1>4 DEF PolicyUpdate, Patch
<1> HIDE DEF set, u
<1> QED
  BY ZenonT(60), <1>1, <1>2, <1>3, <1>4, <1>5

\* A setting of the bucket that is sent is one the storage client keeps.
LEMMA BucketAgrees ==
    ASSUME AtRest, kind = "Bucket", NEW f \in inst.fields, Differs(f)
    PROVE  Excused(f)
<1> DEFINE s == kube.spec
           c == standing.conf
           new == BucketLateInitialize(s, c)
           gen == CopyToBucketAttrs(s)
           labels == {g \in DOMAIN c \cap BucketLabels : c[g] # Zero}
           sent == CopyToBucketUpdateAttrs(s, labels)
           set == BucketKeeps(sent)
           u == BucketUpdate(s, c)
<1>0. SUFFICES ASSUME f \in BucketUpdatableAttrs \ PredefinedACLs PROVE FALSE
  BY ZenonT(60) DEF Excused, Immovable
<1>1. /\ DOMAIN s = inst.fields /\ DOMAIN c = inst.fields
      /\ s[f] # Nil /\ s[f] # Zero /\ s[f] # c[f]
  BY ZenonT(60), DiffersMeans DEF IsSet
<1>2. \/ BucketIsUpToDate(s, c)
      \/ u.call = "none"
      \/ u.call = "patch" /\ \A g \in inst.fields \cap DOMAIN u.set : u.set[g] = c[g]
  <2> DEFINE v == BucketUpdate(new, c)
             seen == ObserveOf(kind, s, standing)
  <2>1. seen.spec = new /\ seen.mem = new /\ (seen.upToDate <=> BucketIsUpToDate(new, c))
    BY ZenonT(60) DEF ObserveOf, PolicyKinds, BucketObserve, Seen
  <2>2. v = UpdateOf(kind, new, c)
    BY ZenonT(60) DEF UpdateOf, PolicyKinds
  <2>3. ~Refused(v.set)
    BY ZenonT(60) DEF Refused, Refuses, PolicyKinds
  <2> HIDE DEF new, v
  <2>4. /\ new = s
        /\ \/ seen.upToDate
           \/ v.call = "none"
           \/ v.call = "patch" /\ Refused(v.set)
           \/ v.call = "patch" /\ \A g \in inst.fields \cap DOMAIN v.set : v.set[g] = c[g]
    BY SMTT(60), <2>1, <2>2, RestMeans
  <2> QED
    BY ZenonT(60), <2>1, <2>3, <2>4 DEF v
<1>3. NewBucketUpdatableAttrs(c)[f] \in {c[f], Nil}
  BY ZenonT(60), <1>0, <1>1 DEF NewBucketUpdatableAttrs, NewRetentionPolicy,
     NewBucketPolicyOnly
<1>4. ~BucketIsUpToDate(s, c)
  BY ZenonT(60), <1>0, <1>1, <1>3 DEF BucketIsUpToDate, Restricted
<1>5. DOMAIN gen = inst.fields /\ gen[f] = s[f]
  BY ZenonT(60), <1>1 DEF CopyToBucketAttrs, CopyToRetentionPolicy,
     CopyToBucketPolicyOnly, ValueOf
<1> HIDE DEF gen, labels
<1>6. f \in DOMAIN sent /\ sent[f] = s[f]
  BY ZenonT(60), <1>0, <1>1, <1>5 DEF CopyToBucketUpdateAttrs, Restricted, Unset, gen
<1>7. u.call = "patch" /\ u.set = set
  BY ZenonT(60) DEF BucketUpdate, Patch, labels
<1> HIDE DEF sent, u
<1>8. f \in DOMAIN set /\ set[f] = s[f]
  BY ZenonT(60), <1>0, <1>6 DEF BucketKeeps, Restricted
<1> QED
  BY ZenonT(60), <1>1, <1>2, <1>4, <1>7, <1>8

\* A patch of a key is refused because one of its immutable settings differs.
LEMMA CryptoKeyAgrees ==
    ASSUME AtRest, kind = "CryptoKey", NEW f \in inst.fields, Differs(f)
    PROVE  Excused(f)
<1> DEFINE s == kube.spec
           c == standing.conf
           new == CryptoKeyLateInitialize(s, c)
           gen == GenerateCryptoKeyInstance(s, c)
           mask == CryptoKeyUpdateMask(s, c)
           set == Masked(gen, mask)
           u == CryptoKeyUpdate(s, c)
<1>1. /\ DOMAIN s = inst.fields
      /\ \A g \in inst.fields :
            /\ g \in CryptoKeyParameters
            /\ Differs(g) <=> s[g] # Nil /\ ~Unset(g, s[g], CryptoKeyPlain) /\ s[g] # c[g]
            /\ s[g] \in SpecValues(kind, g) /\ c[g] # Nil
  <2>1. /\ ParametersOf(kind) = CryptoKeyParameters /\ PlainOf(kind) = CryptoKeyPlain
        /\ kind \notin InNetwork
    BY ZenonT(60) DEF ParametersOf, PlainOf, PolicyKinds, InNetwork
  <2> QED
    BY ZenonT(60), <2>1, DiffersMeans DEF IsSet
<1>2. /\ new = s
      /\ \/ mask = {}
         \/ u.call = "none"
         \/ u.call = "patch" /\ CryptoKeyRefuses(u.set)
         \/ u.call = "patch" /\ \A g \in inst.fields \cap DOMAIN u.set : u.set[g] = c[g]
  <2> DEFINE v == CryptoKeyUpdate(new, c)
             seen == ObserveOf(kind, s, standing)
  <2>1. seen.spec = new /\ seen.mem = new /\ (seen.upToDate <=> CryptoKeyUpdateMask(new, c) = {})
    BY ZenonT(60) DEF ObserveOf, PolicyKinds, CryptoKeyObserve, Seen
  <2>2. v = UpdateOf(kind, new, c)
    BY ZenonT(60) DEF UpdateOf, PolicyKinds
  <2>3. Refused(v.set) => CryptoKeyRefuses(v.set)
    BY ZenonT(60) DEF Refused, Refuses, PolicyKinds
  <2> HIDE DEF new, v
  <2>4. /\ new = s
        /\ \/ seen.upToDate
           \/ v.call = "none"
           \/ v.call = "patch" /\ Refused(v.set)
           \/ v.call = "patch" /\ \A g \in inst.fields \cap DOMAIN v.set : v.set[g] = c[g]
    BY SMTT(60), <2>1, <2>2, RestMeans
  <2> QED
    BY ZenonT(60), <2>1, <2>3, <2>4 DEF v
<1>3. /\ DOMAIN gen = inst.fields /\ mask = {g \in inst.fields : gen[g] # c[g]}
      /\ \A g \in inst.fields : s[g] # Nil => gen[g] = s[g]
  BY ZenonT(60), <1>1 DEF GenerateCryptoKeyInstance, CryptoKeyUpdateMask, Generated, ValueOf
<1>4. f \in mask
  BY ZenonT(60), <1>1, <1>3
<1>5. u.call = "panic" \/ (u.call = "patch" /\ u.set = set)
  BY ZenonT(60), <1>4 DEF CryptoKeyUpdate, NilDereference, Patch
<1>6. ASSUME NEW g \in mask \cap CryptoKeyImmutable PROVE Differs(g)
  <2>1. CASE g = "Purpose"
    <3>1. s[g] # Nil /\ s[g] # Zero
      <4>1. /\ PlaceField(kind) = "KeyRing" /\ g \in PlainOf(kind) /\ g \in NeverZero
            /\ g \notin Booleans
        BY ZenonT(60), <2>1 DEF PlaceField, PlainOf, PolicyKinds, CryptoKeyPlain,
           NeverZero, Booleans
      <4> QED
        BY ZenonT(60), <1>1, <1>3, <2>1, <4>1, ValuesAssumption
        DEF SpecValues, WrittenValues, ConfValues, InNetwork
    <3> QED
      BY ZenonT(60), <1>1, <1>3, <3>1 DEF Unset
  <2>2. CASE g = "ProtectionLevel"
    <3>1. s[g] # Nil
      <4>1. SUFFICES ASSUME s[g] = Nil PROVE gen[g] = c[g]
        BY ZenonT(60), <1>3
      <4>2. new[g] = IF c[g] # Zero THEN c[g] ELSE s[g]
        BY ZenonT(60), <1>1, <1>3, <2>2, <4>1
        DEF CryptoKeyLateInitialize, FillUnset, Unset, CryptoKeyVersionTemplate
      <4>3. c[g] = Zero
        BY ZenonT(60), <1>1, <1>2, <1>3, <4>1, <4>2
      <4>4. gen[g] \in {Zero, c[g]}
        BY ZenonT(60), <1>1, <1>3, <4>1 DEF GenerateCryptoKeyInstance, Generated, ValueOf
      <4> QED
        BY ZenonT(60), <4>3, <4>4
    <3> QED
      BY ZenonT(60), <1>1, <1>3, <2>2, <3>1 DEF Unset, CryptoKeyPlain
  <2> QED
    BY ZenonT(60), <2>1, <2>2 DEF CryptoKeyImmutable
<1> HIDE DEF gen, mask, u, new
<1>7. DOMAIN set = mask /\ set[f] = gen[f] /\ mask \subseteq inst.fields
  BY ZenonT(60), <1>3, <1>4 DEF Masked, Restricted
<1> HIDE DEF set
<1>8. CASE mask \cap CryptoKeyImmutable # {}
  <2>1. PICK g \in mask \cap CryptoKeyImmutable : TRUE
    BY ZenonT(60), <1>8
  <2>2. g \in inst.fields /\ Immovable(g) /\ Differs(g)
    BY ZenonT(60), <1>6, <1>7, <2>1 DEF Immovable
  <2> QED
    BY ZenonT(60), <2>2 DEF Excused
<1>9. CASE mask \cap CryptoKeyImmutable = {}
  BY ZenonT(60), <1>2, <1>3, <1>4, <1>5, <1>7, <1>9 DEF CryptoKeyRefuses
<1> QED
  BY ZenonT(60), <1>8, <1>9

\* All the kinds.
LEMMA RestAgrees ==
    ASSUME AtRest, NEW f \in inst.fields, Differs(f)
    PROVE  Excused(f)
<1>1. kind \in Kinds
  BY ZenonT(60), DiffersMeans
<1>2. kind \in {"GlobalAddress", "KeyRing"} => Excused(f)
  BY ZenonT(60) DEF Excused, Immovable
<1>3. kind \in {"Network", "Subnetwork", "Firewall", "Router"} => Excused(f)
  BY ZenonT(60), NetworkAgrees, SubnetworkAgrees, FirewallAgrees, RouterAgrees
<1>4. kind \in {"Topic", "Subscription", "CloudMemorystoreInstance", "ServiceAccount"}
        => Excused(f)
  BY ZenonT(60), TopicAgrees, SubscriptionAgrees, CloudMemorystoreAgrees,
     ServiceAccountAgrees
<1>5. kind \in {"CryptoKey", "ResourceRecordSet", "Connection", "Bucket"} \cup PolicyKinds
        => Excused(f)
  BY ZenonT(60), CryptoKeyAgrees, ResourceRecordSetAgrees, ConnectionAgrees, BucketAgrees,
     PolicyAgrees
<1> HIDE DEF Excused
<1> QED
  BY ZenonT(60), <1>1, <1>2, <1>3, <1>4, <1>5 DEF Kinds

(***************************************************************************)
(* What Observe makes of a spec: it stays a spec, what people set and it   *)
(* does not overrule is left alone, and what is not set afterwards is not  *)
(* set in GCP either.                                                      *)
(***************************************************************************)

Sees(seen, spec, conf) ==
    /\ seen.spec \in SpecsOf(inst) /\ seen.mem \in SpecsOf(inst)
    /\ seen.ready \in Readies /\ seen.upToDate \in BOOLEAN
    /\ \A f \in inst.fields :
          /\ IsSet(f, spec[f]) /\ ~Overruled(f, spec[f])
                => seen.spec[f] = spec[f] /\ seen.mem[f] = spec[f]
          /\ ~Overruled(f, seen.spec[f]) => seen.mem[f] = seen.spec[f]
    /\ KeepsTheRest /\ kind # "ResourceRecordSet" => Filled(seen.mem, conf)

\* One field of a spec filled in from GCP.
LEMMA FillPoint ==
    ASSUME inst \in Instances, NEW spec \in SpecsOf(inst), NEW conf \in Confs[inst],
           NEW plain, NEW fs, NEW f \in inst.fields
    PROVE  LET filled == FillUnset(spec, conf, plain, fs)
           IN  /\ filled = [g \in inst.fields |-> filled[g]]
               /\ filled[f] \in SpecValues(kind, f)
               /\ ~Unset(f, spec[f], plain) => filled[f] = spec[f]
               /\ f \in fs /\ Unset(f, filled[f], plain) => conf[f] = Zero
<1>1. DOMAIN spec = inst.fields /\ spec[f] \in SpecValues(kind, f)
  BY ZenonT(60), SpecElim DEF kind
<1>2. conf[f] \in ConfValues(kind, f)
  BY ZenonT(60), ConfElim DEF kind
<1>3. conf[f] \in SpecValues(kind, f)
  BY ZenonT(60), <1>2 DEF SpecValues
<1> DEFINE filled == FillUnset(spec, conf, plain, fs)
<1>4. filled = [g \in inst.fields |->
                  IF g \in fs /\ Unset(g, spec[g], plain) /\ conf[g] # Zero
                  THEN conf[g] ELSE spec[g]]
  BY ZenonT(60), <1>1 DEF FillUnset
<1>5. filled[f] = IF f \in fs /\ Unset(f, spec[f], plain) /\ conf[f] # Zero
                  THEN conf[f] ELSE spec[f]
  BY ZenonT(60), <1>4
<1>6. filled = [g \in inst.fields |-> filled[g]]
  BY ZenonT(60), <1>4
<1> HIDE DEF filled
<1>0. conf[f] # Nil
  BY ZenonT(60), <1>2, ConfNotNil, InstancesAssumption DEF kind
<1>7. /\ filled[f] \in SpecValues(kind, f)
      /\ ~Unset(f, spec[f], plain) => filled[f] = spec[f]
      /\ f \in fs /\ Unset(f, filled[f], plain) => conf[f] = Zero
  BY ZenonT(60), <1>0, <1>1, <1>3, <1>5 DEF Unset
<1> QED
  BY ZenonT(60), <1>6, <1>7 DEF filled

\* The kinds that fill in all their fields the same way.
LEMMA FillSees ==
    ASSUME inst \in Instances, NEW spec \in SpecsOf(inst), NEW conf \in Confs[inst],
           kind # "Bucket", NEW ready \in Readies, NEW upToDate \in BOOLEAN,
           NEW filled, filled = FillUnset(spec, conf, PlainOf(kind), ParametersOf(kind))
    PROVE  Sees(Seen(filled, filled, ready, upToDate), spec, conf)
<1>1. inst.fields \subseteq ParametersOf(kind)
  BY ZenonT(60), InstancesAssumption DEF kind
<1>2. \A f \in inst.fields :
         /\ filled[f] \in SpecValues(kind, f)
         /\ ~Unset(f, spec[f], PlainOf(kind)) => filled[f] = spec[f]
         /\ Unset(f, filled[f], PlainOf(kind)) => conf[f] = Zero
  BY SMTT(60), <1>1, FillPoint
<1>3. filled = [g \in inst.fields |-> filled[g]]
  BY ZenonT(60), SpecElim DEF FillUnset
<1>4. filled \in SpecsOf(inst)
  BY ZenonT(60), <1>2, <1>3, SpecIntro DEF kind
<1> QED
  BY ZenonT(60), <1>2, <1>4 DEF Sees, Seen, IsSet, Filled

\* A kind whose Observe leaves the spec alone.
LEMMA SameSees ==
    ASSUME inst \in Instances, NEW spec \in SpecsOf(inst), NEW conf,
           NEW ready \in Readies, NEW upToDate \in BOOLEAN,
           KeepsTheRest /\ kind # "ResourceRecordSet" => Filled(spec, conf)
    PROVE  Sees(Seen(spec, spec, ready, upToDate), spec, conf)
BY ZenonT(60) DEF Sees, Seen

\* A kind that late-initializes field by field.
LEMMA PointSees ==
    ASSUME inst \in Instances, NEW spec \in SpecsOf(inst), NEW conf,
           NEW ready \in Readies, NEW upToDate \in BOOLEAN,
           NEW filled, filled = [f \in inst.fields |-> filled[f]],
           \A f \in inst.fields :
              /\ filled[f] \in SpecValues(kind, f)
              /\ IsSet(f, spec[f]) /\ ~Overruled(f, spec[f]) => filled[f] = spec[f]
              /\ KeepsTheRest /\ kind # "ResourceRecordSet"
                    => IsSet(f, filled[f]) \/ conf[f] = Zero
    PROVE  Sees(Seen(filled, filled, ready, upToDate), spec, conf)
<1>1. filled \in SpecsOf(inst)
  BY ZenonT(60), SpecIntro DEF kind
<1> QED
  BY ZenonT(60), <1>1 DEF Sees, Seen, Filled

\* A place is always set.
LEMMA PlaceIsSet ==
    ASSUME inst \in Instances, NEW spec \in SpecsOf(inst), NEW f \in inst.fields,
           f = PlaceField(kind)
    PROVE  IsSet(f, spec[f])
<1>1. spec[f] \in Places
  BY SMTT(60), SpecElim, PlaceValues, InstancesAssumption DEF kind
<1> QED
  BY ZenonT(60), <1>1, PlacesAssumption, ValuesAssumption DEF IsSet, Unset

\* A field that has to have a value is always set in the spec of a CryptoKey.
LEMMA PurposeIsSet ==
    ASSUME inst \in Instances, NEW spec \in SpecsOf(inst), kind = "CryptoKey",
           "Purpose" \in inst.fields
    PROVE  IsSet("Purpose", spec["Purpose"])
<1>1. kind \in Kinds /\ spec["Purpose"] \in SpecValues(kind, "Purpose")
  BY ZenonT(60), SpecElim, InstancesAssumption DEF kind
<1>2. "Purpose" \in PlainOf(kind) /\ Ordinary(kind, "Purpose") /\ PlaceField(kind) # "Purpose"
  BY ZenonT(60) DEF PlainOf, CryptoKeyPlain, Ordinary, PlaceField, InNetwork, PolicyKinds
<1>3. spec["Purpose"] # Nil
  BY ZenonT(60), <1>1, <1>2, NilValues
<1>4. spec["Purpose"] \in ConfValues(kind, "Purpose")
  BY ZenonT(60), <1>1, <1>2, <1>3, OrdinaryValues
<1>5. spec["Purpose"] # Zero
  BY ZenonT(60), <1>2, <1>4 DEF ConfValues, Booleans, NeverZero
<1> QED
  BY ZenonT(60), <1>3, <1>5 DEF IsSet, Unset

\* Router: Bgp is replaced, the rest filled in.
LEMMA RouterSees ==
    ASSUME inst \in Instances, NEW spec \in SpecsOf(inst), NEW conf \in Confs[inst],
           kind = "Router"
    PROVE  Sees(RouterObserve(spec, conf), spec, conf)
<1> DEFINE new == RouterLateInitialize(spec, conf)
<1> DEFINE fill == FillUnset(spec, conf, RouterPlain, RouterParameters \ {"Region"})
<1>1. kind \in Kinds /\ inst.fields \subseteq RouterParameters
      /\ PlainOf(kind) = RouterPlain /\ PlaceField(kind) = "Region"
  BY ZenonT(60), InstancesAssumption DEF kind, ParametersOf, PlainOf, PlaceField,
     PolicyKinds
<1>2. new = [f \in inst.fields |->
               IF f \in RouterBgp THEN BgpLateInitialize(spec, conf, f) ELSE fill[f]]
  BY ZenonT(60), SpecElim DEF RouterLateInitialize
<1>3. new = [f \in inst.fields |-> new[f]]
  BY ZenonT(60), <1>2
<1>4. ASSUME NEW f \in inst.fields
      PROVE  /\ new[f] \in SpecValues(kind, f)
             /\ IsSet(f, spec[f]) /\ ~Overruled(f, spec[f]) => new[f] = spec[f]
             /\ IsSet(f, new[f]) \/ conf[f] = Zero
  <2>1. CASE f \in RouterBgp
    <3>1. new[f] = BgpLateInitialize(spec, conf, f)
      BY ZenonT(60), <1>2, <2>1
    <3>2. f \notin RouterPlain /\ f # PlaceField(kind) => Nil \in SpecValues(kind, f)
      BY ZenonT(60), <1>1, NilValues
    <3>3. f # PlaceField(kind)
      BY ZenonT(60), <1>1, <2>1 DEF RouterBgp
    <3>4. spec[f] \in SpecValues(kind, f)
      BY ZenonT(60), SpecElim DEF kind
    <3>5. conf[f] \in ConfValues(kind, f) /\ DOMAIN conf = inst.fields
      BY ZenonT(60), ConfElim DEF kind
    <3>6. conf[f] \in SpecValues(kind, f) /\ conf[f] # Nil
      BY ZenonT(60), <1>1, <3>5, ConfNotNil DEF SpecValues
    <3>7. conf[f] # Zero => HasBgp(conf)
      BY ZenonT(60), <2>1, <3>5 DEF HasBgp
    <3>8. new[f] \in SpecValues(kind, f) /\ (conf[f] # Zero => new[f] = conf[f])
      BY ZenonT(60), <3>1, <3>2, <3>3, <3>4, <3>6, <3>7 DEF BgpLateInitialize
    <3> QED
      BY ZenonT(60), <1>1, <2>1, <3>6, <3>8 DEF Overruled, IsSet, Unset
  <2>2. CASE f \notin RouterBgp
    <3>1. new[f] = fill[f]
      BY ZenonT(60), <1>2, <2>2
    <3>2. /\ fill[f] \in SpecValues(kind, f)
          /\ ~Unset(f, spec[f], RouterPlain) => fill[f] = spec[f]
          /\ f # "Region" /\ Unset(f, fill[f], RouterPlain) => conf[f] = Zero
      BY SMTT(60), <1>1, FillPoint
    <3>3. f = "Region" => IsSet(f, spec[f])
      BY ZenonT(60), <1>1, PlaceIsSet
    <3> HIDE DEF new, fill
    <3> QED
      BY ZenonT(60), <1>1, <3>1, <3>2, <3>3 DEF IsSet
  <2> QED
    BY ZenonT(60), <2>1, <2>2
<1>5. RouterIsUpToDate(new, conf) \in BOOLEAN
  BY ZenonT(60) DEF RouterIsUpToDate, SameConf
<1>6. RouterObserve(spec, conf) = Seen(new, new, "Available", RouterIsUpToDate(new, conf))
  BY ZenonT(60) DEF RouterObserve
<1> HIDE DEF new
<1>7. Sees(Seen(new, new, "Available", RouterIsUpToDate(new, conf)), spec, conf)
  BY ZenonT(60), <1>3, <1>4, <1>5, PointSees DEF Readies
<1> QED
  BY ZenonT(60), <1>6, <1>7

\* Subscription: a deadline of 10 seconds is filled in too, and the name of the
\* dead letter topic is qualified in memory.
LEMMA SubscriptionSees ==
    ASSUME inst \in Instances, NEW spec \in SpecsOf(inst), NEW conf \in Confs[inst],
           kind = "Subscription"
    PROVE  Sees(SubscriptionObserve(spec, conf), spec, conf)
<1> DEFINE new == SubscriptionLateInitialize(spec, conf)
<1> DEFINE fill == FillUnset(spec, conf, SubscriptionPlain, SubscriptionParameters)
<1> DEFINE mem == QualifiedInPlace(new)
<1>1. kind \in Kinds /\ inst.fields \subseteq SubscriptionParameters
      /\ PlainOf(kind) = SubscriptionPlain /\ PlaceField(kind) = "none"
  BY ZenonT(60), InstancesAssumption DEF kind, ParametersOf, PlainOf, PlaceField,
     PolicyKinds
<1>2. new = [f \in inst.fields |->
               IF f = "AckDeadlineSeconds" /\ spec[f] = Default /\ conf[f] # Zero
               THEN conf[f] ELSE fill[f]]
  BY ZenonT(60), SpecElim DEF SubscriptionLateInitialize
<1> HIDE DEF new
<1>3. new = [f \in inst.fields |-> new[f]]
  BY ZenonT(60), <1>2
<1>4. ASSUME NEW f \in inst.fields
      PROVE  /\ new[f] \in SpecValues(kind, f)
             /\ IsSet(f, spec[f]) /\ ~Overruled(f, spec[f]) => new[f] = spec[f]
             /\ IsSet(f, new[f]) \/ conf[f] = Zero
  <2>1. conf[f] \in SpecValues(kind, f) /\ conf[f] # Nil
    BY ZenonT(60), <1>1, ConfElim, ConfNotNil DEF SpecValues, kind
  <2>2. /\ fill[f] \in SpecValues(kind, f)
        /\ ~Unset(f, spec[f], SubscriptionPlain) => fill[f] = spec[f]
        /\ Unset(f, fill[f], SubscriptionPlain) => conf[f] = Zero
    BY SMTT(60), <1>1, FillPoint
  <2> HIDE DEF fill
  <2>3. CASE f = "AckDeadlineSeconds" /\ spec[f] = Default /\ conf[f] # Zero
    <3>1. new[f] = conf[f] /\ Overruled(f, spec[f])
      BY ZenonT(60), <1>2, <2>3 DEF Overruled
    <3> QED
      BY ZenonT(60), <2>1, <2>3, <3>1 DEF IsSet, Unset
  <2>4. CASE ~(f = "AckDeadlineSeconds" /\ spec[f] = Default /\ conf[f] # Zero)
    <3>1. new[f] = fill[f]
      BY ZenonT(60), <1>2, <2>4
    <3> QED
      BY ZenonT(60), <1>1, <2>2, <3>1 DEF IsSet
  <2> QED
    BY ZenonT(60), <2>3, <2>4
<1>5. mem = [f \in inst.fields |-> mem[f]]
  BY ZenonT(60), <1>3 DEF QualifiedInPlace
<1>6. ASSUME NEW f \in inst.fields
      PROVE  /\ mem[f] \in SpecValues(kind, f)
             /\ ~Overruled(f, new[f]) => mem[f] = new[f]
             /\ f # "DeadLetterPolicy" => mem[f] = new[f]
             /\ IsSet(f, mem[f]) \/ conf[f] = Zero
  <2>1. mem[f] = IF f = "DeadLetterPolicy" THEN Qualified(new[f]) ELSE new[f]
    BY ZenonT(60), <1>3 DEF QualifiedInPlace
  <2> HIDE DEF mem
  <2>2. CASE f # "DeadLetterPolicy"
    BY ZenonT(60), <1>4, <2>1, <2>2
  <2>3. CASE f = "DeadLetterPolicy"
    <3>1. f \notin SubscriptionPlain
      BY ZenonT(60), <2>3 DEF SubscriptionPlain
    <3>2. SpecValues(kind, f) = {Nil, Short, Full, Zero, Wrong}
      BY ZenonT(60), <1>1, <2>3, <3>1
      DEF SpecValues, WrittenValues, ConfValues, TopicNames, InNetwork, Booleans, NeverZero
    <3>3. mem[f] = Qualified(new[f]) /\ Overruled(f, new[f])
      BY ZenonT(60), <2>1, <2>3 DEF Overruled
    <3>4. Qualified(new[f]) \in SpecValues(kind, f)
      BY ZenonT(60), <1>4, <3>2 DEF Qualified
    <3>5. Qualified(new[f]) = Nil => new[f] = Nil
      BY ZenonT(60), NamesAssumption DEF Qualified
    <3> QED
      BY ZenonT(60), <1>1, <1>4, <2>3, <3>1, <3>3, <3>4, <3>5 DEF IsSet, Unset
  <2> QED
    BY ZenonT(60), <2>2, <2>3
<1>7. new \in SpecsOf(inst)
  BY ZenonT(60), <1>3, <1>4, SpecIntro DEF kind
<1> HIDE DEF mem
<1>8. mem \in SpecsOf(inst)
  BY ZenonT(60), <1>5, <1>6, SpecIntro DEF kind
<1>9. ASSUME NEW f \in inst.fields, IsSet(f, spec[f]), ~Overruled(f, spec[f])
      PROVE  new[f] = spec[f] /\ mem[f] = spec[f]
  BY ZenonT(60), <1>4, <1>6, <1>9 DEF Overruled
<1>10. Filled(mem, conf)
  BY ZenonT(60), <1>6 DEF Filled
<1>11. SubscriptionObserve(spec, conf)
          = Seen(new, mem, "Available", SubscriptionIsUpToDate(new, conf))
  BY ZenonT(60) DEF SubscriptionObserve, new, mem
<1>12. SubscriptionIsUpToDate(new, conf) \in BOOLEAN
  BY ZenonT(60) DEF SubscriptionIsUpToDate
<1> DEFINE utd == SubscriptionIsUpToDate(new, conf)
<1> HIDE DEF utd
<1>13. Sees(Seen(new, mem, "Available", utd), spec, conf)
  BY ZenonT(60), <1>6, <1>7, <1>8, <1>9, <1>10, <1>12 DEF Sees, Seen, Readies, utd
<1> QED
  BY ZenonT(60), <1>11, <1>13 DEF utd

\* CryptoKey: the labels are replaced.
LEMMA CryptoKeySees ==
    ASSUME inst \in Instances, NEW spec \in SpecsOf(inst), NEW conf \in Confs[inst],
           kind = "CryptoKey"
    PROVE  Sees(CryptoKeyObserve(spec, conf), spec, conf)
<1> DEFINE new == CryptoKeyLateInitialize(spec, conf)
<1> DEFINE some == CryptoKeyVersionTemplate \cup {"NextRotationTime", "RotationPeriod"}
<1> DEFINE fill == FillUnset(spec, conf, CryptoKeyPlain, some)
<1> DEFINE utd == CryptoKeyUpdateMask(new, conf) = {}
<1>1. kind \in Kinds /\ inst.fields \subseteq CryptoKeyParameters
      /\ PlainOf(kind) = CryptoKeyPlain /\ PlaceField(kind) = "KeyRing"
  BY ZenonT(60), InstancesAssumption DEF kind, ParametersOf, PlainOf, PlaceField,
     PolicyKinds
<1>2. new = [f \in inst.fields |-> IF f = "Labels" THEN conf[f] ELSE fill[f]]
  BY ZenonT(60), SpecElim DEF CryptoKeyLateInitialize
<1> HIDE DEF new, fill
<1>3. new = [f \in inst.fields |-> new[f]]
  BY ZenonT(60), <1>2
<1>4. ASSUME NEW f \in inst.fields
      PROVE  /\ new[f] \in SpecValues(kind, f)
             /\ IsSet(f, spec[f]) /\ ~Overruled(f, spec[f]) => new[f] = spec[f]
             /\ IsSet(f, new[f]) \/ conf[f] = Zero
  <2>1. conf[f] \in SpecValues(kind, f) /\ conf[f] # Nil
    BY ZenonT(60), <1>1, ConfElim, ConfNotNil DEF SpecValues, kind
  <2>2. /\ fill[f] \in SpecValues(kind, f)
        /\ ~Unset(f, spec[f], CryptoKeyPlain) => fill[f] = spec[f]
        /\ f \in some /\ Unset(f, fill[f], CryptoKeyPlain) => conf[f] = Zero
    BY SMTT(60), FillPoint DEF fill
  <2>3. CASE f = "Labels"
    <3>1. new[f] = conf[f] /\ Overruled(f, spec[f])
      BY ZenonT(60), <1>2, <2>3 DEF Overruled
    <3> QED
      BY ZenonT(60), <2>1, <2>3, <3>1 DEF IsSet, Unset
  <2>4. CASE f # "Labels"
    <3>1. new[f] = fill[f]
      BY ZenonT(60), <1>2, <2>4
    <3>2. f \in {"KeyRing", "Purpose"} => IsSet(f, spec[f])
      BY ZenonT(60), <1>1, PlaceIsSet, PurposeIsSet
    <3>3. f \in {"KeyRing", "Purpose"} \cup some
      BY ZenonT(60), <1>1, <2>4 DEF CryptoKeyParameters
    <3> QED
      BY ZenonT(60), <1>1, <2>2, <3>1, <3>2, <3>3 DEF IsSet
  <2> QED
    BY ZenonT(60), <2>3, <2>4
<1>6. CryptoKeyObserve(spec, conf) = Seen(new, new, "Available", utd)
  BY ZenonT(60) DEF CryptoKeyObserve, new
<1> HIDE DEF utd
<1>7. Sees(Seen(new, new, "Available", utd), spec, conf)
  BY ZenonT(60), <1>3, <1>4, PointSees DEF Readies, utd
<1> QED
  BY ZenonT(60), <1>6, <1>7

\* Bucket: what is empty is filled in, also where people wrote it.
LEMMA BucketSees ==
    ASSUME inst \in Instances, NEW spec \in SpecsOf(inst), NEW conf \in Confs[inst],
           kind = "Bucket"
    PROVE  Sees(BucketObserve(spec, conf), spec, conf)
<1> DEFINE new == BucketLateInitialize(spec, conf)
<1> DEFINE had == NewBucketSpecAttrs(conf)
<1> DEFINE utd == BucketIsUpToDate(new, conf)
<1>1. kind \in Kinds /\ PlainOf(kind) = BucketPlain
  BY ZenonT(60), InstancesAssumption DEF kind, PlainOf, PolicyKinds
<1>2. DOMAIN spec = inst.fields /\ DOMAIN conf = inst.fields
  BY ZenonT(60), SpecElim, ConfElim
<1>3. new = [f \in inst.fields |->
               IF spec[f] \in {Zero, Nil} /\ had[f] \notin {Zero, Nil} THEN had[f] ELSE spec[f]]
  BY ZenonT(60), <1>2 DEF BucketLateInitialize
<1>4. ASSUME NEW f \in inst.fields
      PROVE  had[f] = conf[f] \/ (had[f] = Nil /\ conf[f] = Zero)
  <2>1. CASE f \notin BucketUpdatableAttrs
    BY ZenonT(60), <1>2, <2>1 DEF NewBucketSpecAttrs
  <2>2. CASE f \in BucketUpdatableAttrs
    <3>1. had[f] = NewBucketUpdatableAttrs(conf)[f]
      BY ZenonT(60), <1>2, <2>2 DEF NewBucketSpecAttrs
    <3>2. NewBucketUpdatableAttrs(conf)[f]
            = CASE f = "RetentionPolicy" -> NewRetentionPolicy(conf[f])
                [] f = "BucketPolicyOnly" -> NewBucketPolicyOnly(conf[f])
                [] conf[f] = Zero /\ f \notin BucketPlain -> Nil
                [] OTHER -> conf[f]
      BY ZenonT(60), <1>2, <2>2 DEF NewBucketUpdatableAttrs
    <3> QED
      BY ZenonT(60), <3>1, <3>2 DEF NewRetentionPolicy, NewBucketPolicyOnly
  <2> QED
    BY ZenonT(60), <2>1, <2>2
<1> HIDE DEF new, had
<1>5. new = [f \in inst.fields |-> new[f]]
  BY ZenonT(60), <1>3
<1>6. ASSUME NEW f \in inst.fields
      PROVE  /\ new[f] \in SpecValues(kind, f)
             /\ IsSet(f, spec[f]) /\ ~Overruled(f, spec[f]) => new[f] = spec[f]
             /\ IsSet(f, new[f]) \/ conf[f] = Zero
  <2>1. conf[f] \in SpecValues(kind, f) /\ conf[f] # Nil /\ spec[f] \in SpecValues(kind, f)
    BY ZenonT(60), <1>1, ConfElim, SpecElim, ConfNotNil DEF SpecValues, kind
  <2>2. new[f] = IF spec[f] \in {Zero, Nil} /\ had[f] \notin {Zero, Nil} THEN had[f] ELSE spec[f]
    BY ZenonT(60), <1>3
  <2> QED
    BY ZenonT(60), <1>4, <2>1, <2>2 DEF IsSet, Unset
<1>7. BucketObserve(spec, conf) = Seen(new, new, "Available", utd)
  BY ZenonT(60) DEF BucketObserve, new
<1>8. utd \in BOOLEAN
  BY ZenonT(60) DEF BucketIsUpToDate
<1> HIDE DEF utd
<1>9. Sees(Seen(new, new, "Available", utd), spec, conf)
  BY ZenonT(60), <1>5, <1>6, <1>8, PointSees DEF Readies
<1> QED
  BY ZenonT(60), <1>7, <1>9

\* ResourceRecordSet: only the signatures are filled in.
LEMMA ResourceRecordSetSees ==
    ASSUME inst \in Instances, NEW spec \in SpecsOf(inst), NEW conf \in Confs[inst],
           kind = "ResourceRecordSet"
    PROVE  Sees(ResourceRecordSetObserve(spec, conf), spec, conf)
<1> DEFINE new == ResourceRecordSetLateInitialize(spec, conf)
<1> DEFINE utd == ResourceRecordSetIsUpToDate(new, conf)
<1>1. PlainOf(kind) = ResourceRecordSetPlain
  BY ZenonT(60) DEF PlainOf, PolicyKinds
<1>2. new = [f \in inst.fields |-> new[f]]
  BY ZenonT(60), SpecElim DEF ResourceRecordSetLateInitialize, FillUnset
<1>3. \A f \in inst.fields :
         /\ new[f] \in SpecValues(kind, f)
         /\ ~Unset(f, spec[f], ResourceRecordSetPlain) => new[f] = spec[f]
  BY SMTT(60), FillPoint DEF ResourceRecordSetLateInitialize
<1>4. ResourceRecordSetObserve(spec, conf) = Seen(new, new, "Available", utd)
  BY ZenonT(60) DEF ResourceRecordSetObserve
<1>5. utd \in BOOLEAN
  BY ZenonT(60) DEF ResourceRecordSetIsUpToDate
<1> HIDE DEF utd, new
<1>6. Sees(Seen(new, new, "Available", utd), spec, conf)
  BY ZenonT(60), <1>1, <1>2, <1>3, <1>5, PointSees DEF Readies, IsSet
<1> QED
  BY ZenonT(60), <1>4, <1>6

\* What Observe makes of a spec, for every kind.
LEMMA ObserveSees ==
    ASSUME inst \in Instances, NEW spec \in SpecsOf(inst), NEW r, r.conf \in Confs[inst]
    PROVE  Sees(ObserveOf(kind, spec, r), spec, r.conf)
<1>0. kind \in Kinds
  BY ZenonT(60), InstancesAssumption DEF kind
<1>1. CASE kind = "Network"
  <2> DEFINE new == NetworkLateInitialize(spec, r.conf)
             utd == NetworkIsUpToDate(new, r.conf)
  <2>1. new = FillUnset(spec, r.conf, PlainOf(kind), ParametersOf(kind))
    BY ZenonT(60), <1>1 DEF NetworkLateInitialize, PlainOf, ParametersOf, PolicyKinds
  <2>2. utd \in BOOLEAN
    BY ZenonT(60) DEF NetworkIsUpToDate
  <2>3. ObserveOf(kind, spec, r) = Seen(new, new, "Available", utd)
    BY ZenonT(60), <1>1 DEF ObserveOf, PolicyKinds, NetworkObserve
  <2> HIDE DEF new, utd
  <2> QED
    BY ZenonT(60), <1>1, <2>1, <2>2, <2>3, FillSees DEF Readies
<1>2. CASE kind = "Subnetwork"
  <2> DEFINE new == SubnetworkLateInitialize(spec, r.conf)
             utd == SubnetworkIsUpToDate(new, r.conf)
  <2>1. new = FillUnset(spec, r.conf, PlainOf(kind), ParametersOf(kind))
    BY ZenonT(60), <1>2 DEF SubnetworkLateInitialize, PlainOf, ParametersOf, PolicyKinds
  <2>2. utd \in BOOLEAN
    BY ZenonT(60) DEF SubnetworkIsUpToDate, SameConf
  <2>3. ObserveOf(kind, spec, r) = Seen(new, new, "Available", utd)
    BY ZenonT(60), <1>2 DEF ObserveOf, PolicyKinds, SubnetworkObserve
  <2> HIDE DEF new, utd
  <2> QED
    BY ZenonT(60), <1>2, <2>1, <2>2, <2>3, FillSees DEF Readies
<1>3. CASE kind = "Firewall"
  <2> DEFINE new == FirewallLateInitialize(spec, r.conf)
             utd == FirewallIsUpToDate(new, r.conf)
  <2>1. new = FillUnset(spec, r.conf, PlainOf(kind), ParametersOf(kind))
    BY ZenonT(60), <1>3 DEF FirewallLateInitialize, PlainOf, ParametersOf, PolicyKinds
  <2>2. utd \in BOOLEAN
    BY DEF FirewallIsUpToDate, SameConf
  <2>3. ObserveOf(kind, spec, r) = Seen(new, new, "Available", utd)
    BY ZenonT(60), <1>3 DEF ObserveOf, PolicyKinds, FirewallObserve
  <2> HIDE DEF new, utd
  <2> QED
    BY ZenonT(60), <1>3, <2>1, <2>2, <2>3, FillSees DEF Readies
<1>4. CASE kind = "Topic"
  <2> DEFINE new == TopicLateInitialize(spec, r.conf)
             utd == TopicIsUpToDate(new, r.conf)
  <2>1. new = FillUnset(spec, r.conf, PlainOf(kind), ParametersOf(kind))
    BY ZenonT(60), <1>4 DEF TopicLateInitialize, PlainOf, ParametersOf, PolicyKinds
  <2>2. utd \in BOOLEAN
    BY ZenonT(60) DEF TopicIsUpToDate
  <2>3. ObserveOf(kind, spec, r) = Seen(new, new, "Available", utd)
    BY ZenonT(60), <1>4 DEF ObserveOf, PolicyKinds, TopicObserve
  <2> HIDE DEF new, utd
  <2> QED
    BY ZenonT(60), <1>4, <2>1, <2>2, <2>3, FillSees DEF Readies
<1>5. CASE kind = "GlobalAddress"
  <2> DEFINE new == GlobalAddressLateInitialize(spec, r.conf)
             ready == IF r.state = "creating" THEN "Creating" ELSE "Available"
  <2>1. new = FillUnset(spec, r.conf, PlainOf(kind), ParametersOf(kind))
    BY ZenonT(60), <1>5 DEF GlobalAddressLateInitialize, PlainOf, ParametersOf, PolicyKinds
  <2>2. ready \in Readies
    BY ZenonT(60) DEF Readies
  <2>3. ObserveOf(kind, spec, r) = Seen(new, new, ready, TRUE)
    BY ZenonT(60), <1>5 DEF ObserveOf, PolicyKinds, GlobalAddressObserve
  <2> HIDE DEF new, ready
  <2> QED
    BY ZenonT(60), <1>5, <2>1, <2>2, <2>3, FillSees
<1>6. CASE kind = "CloudMemorystoreInstance"
  <2> DEFINE new == CloudMemorystoreLateInitialize(spec, r.conf)
             utd == CloudMemorystoreIsUpToDate(new, r.conf)
             ready == CASE r.state = "ready" -> "Available"
                        [] r.state = "creating" -> "Creating"
                        [] r.state = "deleting" -> "Deleting"
                        [] OTHER -> "Unavailable"
  <2>1. new = FillUnset(spec, r.conf, PlainOf(kind), ParametersOf(kind))
    BY ZenonT(60), <1>6 DEF CloudMemorystoreLateInitialize, PlainOf, ParametersOf,
       PolicyKinds
  <2>2. ready \in Readies /\ utd \in BOOLEAN
    BY ZenonT(60) DEF Readies, CloudMemorystoreIsUpToDate
  <2>3. ObserveOf(kind, spec, r) = Seen(new, new, ready, utd)
    BY ZenonT(60), <1>6 DEF ObserveOf, PolicyKinds, CloudMemorystoreObserve
  <2> HIDE DEF new, ready, utd
  <2> QED
    BY ZenonT(60), <1>6, <2>1, <2>2, <2>3, FillSees
<1>7. CASE kind = "Router"
  <2>1. ObserveOf(kind, spec, r) = RouterObserve(spec, r.conf)
    BY ZenonT(60), <1>7 DEF ObserveOf, PolicyKinds
  <2> QED
    BY ZenonT(60), <1>7, <2>1, RouterSees
<1>8. CASE kind = "Subscription"
  <2>1. ObserveOf(kind, spec, r) = SubscriptionObserve(spec, r.conf)
    BY ZenonT(60), <1>8 DEF ObserveOf, PolicyKinds
  <2> QED
    BY ZenonT(60), <1>8, <2>1, SubscriptionSees
<1>9. CASE kind = "CryptoKey"
  <2>1. ObserveOf(kind, spec, r) = CryptoKeyObserve(spec, r.conf)
    BY ZenonT(60), <1>9 DEF ObserveOf, PolicyKinds
  <2> QED
    BY ZenonT(60), <1>9, <2>1, CryptoKeySees
<1>10. CASE kind = "Bucket"
  <2>1. ObserveOf(kind, spec, r) = BucketObserve(spec, r.conf)
    BY ZenonT(60), <1>10 DEF ObserveOf, PolicyKinds
  <2> QED
    BY ZenonT(60), <1>10, <2>1, BucketSees
<1>11. CASE kind = "ResourceRecordSet"
  <2>1. ObserveOf(kind, spec, r) = ResourceRecordSetObserve(spec, r.conf)
    BY ZenonT(60), <1>11 DEF ObserveOf, PolicyKinds
  <2> QED
    BY ZenonT(60), <1>11, <2>1, ResourceRecordSetSees
<1>12. CASE kind = "ServiceAccount"
  <2> DEFINE utd == ServiceAccountIsUpToDate(spec, r.conf)
             ready == IF r.state = "ready" THEN "Available" ELSE ""
  <2>1. ObserveOf(kind, spec, r) = Seen(spec, spec, ready, utd)
    BY ZenonT(60), <1>12 DEF ObserveOf, PolicyKinds, ServiceAccountObserve
  <2>2. utd \in BOOLEAN /\ ready \in Readies /\ ~KeepsTheRest
    BY ZenonT(60), <1>12 DEF ServiceAccountIsUpToDate, KeepsTheRest, Readies
  <2> HIDE DEF utd, ready
  <2> QED
    BY ZenonT(60), <2>1, <2>2, SameSees
<1>13. CASE kind = "KeyRing"
  <2>1. ObserveOf(kind, spec, r) = Seen(spec, spec, "Available", TRUE)
    BY ZenonT(60), <1>13 DEF ObserveOf, PolicyKinds, KeyRingObserve
  <2>2. PlaceField(kind) = "Location" /\ inst.fields \subseteq {"Location"}
    BY ZenonT(60), <1>13, InstancesAssumption DEF kind, PlaceField, ParametersOf,
       KeyRingParameters
  <2>3. Filled(spec, r.conf)
    BY ZenonT(60), <2>2, PlaceIsSet DEF Filled
  <2> QED
    BY ZenonT(60), <2>1, <2>3, SameSees DEF Readies
<1>14. CASE kind = "Connection"
  <2> DEFINE utd == ConnectionIsUpToDate(spec, r.conf)
             ready == ConnectionReady(r.state)
  <2>1. ObserveOf(kind, spec, r) = Seen(spec, spec, ready, utd)
    BY ZenonT(60), <1>14 DEF ObserveOf, PolicyKinds, ConnectionObserve
  <2>2. utd \in BOOLEAN /\ ready \in Readies /\ ~KeepsTheRest
    BY ZenonT(60), <1>14 DEF ConnectionIsUpToDate, ConnectionReady, Readies, KeepsTheRest
  <2> HIDE DEF utd, ready
  <2> QED
    BY ZenonT(60), <2>1, <2>2, SameSees
<1>15. CASE kind \in PolicyKinds
  <2> DEFINE utd == PolicyIsUpToDate(spec, r.conf)
             ready == IF utd THEN "Available" ELSE ""
  <2>1. ObserveOf(kind, spec, r) = Seen(spec, spec, ready, utd)
    BY ZenonT(60), <1>15 DEF ObserveOf, PolicyKinds, PolicyObserve
  <2>2. utd \in BOOLEAN /\ ready \in Readies /\ ~KeepsTheRest
    BY ZenonT(60), <1>15 DEF PolicyIsUpToDate, Readies, KeepsTheRest
  <2> HIDE DEF utd, ready
  <2> QED
    BY SMTT(60), <2>1, <2>2, SameSees
<1> QED
  BY ZenonT(60), <1>0, <1>1, <1>2, <1>3, <1>4, <1>5, <1>6, <1>7, <1>8,
     <1>9, <1>10, <1>11, <1>12, <1>13, <1>14, <1>15 DEF Kinds

(***************************************************************************)
(* What a request asks for.                                                *)
(***************************************************************************)

\* A request has values of the object it is built from.
LEMMA RestrictedValues ==
    ASSUME NEW gen, NEW fs
    PROVE  /\ DOMAIN Restricted(gen, fs) = DOMAIN gen \cap fs
           /\ \A f \in DOMAIN gen \cap fs : Restricted(gen, fs)[f] = gen[f]
BY ZenonT(60) DEF Restricted

\* A body has values of what was generated, and zeros only if they are forced.
LEMMA BodyValues ==
    ASSUME NEW gen, NEW forced
    PROVE  /\ DOMAIN Body(gen, forced) \subseteq DOMAIN gen
           /\ \A f \in DOMAIN Body(gen, forced) :
                 Body(gen, forced)[f] = gen[f] /\ (gen[f] # Zero \/ f \in forced)
BY ZenonT(60) DEF Body, Restricted

\* The required fields of a kind that updates are plain.
LEMMA NeverZeroPlain ==
    ASSUME NEW k \in Kinds, k # "GlobalAddress", NEW f \in ParametersOf(k) \cap NeverZero
    PROVE  f \in PlainOf(k)
<1>1. CASE k \in {"Network", "Firewall", "Router", "Topic", "Subscription", "ServiceAccount",
                  "KeyRing", "Connection", "Bucket"} \cup PolicyKinds
  BY ZenonT(60), <1>1 DEF ParametersOf, NeverZero, PolicyKinds, NetworkParameters,
     FirewallParameters,
     FirewallGroups, RouterParameters, RouterBgp, RouterLists, TopicParameters,
     SubscriptionParameters, SubscriptionPlain, SubscriptionGroups, ServiceAccountParameters,
     KeyRingParameters, ConnectionParameters, BucketSpecAttrs, BucketUpdatableAttrs,
     BucketLabels, PredefinedACLs, NilIsNotSent, ACLRules, CryptoKeyPolicyParameters,
     ServiceAccountPolicyParameters, Policy
<1>2. CASE k \in {"Subnetwork", "CloudMemorystoreInstance", "CryptoKey", "ResourceRecordSet"}
  BY ZenonT(60), <1>2 DEF ParametersOf, PlainOf, NeverZero, PolicyKinds,
     SubnetworkParameters,
     SubnetworkPlain, CloudMemorystoreInstanceParameters, CloudMemorystorePlain,
     CryptoKeyParameters, CryptoKeyVersionTemplate, CryptoKeyPlain,
     ResourceRecordSetParameters, ResourceRecordSetPlain
<1> QED
  BY ZenonT(60), <1>1, <1>2 DEF Kinds

\* What a field of the spec is sent as is a value GCP may have.
LEMMA SentValue ==
    ASSUME inst \in Instances, NEW spec \in SpecsOf(inst), NEW f \in inst.fields,
           kind # "GlobalAddress", Ordinary(kind, f)
    PROVE  ValueOf(spec[f]) \in ConfValues(kind, f)
<1>1. kind \in Kinds /\ f \in ParametersOf(kind) /\ spec[f] \in SpecValues(kind, f)
  BY ZenonT(60), SpecElim, InstancesAssumption DEF kind
<1>2. CASE spec[f] # Nil
  BY ZenonT(60), <1>1, <1>2, OrdinaryValues DEF ValueOf
<1>3. CASE spec[f] = Nil
  <2>1. f \notin PlainOf(kind) /\ f # PlaceField(kind)
    BY ZenonT(60), <1>1, <1>3, NilValues
  <2>2. f \notin NeverZero
    BY ZenonT(60), <1>1, <2>1, NeverZeroPlain
  <2>3. Zero \in ConfValues(kind, f)
    BY ZenonT(60), <1>1, <2>1, <2>2, ZeroValues DEF Ordinary
  <2> QED
    BY ZenonT(60), <1>3, <2>3 DEF ValueOf
<1> QED
  BY ZenonT(60), <1>2, <1>3

\* A request that is built from the spec: what it sets is what the spec has,
\* with the network by its whole URL.
Sends(set, spec) ==
    \A f \in inst.fields \cap DOMAIN set :
       \/ Ordinary(kind, f) /\ set[f] = ValueOf(spec[f])
       \/ kind \in InNetwork /\ f = "Network" /\ spec[f] # Nil /\ set[f] \in {Whole, Elsewhere}

\* Such a request is well typed, and resets nothing that the spec does not set.
LEMMA SendsTyped ==
    ASSUME inst \in Instances, NEW spec \in SpecsOf(inst), kind # "GlobalAddress",
           NEW set, Sends(set, spec), NEW f \in inst.fields \cap DOMAIN set
    PROVE  set[f] \in ConfValues(kind, f)
<1>1. CASE Ordinary(kind, f) /\ set[f] = ValueOf(spec[f])
  BY ZenonT(60), <1>1, SentValue
<1>2. CASE kind \in InNetwork /\ f = "Network" /\ spec[f] # Nil /\ set[f] \in {Whole, Elsewhere}
  <2>1. PlaceField(kind) # "Network"
    BY ZenonT(60), <1>2, PlaceFields, InstancesAssumption DEF kind
  <2> QED
    BY ZenonT(60), <1>2, <2>1 DEF ConfValues, Booleans, NeverZero, InNetwork
<1> QED
  BY ZenonT(60), <1>1, <1>2 DEF Sends

\* A request changes only what the spec sets, once it is late-initialized.
LEMMA SendsKeeps ==
    ASSUME inst \in Instances, NEW spec \in SpecsOf(inst), NEW conf, Filled(spec, conf),
           NEW set, Sends(set, spec), NEW f \in inst.fields \cap DOMAIN set
    PROVE  IsSet(f, spec[f]) \/ set[f] = conf[f]
<1>1. CASE Ordinary(kind, f) /\ set[f] = ValueOf(spec[f])
  BY ZenonT(60), <1>1 DEF Filled, IsSet, Unset, ValueOf
<1>2. CASE kind \in InNetwork /\ f = "Network" /\ spec[f] # Nil /\ set[f] \in {Whole, Elsewhere}
  <2>1. kind # "Bucket" /\ f \notin PlainOf(kind)
    BY ZenonT(60), <1>2 DEF InNetwork, PlainOf, PolicyKinds, SubnetworkPlain,
       FirewallPlain, RouterPlain,
                RouterLists
  <2> QED
    BY ZenonT(60), <1>2, <2>1 DEF IsSet, Unset
<1> QED
  BY ZenonT(60), <1>1, <1>2 DEF Sends

Plans(u, spec) ==
    /\ u.call \in {"none", "patch", "panic"}
    /\ u.call = "patch" =>
         /\ Sends(u.set, spec)
         /\ kind \in PolicyKinds => u.set = [f \in inst.fields |-> u.set[f]]
         /\ kind = "ResourceRecordSet" =>
               \A f \in inst.fields \cap DOMAIN u.set : IsSet(f, spec[f])

\* A patch with fields of the spec.
LEMMA PatchPlans ==
    ASSUME NEW spec, NEW set, kind \notin PolicyKinds, kind # "ResourceRecordSet",
           \A f \in inst.fields \cap DOMAIN set : Ordinary(kind, f) /\ set[f] = ValueOf(spec[f])
    PROVE  Plans(Patch(set), spec)
BY ZenonT(60) DEF Plans, Patch, Sends

\* Update without a call sends nothing.
LEMMA NoPatchPlans ==
    ASSUME NEW spec
    PROVE  Plans(NoCall, spec) /\ Plans(NilDereference, spec)
BY ZenonT(60) DEF Plans, NoCall, NilDereference

\* The two patches of a Network: to custom mode, or of the rest.
LEMMA NetworkPlans ==
    ASSUME inst \in Instances, NEW spec \in SpecsOf(inst), NEW conf, kind = "Network"
    PROVE  Plans(NetworkUpdate(spec, conf), spec)
<1> DEFINE gen == GenerateNetwork(spec, Nothing(spec))
           body == Body(gen, NetworkForced(spec))
           switch == [f \in {"AutoCreateSubnetworks"} |-> Zero]
<1>1. DOMAIN spec = inst.fields /\ kind \notin PolicyKinds
  BY ZenonT(60), SpecElim DEF PolicyKinds
<1>2. \A f : Ordinary(kind, f)
  BY ZenonT(60) DEF Ordinary, InNetwork
<1>3. \A f \in inst.fields : gen[f] = ValueOf(spec[f])
  BY ZenonT(60), <1>1 DEF GenerateNetwork, Generated, Nothing, ValueOf
<1>4. Plans(Patch(body), spec)
  <2>1. \A f \in inst.fields \cap DOMAIN body : body[f] = gen[f]
    BY ZenonT(60), BodyValues
  <2> HIDE DEF body, gen
  <2> QED
    BY ZenonT(60), <1>1, <1>2, <1>3, <2>1, PatchPlans
<1>5. ASSUME SwitchToCustom(spec, conf)
      PROVE  Plans(Patch(switch), spec)
  <2>1. \A f \in inst.fields \cap DOMAIN switch : switch[f] = ValueOf(spec[f])
    BY ZenonT(60), <1>1, <1>5 DEF SwitchToCustom, GenerateNetwork, Generated, ValueOf
  <2> HIDE DEF switch
  <2> QED
    BY ZenonT(60), <1>1, <1>2, <2>1, PatchPlans
<1> QED
  BY ZenonT(60), <1>4, <1>5, NoPatchPlans DEF NetworkUpdate

\* The two patches of a Subnetwork: of the private access, or of the rest.
LEMMA SubnetworkPlans ==
    ASSUME inst \in Instances, NEW spec \in SpecsOf(inst), NEW conf, kind = "Subnetwork"
    PROVE  Plans(SubnetworkUpdate(spec, conf), spec)
<1> DEFINE gen == GenerateSubnetwork(spec, Nothing(spec))
           most == SubnetworkParameters \ {"Network", "Region"}
           some == Restricted(gen, most)
           body == Body(some, {})
           access == Restricted(spec, {"PrivateIPGoogleAccess"})
<1>1. DOMAIN spec = inst.fields /\ kind \notin PolicyKinds /\ DOMAIN gen = inst.fields
  BY ZenonT(60), SpecElim DEF PolicyKinds, GenerateSubnetwork
<1>2. \A f : f # "Network" => Ordinary(kind, f)
  BY ZenonT(60) DEF Ordinary, InNetwork
<1>3. \A f \in inst.fields : gen[f] = Zero \/ gen[f] = ValueOf(spec[f])
  BY ZenonT(60), <1>1 DEF GenerateSubnetwork, Nothing
<1>4. Plans(Patch(body), spec)
  <2> HIDE DEF gen
  <2>1. \A f \in DOMAIN some : f \in inst.fields \ {"Network"} /\ some[f] = gen[f]
    BY ZenonT(60), <1>1 DEF Restricted
  <2> HIDE DEF some
  <2>2. \A f \in DOMAIN body : f \in DOMAIN some /\ body[f] = some[f] /\ some[f] # Zero
    BY SMTT(60), BodyValues
  <2> HIDE DEF body
  <2>3. \A f \in inst.fields \cap DOMAIN body : f # "Network" /\ body[f] = ValueOf(spec[f])
    BY ZenonT(60), <1>3, <2>1, <2>2
  <2> QED
    BY ZenonT(60), <1>1, <1>2, <2>3, PatchPlans
<1>5. ASSUME PrivateAccess(spec, conf), spec["PrivateIPGoogleAccess"] # Nil
      PROVE  Plans(Patch(access), spec)
  <2>1. \A f \in inst.fields \cap DOMAIN access :
           f # "Network" /\ access[f] = ValueOf(spec[f])
    BY ZenonT(60), <1>1, <1>5 DEF ValueOf, Restricted
  <2> HIDE DEF access
  <2> QED
    BY ZenonT(60), <1>1, <1>2, <2>1, PatchPlans
<1>6. GenerateSubnetworkForUpdate(spec) = body
  BY ZenonT(60) DEF GenerateSubnetworkForUpdate
<1> HIDE DEF body, access
<1>7. Restricted(spec, {"PrivateIPGoogleAccess"}) = access
  BY ZenonT(60) DEF access
<1> QED
  BY ZenonT(60), <1>4, <1>5, <1>6, <1>7, NoPatchPlans DEF SubnetworkUpdate

\* Firewall and Router send the network by its whole URL.
LEMMA ExpandedPlans ==
    ASSUME inst \in Instances, NEW spec \in SpecsOf(inst), kind \in {"Firewall", "Router"},
           NEW gen, DOMAIN gen = inst.fields,
           \A f \in inst.fields : gen[f] \in {Zero, ValueOf(spec[f])}
    PROVE  Plans(Patch(Expanded(Body(gen, {}))), spec)
<1> DEFINE body == Body(gen, {})
           set == Expanded(body)
<1>1. kind \notin PolicyKinds /\ kind # "ResourceRecordSet" /\ kind \in Kinds
  BY ZenonT(60), InstancesAssumption DEF PolicyKinds, kind
<1>2. \A f \in DOMAIN body : f \in inst.fields /\ body[f] = ValueOf(spec[f]) /\ body[f] # Zero
  BY SMTT(60), BodyValues
<1> HIDE DEF body
<1>3. DOMAIN set = DOMAIN body
      /\ \A f \in DOMAIN body : set[f] = IF body[f] = Partial THEN Whole ELSE body[f]
  BY ZenonT(60) DEF Expanded
<1> HIDE DEF set
<1>4. ASSUME NEW f \in inst.fields \cap DOMAIN set
      PROVE  \/ Ordinary(kind, f) /\ set[f] = ValueOf(spec[f])
             \/ /\ kind \in InNetwork /\ f = "Network" /\ spec[f] # Nil
                /\ set[f] \in {Whole, Elsewhere}
  <2>1. spec[f] \in SpecValues(kind, f)
    BY ZenonT(60), SpecElim DEF kind
  <2>2. body[f] = spec[f] /\ spec[f] # Nil
    BY ZenonT(60), <1>2, <1>3 DEF ValueOf
  <2>3. CASE f = "Network"
    <3>1. spec[f] \in NetworkURLs
      BY ZenonT(60), <1>1, <2>1, <2>2, <2>3, PlaceFields
      DEF SpecValues, WrittenValues, ConfValues, Booleans, NeverZero, InNetwork, NetworkURLs
    <3> QED
      BY ZenonT(60), <1>3, <2>2, <2>3, <3>1 DEF InNetwork, NetworkURLs
  <2>4. CASE f # "Network"
    <3>1. Ordinary(kind, f)
      BY ZenonT(60), <2>4 DEF Ordinary
    <3>2. spec[f] \in ConfValues(kind, f)
      BY ZenonT(60), <1>1, <2>1, <2>2, <3>1, OrdinaryValues
    <3>3. spec[f] # Partial
      BY ZenonT(60), <2>4, <3>2, PlacesAssumption, URLsAssumption, YesAssumption,
         ValuesAssumption
      DEF ConfValues, NetworkURLs
    <3> QED
      BY ZenonT(60), <1>2, <1>3, <2>2, <3>1, <3>3
  <2> QED
    BY ZenonT(60), <2>3, <2>4
<1>5. Sends(set, spec)
  BY ZenonT(60), <1>4 DEF Sends
<1>6. Plans(Patch(set), spec)
  BY ZenonT(60), <1>1, <1>5 DEF Plans, Patch
<1> QED
  BY ZenonT(60), <1>6 DEF set, body

\* CryptoKey sends what differs from GCP.
LEMMA CryptoKeyPlans ==
    ASSUME inst \in Instances, NEW spec \in SpecsOf(inst), NEW conf, kind = "CryptoKey"
    PROVE  Plans(CryptoKeyUpdate(spec, conf), spec)
<1> DEFINE gen == GenerateCryptoKeyInstance(spec, conf)
           mask == CryptoKeyUpdateMask(spec, conf)
           set == Masked(gen, mask)
<1>1. DOMAIN spec = inst.fields /\ kind \notin PolicyKinds /\ DOMAIN gen = inst.fields
  BY ZenonT(60), SpecElim DEF PolicyKinds, GenerateCryptoKeyInstance, Generated
<1>2. \A f : Ordinary(kind, f)
  BY ZenonT(60) DEF Ordinary, InNetwork
<1>3. \A f \in inst.fields : gen[f] \in {conf[f], ValueOf(spec[f])}
  BY ZenonT(60), <1>1 DEF GenerateCryptoKeyInstance, Generated
<1>4. \A f \in mask : gen[f] # conf[f]
  BY ZenonT(60) DEF CryptoKeyUpdateMask
<1> HIDE DEF gen, mask
<1>5. DOMAIN set \subseteq mask /\ \A f \in DOMAIN set : set[f] = gen[f]
  BY ZenonT(60) DEF Masked, Restricted
<1> HIDE DEF set
<1>6. Plans(Patch(set), spec)
  BY ZenonT(60), <1>1, <1>2, <1>3, <1>4, <1>5, PatchPlans
<1> QED
  BY ZenonT(60), <1>6, NoPatchPlans DEF CryptoKeyUpdate, set, gen, mask

\* A set of labels and other attributes of a Bucket, without the predefined ACLs.
LEMMA BucketPlans ==
    ASSUME inst \in Instances, NEW spec \in SpecsOf(inst), NEW conf, kind = "Bucket"
    PROVE  Plans(BucketUpdate(spec, conf), spec)
<1> DEFINE gen == CopyToBucketAttrs(spec)
           labels == {f \in DOMAIN conf \cap BucketLabels : conf[f] # Zero}
           all == CopyToBucketUpdateAttrs(spec, labels)
           set == BucketKeeps(all)
<1>1. DOMAIN spec = inst.fields /\ kind \notin PolicyKinds /\ DOMAIN gen = inst.fields
  BY ZenonT(60), SpecElim DEF PolicyKinds, CopyToBucketAttrs
<1>2. \A f : f \notin PredefinedACLs => Ordinary(kind, f)
  BY ZenonT(60) DEF Ordinary, InNetwork
<1>3. \A f \in inst.fields : gen[f] = ValueOf(spec[f])
  BY ZenonT(60), <1>1 DEF CopyToBucketAttrs, CopyToRetentionPolicy, CopyToBucketPolicyOnly
<1> HIDE DEF gen
<1>4. \A f \in DOMAIN all : f \in inst.fields /\ all[f] = gen[f]
  <2> DEFINE fs == {f \in DOMAIN spec \cap BucketUpdatableAttrs :
                      CASE f \in BucketLabels -> spec[f] # Zero \/ f \in labels
                        [] f \in NilIsNotSent \cup PredefinedACLs ->
                              ~Unset(f, spec[f], BucketPlain)
                        [] OTHER -> TRUE}
  <2>1. all = Restricted(gen, fs)
    BY ZenonT(60) DEF CopyToBucketUpdateAttrs, gen
  <2> HIDE DEF fs, all
  <2> QED
    BY ZenonT(60), <1>1, <2>1 DEF Restricted
<1> HIDE DEF all
<1>5. \A f \in DOMAIN set : f \in DOMAIN all \ PredefinedACLs /\ set[f] = all[f]
  BY ZenonT(60) DEF BucketKeeps, Restricted
<1> HIDE DEF set
<1>6. \A f \in inst.fields \cap DOMAIN set : Ordinary(kind, f) /\ set[f] = ValueOf(spec[f])
  <2> SUFFICES ASSUME NEW f \in inst.fields \cap DOMAIN set
               PROVE  Ordinary(kind, f) /\ set[f] = ValueOf(spec[f])
    BY ZenonT(60)
  <2>1. f \in DOMAIN all /\ f \notin PredefinedACLs /\ set[f] = all[f]
    BY ZenonT(60), <1>5
  <2>2. all[f] = gen[f]
    BY ZenonT(60), <1>4, <2>1
  <2>3. gen[f] = ValueOf(spec[f])
    BY ZenonT(60), <1>3
  <2> QED
    BY ZenonT(60), <1>2, <2>1, <2>2, <2>3
<1>7. kind # "ResourceRecordSet"
  BY ZenonT(60)
<1>8. Plans(Patch(set), spec)
  BY ZenonT(60), <1>1, <1>6, <1>7, PatchPlans
<1> QED
  BY ZenonT(60), <1>8 DEF BucketUpdate, set, all

\* The fields with a value of a ResourceRecordSet.
LEMMA ResourceRecordSetPlans ==
    ASSUME inst \in Instances, NEW spec \in SpecsOf(inst), kind = "ResourceRecordSet"
    PROVE  Plans(ResourceRecordSetUpdate(spec), spec)
<1> DEFINE gen == GenerateResourceRecordSet(spec, Nothing(spec))
           set == Body(gen, {})
<1>1. /\ DOMAIN spec = inst.fields /\ kind \notin PolicyKinds /\ DOMAIN gen = inst.fields
      /\ kind \in Kinds /\ inst.fields \subseteq PlainOf(kind)
  BY ZenonT(60), SpecElim, InstancesAssumption
  DEF kind, PolicyKinds, GenerateResourceRecordSet, ParametersOf, PlainOf, ResourceRecordSetPlain
<1>2. \A f : Ordinary(kind, f)
  BY ZenonT(60) DEF Ordinary, InNetwork
<1>3. \A f \in inst.fields : gen[f] \in {Zero, spec[f]}
  BY ZenonT(60), <1>1 DEF GenerateResourceRecordSet, Nothing
<1>4. \A f \in inst.fields : spec[f] # Nil
  BY SMTT(60), <1>1, SpecElim, NilValues DEF kind
<1> HIDE DEF gen
<1>5. \A f \in DOMAIN set : f \in inst.fields /\ set[f] = gen[f] /\ gen[f] # Zero
  BY SMTT(60), <1>1, BodyValues
<1> HIDE DEF set
<1>6. Sends(set, spec)
  BY ZenonT(60), <1>2, <1>3, <1>4, <1>5 DEF Sends, ValueOf
<1>7. \A f \in inst.fields \cap DOMAIN set : IsSet(f, spec[f])
  BY ZenonT(60), <1>3, <1>4, <1>5 DEF IsSet, Unset
<1>8. Plans(Patch(set), spec)
  BY ZenonT(60), <1>1, <1>6, <1>7 DEF Plans, Patch
<1> QED
  BY ZenonT(60), <1>8 DEF ResourceRecordSetUpdate, set, gen

\* Topic, Subscription, CloudMemorystoreInstance, ServiceAccount: a mask.
LEMMA MaskedPlans ==
    ASSUME inst \in Instances, NEW spec \in SpecsOf(inst),
           kind \in {"Topic", "Subscription", "CloudMemorystoreInstance", "ServiceAccount"},
           NEW gen, DOMAIN gen = inst.fields,
           \A f \in inst.fields : gen[f] = ValueOf(spec[f]),
           NEW mask, kind = "Subscription" => mask \cap TopicNames = {}
    PROVE  Plans(Patch(Masked(gen, mask)), spec)
<1> DEFINE set == Masked(gen, mask)
<1>1. kind \notin PolicyKinds /\ kind # "ResourceRecordSet"
  BY ZenonT(60) DEF PolicyKinds
<1>2. \A f \in DOMAIN set : f \in mask /\ set[f] = gen[f]
  BY ZenonT(60) DEF Masked, Restricted
<1> HIDE DEF set
<1>3. \A f \in mask : Ordinary(kind, f)
  BY ZenonT(60) DEF Ordinary, InNetwork
<1>4. Plans(Patch(set), spec)
  BY ZenonT(60), <1>1, <1>2, <1>3, PatchPlans
<1> QED
  BY ZenonT(60), <1>4 DEF set

\* A Connection sends the ranges also when there are none, a policy everything.
LEMMA WholePlans ==
    ASSUME inst \in Instances, NEW spec \in SpecsOf(inst), NEW conf,
           kind \in PolicyKinds \cup {"Connection"}
    PROVE  /\ kind = "Connection" => Sends(FromParameters(spec), spec)
           /\ kind \in PolicyKinds => Sends(GeneratePolicyInstance(spec), spec)
           /\ DOMAIN GeneratePolicyInstance(spec) = inst.fields
           /\ Plans(ConnectionUpdate(spec), spec) \/ kind # "Connection"
           /\ Plans(PolicyUpdate(spec, conf), spec) \/ kind = "Connection"
<1> DEFINE gen == [f \in DOMAIN spec |-> ValueOf(spec[f])]
           set == FromParameters(spec)
<1>1. DOMAIN spec = inst.fields /\ kind # "ResourceRecordSet"
      /\ (kind = "Connection" => kind \notin PolicyKinds)
  BY ZenonT(60), SpecElim DEF PolicyKinds
<1>2. \A f : Ordinary(kind, f)
  BY ZenonT(60) DEF Ordinary, InNetwork, PolicyKinds
<1>3. Sends(gen, spec) /\ DOMAIN gen = inst.fields
  BY ZenonT(60), <1>1, <1>2 DEF Sends
<1>4. GeneratePolicyInstance(spec) = gen
  BY ZenonT(60) DEF GeneratePolicyInstance
<1>5. \A f \in DOMAIN set : f \in inst.fields /\ set[f] = ValueOf(spec[f])
  BY SMTT(60), <1>1, BodyValues DEF FromParameters
<1> HIDE DEF set
<1>6. Sends(set, spec)
  BY ZenonT(60), <1>2, <1>5 DEF Sends
<1>7. kind = "Connection" => Plans(Patch(set), spec)
  BY ZenonT(60), <1>1, <1>6 DEF Plans, Patch
<1>8. kind \in PolicyKinds => Plans(Patch(GeneratePolicyInstance(spec)), spec)
  <2>1. gen = [f \in inst.fields |-> gen[f]]
    BY ZenonT(60), <1>1
  <2> QED
    BY ZenonT(60), <1>1, <1>3, <1>4, <2>1 DEF Plans, Patch
<1> HIDE DEF gen
<1> QED
  BY ZenonT(60), <1>1, <1>3, <1>4, <1>6, <1>7, <1>8, NoPatchPlans DEF ConnectionUpdate,
     PolicyUpdate, set

\* What Update asks of GCP, for every kind.
LEMMA UpdatePlans ==
    ASSUME inst \in Instances, NEW spec \in SpecsOf(inst), NEW conf
    PROVE  Plans(UpdateOf(kind, spec, conf), spec)
<1>0. kind \in Kinds /\ DOMAIN spec = inst.fields
  BY ZenonT(60), InstancesAssumption, SpecElim DEF kind
<1>1. CASE kind = "Network"
  BY ZenonT(60), <1>1, NetworkPlans DEF UpdateOf, PolicyKinds
<1>2. CASE kind = "Subnetwork"
  BY ZenonT(60), <1>2, SubnetworkPlans DEF UpdateOf, PolicyKinds
<1>3. CASE kind \in {"GlobalAddress", "KeyRing"}
  BY ZenonT(60), <1>3, NoPatchPlans DEF UpdateOf, PolicyKinds, GlobalAddressUpdate,
     KeyRingUpdate
<1>4. CASE kind = "Firewall"
  <2> DEFINE gen == GenerateFirewall(spec, Nothing(spec))
  <2>1. DOMAIN gen = inst.fields /\ \A f \in inst.fields : gen[f] \in {Zero, ValueOf(spec[f])}
    BY ZenonT(60), <1>0 DEF GenerateFirewall, Nothing
  <2>2. UpdateOf(kind, spec, conf) \in {NoCall, Patch(Expanded(Body(gen, {})))}
    BY ZenonT(60), <1>4 DEF UpdateOf, PolicyKinds, FirewallUpdate
  <2> HIDE DEF gen
  <2> QED
    BY ZenonT(60), <1>4, <2>1, <2>2, ExpandedPlans, NoPatchPlans
<1>5. CASE kind = "Router"
  <2> DEFINE gen == GenerateRouter(spec, Nothing(spec))
  <2>1. DOMAIN gen = inst.fields /\ \A f \in inst.fields : gen[f] \in {Zero, ValueOf(spec[f])}
    BY ZenonT(60), <1>0 DEF GenerateRouter, Nothing
  <2>2. UpdateOf(kind, spec, conf) \in {NoCall, Patch(Expanded(Body(gen, {})))}
    BY ZenonT(60), <1>5 DEF UpdateOf, PolicyKinds, RouterUpdate
  <2> HIDE DEF gen
  <2> QED
    BY ZenonT(60), <1>5, <2>1, <2>2, ExpandedPlans, NoPatchPlans
<1>6. CASE kind = "Topic"
  <2> DEFINE gen == GenerateTopic(spec)
  <2>1. DOMAIN gen = inst.fields /\ \A f \in inst.fields : gen[f] = ValueOf(spec[f])
    BY ZenonT(60), <1>0 DEF GenerateTopic, Generated, Nothing, ValueOf
  <2>2. UpdateOf(kind, spec, conf) = Patch(Masked(gen, TopicUpdateMask(spec, conf)))
    BY ZenonT(60), <1>6 DEF UpdateOf, PolicyKinds, TopicUpdate
  <2> HIDE DEF gen
  <2> QED
    BY ZenonT(60), <1>6, <2>1, <2>2, MaskedPlans
<1>7. CASE kind = "Subscription"
  <2> DEFINE gen == [f \in DOMAIN spec |-> ValueOf(spec[f])]
             mask == SubscriptionUpdateMask(spec, conf)
  <2>1. DOMAIN gen = inst.fields /\ \A f \in inst.fields : gen[f] = ValueOf(spec[f])
    BY ZenonT(60), <1>0
  <2>2. UpdateOf(kind, spec, conf) = Patch(Masked(gen, mask))
    BY ZenonT(60), <1>7 DEF UpdateOf, PolicyKinds, SubscriptionUpdate
  <2>3. mask \cap TopicNames = {}
    BY ZenonT(60) DEF SubscriptionUpdateMask, TopicNames
  <2> HIDE DEF gen, mask
  <2> QED
    BY ZenonT(60), <1>7, <2>1, <2>2, <2>3, MaskedPlans
<1>8. CASE kind = "CloudMemorystoreInstance"
  <2> DEFINE gen == GenerateRedisInstance(spec)
  <2>1. DOMAIN gen = inst.fields /\ \A f \in inst.fields : gen[f] = ValueOf(spec[f])
    BY ZenonT(60), <1>0 DEF GenerateRedisInstance
  <2>2. UpdateOf(kind, spec, conf) = Patch(Masked(gen, CloudMemorystoreUpdateMask))
    BY ZenonT(60), <1>8 DEF UpdateOf, PolicyKinds, CloudMemorystoreUpdate
  <2> HIDE DEF gen
  <2> QED
    BY ZenonT(60), <1>8, <2>1, <2>2, MaskedPlans
<1>9. CASE kind = "ServiceAccount"
  <2> DEFINE gen == [f \in DOMAIN spec |-> ValueOf(spec[f])]
  <2>1. DOMAIN gen = inst.fields /\ \A f \in inst.fields : gen[f] = ValueOf(spec[f])
    BY <1>0
  <2>2. UpdateOf(kind, spec, conf) = Patch(Masked(gen, ServiceAccountParameters))
    BY ZenonT(60), <1>9 DEF UpdateOf, PolicyKinds, ServiceAccountUpdate
  <2> HIDE DEF gen
  <2> QED
    BY ZenonT(60), <1>9, <2>1, <2>2, MaskedPlans
<1>10. CASE kind = "CryptoKey"
  BY ZenonT(60), <1>10, CryptoKeyPlans DEF UpdateOf, PolicyKinds
<1>11. CASE kind = "ResourceRecordSet"
  BY ZenonT(60), <1>11, ResourceRecordSetPlans DEF UpdateOf, PolicyKinds
<1>12. CASE kind = "Connection"
  BY ZenonT(60), <1>12, WholePlans DEF UpdateOf, PolicyKinds
<1>13. CASE kind = "Bucket"
  BY ZenonT(60), <1>13, BucketPlans DEF UpdateOf, PolicyKinds
<1>14. CASE kind \in PolicyKinds
  BY ZenonT(60), <1>14, WholePlans DEF UpdateOf, PolicyKinds
<1> QED
  BY ZenonT(60), <1>0, <1>1, <1>2, <1>3, <1>4, <1>5, <1>6, <1>7, <1>8, <1>9, <1>10, <1>11,
     <1>12,
     <1>13, <1>14 DEF Kinds

\* The conditions that Create and Delete set, and what Create sets in a resource
\* that exists.
LEMMA CreateTyped ==
    ASSUME inst \in Instances, NEW spec \in SpecsOf(inst)
    PROVE  /\ CreateOf(kind, spec).ready \in Readies
           /\ kind \in PolicyKinds \cup {"Connection"} => Sends(CreateOf(kind, spec).set, spec)
           /\ kind \in PolicyKinds => DOMAIN CreateOf(kind, spec).set = inst.fields
<1>0. kind \in Kinds
  BY ZenonT(60), InstancesAssumption DEF kind
<1>1. CreateOf(kind, spec).ready \in {"", "Creating"}
  BY ZenonT(60), <1>0 DEF Kinds, CreateOf, PolicyKinds, Creation, NetworkCreate,
     SubnetworkCreate,
     GlobalAddressCreate, FirewallCreate, RouterCreate, TopicCreate, SubscriptionCreate,
     CloudMemorystoreCreate, ServiceAccountCreate, KeyRingCreate, CryptoKeyCreate,
     ResourceRecordSetCreate, ConnectionCreate, BucketCreate, PolicyCreate
<1>2. CASE kind = "Connection"
  <2>1. CreateOf(kind, spec).set = FromParameters(spec)
    BY ZenonT(60), <1>2 DEF CreateOf, PolicyKinds, ConnectionCreate, Creation
  <2> QED
    BY ZenonT(60), <1>1, <1>2, <2>1, WholePlans DEF Readies, PolicyKinds
<1>3. CASE kind \in PolicyKinds
  <2>1. CreateOf(kind, spec).set = GeneratePolicyInstance(spec)
    BY ZenonT(60), <1>3 DEF CreateOf, PolicyKinds, PolicyCreate, Creation
  <2> QED
    BY ZenonT(60), <1>1, <1>3, <2>1, WholePlans DEF Readies
<1> QED
  BY ZenonT(60), <1>1, <1>2, <1>3 DEF Readies

\* What Delete of a kind reports is a condition.
LEMMA DeleteTyped ==
    ASSUME inst \in Instances
    PROVE  DeleteOf(kind).ready \in Readies /\ DeleteOf(kind).calls \in BOOLEAN
<1>0. kind \in Kinds
  BY ZenonT(60), InstancesAssumption DEF kind
<1> QED
  BY ZenonT(60), <1>0 DEF Readies, Kinds, DeleteOf, PolicyKinds, Deletion, NetworkDelete,
     SubnetworkDelete,
     GlobalAddressDelete, FirewallDelete, RouterDelete, TopicDelete, SubscriptionDelete,
     CloudMemorystoreDelete, ServiceAccountDelete, KeyRingDelete, CryptoKeyDelete,
     ResourceRecordSetDelete, ConnectionDelete, BucketDelete, PolicyDelete
=============================================================================
