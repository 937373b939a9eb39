-------------------------- MODULE ResourcesProofs --------------------------
(***************************************************************************)
(* Proofs about Resources: for every kind, every choice of its fields, all *)
(* values, places and any number of disturbances.  The methods are those   *)
(* of MethodsProofs; here is the induction over the steps.                 *)
(***************************************************************************)
EXTENDS MethodsProofs, ManagedProofs

(***************************************************************************)
(* The steps keep the inductive invariant.                                 *)
(***************************************************************************)

\* A spec addresses a place, and late initialization leaves it there.
LEMMA AtPlace ==
    ASSUME inst \in Instances, NEW spec \in SpecsOf(inst)
    PROVE  At(spec) \in Places
<1>1. kind \in Kinds
  BY ZenonT(60), InstancesAssumption DEF kind
<1> QED
  BY SMTT(60), <1>1, SpecElim, PlaceValues, PlacesAssumption DEF At, kind

\* Observe does not move the resource.
LEMMA SeenPlace ==
    ASSUME inst \in Instances, NEW spec \in SpecsOf(inst), NEW conf, NEW seen,
           Sees(seen, spec, conf)
    PROVE  At(seen.spec) = At(spec) /\ At(seen.mem) = At(spec)
<1> DEFINE f == PlaceField(kind)
<1>1. DOMAIN spec = inst.fields /\ DOMAIN seen.spec = inst.fields /\ DOMAIN seen.mem = inst.fields
  BY ZenonT(60), SpecElim DEF Sees
<1>2. CASE f \in inst.fields
  <2>1. IsSet(f, spec[f])
    BY ZenonT(60), <1>2, PlaceIsSet
  <2>2. ~Overruled(f, spec[f])
    BY ZenonT(60), <1>2, InstancesAssumption
    DEF Overruled, PlaceField, PolicyKinds, RouterBgp, ParametersOf, SubscriptionParameters,
        SubscriptionPlain, SubscriptionGroups, kind
  <2> QED
    BY ZenonT(60), <1>1, <1>2, <2>1, <2>2 DEF Sees, At
<1>3. CASE f \notin inst.fields
  BY ZenonT(60), <1>1, <1>3 DEF At
<1> QED
  BY ZenonT(60), <1>2, <1>3

\* A resource as TypeOK and PlaceInv require it.
GoodResource(r) ==
    /\ r \in [state : ExtStates, conf : Confs[inst] \cup {<<>>}, made : BOOLEAN]
    /\ r.state # "absent" => r.conf \in Confs[inst]
    /\ r.state = "absent" => ~r.made

\* The resource that the copy addresses.
LEMMA ResourceTyped ==
    ASSUME TypeOK, CopyInv, PlaceInv, pc # "idle"
    PROVE  At(cr.spec) \in Places /\ GoodResource(resource)
<1>1. At(cr.spec) \in Places
  BY ZenonT(60), AtPlace DEF TypeOK, CopyInv
<1> QED
  BY ZenonT(60), <1>1 DEF TypeOK, PlaceInv, resource, GoodResource, Found

\* The resource that does not exist is well typed.
LEMMA AbsentGood == GoodResource(Absent)
BY ZenonT(60) DEF GoodResource, Absent, ExtStates

\* A write keeps it so: it is typed, or an empty policy.
LEMMA PresentGood ==
    ASSUME inst \in Instances, NEW state \in ExtStates \ {"absent"}, NEW made \in BOOLEAN,
           NEW conf, conf = [f \in inst.fields |-> conf[f]],
           \A f \in inst.fields : conf[f] \in ConfValues(kind, f),
           NEW r, r = [state |-> state, conf |-> conf, made |-> made]
    PROVE  GoodResource(Present(r))
<1>1. CASE kind \in PolicyKinds /\ IsEmptyPolicy(r.conf)
  BY ZenonT(60), <1>1, AbsentGood DEF Present
<1>2. CASE ~(kind \in PolicyKinds /\ IsEmptyPolicy(r.conf))
  <2>1. conf \in Confs[inst]
    BY ZenonT(60), <1>2, ConfIntro DEF kind
  <2> QED
    BY ZenonT(60), <1>2, <2>1 DEF Present, GoodResource
<1> QED
  BY ZenonT(60), <1>1, <1>2

\* A request with values GCP may have leaves a resource that is well typed.
LEMMA StoredGood ==
    ASSUME TypeOK, CopyInv, PlaceInv, pc # "idle", NEW set,
           \A f \in inst.fields \cap DOMAIN set : set[f] \in ConfValues(kind, f),
           resource.state = "absent" => set = [f \in inst.fields |-> set[f]]
    PROVE  GoodResource(Stored(set))
<1>0. inst \in Instances
  BY ZenonT(60) DEF TypeOK
<1>1. CASE resource.state = "absent"
  <2> DEFINE r == [state |-> "ready", conf |-> set, made |-> TRUE]
  <2>1. Stored(set) = Present(r)
    BY ZenonT(60), <1>1 DEF Stored
  <2>2. DOMAIN set = inst.fields /\ r.conf = set /\ r.state = "ready" /\ r.made = TRUE
    BY ZenonT(60), <1>1
  <2> HIDE DEF r
  <2>3. r = [state |-> "ready", conf |-> set, made |-> TRUE]
    BY ZenonT(60) DEF r
  <2>4. set = [f \in inst.fields |-> set[f]]
        /\ \A f \in inst.fields : set[f] \in ConfValues(kind, f)
    BY ZenonT(60), <1>1, <2>2
  <2>5. "ready" \in ExtStates \ {"absent"}
    BY ZenonT(60) DEF ExtStates
  <2> QED
    BY ZenonT(60), <1>0, <2>1, <2>3, <2>4, <2>5, PresentGood
<1>2. CASE resource.state # "absent"
  <2> DEFINE conf == Applied(set, resource.conf)
             r == [resource EXCEPT !.conf = conf]
  <2>1. resource.conf \in Confs[inst] /\ resource.state \in ExtStates /\ resource.made \in BOOLEAN
    BY ZenonT(60), <1>2, ResourceTyped DEF GoodResource
  <2>2. DOMAIN resource.conf = inst.fields
        /\ \A f \in inst.fields : resource.conf[f] \in ConfValues(kind, f)
    BY ZenonT(60), <1>0, <2>1, ConfElim DEF kind
  <2>3. conf = [f \in inst.fields |-> IF f \in DOMAIN set THEN set[f] ELSE resource.conf[f]]
    BY ZenonT(60), <2>2 DEF Applied
  <2> HIDE DEF conf
  <2>4. conf = [f \in inst.fields |-> conf[f]]
        /\ \A f \in inst.fields : conf[f] \in ConfValues(kind, f)
    BY ZenonT(60), <2>2, <2>3
  <2>5. Stored(set) = Present(r)
    BY ZenonT(60), <1>2 DEF Stored, conf
  <2>6. r = [state |-> resource.state, conf |-> conf, made |-> resource.made]
    BY SMTT(60), ResourceTyped DEF GoodResource
  <2> HIDE DEF r
  <2> QED
    BY ZenonT(60), <1>0, <1>2, <2>1, <2>4, <2>5, <2>6, PresentGood
<1> QED
  BY ZenonT(60), <1>1, <1>2

\* Observe does not find the resource: then nothing that was made is left, since
\* the copy of a CR that is deleted addresses it.
LEMMA ObserveNothingInv == ResourceInv /\ ObserveNothing => ResourceInv'
<1> SUFFICES ASSUME ResourceInv, ObserveNothing PROVE ResourceInv'
  BY ZenonT(60)
<1> USE DEF ResourceInv
<1>0. /\ UNCHANGED <<kube, cr, fresh, budget, inst, ext, plan, late, moved>>
      /\ pc = "observe" /\ pc' = "decide" /\ obs' = NotThere /\ touched' = FALSE
  BY ZenonT(60) DEF ObserveNothing
<1>1. TypeOK'
  BY ZenonT(60), <1>0 DEF TypeOK, ManagedTypeOK, NotThere, Observations, PCs
<1>2. LifecycleInv'
  BY ZenonT(60), <1>0 DEF LifecycleInv, FinalizerHolds
<1>3. CopyInv'
  BY ZenonT(60), <1>0 DEF CopyInv
<1>4. PlaceInv'
  <2>1. cr.phase = "deleting" => moved \/ kind \in Permanent \/ \A p \in Places : ~ext[p].made
    <3> SUFFICES ASSUME cr.phase = "deleting", ~moved, kind \notin Permanent,
                        NEW p \in Places, ext[p].made
                 PROVE  FALSE
      BY ZenonT(60) DEF TypeOK
    <3>1. ~Found(ext[At(cr.spec)])
      BY ZenonT(60) DEF ObserveNothing, resource
    <3>2. p = At(kube.spec)
      BY ZenonT(60) DEF PlaceInv, NoOrphan
    <3>3. At(cr.spec) = At(kube.spec)
      BY ZenonT(60) DEF LifecycleInv, FinalizerHolds, PlaceInv
    <3> QED
      BY ZenonT(60), <3>1, <3>2, <3>3 DEF PlaceInv, Found
  <2> QED
    BY ZenonT(60), <1>0, <2>1 DEF PlaceInv, NoOrphan, At, kind
<1>5. IntentInv'
  BY ZenonT(60), <1>0 DEF IntentInv, IsSet, Overruled, kind
<1>6. RestInv'
  BY ZenonT(60), <1>0 DEF RestInv, NotThere
<1> QED
  BY ZenonT(60), <1>1, <1>2, <1>3, <1>4, <1>5, <1>6

\* A nil dereference in Observe ends the process and writes nothing.
LEMMA ObservePanicInv == ResourceInv /\ ObservePanic => ResourceInv'
<1> SUFFICES ASSUME ResourceInv, ObservePanic PROVE ResourceInv'
  OBVIOUS
<1> USE DEF ResourceInv
<1>0. /\ UNCHANGED <<kube, cr, fresh, obs, budget, inst, ext, plan, late, touched, moved>>
      /\ pc = "observe" /\ pc' = "panic"
  BY ZenonT(60) DEF ObservePanic
<1>1. TypeOK'
  BY ZenonT(60), <1>0 DEF TypeOK, ManagedTypeOK, PCs
<1>2. LifecycleInv'
  BY ZenonT(60), <1>0 DEF LifecycleInv, FinalizerHolds
<1>3. CopyInv'
  BY ZenonT(60), <1>0 DEF CopyInv
<1>4. PlaceInv'
  BY ZenonT(60), <1>0 DEF PlaceInv, NoOrphan, At, kind
<1>5. IntentInv'
  BY ZenonT(60), <1>0 DEF IntentInv, IsSet, Overruled, kind
<1>6. RestInv'
  BY ZenonT(60), <1>0 DEF RestInv
<1> QED
  BY ZenonT(60), <1>1, <1>2, <1>3, <1>4, <1>5, <1>6

\* Observe keeps what people set, and leaves nothing of GCP unset in memory.
LEMMA ObserveInv == ResourceInv /\ Observe => ResourceInv'
<1> SUFFICES ASSUME ResourceInv, Observe PROVE ResourceInv'
  OBVIOUS
<1> DEFINE seen == ObserveOf(kind, cr.spec, resource)
           writes == seen.spec # cr.spec /\ kind \in WritesInObserve
<1>0. /\ UNCHANGED <<fresh, budget, inst, ext, plan, moved>>
      /\ pc = "observe" /\ touched' = FALSE /\ Found(resource)
  BY ZenonT(60) DEF Observe
<1>1. /\ Sees(seen, cr.spec, resource.conf)
      /\ At(seen.spec) = At(cr.spec) /\ At(seen.mem) = At(cr.spec)
  <2>1. inst \in Instances /\ cr.spec \in SpecsOf(inst) /\ resource.conf \in Confs[inst]
    BY ZenonT(60), <1>0, ResourceTyped DEF ResourceInv, TypeOK, CopyInv, GoodResource, Found
  <2>2. Sees(seen, cr.spec, resource.conf)
    BY ZenonT(60), <2>1, ObserveSees
  <2> QED
    BY ZenonT(60), <2>1, <2>2, SeenPlace
<1>a. /\ cr' = IF writes /\ ~fresh THEN [cr EXCEPT !.spec = seen.spec]
               ELSE [cr EXCEPT !.spec = seen.mem, !.ready = Conditioned(seen.ready)]
      /\ kube' = IF writes /\ fresh THEN [kube EXCEPT !.spec = seen.spec] ELSE kube
      /\ obs' = IF writes /\ ~fresh THEN obs
                ELSE [exists |-> TRUE, upToDate |-> seen.upToDate, wrote |-> writes]
      /\ pc' = IF writes /\ ~fresh THEN "finish" ELSE "decide"
      /\ late' \in BOOLEAN /\ writes \in BOOLEAN
  BY ZenonT(60) DEF Observe
<1> HIDE DEF seen, writes
<1>2. /\ seen.spec \in SpecsOf(inst) /\ seen.mem \in SpecsOf(inst)
      /\ seen.ready \in Readies /\ seen.upToDate \in BOOLEAN
  BY ZenonT(60), <1>1 DEF Sees
<1>3. /\ inst \in Instances /\ SpecsOf(inst) \subseteq Specs
      /\ kube \in CRs /\ cr \in CRs
  BY ZenonT(60), SpecsOfAssumption DEF ResourceInv, TypeOK, ManagedTypeOK
<1>4. Conditioned(seen.ready) \in Readies
  BY ZenonT(60), <1>2, <1>3 DEF Conditioned, CRs
<1>5. /\ cr'.spec \in {seen.spec, seen.mem} /\ cr'.phase = cr.phase
      /\ cr'.finalizer = cr.finalizer /\ cr' \in CRs
      /\ pc' = "decide" => cr'.spec = seen.mem
  BY ZenonT(60), <1>a, <1>2, <1>3, <1>4 DEF CRs
<1>6. /\ kube'.spec = kube.spec \/ (fresh /\ kube'.spec = seen.spec /\ cr'.spec = seen.mem)
      /\ kube'.phase = kube.phase /\ kube'.finalizer = kube.finalizer /\ kube' \in CRs
      /\ kube'.spec \in SpecsOf(inst)
  BY ZenonT(60), <1>a, <1>2, <1>3 DEF CRs, ResourceInv, TypeOK
<1>7. At(cr'.spec) = At(cr.spec) /\ (kube'.spec = kube.spec \/ At(kube'.spec) = At(cr.spec))
  BY ZenonT(60), <1>1, <1>5, <1>6
<1>8. TypeOK'
  <2>1. obs' \in Observations /\ pc' \in PCs /\ late' \in BOOLEAN
    BY ZenonT(60), <1>a, <1>2 DEF Observations, PCs, ResourceInv, TypeOK, ManagedTypeOK
  <2> QED
    BY ZenonT(60), <1>0, <1>5, <1>6, <2>1 DEF ResourceInv, TypeOK, ManagedTypeOK
<1>9. LifecycleInv'
  BY ZenonT(60), <1>0, <1>a, <1>5, <1>6 DEF ResourceInv, LifecycleInv, FinalizerHolds
<1>10. CopyInv'
  BY ZenonT(60), <1>0, <1>a, <1>2, <1>5 DEF ResourceInv, CopyInv
<1>11. PlaceInv'
  <2>1. At(cr.spec)' = At(cr'.spec) /\ At(kube.spec)' = At(kube'.spec)
    BY ZenonT(60), <1>0 DEF At, kind
  <2>2. At(kube'.spec) = At(kube.spec)
    BY ZenonT(60), <1>6, <1>7 DEF ResourceInv, PlaceInv
  <2>3. NoOrphan'
    BY ZenonT(60), <1>0, <1>6, <2>1, <2>2 DEF ResourceInv, PlaceInv, NoOrphan, kind
  <2>4. ~(pc' = "unfinalize" \/ (pc' = "decide" /\ ~obs'.exists))
    BY ZenonT(60), <1>a
  <2> QED
    BY ZenonT(60), <1>0, <1>5, <1>7, <2>1, <2>2, <2>3, <2>4 DEF ResourceInv, PlaceInv
<1>12. IntentInv'
  <2>1. ASSUME fresh, NEW f \in inst.fields, IsSet(f, kube'.spec[f]), ~Overruled(f, kube'.spec[f])
        PROVE  cr'.spec[f] = kube'.spec[f]
    <3>1. cr.spec = kube.spec
      BY ZenonT(60), <1>0, <2>1 DEF ResourceInv, IntentInv
    <3>2. CASE kube'.spec = seen.spec /\ cr'.spec = seen.mem
      BY ZenonT(60), <1>1, <2>1, <3>2 DEF Sees
    <3>3. CASE kube'.spec = kube.spec
      BY ZenonT(60), <1>1, <1>5, <2>1, <3>1, <3>3 DEF Sees
    <3> QED
      BY ZenonT(60), <1>6, <3>2, <3>3
  <2> QED
    BY ZenonT(60), <1>0, <1>a, <2>1 DEF IntentInv, IsSet, Overruled, kind
<1>13. RestInv'
  <2>1. resource' = ext[At(cr'.spec)]
    BY ZenonT(60), <1>0 DEF resource, At, kind
  <2>2. resource' = resource
    BY ZenonT(60), <1>7, <2>1 DEF resource
  <2>3. pc' = "decide" /\ KeepsTheRest /\ kind # "ResourceRecordSet"
           => Filled(cr'.spec, resource.conf)
    BY ZenonT(60), <1>1, <1>5 DEF Sees
  <2>4. pc' # "update" /\ pc' # "updateCall"
    BY ZenonT(60), <1>a
  <2> QED
    BY ZenonT(60), <1>0, <2>2, <2>3, <2>4 DEF RestInv, KeepsTheRest, Filled, IsSet, kind
<1> QED
  BY SMTT(60), <1>8, <1>9, <1>10, <1>11, <1>12, <1>13 DEF ResourceInv

\* The reconciler writes what is in memory: what people set is in it.
LEMMA PersistInv == ResourceInv /\ Persist => ResourceInv'
<1> SUFFICES ASSUME ResourceInv, Persist PROVE ResourceInv'
  OBVIOUS
<1>0. /\ UNCHANGED <<fresh, obs, budget, inst, ext, plan, touched, moved>>
      /\ pc \in {"finish", "update"} /\ pc' \in {"finish", pc} /\ late' = FALSE
  BY ZenonT(60) DEF Persist
<1>1. /\ kube \in CRs /\ cr \in CRs /\ inst \in Instances /\ cr.spec \in SpecsOf(inst)
      /\ cr.spec \in Specs
  BY ZenonT(60), <1>0, SpecsOfAssumption DEF ResourceInv, TypeOK, ManagedTypeOK, CopyInv,
     CRs
<1>2. Decoded(cr) \in CRs /\ Decoded(cr).spec = cr.spec /\ Decoded(cr).phase = cr.phase
      /\ Decoded(cr).finalizer = cr.finalizer
  BY ZenonT(60), <1>1 DEF Decoded, CRs
<1>3. /\ cr' \in CRs /\ cr'.spec = cr.spec /\ cr'.phase = cr.phase /\ cr'.finalizer = cr.finalizer
      /\ kube' \in CRs /\ kube'.phase = kube.phase /\ kube'.finalizer = kube.finalizer
      /\ kube'.spec = kube.spec \/ (fresh /\ kube'.spec = cr.spec)
  <2>1. CASE fresh
    BY ZenonT(60), <1>1, <1>2, <2>1 DEF Persist, CRs
  <2>2. CASE ~fresh
    BY ZenonT(60), <1>1, <2>2 DEF Persist
  <2> QED
    BY ZenonT(60), <2>1, <2>2
<1>4. TypeOK'
  BY ZenonT(60), <1>0, <1>1, <1>3 DEF ResourceInv, TypeOK, ManagedTypeOK, PCs
<1>5. LifecycleInv'
  BY ZenonT(60), <1>0, <1>3 DEF ResourceInv, LifecycleInv, FinalizerHolds
<1>6. CopyInv'
  BY ZenonT(60), <1>0, <1>1, <1>3 DEF ResourceInv, CopyInv
<1>7. PlaceInv'
  <2>1. At(cr.spec)' = At(cr.spec) /\ At(kube.spec)' = At(kube.spec)
    <3>1. At(cr.spec)' = At(cr'.spec) /\ At(kube.spec)' = At(kube'.spec)
      BY ZenonT(60), <1>0 DEF At, kind
    <3>2. fresh => At(cr.spec) = At(kube.spec)
      BY ZenonT(60) DEF ResourceInv, PlaceInv
    <3> QED
      BY ZenonT(60), <1>3, <3>1, <3>2
  <2>2. NoOrphan'
    BY ZenonT(60), <1>0, <1>3, <2>1 DEF ResourceInv, PlaceInv, NoOrphan, kind
  <2> QED
    BY ZenonT(60), <1>0, <1>3, <2>1, <2>2 DEF ResourceInv, PlaceInv
<1>8. IntentInv'
  <2>1. ASSUME fresh, NEW f \in inst.fields, IsSet(f, kube'.spec[f]), ~Overruled(f, kube'.spec[f])
        PROVE  cr'.spec[f] = kube'.spec[f]
    BY ZenonT(60), <1>3, <2>1 DEF ResourceInv, IntentInv
  <2> QED
    BY ZenonT(60), <1>0, <2>1 DEF IntentInv, IsSet, Overruled, kind
<1>9. RestInv'
  <2>1. /\ resource' = resource /\ pc' # "updateCall" /\ pc' # "decide"
        /\ pc' = "update" => pc = "update"
    BY ZenonT(60), <1>0, <1>3 DEF resource, At, kind
  <2> QED
    BY ZenonT(60), <1>0, <1>3, <2>1 DEF ResourceInv, RestInv, KeepsTheRest, Filled, IsSet,
       kind
<1> QED
  BY <1>4, <1>5, <1>6, <1>7, <1>8, <1>9 DEF ResourceInv

\* A change of what is at one place.
LEMMA ExtStep ==
    ASSUME TypeOK, PlaceInv, NEW p \in Places, NEW r, GoodResource(r),
           ext' = [ext EXCEPT ![p] = r], UNCHANGED inst
    PROVE  /\ (ext \in [Places -> [state : ExtStates, conf : Confs[inst] \cup {<<>>},
                                   made : BOOLEAN]])'
           /\ (\A q \in Places : Found(ext[q]) => ext[q].conf \in Confs[inst])'
           /\ \A q \in Places : ext'[q].state = "absent" => ~ext'[q].made
           /\ ext'[p] = r /\ \A q \in Places \ {p} : ext'[q] = ext[q]
BY ZenonT(60) DEF TypeOK, PlaceInv, GoodResource, Found

\* The methods of a controller that write to GCP: they only change what the copy
\* addresses, while the CR has its finalizer.
LEMMA MethodInv ==
    ASSUME ResourceInv, pc \in {"create", "updateCall", "delete"}, pc' = "finish",
           UNCHANGED <<kube, fresh, obs, budget, inst, plan, late, touched, moved>>,
           cr' \in CRs, cr'.spec = cr.spec, cr'.phase = cr.phase, cr'.finalizer = cr.finalizer,
           NEW r, GoodResource(r), ext' = [ext EXCEPT ![At(cr.spec)] = r] \/ ext' = ext
    PROVE  ResourceInv'
<1>1. At(cr.spec) \in Places /\ GoodResource(resource)
  BY ZenonT(60), ResourceTyped DEF ResourceInv
<1>2. ext[At(cr.spec)] = resource
  BY ZenonT(60) DEF resource
<1>3. PICK s : GoodResource(s) /\ ext' = [ext EXCEPT ![At(cr.spec)] = s]
  <2>1. ext = [ext EXCEPT ![At(cr.spec)] = resource]
    BY ZenonT(60), <1>1, <1>2 DEF ResourceInv, TypeOK
  <2> QED
    BY ZenonT(60), <1>1, <2>1
<1>4. /\ (ext \in [Places -> [state : ExtStates, conf : Confs[inst] \cup {<<>>},
                              made : BOOLEAN]])'
      /\ (\A q \in Places : Found(ext[q]) => ext[q].conf \in Confs[inst])'
      /\ \A q \in Places : ext'[q].state = "absent" => ~ext'[q].made
      /\ ext'[At(cr.spec)] = s /\ \A q \in Places \ {At(cr.spec)} : ext'[q] = ext[q]
  BY ZenonT(60), <1>1, <1>3, ExtStep DEF ResourceInv
<1>5. TypeOK'
  BY ZenonT(60), <1>4 DEF ResourceInv, TypeOK, ManagedTypeOK, PCs
<1>6. LifecycleInv'
  BY ZenonT(60) DEF ResourceInv, LifecycleInv, FinalizerHolds
<1>7. CopyInv'
  BY ZenonT(60) DEF ResourceInv, CopyInv
<1>8. PlaceInv'
  <2>1. At(cr.spec)' = At(cr.spec) /\ At(kube.spec)' = At(kube.spec)
    BY ZenonT(60) DEF At, kind
  <2>2. kube.finalizer /\ (~moved => At(cr.spec) = At(kube.spec))
    BY ZenonT(60) DEF ResourceInv, LifecycleInv, FinalizerHolds, PlaceInv
  <2>3. NoOrphan'
    BY ZenonT(60), <1>4, <2>1, <2>2 DEF ResourceInv, PlaceInv, NoOrphan, kind
  <2> QED
    BY ZenonT(60), <1>4, <2>1, <2>3 DEF ResourceInv, PlaceInv
<1>9. IntentInv'
  BY ZenonT(60) DEF ResourceInv, IntentInv, IsSet, Overruled, kind
<1>10. RestInv'
  BY ZenonT(60) DEF RestInv
<1> QED
  BY ZenonT(60), <1>5, <1>6, <1>7, <1>8, <1>9, <1>10 DEF ResourceInv

\* A condition in memory changes nothing else of the copy.
LEMMA ConditionedCopy ==
    ASSUME ResourceInv, NEW ready \in Readies, NEW c, c = [cr EXCEPT !.ready = Conditioned(ready)]
    PROVE  c \in CRs /\ c.spec = cr.spec /\ c.phase = cr.phase /\ c.finalizer = cr.finalizer
<1>1. cr \in CRs
  BY ZenonT(60) DEF ResourceInv, TypeOK, ManagedTypeOK
<1>2. Conditioned(ready) \in Readies
  BY ZenonT(60), <1>1 DEF Conditioned, CRs
<1> QED
  BY ZenonT(60), <1>1, <1>2 DEF CRs

\* Create keeps the invariant: the resource it makes has the finalizer's CR.
LEMMA CreateInv == ResourceInv /\ Create => ResourceInv'
<1> SUFFICES ASSUME ResourceInv, Create PROVE ResourceInv'
  OBVIOUS
<1> DEFINE c == CreateOf(kind, cr.spec)
<1>0. /\ UNCHANGED <<kube, fresh, obs, budget, inst, plan, late, touched, moved>>
      /\ pc = "create" /\ pc' = "finish"
  BY ZenonT(60) DEF Create
<1>1. inst \in Instances /\ cr.spec \in SpecsOf(inst) /\ cr \in CRs
  BY ZenonT(60), <1>0 DEF ResourceInv, TypeOK, ManagedTypeOK, CopyInv
<1>2. /\ c.ready \in Readies
      /\ kind \in PolicyKinds \cup {"Connection"} => Sends(c.set, cr.spec)
      /\ kind \in PolicyKinds => DOMAIN c.set = inst.fields
  BY ZenonT(60), <1>1, CreateTyped
<1> HIDE DEF c
<1>3. cr' \in {cr, [cr EXCEPT !.ready = Conditioned(c.ready)]}
  BY ZenonT(60) DEF Create, c
<1>4. cr' \in CRs /\ cr'.spec = cr.spec /\ cr'.phase = cr.phase /\ cr'.finalizer = cr.finalizer
  BY ZenonT(60), <1>1, <1>2, <1>3, ConditionedCopy
<1>5. CASE /\ resource.state = "absent"
           /\ \E conf \in Created(c.set, cr.spec) :
                 ext' = [ext EXCEPT ![At(cr.spec)] =
                            [state |-> IF kind \in Slow THEN "creating" ELSE "ready",
                             conf |-> conf, made |-> TRUE]]
  <2>1. PICK conf \in Created(c.set, cr.spec) :
                 ext' = [ext EXCEPT ![At(cr.spec)] =
                            [state |-> IF kind \in Slow THEN "creating" ELSE "ready",
                             conf |-> conf, made |-> TRUE]]
    BY ZenonT(60), <1>5
  <2>2. conf \in Confs[inst]
    BY ZenonT(60) DEF Created, Placed
  <2>3. GoodResource([state |-> IF kind \in Slow THEN "creating" ELSE "ready",
                      conf |-> conf, made |-> TRUE])
    BY ZenonT(60), <2>2 DEF GoodResource, ExtStates
  <2> QED
    BY ZenonT(60), <1>0, <1>4, <2>1, <2>3, MethodInv
<1>6. CASE ext' = IF /\ kind \in PolicyKinds \cup {"Connection"}
                     /\ resource.state \notin {"absent", "deleting"}
                  THEN [ext EXCEPT ![At(cr.spec)] = Stored(c.set)] ELSE ext
  <2>1. CASE kind \in PolicyKinds \cup {"Connection"} /\ resource.state # "absent"
    <3>1. kind # "GlobalAddress"
      BY ZenonT(60), <2>1 DEF PolicyKinds
    <3>2. \A f \in inst.fields \cap DOMAIN c.set : c.set[f] \in ConfValues(kind, f)
      BY ZenonT(60), <1>1, <1>2, <2>1, <3>1, SendsTyped
    <3>3. GoodResource(Stored(c.set))
      BY ZenonT(60), <1>0, <2>1, <3>2, StoredGood DEF ResourceInv
    <3> QED
      BY ZenonT(60), <1>0, <1>4, <1>6, <3>3, MethodInv
  <2>2. CASE ~(kind \in PolicyKinds \cup {"Connection"} /\ resource.state # "absent")
    <3>1. ext' = ext
      BY ZenonT(60), <1>6, <2>2
    <3> QED
      BY ZenonT(60), <1>0, <1>4, <3>1, AbsentGood, MethodInv
  <2> QED
    BY ZenonT(60), <2>1, <2>2
<1> QED
  BY ZenonT(60), <1>5, <1>6 DEF Create, c

\* Update up to its call: the request is typed, and keeps what is not set.
LEMMA UpdateInv == ResourceInv /\ Update => ResourceInv'
<1> SUFFICES ASSUME ResourceInv, Update PROVE ResourceInv'
  OBVIOUS
<1> DEFINE u == UpdateOf(kind, cr.spec, resource.conf)
<1>0. /\ UNCHANGED <<kube, cr, fresh, obs, budget, inst, ext, late, moved>>
      /\ pc = "update" /\ touched' = (touched /\ kind \notin PolicyKinds)
  BY ZenonT(60) DEF Update
<1>1. inst \in Instances /\ cr.spec \in SpecsOf(inst) /\ touched \in BOOLEAN
  BY ZenonT(60), <1>0 DEF ResourceInv, TypeOK, CopyInv
<1>2. Plans(u, cr.spec)
  BY ZenonT(60), <1>1, UpdatePlans
<1>3. \/ pc' = "finish" /\ plan' = plan
      \/ /\ plan' = u
         /\ pc' = CASE u.call = "none" -> "finish"
                    [] u.call = "patch" -> "updateCall"
                    [] u.call = "panic" -> "panic"
  BY ZenonT(60) DEF Update
<1> HIDE DEF u
<1>4. /\ pc' \in {"finish", "updateCall", "panic"}
      /\ pc' = "updateCall" => plan' = u /\ u.call = "patch"
      /\ plan' \in {plan, u}
  BY ZenonT(60), <1>2, <1>3 DEF Plans
<1>5. TypeOK'
  <2>1. plan'.call \in {"none", "patch", "panic"} /\ touched' \in BOOLEAN
    BY ZenonT(60), <1>0, <1>1, <1>2, <1>4 DEF Plans, ResourceInv, TypeOK
  <2> QED
    BY ZenonT(60), <1>0, <1>4, <2>1 DEF ResourceInv, TypeOK, ManagedTypeOK, PCs
<1>6. LifecycleInv'
  BY ZenonT(60), <1>0, <1>4 DEF ResourceInv, LifecycleInv, FinalizerHolds
<1>7. CopyInv'
  <2>1. ASSUME pc' = "updateCall"
        PROVE  /\ \A f \in inst.fields \cap DOMAIN u.set : u.set[f] \in ConfValues(kind, f)
               /\ kind \in PolicyKinds => u.set = [f \in inst.fields |-> u.set[f]]
    <3>1. kind # "GlobalAddress"
      BY ZenonT(60), <1>4, <2>1 DEF u, UpdateOf, GlobalAddressUpdate, NoCall, PolicyKinds
    <3> QED
      BY ZenonT(60), <1>1, <1>2, <1>4, <2>1, <3>1, SendsTyped DEF Plans
  <2> QED
    BY ZenonT(60), <1>0, <1>1, <1>4, <2>1 DEF CopyInv, kind
<1>8. PlaceInv'
  BY ZenonT(60), <1>0, <1>4 DEF ResourceInv, PlaceInv, NoOrphan, At, kind
<1>9. IntentInv'
  BY ZenonT(60), <1>0, <1>4 DEF ResourceInv, IntentInv, IsSet, Overruled, kind
<1>10. RestInv'
  <2>1. ASSUME KeepsTheRest, pc' = "updateCall", ~touched', Found(resource),
               NEW f \in inst.fields \cap DOMAIN u.set
        PROVE  IsSet(f, cr.spec[f]) \/ u.set[f] = resource.conf[f]
    <3>1. ~touched
      BY ZenonT(60), <1>0, <1>1, <2>1 DEF KeepsTheRest
    <3>2. CASE kind = "ResourceRecordSet"
      BY ZenonT(60), <1>2, <1>4, <2>1, <3>2 DEF Plans
    <3>3. CASE kind # "ResourceRecordSet"
      <4>1. Filled(cr.spec, resource.conf)
        BY ZenonT(60), <1>0, <2>1, <3>1, <3>3 DEF ResourceInv, RestInv, LifecycleInv,
           FinalizerHolds
      <4> QED
        BY SMTT(60), <1>1, <1>2, <1>4, <2>1, <4>1, SendsKeeps DEF Plans
    <3> QED
      BY ZenonT(60), <3>2, <3>3
  <2>2. resource' = resource
    BY ZenonT(60), <1>0 DEF resource, At, kind
  <2> QED
    BY ZenonT(60), <1>0, <1>4, <2>1, <2>2 DEF RestInv, KeepsTheRest, IsSet, Found, kind
<1> QED
  BY <1>5, <1>6, <1>7, <1>8, <1>9, <1>10 DEF ResourceInv

\* The call of Update keeps the invariant, accepted or refused.
LEMMA UpdateCallInv == ResourceInv /\ UpdateCall => ResourceInv'
<1> SUFFICES ASSUME ResourceInv, UpdateCall PROVE ResourceInv'
  OBVIOUS
<1>0. /\ UNCHANGED <<kube, cr, fresh, obs, budget, inst, plan, late, touched, moved>>
      /\ pc = "updateCall" /\ pc' = "finish" /\ cr \in CRs
  BY ZenonT(60) DEF UpdateCall, ResourceInv, TypeOK, ManagedTypeOK
<1>1. CASE ext' = ext
  BY ZenonT(60), <1>0, <1>1, AbsentGood, MethodInv
<1>2. CASE /\ kind \in PolicyKinds \/ resource.state \notin {"absent", "deleting"}
           /\ ext' = [ext EXCEPT ![At(cr.spec)] = Stored(plan.set)]
  <2> DEFINE set == plan.set
  <2>1. \A f \in inst.fields \cap DOMAIN set : set[f] \in ConfValues(kind, f)
    BY ZenonT(60), <1>0 DEF ResourceInv, CopyInv
  <2>2. kind \in PolicyKinds => set = [f \in inst.fields |-> set[f]]
    BY ZenonT(60), <1>0 DEF ResourceInv, CopyInv
  <2> HIDE DEF set
  <2>3. GoodResource(Stored(set))
    BY ZenonT(60), <1>0, <1>2, <2>1, <2>2, StoredGood DEF ResourceInv
  <2> QED
    BY ZenonT(60), <1>0, <1>2, <2>3, MethodInv DEF set
<1> QED
  BY ZenonT(60), <1>1, <1>2 DEF UpdateCall

\* Delete keeps the invariant, with a call or without.
LEMMA DeleteInv == ResourceInv /\ Delete => ResourceInv'
<1> SUFFICES ASSUME ResourceInv, Delete PROVE ResourceInv'
  OBVIOUS
<1>0. /\ UNCHANGED <<kube, fresh, obs, budget, inst, plan, late, touched, moved>>
      /\ pc = "delete" /\ pc' = "finish" /\ inst \in Instances
  BY ZenonT(60) DEF Delete, ResourceInv, TypeOK
<1>1. cr' \in CRs /\ cr'.spec = cr.spec /\ cr'.phase = cr.phase /\ cr'.finalizer = cr.finalizer
  BY ZenonT(60), <1>0, ConditionedCopy, DeleteTyped DEF Delete
<1>2. CASE ext' = ext
  BY ZenonT(60), <1>0, <1>1, <1>2, AbsentGood, MethodInv
<1>3. CASE /\ resource.state # "absent"
           /\ ext' = [ext EXCEPT ![At(cr.spec)] =
                        IF kind \in Slow THEN [@ EXCEPT !.state = "deleting"] ELSE Absent]
  <2> DEFINE r == IF kind \in Slow THEN [resource EXCEPT !.state = "deleting"] ELSE Absent
  <2>1. ext' = [ext EXCEPT ![At(cr.spec)] = r]
    BY ZenonT(60), <1>3 DEF resource
  <2>2. GoodResource(r)
    BY ZenonT(60), <1>0, <1>3, ResourceTyped, AbsentGood DEF ResourceInv, GoodResource,
       ExtStates
  <2> QED
    BY ZenonT(60), <1>0, <1>1, <2>1, <2>2, MethodInv
<1> QED
  BY ZenonT(60), <1>2, <1>3 DEF Delete

\* A step that leaves the CR, what is in GCP and the request alone, and ends the
\* reconcile's work.
LEMMA GiveUpInv ==
    ASSUME ResourceInv, pc # "idle", pc' = "finish", budget' \in Nat,
           UNCHANGED <<kube, fresh, obs, inst, ext, plan, late, touched, moved>>,
           cr' \in CRs, cr'.spec = cr.spec, cr'.phase = cr.phase, cr'.finalizer = cr.finalizer
    PROVE  ResourceInv'
<1>1. TypeOK'
  BY ZenonT(60) DEF ResourceInv, TypeOK, ManagedTypeOK, PCs
<1>2. LifecycleInv'
  BY ZenonT(60) DEF ResourceInv, LifecycleInv, FinalizerHolds
<1>3. CopyInv'
  BY ZenonT(60) DEF ResourceInv, CopyInv
<1>4. PlaceInv'
  BY ZenonT(60) DEF ResourceInv, PlaceInv, NoOrphan, At, kind
<1>5. IntentInv'
  BY ZenonT(60) DEF ResourceInv, IntentInv, IsSet, Overruled, kind
<1>6. RestInv'
  BY ZenonT(60) DEF RestInv
<1> QED
  BY ZenonT(60), <1>1, <1>2, <1>3, <1>4, <1>5, <1>6 DEF ResourceInv

\* A call that fails keeps the invariant.
LEMMA CallFailsInv == ResourceInv /\ CallFails => ResourceInv'
<1> SUFFICES ASSUME ResourceInv, CallFails PROVE ResourceInv'
  OBVIOUS
<1>0. /\ UNCHANGED <<kube, fresh, obs, inst, ext, plan, late, touched, moved>>
      /\ pc # "idle" /\ pc' = "finish"
  BY ZenonT(60) DEF CallFails
<1>1. budget' \in Nat /\ inst \in Instances /\ cr \in CRs /\ cr.spec \in SpecsOf(inst)
  BY ZenonT(60), <1>0, DisturbType DEF CallFails, ResourceInv, TypeOK, ManagedTypeOK,
     CopyInv
<1>2. cr' \in {cr, [cr EXCEPT !.ready = Conditioned(CreateOf(kind, cr.spec).ready)],
               [cr EXCEPT !.ready = Conditioned(DeleteOf(kind).ready)]}
  BY ZenonT(60) DEF CallFails
<1>3. cr' \in CRs /\ cr'.spec = cr.spec /\ cr'.phase = cr.phase /\ cr'.finalizer = cr.finalizer
  BY ZenonT(60), <1>1, <1>2, ConditionedCopy, CreateTyped, DeleteTyped
<1> QED
  BY ZenonT(60), <1>0, <1>1, <1>3, GiveUpInv

\* The end of a reconcile, also by a crash: the finalizer is only removed when
\* nothing that was made is left.
LEMMA EndInv ==
    ASSUME ResourceInv, (ManagedStep \/ Crash), Idle, kube'.spec = kube.spec,
           kube'.finalizer = kube.finalizer \/ pc = "unfinalize",
           plan' = NoCall, late' = FALSE, touched' = FALSE, UNCHANGED <<inst, ext, moved>>
    PROVE  ResourceInv'
<1>0. ~fresh' /\ ~cr'.finalizer /\ pc' = "idle"
  BY ZenonT(60), BlankType DEF Idle
<1>1. TypeOK'
  <2>1. ManagedTypeOK'
    BY ZenonT(60), ManagedStepType, CrashType DEF ResourceInv, TypeOK
  <2> QED
    BY ZenonT(60), <2>1 DEF ResourceInv, TypeOK, NoCall
<1>2. LifecycleInv'
  BY ZenonT(60), LifecycleStepInv, LifecycleCrashInv DEF ResourceInv, TypeOK
<1>3. CopyInv'
  BY ZenonT(60), <1>0 DEF CopyInv
<1>4. PlaceInv'
  <2>1. At(kube.spec)' = At(kube.spec)
    BY ZenonT(60) DEF At, kind
  <2>2. NoOrphan'
    BY ZenonT(60), <2>1 DEF ResourceInv, PlaceInv, NoOrphan, kind
  <2> QED
    BY ZenonT(60), <1>0, <2>2 DEF ResourceInv, PlaceInv
<1>5. IntentInv'
  BY ZenonT(60), <1>0 DEF IntentInv
<1>6. RestInv'
  BY ZenonT(60), <1>0 DEF RestInv
<1> QED
  BY ZenonT(60), <1>1, <1>2, <1>3, <1>4, <1>5, <1>6 DEF ResourceInv

\* A reconcile starts with a copy that is the stored CR.
LEMMA StartInv ==
    ASSUME ResourceInv, Start, UNCHANGED <<inst, ext, moved, plan, late, touched>>
    PROVE  ResourceInv'
<1>0. cr' = kube /\ kube' = kube /\ fresh' = TRUE /\ pc' = "observe" /\ kube.phase # "gone"
      /\ UNCHANGED <<obs, budget>>
  BY ZenonT(60) DEF Start
<1>1. TypeOK'
  <2>1. ManagedTypeOK'
    BY ZenonT(60), ManagedStepType DEF ResourceInv, TypeOK, ManagedStep
  <2> QED
    BY ZenonT(60), <1>0, <2>1 DEF ResourceInv, TypeOK
<1>2. LifecycleInv'
  BY ZenonT(60), LifecycleStepInv DEF ResourceInv, TypeOK, ManagedStep
<1>3. CopyInv'
  BY ZenonT(60), <1>0 DEF ResourceInv, TypeOK, CopyInv
<1>4. PlaceInv'
  <2>1. NoOrphan'
    BY ZenonT(60), <1>0 DEF ResourceInv, PlaceInv, NoOrphan, At, kind
  <2> QED
    BY ZenonT(60), <1>0, <2>1 DEF ResourceInv, PlaceInv, At
<1>5. IntentInv'
  BY ZenonT(60), <1>0 DEF IntentInv
<1>6. RestInv'
  BY ZenonT(60), <1>0 DEF RestInv
<1> QED
  BY ZenonT(60), <1>1, <1>2, <1>3, <1>4, <1>5, <1>6 DEF ResourceInv

\* The reconciler's choice for a deleted CR keeps the invariant.
LEMMA DecideDeletingInv ==
    ASSUME ResourceInv, DecideDeleting, UNCHANGED <<inst, ext, moved, plan, late, touched>>
    PROVE  ResourceInv'
<1>0. /\ UNCHANGED <<kube, cr, fresh, obs, budget>>
      /\ pc = "decide" /\ cr.phase = "deleting"
      /\ pc' = IF obs.exists THEN "delete" ELSE "unfinalize"
  BY ZenonT(60) DEF DecideDeleting
<1>1. TypeOK'
  BY ZenonT(60), <1>0 DEF ResourceInv, TypeOK, ManagedTypeOK, PCs
<1>2. LifecycleInv'
  BY ZenonT(60), LifecycleStepInv DEF ResourceInv, TypeOK, ManagedStep
<1>3. CopyInv'
  BY ZenonT(60), <1>0 DEF ResourceInv, CopyInv
<1>4. PlaceInv'
  BY ZenonT(60), <1>0 DEF ResourceInv, PlaceInv, NoOrphan, At, kind
<1>5. IntentInv'
  BY ZenonT(60), <1>0 DEF ResourceInv, IntentInv, IsSet, Overruled, kind
<1>6. RestInv'
  BY ZenonT(60), <1>0 DEF RestInv
<1> QED
  BY ZenonT(60), <1>1, <1>2, <1>3, <1>4, <1>5, <1>6 DEF ResourceInv

\* A live CR gets its finalizer with what is in memory.
LEMMA DecideLiveInv ==
    ASSUME ResourceInv, DecideLive, UNCHANGED <<inst, ext, moved, plan, late, touched>>
    PROVE  ResourceInv'
<1>0. /\ UNCHANGED <<fresh, obs, budget>>
      /\ pc = "decide" /\ cr.phase = "live" /\ pc' \in {"create", "update", "finish"}
      /\ pc' = "update" => obs.exists
  BY ZenonT(60) DEF DecideLive, Dispatch, ResourceInv, TypeOK, ManagedTypeOK, Observations
<1>1. cr.spec \in SpecsOf(inst) /\ cr \in CRs /\ kube \in CRs
  BY ZenonT(60), <1>0 DEF ResourceInv, CopyInv, TypeOK, ManagedTypeOK
<1>2. \/ kube' = kube /\ cr' = cr
      \/ /\ fresh /\ cr'.spec = cr.spec /\ cr'.phase = "live" /\ cr'.finalizer
         /\ kube'.spec = cr.spec /\ kube'.finalizer
  BY ZenonT(60), <1>0, <1>1 DEF DecideLive, Decoded, CRs
<1>3. cr'.spec = cr.spec /\ cr'.phase = "live"
  BY ZenonT(60), <1>0, <1>2
<1>4. TypeOK'
  <2>1. ManagedTypeOK'
    BY ZenonT(60), ManagedStepType DEF ResourceInv, TypeOK, ManagedStep
  <2> QED
    BY ZenonT(60), <1>1, <1>2, <2>1 DEF ResourceInv, TypeOK
<1>5. LifecycleInv'
  BY ZenonT(60), LifecycleStepInv DEF ResourceInv, TypeOK, ManagedStep
<1>6. CopyInv'
  BY ZenonT(60), <1>0, <1>1, <1>3 DEF ResourceInv, CopyInv
<1>7. PlaceInv'
  <2>1. At(cr.spec)' = At(cr.spec) /\ At(kube.spec)' = At(kube'.spec)
    BY ZenonT(60), <1>3 DEF At, kind
  <2>2. /\ At(kube'.spec) = At(kube.spec) /\ (kube.finalizer => kube'.finalizer)
        /\ fresh \/ (cr'.finalizer /\ ~moved) => At(cr.spec) = At(kube.spec)
    BY ZenonT(60), <1>2 DEF ResourceInv, PlaceInv
  <2>3. NoOrphan'
    BY ZenonT(60), <2>1, <2>2 DEF ResourceInv, PlaceInv, NoOrphan, kind
  <2> QED
    BY ZenonT(60), <1>0, <1>3, <2>1, <2>2, <2>3 DEF ResourceInv, PlaceInv
<1>8. IntentInv'
  <2>1. ASSUME fresh, NEW f \in inst.fields, IsSet(f, kube'.spec[f]), ~Overruled(f, kube'.spec[f])
        PROVE  cr'.spec[f] = kube'.spec[f]
    BY ZenonT(60), <1>2, <2>1 DEF ResourceInv, IntentInv
  <2> QED
    BY ZenonT(60), <1>0, <2>1 DEF IntentInv, IsSet, Overruled, kind
<1>9. RestInv'
  <2>1. resource' = resource
    BY ZenonT(60), <1>3 DEF resource, At, kind
  <2> QED
    BY ZenonT(60), <1>0, <1>3, <2>1 DEF ResourceInv, RestInv, KeepsTheRest, Filled, IsSet,
       kind
<1> QED
  BY SMTT(60), <1>4, <1>5, <1>6, <1>7, <1>8, <1>9 DEF ResourceInv

\* Every step of a reconcile keeps the invariant.
LEMMA ReconcileInv == ResourceInv /\ Reconcile => ResourceInv'
<1> SUFFICES ASSUME ResourceInv, Reconcile PROVE ResourceInv'
  OBVIOUS
<1>0. /\ UNCHANGED <<inst, ext, moved>>
      /\ pc' = "idle" => plan' = NoCall /\ late' = FALSE /\ touched' = FALSE
      /\ pc' # "idle" => UNCHANGED <<plan, late, touched>>
  BY ZenonT(60) DEF Reconcile
<1>1. CASE Start
  <2>1. pc' # "idle"
    BY ZenonT(60), <1>1 DEF Start
  <2> QED
    BY ZenonT(60), <1>0, <1>1, <2>1, StartInv
<1>2. CASE DecideDeleting
  <2>1. pc' # "idle"
    BY ZenonT(60), <1>2 DEF DecideDeleting
  <2> QED
    BY ZenonT(60), <1>0, <1>2, <2>1, DecideDeletingInv
<1>3. CASE DecideLive
  <2>1. pc' # "idle"
    BY ZenonT(60), <1>3 DEF DecideLive, Dispatch, ResourceInv, TypeOK, ManagedTypeOK,
       Observations
  <2> QED
    BY SMTT(60), <1>0, <1>3, <2>1, DecideLiveInv
<1>4. CASE Unfinalize \/ Finish \/ Restart \/ Crash
  <2>1. Idle /\ pc' = "idle" /\ (ManagedStep \/ Crash)
    BY ZenonT(60), <1>4 DEF Unfinalize, Finish, Restart, Crash, Idle, ManagedStep
  <2>2. kube \in CRs
    BY ZenonT(60) DEF ResourceInv, TypeOK, ManagedTypeOK
  <2>3. kube'.spec = kube.spec /\ (kube'.finalizer = kube.finalizer \/ pc = "unfinalize")
    BY ZenonT(60), <1>4, <2>2 DEF Unfinalize, Finish, Restart, Crash, CRs
  <2> QED
    BY ZenonT(60), <1>0, <2>1, <2>3, EndInv
<1> QED
  BY ZenonT(60), <1>1, <1>2, <1>3, <1>4 DEF Reconcile, ManagedStep

\* Others change what is at one place without making anything: the invariant
\* is kept if the change is of something that is read again, that is recorded as
\* touched, or that leaves the configuration alone.
LEMMA OthersInv ==
    ASSUME ResourceInv, NEW p \in Places, NEW r, GoodResource(r), r.made => ext[p].made,
           ext' = [ext EXCEPT ![p] = r],
           UNCHANGED <<kube, cr, fresh, obs, pc, inst, plan, late, moved>>,
           budget' \in Nat, touched' \in BOOLEAN, touched => touched',
           \/ pc \in {"idle", "observe"}
           \/ p # At(cr.spec)
           \/ touched'
           \/ ~Found(r)
           \/ Found(ext[p]) /\ r.conf = ext[p].conf
    PROVE  ResourceInv'
<1>1. /\ (ext \in [Places -> [state : ExtStates, conf : Confs[inst] \cup {<<>>},
                              made : BOOLEAN]])'
      /\ (\A q \in Places : Found(ext[q]) => ext[q].conf \in Confs[inst])'
      /\ \A q \in Places : ext'[q].state = "absent" => ~ext'[q].made
      /\ ext'[p] = r /\ \A q \in Places \ {p} : ext'[q] = ext[q]
  BY ZenonT(60), ExtStep DEF ResourceInv
<1>2. \A q \in Places : ext'[q].made => ext[q].made
  BY ZenonT(60), <1>1
<1>3. TypeOK'
  BY ZenonT(60), <1>1 DEF ResourceInv, TypeOK, ManagedTypeOK
<1>4. LifecycleInv'
  BY ZenonT(60) DEF ResourceInv, LifecycleInv, FinalizerHolds
<1>5. CopyInv'
  BY ZenonT(60) DEF ResourceInv, CopyInv, kind
<1>6. PlaceInv'
  <2>1. At(cr.spec)' = At(cr.spec) /\ At(kube.spec)' = At(kube.spec)
    BY ZenonT(60) DEF At, kind
  <2>2. NoOrphan'
    BY ZenonT(60), <1>2, <2>1 DEF ResourceInv, PlaceInv, NoOrphan, kind
  <2> QED
    BY ZenonT(60), <1>1, <1>2, <2>1, <2>2 DEF ResourceInv, PlaceInv, kind
<1>7. IntentInv'
  BY ZenonT(60) DEF ResourceInv, IntentInv, IsSet, Overruled, kind
<1>8. RestInv'
  <2>1. resource' = ext'[At(cr.spec)]
    BY ZenonT(60) DEF resource, At, kind
  <2>2. CASE pc \in {"idle", "observe"} \/ touched'
    BY ZenonT(60), <2>2 DEF RestInv
  <2>3. CASE pc \notin {"idle", "observe"} /\ ~touched'
    <3>1. At(cr.spec) \in Places
      BY ZenonT(60), <2>3, ResourceTyped DEF ResourceInv
    <3>2. Found(resource') => Found(resource) /\ resource'.conf = resource.conf
      BY ZenonT(60), <1>1, <2>1, <2>3, <3>1 DEF resource, Found
    <3>3. ~touched
      BY ZenonT(60), <2>3
    <3> QED
      BY ZenonT(60), <3>2, <3>3 DEF ResourceInv, RestInv, KeepsTheRest, Filled, IsSet,
         Found, kind
  <2> QED
    BY ZenonT(60), <2>2, <2>3
<1> QED
  BY ZenonT(60), <1>3, <1>4, <1>5, <1>6, <1>7, <1>8 DEF ResourceInv

\* The end of a long-running operation keeps the invariant.
LEMMA OperationDoneInv == ResourceInv /\ OperationDone => ResourceInv'
<1> SUFFICES ASSUME ResourceInv, OperationDone PROVE ResourceInv'
  OBVIOUS
<1> DEFINE r(p) == IF ext[p].state = "creating" THEN [ext[p] EXCEPT !.state = "ready"] ELSE Absent
<1>1. PICK p \in Places : /\ ext[p].state \in {"creating", "deleting"}
                          /\ ext' = [ext EXCEPT ![p] = r(p)]
  BY ZenonT(60) DEF OperationDone
<1>2. UNCHANGED <<kube, cr, fresh, obs, pc, budget, inst, plan, late, touched, moved>>
  BY ZenonT(60) DEF OperationDone, managedVars
<1>3. GoodResource(ext[p]) /\ touched \in BOOLEAN /\ budget \in Nat
  BY ZenonT(60) DEF ResourceInv, TypeOK, PlaceInv, GoodResource, Found, ManagedTypeOK
<1>4. GoodResource(r(p)) /\ (r(p).made => ext[p].made)
  BY ZenonT(60), <1>1, <1>3, AbsentGood DEF GoodResource, ExtStates, Absent
<1>5. ~Found(r(p)) \/ (Found(ext[p]) /\ r(p).conf = ext[p].conf)
  BY ZenonT(60), <1>1, <1>3 DEF GoodResource, Absent, Found
<1> HIDE DEF r
<1> QED
  BY ZenonT(60), <1>1, <1>2, <1>3, <1>4, <1>5, OthersInv

\* A change of the resource by somebody else keeps the invariant.
LEMMA SomebodyInv == ResourceInv /\ Somebody => ResourceInv'
<1> SUFFICES ASSUME ResourceInv, Somebody PROVE ResourceInv'
  OBVIOUS
<1>1. PICK p \in IF PlaceField(kind) \in inst.fields THEN Places ELSE {Home} :
         /\ \/ /\ ext[p].state = "absent"
               /\ \E c \in Placed(p) : ext' = [ext EXCEPT ![p] = Foreign(c)]
            \/ /\ ext[p].state = "ready"
               /\ \E f \in inst.fields \ {PlaceField(kind)} :
                     \E v \in ConfValues(kind, f) \ {ext[p].conf[f]} :
                        ext' = [ext EXCEPT ![p] = Present([@ EXCEPT !.conf[f] = v])]
            \/ /\ kind = "Connection" /\ ext[p].state = "ready"
               /\ \E s \in {"inactive", "unpeered", "unlisted"} : ext' = [ext EXCEPT ![p].state = s]
            \/ /\ ext[p].state = "ready"
               /\ ext' = [ext EXCEPT ![p] = Absent]
         /\ touched' = (touched \/ (pc \notin {"idle", "observe"} /\ p = At(cr.spec)))
  BY ZenonT(60) DEF Somebody
<1>2. UNCHANGED <<kube, cr, fresh, obs, pc, inst, plan, late, moved>>
  BY ZenonT(60) DEF Somebody
<1>3. p \in Places /\ inst \in Instances
  BY ZenonT(60), PlacesAssumption DEF ResourceInv, TypeOK
<1>4. GoodResource(ext[p]) /\ touched \in BOOLEAN /\ budget' \in Nat
  BY ZenonT(60), <1>3, DisturbType
  DEF Somebody, ResourceInv, TypeOK, PlaceInv, GoodResource, Found, ManagedTypeOK
<1>5. /\ touched' \in BOOLEAN /\ (touched => touched')
      /\ pc \in {"idle", "observe"} \/ p # At(cr.spec) \/ touched'
  BY ZenonT(60), <1>1, <1>4
<1> DEFINE Becomes ==
      \E r : GoodResource(r) /\ (r.made => ext[p].made) /\ ext' = [ext EXCEPT ![p] = r]
<1>6. Becomes
  <2>1. ASSUME NEW c \in Placed(p), ext' = [ext EXCEPT ![p] = Foreign(c)]
        PROVE  Becomes
    <3>1. GoodResource(Foreign(c)) /\ ~Foreign(c).made
      BY ZenonT(60) DEF Placed, Foreign, GoodResource, ExtStates
    <3> QED
      BY ZenonT(60), <2>1, <3>1
  <2>2. ASSUME ext[p].state = "ready", NEW f \in inst.fields, NEW v \in ConfValues(kind, f),
               ext' = [ext EXCEPT ![p] = Present([@ EXCEPT !.conf[f] = v])]
        PROVE  Becomes
    <3> DEFINE conf == [ext[p].conf EXCEPT ![f] = v]
               r == [ext[p] EXCEPT !.conf = conf]
    <3>1. ext[p].conf \in Confs[inst]
      BY ZenonT(60), <1>4, <2>2 DEF GoodResource
    <3>2. conf = [g \in inst.fields |-> IF g = f THEN v ELSE ext[p].conf[g]]
          /\ \A g \in inst.fields : ext[p].conf[g] \in ConfValues(kind, g)
      BY ZenonT(60), <1>3, <3>1, ConfElim DEF kind
    <3>3. ext' = [ext EXCEPT ![p] = Present(r)]
      BY ZenonT(60), <2>2
    <3> HIDE DEF conf
    <3>4. conf = [g \in inst.fields |-> conf[g]]
          /\ \A g \in inst.fields : conf[g] \in ConfValues(kind, g)
      BY ZenonT(60), <3>2
    <3>5. r = [state |-> "ready", conf |-> conf, made |-> ext[p].made] /\ ext[p].made \in BOOLEAN
      BY SMTT(60), <1>4, <2>2 DEF GoodResource
    <3>6. "ready" \in ExtStates \ {"absent"}
      BY ZenonT(60) DEF ExtStates
    <3> HIDE DEF r
    <3>7. GoodResource(Present(r))
      BY ZenonT(60), <1>3, <3>4, <3>5, <3>6, PresentGood
    <3>8. Present(r).made => ext[p].made
      BY ZenonT(60), <3>5 DEF Present, Absent
    <3> QED
      BY ZenonT(60), <3>3, <3>7, <3>8
  <2>3. ASSUME ext[p].state = "ready", NEW s \in {"inactive", "unpeered", "unlisted"},
               ext' = [ext EXCEPT ![p].state = s]
        PROVE  Becomes
    <3> DEFINE r == [ext[p] EXCEPT !.state = s]
    <3>1. ext' = [ext EXCEPT ![p] = r]
      BY ZenonT(60), <2>3
    <3>2. GoodResource(r) /\ (r.made => ext[p].made)
      BY ZenonT(60), <1>4, <2>3 DEF GoodResource, ExtStates
    <3> QED
      BY ZenonT(60), <3>1, <3>2
  <2>4. CASE ext' = [ext EXCEPT ![p] = Absent]
    <3>1. ~Absent.made
      BY ZenonT(60) DEF Absent
    <3> QED
      BY ZenonT(60), <2>4, <3>1, AbsentGood
  <2> QED
    BY ZenonT(60), <1>1, <2>1, <2>2, <2>3, <2>4
<1>7. PICK r : GoodResource(r) /\ (r.made => ext[p].made) /\ ext' = [ext EXCEPT ![p] = r]
  BY ZenonT(60), <1>6
<1> QED
  BY ZenonT(60), <1>2, <1>3, <1>4, <1>5, <1>7, OthersInv

\* People write the CR: the copy is no longer fresh, and who changes the place
\* moves the CR; one that is created has nothing in GCP.
LEMMA PeopleInv ==
    ASSUME ResourceInv, UserStep, kube'.spec \in SpecsOf(inst),
           moved' \in BOOLEAN, moved => moved',
           moved' \/ At(kube'.spec) = At(kube.spec) \/ ~kube.finalizer,
           kube.finalizer => kube'.finalizer,
           UNCHANGED <<inst, ext, plan, late, touched>>
    PROVE  ResourceInv'
<1>0. UNCHANGED <<cr, obs, pc>> /\ fresh' = FALSE
  BY ZenonT(60) DEF UserStep, UserCreate, UserEdit, UserDelete
<1>1. TypeOK'
  <2>1. ManagedTypeOK'
    BY ZenonT(60), UserStepType DEF ResourceInv, TypeOK
  <2> QED
    BY ZenonT(60), <2>1 DEF ResourceInv, TypeOK
<1>2. LifecycleInv'
  BY ZenonT(60), LifecycleUserInv DEF ResourceInv, TypeOK
<1>3. CopyInv'
  BY ZenonT(60), <1>0 DEF ResourceInv, CopyInv, kind
<1>4. PlaceInv'
  <2>1. At(cr.spec)' = At(cr.spec) /\ At(kube.spec)' = At(kube'.spec)
    BY ZenonT(60), <1>0 DEF At, kind
  <2>2. cr.finalizer => kube.finalizer
    BY ZenonT(60) DEF ResourceInv, LifecycleInv, FinalizerHolds
  <2>3. NoOrphan'
    BY ZenonT(60), <2>1 DEF ResourceInv, TypeOK, PlaceInv, NoOrphan, kind
  <2> QED
    BY ZenonT(60), <1>0, <2>1, <2>2, <2>3 DEF ResourceInv, TypeOK, PlaceInv, kind
<1>5. IntentInv'
  BY ZenonT(60), <1>0 DEF IntentInv
<1>6. RestInv'
  <2>1. resource' = resource
    BY ZenonT(60), <1>0 DEF resource, At, kind
  <2> QED
    BY ZenonT(60), <1>0, <2>1 DEF ResourceInv, RestInv, KeepsTheRest, Filled, IsSet, kind
<1> QED
  BY ZenonT(60), <1>1, <1>2, <1>3, <1>4, <1>5, <1>6 DEF ResourceInv

\* A person who writes the spec keeps the invariant.
LEMMA PeopleWriteInv == ResourceInv /\ PeopleWrite => ResourceInv'
<1> SUFFICES ASSUME ResourceInv, PeopleWrite PROVE ResourceInv'
  OBVIOUS
<1>1. PICK s \in Written[inst] :
         IF kube.phase = "gone"
         THEN kube' = NewCR(s) /\ UNCHANGED moved
         ELSE /\ s # kube.spec
              /\ kube' = [kube EXCEPT !.spec = s]
              /\ moved' = (moved \/ At(s) # At(kube.spec))
  BY ZenonT(60) DEF PeopleWrite
<1>2. s \in SpecsOf(inst) /\ s \in Specs
  BY ZenonT(60), WrittenElim, SpecsOfAssumption DEF ResourceInv, TypeOK
<1>3. kube \in CRs /\ moved \in BOOLEAN
  BY ZenonT(60) DEF ResourceInv, TypeOK, ManagedTypeOK
<1>4. kube.phase = "gone" => ~kube.finalizer
  BY ZenonT(60) DEF ResourceInv, LifecycleInv, FinalizerHolds
<1>5. UserStep
  <2>1. Disturb /\ fresh' = FALSE /\ UNCHANGED <<cr, obs, pc>>
    BY ZenonT(60) DEF PeopleWrite
  <2>2. CASE kube.phase = "gone"
    BY ZenonT(60), <1>1, <1>2, <2>1, <2>2 DEF UserStep, UserCreate
  <2>3. CASE kube.phase # "gone"
    BY ZenonT(60), <1>1, <1>2, <2>1, <2>3 DEF UserStep, UserEdit
  <2> QED
    BY ZenonT(60), <2>2, <2>3
<1>6. kube'.spec = s /\ (kube.finalizer => kube'.finalizer)
  <2>1. CASE kube.phase = "gone"
    <3>1. kube' = NewCR(s) /\ ~kube.finalizer
      BY ZenonT(60), <1>1, <1>4, <2>1
    <3>2. NewCR(s).spec = s
      BY ZenonT(60) DEF NewCR
    <3> QED
      BY ZenonT(60), <3>1, <3>2
  <2>2. CASE kube.phase # "gone"
    BY ZenonT(60), <1>1, <1>3, <2>2 DEF CRs
  <2> QED
    BY ZenonT(60), <2>1, <2>2
<1>7. /\ moved' \in BOOLEAN /\ (moved => moved')
      /\ moved' \/ At(kube'.spec) = At(kube.spec) \/ ~kube.finalizer
  BY ZenonT(60), <1>1, <1>3, <1>4, <1>6
<1>8. UNCHANGED <<inst, ext, plan, late, touched>>
  BY ZenonT(60) DEF PeopleWrite
<1> QED
  BY ZenonT(60), <1>2, <1>5, <1>6, <1>7, <1>8, PeopleInv

\* A person who deletes the CR keeps the invariant.
LEMMA PeopleDeleteInv == ResourceInv /\ PeopleDelete => ResourceInv'
<1> SUFFICES ASSUME ResourceInv, PeopleDelete PROVE ResourceInv'
  OBVIOUS
<1>1. kube \in CRs /\ moved \in BOOLEAN /\ kube.spec \in SpecsOf(inst)
  BY ZenonT(60) DEF ResourceInv, TypeOK, ManagedTypeOK
<1>2. kube'.spec = kube.spec /\ kube'.finalizer = kube.finalizer
  BY ZenonT(60), <1>1 DEF PeopleDelete, UserDelete, CRs
<1>3. UserStep /\ UNCHANGED <<inst, ext, plan, late, touched, moved>>
  BY ZenonT(60) DEF PeopleDelete, UserStep
<1> QED
  BY ZenonT(60), <1>1, <1>2, <1>3, PeopleInv

\* It holds at first, with a resource of somebody else where the CR looks or
\* without one.
LEMMA InitInv == Init => ResourceInv
<1> SUFFICES ASSUME Init PROVE ResourceInv
  BY ZenonT(60)
<1>1. /\ inst \in Instances /\ kube.spec \in SpecsOf(inst)
      /\ fresh = FALSE /\ pc = "idle" /\ obs = NotThere /\ cr = Blank
      /\ plan = NoCall /\ late = FALSE /\ touched = FALSE /\ moved = FALSE
  BY ZenonT(60), WrittenElim DEF Init, ManagedInit
<1>2. ManagedTypeOK /\ LifecycleInv
  BY ZenonT(60), ManagedInitOK DEF Init, ManagedInv, FreshAgrees, LifecycleInv
<1>3. At(kube.spec) \in Places
  BY ZenonT(60), <1>1, AtPlace
<1>4. ~cr.finalizer /\ cr.phase = "gone"
  BY ZenonT(60), <1>1, BlankType
<1>5. /\ ext = [p \in Places |-> ext[p]]
      /\ \A p \in Places : GoodResource(ext[p]) /\ ~ext[p].made
  <2>1. ~Absent.made /\ GoodResource(Absent)
    BY ZenonT(60), AbsentGood DEF Absent
  <2>2. CASE ext = [p \in Places |-> Absent]
    BY ZenonT(60), <2>1, <2>2
  <2>3. ASSUME NEW c \in Placed(At(kube.spec)),
               ext = [[p \in Places |-> Absent] EXCEPT ![At(kube.spec)] = Foreign(c)]
        PROVE  <1>5
    <3>1. ~Foreign(c).made /\ GoodResource(Foreign(c))
      BY ZenonT(60) DEF Placed, Foreign, GoodResource, ExtStates
    <3> QED
      BY ZenonT(60), <1>3, <2>1, <2>3, <3>1
  <2> QED
    BY ZenonT(60), <2>2, <2>3 DEF Init
<1>6. TypeOK
  <2>1. ext \in [Places -> [state : ExtStates, conf : Confs[inst] \cup {<<>>}, made : BOOLEAN]]
    BY ZenonT(60), <1>5 DEF GoodResource
  <2>2. \A p \in Places : Found(ext[p]) => ext[p].conf \in Confs[inst]
    BY ZenonT(60), <1>5 DEF GoodResource, Found
  <2> QED
    BY ZenonT(60), <1>1, <1>2, <2>1, <2>2 DEF TypeOK, NoCall
<1>7. CopyInv
  BY ZenonT(60), <1>1, <1>4 DEF CopyInv
<1>8. PlaceInv
  BY ZenonT(60), <1>1, <1>4, <1>5 DEF PlaceInv, NoOrphan
<1>9. IntentInv /\ RestInv
  BY ZenonT(60), <1>1 DEF IntentInv, RestInv
<1> QED
  BY ZenonT(60), <1>2, <1>6, <1>7, <1>8, <1>9 DEF ResourceInv

\* A step that changes nothing keeps the invariant.
LEMMA StutterInv == ResourceInv /\ UNCHANGED vars => ResourceInv'
<1> SUFFICES ASSUME ResourceInv, UNCHANGED vars PROVE ResourceInv'
  BY ZenonT(60)
<1>1. UNCHANGED <<kube, cr, fresh, obs, pc, budget, inst, ext, plan, late, touched, moved>>
  BY ZenonT(60) DEF vars, managedVars
<1>2. TypeOK'
  BY ZenonT(60), <1>1 DEF ResourceInv, TypeOK, ManagedTypeOK
<1>3. LifecycleInv'
  BY ZenonT(60), <1>1 DEF ResourceInv, LifecycleInv, FinalizerHolds
<1>4. CopyInv'
  BY ZenonT(60), <1>1 DEF ResourceInv, CopyInv, kind
<1>5. PlaceInv'
  BY ZenonT(60), <1>1 DEF ResourceInv, PlaceInv, NoOrphan, At, kind
<1>6. IntentInv'
  BY ZenonT(60), <1>1 DEF ResourceInv, IntentInv, IsSet, Overruled, kind
<1>7. RestInv'
  <2>1. resource' = resource
    BY ZenonT(60), <1>1 DEF resource, At, kind
  <2> QED
    BY ZenonT(60), <1>1, <2>1 DEF ResourceInv, RestInv, KeepsTheRest, Filled, IsSet, kind
<1> QED
  BY ZenonT(60), <1>2, <1>3, <1>4, <1>5, <1>6, <1>7 DEF ResourceInv

\* Every step keeps the inductive invariant.
LEMMA StepInv == ResourceInv /\ [Next]_vars => ResourceInv'
BY ZenonT(60), StutterInv, ObserveNothingInv, ObservePanicInv, ObserveInv, PersistInv,
   CreateInv,
   UpdateInv, UpdateCallInv, DeleteInv, ReconcileInv, CallFailsInv, OperationDoneInv,
   SomebodyInv, PeopleWriteInv, PeopleDeleteInv
DEF Next, Controller

\* ResourceInv is an inductive invariant of the controllers.
THEOREM ResourceInvariance == Spec => []ResourceInv
BY InitInv, StepInv, PTL DEF Spec

\* The controllers of the sixteen kinds keep the types of their CRs, of the
\* resources and of their requests: Observe and Update, which copy fields one
\* by one, never write into a field what it cannot hold.
THEOREM ResourcesTypeCorrect == Spec => []TypeOK
<1>1. ResourceInv => TypeOK
  BY ZenonT(60) DEF ResourceInv
<1> QED
  BY <1>1, ResourceInvariance, PTL

\* Whatever the kind, the settings it has and the places there are: a resource
\* that Create made in GCP has a CR with the finalizer that addresses it.
THEOREM Orphanless == Spec => []NoOrphan
<1>1. ResourceInv => NoOrphan
  BY ZenonT(60) DEF ResourceInv, PlaceInv
<1> QED
  BY <1>1, ResourceInvariance, PTL

(***************************************************************************)
(* The action properties.                                                  *)
(***************************************************************************)

\* Where the stored spec comes from in a step that is no disturbance: it is
\* what it was, what the fresh copy has, or what Observe made of that.
LEMMA StoredSpec ==
    ASSUME ResourceInv, Next, budget' = budget, NEW f \in inst.fields,
           IsSet(f, kube.spec[f]), ~Overruled(f, kube.spec[f])
    PROVE  kube'.spec[f] = kube.spec[f]
<1>0. /\ kube \in CRs /\ cr \in CRs /\ ~Disturb
      /\ fresh => cr.spec[f] = kube.spec[f]
  BY SMTT(60) DEF ResourceInv, TypeOK, ManagedTypeOK, IntentInv, Disturb
<1>1. CASE UNCHANGED kube
  BY ZenonT(60), <1>1
<1>2. CASE fresh /\ kube'.spec = cr.spec
  BY ZenonT(60), <1>0, <1>2
<1>3. CASE Observe
  <2>1. pc = "observe" /\ Found(resource)
    BY ZenonT(60), <1>3 DEF Observe
  <2>2. inst \in Instances /\ cr.spec \in SpecsOf(inst) /\ resource.conf \in Confs[inst]
    BY ZenonT(60), <2>1, ResourceTyped DEF ResourceInv, TypeOK, CopyInv, GoodResource, Found
  <2> DEFINE seen == ObserveOf(kind, cr.spec, resource)
  <2>3. Sees(seen, cr.spec, resource.conf)
    BY ZenonT(60), <2>2, ObserveSees
  <2>4. kube' = kube \/ (fresh /\ kube' = [kube EXCEPT !.spec = seen.spec])
    BY ZenonT(60), <1>3 DEF Observe
  <2> HIDE DEF seen
  <2>5. fresh => cr.spec = kube.spec
    BY ZenonT(60), <2>1 DEF ResourceInv, IntentInv
  <2>6. fresh => seen.spec[f] = kube.spec[f]
    BY ZenonT(60), <2>3, <2>5 DEF Sees
  <2> QED
    BY ZenonT(60), <1>0, <2>4, <2>6 DEF CRs
<1>4. CASE Persist
  <2>1. kube' = kube \/ (fresh /\ kube'.spec = cr.spec)
    BY ZenonT(60), <1>0, <1>4 DEF Persist, CRs
  <2> QED
    BY ZenonT(60), <1>1, <1>2, <2>1
<1>5. CASE Reconcile
  <2>1. ~Crash
    BY ZenonT(60), <1>0 DEF Crash
  <2>2. CASE DecideLive
    <3>1. kube' = kube \/ (fresh /\ kube'.spec = cr.spec)
      BY ZenonT(60), <1>0, <2>2 DEF DecideLive, CRs
    <3> QED
      BY SMTT(60), <1>1, <1>2, <3>1
  <2>3. CASE Start \/ DecideDeleting \/ Restart
    BY ZenonT(60), <1>1, <2>3 DEF Start, DecideDeleting, Restart
  <2>4. CASE Unfinalize \/ Finish
    BY ZenonT(60), <1>0, <2>4 DEF Unfinalize, Finish, CRs
  <2> QED
    BY ZenonT(60), <1>5, <2>1, <2>2, <2>3, <2>4 DEF Reconcile, ManagedStep
<1>6. CASE ObserveNothing \/ ObservePanic \/ Create \/ Update \/ UpdateCall \/ Delete
  BY ZenonT(60), <1>1, <1>6 DEF ObserveNothing, ObservePanic, Create, Update, UpdateCall,
     Delete
<1>7. CASE OperationDone
  BY ZenonT(60), <1>1, <1>7 DEF OperationDone, managedVars
<1>8. ~(CallFails \/ Somebody \/ PeopleWrite \/ PeopleDelete)
  BY ZenonT(60), <1>0 DEF CallFails, Somebody, PeopleWrite, PeopleDelete, UserDelete
<1> QED
  BY ZenonT(60), <1>3, <1>4, <1>5, <1>6, <1>7, <1>8 DEF Next, Controller

\* Neither late initialization nor a write of the reconciler replaces what a
\* person set, for every kind and every set of its settings.
THEOREM ResourcesIntentKept == Spec => IntentKept
<1>1. ASSUME ResourceInv, [Next]_vars
      PROVE  [budget' = budget =>
                \A f \in inst.fields :
                   IsSet(f, kube.spec[f]) /\ ~Overruled(f, kube.spec[f])
                      => kube'.spec[f] = kube.spec[f]]_vars
  BY ZenonT(60), <1>1, StoredSpec
<1> QED
  BY <1>1, ResourceInvariance, PTL DEF Spec, IntentKept

\* The request of an Update, once GCP accepted it, leaves alone what the spec
\* does not set.
LEMMA UpdateCallKeeps ==
    ASSUME ResourceInv, UpdateCall, ~touched, KeepsTheRest, NEW f \in inst.fields
    PROVE  IsSet(f, cr.spec[f]) \/ ext'[At(cr.spec)].conf[f] = resource.conf[f]
<1>1. pc = "updateCall" /\ kind \notin PolicyKinds
  BY ZenonT(60) DEF UpdateCall, KeepsTheRest
<1>2. CASE ext' = ext
  BY ZenonT(60), <1>2 DEF resource
<1>3. CASE /\ resource.state \notin {"absent", "deleting"}
           /\ ext' = [ext EXCEPT ![At(cr.spec)] = Stored(plan.set)]
  <2>1. Found(resource) /\ inst \in Instances
    BY ZenonT(60), <1>3 DEF Found, ResourceInv, TypeOK
  <2>2. At(cr.spec) \in Places /\ GoodResource(resource)
    BY ZenonT(60), <1>1, ResourceTyped DEF ResourceInv
  <2>3. DOMAIN resource.conf = inst.fields
    BY ZenonT(60), <2>1, <2>2, ConfElim DEF GoodResource, Found
  <2>4. Stored(plan.set) = [resource EXCEPT !.conf = Applied(plan.set, resource.conf)]
    BY ZenonT(60), <1>1, <1>3 DEF Stored, Present
  <2>5. ext'[At(cr.spec)] = Stored(plan.set)
    BY ZenonT(60), <1>3, <2>2 DEF ResourceInv, TypeOK
  <2>6. ext'[At(cr.spec)].conf = Applied(plan.set, resource.conf)
    BY ZenonT(60), <2>2, <2>4, <2>5 DEF GoodResource
  <2>7. f \in DOMAIN plan.set => IsSet(f, cr.spec[f]) \/ plan.set[f] = resource.conf[f]
    BY ZenonT(60), <1>1, <2>1 DEF ResourceInv, RestInv
  <2> QED
    BY ZenonT(60), <2>3, <2>6, <2>7 DEF Applied
<1> QED
  BY ZenonT(60), <1>1, <1>2, <1>3 DEF UpdateCall

\* An Update only changes what the spec sets, as long as nobody changes the
\* resource between the controller's read and its write.
THEOREM ResourcesKeepTheRest == Spec => UpdateKeepsTheRest
<1>1. ASSUME ResourceInv
      PROVE  [UpdateCall /\ ~touched /\ KeepsTheRest =>
                \A f \in inst.fields :
                   IsSet(f, cr.spec[f]) \/ ext'[At(cr.spec)].conf[f] = resource.conf[f]]_vars
  BY ZenonT(60), <1>1, UpdateCallKeeps
<1> QED
  BY <1>1, ResourceInvariance, PTL DEF UpdateKeepsTheRest

\* Only two of the Update methods can dereference nil: Subnetwork's, whose
\* second read finds private access that the spec does not mention, and
\* CryptoKey's on a key without a version template.
LEMMA UpdatePanics ==
    ASSUME inst \in Instances, NEW spec \in SpecsOf(inst), NEW conf,
           UpdateOf(kind, spec, conf).call = "panic"
    PROVE  \/ /\ kind = "Subnetwork" /\ "PrivateIPGoogleAccess" \in inst.fields
              /\ spec["PrivateIPGoogleAccess"] = Nil
              /\ conf["PrivateIPGoogleAccess"] # Zero
           \/ /\ kind = "CryptoKey"
              /\ \A f \in inst.fields \cap CryptoKeyVersionTemplate : conf[f] = Zero
<1>0. kind \in Kinds /\ DOMAIN spec = inst.fields
  BY ZenonT(60), InstancesAssumption, SpecElim DEF kind
<1>1. NoCall.call # "panic" /\ \A set : Patch(set).call # "panic"
  BY ZenonT(60) DEF NoCall, Patch
<1>2. CASE kind = "Network"
  BY ZenonT(60), <1>1, <1>2 DEF UpdateOf, PolicyKinds, NetworkUpdate
<1>3. CASE kind = "Subnetwork"
  <2>1. /\ PrivateAccess(spec, conf) /\ spec["PrivateIPGoogleAccess"] = Nil
    BY ZenonT(60), <1>1, <1>3 DEF UpdateOf, PolicyKinds, SubnetworkUpdate
  <2> QED
    BY ZenonT(60), <1>0, <1>3, <2>1 DEF PrivateAccess, ValueOf
<1>4. CASE kind \in {"GlobalAddress", "KeyRing"}
  BY ZenonT(60), <1>1, <1>4 DEF UpdateOf, PolicyKinds, GlobalAddressUpdate, KeyRingUpdate
<1>5. CASE kind \in {"Firewall", "Router"}
  BY ZenonT(60), <1>1, <1>5 DEF UpdateOf, PolicyKinds, FirewallUpdate, RouterUpdate
<1>6. CASE kind \in {"Topic", "Subscription"}
  BY ZenonT(60), <1>1, <1>6 DEF UpdateOf, PolicyKinds, TopicUpdate, SubscriptionUpdate
<1>7. CASE kind \in {"CloudMemorystoreInstance", "ServiceAccount"}
  BY ZenonT(60), <1>1, <1>7 DEF UpdateOf, PolicyKinds, CloudMemorystoreUpdate,
     ServiceAccountUpdate
<1>8. CASE kind \in {"ResourceRecordSet", "Connection"}
  BY ZenonT(60), <1>1, <1>8 DEF UpdateOf, PolicyKinds, ResourceRecordSetUpdate,
     ConnectionUpdate
<1>9. CASE kind = "Bucket"
  BY ZenonT(60), <1>1, <1>9 DEF UpdateOf, PolicyKinds, BucketUpdate
<1>10. CASE kind \in PolicyKinds
  BY ZenonT(60), <1>1, <1>10 DEF UpdateOf, PolicyKinds, PolicyUpdate
<1>11. CASE kind = "CryptoKey"
  <2>1. CryptoKeyIsUpToDatePanics(spec, conf)
    BY ZenonT(60), <1>1, <1>11 DEF UpdateOf, PolicyKinds, CryptoKeyUpdate
  <2> QED
    BY ZenonT(60), <1>0, <1>11, <2>1 DEF CryptoKeyIsUpToDatePanics
<1> QED
  BY ZenonT(60), <1>0, <1>2, <1>3, <1>4, <1>5, <1>6, <1>7, <1>8, <1>9, <1>10, <1>11
     DEF Kinds

\* A step to "panic" is one of Observe or Update.
LEMMA PanicSteps ==
    ASSUME ResourceInv, Next, pc # "panic", pc' = "panic"
    PROVE  ObservePanic \/ (Update /\ UpdateOf(kind, cr.spec, resource.conf).call = "panic"
                                   /\ ~(resource.state = "absent" /\ kind \in ReadsAgain))
<1>1. CASE ObservePanic
  BY ZenonT(60), <1>1
<1>2. CASE Update
  <2> DEFINE u == UpdateOf(kind, cr.spec, resource.conf)
  <2>1. u.call \in {"none", "patch", "panic"}
    BY ZenonT(60), <1>2, UpdatePlans DEF Update, ResourceInv, TypeOK, CopyInv, Plans
  <2>2. /\ ~(resource.state = "absent" /\ kind \in ReadsAgain)
        /\ pc' = CASE u.call = "none" -> "finish"
                   [] u.call = "patch" -> "updateCall"
                   [] u.call = "panic" -> "panic"
    BY ZenonT(60), <1>2 DEF Update
  <2> HIDE DEF u
  <2>3. u.call = "panic"
    BY ZenonT(60), <2>1, <2>2
  <2> QED
    BY ZenonT(60), <1>2, <2>2, <2>3 DEF u
<1>3. ~(ObserveNothing \/ Observe \/ Create \/ UpdateCall \/ Delete)
  BY ZenonT(60) DEF ObserveNothing, Observe, Create, UpdateCall, Delete
<1>4. ~Persist
  BY ZenonT(60) DEF Persist
<1>5. ~Reconcile
  <2>1. ~(Start \/ DecideDeleting \/ Unfinalize \/ Finish \/ Restart \/ Crash)
    BY ZenonT(60) DEF Start, DecideDeleting, Unfinalize, Finish, Restart, Crash, Idle
  <2>2. ~DecideLive
    BY ZenonT(60) DEF DecideLive, Dispatch, ResourceInv, TypeOK, ManagedTypeOK, Observations
  <2> QED
    BY ZenonT(60), <2>1, <2>2 DEF Reconcile, ManagedStep
<1>6. ~(CallFails \/ OperationDone \/ Somebody \/ PeopleWrite \/ PeopleDelete)
  BY ZenonT(60) DEF CallFails, OperationDone, Somebody, PeopleWrite, PeopleDelete,
     UserDelete, managedVars
<1> QED
  BY ZenonT(60), <1>1, <1>2, <1>3, <1>4, <1>5, <1>6 DEF Next, Controller

\* What the resource is like when a controller panics.
LEMMA PanicCauses ==
    ASSUME ResourceInv, Next, pc # "panic", pc' = "panic"
    PROVE  \/ /\ kind = "Firewall" /\ resource.conf["Denied"] # Zero
              /\ "Allowed" \in inst.fields => resource.conf["Allowed"] = Zero
           \/ /\ kind = "CryptoKey"
              /\ \A f \in inst.fields \cap CryptoKeyVersionTemplate : resource.conf[f] = Zero
           \/ kind = "Subnetwork" /\ touched /\ resource.conf["PrivateIPGoogleAccess"] # Zero
<1>1. pc \in {"observe", "update"} /\ inst \in Instances
  BY ZenonT(60), PanicSteps DEF ObservePanic, Update, ResourceInv, TypeOK
<1>2. cr.spec \in SpecsOf(inst) /\ DOMAIN cr.spec = inst.fields
  BY ZenonT(60), <1>1, SpecElim DEF ResourceInv, CopyInv
<1>3. CASE ObservePanic
  <2>1. ObservePanics(kind, cr.spec, resource.conf)
    BY ZenonT(60), <1>3 DEF ObservePanic
  <2>2. DOMAIN CryptoKeyLateInitialize(cr.spec, resource.conf) = inst.fields
    BY ZenonT(60), <1>2 DEF CryptoKeyLateInitialize
  <2> QED
    BY ZenonT(60), <1>2, <2>1, <2>2
    DEF ObservePanics, FirewallLateInitializePanics, CryptoKeyIsUpToDatePanics
<1>4. CASE /\ Update /\ UpdateOf(kind, cr.spec, resource.conf).call = "panic"
           /\ ~(resource.state = "absent" /\ kind \in ReadsAgain)
  <2>1. CASE /\ kind = "Subnetwork" /\ "PrivateIPGoogleAccess" \in inst.fields
             /\ cr.spec["PrivateIPGoogleAccess"] = Nil
             /\ resource.conf["PrivateIPGoogleAccess"] # Zero
    <3>1. Found(resource) /\ KeepsTheRest /\ kind # "ResourceRecordSet"
      BY ZenonT(60), <1>4, <2>1 DEF ReadsAgain, Found, KeepsTheRest, PolicyKinds
    <3>2. pc = "update" /\ obs.exists /\ touched \in BOOLEAN
      BY ZenonT(60), <1>4 DEF Update, ResourceInv, LifecycleInv, FinalizerHolds, TypeOK
    <3>3. ~touched => Filled(cr.spec, resource.conf)
      BY ZenonT(60), <3>1, <3>2 DEF ResourceInv, RestInv
    <3>4. ~IsSet("PrivateIPGoogleAccess", cr.spec["PrivateIPGoogleAccess"])
      BY ZenonT(60), <2>1 DEF IsSet, Unset
    <3> QED
      BY ZenonT(60), <2>1, <3>3, <3>4 DEF Filled
  <2> QED
    BY ZenonT(60), <1>1, <1>2, <1>4, <2>1, UpdatePanics
<1> QED
  BY ZenonT(60), <1>3, <1>4, PanicSteps

\* A nil dereference in a controller has one of three causes, whatever else
\* happens meanwhile.
THEOREM ResourcesPanicsOnlyOn == Spec => PanicsOnlyOn
<1>1. ASSUME ResourceInv, [Next]_vars
      PROVE  [pc # "panic" /\ pc' = "panic" =>
          \/ /\ kind = "Firewall" /\ resource.conf["Denied"] # Zero
             /\ "Allowed" \in inst.fields => resource.conf["Allowed"] = Zero
          \/ /\ kind = "CryptoKey"
             /\ \A f \in inst.fields \cap CryptoKeyVersionTemplate : resource.conf[f] = Zero
          \/ kind = "Subnetwork" /\ touched /\ resource.conf["PrivateIPGoogleAccess"] # Zero]_vars
  BY ZenonT(60), <1>1, PanicCauses
<1> QED
  BY <1>1, ResourceInvariance, PTL DEF Spec, PanicsOnlyOn

(***************************************************************************)
(* What GCP has at a place says so.                                        *)
(***************************************************************************)

IsAt(r, p) == Found(r) => r.conf[PlaceField(kind)] = p

\* A request sends the place that the spec has.
LEMMA SendsPlace ==
    ASSUME inst \in Instances, NEW spec \in SpecsOf(inst), NEW set, Sends(set, spec),
           PlaceField(kind) \in inst.fields \cap DOMAIN set
    PROVE  set[PlaceField(kind)] = At(spec)
<1> DEFINE f == PlaceField(kind)
<1>1. kind \in Kinds /\ DOMAIN spec = inst.fields /\ spec[f] \in SpecValues(kind, f)
  BY ZenonT(60), SpecElim, InstancesAssumption DEF kind
<1>2. spec[f] # Nil /\ At(spec) = spec[f]
  BY ZenonT(60), <1>1, PlaceValues, PlacesAssumption DEF At
<1>3. ~(kind \in InNetwork /\ f = "Network")
  BY ZenonT(60), <1>1, PlaceFields
<1> QED
  BY ZenonT(60), <1>2, <1>3 DEF Sends, ValueOf

\* A resource after a write is still where it was.
LEMMA StoredPlaced ==
    ASSUME TypeOK, CopyInv, PlaceInv, PlacedInv, pc # "idle",
           PlaceField(kind) \in inst.fields, NEW set,
           PlaceField(kind) \in DOMAIN set => set[PlaceField(kind)] = At(cr.spec),
           resource.state = "absent" => PlaceField(kind) \in DOMAIN set
    PROVE  IsAt(Stored(set), At(cr.spec))
<1> DEFINE f == PlaceField(kind)
<1>1. At(cr.spec) \in Places /\ GoodResource(resource) /\ inst \in Instances
  BY ZenonT(60), ResourceTyped DEF TypeOK
<1>2. CASE resource.state = "absent"
  <2>1. Stored(set) \in {Absent, [state |-> "ready", conf |-> set, made |-> TRUE]}
    BY ZenonT(60), <1>2 DEF Stored, Present
  <2> QED
    BY SMTT(60), <1>2, <2>1 DEF IsAt, Found, Absent
<1>3. CASE resource.state # "absent"
  <2>1. DOMAIN resource.conf = inst.fields /\ resource.conf[f] = At(cr.spec)
    BY ZenonT(60), <1>1, <1>3, ConfElim DEF GoodResource, PlacedInv, resource, Found
  <2> DEFINE conf == Applied(set, resource.conf)
             r == [resource EXCEPT !.conf = conf]
  <2>2. conf[f] = At(cr.spec)
    BY ZenonT(60), <2>1 DEF Applied
  <2>3. Stored(set) \in {Absent, r}
    BY ZenonT(60), <1>3 DEF Stored, Present
  <2> HIDE DEF conf
  <2>4. r.conf = conf
    BY ZenonT(60), <1>1 DEF GoodResource
  <2> HIDE DEF r
  <2> QED
    BY SMTT(60), <2>2, <2>3, <2>4 DEF IsAt, Found, Absent
<1> QED
  BY ZenonT(60), <1>2, <1>3

\* A step that changes what is at one place, to something that is there, and
\* starts no request.
LEMMA PlacedExt ==
    ASSUME TypeOK, PlacedInv, NEW p \in Places, NEW r, UNCHANGED inst,
           ext' = [ext EXCEPT ![p] = r] \/ ext' = ext,
           PlaceField(kind) \in inst.fields => IsAt(r, p),
           pc' # "updateCall" \/ UNCHANGED <<pc, cr, plan>>
    PROVE  PlacedInv'
<1>1. kind' = kind /\ At(cr.spec)' = At(cr'.spec)
  BY ZenonT(60) DEF kind, At
<1>2. ASSUME PlaceField(kind) \in inst.fields, NEW q \in Places, Found(ext'[q])
      PROVE  ext'[q].conf[PlaceField(kind)] = q
  BY ZenonT(60), <1>2 DEF TypeOK, PlacedInv, IsAt
<1>3. ASSUME PlaceField(kind) \in inst.fields, pc' = "updateCall",
             PlaceField(kind) \in DOMAIN plan'.set
      PROVE  plan'.set[PlaceField(kind)] = At(cr'.spec)
  BY ZenonT(60), <1>3 DEF PlacedInv
<1> QED
  BY ZenonT(60), <1>1, <1>2, <1>3 DEF PlacedInv, Found

\* One that changes nothing in GCP.
LEMMA PlacedSame ==
    ASSUME TypeOK, PlacedInv, UNCHANGED <<inst, ext>>,
           pc' # "updateCall" \/ UNCHANGED <<pc, cr, plan>>
    PROVE  PlacedInv'
BY ZenonT(60), PlacesAssumption, PlacedExt, AbsentGood DEF IsAt, PlacedInv

\* Create makes the resource at the place of the spec.
LEMMA CreatePlaced == ResourceInv /\ PlacedInv /\ Create => PlacedInv'
<1> SUFFICES ASSUME ResourceInv, PlacedInv, Create PROVE PlacedInv'
  BY ZenonT(60)
<1> DEFINE f == PlaceField(kind)
           set == CreateOf(kind, cr.spec).set
<1>0. /\ pc = "create" /\ pc' = "finish" /\ UNCHANGED inst /\ TypeOK
  BY ZenonT(60) DEF Create, ResourceInv
<1>1. At(cr.spec) \in Places /\ inst \in Instances /\ cr.spec \in SpecsOf(inst)
  BY ZenonT(60), <1>0, ResourceTyped DEF ResourceInv, TypeOK, CopyInv
<1>2. CASE \E conf \in Created(set, cr.spec) :
              ext' = [ext EXCEPT ![At(cr.spec)] =
                         [state |-> IF kind \in Slow THEN "creating" ELSE "ready",
                          conf |-> conf, made |-> TRUE]]
  <2>1. PICK conf \in Created(set, cr.spec) :
              ext' = [ext EXCEPT ![At(cr.spec)] =
                         [state |-> IF kind \in Slow THEN "creating" ELSE "ready",
                          conf |-> conf, made |-> TRUE]]
    BY ZenonT(60), <1>2
  <2> DEFINE r == [state |-> IF kind \in Slow THEN "creating" ELSE "ready",
                   conf |-> conf, made |-> TRUE]
  <2>2. f \in inst.fields => IsAt(r, At(cr.spec))
    BY ZenonT(60) DEF Created, Placed, IsAt
  <2> QED
    BY ZenonT(60), <1>0, <1>1, <2>1, <2>2, PlacedExt
<1>3. CASE ext' = ext
  BY ZenonT(60), <1>0, <1>3, PlacedSame
<1>4. CASE /\ kind \in PolicyKinds \cup {"Connection"}
           /\ resource.state # "absent"
           /\ ext' = [ext EXCEPT ![At(cr.spec)] = Stored(set)]
  <2>1. Sends(set, cr.spec)
    BY ZenonT(60), <1>1, <1>4, CreateTyped
  <2> HIDE DEF set
  <2>2. f \in inst.fields => IsAt(Stored(set), At(cr.spec))
    BY ZenonT(60), <1>0, <1>1, <1>4, <2>1, SendsPlace, StoredPlaced DEF ResourceInv
  <2> QED
    BY ZenonT(60), <1>0, <1>1, <1>4, <2>2, PlacedExt
<1> QED
  BY ZenonT(60), <1>2, <1>3, <1>4 DEF Create

\* The request of an Update is for the place that the spec in memory has, and
\* is sent there.
LEMMA UpdatePlaced == ResourceInv /\ PlacedInv /\ Update => PlacedInv'
<1> SUFFICES ASSUME ResourceInv, PlacedInv, Update PROVE PlacedInv'
  OBVIOUS
<1> DEFINE u == UpdateOf(kind, cr.spec, resource.conf)
           f == PlaceField(kind)
<1>0. /\ UNCHANGED <<cr, inst, ext>> /\ pc = "update"
      /\ TypeOK
  BY ZenonT(60) DEF Update, ResourceInv
<1>1. inst \in Instances /\ cr.spec \in SpecsOf(inst)
  BY ZenonT(60), <1>0 DEF ResourceInv, TypeOK, CopyInv
<1>2. Plans(u, cr.spec)
  BY ZenonT(60), <1>1, UpdatePlans
<1>3. \/ pc' = "finish"
      \/ /\ plan' = u
         /\ pc' = CASE u.call = "none" -> "finish"
                    [] u.call = "patch" -> "updateCall"
                    [] u.call = "panic" -> "panic"
  BY ZenonT(60) DEF Update
<1> HIDE DEF u
<1>4. CASE pc' # "updateCall"
  BY ZenonT(60), <1>0, <1>4, PlacedSame
<1>5. CASE pc' = "updateCall"
  <2>1. plan' = u /\ u.call = "patch"
    BY ZenonT(60), <1>2, <1>3, <1>5 DEF Plans
  <2>2. f \in inst.fields \cap DOMAIN u.set => u.set[f] = At(cr.spec)
    BY ZenonT(60), <1>1, <1>2, <2>1, SendsPlace DEF Plans
  <2>3. kind' = kind /\ At(cr.spec)' = At(cr.spec)
    BY ZenonT(60), <1>0 DEF kind, At
  <2> QED
    BY ZenonT(60), <1>0, <2>1, <2>2, <2>3 DEF PlacedInv, Found
<1> QED
  BY ZenonT(60), <1>4, <1>5

\* Update leaves the resource where it is.
LEMMA UpdateCallPlaced == ResourceInv /\ PlacedInv /\ UpdateCall => PlacedInv'
<1> SUFFICES ASSUME ResourceInv, PlacedInv, UpdateCall PROVE PlacedInv'
  OBVIOUS
<1> DEFINE f == PlaceField(kind)
           set == plan.set
<1>0. pc = "updateCall" /\ pc' = "finish" /\ UNCHANGED inst /\ TypeOK
  BY ZenonT(60) DEF UpdateCall, ResourceInv
<1>1. At(cr.spec) \in Places
  BY ZenonT(60), <1>0, ResourceTyped DEF ResourceInv
<1>2. CASE ext' = ext
  BY ZenonT(60), <1>0, <1>2, PlacedSame
<1>3. CASE /\ kind \in PolicyKinds \/ resource.state # "absent"
           /\ ext' = [ext EXCEPT ![At(cr.spec)] = Stored(set)]
  <2>1. /\ f \in inst.fields /\ f \in DOMAIN set => set[f] = At(cr.spec)
        /\ kind \in PolicyKinds => DOMAIN set = inst.fields
    BY ZenonT(60), <1>0 DEF PlacedInv, ResourceInv, CopyInv
  <2> HIDE DEF set
  <2>2. f \in inst.fields => IsAt(Stored(set), At(cr.spec))
    BY ZenonT(60), <1>0, <1>3, <2>1, StoredPlaced DEF ResourceInv
  <2> QED
    BY ZenonT(60), <1>0, <1>1, <1>3, <2>2, PlacedExt
<1> QED
  BY ZenonT(60), <1>2, <1>3 DEF UpdateCall

\* Delete leaves what remains where it is.
LEMMA DeletePlaced == ResourceInv /\ PlacedInv /\ Delete => PlacedInv'
<1> SUFFICES ASSUME ResourceInv, PlacedInv, Delete PROVE PlacedInv'
  OBVIOUS
<1>0. pc = "delete" /\ pc' = "finish" /\ UNCHANGED inst /\ TypeOK
  BY ZenonT(60) DEF Delete, ResourceInv
<1>1. At(cr.spec) \in Places /\ GoodResource(ext[At(cr.spec)])
  BY ZenonT(60), <1>0, ResourceTyped DEF ResourceInv, resource
<1>2. CASE ext' = ext
  BY ZenonT(60), <1>0, <1>2, PlacedSame
<1> DEFINE r == IF kind \in Slow THEN [ext[At(cr.spec)] EXCEPT !.state = "deleting"] ELSE Absent
<1>3. CASE resource.state # "absent" /\ ext' = [ext EXCEPT ![At(cr.spec)] = r]
  <2>1. r.conf = ext[At(cr.spec)].conf \/ ~Found(r)
    BY ZenonT(60), <1>1 DEF GoodResource, Absent, Found
  <2>2. Found(ext[At(cr.spec)])
    BY ZenonT(60), <1>3 DEF resource, Found
  <2> HIDE DEF r
  <2>3. PlaceField(kind) \in inst.fields => IsAt(r, At(cr.spec))
    BY ZenonT(60), <1>1, <2>1, <2>2 DEF IsAt, PlacedInv
  <2> QED
    BY ZenonT(60), <1>0, <1>1, <1>3, <2>3, PlacedExt
<1> QED
  BY ZenonT(60), <1>2, <1>3 DEF Delete

\* So does the end of a long-running operation.
LEMMA OperationDonePlaced == ResourceInv /\ PlacedInv /\ OperationDone => PlacedInv'
<1> SUFFICES ASSUME ResourceInv, PlacedInv, OperationDone PROVE PlacedInv'
  OBVIOUS
<1> DEFINE r(p) == IF ext[p].state = "creating" THEN [ext[p] EXCEPT !.state = "ready"] ELSE Absent
<1>1. PICK p \in Places : /\ ext[p].state \in {"creating", "deleting"}
                          /\ ext' = [ext EXCEPT ![p] = r(p)]
  BY ZenonT(60) DEF OperationDone
<1>2. UNCHANGED <<cr, pc, inst, plan>> /\ TypeOK
  BY ZenonT(60) DEF OperationDone, managedVars, ResourceInv
<1>3. GoodResource(ext[p]) /\ Found(ext[p])
  BY ZenonT(60), <1>1 DEF ResourceInv, TypeOK, PlaceInv, GoodResource, Found
<1>4. r(p).conf = ext[p].conf \/ ~Found(r(p))
  BY ZenonT(60), <1>3 DEF GoodResource, Absent, Found
<1> HIDE DEF r
<1>5. PlaceField(kind) \in inst.fields => IsAt(r(p), p)
  BY ZenonT(60), <1>3, <1>4 DEF IsAt, PlacedInv
<1> QED
  BY ZenonT(60), <1>1, <1>2, <1>5, PlacedExt

\* Others create a resource where its configuration says, and change anything
\* but that.
LEMMA SomebodyPlaced == ResourceInv /\ PlacedInv /\ Somebody => PlacedInv'
<1> SUFFICES ASSUME ResourceInv, PlacedInv, Somebody PROVE PlacedInv'
  OBVIOUS
<1>1. PICK p \in IF PlaceField(kind) \in inst.fields THEN Places ELSE {Home} :
         \/ /\ ext[p].state = "absent"
            /\ \E c \in Placed(p) : ext' = [ext EXCEPT ![p] = Foreign(c)]
         \/ /\ ext[p].state = "ready"
            /\ \E f \in inst.fields \ {PlaceField(kind)} :
                  \E v \in ConfValues(kind, f) \ {ext[p].conf[f]} :
                     ext' = [ext EXCEPT ![p] = Present([@ EXCEPT !.conf[f] = v])]
         \/ /\ kind = "Connection" /\ ext[p].state = "ready"
            /\ \E s \in {"inactive", "unpeered", "unlisted"} : ext' = [ext EXCEPT ![p].state = s]
         \/ /\ ext[p].state = "ready"
            /\ ext' = [ext EXCEPT ![p] = Absent]
  BY ZenonT(60) DEF Somebody
<1>2. UNCHANGED <<cr, pc, inst, plan>> /\ TypeOK
  BY ZenonT(60) DEF Somebody, ResourceInv
<1>3. p \in Places /\ inst \in Instances
  BY ZenonT(60), PlacesAssumption DEF ResourceInv, TypeOK
<1>4. GoodResource(ext[p])
  BY ZenonT(60), <1>3 DEF ResourceInv, TypeOK, PlaceInv, GoodResource, Found
<1> DEFINE Becomes == \E r : /\ ext' = [ext EXCEPT ![p] = r]
                             /\ PlaceField(kind) \in inst.fields => IsAt(r, p)
<1>5. Becomes
  <2>1. ASSUME NEW c \in Placed(p), ext' = [ext EXCEPT ![p] = Foreign(c)]
        PROVE  Becomes
    <3>1. PlaceField(kind) \in inst.fields => IsAt(Foreign(c), p)
      BY ZenonT(60) DEF Placed, Foreign, IsAt
    <3> QED
      BY ZenonT(60), <2>1, <3>1
  <2>2. ASSUME ext[p].state = "ready", NEW f \in inst.fields \ {PlaceField(kind)}, NEW v,
               ext' = [ext EXCEPT ![p] = Present([@ EXCEPT !.conf[f] = v])]
        PROVE  Becomes
    <3> DEFINE conf == [ext[p].conf EXCEPT ![f] = v]
               r == [ext[p] EXCEPT !.conf = conf]
    <3>1. DOMAIN ext[p].conf = inst.fields
      BY ZenonT(60), <1>3, <1>4, <2>2, ConfElim DEF GoodResource
    <3>2. PlaceField(kind) \in inst.fields => conf[PlaceField(kind)] = p
      BY ZenonT(60), <1>3, <2>2, <3>1 DEF PlacedInv, Found
    <3>3. ext' = [ext EXCEPT ![p] = Present(r)]
      BY ZenonT(60), <2>2
    <3> HIDE DEF conf
    <3>4. r.conf = conf
      BY ZenonT(60), <1>4 DEF GoodResource
    <3> HIDE DEF r
    <3>5. PlaceField(kind) \in inst.fields => IsAt(Present(r), p)
      BY ZenonT(60), <3>2, <3>4 DEF Present, Absent, IsAt, Found
    <3> QED
      BY ZenonT(60), <3>3, <3>5
  <2>3. ASSUME ext[p].state = "ready", NEW s \in {"inactive", "unpeered", "unlisted"},
               ext' = [ext EXCEPT ![p].state = s]
        PROVE  Becomes
    <3> DEFINE r == [ext[p] EXCEPT !.state = s]
    <3>1. ext' = [ext EXCEPT ![p] = r]
      BY ZenonT(60), <2>3
    <3>2. r.conf = ext[p].conf /\ Found(ext[p])
      BY ZenonT(60), <1>4, <2>3 DEF GoodResource, Found
    <3> HIDE DEF r
    <3>3. PlaceField(kind) \in inst.fields => IsAt(r, p)
      BY ZenonT(60), <1>3, <3>2 DEF IsAt, PlacedInv
    <3> QED
      BY ZenonT(60), <3>1, <3>3
  <2>4. CASE ext' = [ext EXCEPT ![p] = Absent]
    <3>1. IsAt(Absent, p)
      BY ZenonT(60) DEF Absent, IsAt, Found
    <3> QED
      BY ZenonT(60), <2>4, <3>1
  <2> QED
    BY ZenonT(60), <1>1, <2>1, <2>2, <2>3, <2>4
<1>6. PICK r : /\ ext' = [ext EXCEPT ![p] = r]
               /\ PlaceField(kind) \in inst.fields => IsAt(r, p)
  BY ZenonT(60), <1>5
<1> QED
  BY ZenonT(60), <1>2, <1>3, <1>6, PlacedExt

\* Every step keeps it.
LEMMA PlacedStep == ResourceInv /\ PlacedInv /\ [Next]_vars => PlacedInv'
<1> SUFFICES ASSUME ResourceInv, PlacedInv, [Next]_vars PROVE PlacedInv'
  BY ZenonT(60)
<1>1. TypeOK
  BY ZenonT(60) DEF ResourceInv
<1>2. CASE ObserveNothing \/ ObservePanic \/ Observe \/ Persist \/ CallFails
  <2>1. UNCHANGED <<inst, ext>> /\ pc' # "updateCall"
    BY ZenonT(60), <1>2 DEF ObserveNothing, ObservePanic, Observe, Persist, CallFails
  <2> QED
    BY ZenonT(60), <1>1, <2>1, PlacedSame
<1>3. CASE Reconcile
  <2>1. UNCHANGED <<inst, ext>>
    BY ZenonT(60), <1>3 DEF Reconcile
  <2>2. ~DecideLive => pc' # "updateCall"
    BY ZenonT(60), <1>3 DEF Reconcile, ManagedStep, Start, DecideDeleting, Unfinalize,
       Finish, Restart,
                Crash, Idle
  <2>3. DecideLive => pc' # "updateCall"
    BY ZenonT(60) DEF DecideLive, Dispatch, ResourceInv, TypeOK, ManagedTypeOK, Observations
  <2> QED
    BY ZenonT(60), <1>1, <2>1, <2>2, <2>3, PlacedSame
<1>4. CASE PeopleWrite \/ PeopleDelete \/ UNCHANGED vars
  <2>1. UNCHANGED <<inst, ext, pc, cr, plan>>
    BY ZenonT(60), <1>4 DEF PeopleWrite, PeopleDelete, UserDelete, vars, managedVars
  <2> QED
    BY ZenonT(60), <1>1, <2>1, PlacedSame
<1> QED
  BY ZenonT(60), <1>2, <1>3, <1>4, CreatePlaced, UpdatePlaced, UpdateCallPlaced,
     DeletePlaced,
     OperationDonePlaced, SomebodyPlaced
  DEF Next, Controller

\* The resources of the initial states are where they say.
LEMMA PlacedInit == Init => PlacedInv
<1> SUFFICES ASSUME Init PROVE PlacedInv
  OBVIOUS
<1>1. ResourceInv /\ pc = "idle"
  BY ZenonT(60), InitInv DEF Init, ManagedInit
<1>2. At(kube.spec) \in Places
  BY ZenonT(60), <1>1, AtPlace DEF ResourceInv, TypeOK
<1>3. CASE ext = [p \in Places |-> Absent]
  BY ZenonT(60), <1>1, <1>3 DEF PlacedInv, Found, Absent
<1>4. ASSUME NEW c \in Placed(At(kube.spec)),
             ext = [[p \in Places |-> Absent] EXCEPT ![At(kube.spec)] = Foreign(c)]
      PROVE  PlacedInv
  BY ZenonT(60), <1>1, <1>2, <1>4 DEF PlacedInv, Found, Absent, Foreign, Placed
<1> QED
  BY ZenonT(60), <1>3, <1>4 DEF Init

\* The resource at a place is of that place, whoever wrote it.
THEOREM PlacedInvariance == Spec => []PlacedInv
BY PlacedInit, PlacedStep, ResourceInvariance, PTL DEF Spec

(***************************************************************************)
(* Controllers at rest.                                                    *)
(***************************************************************************)

\* The invariants put the resource of the stored spec where the spec says it
\* is, with a configuration GCP may have.
LEMMA InvRest ==
    ASSUME ResourceInv, PlacedInv
    PROVE  SettledAgrees
<1>1. SUFFICES ASSUME Found(standing), Settled(kube.spec, standing),
                      NEW f \in inst.fields, Differs(f)
               PROVE  Excused(f)
  BY ZenonT(60) DEF SettledAgrees, standing, Excused
<1>2. inst \in Instances /\ kube.spec \in SpecsOf(inst) /\ At(kube.spec) \in Places
  BY ZenonT(60), AtPlace DEF ResourceInv, TypeOK
<1>3. standing.conf \in Confs[inst]
  BY ZenonT(60), <1>1, <1>2 DEF ResourceInv, TypeOK, standing
<1>4. PlaceField(kind) \in inst.fields => standing.conf[PlaceField(kind)] = At(kube.spec)
  BY ZenonT(60), <1>1, <1>2 DEF PlacedInv, standing
<1>5. AtRest
  BY ZenonT(60), <1>1, <1>2, <1>3, <1>4 DEF AtRest
<1> QED
  BY ZenonT(60), <1>1, <1>5, RestAgrees

\* A controller that has nothing left to do has done what the spec asks for:
\* once late initialization and Update change nothing any more, GCP has what
\* the spec sets, but for the exceptions SettledAgrees names.
THEOREM ResourcesSettledAgree == Spec => []SettledAgrees
BY ResourceInvariance, PlacedInvariance, InvRest, PTL
=============================================================================
