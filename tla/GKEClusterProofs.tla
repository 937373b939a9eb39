-------------------------- MODULE GKEClusterProofs --------------------------
(***************************************************************************)
(* The Cluster controller's properties for every set of fields and values  *)
(* and any number of disturbances.                                         *)
(***************************************************************************)
EXTENDS GKECluster, ManagedProofs, WellFoundedInduction

(***************************************************************************)
(* The pure functions.                                                     *)
(***************************************************************************)

\* A nil setting becomes a zero value, so what is sent to GKE is a value.
LEMMA ValueOfType == \A v \in Values \cup {Nil} : ValueOf(v) \in Values
BY ValuesAssumption DEF ValueOf

\* GenerateCluster and the update functions yield configurations.
LEMMA GenerateType ==
    ASSUME NEW s \in Specs, NEW c \in Confs
    PROVE  Generate(s, c) \in Confs
BY ClusterSpecs, ValueOfType DEF Generate, Confs

\* An update of one field leaves a configuration.
LEMMA RequestedType ==
    ASSUME NEW s \in Specs, NEW c \in Confs, NEW f
    PROVE  Requested(s, f, c) \in Confs
BY ClusterSpecs, ValueOfType DEF Requested, Confs

\* LateInitializeSpec yields a spec.
LEMMA LateInitializeType ==
    ASSUME NEW s \in Specs, NEW c \in Confs
    PROVE  LateInitialize(s, c) \in Specs
BY ClusterSpecs DEF LateInitialize, Confs

\* A nonempty set of positions of the chain has a first one.
LEMMA FirstPosition ==
    ASSUME NEW T \in SUBSET Nat, T # {}
    PROVE  \E i \in T : \A j \in T : ~(j < i)
<1>1. PICK i \in T : \A j \in T : ~(<<j, i>> \in OpToRel(<, Nat))
  BY ZenonT(60), NatLessThanWellFounded, WFMin
<1>. QED
  BY ZenonT(60), <1>1 DEF OpToRel

\* IsUpToDate finds a difference exactly when there is one, and names the
\* group it is in.
LEMMA NextUpdateType ==
    ASSUME NEW s, NEW k
    PROVE  /\ NextUpdate(s, k) \in Updatable \cup {"none", "bootstrap"}
           /\ NextUpdate(s, k) = "none" =>
                 ~k.bootstrap /\ \A f \in Updatable : ~Differs(s, k.conf, f)
<1>. DEFINE T == {i \in DOMAIN UpdateChain : Differs(s, k.conf, UpdateChain[i])}
<1>1. CASE k.bootstrap
  BY <1>1 DEF NextUpdate
<1>2. CASE ~k.bootstrap /\ \A f \in Updatable : ~Differs(s, k.conf, f)
  BY <1>2 DEF NextUpdate
<1>3. CASE ~k.bootstrap /\ \E f \in Updatable : Differs(s, k.conf, f)
  <2>1. DOMAIN UpdateChain \subseteq Nat
    BY DEF UpdateChain
  <2>2. T # {} /\ T \in SUBSET Nat
    BY <1>3, <2>1 DEF Updatable
  <2>3. PICK i \in T : \A j \in T : ~(j < i)
    BY ZenonT(60), <2>2, FirstPosition
  <2>4. \A j \in 1 .. (i - 1) : j \in DOMAIN UpdateChain /\ j < i
    BY <2>3 DEF UpdateChain
  <2>5. \E n \in DOMAIN UpdateChain :
           /\ Differs(s, k.conf, UpdateChain[n])
           /\ \A j \in 1 .. (n - 1) : ~Differs(s, k.conf, UpdateChain[j])
    BY <2>3, <2>4
  <2>6. NextUpdate(s, k) \in Updatable
    BY ZenonT(60), <1>3, <2>5 DEF NextUpdate, Updatable
  <2>7. "none" \notin Updatable
    BY DEF Updatable, UpdateChain
  <2>. QED
    BY <2>6, <2>7
<1>. QED
  BY <1>1, <1>2, <1>3

(***************************************************************************)
(* Types.                                                                  *)
(***************************************************************************)

\* The cluster that does not exist yet is well typed.
LEMMA EmptyType == Empty \in Confs /\ Absent \in Clusters
BY ValuesAssumption DEF Empty, Absent, Confs, Clusters, Ops, GkeStates

\* Every step keeps the CR, the cluster and the pending update well typed.
LEMMA StepType == TypeOK /\ [Next]_vars => TypeOK'
<1>. SUFFICES ASSUME TypeOK, [Next]_vars PROVE TypeOK'
  OBVIOUS
<1>. USE DEF TypeOK
<1>k. gke.conf \in Confs /\ gke.to \in Confs /\ gke.bootstrap \in BOOLEAN
  BY DEF Clusters
<1>1. CASE ManagedStep /\ UNCHANGED <<gke, plan>>
  BY <1>1, ManagedStepType
<1>2. CASE ObserveAbsent
  BY <1>2 DEF ObserveAbsent, ManagedTypeOK, NotThere, Observations, PCs
<1>3. CASE Observe
  <2>. DEFINE seen == [cr EXCEPT !.state = gke.state,
                                 !.spec = LateInitialize(@, gke.conf)]
              wrote == seen.spec # cr.spec
              kept == IF wrote THEN Decoded(seen) ELSE seen
              done == [kept EXCEPT !.ready = ReadyFor(kept.state, @)]
  <2>1. gke.state \in States
    BY ZenonT(60), <1>3, ClusterStates DEF Observe, Clusters
  <2>2. LateInitialize(cr.spec, gke.conf) \in Specs
    BY <1>k, LateInitializeType DEF ManagedTypeOK, CRs
  <2>3. seen \in CRs
    BY ZenonT(60), <2>1, <2>2 DEF ManagedTypeOK, CRs
  <2>4. kept \in CRs
    BY ZenonT(60), <2>3 DEF Decoded, ManagedTypeOK, CRs
  <2>5. \A st, r : r \in Readies => ReadyFor(st, r) \in Readies
    BY ZenonT(60) DEF ReadyFor, Readies
  <2>6. done \in CRs
    BY ZenonT(60), <2>4, <2>5 DEF CRs
  <2>7. [kube EXCEPT !.spec = seen.spec] \in CRs
    BY ZenonT(60), <2>3 DEF ManagedTypeOK, CRs
  <2>8. kube' \in CRs /\ cr' \in CRs
    <3>. HIDE DEF seen, wrote, kept, done
    <3>1. kube' \in {kube, [kube EXCEPT !.spec = seen.spec]} /\ cr' \in {seen, done}
      BY <1>3 DEF Observe, GenerateObservation, seen, wrote, kept, done
    <3>. QED
      BY <3>1, <2>3, <2>6, <2>7 DEF ManagedTypeOK
  <2>9. obs' \in Observations /\ pc' \in PCs
    <3>1. pc' \in {"finish", "decide"}
      BY <1>3 DEF Observe
    <3>2. \/ obs' = obs
          \/ \E w, u \in BOOLEAN : obs' = [exists |-> TRUE, wrote |-> w, upToDate |-> u]
      BY <1>3, Zenon DEF Observe
    <3>3. \A w, u \in BOOLEAN :
             [exists |-> TRUE, wrote |-> w, upToDate |-> u] \in Observations
      BY DEF Observations
    <3>4. obs' \in Observations
      BY <3>2, <3>3, Zenon DEF ManagedTypeOK
    <3>. QED
      BY <3>1, <3>4 DEF PCs
  <2>. QED
    BY <1>3, <2>8, <2>9 DEF Observe, ManagedTypeOK
<1>4. CASE ObservePanics
  BY <1>4 DEF ObservePanics, ManagedTypeOK, PCs
<1>5. CASE Create
  <2>1. cr' \in CRs
    BY ZenonT(60), <1>5 DEF Create, ManagedTypeOK, CRs, Readies
  <2>2. gke' \in Clusters
    <3>1. Generate(cr.spec, Empty) \in Confs
      BY EmptyType, GenerateType DEF ManagedTypeOK, CRs
    <3>2. Autopilot(cr.spec) \in BOOLEAN
      BY DEF Autopilot
    <3>. QED
      BY <1>5, <3>1, <3>2 DEF Create, Clusters, GkeStates, Ops
  <2>. QED
    BY <1>5, <2>1, <2>2 DEF Create, ManagedTypeOK, PCs
<1>6. CASE UpdateGet
  BY <1>6, NextUpdateType DEF UpdateGet, ManagedTypeOK, PCs
<1>7. CASE UpdateCall
  <2>1. Requested(cr.spec, plan, gke.conf) \in Confs
    BY <1>k, RequestedType DEF ManagedTypeOK, CRs
  <2>2. gke' \in Clusters
    BY ZenonT(60), <1>7, <2>1 DEF UpdateCall, Clusters, GkeStates, Ops
  <2>. QED
    BY <1>7, <2>2 DEF UpdateCall, ManagedTypeOK, PCs
<1>8. CASE Delete
  <2>1. cr' \in CRs
    BY ZenonT(60), <1>8 DEF Delete, ManagedTypeOK, CRs, Readies
  <2>2. gke' \in Clusters
    BY ZenonT(60), <1>8 DEF Delete, Clusters, GkeStates, Ops
  <2>. QED
    BY <1>8, <2>1, <2>2 DEF Delete, ManagedTypeOK, PCs
<1>9. CASE CallFails
  <2>1. cr' \in CRs
    BY ZenonT(60), <1>9 DEF CallFails, ManagedTypeOK, CRs, Readies
  <2>2. budget' \in Nat
    BY <1>9, DisturbType DEF CallFails, ManagedTypeOK
  <2>. QED
    BY <1>9, <2>1, <2>2 DEF CallFails, ManagedTypeOK, PCs
<1>10. CASE GKEProgress
  <2>1. gke' \in Clusters
    BY ZenonT(60), <1>10, <1>k, EmptyType
    DEF GKEProgress, ProvisionDone, OperationDone, StopDone, Clusters, Confs,
        GkeStates, Ops
  <2>. QED
    BY ZenonT(60), <1>10, <2>1
    DEF GKEProgress, ProvisionDone, OperationDone, StopDone, managedVars,
        ManagedTypeOK
<1>11. CASE GKEEvent
  <2>1. \A f \in Fields, v \in Values :
           /\ [gke.conf EXCEPT ![f] = v] \in Confs
           /\ [gke.to EXCEPT ![f] = v] \in Confs
    BY <1>k DEF Confs
  <2>2. gke' \in Clusters
    <3>1. CASE \E f \in Fields \ CreateOnly, v \in Values :
                  gke' = [gke EXCEPT !.conf[f] = v, !.to[f] = v]
      <4>1. PICK f \in Fields, v \in Values :
               gke' = [gke EXCEPT !.conf[f] = v, !.to[f] = v]
        BY ZenonT(60), <3>1
      <4>2. gke' = [gke EXCEPT !.conf = [gke.conf EXCEPT ![f] = v],
                               !.to = [gke.to EXCEPT ![f] = v]]
        BY <4>1 DEF Clusters
      <4>. QED
        BY ZenonT(60), <4>2, <2>1 DEF Clusters
    <3>2. CASE \E st \in GkeStates, o \in Ops, t \in {gke.to, gke.conf} :
                  gke' = [gke EXCEPT !.state = st, !.op = o, !.to = t]
      BY ZenonT(60), <3>2, <1>k DEF Clusters
    <3>3. gke = [gke EXCEPT !.op = gke.op, !.to = gke.to]
      BY ZenonT(60) DEF Clusters
    <3>. QED
      BY ZenonT(60), <1>11, <3>1, <3>2, <3>3 DEF GKEEvent, Clusters, GkeStates, Ops
  <2>3. budget' \in Nat
    BY ZenonT(60), <1>11, DisturbType DEF GKEEvent, ManagedTypeOK
  <2>. QED
    BY ZenonT(60), <1>11, <2>2, <2>3 DEF GKEEvent, ManagedTypeOK
<1>12. CASE Crash /\ plan' = "none" /\ UNCHANGED gke
  BY <1>12, CrashType
<1>13. CASE UserStep /\ UNCHANGED <<gke, plan>>
  BY <1>13, UserStepType
<1>14. CASE UNCHANGED vars
  BY <1>14 DEF vars, managedVars, ManagedTypeOK
<1>. QED
  BY <1>1, <1>2, <1>3, <1>4, <1>5, <1>6, <1>7, <1>8, <1>9, <1>10, <1>11,
     <1>12, <1>13, <1>14 DEF Next, Reconcile

\* The CR, the in-memory copy and the cluster keep their types in every
\* behaviour of the Cluster controller.
THEOREM TypeCorrect == Spec => []TypeOK
<1>1. Init => TypeOK
  BY ManagedInitOK, EmptyType DEF Init, TypeOK
<1>. QED
  BY <1>1, StepType, PTL DEF Spec

(***************************************************************************)
(* The invariant.                                                          *)
(***************************************************************************)

\* What a step of the reconciler or of a person does to the conjuncts of Inv
\* that concern the cluster: the CR loses its finalizer only after a 404.
LEMMA ManagedStepKeepsInv ==
    TypeOK /\ Inv /\ ManagedStep /\ UNCHANGED <<gke, plan>> => Inv'
<1>. SUFFICES ASSUME TypeOK, Inv, ManagedStep, UNCHANGED <<gke, plan>> PROVE Inv'
  OBVIOUS
<1>. USE DEF TypeOK, Inv, OneUpdateUnlessLateInitialized, OwnOperation
<1>m. ManagedInv'
  BY ManagedStepInv
<1>1. CASE Start
  BY <1>1, <1>m DEF Start
<1>2. CASE DecideDeleting
  BY <1>2, <1>m DEF DecideDeleting
<1>3. CASE DecideLive
  <2>1. CASE cr.finalizer \/ ~fresh
    <3>1. kube' = kube /\ cr' = cr /\ obs' = obs
      BY <1>3, <2>1 DEF DecideLive
    <3>2. pc' \in {"create", "finish", "update"}
      BY <1>3, <2>1 DEF DecideLive, Dispatch, ManagedTypeOK, Observations
    <3>. QED
      BY <1>3, <1>m, <3>1, <3>2 DEF DecideLive
  <2>2. CASE ~cr.finalizer /\ fresh
    <3>1. gke.state = "absent"
      BY <2>2 DEF ManagedInv, FreshAgrees
    <3>2. ~OwnOperation /\ ~OwnOperation'
      BY <3>1
    <3>3. pc' \in {"create", "finish", "update"}
      BY <1>3, <2>2 DEF DecideLive, Dispatch, ManagedTypeOK, Observations
    <3>. QED
      BY <1>m, <3>1, <3>2, <3>3
  <2>. QED
    BY <2>1, <2>2
<1>4. CASE Unfinalize
  BY <1>4, <1>m DEF Unfinalize, Idle
<1>5. CASE Finish
  <2>1. kube'.finalizer = kube.finalizer
    BY <1>5 DEF Finish, ManagedTypeOK, CRs
  <2>. QED
    BY <1>5, <1>m, <2>1 DEF Finish, Idle
<1>6. CASE Restart
  BY <1>6, <1>m DEF Restart, Idle
<1>. QED
  BY <1>1, <1>2, <1>3, <1>4, <1>5, <1>6 DEF ManagedStep

\* What people do to the CR keeps the invariant of the cluster.
LEMMA UserStepKeepsInv ==
    TypeOK /\ Inv /\ UserStep /\ UNCHANGED <<gke, plan>> => Inv'
<1>. SUFFICES ASSUME TypeOK, Inv, UserStep, UNCHANGED <<gke, plan>> PROVE Inv'
  OBVIOUS
<1>. USE DEF TypeOK, Inv, OneUpdateUnlessLateInitialized, OwnOperation
<1>m. ManagedInv'
  BY UserStepInv
<1>1. UNCHANGED <<cr, obs, pc>>
  BY DEF UserStep, UserCreate, UserEdit, UserDelete
<1>2. ~kube'.finalizer => gke.state = "absent"
  <2>1. CASE UserCreate
    BY <2>1 DEF UserCreate, ManagedInv, FinalizerHolds
  <2>2. CASE UserEdit \/ UserDelete
    <3>1. kube'.finalizer = kube.finalizer
      BY <2>2 DEF UserEdit, UserDelete, ManagedTypeOK, CRs
    <3>. QED
      BY <3>1
  <2>. QED
    BY <2>1, <2>2 DEF UserStep
<1>. QED
  BY <1>m, <1>1, <1>2

\* What Observe does to the CR: the finalizer and the phase stay, and the
\* stored and the in-memory spec are written together.
LEMMA ObserveKeeps ==
    ASSUME TypeOK, Inv, Observe
    PROVE  /\ kube'.finalizer = kube.finalizer /\ kube'.phase = kube.phase
           /\ cr'.finalizer = cr.finalizer /\ cr'.phase = cr.phase
           /\ fresh => cr'.spec = kube'.spec
           /\ pc' \in {"decide", "finish"}
           /\ pc' = "decide" => obs'.exists
           /\ pc' = "decide" /\ ~obs'.wrote => cr'.state = gke.state
           /\ pc' = "decide" /\ obs'.upToDate => NextUpdate(cr'.spec, gke) = "none"
<1>. DEFINE seen == [cr EXCEPT !.state = gke.state,
                               !.spec = LateInitialize(@, gke.conf)]
            wrote == seen.spec # cr.spec
            kept == IF wrote THEN Decoded(seen) ELSE seen
            done == [kept EXCEPT !.ready = ReadyFor(kept.state, @)]
<1>1. /\ seen.finalizer = cr.finalizer /\ seen.phase = cr.phase
      /\ seen.state = gke.state
  BY DEF TypeOK, ManagedTypeOK, CRs
<1>2. /\ kept.finalizer = cr.finalizer /\ kept.phase = cr.phase
      /\ kept.spec = seen.spec /\ (~wrote => kept.state = gke.state)
  BY ZenonT(60), <1>1 DEF Decoded, TypeOK, ManagedTypeOK, CRs
<1>3. /\ done.finalizer = kept.finalizer /\ done.phase = kept.phase
      /\ done.spec = kept.spec /\ done.state = kept.state
  BY DEF Decoded, TypeOK, ManagedTypeOK, CRs
<1>4. LET w == [kube EXCEPT !.spec = seen.spec]
      IN  w.finalizer = kube.finalizer /\ w.phase = kube.phase /\ w.spec = seen.spec
  BY DEF TypeOK, ManagedTypeOK, CRs
<1>5. \/ /\ wrote /\ ~fresh /\ cr' = seen /\ pc' = "finish" /\ kube' = kube
      \/ /\ cr' = done /\ pc' = "decide" /\ (wrote => fresh)
         /\ kube' = IF wrote THEN [kube EXCEPT !.spec = seen.spec] ELSE kube
         /\ obs'.exists /\ obs'.wrote = wrote
         /\ obs'.upToDate = (NextUpdate(kept.spec, gke) = "none")
  BY DEF Observe, GenerateObservation
<1>6. fresh => cr.spec = kube.spec
  BY DEF Inv, ManagedInv, FreshAgrees
<1>. HIDE DEF seen, wrote, kept, done
<1>7. ~wrote => seen.spec = cr.spec
  BY DEF wrote
<1>. QED
  BY ZenonT(60), <1>1, <1>2, <1>3, <1>4, <1>5, <1>6, <1>7

\* Every step keeps the invariant.
LEMMA StepInv == TypeOK /\ Inv /\ [Next]_vars => Inv'
<1>. SUFFICES ASSUME TypeOK, Inv, [Next]_vars PROVE Inv'
  OBVIOUS
<1>. USE DEF Inv, OneUpdateUnlessLateInitialized, OwnOperation
<1>. USE DEF ManagedInv, FreshAgrees, FinalizerHolds
<1>1. CASE ManagedStep /\ UNCHANGED <<gke, plan>>
  BY <1>1, ManagedStepKeepsInv
<1>2. CASE ObserveAbsent
  BY <1>2 DEF ObserveAbsent, NotThere
<1>3. CASE Observe
  <2>1. UNCHANGED <<fresh, gke>>
    BY <1>3 DEF Observe
  <2>. QED
    BY <1>3, <2>1, ObserveKeeps
<1>4. CASE ObservePanics
  BY <1>4 DEF ObservePanics
<1>5. CASE Create
  <2>1. /\ cr'.finalizer = cr.finalizer /\ cr'.phase = cr.phase
        /\ cr'.spec = cr.spec
    BY <1>5 DEF Create, TypeOK, ManagedTypeOK, CRs
  <2>2. \/ gke' = gke
        \/ gke'.op = "create" /\ gke'.state = "PROVISIONING"
    BY <1>5 DEF Create
  <2>. QED
    BY <1>5, <2>1, <2>2 DEF Create
<1>6. CASE UpdateGet
  BY <1>6 DEF UpdateGet
<1>7. CASE UpdateCall
  <2>1. \/ gke' = gke
        \/ gke'.op \in {"update", "deletePool"} /\ gke'.state = "RECONCILING"
    BY <1>7 DEF UpdateCall, TypeOK, Clusters
  <2>. QED
    BY <1>7, <2>1 DEF UpdateCall
<1>8. CASE Delete
  <2>1. /\ cr'.finalizer = cr.finalizer /\ cr'.phase = cr.phase
        /\ cr'.spec = cr.spec
    BY <1>8 DEF Delete, TypeOK, ManagedTypeOK, CRs
  <2>2. gke' = gke \/ gke'.op = "other"
    BY <1>8 DEF Delete, TypeOK, Clusters
  <2>. QED
    BY <1>8, <2>1, <2>2 DEF Delete
<1>9. CASE CallFails
  <2>1. /\ cr'.finalizer = cr.finalizer /\ cr'.phase = cr.phase
        /\ cr'.spec = cr.spec
    BY <1>9 DEF CallFails, TypeOK, ManagedTypeOK, CRs
  <2>. QED
    BY <1>9, <2>1 DEF CallFails
<1>10. CASE GKEProgress
  <2>1. /\ gke'.op = "none"
        /\ gke.state = "absent" => gke'.state = "absent"
    <3>1. CASE ProvisionDone
      BY <3>1 DEF ProvisionDone, TypeOK, Clusters
    <3>2. CASE OperationDone
      BY <3>2 DEF OperationDone, TypeOK, Clusters
    <3>3. CASE StopDone
      BY <3>3 DEF StopDone, Absent
    <3>. QED
      BY <1>10, <3>1, <3>2, <3>3 DEF GKEProgress
  <2>2. UNCHANGED <<kube, cr, fresh, obs, pc>>
    BY ZenonT(60), <1>10
    DEF GKEProgress, ProvisionDone, OperationDone, StopDone, managedVars
  <2>. QED
    BY <2>1, <2>2
<1>11. CASE GKEEvent
  <2>1. /\ gke.state # "absent"
        /\ \/ gke'.op \in {"none", "other"}
           \/ gke'.op = gke.op /\ gke.state \in {"RUNNING", "DEGRADED", "ERROR", "STATUS_UNSPECIFIED"}
    <3>1. CASE /\ gke.state = "RUNNING"
               /\ \E f \in Fields \ CreateOnly, v \in Values :
                     gke' = [gke EXCEPT !.conf[f] = v, !.to[f] = v]
      <4>1. gke'.op = gke.op
        BY <3>1 DEF TypeOK, Clusters
      <4>. QED
        BY <3>1, <4>1
    <3>2. CASE ~ /\ gke.state = "RUNNING"
                 /\ \E f \in Fields \ CreateOnly, v \in Values :
                       gke' = [gke EXCEPT !.conf[f] = v, !.to[f] = v]
      BY ZenonT(60), <1>11, <3>2 DEF GKEEvent, TypeOK, Clusters
    <3>. QED
      BY ZenonT(60), <3>1, <3>2
  <2>2. UNCHANGED <<kube, cr, fresh, obs, pc>>
    BY ZenonT(60), <1>11 DEF GKEEvent
  <2>. QED
    BY <2>1, <2>2
<1>12. CASE Crash /\ plan' = "none" /\ UNCHANGED gke
  <2>1. ManagedInv'
    BY <1>12, CrashInv
  <2>. QED
    BY <1>12, <2>1 DEF Crash, Idle
<1>13. CASE UserStep /\ UNCHANGED <<gke, plan>>
  BY <1>13, UserStepKeepsInv
<1>14. CASE UNCHANGED vars
  BY <1>14 DEF vars, managedVars
<1>. QED
  BY ZenonT(60), <1>1, <1>2, <1>3, <1>4, <1>5, <1>6, <1>7, <1>8, <1>9, <1>10, <1>11,
     <1>12, <1>13, <1>14 DEF Next, Reconcile

\* The inductive invariant of the cluster controller.
LEMMA Invariance == Spec => [](TypeOK /\ Inv)
<1>1. Init => TypeOK /\ Inv
  BY ManagedInitOK, EmptyType
  DEF Init, TypeOK, Inv, ManagedInit, Absent, OneUpdateUnlessLateInitialized,
      OwnOperation
<1>. QED
  BY <1>1, StepType, StepInv, PTL DEF Spec

\* Through edits, deletions, re-creations, failed calls and crashes in any
\* number and order, no cluster is left without a CR that will delete it.
THEOREM NoOrphanHolds == Spec => []NoOrphan
<1>1. TypeOK /\ Inv => NoOrphan
  BY DEF Inv, NoOrphan, ManagedInv, FinalizerHolds
<1>. QED
  BY <1>1, Invariance, PTL

\* Update is called during an operation of this controller only when Observe
\* has just persisted a late-initialized spec.
THEOREM OneUpdateHolds == Spec => []OneUpdateUnlessLateInitialized
<1>1. TypeOK /\ Inv => OneUpdateUnlessLateInitialized
  BY DEF Inv
<1>. QED
  BY <1>1, Invariance, PTL

(***************************************************************************)
(* Action properties.                                                      *)
(***************************************************************************)

\* LateInitializeSpec changes no field that is set, provided the instance has
\* none of the two fields it assigns unconditionally.
LEMMA LateInitializeKeeps ==
    ASSUME Fields \cap AlwaysLateInitialized = {},
           NEW s \in Specs, NEW c, NEW f \in Fields, ~Unset(f, s[f])
    PROVE  LateInitialize(s, c)[f] = s[f]
BY DEF LateInitialize, LateInitialized

\* Whatever people write into the CR while a reconcile runs, the controller
\* never changes a field they have set.
THEOREM IntentKeptHolds ==
    ASSUME Fields \cap AlwaysLateInitialized = {}
    PROVE  Spec => IntentKept
<1>. DEFINE Kept == \A f \in Fields :
                       ~Unset(f, kube.spec[f]) => kube'.spec[f] = kube.spec[f]
<1>1. TypeOK /\ Inv /\ [Next]_vars => [UserStep \/ Kept]_vars
  <2>. SUFFICES ASSUME TypeOK, Inv, Next, ~UserStep PROVE Kept
    OBVIOUS
  <2>1. CASE Observe
    <3>1. kube'.spec \in {kube.spec, LateInitialize(kube.spec, gke.conf)}
      BY <2>1 DEF Observe, TypeOK, ManagedTypeOK, CRs, Inv, ManagedInv, FreshAgrees
    <3>2. kube.spec \in Specs
      BY DEF TypeOK, ManagedTypeOK, CRs
    <3>. QED
      BY <3>1, <3>2, LateInitializeKeeps
  <2>2. CASE ManagedStep
    <3>1. kube'.spec = kube.spec
      BY ZenonT(60), <2>2
      DEF ManagedStep, Start, DecideDeleting, DecideLive, Unfinalize, Finish,
          Restart, TypeOK, ManagedTypeOK, CRs, Inv, ManagedInv, FreshAgrees
    <3>. QED
      BY <3>1
  <2>3. CASE ~Observe /\ ~ManagedStep
    <3>1. kube' = kube
      BY ZenonT(60), <2>3
      DEF Next, Reconcile, ObserveAbsent, ObservePanics, Create, UpdateGet,
          UpdateCall, Delete, CallFails, GKEProgress, ProvisionDone,
          OperationDone, StopDone, GKEEvent, Crash, managedVars
    <3>. QED
      BY <3>1
  <2>. QED
    BY <2>1, <2>2, <2>3
<1>. QED
  BY <1>1, Invariance, PTL DEF Spec, IntentKept

\* IsUpToDate is right when it says so: no field of the spec differs from
\* the cluster, provided the instance has no NotificationConfig.
LEMMA UpToDateIsReflected ==
    ASSUME "NotificationConfig" \notin Fields, NEW s, NEW k,
           NextUpdate(s, k) = "none"
    PROVE  Reflects(s, k.conf) /\ ~k.bootstrap
<1>1. ~k.bootstrap /\ \A f \in Updatable : ~Differs(s, k.conf, f)
  BY NextUpdateType
<1>2. ASSUME NEW f \in Fields \cap Updatable, s[f] # Nil PROVE s[f] = k.conf[f]
  <2>1. Generate(s, k.conf)[f] = k.conf[f]
    BY <1>1 DEF Differs
  <2>2. Assigns(s, k.conf, f)
    BY <1>2 DEF Assigns
  <2>. QED
    BY <1>2, <2>1, <2>2 DEF Generate, ValueOf
<1>. QED
  BY <1>1, <1>2 DEF Reflects, Unset

\* An Observe that reports "up to date" has read a cluster with every
\* updatable value of the spec.
THEOREM UpToDateReflectsSpecHolds ==
    ASSUME "NotificationConfig" \notin Fields
    PROVE  Spec => UpToDateReflectsSpec
<1>. DEFINE Right == pc = "observe" /\ pc' = "decide" /\ obs'.upToDate
                        => Reflects(cr'.spec, gke.conf) /\ ~gke.bootstrap
<1>1. TypeOK /\ Inv /\ [Next]_vars => [Right]_vars
  <2>. SUFFICES ASSUME TypeOK, Inv, Next, pc = "observe", pc' = "decide", obs'.upToDate
                PROVE  Reflects(cr'.spec, gke.conf) /\ ~gke.bootstrap
    OBVIOUS
  <2>1. Observe
    BY SMTT(30) DEF Next, Reconcile, ManagedStep, Start, DecideDeleting, DecideLive,
           Unfinalize, Finish, Restart, ObserveAbsent, ObservePanics, Create,
           UpdateGet, UpdateCall, Delete, CallFails, GKEProgress,
           ProvisionDone, OperationDone, StopDone, GKEEvent, Crash, Idle,
           managedVars, UserStep, UserCreate, UserEdit, UserDelete, NotThere
  <2>2. NextUpdate(cr'.spec, gke) = "none"
    BY <2>1, ObserveKeeps
  <2>. QED
    BY <2>2, UpToDateIsReflected
<1>. QED
  BY <1>1, Invariance, PTL DEF Spec, UpToDateReflectsSpec
=============================================================================
