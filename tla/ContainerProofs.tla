-------------------------- MODULE ContainerProofs ---------------------------
(***************************************************************************)
(* The two resources of the container API.  First the NodePool controller: *)
(* its properties for every set of fields and values and any number of     *)
(* disturbances.  Then the settings of a Cluster: what LateInitializeSpec, *)
(* GenerateCluster and the update functions do, struct by struct, for      *)
(* every choice of leaves, values and changes.                             *)
(***************************************************************************)
EXTENDS NodePool, ClusterSettings, ManagedProofs

(***************************************************************************)
(* The pure functions.                                                     *)
(***************************************************************************)

\* What GKE has is one of the values of the field, and so is what a spec sets.
LEMMA ConfValue ==
    ASSUME NEW c \in Confs, NEW f \in PoolFields
    PROVE  c[f] \in Values /\ c[f] \in PoolValues(f)
BY ZenonT(60) DEF Confs

\* A setting of a spec is a value of its field, or unset as its Go type has it.
LEMMA SpecValue ==
    ASSUME NEW s \in Specs, NEW f \in PoolFields
    PROVE  /\ s[f] \in Values \cup {Nil}
           /\ s[f] \in PoolValues(f) \cup (IF f \in NodePoolPlain THEN {Zero} ELSE {Nil})
BY ZenonT(60), PoolSpecsAssumption DEF PoolSpecs

\* A value that is sent and is not zero is one the field can have.
LEMMA SentValue ==
    ASSUME NEW s \in Specs, NEW f \in PoolFields
    PROVE  /\ ValueOf(s[f]) \in Values
           /\ ValueOf(s[f]) # Zero => ValueOf(s[f]) \in PoolValues(f)
BY ZenonT(60), SpecValue, ValuesAssumption DEF ValueOf

\* LateInitializeSpec yields a spec.
LEMMA LateInitializeType ==
    ASSUME NEW s \in Specs, NEW c \in Confs
    PROVE  LateInitializeSpec(s, c) \in Specs
<1>. DEFINE t == LateInitializeSpec(s, c)
<1>1. DOMAIN s = PoolFields
  BY ZenonT(60), PoolSpecsAssumption DEF PoolSpecs
<1>2. t = [f \in PoolFields |-> t[f]]
  BY ZenonT(60), <1>1 DEF LateInitializeSpec, FillUnset
<1>3. ASSUME NEW f \in PoolFields PROVE t[f] \in {s[f], c[f]}
  BY ZenonT(60), <1>1 DEF LateInitializeSpec, FillUnset
<1>. HIDE DEF t
<1>4. ASSUME NEW f \in PoolFields
      PROVE  /\ t[f] \in Values \cup {Nil}
             /\ t[f] \in PoolValues(f) \cup (IF f \in NodePoolPlain THEN {Zero} ELSE {Nil})
  BY ZenonT(60), <1>3, SpecValue, ConfValue
<1>5. t \in [PoolFields -> Values \cup {Nil}]
  BY ZenonT(60), <1>2, <1>4
<1>. QED
  BY ZenonT(60), <1>4, <1>5, PoolSpecsAssumption DEF PoolSpecs, t

\* What an update sends are values of the fields, so GKE holds values after it.
LEMMA RequestedType ==
    ASSUME NEW s \in Specs, NEW u, NEW c \in Confs
    PROVE  Applied(Requested(s, u), c) \in Confs
<1>. DEFINE r == Requested(s, u)
            t == Applied(r, c)
            all == [f \in PoolFields |-> ValueOf(s[f])]
<1>1. ASSUME NEW f \in DOMAIN r \cap PoolFields
      PROVE  r[f] \in Values /\ r[f] \in PoolValues(f)
  <2>1. CASE u = "general"
    <3>. DEFINE g == Restricted(all, {"ImageType", "Locations", "Version",
                                      "WorkloadMetadataConfig"})
    <3>1. r = Body(g, {})
      BY ZenonT(60), <2>1 DEF Requested, GenerateNodePoolUpdate
    <3>2. f \in DOMAIN g /\ g[f] # Zero /\ r[f] = g[f]
      <4>. HIDE DEF g, r
      <4>. QED
        BY ZenonT(60), <3>1, <1>1 DEF Body, Restricted
    <3>3. g[f] = ValueOf(s[f])
      BY ZenonT(60), <3>2 DEF Restricted
    <3>. QED
      BY ZenonT(60), <3>2, <3>3, SentValue
  <2>2. CASE u # "general"
    <3>1. r = Restricted(all, {IF u = "autoscaling" THEN "Autoscaling" ELSE "Management"})
      BY ZenonT(60), <2>2 DEF Requested, SpecializedUpdate
    <3>2. f \in {"Autoscaling", "Management"} /\ r[f] = ValueOf(s[f])
      <4>. HIDE DEF r
      <4>. QED
        BY ZenonT(60), <3>1, <1>1 DEF Restricted
    <3>3. Zero \in PoolValues(f)
      BY ZenonT(60), <3>2, ValuesAssumption DEF PoolValues
    <3>. QED
      BY ZenonT(60), <3>2, <3>3, SentValue
  <2>. QED
    BY ZenonT(60), <2>1, <2>2
<1>2. DOMAIN c = PoolFields
  BY ZenonT(60) DEF Confs
<1>. HIDE DEF r
<1>3. ASSUME NEW f \in PoolFields PROVE t[f] \in Values /\ t[f] \in PoolValues(f)
  BY ZenonT(60), <1>1, <1>2, ConfValue DEF Applied
<1>4. t \in [PoolFields -> Values]
  BY ZenonT(60), <1>2, <1>3 DEF Applied
<1>5. t \in Confs
  <2>. HIDE DEF t
  <2>. QED
    BY ZenonT(60), <1>3, <1>4 DEF Confs
<1>. QED
  BY ZenonT(60), <1>5 DEF r

\* IsUpToDate names one of three updates or none.
LEMMA NextUpdateType ==
    ASSUME NEW s, NEW c
    PROVE  NextUpdate(s, c) \in {"autoscaling", "management", "general", "none"}
BY ZenonT(60) DEF NextUpdate

\* No plan is no plan of an update.
LEMMA NoPlanIsNone == NoPlan \notin Plans /\ NoPlan.update = "none"
BY ZenonT(60) DEF NoPlan, Plans

(***************************************************************************)
(* Types.                                                                  *)
(***************************************************************************)

\* A pool that exists is a record; one that does not has no operation.
LEMMA PoolCases ==
    ASSUME TypeOK
    PROVE  /\ pool.state # "absent" =>
                pool \in [state : PoolStates, conf : Confs, to : Confs,
                         op : {"none", "create", "update", "delete"}]
           /\ pool.state = "absent" => pool.op = "none"
BY SMTT(60) DEF TypeOK, Pools, NoPool, PoolStates

\* Every step of the controller and of GKE leaves a pool.
LEMMA PoolType == ASSUME TypeOK, [Next]_vars PROVE pool' \in Pools
<1>. DEFINE Made == [state : PoolStates, conf : Confs, to : Confs,
                     op : {"none", "create", "update", "delete"}]
<1>p. pool \in Pools /\ Made \subseteq Pools /\ NoPool \in Pools
  BY ZenonT(60) DEF TypeOK, Pools
<1>e. ASSUME NEW p \in Made, NEW st \in PoolStates,
             NEW o \in {"none", "create", "update", "delete"}
      PROVE  [p EXCEPT !.state = st, !.op = o] \in Made
  BY ZenonT(60)
<1>m. pool.state # "absent" => pool \in Made
  BY ZenonT(60), PoolCases
<1>o. pool.op # "none" => pool.state # "absent"
  BY ZenonT(60), PoolCases
<1>1. CASE UNCHANGED pool
  BY ZenonT(60), <1>1, <1>p
<1>2. CASE Create /\ ~UNCHANGED pool
  <2>1. PICK c \in Confs :
           pool' = [state |-> "PROVISIONING", conf |-> c, op |-> "create", to |-> c]
    BY ZenonT(60), <1>2 DEF Create
  <2>2. pool' \in Made
    BY ZenonT(60), <2>1 DEF PoolStates
  <2>. QED
    BY ZenonT(60), <2>2, <1>p
<1>3. CASE UpdateCall /\ ~UNCHANGED pool
  <2>. DEFINE t == Applied(Requested(cr.spec, plan.update), pool.conf)
  <2>1. pool \in Made
    BY ZenonT(60), <1>3, <1>m DEF UpdateCall
  <2>2. t \in Confs
    BY ZenonT(60), <2>1, RequestedType DEF TypeOK, ManagedTypeOK, CRs
  <2>3. pool' = [pool EXCEPT !.state = "RECONCILING", !.op = "update", !.to = t]
    BY ZenonT(60), <1>3 DEF UpdateCall
  <2>. HIDE DEF t
  <2>4. pool' \in Made
    BY ZenonT(60), <2>1, <2>2, <2>3 DEF PoolStates
  <2>. QED
    BY ZenonT(60), <2>4, <1>p
<1>4. CASE Delete /\ ~UNCHANGED pool
  <2>1. pool' = [pool EXCEPT !.state = "STOPPING", !.op = "delete"] /\ pool.state # "absent"
    BY ZenonT(60), <1>4 DEF Delete
  <2>2. pool' \in Made
    BY ZenonT(60), <2>1, <1>m DEF PoolStates
  <2>. QED
    BY <2>2, <1>p
<1>5. CASE OperationDone
  <2>1. CASE pool.op = "delete"
    BY ZenonT(60), <1>5, <2>1, <1>p DEF OperationDone
  <2>2. CASE pool.op # "delete"
    <3>1. pool' = [pool EXCEPT !.state = "RUNNING", !.op = "none", !.conf = pool.to]
      BY ZenonT(60), <1>5, <2>2 DEF OperationDone
    <3>2. pool \in Made
      BY ZenonT(60), <1>5, <1>m, <1>o DEF OperationDone
    <3>3. pool' \in Made
      BY ZenonT(60), <3>1, <3>2 DEF PoolStates
    <3>. QED
      BY <3>3, <1>p
  <2>. QED
    BY ZenonT(60), <2>1, <2>2
<1>6. CASE GKEEvent
  <2>1. CASE /\ pool.state = "RUNNING"
             /\ \E f \in PoolFields, v \in Values :
                   /\ v \in PoolValues(f)
                   /\ pool' = [pool EXCEPT !.conf[f] = v, !.to[f] = v]
    <3>1. PICK f \in PoolFields, v \in Values :
             /\ v \in PoolValues(f)
             /\ pool' = [pool EXCEPT !.conf[f] = v, !.to[f] = v]
      BY ZenonT(60), <2>1
    <3>2. pool \in Made
      BY ZenonT(60), <2>1, <1>m
    <3>3. pool' = [pool EXCEPT !.conf = [pool.conf EXCEPT ![f] = v],
                               !.to = [pool.to EXCEPT ![f] = v]]
      BY ZenonT(60), <3>1, <3>2
    <3>4. ASSUME NEW c \in Confs PROVE [c EXCEPT ![f] = v] \in Confs
      BY ZenonT(60), <3>1 DEF Confs
    <3>5. pool' \in Made
      BY ZenonT(60), <3>2, <3>3, <3>4
    <3>. QED
      BY ZenonT(60), <3>5, <1>p
  <2>2. CASE pool' = NoPool
    BY ZenonT(60), <2>2, <1>p
  <2>3. CASE /\ pool.op # "none" \/ pool.state # "absent"
             /\ \E st \in PoolStates, o \in {"none", "delete"} :
                   pool' = [pool EXCEPT !.state = st, !.op = o]
    <3>1. PICK st \in PoolStates, o \in {"none", "create", "update", "delete"} :
             pool' = [pool EXCEPT !.state = st, !.op = o]
      BY ZenonT(60), <2>3 DEF PoolStates
    <3>2. pool' \in Made
      BY ZenonT(60), <2>3, <3>1, <1>e, <1>m, <1>o
    <3>. QED
      BY ZenonT(60), <3>2, <1>p
  <2>4. CASE /\ pool.state # "absent"
             /\ \E st \in PoolStates : pool' = [pool EXCEPT !.state = st]
    <3>1. pool' \in Made
      BY ZenonT(60), <2>4, <1>m
    <3>. QED
      BY ZenonT(60), <3>1, <1>p
  <2>. QED
    BY ZenonT(60), <1>6, <1>1, <2>1, <2>2, <2>3, <2>4 DEF GKEEvent, PoolStates
<1>. QED
  BY ZenonT(60), <1>1, <1>2, <1>3, <1>4, <1>5, <1>6
  DEF Next, Reconcile, ObserveAbsent, Observe, Create, UpdateGet, UpdateCall, Delete,
      ClusterDone, CallFails, vars

\* Every step keeps the CR, the pool and the pending update well typed.
LEMMA StepType == TypeOK /\ [Next]_vars => TypeOK'
<1>. SUFFICES ASSUME TypeOK, [Next]_vars PROVE TypeOK'
  BY ZenonT(60)
<1>p. pool' \in Pools
  BY ZenonT(60), PoolType
<1>. USE DEF TypeOK
<1>1. CASE ManagedStep /\ UNCHANGED <<pool, plan, cluster>>
  BY ZenonT(60), <1>1, ManagedStepType
<1>2. CASE ObserveAbsent
  BY ZenonT(60), <1>2 DEF ObserveAbsent, ManagedTypeOK, NotThere, Observations, PCs
<1>3. CASE Observe
  <2>. DEFINE told == [cr EXCEPT !.state = pool.state,
                                 !.spec = LateInitializeSpec(@, pool.conf)]
              wrote == told.spec # cr.spec
              kept == IF wrote THEN Decoded(told) ELSE told
              done == [kept EXCEPT !.ready = ReadyFor(kept.state, @)]
  <2>1. pool.state \in States /\ pool.conf \in Confs
    BY ZenonT(60), <1>3, PoolCases, PoolStatesAssumption DEF Observe
  <2>2. LateInitializeSpec(cr.spec, pool.conf) \in Specs
    BY ZenonT(60), <2>1, LateInitializeType DEF ManagedTypeOK, CRs
  <2>3. told \in CRs
    BY ZenonT(60), <2>1, <2>2 DEF ManagedTypeOK, CRs
  <2>4. kept \in CRs
    BY ZenonT(60), <2>3 DEF Decoded, ManagedTypeOK, CRs
  <2>5. \A st, r : r \in Readies => ReadyFor(st, r) \in Readies
    BY ZenonT(60) DEF ReadyFor, Readies
  <2>6. done \in CRs
    BY ZenonT(60), <2>4, <2>5 DEF CRs
  <2>7. [kube EXCEPT !.spec = told.spec] \in CRs
    BY ZenonT(60), <2>3 DEF ManagedTypeOK, CRs
  <2>8. kube' \in CRs /\ cr' \in CRs
    <3>. HIDE DEF told, wrote, kept, done
    <3>1. kube' \in {kube, [kube EXCEPT !.spec = told.spec]} /\ cr' \in {told, done}
      BY ZenonT(60), <1>3 DEF Observe, told, wrote, kept, done
    <3>. QED
      BY ZenonT(60), <3>1, <2>3, <2>6, <2>7 DEF ManagedTypeOK
  <2>9. obs' \in Observations /\ pc' \in PCs
    <3>1. pc' \in {"finish", "decide"}
      BY ZenonT(60), <1>3 DEF Observe
    <3>2. \/ obs' = obs
          \/ \E w, u \in BOOLEAN : obs' = [exists |-> TRUE, wrote |-> w, upToDate |-> u]
      BY <1>3, Zenon DEF Observe
    <3>3. \A w, u \in BOOLEAN :
             [exists |-> TRUE, wrote |-> w, upToDate |-> u] \in Observations
      BY ZenonT(60) DEF Observations
    <3>4. obs' \in Observations
      BY <3>2, <3>3, Zenon DEF ManagedTypeOK
    <3>. QED
      BY ZenonT(60), <3>1, <3>4 DEF PCs
  <2>. QED
    BY ZenonT(60), <1>3, <1>p, <2>8, <2>9 DEF Observe, ManagedTypeOK
<1>4. CASE Create
  <2>1. cr' \in CRs
    BY ZenonT(60), <1>4 DEF Create, ManagedTypeOK, CRs, Readies
  <2>. QED
    BY ZenonT(60), <1>4, <1>p, <2>1 DEF Create, ManagedTypeOK, PCs
<1>5. CASE UpdateGet
  <2>1. plan' \in Plans \cup {NoPlan}
    <3>1. CASE plan' = NoPlan
      BY ZenonT(60), <3>1
    <3>2. CASE plan' # NoPlan
      <4>1. /\ plan' = [update |-> NextUpdate(cr.spec, pool.conf), read |-> pool.conf]
            /\ NextUpdate(cr.spec, pool.conf) # "none" /\ pool.state # "absent"
        BY ZenonT(60), <1>5, <3>2 DEF UpdateGet
      <4>2. pool.conf \in Confs
        BY ZenonT(60), <4>1, PoolCases
      <4>3. NextUpdate(cr.spec, pool.conf) \in {"autoscaling", "management", "general"}
        BY ZenonT(60), <4>1, NextUpdateType
      <4>. QED
        BY ZenonT(60), <4>1, <4>2, <4>3 DEF Plans
    <3>. QED
      BY ZenonT(60), <3>1, <3>2
  <2>. QED
    BY ZenonT(60), <1>5, <1>p, <2>1 DEF UpdateGet, ManagedTypeOK, PCs
<1>6. CASE UpdateCall
  BY ZenonT(60), <1>6, <1>p DEF UpdateCall, ManagedTypeOK, PCs
<1>7. CASE Delete
  <2>1. cr' \in CRs
    BY ZenonT(60), <1>7 DEF Delete, ManagedTypeOK, CRs, Readies
  <2>. QED
    BY ZenonT(60), <1>7, <1>p, <2>1 DEF Delete, ManagedTypeOK, PCs
<1>8. CASE CallFails
  <2>1. cr' \in CRs
    BY ZenonT(60), <1>8 DEF CallFails, ManagedTypeOK, CRs, Readies
  <2>2. budget' \in Nat
    BY ZenonT(60), <1>8, DisturbType DEF CallFails, ManagedTypeOK
  <2>. QED
    BY ZenonT(60), <1>8, <1>p, <2>1, <2>2 DEF CallFails, ManagedTypeOK, PCs
<1>9. CASE OperationDone \/ ClusterDone
  BY ZenonT(60), <1>9, <1>p DEF OperationDone, ClusterDone, managedVars, ManagedTypeOK
<1>10. CASE GKEEvent
  <2>1. budget' \in Nat
    BY ZenonT(60), <1>10, DisturbType DEF GKEEvent, ManagedTypeOK
  <2>2. cluster' \in {"idle", "busy", "gone"} /\ UNCHANGED <<kube, cr, fresh, obs, pc, plan>>
    BY ZenonT(60), <1>10 DEF GKEEvent
  <2>. QED
    BY ZenonT(60), <1>p, <2>1, <2>2 DEF ManagedTypeOK
<1>11. CASE Crash /\ plan' = NoPlan /\ UNCHANGED <<pool, cluster>>
  BY ZenonT(60), <1>11, CrashType
<1>12. CASE UserStep /\ UNCHANGED <<pool, plan, cluster>>
  BY <1>12, UserStepType
<1>13. CASE UNCHANGED vars
  BY ZenonT(60), <1>13 DEF vars, managedVars, ManagedTypeOK
<1>. QED
  BY ZenonT(60), <1>1, <1>2, <1>3, <1>4, <1>5, <1>6, <1>7, <1>8, <1>9, <1>10, <1>11,
     <1>12, <1>13
  DEF Next, Reconcile

(***************************************************************************)
(* The invariant.                                                          *)
(***************************************************************************)

\* The reconciler's own steps: the CR loses its finalizer only after a 404.
LEMMA ManagedStepKeepsInv ==
    TypeOK /\ Inv /\ ManagedStep /\ UNCHANGED <<pool, plan, cluster>> => Inv'
<1>. SUFFICES ASSUME TypeOK, Inv, ManagedStep, UNCHANGED <<pool, plan, cluster>> PROVE Inv'
  BY ZenonT(60)
<1>. USE DEF TypeOK, Inv, OneUpdateUnlessLateInitialized
<1>m. ManagedInv'
  BY ZenonT(60), ManagedStepInv
<1>1. CASE Start
  BY ZenonT(60), <1>1, <1>m DEF Start
<1>2. CASE DecideDeleting
  BY ZenonT(60), <1>2, <1>m DEF DecideDeleting
<1>3. CASE DecideLive
  <2>1. pc' \in {"create", "finish", "update"}
    BY ZenonT(60), <1>3 DEF DecideLive, Dispatch, ManagedTypeOK, Observations
  <2>2. CASE cr.finalizer \/ ~fresh
    <3>1. kube' = kube /\ cr' = cr /\ obs' = obs
      BY ZenonT(60), <1>3, <2>2 DEF DecideLive
    <3>. QED
      BY ZenonT(60), <1>3, <1>m, <2>1, <3>1 DEF DecideLive
  <2>3. CASE ~cr.finalizer /\ fresh
    <3>1. pool.state = "absent"
      BY ZenonT(60), <2>3 DEF ManagedInv, FreshAgrees
    <3>2. pool.op = "none"
      BY ZenonT(60), <3>1, PoolCases
    <3>. QED
      BY ZenonT(60), <1>m, <2>1, <3>1, <3>2
  <2>. QED
    BY ZenonT(60), <2>2, <2>3
<1>4. CASE Unfinalize
  BY ZenonT(60), <1>4, <1>m DEF Unfinalize, Idle
<1>5. CASE Finish
  <2>1. kube'.finalizer = kube.finalizer
    BY ZenonT(60), <1>5 DEF Finish, ManagedTypeOK, CRs
  <2>. QED
    BY ZenonT(60), <1>5, <1>m, <2>1 DEF Finish, Idle
<1>6. CASE Restart
  BY ZenonT(60), <1>6, <1>m DEF Restart, Idle
<1>. QED
  BY ZenonT(60), <1>1, <1>2, <1>3, <1>4, <1>5, <1>6 DEF ManagedStep

\* People: a CR that goes without a finalizer, or is created, has no pool.
LEMMA UserStepKeepsInv ==
    TypeOK /\ Inv /\ UserStep /\ UNCHANGED <<pool, plan, cluster>> => Inv'
<1>. SUFFICES ASSUME TypeOK, Inv, UserStep, UNCHANGED <<pool, plan, cluster>> PROVE Inv'
  OBVIOUS
<1>. USE DEF TypeOK, Inv, OneUpdateUnlessLateInitialized
<1>m. ManagedInv'
  BY UserStepInv
<1>1. UNCHANGED <<cr, obs, pc>>
  BY ZenonT(60) DEF UserStep, UserCreate, UserEdit, UserDelete
<1>2. ~kube'.finalizer => pool.state = "absent"
  <2>1. CASE UserCreate
    BY ZenonT(60), <2>1 DEF UserCreate, ManagedInv, FinalizerHolds
  <2>2. CASE UserEdit \/ UserDelete
    <3>1. kube'.finalizer = kube.finalizer
      BY ZenonT(60), <2>2 DEF UserEdit, UserDelete, ManagedTypeOK, CRs
    <3>. QED
      BY ZenonT(60), <3>1
  <2>. QED
    BY ZenonT(60), <2>1, <2>2 DEF UserStep
<1>. QED
  BY ZenonT(60), <1>m, <1>1, <1>2

\* What Observe does to the CR: the finalizer and the phase stay, the stored
\* and the in-memory spec are written together, and a status that was not
\* overwritten is the one that was read.
LEMMA ObserveKeeps ==
    ASSUME TypeOK, Inv, Observe
    PROVE  /\ kube'.finalizer = kube.finalizer /\ kube'.phase = kube.phase
           /\ cr'.finalizer = cr.finalizer /\ cr'.phase = cr.phase
           /\ fresh => cr'.spec = kube'.spec
           /\ pc' \in {"decide", "finish"}
           /\ pc' = "decide" => obs'.exists
           /\ pc' = "decide" /\ ~obs'.wrote => cr'.state = pool.state
<1>. DEFINE told == [cr EXCEPT !.state = pool.state,
                               !.spec = LateInitializeSpec(@, pool.conf)]
            wrote == told.spec # cr.spec
            kept == IF wrote THEN Decoded(told) ELSE told
            done == [kept EXCEPT !.ready = ReadyFor(kept.state, @)]
<1>1. /\ told.finalizer = cr.finalizer /\ told.phase = cr.phase
      /\ told.state = pool.state
  BY ZenonT(60) DEF TypeOK, ManagedTypeOK, CRs
<1>2. /\ kept.finalizer = cr.finalizer /\ kept.phase = cr.phase
      /\ kept.spec = told.spec /\ (~wrote => kept.state = pool.state)
  BY ZenonT(60), <1>1 DEF Decoded, TypeOK, ManagedTypeOK, CRs
<1>3. /\ done.finalizer = kept.finalizer /\ done.phase = kept.phase
      /\ done.spec = kept.spec /\ done.state = kept.state
  BY ZenonT(60) DEF Decoded, TypeOK, ManagedTypeOK, CRs
<1>4. LET w == [kube EXCEPT !.spec = told.spec]
      IN  w.finalizer = kube.finalizer /\ w.phase = kube.phase /\ w.spec = told.spec
  BY ZenonT(60) DEF TypeOK, ManagedTypeOK, CRs
<1>5. \/ /\ wrote /\ ~fresh /\ cr' = told /\ pc' = "finish" /\ kube' = kube
      \/ /\ cr' = done /\ pc' = "decide" /\ (wrote => fresh)
         /\ kube' = IF wrote THEN [kube EXCEPT !.spec = told.spec] ELSE kube
         /\ obs'.exists /\ obs'.wrote = wrote
  BY SMTT(60) DEF Observe
<1>6. fresh => cr.spec = kube.spec
  BY ZenonT(60) DEF Inv, ManagedInv, FreshAgrees
<1>. HIDE DEF told, wrote, kept, done
<1>7. ~wrote => told.spec = cr.spec
  BY ZenonT(60) DEF wrote
<1>. QED
  BY ZenonT(60), <1>1, <1>2, <1>3, <1>4, <1>5, <1>6, <1>7

\* The steps that change the pool: GKE never starts an operation of the
\* controller's, and never makes a pool.
LEMMA GKEKeepsInv == TypeOK /\ Inv /\ (OperationDone \/ ClusterDone \/ GKEEvent) => Inv'
<1>. SUFFICES ASSUME TypeOK, Inv, OperationDone \/ ClusterDone \/ GKEEvent PROVE Inv'
  BY ZenonT(60)
<1>1. UNCHANGED <<kube, cr, fresh, obs, pc, plan>>
  BY ZenonT(60) DEF OperationDone, ClusterDone, GKEEvent, managedVars
<1>2. pool.op # "none" => pool.state # "absent"
  BY ZenonT(60), PoolCases
<1>3. \/ pool'.op = pool.op /\ pool'.state = pool.state
      \/ pool'.op \in {"none", "delete"} /\ (pool.state = "absent" => pool'.state = "absent")
  <2>1. CASE OperationDone /\ pool.op = "delete"
    BY ZenonT(60), <2>1 DEF OperationDone, NoPool
  <2>2. CASE OperationDone /\ pool.op # "delete"
    <3>1. pool'.op = "none" /\ pool.state # "absent"
      BY ZenonT(60), <2>2, <1>2, PoolCases DEF OperationDone
    <3>. QED
      BY ZenonT(60), <3>1
  <2>3. CASE ClusterDone
    BY ZenonT(60), <2>3 DEF ClusterDone
  <2>4. CASE GKEEvent
    <3>1. CASE /\ pool.state = "RUNNING"
               /\ \E f \in PoolFields, v \in Values :
                     pool' = [pool EXCEPT !.conf[f] = v, !.to[f] = v]
      BY ZenonT(60), <3>1, PoolCases
    <3>2. CASE /\ pool.op # "none" \/ pool.state # "absent"
               /\ \E st \in PoolStates, o \in {"none", "delete"} :
                     pool' = [pool EXCEPT !.state = st, !.op = o]
      BY ZenonT(60), <3>2, <1>2, PoolCases
    <3>3. CASE pool' = NoPool \/ pool' = pool
      BY SMTT(60), <3>3 DEF NoPool
    <3>4. CASE /\ pool.state \in {"RUNNING", "STATUS_UNSPECIFIED"}
               /\ \E st \in PoolStates : pool' = [pool EXCEPT !.state = st]
      <4>1. pool.op \in {"none", "delete"}
        BY ZenonT(60), <3>4, PoolCases DEF Inv
      <4>2. pool'.op = pool.op
        BY ZenonT(60), <3>4, PoolCases
      <4>. QED
        BY ZenonT(60), <3>4, <4>1, <4>2
    <3>. QED
      BY ZenonT(60), <2>4, <3>1, <3>2, <3>3, <3>4 DEF GKEEvent, PoolStates
  <2>. QED
    BY ZenonT(60), <2>1, <2>2, <2>3, <2>4
<1>. QED
  BY ZenonT(60), <1>1, <1>3
  DEF Inv, OneUpdateUnlessLateInitialized, ManagedInv, FreshAgrees, FinalizerHolds

\* Every step keeps the invariant.
LEMMA StepInv == TypeOK /\ Inv /\ [Next]_vars => Inv'
<1>. SUFFICES ASSUME TypeOK, Inv, [Next]_vars PROVE Inv'
  BY ZenonT(60)
<1>. USE DEF Inv, OneUpdateUnlessLateInitialized
<1>. USE DEF ManagedInv, FreshAgrees, FinalizerHolds
<1>1. CASE ManagedStep /\ UNCHANGED <<pool, plan, cluster>>
  BY ZenonT(60), <1>1, ManagedStepKeepsInv
<1>2. CASE ObserveAbsent
  BY ZenonT(60), <1>2 DEF ObserveAbsent, NotThere
<1>3. CASE Observe
  <2>1. UNCHANGED <<fresh, pool>>
    BY ZenonT(60), <1>3 DEF Observe
  <2>. QED
    BY ZenonT(60), <1>3, <2>1, ObserveKeeps
<1>4. CASE Create
  <2>1. /\ cr'.finalizer = cr.finalizer /\ cr'.phase = cr.phase
        /\ cr'.spec = cr.spec
    BY ZenonT(60), <1>4 DEF Create, TypeOK, ManagedTypeOK, CRs
  <2>2. \/ pool' = pool
        \/ pool'.op = "create" /\ pool'.state = "PROVISIONING"
    BY SMTT(60), <1>4 DEF Create
  <2>. QED
    BY ZenonT(60), <1>4, <2>1, <2>2 DEF Create
<1>5. CASE UpdateGet
  <2>1. pc' \in {"finish", "updateCall"} /\ UNCHANGED <<kube, cr, fresh, obs, pool>>
    BY ZenonT(60), <1>5 DEF UpdateGet
  <2>2. pc' = "updateCall" => /\ cr.state \notin {"RECONCILING", "PROVISIONING"}
                              /\ plan' = [update |-> NextUpdate(cr.spec, pool.conf),
                                          read |-> pool.conf]
                              /\ plan' # NoPlan
    BY ZenonT(60), <1>5 DEF UpdateGet
  <2>3. plan' \in Plans \cup {NoPlan}
    BY ZenonT(60), StepType DEF TypeOK
  <2>. QED
    BY SMTT(60), <1>5, <2>1, <2>2, <2>3 DEF UpdateGet
<1>6. CASE UpdateCall
  <2>1. \/ pool' = pool
        \/ pool'.op = "update" /\ pool'.state = "RECONCILING"
    BY ZenonT(60), <1>6, PoolCases DEF UpdateCall
  <2>. QED
    BY ZenonT(60), <1>6, <2>1 DEF UpdateCall
<1>7. CASE Delete
  <2>1. /\ cr'.finalizer = cr.finalizer /\ cr'.phase = cr.phase
        /\ cr'.spec = cr.spec
    BY ZenonT(60), <1>7 DEF Delete, TypeOK, ManagedTypeOK, CRs
  <2>2. pool' = pool \/ pool'.op = "delete"
    BY ZenonT(60), <1>7, PoolCases DEF Delete
  <2>. QED
    BY ZenonT(60), <1>7, <2>1, <2>2 DEF Delete
<1>8. CASE CallFails
  <2>1. /\ cr'.finalizer = cr.finalizer /\ cr'.phase = cr.phase
        /\ cr'.spec = cr.spec
    BY ZenonT(60), <1>8 DEF CallFails, TypeOK, ManagedTypeOK, CRs
  <2>. QED
    BY ZenonT(60), <1>8, <2>1 DEF CallFails
<1>9. CASE OperationDone \/ ClusterDone \/ GKEEvent
  BY ZenonT(60), <1>9, GKEKeepsInv
<1>10. CASE Crash /\ plan' = NoPlan /\ UNCHANGED <<pool, cluster>>
  <2>1. ManagedInv'
    BY ZenonT(60), <1>10, CrashInv
  <2>. QED
    BY ZenonT(60), <1>10, <2>1 DEF Crash, Idle
<1>11. CASE UserStep /\ UNCHANGED <<pool, plan, cluster>>
  BY SMTT(60), <1>11, UserStepKeepsInv
<1>12. CASE UNCHANGED vars
  BY ZenonT(60), <1>12 DEF vars, managedVars
<1>. QED
  BY ZenonT(60), <1>1, <1>2, <1>3, <1>4, <1>5, <1>6, <1>7, <1>8, <1>9, <1>10, <1>11, <1>12
  DEF Next, Reconcile

\* The types and the invariant hold in every behaviour of the NodePool controller.
THEOREM PoolInvariance == Spec => [](TypeOK /\ Inv)
<1>1. Init => TypeOK
  BY ZenonT(60), ManagedInitOK DEF Init, TypeOK, Pools
<1>2. Init => Inv
  BY ManagedInitOK DEF Init, Inv, ManagedInit, NoPool, OneUpdateUnlessLateInitialized
<1>. QED
  BY <1>1, <1>2, StepType, StepInv, PTL DEF Spec

\* Through busy and vanishing clusters, edits, deletions, failed calls and crashes
\* in any number and order, no node pool is left without a CR that will delete it.
THEOREM NoOrphanHolds == Spec => []NoOrphan
<1>1. TypeOK /\ Inv => NoOrphan
  BY ZenonT(60) DEF Inv, NoOrphan, ManagedInv, FinalizerHolds
<1>. QED
  BY <1>1, PoolInvariance, PTL

\* Update sends its request during an operation of this controller only when
\* Observe has just persisted a late-initialized spec.
THEOREM OneUpdateHolds == Spec => []OneUpdateUnlessLateInitialized
<1>1. TypeOK /\ Inv => OneUpdateUnlessLateInitialized
  BY ZenonT(60) DEF Inv
<1>. QED
  BY <1>1, PoolInvariance, PTL

(***************************************************************************)
(* The version.                                                            *)
(***************************************************************************)

\* With automatic upgrades the version is never what differs.
LEMMA VersionAgrees ==
    ASSUME NEW s, NEW c \in Confs, isAutoUpgradeEnabled(s)
    PROVE  ~Differs(s, c, "Version")
<1>1. "Version" \in PoolFields /\ PoolValues("Version") = Values \ {Zero}
  BY ZenonT(60), PoolFieldsAssumption DEF PoolValues
<1>2. c["Version"] # Zero
  BY ZenonT(60), <1>1, ConfValue
<1>3. GenerateVersion(s, c) = c["Version"]
  BY ZenonT(60), <1>2 DEF GenerateVersion
<1>4. GenerateNodePool(s, c)["Version"] = GenerateVersion(s, c)
  <2>1. "Version" \notin NodeConfig
    BY ZenonT(60) DEF NodeConfig, ConfigScalars, ConfigGroups
  <2>. QED
    BY ZenonT(60), <1>1, <2>1 DEF GenerateNodePool
<1>. QED
  BY ZenonT(60), <1>3, <1>4 DEF Differs

\* The general update is chosen because some field differs.
LEMMA GeneralDiffers ==
    ASSUME NEW s, NEW c \in Confs, NextUpdate(s, c) = "general"
    PROVE  \E f \in PoolFields : Differs(s, c, f)
<1>1. GenerateNodePool(s, c) # c
  BY ZenonT(60) DEF NextUpdate
<1>2. c = [f \in PoolFields |-> c[f]]
  BY ZenonT(60) DEF Confs
<1>3. GenerateNodePool(s, c) = [f \in PoolFields |-> GenerateNodePool(s, c)[f]]
  BY SMTT(60) DEF GenerateNodePool
<1>. QED
  BY ZenonT(60), <1>1, <1>2, <1>3 DEF Differs

\* The other two updates do not touch the version.
LEMMA SpecializedKeepsVersion ==
    ASSUME NEW s, NEW u, u # "general", NEW c \in Confs
    PROVE  Applied(Requested(s, u), c)["Version"] = c["Version"]
<1>1. "Version" \in DOMAIN c
  BY ZenonT(60), PoolFieldsAssumption DEF Confs
<1>2. "Version" \notin DOMAIN Requested(s, u)
  BY ZenonT(60) DEF Requested, SpecializedUpdate, Restricted
<1>. QED
  BY ZenonT(60), <1>1, <1>2 DEF Applied

\* An upgrade that GKE made by itself is taken back only by an update that
\* another difference called for, whatever happens between Observe, the second
\* read in Update and the call.
THEOREM VersionOnlyAlongHolds == Spec => VersionOnlyAlong
<1>. DEFINE Sent == /\ pc = "updateCall" /\ pc' = "finish" /\ pool' # pool
                    /\ isAutoUpgradeEnabled(cr.spec)
                    /\ pool'.to["Version"] # pool.conf["Version"]
            Other == \E f \in PoolFields \ {"Version"} : Differs(cr.spec, plan.read, f)
<1>1. TypeOK /\ Inv /\ [Next]_vars => [Sent => Other]_vars
  <2>. SUFFICES ASSUME TypeOK, Inv, Next, Sent PROVE Other
    BY ZenonT(60)
  <2>1. UpdateCall
    BY ZenonT(60) DEF Next, Reconcile, ManagedStep, Start, DecideDeleting, DecideLive,
       Unfinalize,
           Finish, Restart, ObserveAbsent, Observe, Create, UpdateGet, Delete, CallFails,
           OperationDone, ClusterDone, GKEEvent, Crash, Idle, managedVars,
           UserStep, UserCreate, UserEdit, UserDelete
  <2>2. plan.read \in Confs /\ plan.update = NextUpdate(cr.spec, plan.read)
    BY ZenonT(60) DEF Inv, Plans
  <2>3. pool.state # "absent"
    BY ZenonT(60), <2>1 DEF UpdateCall
  <2>4. pool.conf \in Confs
    BY ZenonT(60), <2>3, PoolCases
  <2>5. pool'.to = Applied(Requested(cr.spec, plan.update), pool.conf)
    BY ZenonT(60), <2>1, <2>3, PoolCases DEF UpdateCall
  <2>6. plan.update = "general"
    BY SMTT(60), <2>4, <2>5, SpecializedKeepsVersion
  <2>7. PICK f \in PoolFields : Differs(cr.spec, plan.read, f)
    BY ZenonT(60), <2>2, <2>6, GeneralDiffers
  <2>8. f # "Version"
    BY ZenonT(60), <2>2, <2>7, VersionAgrees
  <2>. QED
    BY ZenonT(60), <2>7, <2>8
<1>. QED
  BY <1>1, PoolInvariance, PTL DEF Spec, VersionOnlyAlong

(***************************************************************************)
(* The structs of a Cluster, group by group.                               *)
(***************************************************************************)

\* The fields of ClusterParameters that are structs, and itself.
TopStructs ==
    {"ClusterParameters", "AddonsConfig", "AuthenticatorGroupsConfig", "Autopilot",
     "Autoscaling", "BinaryAuthorization", "ConfidentialNodes", "DatabaseEncryption",
     "ReleaseChannel", "NotificationConfig", "DefaultMaxPodsConstraint",
     "IPAllocationPolicy", "LegacyAbac", "MaintenancePolicy", "MasterAuth",
     "MasterAuthorizedNetworksConfig", "NetworkConfig", "NetworkPolicy",
     "PrivateClusterConfig", "ResourceUsageExportConfig", "VerticalPodAutoscaling",
     "WorkloadIdentityConfig"}
NodeDefaults == {"Management", "ShieldedInstanceConfig", "UpgradeSettings"}
Windows == {"DailyMaintenanceWindow", "RecurringWindow"}
Exports == {"BigqueryDestination", "ConsumptionMeteringConfig"}

\* A group and the structs below it, as its Generate... function takes them.
StructsOf(g) ==
    CASE g = "AddonsConfig" -> {g} \cup AddonStructs
      [] g = "Autoscaling" -> {g, "AutoprovisioningNodePoolDefaults"} \cup NodeDefaults
      [] g = "MaintenancePolicy" -> {g, "Window", "RecurringTimes"} \cup Windows
      [] g = "MasterAuth" -> {g, "ClientCertificateConfig"}
      [] g = "NetworkConfig" -> {g, "DefaultSnatStatus"}
      [] g = "NotificationConfig" -> {g, "Pubsub"}
      [] g = "PrivateClusterConfig" -> {g, "MasterGlobalAccessConfig"}
      [] g = "ResourceUsageExportConfig" -> {g} \cup Exports
      [] OTHER -> {g}

\* There are no other structs.
LEMMA StructNames ==
    DOMAIN Structs =
        TopStructs \cup AddonStructs \cup NodeDefaults \cup Windows \cup Exports
            \cup {"AutoprovisioningNodePoolDefaults", "Window", "RecurringTimes",
                  "ClientCertificateConfig", "DefaultSnatStatus", "Pubsub",
                  "MasterGlobalAccessConfig"}
<1>1. DOMAIN Structs = {"ClusterParameters", "AddonsConfig", "CloudRunConfig",
        "ConfigConnectorConfig", "DNSCacheConfig",
        "GCEPersistentDiskCSIDriverConfig", "HorizontalPodAutoscaling",
        "HTTPLoadBalancing", "KubernetesDashboard", "NetworkPolicyConfig",
        "AuthenticatorGroupsConfig", "Autopilot", "Autoscaling",
        "AutoprovisioningNodePoolDefaults", "Management",
        "ShieldedInstanceConfig", "UpgradeSettings", "BinaryAuthorization",
        "ConfidentialNodes", "DatabaseEncryption", "ReleaseChannel",
        "NotificationConfig", "Pubsub", "DefaultMaxPodsConstraint",
        "IPAllocationPolicy", "LegacyAbac", "MaintenancePolicy", "Window",
        "DailyMaintenanceWindow", "RecurringWindow", "RecurringTimes",
        "MasterAuth", "ClientCertificateConfig",
        "MasterAuthorizedNetworksConfig", "NetworkConfig",
        "DefaultSnatStatus", "NetworkPolicy", "PrivateClusterConfig",
        "MasterGlobalAccessConfig", "ResourceUsageExportConfig",
        "BigqueryDestination", "ConsumptionMeteringConfig",
        "VerticalPodAutoscaling", "WorkloadIdentityConfig"}
  BY ZenonT(60) DEF Structs
<1>. QED  BY <1>1 DEF TopStructs, AddonStructs, NodeDefaults, Windows, Exports

\* What the table of structs holds, row by row.
LEMMA TopTable ==
    /\ Structs["ClusterParameters"] = ClusterParameters
    /\ Structs["AddonsConfig"] = AddonsConfig
    /\ Structs["AuthenticatorGroupsConfig"] = AuthenticatorGroupsConfig
    /\ Structs["Autopilot"] = Autopilot
    /\ Structs["Autoscaling"] = ClusterAutoscaling
    /\ Structs["BinaryAuthorization"] = BinaryAuthorization
    /\ Structs["ConfidentialNodes"] = ConfidentialNodes
    /\ Structs["DatabaseEncryption"] = DatabaseEncryption
    /\ Structs["ReleaseChannel"] = ReleaseChannel
    /\ Structs["NotificationConfig"] = NotificationConfig
    /\ Structs["DefaultMaxPodsConstraint"] = MaxPodsConstraint
    /\ Structs["IPAllocationPolicy"] = IPAllocationPolicy
    /\ Structs["LegacyAbac"] = LegacyAbac
    /\ Structs["MaintenancePolicy"] = MaintenancePolicySpec
    /\ Structs["MasterAuth"] = MasterAuth
    /\ Structs["MasterAuthorizedNetworksConfig"] = MasterAuthorizedNetworksConfig
    /\ Structs["NetworkConfig"] = NetworkConfigSpec
    /\ Structs["NetworkPolicy"] = NetworkPolicy
    /\ Structs["PrivateClusterConfig"] = PrivateClusterConfigSpec
    /\ Structs["ResourceUsageExportConfig"] = ResourceUsageExportConfig
    /\ Structs["VerticalPodAutoscaling"] = VerticalPodAutoscaling
    /\ Structs["WorkloadIdentityConfig"] = WorkloadIdentityConfig
BY ZenonT(60) DEF Structs

LEMMA InnerTable ==
    /\ Structs["CloudRunConfig"] = CloudRunConfig
    /\ Structs["ConfigConnectorConfig"] = ConfigConnectorConfig
    /\ Structs["DNSCacheConfig"] = DNSCacheConfig
    /\ Structs["GCEPersistentDiskCSIDriverConfig"] = GCEPersistentDiskCSIDriverConfig
    /\ Structs["HorizontalPodAutoscaling"] = HorizontalPodAutoscaling
    /\ Structs["HTTPLoadBalancing"] = HTTPLoadBalancing
    /\ Structs["KubernetesDashboard"] = KubernetesDashboard
    /\ Structs["NetworkPolicyConfig"] = NetworkPolicyConfig
    /\ Structs["AutoprovisioningNodePoolDefaults"] = AutoprovisioningNodePoolDefaults
    /\ Structs["Management"] = NodeManagement
    /\ Structs["ShieldedInstanceConfig"] = ShieldedInstanceConfig
    /\ Structs["UpgradeSettings"] = UpgradeSettings
    /\ Structs["Pubsub"] = PubSub
    /\ Structs["Window"] = MaintenanceWindowSpec
    /\ Structs["DailyMaintenanceWindow"] = DailyMaintenanceWindowSpec
    /\ Structs["RecurringWindow"] = RecurringTimeWindow
    /\ Structs["RecurringTimes"] = TimeWindow
    /\ Structs["ClientCertificateConfig"] = ClientCertificateConfig
    /\ Structs["DefaultSnatStatus"] = DefaultSnatStatus
    /\ Structs["MasterGlobalAccessConfig"] = PrivateClusterMasterGlobalAccessConfig
    /\ Structs["BigqueryDestination"] = BigQueryDestination
    /\ Structs["ConsumptionMeteringConfig"] = ConsumptionMeteringConfig
BY ZenonT(60) DEF Structs

\* Which struct holds which.
LEMMA TopParents == \A s \in TopStructs : Structs[s].parent = Top
<1>1. \A s \in {"ClusterParameters", "AddonsConfig", "AuthenticatorGroupsConfig",
                "Autopilot", "Autoscaling", "BinaryAuthorization",
                "ConfidentialNodes", "DatabaseEncryption"} : Structs[s].parent = Top
  BY SMTT(60), TopTable DEF ClusterParameters, AddonsConfig, AuthenticatorGroupsConfig,
         Autopilot, ClusterAutoscaling, BinaryAuthorization, ConfidentialNodes,
         DatabaseEncryption, Switch, Struct
<1>2. \A s \in {"ReleaseChannel", "NotificationConfig", "DefaultMaxPodsConstraint",
                "IPAllocationPolicy", "LegacyAbac", "MaintenancePolicy",
                "MasterAuth"} : Structs[s].parent = Top
  BY SMTT(60), TopTable DEF ReleaseChannel, NotificationConfig, MaxPodsConstraint,
         IPAllocationPolicy, LegacyAbac, MaintenancePolicySpec, MasterAuth,
         Switch, Struct
<1>3. \A s \in {"MasterAuthorizedNetworksConfig", "NetworkConfig", "NetworkPolicy",
                "PrivateClusterConfig", "ResourceUsageExportConfig",
                "VerticalPodAutoscaling", "WorkloadIdentityConfig"} :
         Structs[s].parent = Top
  BY TopTable DEF MasterAuthorizedNetworksConfig, NetworkConfigSpec, NetworkPolicy,
         PrivateClusterConfigSpec, ResourceUsageExportConfig, VerticalPodAutoscaling,
         WorkloadIdentityConfig, Switch, Struct
<1>. QED  BY ZenonT(60), <1>1, <1>2, <1>3 DEF TopStructs

LEMMA InnerParents ==
    /\ \A s \in AddonStructs : Structs[s].parent = "AddonsConfig"
    /\ Structs["AutoprovisioningNodePoolDefaults"].parent = "Autoscaling"
    /\ \A s \in NodeDefaults : Structs[s].parent = "AutoprovisioningNodePoolDefaults"
    /\ Structs["Window"].parent = "MaintenancePolicy"
    /\ \A s \in Windows : Structs[s].parent = "Window"
    /\ Structs["RecurringTimes"].parent = "RecurringWindow"
    /\ Structs["ClientCertificateConfig"].parent = "MasterAuth"
    /\ Structs["DefaultSnatStatus"].parent = "NetworkConfig"
    /\ Structs["Pubsub"].parent = "NotificationConfig"
    /\ Structs["MasterGlobalAccessConfig"].parent = "PrivateClusterConfig"
    /\ \A s \in Exports : Structs[s].parent = "ResourceUsageExportConfig"
<1>1. \A s \in AddonStructs : Structs[s].parent = "AddonsConfig"
  BY SMTT(60), InnerTable DEF AddonStructs, CloudRunConfig, ConfigConnectorConfig,
     DNSCacheConfig,
         GCEPersistentDiskCSIDriverConfig, HorizontalPodAutoscaling,
         HTTPLoadBalancing, KubernetesDashboard, NetworkPolicyConfig, Switch, Struct
<1>2. /\ Structs["AutoprovisioningNodePoolDefaults"].parent = "Autoscaling"
      /\ \A s \in NodeDefaults : Structs[s].parent = "AutoprovisioningNodePoolDefaults"
  BY SMTT(60), InnerTable DEF NodeDefaults, AutoprovisioningNodePoolDefaults,
     NodeManagement,
         ShieldedInstanceConfig, UpgradeSettings, Struct
<1>3. /\ Structs["Window"].parent = "MaintenancePolicy"
      /\ \A s \in Windows : Structs[s].parent = "Window"
      /\ Structs["RecurringTimes"].parent = "RecurringWindow"
  BY SMTT(60), InnerTable DEF Windows, MaintenanceWindowSpec, DailyMaintenanceWindowSpec,
         RecurringTimeWindow, TimeWindow, Switch, Struct
<1>4. /\ Structs["ClientCertificateConfig"].parent = "MasterAuth"
      /\ Structs["DefaultSnatStatus"].parent = "NetworkConfig"
      /\ Structs["Pubsub"].parent = "NotificationConfig"
      /\ Structs["MasterGlobalAccessConfig"].parent = "PrivateClusterConfig"
  BY SMTT(60), InnerTable DEF ClientCertificateConfig, DefaultSnatStatus, PubSub,
         PrivateClusterMasterGlobalAccessConfig, Switch, Struct
<1>5. \A s \in Exports : Structs[s].parent = "ResourceUsageExportConfig"
  BY InnerTable DEF Exports, BigQueryDestination, ConsumptionMeteringConfig, Switch, Struct
<1>. QED  BY ZenonT(60), <1>1, <1>2, <1>3, <1>4, <1>5

\* A struct directly under ClusterParameters is its own group.
LEMMA TopGroups ==
    ASSUME NEW s \in TopStructs
    PROVE  Ancestors(s) \subseteq {s} /\ GroupOf(s) = s
<1>1. Structs[s].parent = Top /\ Structs[Top].parent = Top
  BY ZenonT(60), TopParents DEF TopStructs, Top
<1>2. Ancestors(s) = {s}
  BY ZenonT(60), <1>1 DEF Ancestors
<1>. QED  BY ZenonT(60), <1>1, <1>2 DEF GroupOf

\* One level further down.
LEMMA SecondGroups ==
    ASSUME NEW p \in TopStructs, p # Top, NEW s \in DOMAIN Structs,
           Structs[s].parent = p, s # Top
    PROVE  Ancestors(s) = {s, p} /\ GroupOf(s) = p
<1>1. Structs[p].parent = Top /\ Structs[Top].parent = Top
  BY ZenonT(60), TopParents DEF TopStructs, Top
<1>2. Ancestors(s) = {s, p}
  BY ZenonT(60), <1>1 DEF Ancestors
<1>. QED  BY ZenonT(60), <1>1, <1>2 DEF GroupOf

LEMMA ThirdGroups ==
    ASSUME NEW q \in TopStructs, q # Top, NEW p \in DOMAIN Structs, p # Top,
           NEW s \in DOMAIN Structs, s # Top,
           Structs[s].parent = p, Structs[p].parent = q
    PROVE  Ancestors(s) = {s, p, q} /\ GroupOf(s) = q
<1>1. Structs[q].parent = Top /\ Structs[Top].parent = Top
  BY ZenonT(60), TopParents DEF TopStructs, Top
<1>2. Ancestors(s) = {s, p, q}
  BY ZenonT(60), <1>1 DEF Ancestors
<1>. QED  BY ZenonT(60), <1>1, <1>2 DEF GroupOf

\* Every struct, and every struct that holds it, is in the list of its group.
LEMMA Grouped ==
    ASSUME NEW s \in DOMAIN Structs
    PROVE  /\ GroupOf(s) \in TopStructs
           /\ s \in Ancestors(s) /\ Ancestors(s) \subseteq StructsOf(GroupOf(s))
           /\ \A t \in Ancestors(s) : Structs[t].parent \in Ancestors(s) \cup {Top}
<1>0. s \in Ancestors(s)
  BY ZenonT(60) DEF Ancestors
<1>1. CASE s \in TopStructs
  <2>1. Ancestors(s) \subseteq {s} /\ GroupOf(s) = s
    BY ZenonT(60), <1>1, TopGroups
  <2>2. s \in StructsOf(s)
    BY ZenonT(60), <1>1 DEF TopStructs, StructsOf
  <2>. QED  BY ZenonT(60), <1>0, <1>1, <2>1, <2>2, TopParents
<1>2. CASE s \in AddonStructs
  <2>1. s # Top /\ Structs[s].parent = "AddonsConfig"
    BY ZenonT(60), <1>2, InnerParents DEF AddonStructs, Top
  <2>2. Ancestors(s) = {s, "AddonsConfig"} /\ GroupOf(s) = "AddonsConfig"
    BY ZenonT(60), <2>1, SecondGroups DEF TopStructs, Top
  <2>3. Structs["AddonsConfig"].parent = Top
    BY ZenonT(60), TopParents DEF TopStructs
  <2>. QED  BY ZenonT(60), <1>0, <1>2, <2>1, <2>2, <2>3 DEF StructsOf, TopStructs
<1>3. CASE s \in NodeDefaults
  <2>1. /\ s # Top /\ Structs[s].parent = "AutoprovisioningNodePoolDefaults"
        /\ Structs["AutoprovisioningNodePoolDefaults"].parent = "Autoscaling"
    BY ZenonT(60), <1>3, InnerParents DEF NodeDefaults, Top
  <2>2. "AutoprovisioningNodePoolDefaults" \in DOMAIN Structs
    BY ZenonT(60), StructNames
  <2>3. /\ Ancestors(s) = {s, "AutoprovisioningNodePoolDefaults", "Autoscaling"}
        /\ GroupOf(s) = "Autoscaling"
    BY SMTT(60), <2>1, <2>2, ThirdGroups DEF TopStructs, Top
  <2>4. Structs["Autoscaling"].parent = Top
    BY ZenonT(60), TopParents DEF TopStructs
  <2>. QED  BY ZenonT(60), <1>0, <1>3, <2>1, <2>3, <2>4 DEF StructsOf, TopStructs
<1>4. CASE s \in Windows
  <2>1. /\ s # Top /\ Structs[s].parent = "Window"
        /\ Structs["Window"].parent = "MaintenancePolicy"
    BY ZenonT(60), <1>4, InnerParents DEF Windows, Top
  <2>2. "Window" \in DOMAIN Structs
    BY ZenonT(60), StructNames
  <2>3. /\ Ancestors(s) = {s, "Window", "MaintenancePolicy"}
        /\ GroupOf(s) = "MaintenancePolicy"
    BY SMTT(60), <2>1, <2>2, ThirdGroups DEF TopStructs, Top
  <2>4. Structs["MaintenancePolicy"].parent = Top
    BY ZenonT(60), TopParents DEF TopStructs
  <2>. QED  BY ZenonT(60), <1>0, <1>4, <2>1, <2>3, <2>4 DEF StructsOf, TopStructs
<1>5. CASE s \in Exports
  <2>1. s # Top /\ Structs[s].parent = "ResourceUsageExportConfig"
    BY ZenonT(60), <1>5, InnerParents DEF Exports, Top
  <2>2. /\ Ancestors(s) = {s, "ResourceUsageExportConfig"}
        /\ GroupOf(s) = "ResourceUsageExportConfig"
    BY ZenonT(60), <2>1, SecondGroups DEF TopStructs, Top
  <2>3. Structs["ResourceUsageExportConfig"].parent = Top
    BY ZenonT(60), TopParents DEF TopStructs
  <2>. QED  BY ZenonT(60), <1>0, <1>5, <2>1, <2>2, <2>3 DEF StructsOf, TopStructs
<1>6. CASE s = "RecurringTimes"
  <2>1. /\ Structs[s].parent = "RecurringWindow"
        /\ Structs["RecurringWindow"].parent = "Window"
        /\ Structs["Window"].parent = "MaintenancePolicy"
        /\ Structs["MaintenancePolicy"].parent = Top
    BY ZenonT(60), <1>6, InnerParents, TopParents DEF Windows, TopStructs
  <2>2. Ancestors(s) = {s, "RecurringWindow", "Window", "MaintenancePolicy"}
    BY ZenonT(60), <1>6, <2>1 DEF Ancestors, Top
  <2>3. GroupOf(s) = "MaintenancePolicy"
    BY ZenonT(60), <1>6, <2>1, <2>2 DEF GroupOf, Top
  <2>. QED  BY ZenonT(60), <1>0, <1>6, <2>1, <2>2, <2>3 DEF StructsOf, TopStructs, Windows
<1>7. CASE s = "AutoprovisioningNodePoolDefaults"
  BY SMTT(60), <1>0, <1>7, InnerParents, TopParents, SecondGroups DEF StructsOf,
     TopStructs, Top
<1>8. CASE s = "Window"
  BY SMTT(60), <1>0, <1>8, InnerParents, TopParents, SecondGroups DEF StructsOf,
     TopStructs, Top
<1>9. CASE s = "ClientCertificateConfig"
  BY SMTT(60), <1>0, <1>9, InnerParents, TopParents, SecondGroups DEF StructsOf,
     TopStructs, Top
<1>10. CASE s = "DefaultSnatStatus"
  BY SMTT(60), <1>0, <1>10, InnerParents, TopParents, SecondGroups DEF StructsOf,
     TopStructs, Top
<1>11. CASE s = "Pubsub"
  BY SMTT(60), <1>0, <1>11, InnerParents, TopParents, SecondGroups DEF StructsOf,
     TopStructs, Top
<1>12. CASE s = "MasterGlobalAccessConfig"
  BY SMTT(60), <1>0, <1>12, InnerParents, TopParents, SecondGroups DEF StructsOf,
     TopStructs, Top
<1>. QED
  BY ZenonT(60), StructNames, <1>1, <1>2, <1>3, <1>4, <1>5, <1>6, <1>7, <1>8, <1>9, <1>10,
     <1>11, <1>12

\* The fields of a behaviour: with a field there are the pointers to its struct
\* and to the one that holds this, and all structs are of the group.
Scoped(g, d) ==
    \A f \in d : /\ f = <<f[1], f[2]>>
                 /\ Pointer(f[1]) \in d
                 /\ Structs[f[1]].parent = Top \/ Pointer(Structs[f[1]].parent) \in d
                 /\ f[1] \in StructsOf(g)
                 /\ IsPointer(f) \/ f \in Leaves(f[1])

LEMMA ScopesScoped ==
    ASSUME NEW g \in Groups, NEW d \in Scopes[g]
    PROVE  g \in TopStructs /\ Scoped(g, d)
<1>1. PICK ls \in SUBSET GroupLeaves[g] : d = Scope(ls)
  BY ZenonT(60) DEF Scopes
<1>. DEFINE held == UNION {Ancestors(h[1]) : h \in ls}
<1>2. ASSUME NEW f \in ls
      PROVE  /\ f = <<f[1], f[2]>> /\ f[1] \in DOMAIN Structs /\ GroupOf(f[1]) = g
             /\ f \in Leaves(f[1])
  <2>1. f \in UNION {Leaves(s) : s \in {t \in DOMAIN Structs : GroupOf(t) = g}}
    BY ZenonT(60), <1>1 DEF GroupLeaves
  <2>2. PICK s \in DOMAIN Structs : GroupOf(s) = g /\ f \in Leaves(s)
    BY ZenonT(60), <2>1
  <2>3. f = <<f[1], f[2]>> /\ f[1] = s
    BY <2>2 DEF Leaves
  <2>. QED  BY ZenonT(60), <2>2, <2>3
<1>3. ASSUME NEW f \in ls
      PROVE  /\ f[1] \in Ancestors(f[1]) /\ Ancestors(f[1]) \subseteq StructsOf(g)
             /\ \A t \in Ancestors(f[1]) : Structs[t].parent \in Ancestors(f[1]) \cup {Top}
  BY ZenonT(60), <1>2, Grouped
<1>4. ASSUME NEW f \in ls
      PROVE  /\ f = <<f[1], f[2]>>
             /\ Pointer(f[1]) \in d
             /\ Structs[f[1]].parent = Top \/ Pointer(Structs[f[1]].parent) \in d
             /\ f[1] \in StructsOf(g)
             /\ f \in Leaves(f[1])
  <2>1. f[1] \in held
    BY ZenonT(60), <1>3
  <2>2. Structs[f[1]].parent = Top \/ Structs[f[1]].parent \in held
    BY ZenonT(60), <1>3
  <2>. QED  BY ZenonT(60), <1>1, <1>2, <1>3, <2>1, <2>2 DEF Scope
<1>5. ASSUME NEW t \in held
      PROVE  /\ Pointer(t) = <<Pointer(t)[1], Pointer(t)[2]>>
             /\ Pointer(t)[1] = t /\ Pointer(t) \in d
             /\ Structs[t].parent = Top \/ Pointer(Structs[t].parent) \in d
             /\ t \in StructsOf(g)
             /\ IsPointer(Pointer(t))
  <2>1. PICK h \in ls : t \in Ancestors(h[1])
    BY ZenonT(60), <1>5
  <2>2. t \in StructsOf(g)
    BY ZenonT(60), <1>3, <2>1
  <2>3. Pointer(t) \in d
    BY ZenonT(60), <1>1 DEF Scope
  <2>4. Structs[t].parent = Top \/ Structs[t].parent \in held
    BY ZenonT(60), <1>3, <2>1
  <2>5. Structs[t].parent = Top \/ Pointer(Structs[t].parent) \in d
    BY ZenonT(60), <1>1, <2>4 DEF Scope
  <2>. QED  BY <2>2, <2>3, <2>5 DEF Pointer, IsPointer
<1>6. Scoped(g, d)
  <2>. SUFFICES ASSUME NEW f \in d
                PROVE  /\ f = <<f[1], f[2]>>
                       /\ Pointer(f[1]) \in d
                       /\ Structs[f[1]].parent = Top \/ Pointer(Structs[f[1]].parent) \in d
                       /\ f[1] \in StructsOf(g)
                       /\ IsPointer(f) \/ f \in Leaves(f[1])
    BY ZenonT(60) DEF Scoped
  <2>1. f \in ls \/ \E t \in held : f = Pointer(t)
    BY ZenonT(60), <1>1 DEF Scope
  <2>. QED  BY ZenonT(60), <2>1, <1>4, <1>5
<1>7. g \in TopStructs
  BY ZenonT(60), Grouped DEF Groups
<1>. QED  BY ZenonT(60), <1>6, <1>7

(***************************************************************************)
(* LateInitializeSpec.                                                     *)
(***************************************************************************)

\* What a clause of LateInitializeSpec for the structs T makes of a spec.
Late(s, c, T, out) ==
    /\ DOMAIN out = DOMAIN s
    /\ SpecOK(out)
    /\ \A f \in DOMAIN s :
          /\ f[1] \in T /\ out[f] = Nil => c[f] = Zero
          /\ f[1] \notin T => out[f] = s[f]
          /\ s[f] # Nil /\ f[1] \notin Unconditional => out[f] = s[f]

\* What holds a struct of T is filled in with it, or has been before.
Upward(s, c, T) ==
    \A t \in T : \/ Structs[t].parent \in T \cup {Top}
                 \/ Pointer(Structs[t].parent) \notin DOMAIN s
                 \/ c[Pointer(Structs[t].parent)] = Zero
                 \/ s[Pointer(Structs[t].parent)] # Nil

\* SpecOK and ConfOK, field by field.
LEMMA SpecPointer ==
    ASSUME NEW s, SpecOK(s), NEW f \in DOMAIN s, IsPointer(f)
    PROVE  /\ s[f] \in {Nil, Set}
           /\ f[1] = Top => s[f] = Set
           /\ ParentPointer(f) \in DOMAIN s /\ s[ParentPointer(f)] = Nil => s[f] = Nil
           /\ f[1] \in ByValue => s[f] = s[ParentPointer(f)]
BY ZenonT(60) DEF SpecOK

LEMMA SpecLeaf ==
    ASSUME NEW s, SpecOK(s), NEW f \in DOMAIN s, ~IsPointer(f)
    PROVE  /\ s[f] \in Values \cup {Nil} /\ (IsList(f) => s[f] # Zero)
           /\ s[Pointer(f[1])] = Nil => s[f] = Nil
           /\ IsValue(f) /\ s[Pointer(f[1])] = Set => s[f] # Nil
BY ZenonT(60), ValuesAssumption DEF SpecOK

LEMMA ConfPointer ==
    ASSUME NEW c, ConfOK(c), NEW f \in DOMAIN c, IsPointer(f)
    PROVE  /\ c[f] \in {Zero, Set}
           /\ f[1] = Top => c[f] = Set
           /\ ParentPointer(f) \in DOMAIN c /\ c[ParentPointer(f)] = Zero => c[f] = Zero
BY ZenonT(60) DEF ConfOK

LEMMA ConfLeaf ==
    ASSUME NEW c, ConfOK(c), NEW f \in DOMAIN c, ~IsPointer(f)
    PROVE  c[f] \in Values /\ (c[Pointer(f[1])] = Zero => c[f] = Zero)
BY ZenonT(60) DEF ConfOK

\* A field that is set has the pointer to its struct set, in a spec and in GKE.
LEMMA SetWithStruct ==
    ASSUME NEW g, NEW s, NEW c, DOMAIN c = DOMAIN s, Scoped(g, DOMAIN s),
           SpecOK(s), ConfOK(c), NEW f \in DOMAIN s
    PROVE  /\ Pointer(f[1]) \in DOMAIN s /\ IsPointer(Pointer(f[1]))
           /\ Pointer(f[1])[1] = f[1]
           /\ IsPointer(f) => f = Pointer(f[1])
           /\ s[Pointer(f[1])] \in {Nil, Set} /\ c[Pointer(f[1])] \in {Zero, Set}
           /\ s[f] # Nil => s[Pointer(f[1])] = Set
           /\ c[f] # Zero => c[Pointer(f[1])] = Set
<1>1. /\ Pointer(f[1]) \in DOMAIN s /\ IsPointer(Pointer(f[1]))
      /\ Pointer(f[1])[1] = f[1]
      /\ IsPointer(f) => f = Pointer(f[1])
  BY DEF Scoped, Pointer, IsPointer
<1>2. s[Pointer(f[1])] \in {Nil, Set} /\ c[Pointer(f[1])] \in {Zero, Set}
  BY ZenonT(60), <1>1, SpecPointer, ConfPointer
<1>3. CASE IsPointer(f)
  BY ZenonT(60), <1>1, <1>2, <1>3
<1>4. CASE ~IsPointer(f)
  BY ZenonT(60), <1>1, <1>2, <1>4, SpecLeaf, ConfLeaf
<1>. QED  BY ZenonT(60), <1>1, <1>2, <1>3, <1>4

\* The pointer to the struct that holds the struct of a pointer.
LEMMA ParentFacts ==
    ASSUME NEW f, IsPointer(f)
    PROVE  /\ ParentPointer(f) = Pointer(Structs[f[1]].parent)
           /\ IsPointer(ParentPointer(f))
           /\ ParentPointer(f)[1] = Structs[f[1]].parent
BY DEF ParentPointer, Pointer, IsPointer

\* Only two groups have structs that are held by value.
LEMMA NoneByValue ==
    ASSUME NEW g \in TopStructs \ {"MaintenancePolicy", "NotificationConfig"},
           NEW d, Scoped(g, d), NEW f \in d
    PROVE  f[1] \notin ByValue
<1>1. f[1] \in StructsOf(g)
  BY ZenonT(60) DEF Scoped
<1>. QED
  BY ZenonT(60), <1>1 DEF TopStructs, StructsOf, AddonStructs, NodeDefaults, Exports,
     ByValue

\* A struct that is set brings the one that holds it.
LEMMA HolderKept ==
    ASSUME NEW g, NEW s, NEW c, DOMAIN c = DOMAIN s, Scoped(g, DOMAIN s),
           SpecOK(s), ConfOK(c), NEW T, Upward(s, c, T),
           NEW f \in DOMAIN s, IsPointer(f), f[1] \in T, c[f] # Zero,
           ParentPointer(f) \in DOMAIN s, s[ParentPointer(f)] = Nil
    PROVE  /\ ParentPointer(f)[1] \in T /\ c[ParentPointer(f)] = Set
<1>. DEFINE p == ParentPointer(f)
<1>1. IsPointer(p) /\ p[1] = Structs[f[1]].parent /\ p = Pointer(Structs[f[1]].parent)
  BY ZenonT(60), ParentFacts
<1>2. p[1] # Top
  BY ZenonT(60), <1>1, SpecPointer, SetAssumption
<1>3. c[p] # Zero
  BY ZenonT(60), ConfPointer
<1>4. c[p] = Set
  BY ZenonT(60), <1>1, <1>3, ConfPointer
<1>. QED  BY ZenonT(60), <1>1, <1>2, <1>3, <1>4 DEF Upward

\* Filled, the clause with one LateInitialize... per leaf, for structs without
\* plain values.
LEMMA FilledLate ==
    ASSUME NEW g, NEW s, NEW c, DOMAIN c = DOMAIN s, Scoped(g, DOMAIN s),
           SpecOK(s), ConfOK(c), \A f \in DOMAIN s : f[1] \notin ByValue,
           NEW T, Upward(s, c, T), \A t \in T : Structs[t].val = {}
    PROVE  Late(s, c, T, Filled(s, c, T))
<1>. DEFINE out == Filled(s, c, T)
<1>1. /\ DOMAIN out = DOMAIN s
      /\ \A f \in DOMAIN s :
            out[f] = IF f[1] \in T /\ s[f] = Nil /\ c[f] # Zero THEN c[f] ELSE s[f]
  BY ZenonT(60) DEF Filled, FillUnset, Unset
<1>. HIDE DEF out
<1>2. \A f \in DOMAIN s : c[f] # Nil
  BY SMTT(60), ConfPointer, ConfLeaf, ValuesAssumption, SetAssumption
<1>3. ASSUME NEW f \in DOMAIN s, IsPointer(f)
      PROVE  /\ out[f] \in {Nil, Set}
             /\ f[1] = Top => out[f] = Set
             /\ ParentPointer(f) \in DOMAIN s /\ out[ParentPointer(f)] = Nil => out[f] = Nil
  <2>1. out[f] \in {Nil, Set} /\ (f[1] = Top => out[f] = Set)
    BY ZenonT(60), <1>1, <1>3, SpecPointer, ConfPointer, SetAssumption
  <2>2. ASSUME ParentPointer(f) \in DOMAIN s, out[ParentPointer(f)] = Nil
        PROVE  out[f] = Nil
    <3>1. s[ParentPointer(f)] = Nil
      BY ZenonT(60), <1>1, <1>2, <2>2
    <3>2. s[f] = Nil
      BY ZenonT(60), <1>3, <2>2, <3>1, SpecPointer
    <3>3. ~(f[1] \in T /\ c[f] # Zero)
      <4>. SUFFICES ASSUME f[1] \in T, c[f] # Zero PROVE FALSE
        BY ZenonT(60)
      <4>1. ParentPointer(f)[1] \in T /\ c[ParentPointer(f)] = Set
        BY SMTT(60), <1>3, <2>2, <3>1, HolderKept
      <4>. QED  BY ZenonT(60), <1>1, <2>2, <3>1, <4>1, SetAssumption
    <3>. QED  BY ZenonT(60), <1>1, <3>2, <3>3
  <2>. QED  BY ZenonT(60), <2>1, <2>2
<1>4. ASSUME NEW f \in DOMAIN s, ~IsPointer(f)
      PROVE  /\ out[f] \in Values \cup {Nil} /\ (IsList(f) => out[f] # Zero)
             /\ out[Pointer(f[1])] = Nil => out[f] = Nil
             /\ IsValue(f) /\ out[Pointer(f[1])] = Set => out[f] # Nil
  <2>1. /\ Pointer(f[1]) \in DOMAIN s /\ Pointer(f[1])[1] = f[1]
        /\ s[f] # Nil => s[Pointer(f[1])] = Set
        /\ c[f] # Zero => c[Pointer(f[1])] = Set
    BY SMTT(60), SetWithStruct
  <2>2. out[f] \in Values \cup {Nil} /\ (IsList(f) => out[f] # Zero)
    BY ZenonT(60), <1>1, <1>4, SpecLeaf, ConfLeaf
  <2>3. out[Pointer(f[1])] = Nil => out[f] = Nil
    BY ZenonT(60), <1>1, <2>1, SetAssumption
  <2>4. ASSUME IsValue(f), out[Pointer(f[1])] = Set
        PROVE  out[f] # Nil
    <3>1. f[1] \notin T
      BY ZenonT(60), <2>4 DEF IsValue
    <3>. QED  BY ZenonT(60), <1>1, <1>4, <2>1, <2>4, <3>1, SpecLeaf
  <2>. QED  BY ZenonT(60), <2>2, <2>3, <2>4
<1>5. SpecOK(out)
  BY ZenonT(60), <1>1, <1>3, <1>4 DEF SpecOK
<1>6. \A f \in DOMAIN s :
          /\ f[1] \in T /\ out[f] = Nil => c[f] = Zero
          /\ f[1] \notin T => out[f] = s[f]
          /\ s[f] # Nil /\ f[1] \notin Unconditional => out[f] = s[f]
  BY ZenonT(60), <1>1, <1>2
<1>. QED  BY ZenonT(60), <1>1, <1>5, <1>6 DEF Late, out

\* Copied, the clause that copies a struct of plain values when the spec has none.
LEMMA CopiedLate ==
    ASSUME NEW g, NEW s, NEW c, DOMAIN c = DOMAIN s, Scoped(g, DOMAIN s),
           SpecOK(s), ConfOK(c), NEW T, Upward(s, c, T),
           \A t \in T : Structs[t].ptr = {} /\ Structs[t].list = {},
           \A f \in DOMAIN s :
              f[1] \in ByValue =>
                 Copied(s, c, T)[f] = Copied(s, c, T)[ParentPointer(f)] \/ ~IsPointer(f)
    PROVE  Late(s, c, T, Copied(s, c, T))
<1>. DEFINE out == Copied(s, c, T)
<1>1. /\ DOMAIN out = DOMAIN s
      /\ \A f \in DOMAIN s :
            out[f] = IF /\ f[1] \in T
                        /\ s[Pointer(f[1])] = Nil /\ c[Pointer(f[1])] # Zero
                     THEN c[f] ELSE s[f]
  BY ZenonT(60) DEF Copied
<1>. HIDE DEF out
<1>2. \A f \in DOMAIN s : c[f] # Nil
  BY SMTT(60), ConfPointer, ConfLeaf, ValuesAssumption, SetAssumption
<1>3. ASSUME NEW f \in DOMAIN s
      PROVE  /\ Pointer(f[1]) \in DOMAIN s /\ Pointer(f[1])[1] = f[1]
             /\ IsPointer(Pointer(f[1])) /\ (IsPointer(f) => f = Pointer(f[1]))
             /\ s[Pointer(f[1])] \in {Nil, Set} /\ c[Pointer(f[1])] \in {Zero, Set}
             /\ s[f] # Nil => s[Pointer(f[1])] = Set
             /\ c[f] # Zero => c[Pointer(f[1])] = Set
  BY SMTT(60), SetWithStruct
<1>4. ASSUME NEW f \in DOMAIN s, IsPointer(f)
      PROVE  /\ out[f] \in {Nil, Set}
             /\ f[1] = Top => out[f] = Set
             /\ ParentPointer(f) \in DOMAIN s /\ out[ParentPointer(f)] = Nil => out[f] = Nil
             /\ f[1] \in ByValue => out[f] = out[ParentPointer(f)]
  <2>1. out[f] = IF f[1] \in T /\ s[f] = Nil /\ c[f] # Zero THEN c[f] ELSE s[f]
    BY ZenonT(60), <1>1, <1>3, <1>4
  <2>2. out[f] \in {Nil, Set} /\ (f[1] = Top => out[f] = Set)
    BY ZenonT(60), <2>1, <1>4, SpecPointer, ConfPointer, SetAssumption
  <2>3. ASSUME ParentPointer(f) \in DOMAIN s, out[ParentPointer(f)] = Nil
        PROVE  out[f] = Nil
    <3>1. s[ParentPointer(f)] = Nil
      BY ZenonT(60), <1>1, <1>2, <2>3
    <3>2. s[f] = Nil
      BY ZenonT(60), <1>4, <2>3, <3>1, SpecPointer
    <3>3. ~(f[1] \in T /\ c[f] # Zero)
      <4>. SUFFICES ASSUME f[1] \in T, c[f] # Zero PROVE FALSE
        BY ZenonT(60)
      <4>1. ParentPointer(f)[1] \in T /\ c[ParentPointer(f)] = Set
        BY SMTT(60), <1>4, <2>3, <3>1, HolderKept
      <4>2. ParentPointer(f) = Pointer(ParentPointer(f)[1])
        BY ZenonT(60), <1>4, ParentFacts
      <4>. QED  BY ZenonT(60), <1>1, <2>3, <3>1, <4>1, <4>2, SetAssumption
    <3>. QED  BY ZenonT(60), <2>1, <3>2, <3>3
  <2>4. f[1] \in ByValue => out[f] = out[ParentPointer(f)]
    BY ZenonT(60), <1>4 DEF out
  <2>. QED  BY ZenonT(60), <2>2, <2>3, <2>4
<1>5. ASSUME NEW f \in DOMAIN s, ~IsPointer(f)
      PROVE  /\ out[f] \in Values \cup {Nil} /\ (IsList(f) => out[f] # Zero)
             /\ out[Pointer(f[1])] = Nil => out[f] = Nil
             /\ IsValue(f) /\ out[Pointer(f[1])] = Set => out[f] # Nil
  <2>1. out[f] \in Values \cup {Nil}
    BY ZenonT(60), <1>1, <1>5, SpecLeaf, ConfLeaf
  <2>2. IsList(f) => out[f] # Zero
    <3>1. IsList(f) => f[1] \notin T
      BY ZenonT(60) DEF IsList
    <3>. QED  BY ZenonT(60), <1>1, <1>5, <3>1, SpecLeaf
  <2>3. out[Pointer(f[1])] = Nil => out[f] = Nil
    <3>1. out[Pointer(f[1])] = Nil => s[Pointer(f[1])] = Nil /\ out[f] = s[f]
      BY SMTT(60), <1>1, <1>2, <1>3
    <3>. QED  BY ZenonT(60), <1>3, <3>1, SetAssumption
  <2>4. ASSUME IsValue(f), out[Pointer(f[1])] = Set
        PROVE  out[f] # Nil
    <3>1. CASE f[1] \in T /\ s[Pointer(f[1])] = Nil /\ c[Pointer(f[1])] # Zero
      BY ZenonT(60), <1>1, <1>2, <3>1
    <3>2. CASE ~(f[1] \in T /\ s[Pointer(f[1])] = Nil /\ c[Pointer(f[1])] # Zero)
      <4>1. out[Pointer(f[1])] = s[Pointer(f[1])] /\ out[f] = s[f]
        BY ZenonT(60), <1>1, <1>3, <3>2
      <4>. QED  BY ZenonT(60), <1>5, <2>4, <4>1, SpecLeaf
    <3>. QED  BY ZenonT(60), <3>1, <3>2
  <2>. QED  BY ZenonT(60), <2>1, <2>2, <2>3, <2>4
<1>6. SpecOK(out)
  BY ZenonT(60), <1>1, <1>4, <1>5 DEF SpecOK
<1>7. ASSUME NEW f \in DOMAIN s, f[1] \in T, out[f] = Nil
      PROVE  c[f] = Zero
  <2>1. IsPointer(f) \/ IsValue(f)
    BY SMTT(60), <1>7 DEF Scoped, Leaves, IsValue
  <2>2. CASE IsPointer(f)
    BY ZenonT(60), <1>1, <1>2, <1>3, <1>7, <2>2
  <2>3. CASE ~IsPointer(f) /\ IsValue(f)
    <3>1. s[Pointer(f[1])] # Set
      <4>1. s[Pointer(f[1])] = Set => out[f] = s[f]
        BY ZenonT(60), <1>1, SetAssumption
      <4>. QED  BY ZenonT(60), <1>7, <2>3, <4>1, SpecLeaf
    <3>2. c[Pointer(f[1])] = Zero
      BY ZenonT(60), <1>1, <1>2, <1>3, <1>7, <3>1
    <3>. QED  BY ZenonT(60), <1>3, <3>2, SetAssumption
  <2>. QED  BY ZenonT(60), <2>1, <2>2, <2>3
<1>8. \A f \in DOMAIN s :
          /\ f[1] \notin T => out[f] = s[f]
          /\ s[f] # Nil /\ f[1] \notin Unconditional => out[f] = s[f]
  BY ZenonT(60), <1>1, <1>3, SetAssumption
<1>. QED  BY ZenonT(60), <1>1, <1>6, <1>7, <1>8 DEF Late, out

\* Overwritten, the clause that takes the struct of GKE whatever the spec has.
LEMMA OverwrittenLate ==
    ASSUME NEW g, NEW s, NEW c, DOMAIN c = DOMAIN s, Scoped(g, DOMAIN s),
           SpecOK(s), ConfOK(c), \A f \in DOMAIN s : f[1] \notin ByValue,
           NEW T, Upward(s, c, T), T \subseteq Unconditional,
           \A t \in T : Structs[t].list = {} /\ Structs[t].ptr \cap Structs[t].val = {}
    PROVE  Late(s, c, T, Overwritten(s, c, T))
<1>. DEFINE out == Overwritten(s, c, T)
            Taken(f) == f[1] \in T /\ c[Pointer(f[1])] # Zero
<1>1. /\ DOMAIN out = DOMAIN s
      /\ \A f \in DOMAIN s :
            /\ Taken(f) => out[f] = IF c[f] = Zero /\ f[2] \in Structs[f[1]].ptr
                                    THEN Nil ELSE c[f]
            /\ ~Taken(f) => out[f] = s[f]
  BY ZenonT(60) DEF Overwritten
<1>. HIDE DEF out
<1>2. \A f \in DOMAIN s : c[f] # Nil
  BY SMTT(60), ConfPointer, ConfLeaf, ValuesAssumption, SetAssumption
<1>3. ASSUME NEW f \in DOMAIN s
      PROVE  /\ Pointer(f[1]) \in DOMAIN s /\ Pointer(f[1])[1] = f[1]
             /\ IsPointer(Pointer(f[1])) /\ (IsPointer(f) => f = Pointer(f[1]))
             /\ s[Pointer(f[1])] \in {Nil, Set} /\ c[Pointer(f[1])] \in {Zero, Set}
             /\ s[f] # Nil => s[Pointer(f[1])] = Set
             /\ c[f] # Zero => c[Pointer(f[1])] = Set
  BY SMTT(60), SetWithStruct
<1>4. ASSUME NEW f \in DOMAIN s, IsPointer(f)
      PROVE  out[f] = IF f[1] \in T /\ c[f] # Zero THEN c[f] ELSE s[f]
  BY ZenonT(60), <1>1, <1>3, <1>4
<1>5. ASSUME NEW f \in DOMAIN s, IsPointer(f)
      PROVE  /\ out[f] \in {Nil, Set}
             /\ f[1] = Top => out[f] = Set
             /\ ParentPointer(f) \in DOMAIN s /\ out[ParentPointer(f)] = Nil => out[f] = Nil
  <2>1. out[f] \in {Nil, Set} /\ (f[1] = Top => out[f] = Set)
    BY SMTT(60), <1>4, <1>5, SpecPointer, ConfPointer, SetAssumption
  <2>2. ASSUME ParentPointer(f) \in DOMAIN s, out[ParentPointer(f)] = Nil
        PROVE  out[f] = Nil
    <3>1. /\ IsPointer(ParentPointer(f))
          /\ s[ParentPointer(f)] = Nil
          /\ ~(ParentPointer(f)[1] \in T /\ c[ParentPointer(f)] # Zero)
      BY ZenonT(60), <1>2, <1>4, <1>5, <2>2, ParentFacts
    <3>2. s[f] = Nil
      BY ZenonT(60), <1>5, <2>2, <3>1, SpecPointer
    <3>3. ~(f[1] \in T /\ c[f] # Zero)
      BY SMTT(60), <1>5, <2>2, <3>1, HolderKept, SetAssumption
    <3>. QED  BY ZenonT(60), <1>4, <1>5, <3>2, <3>3
  <2>. QED  BY ZenonT(60), <2>1, <2>2
<1>6. ASSUME NEW f \in DOMAIN s, ~IsPointer(f)
      PROVE  /\ out[f] \in Values \cup {Nil} /\ (IsList(f) => out[f] # Zero)
             /\ out[Pointer(f[1])] = Nil => out[f] = Nil
             /\ IsValue(f) /\ out[Pointer(f[1])] = Set => out[f] # Nil
  <2>0. out[Pointer(f[1])] =
           IF Taken(f) THEN c[Pointer(f[1])] ELSE s[Pointer(f[1])]
    BY ZenonT(60), <1>3, <1>4
  <2>1. CASE Taken(f)
    <3>1. out[f] \in Values \cup {Nil} /\ out[Pointer(f[1])] # Nil
      BY ZenonT(60), <1>1, <1>2, <1>3, <1>6, <2>0, <2>1, ConfLeaf
    <3>2. ~IsList(f)
      BY ZenonT(60), <2>1 DEF IsList
    <3>3. IsValue(f) => f[2] \notin Structs[f[1]].ptr
      BY ZenonT(60), <2>1 DEF IsValue
    <3>4. IsValue(f) => out[f] # Nil
      BY ZenonT(60), <1>1, <1>2, <2>1, <3>3
    <3>. QED  BY ZenonT(60), <3>1, <3>2, <3>4
  <2>2. CASE ~Taken(f)
    <3>1. out[f] = s[f] /\ out[Pointer(f[1])] = s[Pointer(f[1])]
      BY ZenonT(60), <1>1, <2>0, <2>2
    <3>. QED  BY ZenonT(60), <1>6, <3>1, SpecLeaf
  <2>. QED  BY ZenonT(60), <2>1, <2>2
<1>7. SpecOK(out)
  BY ZenonT(60), <1>1, <1>5, <1>6 DEF SpecOK
<1>8. ASSUME NEW f \in DOMAIN s, f[1] \in T, out[f] = Nil
      PROVE  c[f] = Zero
  <2>1. CASE Taken(f)
    BY ZenonT(60), <1>1, <1>2, <1>8, <2>1
  <2>2. CASE ~Taken(f)
    BY ZenonT(60), <1>3, <1>8, <2>2, SetAssumption
  <2>. QED  BY ZenonT(60), <2>1, <2>2
<1>9. \A f \in DOMAIN s :
          /\ f[1] \notin T => out[f] = s[f]
          /\ s[f] # Nil /\ f[1] \notin Unconditional => out[f] = s[f]
  BY ZenonT(60), <1>1
<1>. QED  BY ZenonT(60), <1>1, <1>7, <1>8, <1>9 DEF Late, out

\* Two clauses in a row.
LEMMA LateThenLate ==
    ASSUME NEW s, NEW c, NEW T, NEW U, NEW mid, NEW out, T \cap U = {},
           Late(s, c, T, mid), Late(mid, c, U, out)
    PROVE  Late(s, c, T \cup U, out)
<1>1. /\ DOMAIN mid = DOMAIN s /\ DOMAIN out = DOMAIN s /\ SpecOK(out)
  BY ZenonT(60) DEF Late
<1>2. ASSUME NEW f \in DOMAIN s
      PROVE  /\ f[1] \in T /\ mid[f] = Nil => c[f] = Zero
             /\ f[1] \notin T => mid[f] = s[f]
             /\ s[f] # Nil /\ f[1] \notin Unconditional => mid[f] = s[f]
             /\ f[1] \in U /\ out[f] = Nil => c[f] = Zero
             /\ f[1] \notin U => out[f] = mid[f]
             /\ mid[f] # Nil /\ f[1] \notin Unconditional => out[f] = mid[f]
  BY ZenonT(60), <1>1 DEF Late
<1>. QED  BY ZenonT(60), <1>1, <1>2 DEF Late

\* Structs without plain values, and structs that have nothing else.
Sparse ==
    {"ClusterParameters", "AddonsConfig", "AuthenticatorGroupsConfig", "Autoscaling",
     "AutoprovisioningNodePoolDefaults", "DatabaseEncryption", "IPAllocationPolicy",
     "MasterAuth", "MasterAuthorizedNetworksConfig", "NetworkConfig", "NetworkPolicy",
     "PrivateClusterConfig", "ResourceUsageExportConfig"} \cup NodeDefaults
Plain ==
    {"Autopilot", "BinaryAuthorization", "ConfidentialNodes", "DefaultMaxPodsConstraint",
     "DefaultSnatStatus", "LegacyAbac", "MasterGlobalAccessConfig", "NotificationConfig",
     "Pubsub", "ReleaseChannel", "VerticalPodAutoscaling", "WorkloadIdentityConfig"}
        \cup (AddonStructs \ {"CloudRunConfig"}) \cup Exports

LEMMA SparseStructs == \A t \in Sparse : Structs[t].val = {}
<1>1. \A t \in {"ClusterParameters", "AddonsConfig", "AuthenticatorGroupsConfig",
                "Autoscaling", "AutoprovisioningNodePoolDefaults",
                "DatabaseEncryption"} : Structs[t].val = {}
  BY SMTT(60), TopTable, InnerTable DEF ClusterParameters, AddonsConfig,
     AuthenticatorGroupsConfig,
         ClusterAutoscaling, AutoprovisioningNodePoolDefaults, DatabaseEncryption, Struct
<1>2. \A t \in NodeDefaults \cup {"IPAllocationPolicy", "MasterAuth"} :
         Structs[t].val = {}
  BY TopTable, InnerTable DEF NodeDefaults, NodeManagement, ShieldedInstanceConfig,
         UpgradeSettings, IPAllocationPolicy, MasterAuth, Struct
<1>3. \A t \in {"MasterAuthorizedNetworksConfig", "NetworkConfig", "NetworkPolicy",
                "PrivateClusterConfig", "ResourceUsageExportConfig"} :
         Structs[t].val = {}
  BY TopTable DEF MasterAuthorizedNetworksConfig, NetworkConfigSpec, NetworkPolicy,
         PrivateClusterConfigSpec, ResourceUsageExportConfig, Struct
<1>. QED  BY ZenonT(60), <1>1, <1>2, <1>3 DEF Sparse

LEMMA PlainStructs == \A t \in Plain : Structs[t].ptr = {} /\ Structs[t].list = {}
<1>1. \A t \in {"Autopilot", "BinaryAuthorization", "ConfidentialNodes",
                "DefaultMaxPodsConstraint", "DefaultSnatStatus", "LegacyAbac"} :
         Structs[t].ptr = {} /\ Structs[t].list = {}
  BY SMTT(60), TopTable, InnerTable DEF Autopilot, BinaryAuthorization, ConfidentialNodes,
         MaxPodsConstraint, DefaultSnatStatus, LegacyAbac, Switch, Struct
<1>2. \A t \in {"MasterGlobalAccessConfig", "NotificationConfig", "Pubsub",
                "ReleaseChannel", "VerticalPodAutoscaling", "WorkloadIdentityConfig"} :
         Structs[t].ptr = {} /\ Structs[t].list = {}
  BY TopTable, InnerTable DEF PrivateClusterMasterGlobalAccessConfig, NotificationConfig,
     PubSub,
         ReleaseChannel, VerticalPodAutoscaling, WorkloadIdentityConfig, Switch, Struct
<1>3. \A t \in AddonStructs \ {"CloudRunConfig"} :
         Structs[t].ptr = {} /\ Structs[t].list = {}
  BY InnerTable DEF AddonStructs, ConfigConnectorConfig, DNSCacheConfig,
         GCEPersistentDiskCSIDriverConfig, HorizontalPodAutoscaling,
         HTTPLoadBalancing, KubernetesDashboard, NetworkPolicyConfig, Switch, Struct
<1>4. \A t \in Exports : Structs[t].ptr = {} /\ Structs[t].list = {}
  BY SMTT(60), InnerTable DEF Exports, BigQueryDestination, ConsumptionMeteringConfig,
     Switch, Struct
<1>. QED  BY ZenonT(60), <1>1, <1>2, <1>3, <1>4 DEF Plain

LEMMA OtherStructs ==
    /\ \A t \in Unconditional :
          Structs[t].list = {} /\ Structs[t].ptr \cap Structs[t].val = {}
    /\ \A t \in {"MaintenancePolicy", "Window", "RecurringTimes"} \cup Windows :
          Structs[t].list \cap Structs[t].val = {}
<1>1. \A t \in Unconditional :
         Structs[t].list = {} /\ Structs[t].ptr \cap Structs[t].val = {}
  BY InnerTable DEF Unconditional, CloudRunConfig, ClientCertificateConfig, Switch, Struct
<1>2. \A t \in {"MaintenancePolicy", "Window", "RecurringTimes"} \cup Windows :
         Structs[t].list \cap Structs[t].val = {}
  BY TopTable, InnerTable DEF Windows, MaintenancePolicySpec, MaintenanceWindowSpec,
         DailyMaintenanceWindowSpec, RecurringTimeWindow, TimeWindow, Switch, Struct
<1>. QED  BY ZenonT(60), <1>1, <1>2

\* Groups of which LateInitializeSpec leaves something open.
Forgetful == {"Autopilot", "ConfidentialNodes", "IPAllocationPolicy",
              "MaintenancePolicy", "NotificationConfig"}

\* What is directly under ClusterParameters can be filled in.
LEMMA UpwardTop ==
    ASSUME NEW s, NEW c, NEW T, \A t \in T : Structs[t].parent \in T \cup {Top}
    PROVE  Upward(s, c, T)
BY ZenonT(60) DEF Upward

\* After the clause for its group a struct can be filled in.
LEMMA UpwardNext ==
    ASSUME NEW s, NEW c, NEW g, NEW mid, NEW T, Late(s, c, {g}, mid),
           \A t \in T : Structs[t].parent = g
    PROVE  Upward(mid, c, T)
<1>1. Pointer(g) \in DOMAIN mid /\ mid[Pointer(g)] = Nil => c[Pointer(g)] = Zero
  BY DEF Late, Pointer
<1>. QED  BY ZenonT(60), <1>1 DEF Upward

\* LateInitializeSpec in all other groups: when it is done, what the spec leaves
\* open is open in GKE, too.
LEMMA LateInitialized ==
    ASSUME NEW g \in TopStructs \ Forgetful, NEW s, NEW c, DOMAIN c = DOMAIN s,
           Scoped(g, DOMAIN s), SpecOK(s), ConfOK(c)
    PROVE  Late(s, c, StructsOf(g), LateInitializeClusterSpec(g, s, c))
<1>0. \A f \in DOMAIN s : f[1] \notin ByValue
  BY ZenonT(60), NoneByValue DEF Forgetful
<1>1. CASE g \in {"ClusterParameters", "AuthenticatorGroupsConfig",
                  "DatabaseEncryption", "MasterAuthorizedNetworksConfig",
                  "NetworkPolicy"}
  <2>1. StructsOf(g) = {g}
    BY ZenonT(60), <1>1 DEF StructsOf
  <2>2. LateInitializeClusterSpec(g, s, c) = Filled(s, c, {g})
    BY ZenonT(60), <1>1 DEF LateInitializeClusterSpec, LateInitializeScalars,
                LateInitializeAuthenticatorGroupsConfig,
                LateInitializeDatabaseEncryption,
                LateInitializeMasterAuthorizedNetworksConfig,
                LateInitializeNetworkPolicy
  <2>3. g \in Sparse
    BY ZenonT(60), <1>1 DEF Sparse
  <2>4. Upward(s, c, {g})
    BY ZenonT(60), TopParents, UpwardTop
  <2>. QED  BY SMTT(60), <1>0, <2>1, <2>2, <2>3, <2>4, SparseStructs, FilledLate
<1>2. CASE g = "Autoscaling"
  <2>. DEFINE T == {"Autoscaling", "AutoprovisioningNodePoolDefaults",
                    "Management", "ShieldedInstanceConfig", "UpgradeSettings"}
  <2>1. StructsOf(g) = T
    BY ZenonT(60), <1>2 DEF StructsOf, NodeDefaults
  <2>2. LateInitializeClusterSpec(g, s, c) = Filled(s, c, T)
    BY ZenonT(60), <1>2 DEF LateInitializeClusterSpec, LateInitializeAutoscaling
  <2>3. \A t \in T : Structs[t].val = {}
    BY ZenonT(60), SparseStructs DEF Sparse, NodeDefaults
  <2>4. \A t \in T : Structs[t].parent \in T \cup {Top}
    BY ZenonT(60), TopParents, InnerParents DEF TopStructs, NodeDefaults
  <2>. HIDE DEF T
  <2>5. Upward(s, c, T)
    BY ZenonT(60), <2>4, UpwardTop
  <2>. QED  BY ZenonT(60), <1>0, <2>1, <2>2, <2>3, <2>5, FilledLate
<1>3. CASE g \in {"BinaryAuthorization", "DefaultMaxPodsConstraint", "LegacyAbac",
                  "ReleaseChannel", "VerticalPodAutoscaling", "WorkloadIdentityConfig"}
  <2>1. StructsOf(g) = {g}
    BY ZenonT(60), <1>3 DEF StructsOf
  <2>2. LateInitializeClusterSpec(g, s, c) = Copied(s, c, {g})
    BY ZenonT(60), <1>3 DEF LateInitializeClusterSpec, LateInitializeBinaryAuthorization,
                LateInitializeDefaultMaxPodsConstraint, LateInitializeLegacyAbac,
                LateInitializeReleaseChannel, LateInitializeVerticalPodAutoscaling,
                LateInitializeWorkloadIdentityConfig
  <2>3. g \in Plain
    BY ZenonT(60), <1>3 DEF Plain
  <2>4. Upward(s, c, {g})
    BY TopParents, UpwardTop
  <2>. QED  BY SMTT(60), <1>0, <2>1, <2>2, <2>3, <2>4, PlainStructs, CopiedLate
<1>4. CASE g \in {"MasterAuth", "NetworkConfig", "PrivateClusterConfig",
                  "ResourceUsageExportConfig", "AddonsConfig"}
  <2>. DEFINE mid == Filled(s, c, {g})
  <2>1. Late(s, c, {g}, mid)
    <3>1. g \in Sparse
      BY ZenonT(60), <1>4 DEF Sparse
    <3>2. Upward(s, c, {g})
      BY TopParents, UpwardTop
    <3>. QED  BY ZenonT(60), <1>0, <3>1, <3>2, SparseStructs, FilledLate
  <2>. HIDE DEF mid
  <2>2. /\ DOMAIN mid = DOMAIN s /\ DOMAIN c = DOMAIN mid /\ SpecOK(mid)
        /\ Scoped(g, DOMAIN mid) /\ \A f \in DOMAIN mid : f[1] \notin ByValue
    BY ZenonT(60), <1>0, <2>1 DEF Late
  <2>3. CASE g = "MasterAuth"
    <3>. DEFINE T == {"ClientCertificateConfig"}
    <3>1. StructsOf(g) = {g} \cup T /\ {g} \cap T = {}
      BY ZenonT(60), <2>3 DEF StructsOf
    <3>2. LateInitializeClusterSpec(g, s, c) = Overwritten(mid, c, T)
      BY ZenonT(60), <2>3 DEF LateInitializeClusterSpec, LateInitializeMasterAuth, mid
    <3>3. Upward(mid, c, T)
      BY ZenonT(60), <2>1, <2>3, InnerParents, UpwardNext
    <3>4. Late(mid, c, T, Overwritten(mid, c, T))
      BY ZenonT(60), <2>2, <3>3, OtherStructs, OverwrittenLate DEF Unconditional
    <3>. HIDE DEF T
    <3>. QED  BY SMTT(60), <2>1, <3>1, <3>2, <3>4, LateThenLate
  <2>4. CASE g \in {"NetworkConfig", "PrivateClusterConfig", "ResourceUsageExportConfig"}
    <3>. DEFINE T == StructsOf(g) \ {g}
    <3>1. StructsOf(g) = {g} \cup T /\ {g} \cap T = {}
      BY ZenonT(60), <2>4 DEF StructsOf
    <3>2. LateInitializeClusterSpec(g, s, c) = Copied(mid, c, T)
      <4>1. CASE g = "NetworkConfig"
        <5>1. T = {"DefaultSnatStatus"}
          BY ZenonT(60), <4>1 DEF StructsOf
        <5>. QED  BY ZenonT(60), <4>1, <5>1 DEF LateInitializeClusterSpec,
                                    LateInitializeNetworkConfig, mid
      <4>2. CASE g = "PrivateClusterConfig"
        <5>1. T = {"MasterGlobalAccessConfig"}
          BY ZenonT(60), <4>2 DEF StructsOf
        <5>. QED  BY ZenonT(60), <4>2, <5>1 DEF LateInitializeClusterSpec,
                                    LateInitializePrivateClusterConfig, mid
      <4>3. CASE g = "ResourceUsageExportConfig"
        <5>1. T = {"BigqueryDestination", "ConsumptionMeteringConfig"}
          BY ZenonT(60), <4>3 DEF StructsOf, Exports
        <5>. QED  BY ZenonT(60), <4>3, <5>1 DEF LateInitializeClusterSpec,
                                    LateInitializeResourceUsageExportConfig, mid
      <4>. QED  BY ZenonT(60), <2>4, <4>1, <4>2, <4>3
    <3>3. \A t \in T : Structs[t].parent = g /\ t \in Plain
      BY ZenonT(60), <2>4, InnerParents DEF StructsOf, Exports, Plain
    <3>. HIDE DEF T
    <3>4. Upward(mid, c, T)
      BY ZenonT(60), <2>1, <3>3, UpwardNext
    <3>5. Late(mid, c, T, Copied(mid, c, T))
      BY ZenonT(60), <2>2, <3>3, <3>4, PlainStructs, CopiedLate
    <3>. QED  BY <2>1, <3>1, <3>2, <3>5, LateThenLate
  <2>5. CASE g = "AddonsConfig"
    <3>. DEFINE T == AddonStructs \ {"CloudRunConfig"}
                U == {"CloudRunConfig"}
                low == Copied(mid, c, T)
    <3>1. /\ StructsOf(g) = ({g} \cup T) \cup U
          /\ {g} \cap T = {} /\ ({g} \cup T) \cap U = {}
      BY ZenonT(60), <2>5 DEF StructsOf, AddonStructs
    <3>2. LateInitializeClusterSpec(g, s, c) = Overwritten(low, c, U)
      BY ZenonT(60), <2>5 DEF LateInitializeClusterSpec, LateInitializeAddonsConfig, mid
    <3>3. \A t \in T : Structs[t].parent = g /\ t \in Plain
      BY ZenonT(60), <2>5, InnerParents DEF Plain
    <3>. HIDE DEF T
    <3>4. Late(mid, c, T, low)
      BY ZenonT(60), <2>1, <2>2, <3>3, UpwardNext, PlainStructs, CopiedLate
    <3>5. Late(s, c, {g} \cup T, low)
      BY ZenonT(60), <2>1, <3>1, <3>4, LateThenLate
    <3>. HIDE DEF low
    <3>6. /\ DOMAIN low = DOMAIN s /\ DOMAIN c = DOMAIN low /\ SpecOK(low)
          /\ Scoped(g, DOMAIN low) /\ \A f \in DOMAIN low : f[1] \notin ByValue
      BY ZenonT(60), <1>0, <3>5 DEF Late
    <3>7. Upward(low, c, U)
      <4>1. Structs["CloudRunConfig"].parent = g
        BY ZenonT(60), <2>5, InnerParents DEF AddonStructs
      <4>2. Pointer(g) \in DOMAIN low /\ low[Pointer(g)] = Nil => c[Pointer(g)] = Zero
        BY <3>5 DEF Late, Pointer
      <4>. QED  BY ZenonT(60), <4>1, <4>2 DEF Upward
    <3>8. Late(low, c, U, Overwritten(low, c, U))
      BY ZenonT(60), <3>6, <3>7, OtherStructs, OverwrittenLate DEF Unconditional
    <3>. QED  BY SMTT(60), <3>1, <3>2, <3>5, <3>8, LateThenLate
  <2>. QED  BY ZenonT(60), <1>4, <2>3, <2>4, <2>5
<1>. QED  BY ZenonT(60), <1>1, <1>2, <1>3, <1>4 DEF TopStructs, Forgetful

\* LateInitializeSpec of a maintenance policy.
LEMMA LateMaintenancePolicy ==
    ASSUME NEW s, NEW c, DOMAIN c = DOMAIN s, Scoped("MaintenancePolicy", DOMAIN s),
           SpecOK(s), ConfOK(c),
           s[Pointer("MaintenancePolicy")] = Nil, c[Pointer("Window")] # Zero
    PROVE  LET out == LateInitializeMaintenancePolicy(s, c)
           IN  DOMAIN out = DOMAIN s /\ SpecOK(out) /\ \A f \in DOMAIN s : s[f] = Nil
<1>. DEFINE out == LateInitializeMaintenancePolicy(s, c)
            Structures == {"MaintenancePolicy", "Window", "RecurringTimes"} \cup Windows
<1>1. /\ DOMAIN out = DOMAIN s
      /\ \A f \in DOMAIN s :
            out[f] = IF \/ c[f] # Zero
                        \/ IsValue(f) /\ c[Pointer(f[1])] # Zero
                     THEN c[f] ELSE Nil
  BY ZenonT(60) DEF LateInitializeMaintenancePolicy, IsValue
<1>. HIDE DEF out
<1>2. \A f \in DOMAIN s : c[f] # Nil
  BY ZenonT(60), ConfPointer, ConfLeaf, ValuesAssumption, SetAssumption
<1>3. ASSUME NEW f \in DOMAIN s
      PROVE  /\ Pointer(f[1]) \in DOMAIN s /\ Pointer(f[1])[1] = f[1]
             /\ IsPointer(Pointer(f[1])) /\ (IsPointer(f) => f = Pointer(f[1]))
             /\ s[Pointer(f[1])] \in {Nil, Set} /\ c[Pointer(f[1])] \in {Zero, Set}
             /\ s[f] # Nil => s[Pointer(f[1])] = Set
             /\ c[f] # Zero => c[Pointer(f[1])] = Set
             /\ f[1] \in Structures
  <2>1. f[1] \in StructsOf("MaintenancePolicy")
    BY ZenonT(60) DEF Scoped
  <2>2. f[1] \in Structures
    BY ZenonT(60), <2>1 DEF StructsOf
  <2>. QED  BY SMTT(60), <2>2, SetWithStruct
<1>. HIDE DEF Structures
<1>4. ASSUME NEW f \in DOMAIN s, IsPointer(f)
      PROVE  /\ out[f] = IF c[f] = Zero THEN Nil ELSE Set
             /\ f[1] # Top
             /\ f[1] # "MaintenancePolicy" => ParentPointer(f) \in DOMAIN s
  <2>1. out[f] = IF c[f] = Zero THEN Nil ELSE Set
    BY <1>1, <1>3, <1>4, ConfPointer
  <2>2. f[1] # Top
    BY ZenonT(60), <1>3 DEF Structures, Windows, Top
  <2>3. f[1] # "MaintenancePolicy" => Structs[f[1]].parent # Top
    BY ZenonT(60), <1>3, InnerParents DEF Structures, Windows, Top
  <2>4. ParentPointer(f) = Pointer(Structs[f[1]].parent)
    BY ZenonT(60) DEF ParentPointer
  <2>. QED  BY ZenonT(60), <2>1, <2>2, <2>3, <2>4 DEF Scoped
<1>5. ASSUME NEW f \in DOMAIN s, IsPointer(f)
      PROVE  /\ out[f] \in {Nil, Set}
             /\ f[1] = Top => out[f] = Set
             /\ ParentPointer(f) \in DOMAIN s /\ out[ParentPointer(f)] = Nil => out[f] = Nil
             /\ f[1] \in ByValue => out[f] = out[ParentPointer(f)]
  <2>1. IsPointer(ParentPointer(f))
    BY ZenonT(60), <1>5, ParentFacts
  <2>2. ASSUME ParentPointer(f) \in DOMAIN s, out[ParentPointer(f)] = Nil
        PROVE  out[f] = Nil
    <3>1. c[ParentPointer(f)] = Zero
      BY ZenonT(60), <1>4, <2>1, <2>2, SetAssumption
    <3>. QED  BY SMTT(60), <1>4, <1>5, <2>2, <3>1, ConfPointer
  <2>3. ASSUME f[1] \in ByValue
        PROVE  out[f] = out[ParentPointer(f)]
    <3>1. f[1] = "Window"
      BY ZenonT(60), <1>3, <2>3 DEF ByValue, Structures, Windows
    <3>2. c[f] # Zero /\ ParentPointer(f) \in DOMAIN s
      BY ZenonT(60), <1>3, <1>4, <1>5, <3>1
    <3>3. c[ParentPointer(f)] # Zero
      BY ZenonT(60), <1>5, <3>2, ConfPointer
    <3>. QED  BY ZenonT(60), <1>4, <1>5, <2>1, <3>2, <3>3
  <2>. QED  BY ZenonT(60), <1>4, <1>5, <2>2, <2>3
<1>6. ASSUME NEW f \in DOMAIN s, ~IsPointer(f)
      PROVE  /\ out[f] \in Values \cup {Nil} /\ (IsList(f) => out[f] # Zero)
             /\ out[Pointer(f[1])] = Nil => out[f] = Nil
             /\ IsValue(f) /\ out[Pointer(f[1])] = Set => out[f] # Nil
  <2>1. out[f] \in Values \cup {Nil}
    BY ZenonT(60), <1>1, <1>6, ConfLeaf
  <2>2. IsList(f) => out[f] # Zero
    <3>1. IsList(f) => ~IsValue(f)
      BY ZenonT(60), <1>3, OtherStructs DEF Structures, IsList, IsValue
    <3>. QED  BY ZenonT(60), <1>1, <3>1, ValuesAssumption
  <2>3. out[Pointer(f[1])] = IF c[Pointer(f[1])] = Zero THEN Nil ELSE Set
    BY ZenonT(60), <1>3, <1>4
  <2>4. out[Pointer(f[1])] = Nil => out[f] = Nil
    <3>1. c[Pointer(f[1])] = Zero => c[f] = Zero
      BY ZenonT(60), <1>3, SetAssumption
    <3>. QED  BY ZenonT(60), <1>1, <2>3, <3>1, SetAssumption
  <2>5. IsValue(f) /\ out[Pointer(f[1])] = Set => out[f] # Nil
    BY ZenonT(60), <1>1, <1>2, <2>3, SetAssumption
  <2>. QED  BY ZenonT(60), <2>1, <2>2, <2>4, <2>5
<1>7. SpecOK(out)
  BY ZenonT(60), <1>1, <1>5, <1>6 DEF SpecOK
<1>8. ASSUME NEW f \in DOMAIN s
      PROVE  s[f] = Nil
  <2>1. ASSUME NEW p \in DOMAIN s, IsPointer(p), p[1] # "MaintenancePolicy",
               s[ParentPointer(p)] = Nil
        PROVE  s[p] = Nil
    BY ZenonT(60), <1>4, <2>1, SpecPointer
  <2>2. ASSUME NEW p \in DOMAIN s, IsPointer(p), p[1] = "Window"
        PROVE  s[p] = Nil
    <3>1. ParentPointer(p) = Pointer("MaintenancePolicy")
      BY ZenonT(60), <2>2, InnerParents DEF ParentPointer
    <3>. QED  BY ZenonT(60), <2>1, <2>2, <3>1
  <2>3. ASSUME NEW p \in DOMAIN s, IsPointer(p), p[1] \in Windows
        PROVE  s[p] = Nil
    <3>1. ParentPointer(p) = Pointer("Window") /\ p[1] # "MaintenancePolicy"
      BY ZenonT(60), <2>3, InnerParents DEF ParentPointer, Windows
    <3>2. Pointer("Window") \in DOMAIN s
      BY ZenonT(60), <1>4, <2>3, <3>1
    <3>. QED  BY <2>1, <2>2, <2>3, <3>1, <3>2 DEF Pointer, IsPointer
  <2>4. ASSUME NEW p \in DOMAIN s, IsPointer(p), p[1] = "RecurringTimes"
        PROVE  s[p] = Nil
    <3>1. ParentPointer(p) = Pointer("RecurringWindow")
      BY ZenonT(60), <2>4, InnerParents DEF ParentPointer
    <3>2. Pointer("RecurringWindow") \in DOMAIN s
      BY ZenonT(60), <1>4, <2>4, <3>1
    <3>. QED  BY <2>1, <2>3, <2>4, <3>1, <3>2 DEF Pointer, IsPointer, Windows
  <2>5. s[Pointer(f[1])] = Nil
    BY ZenonT(60), <1>3, <2>2, <2>3, <2>4 DEF Structures
  <2>. QED  BY ZenonT(60), <1>3, <2>5, SetAssumption
<1>. QED  BY ZenonT(60), <1>1, <1>7, <1>8 DEF out

\* LateInitializeSpec of the allocation of addresses.
LEMMA LateIPAllocationPolicy ==
    ASSUME NEW s, NEW c, DOMAIN c = DOMAIN s, Scoped("IPAllocationPolicy", DOMAIN s),
           SpecOK(s), ConfOK(c)
    PROVE  LET out == LateInitializeIPAllocationPolicy(s, c)
           IN  /\ DOMAIN out = DOMAIN s /\ SpecOK(out)
               /\ \A f \in DOMAIN s : s[f] # Nil => out[f] = s[f]
<1>. DEFINE T == {"IPAllocationPolicy"}
            all == Filled(s, c, T)
            out == LateInitializeIPAllocationPolicy(s, c)
            Open(f) == f[2] \in {"ServicesSecondaryRangeName", "UseRoutes"}
<1>0. /\ \A f \in DOMAIN s : f[1] = "IPAllocationPolicy" /\ f[1] \notin ByValue
      /\ Structs["IPAllocationPolicy"].val = {}
      /\ "IPAllocationPolicy" \notin Unconditional
  BY ZenonT(60), SparseStructs DEF Scoped, StructsOf, ByValue, Sparse, Unconditional
<1>1. Late(s, c, T, all)
  <2>1. Upward(s, c, T)
    BY ZenonT(60), TopParents, UpwardTop DEF TopStructs
  <2>. QED  BY ZenonT(60), <1>0, <2>1, FilledLate
<1>2. /\ DOMAIN out = DOMAIN s
      /\ \A f \in DOMAIN s : out[f] = IF Open(f) THEN s[f] ELSE all[f]
  BY ZenonT(60) DEF LateInitializeIPAllocationPolicy
<1>3. /\ DOMAIN all = DOMAIN s /\ SpecOK(all)
      /\ \A f \in DOMAIN s : s[f] # Nil => all[f] = s[f]
  BY ZenonT(60), <1>0, <1>1 DEF Late
<1>. HIDE DEF all, out
<1>4. ASSUME NEW f, IsPointer(f)
      PROVE  ~Open(f)
  BY <1>4 DEF IsPointer
<1>5. ASSUME NEW f \in DOMAIN s, IsPointer(f)
      PROVE  /\ out[f] \in {Nil, Set}
             /\ f[1] = Top => out[f] = Set
             /\ ParentPointer(f) \in DOMAIN s /\ out[ParentPointer(f)] = Nil => out[f] = Nil
             /\ f[1] \in ByValue => out[f] = out[ParentPointer(f)]
  <2>1. IsPointer(ParentPointer(f))
    BY ZenonT(60), <1>5, ParentFacts
  <2>2. /\ out[f] = all[f]
        /\ ParentPointer(f) \in DOMAIN s => out[ParentPointer(f)] = all[ParentPointer(f)]
    BY ZenonT(60), <1>2, <1>4, <1>5, <2>1
  <2>. QED  BY ZenonT(60), <1>0, <1>3, <1>5, <2>2, SpecPointer
<1>6. ASSUME NEW f \in DOMAIN s, ~IsPointer(f)
      PROVE  /\ out[f] \in Values \cup {Nil} /\ (IsList(f) => out[f] # Zero)
             /\ out[Pointer(f[1])] = Nil => out[f] = Nil
             /\ IsValue(f) /\ out[Pointer(f[1])] = Set => out[f] # Nil
  <2>1. Pointer(f[1]) \in DOMAIN s /\ IsPointer(Pointer(f[1]))
    BY ZenonT(60), SetWithStruct
  <2>2. out[Pointer(f[1])] = all[Pointer(f[1])]
    BY ZenonT(60), <1>2, <1>4, <2>1
  <2>3. ~IsValue(f)
    BY ZenonT(60), <1>0 DEF IsValue
  <2>4. CASE Open(f)
    <3>1. out[f] = s[f] /\ (all[Pointer(f[1])] = Nil => s[Pointer(f[1])] = Nil)
      BY ZenonT(60), <1>2, <1>3, <2>1, <2>4
    <3>. QED  BY ZenonT(60), <1>6, <2>2, <2>3, <3>1, SpecLeaf
  <2>5. CASE ~Open(f)
    <3>1. out[f] = all[f]
      BY ZenonT(60), <1>2, <2>5
    <3>. QED  BY ZenonT(60), <1>3, <1>6, <2>2, <2>3, <3>1, SpecLeaf
  <2>. QED  BY ZenonT(60), <2>4, <2>5
<1>7. SpecOK(out)
  BY ZenonT(60), <1>2, <1>5, <1>6 DEF SpecOK
<1>. QED  BY ZenonT(60), <1>2, <1>3, <1>7 DEF out

\* LateInitializeSpec of the notifications.
LEMMA LateNotificationConfig ==
    ASSUME NEW s, NEW c, DOMAIN c = DOMAIN s, Scoped("NotificationConfig", DOMAIN s),
           SpecOK(s), ConfOK(c)
    PROVE  LET out == LateInitializeNotificationConfig(s, c)
           IN  /\ DOMAIN out = DOMAIN s /\ SpecOK(out)
               /\ \A f \in DOMAIN s : s[f] # Nil => out[f] = s[f]
<1>1. CASE c[Pointer("Pubsub")] = Zero
  BY ZenonT(60), <1>1 DEF LateInitializeNotificationConfig
<1>2. CASE c[Pointer("Pubsub")] # Zero
  <2>. DEFINE T == {"NotificationConfig", "Pubsub"}
              out == Copied(s, c, T)
  <2>1. LateInitializeNotificationConfig(s, c) = out
    BY ZenonT(60), <1>2 DEF LateInitializeNotificationConfig
  <2>2. \A f \in DOMAIN s : f[1] \in T /\ f[1] \notin Unconditional
    BY ZenonT(60) DEF Scoped, StructsOf, Unconditional
  <2>3. \A t \in T : /\ Structs[t].ptr = {} /\ Structs[t].list = {}
                     /\ Structs[t].parent \in T \cup {Top}
    BY ZenonT(60), PlainStructs, TopParents, InnerParents DEF Plain, TopStructs
  <2>4. Upward(s, c, T)
    BY ZenonT(60), <2>3, UpwardTop
  <2>5. ASSUME NEW f \in DOMAIN s, f[1] \in ByValue, IsPointer(f)
        PROVE  out[f] = out[ParentPointer(f)]
    <3>1. f[1] = "Pubsub" /\ f = Pointer("Pubsub")
      BY ZenonT(60), <2>2, <2>5, SetWithStruct DEF ByValue
    <3>2. ParentPointer(f) = Pointer("NotificationConfig")
      BY ZenonT(60), <3>1, InnerParents DEF ParentPointer
    <3>3. ParentPointer(f) \in DOMAIN s
      BY ZenonT(60), <3>1, <3>2, InnerParents DEF Scoped, Top
    <3>4. s[f] = s[ParentPointer(f)]
      BY ZenonT(60), <2>5, SpecPointer
    <3>5. c[f] = Set /\ c[ParentPointer(f)] # Zero
      BY ZenonT(60), <1>2, <2>5, <3>1, <3>3, ConfPointer
    <3>6. c[ParentPointer(f)] = Set
      BY ZenonT(60), <2>5, <3>3, <3>5, ParentFacts, ConfPointer
    <3>7. /\ Pointer(f[1]) = f
          /\ ParentPointer(f)[1] = "NotificationConfig"
          /\ Pointer(ParentPointer(f)[1]) = ParentPointer(f)
      <4>1. Pointer("NotificationConfig")[1] = "NotificationConfig"
        BY ZenonT(60) DEF Pointer
      <4>. QED  BY ZenonT(60), <3>1, <3>2, <4>1
    <3>. QED  BY ZenonT(60), <3>1, <3>3, <3>4, <3>5, <3>6, <3>7, SetAssumption DEF Copied
  <2>. HIDE DEF T
  <2>6. Late(s, c, T, out)
    BY ZenonT(60), <2>3, <2>4, <2>5, CopiedLate
  <2>. QED  BY ZenonT(60), <2>1, <2>2, <2>6 DEF Late
<1>. QED  BY ZenonT(60), <1>1, <1>2

\* In every group LateInitializeSpec leaves what the spec sets, the two structs
\* without a nil check apart, and yields a spec that can be stored.
LEMMA LateSound ==
    ASSUME NEW g \in TopStructs, NEW s, NEW c, DOMAIN c = DOMAIN s,
           Scoped(g, DOMAIN s), SpecOK(s), ConfOK(c)
    PROVE  LET out == LateInitializeClusterSpec(g, s, c)
           IN  /\ DOMAIN out = DOMAIN s /\ SpecOK(out)
               /\ \A f \in DOMAIN s :
                     s[f] # Nil /\ f[1] \notin Unconditional => out[f] = s[f]
               /\ g \notin Forgetful => \A f \in DOMAIN s : out[f] = Nil => c[f] = Zero
<1>1. CASE g \notin Forgetful
  <2>1. Late(s, c, StructsOf(g), LateInitializeClusterSpec(g, s, c))
    BY ZenonT(60), <1>1, LateInitialized
  <2>2. \A f \in DOMAIN s : f[1] \in StructsOf(g)
    BY ZenonT(60) DEF Scoped
  <2>. QED  BY ZenonT(60), <2>1, <2>2 DEF Late
<1>2. CASE g \in {"Autopilot", "ConfidentialNodes"}
  <2>1. LateInitializeClusterSpec(g, s, c) = s
    BY ZenonT(60), <1>2 DEF LateInitializeClusterSpec
  <2>. QED  BY ZenonT(60), <1>2, <2>1 DEF Forgetful
<1>3. CASE g = "IPAllocationPolicy"
  <2>1. LateInitializeClusterSpec(g, s, c) = LateInitializeIPAllocationPolicy(s, c)
    BY ZenonT(60), <1>3 DEF LateInitializeClusterSpec
  <2>. QED  BY SMTT(60), <1>3, <2>1, LateIPAllocationPolicy DEF Forgetful
<1>4. CASE g = "NotificationConfig"
  <2>1. LateInitializeClusterSpec(g, s, c) = LateInitializeNotificationConfig(s, c)
    BY ZenonT(60), <1>4 DEF LateInitializeClusterSpec
  <2>. QED  BY SMTT(60), <1>4, <2>1, LateNotificationConfig DEF Forgetful
<1>5. CASE g = "MaintenancePolicy"
  <2>1. LateInitializeClusterSpec(g, s, c) = LateInitializeMaintenancePolicy(s, c)
    BY ZenonT(60), <1>5 DEF LateInitializeClusterSpec
  <2>2. CASE s[Pointer("MaintenancePolicy")] # Nil \/ c[Pointer("Window")] = Zero
    <3>1. LateInitializeMaintenancePolicy(s, c) = s
      BY ZenonT(60), <2>2 DEF LateInitializeMaintenancePolicy
    <3>. QED  BY ZenonT(60), <1>5, <2>1, <3>1 DEF Forgetful
  <2>3. CASE s[Pointer("MaintenancePolicy")] = Nil /\ c[Pointer("Window")] # Zero
    BY ZenonT(60), <1>5, <2>1, <2>3, LateMaintenancePolicy DEF Forgetful
  <2>. QED  BY ZenonT(60), <2>2, <2>3
<1>. QED  BY ZenonT(60), <1>1, <1>2, <1>3, <1>4, <1>5 DEF Forgetful

(***************************************************************************)
(* GenerateCluster, IsUpToDate and the update functions.                   *)
(***************************************************************************)

\* A field that the spec sets is in a struct that it sets.
LEMMA SetInStruct ==
    ASSUME NEW g, NEW s, Scoped(g, DOMAIN s), SpecOK(s), NEW f \in DOMAIN s
    PROVE  s[f] # Nil => s[Pointer(f[1])] # Nil
<1>1. CASE IsPointer(f)
  <2>1. f = Pointer(f[1])
    BY <1>1 DEF Scoped, Pointer, IsPointer
  <2>. QED  BY ZenonT(60), <2>1
<1>2. CASE ~IsPointer(f)
  BY ZenonT(60), <1>2, SpecLeaf
<1>. QED  BY ZenonT(60), <1>1, <1>2

\* GenerateCluster assigns every field that the spec sets, the type of the disks
\* and, where there is one, the topic of the notifications apart.
LEMMA GenerateAssigns ==
    ASSUME NEW g \in TopStructs, NEW s, NEW c, Scoped(g, DOMAIN s), SpecOK(s),
           NEW f \in DOMAIN s, s[f] # Nil, f # DiskType, f[1] # "Pubsub"
    PROVE  GenerateCluster(g, s, c)[f] = s[f]
<1>0. f[1] \in StructsOf(g)
  BY ZenonT(60) DEF Scoped
<1>1. ASSUME NEW T, f[1] \in T
      PROVE  Overlay(s, c, T)[f] = s[f]
  <2>1. s[Pointer(f[1])] # Nil
    BY SMTT(60), SetInStruct
  <2>. QED  BY ZenonT(60), <1>1, <2>1 DEF Overlay, ValueOf
<1>2. ASSUME NEW out, NEW fs, out[f] = s[f]
      PROVE  Sparing(s, c, out, fs)[f] = s[f]
  BY ZenonT(60), <1>2 DEF Sparing
<1>3. CASE g = "Autoscaling"
  <2>. DEFINE T == {"Autoscaling", "AutoprovisioningNodePoolDefaults",
                    "Management", "ShieldedInstanceConfig", "UpgradeSettings"}
              all == Sparing(s, c, Overlay(s, c, T), {<<"Autoscaling", "ResourceLimits">>})
  <2>1. f[1] \in T
    BY ZenonT(60), <1>0, <1>3 DEF StructsOf, NodeDefaults
  <2>2. GenerateCluster(g, s, c) = [h \in DOMAIN s |-> IF h = DiskType THEN c[h] ELSE all[h]]
    BY ZenonT(60), <1>3 DEF GenerateCluster, GenerateAutoscaling
  <2>. HIDE DEF T
  <2>3. all[f] = s[f]
    BY ZenonT(60), <1>1, <1>2, <2>1
  <2>. HIDE DEF all
  <2>. QED  BY ZenonT(60), <2>2, <2>3
<1>4. CASE g = "MaintenancePolicy"
  <2>. DEFINE T == {"MaintenancePolicy", "Window", "DailyMaintenanceWindow",
                    "RecurringWindow", "RecurringTimes"}
              fs == {<<"Window", "MaintenanceExclusions">>,
                     <<"RecurringWindow", "Recurrence">>}
  <2>1. f[1] \in T
    BY ZenonT(60), <1>0, <1>4 DEF StructsOf, Windows
  <2>2. GenerateCluster(g, s, c) = Sparing(s, c, Overlay(s, c, T), fs)
    BY ZenonT(60), <1>4 DEF GenerateCluster, GenerateMaintenancePolicy
  <2>. HIDE DEF T, fs
  <2>. QED  BY ZenonT(60), <1>1, <1>2, <2>1, <2>2
<1>5. CASE g = "MasterAuthorizedNetworksConfig"
  <2>. DEFINE fs == {<<"MasterAuthorizedNetworksConfig", "CidrBlocks">>}
  <2>1. f[1] \in {"MasterAuthorizedNetworksConfig"}
    BY ZenonT(60), <1>0, <1>5 DEF StructsOf
  <2>2. GenerateCluster(g, s, c) =
           Sparing(s, c, Overlay(s, c, {"MasterAuthorizedNetworksConfig"}), fs)
    BY ZenonT(60), <1>5 DEF GenerateCluster, GenerateMasterAuthorizedNetworksConfig
  <2>. HIDE DEF fs
  <2>. QED  BY ZenonT(60), <1>1, <1>2, <2>1, <2>2
<1>6. CASE g = "NotificationConfig"
  <2>. DEFINE T == {"NotificationConfig"} \cup {t \in {"Pubsub"} : c[Pointer(t)] = Zero}
  <2>1. f[1] \in T
    BY ZenonT(60), <1>0, <1>6 DEF StructsOf
  <2>2. GenerateCluster(g, s, c) = Overlay(s, c, T)
    BY ZenonT(60), <1>6 DEF GenerateCluster, GenerateNotificationConfig
  <2>. HIDE DEF T
  <2>. QED  BY ZenonT(60), <1>1, <2>1, <2>2
<1>7. CASE g \in {"AddonsConfig", "MasterAuth", "NetworkConfig", "PrivateClusterConfig",
                  "ResourceUsageExportConfig"}
  <2>1. GenerateCluster(g, s, c) = Overlay(s, c, StructsOf(g))
    BY ZenonT(60), <1>7 DEF GenerateCluster, StructsOf, Exports, GenerateAddonsConfig,
                GenerateMasterAuth, GenerateNetworkConfig,
                GeneratePrivateClusterConfig, GenerateResourceUsageExportConfig
  <2>. QED  BY ZenonT(60), <1>0, <1>1, <2>1
<1>8. CASE g \in {"ClusterParameters", "Autopilot", "AuthenticatorGroupsConfig",
                  "BinaryAuthorization", "ConfidentialNodes", "DatabaseEncryption",
                  "DefaultMaxPodsConstraint", "IPAllocationPolicy"}
  <2>1. GenerateCluster(g, s, c) = Overlay(s, c, {g}) /\ StructsOf(g) = {g}
    BY ZenonT(60), <1>8 DEF GenerateCluster, StructsOf, GenerateScalars, GenerateAutopilot,
                GenerateAuthenticatorGroupsConfig, GenerateBinaryAuthorization,
                GenerateConfidentialNodes, GenerateDatabaseEncryption,
                GenerateDefaultMaxPodsConstraint, GenerateIPAllocationPolicy
  <2>. QED  BY ZenonT(60), <1>0, <1>1, <2>1
<1>9. CASE g \in {"LegacyAbac", "NetworkPolicy", "ReleaseChannel",
                  "VerticalPodAutoscaling", "WorkloadIdentityConfig"}
  <2>1. GenerateCluster(g, s, c) = Overlay(s, c, {g}) /\ StructsOf(g) = {g}
    BY ZenonT(60), <1>9 DEF GenerateCluster, StructsOf, GenerateLegacyAbac,
       GenerateNetworkPolicy,
                GenerateReleaseChannel, GenerateVerticalPodAutoscaling,
                GenerateWorkloadIdentityConfig
  <2>. QED  BY SMTT(60), <1>0, <1>1, <2>1
<1>. QED  BY ZenonT(60), <1>3, <1>4, <1>5, <1>6, <1>7, <1>8, <1>9 DEF TopStructs

\* Assigned over an empty message, every field has the value of the spec, nil as
\* zero; only the type of the disks is forgotten.
LEMMA GenerateAfresh ==
    ASSUME NEW g \in TopStructs, NEW s, Scoped(g, DOMAIN s), SpecOK(s)
    PROVE  LET gen == GenerateCluster(g, s, Nothing(s))
           IN  /\ DOMAIN gen = DOMAIN s
               /\ \A f \in DOMAIN s :
                     gen[f] = IF g = "Autoscaling" /\ f = DiskType THEN Zero
                              ELSE ValueOf(s[f])
<1>. DEFINE c == Nothing(s)
<1>0. \A f \in DOMAIN s : f[1] \in StructsOf(g) /\ c[f] = Zero /\ Pointer(f[1]) \in DOMAIN s
  BY ZenonT(60) DEF Scoped, Nothing
<1>1. ASSUME NEW T, \A f \in DOMAIN s : f[1] \in T
      PROVE  /\ DOMAIN Overlay(s, c, T) = DOMAIN s
             /\ \A f \in DOMAIN s : Overlay(s, c, T)[f] = ValueOf(s[f])
  <2>1. DOMAIN Overlay(s, c, T) = DOMAIN s
    BY ZenonT(60) DEF Overlay
  <2>2. ASSUME NEW f \in DOMAIN s
        PROVE  Overlay(s, c, T)[f] = ValueOf(s[f])
    <3>1. s[f] # Nil => s[Pointer(f[1])] # Nil
      BY SMTT(60), SetInStruct
    <3>2. f[1] \in T /\ c[f] = Zero
      BY ZenonT(60), <1>0, <1>1
    <3>. QED  BY ZenonT(60), <3>1, <3>2 DEF Overlay, ValueOf
  <2>. QED  BY ZenonT(60), <2>1, <2>2
<1>2. ASSUME NEW out, NEW fs, \A f \in DOMAIN s : out[f] = ValueOf(s[f])
      PROVE  /\ DOMAIN Sparing(s, c, out, fs) = DOMAIN s
             /\ \A f \in DOMAIN s : Sparing(s, c, out, fs)[f] = ValueOf(s[f])
  <2>1. DOMAIN Sparing(s, c, out, fs) = DOMAIN s
    BY ZenonT(60) DEF Sparing
  <2>2. ASSUME NEW f \in DOMAIN s
        PROVE  Sparing(s, c, out, fs)[f] = ValueOf(s[f])
    <3>1. c[f] = Zero /\ out[f] = ValueOf(s[f])
      BY ZenonT(60), <1>0, <1>2
    <3>. QED  BY ZenonT(60), <3>1 DEF Sparing, ValueOf
  <2>. QED  BY ZenonT(60), <2>1, <2>2
<1>. HIDE DEF c
<1>3. CASE g = "Autoscaling"
  <2>. DEFINE T == {"Autoscaling", "AutoprovisioningNodePoolDefaults",
                    "Management", "ShieldedInstanceConfig", "UpgradeSettings"}
              fs == {<<"Autoscaling", "ResourceLimits">>}
              all == Sparing(s, c, Overlay(s, c, T), fs)
  <2>1. \A f \in DOMAIN s : f[1] \in T
    BY ZenonT(60), <1>0, <1>3 DEF StructsOf, NodeDefaults
  <2>2. GenerateCluster(g, s, c) = [h \in DOMAIN s |-> IF h = DiskType THEN c[h] ELSE all[h]]
    BY ZenonT(60), <1>3 DEF GenerateCluster, GenerateAutoscaling
  <2>. HIDE DEF T, fs
  <2>3. \A f \in DOMAIN s : all[f] = ValueOf(s[f])
    BY ZenonT(60), <1>1, <1>2, <2>1
  <2>. HIDE DEF all
  <2>. QED  BY ZenonT(60), <1>0, <1>3, <2>2, <2>3 DEF c
<1>4. CASE g = "MaintenancePolicy"
  <2>. DEFINE T == {"MaintenancePolicy", "Window", "DailyMaintenanceWindow",
                    "RecurringWindow", "RecurringTimes"}
              fs == {<<"Window", "MaintenanceExclusions">>,
                     <<"RecurringWindow", "Recurrence">>}
  <2>1. \A f \in DOMAIN s : f[1] \in T
    BY ZenonT(60), <1>0, <1>4 DEF StructsOf, Windows
  <2>2. GenerateCluster(g, s, c) = Sparing(s, c, Overlay(s, c, T), fs)
    BY ZenonT(60), <1>4 DEF GenerateCluster, GenerateMaintenancePolicy
  <2>. HIDE DEF T, fs
  <2>. QED  BY SMTT(60), <1>1, <1>2, <1>4, <2>1, <2>2 DEF c
<1>5. CASE g = "MasterAuthorizedNetworksConfig"
  <2>. DEFINE T == {"MasterAuthorizedNetworksConfig"}
              fs == {<<"MasterAuthorizedNetworksConfig", "CidrBlocks">>}
  <2>1. \A f \in DOMAIN s : f[1] \in T
    BY ZenonT(60), <1>0, <1>5 DEF StructsOf
  <2>2. GenerateCluster(g, s, c) = Sparing(s, c, Overlay(s, c, T), fs)
    BY ZenonT(60), <1>5 DEF GenerateCluster, GenerateMasterAuthorizedNetworksConfig
  <2>. HIDE DEF T, fs
  <2>. QED  BY SMTT(60), <1>1, <1>2, <1>5, <2>1, <2>2 DEF c
<1>6. CASE g = "NotificationConfig"
  <2>. DEFINE T == {"NotificationConfig"} \cup {t \in {"Pubsub"} : c[Pointer(t)] = Zero}
  <2>1. \A f \in DOMAIN s : f[1] \in T
    BY ZenonT(60), <1>0, <1>6 DEF StructsOf
  <2>2. GenerateCluster(g, s, c) = Overlay(s, c, T)
    BY ZenonT(60), <1>6 DEF GenerateCluster, GenerateNotificationConfig
  <2>. HIDE DEF T
  <2>. QED  BY ZenonT(60), <1>1, <1>6, <2>1, <2>2 DEF c
<1>7. CASE g \in {"AddonsConfig", "MasterAuth", "NetworkConfig", "PrivateClusterConfig",
                  "ResourceUsageExportConfig"}
  <2>1. GenerateCluster(g, s, c) = Overlay(s, c, StructsOf(g))
    BY ZenonT(60), <1>7 DEF GenerateCluster, StructsOf, Exports, GenerateAddonsConfig,
                GenerateMasterAuth, GenerateNetworkConfig,
                GeneratePrivateClusterConfig, GenerateResourceUsageExportConfig
  <2>. QED  BY ZenonT(60), <1>0, <1>1, <1>7, <2>1 DEF c
<1>8. CASE g \in {"ClusterParameters", "Autopilot", "AuthenticatorGroupsConfig",
                  "BinaryAuthorization", "ConfidentialNodes", "DatabaseEncryption",
                  "DefaultMaxPodsConstraint", "IPAllocationPolicy"}
  <2>1. GenerateCluster(g, s, c) = Overlay(s, c, {g}) /\ StructsOf(g) = {g}
    BY ZenonT(60), <1>8 DEF GenerateCluster, StructsOf, GenerateScalars, GenerateAutopilot,
                GenerateAuthenticatorGroupsConfig, GenerateBinaryAuthorization,
                GenerateConfidentialNodes, GenerateDatabaseEncryption,
                GenerateDefaultMaxPodsConstraint, GenerateIPAllocationPolicy
  <2>. QED  BY SMTT(60), <1>0, <1>1, <1>8, <2>1 DEF c
<1>9. CASE g \in {"LegacyAbac", "NetworkPolicy", "ReleaseChannel",
                  "VerticalPodAutoscaling", "WorkloadIdentityConfig"}
  <2>1. GenerateCluster(g, s, c) = Overlay(s, c, {g}) /\ StructsOf(g) = {g}
    BY ZenonT(60), <1>9 DEF GenerateCluster, StructsOf, GenerateLegacyAbac,
       GenerateNetworkPolicy,
                GenerateReleaseChannel, GenerateVerticalPodAutoscaling,
                GenerateWorkloadIdentityConfig
  <2>. QED  BY SMTT(60), <1>0, <1>1, <1>9, <2>1 DEF c
<1>. QED  BY ZenonT(60), <1>3, <1>4, <1>5, <1>6, <1>7, <1>8, <1>9 DEF TopStructs, c

\* Nothing is sent but what GenerateCluster makes of the spec; in a group that is
\* compared as a whole, the addons apart, all of it.
LEMMA UpdateFnSends ==
    ASSUME NEW g \in Compared \cup {"ClusterParameters", "NetworkConfig"},
           NEW s, NEW c, Scoped(g, DOMAIN s), SpecOK(s)
    PROVE  LET set == UpdateFn(g, s, c)
               gen == GenerateCluster(g, s, Nothing(s))
           IN  /\ \A f \in DOMAIN set : f \in DOMAIN s /\ set[f] = gen[f]
               /\ g \in Compared \ {"AddonsConfig"} => set = gen
<1>. DEFINE gen == GenerateCluster(g, s, Nothing(s))
<1>0. DOMAIN gen = DOMAIN s
  BY SMTT(60), GenerateAfresh DEF Compared, TopStructs
<1>1. ASSUME NEW fs
      PROVE  \A f \in DOMAIN Restricted(gen, fs) : f \in DOMAIN s /\ Restricted(gen, fs)[f] = gen[f]
  BY ZenonT(60), <1>0 DEF Restricted
<1>2. CASE g = "AddonsConfig"
  <2>1. GenerateAddonsConfig(s, Nothing(s)) = gen
    BY ZenonT(60), <1>2 DEF GenerateCluster
  <2>2. UpdateFn(g, s, c) = newAddonsConfigUpdateFn(s)
    BY ZenonT(60), <1>2 DEF UpdateFn
  <2>. HIDE DEF gen
  <2>3. \E fs : UpdateFn(g, s, c) = Restricted(gen, fs)
    BY ZenonT(60), <2>1, <2>2 DEF newAddonsConfigUpdateFn, Body
  <2>. QED  BY ZenonT(60), <1>1, <1>2, <2>3 DEF gen
<1>3. CASE g = "ClusterParameters"
  <2>1. GenerateScalars(s, Nothing(s)) = gen
    BY ZenonT(60), <1>3 DEF GenerateCluster
  <2>2. UpdateFn(g, s, c) \in {newLocationsUpdateFn(s), newLoggingServiceUpdateFn(s),
                               newMonitoringServiceUpdateFn(s),
                               newResourceLabelsUpdateFn(s)}
    BY ZenonT(60), <1>3 DEF UpdateFn
  <2>. HIDE DEF gen
  <2>3. ASSUME NEW l
        PROVE  /\ Scalar(s, l) = Restricted(gen, {<<Top, l>>})
               /\ \A f \in DOMAIN Body(Scalar(s, l), {}) :
                     f \in DOMAIN s /\ Body(Scalar(s, l), {})[f] = gen[f]
    <3>1. Scalar(s, l) = Restricted(gen, {<<Top, l>>})
      BY ZenonT(60), <2>1 DEF Scalar
    <3>. QED  BY ZenonT(60), <1>0, <3>1 DEF Body, Restricted
  <2>4. \E l : \/ UpdateFn(g, s, c) = Body(Scalar(s, l), {})
              \/ UpdateFn(g, s, c) = Restricted(gen, {<<Top, l>>})
    <3>1. newResourceLabelsUpdateFn(s) = Restricted(gen, {<<Top, "ResourceLabels">>})
      BY ZenonT(60), <2>3 DEF newResourceLabelsUpdateFn
    <3>. QED  BY ZenonT(60), <2>2, <3>1 DEF newLocationsUpdateFn, newLoggingServiceUpdateFn,
                                newMonitoringServiceUpdateFn
  <2>5. \A f \in DOMAIN UpdateFn(g, s, c) : f \in DOMAIN s /\ UpdateFn(g, s, c)[f] = gen[f]
    <3>1. PICK l : \/ UpdateFn(g, s, c) = Body(Scalar(s, l), {})
                   \/ UpdateFn(g, s, c) = Restricted(gen, {<<Top, l>>})
      BY ZenonT(60), <2>4
    <3>2. CASE UpdateFn(g, s, c) = Body(Scalar(s, l), {})
      BY ZenonT(60), <2>3, <3>2
    <3>3. CASE UpdateFn(g, s, c) = Restricted(gen, {<<Top, l>>})
      BY ZenonT(60), <1>1, <3>3
    <3>. QED  BY ZenonT(60), <3>1, <3>2, <3>3
  <2>. QED  BY ZenonT(60), <1>3, <2>5 DEF Compared, gen
<1>4. CASE g = "NetworkConfig"
  <2>1. GenerateNetworkConfig(s, Nothing(s)) = gen
    BY ZenonT(60), <1>4 DEF GenerateCluster
  <2>2. \/ UpdateFn(g, s, c) = <<>>
        \/ \E l : UpdateFn(g, s, c) = Networking(s, l)
    BY ZenonT(60), <1>4 DEF UpdateFn, newIntraNodeVisibilityConfigUpdateFn,
       newDatapathProviderUpdateFn
  <2>. HIDE DEF gen
  <2>3. \A f \in DOMAIN UpdateFn(g, s, c) : f \in DOMAIN s /\ UpdateFn(g, s, c)[f] = gen[f]
    <3>1. CASE UpdateFn(g, s, c) = <<>>
      BY SMTT(60), <3>1
    <3>2. CASE \E l : UpdateFn(g, s, c) = Networking(s, l)
      BY SMTT(60), <1>1, <2>1, <3>2 DEF Networking
    <3>. QED  BY ZenonT(60), <2>2, <3>1, <3>2
  <2>. QED  BY ZenonT(60), <1>4, <2>3 DEF Compared, gen
<1>5. CASE g \in Compared \ {"AddonsConfig"}
  <2>1. UpdateFn(g, s, c) = gen
    <3>1. CASE g \in {"Autopilot", "Autoscaling", "BinaryAuthorization",
                      "DatabaseEncryption", "LegacyAbac"}
      BY ZenonT(60), <3>1 DEF UpdateFn, GenerateCluster, newAutopilotUpdateFn,
         newAutoscalingUpdateFn,
                  newBinaryAuthorizationUpdateFn, newDatabaseEncryptionUpdateFn,
                  newLegacyAbacUpdateFn
    <3>2. CASE g \in {"MaintenancePolicy", "MasterAuthorizedNetworksConfig",
                      "NetworkPolicy", "NotificationConfig", "PrivateClusterConfig"}
      BY ZenonT(60), <3>2 DEF UpdateFn, GenerateCluster, newMaintenancePolicyUpdateFn,
                  newMasterAuthorizedNetworksConfigUpdateFn, newNetworkPolicyUpdateFn,
                  newNotificationConfigUpdateFn, newPrivateClusterConfigUpdateFn
    <3>3. CASE g \in {"ReleaseChannel", "ResourceUsageExportConfig",
                      "VerticalPodAutoscaling", "WorkloadIdentityConfig"}
      BY ZenonT(60), <3>3 DEF UpdateFn, GenerateCluster, newReleaseChannelUpdateFn,
                  newResourceUsageExportConfigUpdateFn,
                  newVerticalPodAutoscalingUpdateFn, newWorkloadIdentityConfigUpdateFn
    <3>. QED  BY ZenonT(60), <1>5, <3>1, <3>2, <3>3 DEF Compared
  <2>. HIDE DEF gen
  <2>. QED  BY ZenonT(60), <1>0, <2>1 DEF gen
<1>. QED  BY ZenonT(60), <1>2, <1>3, <1>4, <1>5

(***************************************************************************)
(* What GKE has after an update.                                           *)
(***************************************************************************)

\* A request that sends the fields R, and with each struct the ones that hold
\* it, leaves a cluster in which a struct is there only with its holder.
LEMMA SentWithHolders ==
    ASSUME NEW g, NEW s, NEW c, DOMAIN c = DOMAIN s, Scoped(g, DOMAIN s),
           SpecOK(s), ConfOK(c), NEW out, DOMAIN out = DOMAIN s, NEW R,
           \A f \in DOMAIN s : f \notin R => out[f] = c[f],
           \A f \in DOMAIN s :
              f \in R => out[f] = ValueOf(s[f]) \/ (~IsPointer(f) /\ out[f] = Zero),
           \A f \in DOMAIN s :
              IsPointer(f) /\ f \in R => s[f] = Set \/ DOMAIN s \subseteq R,
           \A f \in DOMAIN s :
              f \in R /\ s[f] # Nil => Pointer(f[1]) \in R \/ c[Pointer(f[1])] = Set,
           \A f \in DOMAIN s :
              IsPointer(f) /\ f \in R /\ s[f] = Set =>
                 \/ ParentPointer(f) \notin DOMAIN s
                 \/ ParentPointer(f) \in R \/ c[ParentPointer(f)] = Set
    PROVE  ConfOK(out)
<1>1. ASSUME NEW p \in DOMAIN s, IsPointer(p)
      PROVE  /\ out[p] \in {Zero, Set}
             /\ p \in R => out[p] = ValueOf(s[p])
             /\ p \in R /\ s[p] = Set => out[p] = Set
             /\ p \notin R => out[p] = c[p]
  <2>1. s[p] \in {Nil, Set} /\ c[p] \in {Zero, Set}
    BY ZenonT(60), <1>1, SpecPointer, ConfPointer
  <2>2. p \in R => out[p] = ValueOf(s[p])
    BY ZenonT(60), <1>1
  <2>3. p \notin R => out[p] = c[p]
    BY ZenonT(60)
  <2>. QED  BY ZenonT(60), <2>1, <2>2, <2>3, SetAssumption DEF ValueOf
<1>2. ASSUME NEW f \in DOMAIN s, IsPointer(f)
      PROVE  /\ out[f] \in {Zero, Set}
             /\ f[1] = Top => out[f] = Set
             /\ ParentPointer(f) \in DOMAIN s /\ out[ParentPointer(f)] = Zero
                   => out[f] = Zero
  <2>1. out[f] \in {Zero, Set}
    BY ZenonT(60), <1>1, <1>2
  <2>2. f[1] = Top => out[f] = Set
    BY SMTT(60), <1>1, <1>2, SpecPointer, ConfPointer
  <2>3. ASSUME ParentPointer(f) \in DOMAIN s, out[f] # Zero
        PROVE  out[ParentPointer(f)] # Zero
    <3>. DEFINE p == ParentPointer(f)
    <3>1. IsPointer(p)
      BY ZenonT(60), <1>2, ParentFacts
    <3>2. s[p] \in {Nil, Set}
      BY ZenonT(60), <2>3, <3>1, SpecPointer
    <3>3. CASE f \in R
      <4>1. s[f] = Set
        <5>1. out[f] = ValueOf(s[f]) /\ s[f] \in {Nil, Set}
          BY ZenonT(60), <1>1, <1>2, <3>3, SpecPointer
        <5>. QED  BY ZenonT(60), <2>3, <5>1 DEF ValueOf
      <4>2. s[p] = Set
        BY ZenonT(60), <1>2, <2>3, <3>2, <4>1, SpecPointer, SetAssumption
      <4>3. p \in R \/ c[p] = Set
        BY ZenonT(60), <1>2, <2>3, <3>3, <4>1
      <4>. QED  BY ZenonT(60), <1>1, <2>3, <3>1, <4>2, <4>3, SetAssumption
    <3>4. CASE f \notin R
      <4>1. c[f] # Zero
        BY ZenonT(60), <2>3, <3>4
      <4>2. c[p] # Zero
        BY ZenonT(60), <1>2, <2>3, <4>1, ConfPointer
      <4>3. p \in R => s[p] = Set
        BY ZenonT(60), <2>3, <3>1, <3>4
      <4>. QED  BY ZenonT(60), <1>1, <2>3, <3>1, <4>2, <4>3, SetAssumption
    <3>. QED  BY ZenonT(60), <3>3, <3>4
  <2>. QED  BY ZenonT(60), <2>1, <2>2, <2>3
<1>3. ASSUME NEW f \in DOMAIN s, ~IsPointer(f)
      PROVE  /\ out[f] \in Values
             /\ out[Pointer(f[1])] = Zero => out[f] = Zero
  <2>. DEFINE p == Pointer(f[1])
  <2>1. /\ p \in DOMAIN s /\ IsPointer(p)
        /\ s[p] \in {Nil, Set} /\ c[p] \in {Zero, Set}
        /\ s[f] # Nil => s[p] = Set
        /\ c[f] # Zero => c[p] = Set
    BY SMTT(60), SetWithStruct
  <2>. HIDE DEF p
  <2>2. s[f] \in Values \cup {Nil} /\ c[f] \in Values
    BY ZenonT(60), <1>3, SpecLeaf, ConfLeaf
  <2>3. CASE f \in R
    <3>1. out[f] = ValueOf(s[f]) \/ out[f] = Zero
      BY ZenonT(60), <2>3
    <3>2. s[f] # Nil => p \in R \/ c[p] = Set
      BY ZenonT(60), <2>3 DEF p
    <3>3. s[f] # Nil => out[p] # Zero
      BY ZenonT(60), <1>1, <2>1, <3>2, SetAssumption
    <3>. QED  BY ZenonT(60), <2>2, <3>1, <3>3, ValuesAssumption DEF ValueOf, p
  <2>4. CASE f \notin R
    <3>1. out[f] = c[f]
      BY ZenonT(60), <2>4
    <3>2. c[f] # Zero => out[p] # Zero
      <4>1. p \in R => s[p] = Set
        BY ZenonT(60), <2>1, <2>4
      <4>. QED  BY ZenonT(60), <1>1, <2>1, <4>1, SetAssumption
    <3>. QED  BY ZenonT(60), <2>2, <3>1, <3>2 DEF p
  <2>. QED  BY ZenonT(60), <2>3, <2>4
<1>. QED  BY ZenonT(60), <1>2, <1>3 DEF ConfOK

\* Where something differs, the struct of the field that differs is in the spec.
LEMMA DifferingInStruct ==
    ASSUME NEW g \in TopStructs, NEW s, NEW c, DOMAIN c = DOMAIN s,
           Scoped(g, DOMAIN s), ~IsUpToDate(g, s, c)
    PROVE  /\ g \in Compared \cup {"ClusterParameters", "NetworkConfig"}
           /\ g \in {"Autopilot", "NetworkConfig", "NotificationConfig"} =>
                 \E f \in DOMAIN s :
                    /\ s[Pointer(f[1])] # Nil
                    /\ g = "NetworkConfig" => f[1] = g
<1>1. PICK f \in DOMAIN s :
         /\ g \in Compared \/ f \in ComparedLeaves
         /\ GenerateCluster(g, s, c)[f] # c[f]
  BY ZenonT(60) DEF IsUpToDate, DifferingFields
<1>2. f[1] \in StructsOf(g)
  BY ZenonT(60) DEF Scoped
<1>3. f \in ComparedLeaves => f[1] \in {"ClusterParameters", "NetworkConfig"}
  BY DEF ComparedLeaves, Top
<1>4. g \in Compared \cup {"ClusterParameters", "NetworkConfig"}
  BY ZenonT(60), <1>1, <1>2, <1>3 DEF TopStructs, StructsOf, AddonStructs, NodeDefaults,
     Windows, Exports
<1>5. ASSUME NEW T, GenerateCluster(g, s, c) = Overlay(s, c, T)
      PROVE  s[Pointer(f[1])] # Nil
  BY ZenonT(60), <1>1, <1>5 DEF Overlay
<1>6. CASE g = "Autopilot"
  <2>1. GenerateCluster(g, s, c) = Overlay(s, c, {"Autopilot"})
    BY ZenonT(60), <1>6 DEF GenerateCluster, GenerateAutopilot
  <2>. QED  BY ZenonT(60), <1>4, <1>5, <1>6, <2>1
<1>7. CASE g = "NetworkConfig"
  <2>1. GenerateCluster(g, s, c) = Overlay(s, c, {"NetworkConfig", "DefaultSnatStatus"})
    BY ZenonT(60), <1>7 DEF GenerateCluster, GenerateNetworkConfig
  <2>2. s[Pointer(f[1])] # Nil
    BY ZenonT(60), <1>5, <2>1
  <2>3. f[1] = g
    BY ZenonT(60), <1>1, <1>2, <1>3, <1>7 DEF Compared, StructsOf
  <2>. QED  BY ZenonT(60), <1>4, <2>2, <2>3
<1>8. CASE g = "NotificationConfig"
  <2>. DEFINE T == {"NotificationConfig"} \cup {t \in {"Pubsub"} : c[Pointer(t)] = Zero}
  <2>1. GenerateCluster(g, s, c) = Overlay(s, c, T)
    BY ZenonT(60), <1>8 DEF GenerateCluster, GenerateNotificationConfig
  <2>. HIDE DEF T
  <2>. QED  BY ZenonT(60), <1>4, <1>5, <1>8, <2>1
<1>. QED  BY ZenonT(60), <1>4, <1>6, <1>7, <1>8

\* An update of a cluster: GKE keeps what is not sent, takes the values of the
\* spec for the rest, and forgets only the type of the disks.
LEMMA UpdateApplied ==
    ASSUME NEW g \in TopStructs, NEW s, NEW c, DOMAIN c = DOMAIN s,
           Scoped(g, DOMAIN s), SpecOK(s), ConfOK(c), ~IsUpToDate(g, s, c)
    PROVE  LET out == Applied(UpdateFn(g, s, c), c)
           IN  /\ DOMAIN out = DOMAIN s
               /\ ConfOK(out)
               /\ \A f \in DOMAIN s :
                     out[f] = c[f] \/ out[f] = ValueOf(s[f]) \/ f = DiskType
<1>. DEFINE req == UpdateFn(g, s, c)
            gen == GenerateCluster(g, s, Nothing(s))
            R == DOMAIN req
            out == Applied(req, c)
            blank == Nothing(s)
<1>1. g \in Compared \cup {"ClusterParameters", "NetworkConfig"}
  BY ZenonT(60), DifferingInStruct
<1>2. /\ \A f \in R : f \in DOMAIN s /\ req[f] = gen[f]
      /\ g \in Compared \ {"AddonsConfig"} => req = gen
  BY ZenonT(60), <1>1, UpdateFnSends
<1>3. /\ DOMAIN gen = DOMAIN s
      /\ \A f \in DOMAIN s : gen[f] = ValueOf(s[f]) \/ (f = DiskType /\ gen[f] = Zero)
      /\ g # "Autoscaling" => \A f \in DOMAIN s : gen[f] = ValueOf(s[f])
  BY ZenonT(60), GenerateAfresh
<1>4. /\ DOMAIN out = DOMAIN s
      /\ \A f \in DOMAIN s : out[f] = IF f \in R THEN req[f] ELSE c[f]
  BY ZenonT(60) DEF Applied
<1>5. ~IsPointer(DiskType)
  BY ZenonT(60) DEF IsPointer, DiskType
<1>6. \A f \in DOMAIN s :
         /\ Pointer(f[1]) \in DOMAIN s /\ IsPointer(Pointer(f[1]))
         /\ IsPointer(f) => f = Pointer(f[1])
         /\ s[f] # Nil => s[Pointer(f[1])] = Set
  BY SMTT(60), SetWithStruct
<1>7. CASE g = "AddonsConfig"
  <2>. DEFINE forced == {f \in DOMAIN s : f[1] \in AddonStructs /\ s[Pointer(f[1])] # Nil}
  <2>1. GenerateAddonsConfig(s, blank) = gen
    BY ZenonT(60), <1>7 DEF GenerateCluster
  <2>2. req = newAddonsConfigUpdateFn(s)
    BY ZenonT(60), <1>7 DEF UpdateFn
  <2>3. req = Body(gen, forced)
    BY ZenonT(60), <2>1, <2>2 DEF newAddonsConfigUpdateFn
  <2>. HIDE DEF req, gen, blank, forced
  <2>4. R = {f \in DOMAIN s : gen[f] # Zero \/ f \in forced}
    BY ZenonT(60), <1>3, <2>3 DEF Body, Restricted
  <2>5. \A f \in DOMAIN s : s[f] = Set => f \in R
    BY ZenonT(60), <1>3, <1>7, <2>4, SetAssumption DEF ValueOf
  <2>6. \A f \in DOMAIN s : IsPointer(f) /\ f \in R => s[f] = Set
    <3>. SUFFICES ASSUME NEW f \in DOMAIN s, IsPointer(f), f \in R
                  PROVE  s[f] = Set
      BY ZenonT(60)
    <3>1. s[f] \in {Nil, Set}
      BY ZenonT(60), SpecPointer
    <3>2. f \in forced => s[f] # Nil
      BY ZenonT(60), <1>6 DEF forced
    <3>3. gen[f] # Zero => s[f] # Nil
      BY ZenonT(60), <1>3, <1>7 DEF ValueOf
    <3>. QED  BY ZenonT(60), <2>4, <3>1, <3>2, <3>3
  <2>7. \A f \in DOMAIN s : f \in R /\ s[f] # Nil => Pointer(f[1]) \in R
    BY ZenonT(60), <1>6, <2>5
  <2>8. \A f \in DOMAIN s :
           IsPointer(f) /\ f \in R /\ s[f] = Set =>
              ParentPointer(f) \notin DOMAIN s \/ ParentPointer(f) \in R
    <3>. SUFFICES ASSUME NEW f \in DOMAIN s, IsPointer(f), s[f] = Set,
                         ParentPointer(f) \in DOMAIN s
                  PROVE  ParentPointer(f) \in R
      BY ZenonT(60)
    <3>1. s[ParentPointer(f)] # Nil /\ IsPointer(ParentPointer(f))
      BY ZenonT(60), SpecPointer, ParentFacts, SetAssumption
    <3>2. s[ParentPointer(f)] = Set
      BY ZenonT(60), <3>1, SpecPointer
    <3>. QED  BY ZenonT(60), <2>5, <3>2
  <2>9. \A f \in DOMAIN s : (f \in R => out[f] = ValueOf(s[f])) /\ (f \notin R => out[f] = c[f])
    BY ZenonT(60), <1>2, <1>3, <1>4, <1>7
  <2>. HIDE DEF out, R
  <2>10. ConfOK(out)
    BY SMTT(60), <1>4, <2>6, <2>7, <2>8, <2>9, SentWithHolders
  <2>. QED  BY ZenonT(60), <1>4, <2>9, <2>10 DEF out, R, req
<1>8. CASE g = "ClusterParameters"
  <2>. HIDE DEF blank, gen
  <2>1. \A f \in R : f[1] = Top /\ ~IsPointer(f)
    <3>1. req \in {newLocationsUpdateFn(s), newLoggingServiceUpdateFn(s),
                   newMonitoringServiceUpdateFn(s), newResourceLabelsUpdateFn(s)}
      BY ZenonT(60), <1>8 DEF UpdateFn
    <3>. HIDE DEF req
    <3>2. PICK l \in {"Locations", "LoggingService", "MonitoringService", "ResourceLabels"} :
             req = Body(Scalar(s, l), {}) \/ req = Scalar(s, l)
      BY ZenonT(60), <3>1 DEF newLocationsUpdateFn, newLoggingServiceUpdateFn,
                  newMonitoringServiceUpdateFn, newResourceLabelsUpdateFn
    <3>3. DOMAIN Scalar(s, l) \subseteq {<<Top, l>>}
      BY ZenonT(60) DEF Scalar, Restricted
    <3>4. DOMAIN Body(Scalar(s, l), {}) \subseteq DOMAIN Scalar(s, l)
      BY ZenonT(60) DEF Body, Restricted
    <3>5. ASSUME NEW f \in R
          PROVE  f[1] = Top /\ ~IsPointer(f)
      <4>1. f = <<Top, l>> /\ l # ""
        BY <3>2, <3>3, <3>4
      <4>. HIDE DEF R
      <4>. QED  BY <4>1 DEF IsPointer
    <3>. QED  BY ZenonT(60), <3>5
  <2>2. \A f \in DOMAIN s : f \in R => c[Pointer(f[1])] = Set
    <3>. SUFFICES ASSUME NEW f \in DOMAIN s, f \in R
                  PROVE  c[Pointer(f[1])] = Set
      BY ZenonT(60)
    <3>1. Pointer(f[1]) \in DOMAIN c /\ IsPointer(Pointer(f[1])) /\ Pointer(f[1])[1] = Top
      BY SMTT(60), <2>1, SetWithStruct
    <3>. QED  BY ZenonT(60), <3>1, ConfPointer
  <2>9. \A f \in DOMAIN s : (f \in R => out[f] = ValueOf(s[f])) /\ (f \notin R => out[f] = c[f])
    BY ZenonT(60), <1>2, <1>3, <1>4, <1>8
  <2>. HIDE DEF out, R
  <2>10. ConfOK(out)
    BY SMTT(60), <1>4, <2>1, <2>2, <2>9, SentWithHolders
  <2>. QED  BY SMTT(60), <1>4, <2>9, <2>10 DEF out, R, req
<1>9. CASE g = "NetworkConfig"
  <2>. HIDE DEF blank, gen
  <2>1. PICK h \in DOMAIN s : s[Pointer(h[1])] # Nil /\ h[1] = "NetworkConfig"
    BY ZenonT(60), <1>9, DifferingInStruct
  <2>2. /\ Pointer("NetworkConfig") \in DOMAIN s
        /\ s[Pointer("NetworkConfig")] = Set
    BY SMTT(60), <1>6, <2>1, SpecPointer
  <2>3. \/ R = {}
        \/ \E l \in {"EnableIntraNodeVisibility", "DatapathProvider"} :
              R = DOMAIN s \cap {Pointer("NetworkConfig"), <<"NetworkConfig", l>>}
    <3>1. \/ req = <<>>
          \/ \E l \in {"EnableIntraNodeVisibility", "DatapathProvider"} :
                req = Networking(s, l)
      BY ZenonT(60), <1>9 DEF UpdateFn, newIntraNodeVisibilityConfigUpdateFn,
         newDatapathProviderUpdateFn
    <3>2. GenerateNetworkConfig(s, Nothing(s)) = gen
      BY ZenonT(60), <1>9 DEF GenerateCluster, gen
    <3>. HIDE DEF req
    <3>. QED  BY SMTT(60), <1>3, <3>1, <3>2 DEF Networking, Restricted
  <2>4. \A f \in R : /\ f[1] = "NetworkConfig"
                     /\ Pointer("NetworkConfig") \in R
                     /\ IsPointer(f) => f = Pointer("NetworkConfig")
    <3>. HIDE DEF R
    <3>. SUFFICES ASSUME NEW f \in R
                  PROVE  /\ f[1] = "NetworkConfig"
                         /\ Pointer("NetworkConfig") \in R
                         /\ IsPointer(f) => f = Pointer("NetworkConfig")
      BY ZenonT(60)
    <3>1. PICK l \in {"EnableIntraNodeVisibility", "DatapathProvider"} :
             R = DOMAIN s \cap {Pointer("NetworkConfig"), <<"NetworkConfig", l>>}
      BY ZenonT(60), <2>3
    <3>2. Pointer("NetworkConfig") \in R
      BY ZenonT(60), <2>2, <3>1
    <3>3. f = Pointer("NetworkConfig") \/ f = <<"NetworkConfig", l>>
      BY ZenonT(60), <3>1
    <3>4. Pointer("NetworkConfig")[1] = "NetworkConfig"
      BY ZenonT(60) DEF Pointer
    <3>5. CASE f = <<"NetworkConfig", l>>
      BY <3>2, <3>5 DEF IsPointer
    <3>. QED  BY ZenonT(60), <3>2, <3>3, <3>4, <3>5
  <2>5. \A f \in DOMAIN s : IsPointer(f) /\ f \in R => s[f] = Set
    BY ZenonT(60), <2>2, <2>4
  <2>6. \A f \in DOMAIN s : f \in R => Pointer(f[1]) \in R
    BY ZenonT(60), <2>4
  <2>7. \A f \in DOMAIN s :
           IsPointer(f) /\ f \in R =>
              ParentPointer(f) \notin DOMAIN s \/ c[ParentPointer(f)] = Set
    <3>. SUFFICES ASSUME NEW f \in DOMAIN s, IsPointer(f), f \in R,
                         ParentPointer(f) \in DOMAIN s
                  PROVE  c[ParentPointer(f)] = Set
      BY ZenonT(60)
    <3>1. IsPointer(ParentPointer(f)) /\ ParentPointer(f)[1] = Top
      BY ZenonT(60), <2>4, ParentFacts, TopParents DEF TopStructs
    <3>. QED  BY ZenonT(60), <3>1, ConfPointer
  <2>9. \A f \in DOMAIN s : (f \in R => out[f] = ValueOf(s[f])) /\ (f \notin R => out[f] = c[f])
    BY ZenonT(60), <1>2, <1>3, <1>4, <1>9
  <2>. HIDE DEF out, R
  <2>10. ConfOK(out)
    BY SMTT(60), <1>4, <2>5, <2>6, <2>7, <2>9, SentWithHolders
  <2>. QED  BY ZenonT(60), <1>4, <2>9, <2>10 DEF out, R, req
<1>10. CASE g \in Compared \ {"AddonsConfig"}
  <2>1. R = DOMAIN s
    BY ZenonT(60), <1>2, <1>3, <1>10
  <2>. HIDE DEF req, gen, blank
  <2>2. \A f \in DOMAIN s :
           \/ out[f] = ValueOf(s[f])
           \/ f = DiskType /\ ~IsPointer(f) /\ out[f] = Zero
    BY ZenonT(60), <1>2, <1>3, <1>4, <1>5, <1>10, <2>1
  <2>3. \A f \in DOMAIN s : IsPointer(f) => ParentPointer(f) \notin DOMAIN s \/ ParentPointer(f) \in R
    BY ZenonT(60), <2>1
  <2>. HIDE DEF out, R
  <2>10. ConfOK(out)
    BY ZenonT(60), <1>4, <1>6, <2>1, <2>2, <2>3, SentWithHolders
  <2>. QED  BY ZenonT(60), <1>4, <2>2, <2>10 DEF out, R, req
<1>. QED  BY ZenonT(60), <1>1, <1>7, <1>8, <1>9, <1>10

\* What LateInitializeSpec has taken over: a field that it leaves open is empty
\* in GKE, too.
Absorbed(g, s, c) == g \in Forgetful \/ \A f \in DOMAIN s : s[f] = Nil => c[f] = Zero

\* A plain value is set with its struct.
LEMMA PlainSet ==
    ASSUME NEW g, NEW s, Scoped(g, DOMAIN s), SpecOK(s), NEW f \in DOMAIN s,
           f[1] \in Plain, s[Pointer(f[1])] = Set
    PROVE  s[f] # Nil
<1>1. CASE IsPointer(f)
  <2>1. f = Pointer(f[1])
    BY <1>1 DEF Scoped, Pointer, IsPointer
  <2>. QED  BY ZenonT(60), <1>1, <2>1, SpecPointer, SetAssumption
<1>2. CASE ~IsPointer(f)
  <2>1. f \in Leaves(f[1])
    BY ZenonT(60), <1>2 DEF Scoped
  <2>2. f[2] \in Structs[f[1]].ptr \cup Structs[f[1]].list \cup Structs[f[1]].val
    BY <2>1 DEF Leaves
  <2>3. Structs[f[1]].ptr = {} /\ Structs[f[1]].list = {}
    BY ZenonT(60), PlainStructs
  <2>4. IsValue(f)
    BY ZenonT(60), <2>2, <2>3 DEF IsValue
  <2>. QED  BY ZenonT(60), <1>2, <2>4, SpecLeaf
<1>. QED  BY ZenonT(60), <1>1, <1>2

\* Of Autopilot and NotificationConfig LateInitializeSpec may have taken over
\* nothing; but a difference is seen only if the spec has the struct, and then
\* it sets all of it.
LEMMA ForgetfulSet ==
    ASSUME NEW g \in {"Autopilot", "NotificationConfig"}, NEW s, NEW c,
           DOMAIN c = DOMAIN s, Scoped(g, DOMAIN s), SpecOK(s), ~IsUpToDate(g, s, c),
           NEW f \in DOMAIN s
    PROVE  s[f] # Nil
<1>1. PICK h \in DOMAIN s : s[Pointer(h[1])] # Nil
  BY SMTT(60), DifferingInStruct DEF TopStructs
<1>2. \A e \in DOMAIN s : /\ e[1] \in StructsOf(g)
                          /\ Pointer(e[1]) \in DOMAIN s
  BY ZenonT(60) DEF Scoped
<1>3. \A e \in DOMAIN s : s[Pointer(e[1])] \in {Nil, Set}
  <2>1. \A e \in DOMAIN s : IsPointer(Pointer(e[1]))
    BY ZenonT(60) DEF IsPointer, Pointer
  <2>. QED  BY ZenonT(60), <1>2, <2>1, SpecPointer
<1>4. CASE g = "Autopilot"
  <2>1. \A e \in DOMAIN s : e[1] = "Autopilot"
    BY ZenonT(60), <1>2, <1>4 DEF StructsOf
  <2>2. s[Pointer(f[1])] = Set /\ f[1] \in Plain
    BY ZenonT(60), <1>1, <1>3, <2>1 DEF Plain
  <2>. QED  BY ZenonT(60), <2>2, PlainSet
<1>5. CASE g = "NotificationConfig"
  <2>. DEFINE p == Pointer("Pubsub")
              q == Pointer("NotificationConfig")
  <2>1. \A e \in DOMAIN s : e[1] \in {"NotificationConfig", "Pubsub"}
    BY ZenonT(60), <1>2, <1>5 DEF StructsOf
  <2>2. ASSUME p \in DOMAIN s
        PROVE  s[p] = s[q]
    <3>1. IsPointer(p) /\ p[1] = "Pubsub"
      BY ZenonT(60) DEF Pointer, IsPointer
    <3>2. ParentPointer(p) = q
      BY SMTT(60), <3>1, ParentFacts, InnerParents
    <3>. QED  BY ZenonT(60), <2>2, <3>1, <3>2, SpecPointer DEF ByValue
  <2>3. s[q] = Set
    <3>1. CASE h[1] = "Pubsub"
      BY ZenonT(60), <1>1, <1>2, <1>3, <2>2, <3>1
    <3>2. CASE h[1] = "NotificationConfig"
      BY ZenonT(60), <1>1, <1>3, <3>2
    <3>. QED  BY ZenonT(60), <2>1, <3>1, <3>2
  <2>4. s[Pointer(f[1])] = Set /\ f[1] \in Plain
    <3>1. CASE f[1] = "Pubsub"
      BY ZenonT(60), <1>2, <2>2, <2>3, <3>1 DEF Plain
    <3>2. CASE f[1] = "NotificationConfig"
      BY ZenonT(60), <2>3, <3>2 DEF Plain
    <3>. QED  BY ZenonT(60), <2>1, <3>1, <3>2
  <2>. QED  BY SMTT(60), <2>4, PlainSet
<1>. QED  BY ZenonT(60), <1>4, <1>5

\* So an update changes only what the spec sets.
LEMMA UpdateSetsOnly ==
    ASSUME NEW g \in TopStructs, NEW s, NEW c, DOMAIN c = DOMAIN s,
           Scoped(g, DOMAIN s), SpecOK(s), ConfOK(c), ~IsUpToDate(g, s, c),
           Absorbed(g, s, c), NEW f \in DOMAIN s
    PROVE  LET out == Applied(UpdateFn(g, s, c), c)
           IN  \/ out[f] = c[f]
               \/ s[f] # Nil /\ out[f] = s[f]
               \/ f = DiskType \/ g = "MaintenancePolicy"
<1>. DEFINE out == Applied(UpdateFn(g, s, c), c)
<1>1. out[f] = c[f] \/ out[f] = ValueOf(s[f]) \/ f = DiskType
  BY ZenonT(60), UpdateApplied
<1>2. g \in Forgetful => g \in {"Autopilot", "NotificationConfig", "MaintenancePolicy"}
  BY ZenonT(60), DifferingInStruct DEF Forgetful, Compared
<1>3. s[f] # Nil \/ c[f] = Zero \/ g = "MaintenancePolicy"
  <2>1. CASE g \in {"Autopilot", "NotificationConfig"}
    BY ZenonT(60), <2>1, ForgetfulSet
  <2>. QED  BY ZenonT(60), <1>2, <2>1 DEF Absorbed
<1>. HIDE DEF out
<1>4. QED
  <2>1. \/ out[f] = c[f]
        \/ s[f] # Nil /\ out[f] = s[f]
        \/ f = DiskType \/ g = "MaintenancePolicy"
    BY ZenonT(60), <1>1, <1>3 DEF ValueOf
  <2>. QED  BY ZenonT(60), <2>1 DEF out

(***************************************************************************)
(* The reconciles of one Cluster.                                          *)
(***************************************************************************)

\* The inductive invariant.  Between Observe and Update the spec in memory
\* holds whatever the cluster had when Observe read it.
SettingsInv ==
    /\ group \in Groups
    /\ DOMAIN spec \in Scopes[group] /\ DOMAIN conf = DOMAIN spec
    /\ SpecOK(spec)
    /\ exists => ConfOK(conf)
    /\ upToDate => exists /\ stage # "update"
    /\ UpToDateAgrees
    /\ stage = "update" => /\ exists
                           /\ DOMAIN mem = DOMAIN spec
                           /\ SpecOK(mem)
                           /\ Absorbed(group, mem, seen)

\* Specs and clusters as people and GKE write them.
LEMMA Assigned ==
    ASSUME NEW d, NEW none, NEW vs, NEW a \in Assignments(d, none, vs)
    PROVE  DOMAIN a = d
<1>1. PICK p : a \in {[f \in d |-> IF IsPointer(f) THEN p[f] ELSE l[f]] :
                        l \in [{f \in d : ~IsPointer(f)} -> vs]}
  BY Zenon DEF Assignments
<1>. QED  BY ZenonT(60), <1>1

LEMMA WrittenSpecs ==
    ASSUME NEW g \in Groups, NEW d \in Scopes[g], NEW s \in SpecsOn[g][d]
    PROVE  DOMAIN s = d /\ SpecOK(s)
<1>1. s \in Assignments(d, Nil, Values \cup {Nil}) /\ SpecOK(s)
  BY ZenonT(60) DEF SpecsOn
<1>2. DOMAIN s = d
  BY ZenonT(60), <1>1, Assigned
<1>. QED  BY ZenonT(60), <1>1, <1>2

LEMMA WrittenConfs ==
    ASSUME NEW g \in Groups, NEW d \in Scopes[g], NEW c \in ConfsOn[g][d]
    PROVE  DOMAIN c = d /\ ConfOK(c)
<1>1. c \in Assignments(d, Zero, Values) /\ ConfOK(c)
  BY ZenonT(60) DEF ConfsOn
<1>2. DOMAIN c = d
  BY ZenonT(60), <1>1, Assigned
<1>. QED  BY ZenonT(60), <1>1, <1>2

\* Where IsUpToDate finds no difference, GKE has what the spec sets.
LEMMA NoDifference ==
    ASSUME NEW g \in TopStructs, NEW s, NEW c, DOMAIN c = DOMAIN s,
           Scoped(g, DOMAIN s), SpecOK(s), IsUpToDate(g, s, c),
           NEW f \in DOMAIN s
    PROVE  \/ s[f] = Nil \/ c[f] = s[f]
           \/ g \notin Compared /\ f \notin ComparedLeaves
           \/ f = DiskType
           \/ f[1] = "Pubsub"
<1>. SUFFICES ASSUME s[f] # Nil, g \in Compared \/ f \in ComparedLeaves,
                     f # DiskType, f[1] # "Pubsub"
              PROVE  c[f] = s[f]
  BY ZenonT(60)
<1>1. GenerateCluster(g, s, c)[f] = s[f]
  BY SMTT(60), GenerateAssigns
<1>2. GenerateCluster(g, s, c)[f] = c[f]
  BY ZenonT(60) DEF IsUpToDate, DifferingFields
<1>. QED  BY ZenonT(60), <1>1, <1>2

LEMMA SettingsStart == SettingsInit => SettingsInv
<1>. SUFFICES ASSUME SettingsInit PROVE SettingsInv
  BY ZenonT(60)
<1>1. PICK d \in Scopes[group] :
         /\ spec \in SpecsOn[group][d]
         /\ \/ exists = TRUE /\ conf \in ConfsOn[group][d]
            \/ exists = FALSE /\ conf = Nothing(spec)
  BY ZenonT(60) DEF SettingsInit
<1>2. group \in Groups /\ stage = "observe" /\ upToDate = FALSE
  BY ZenonT(60) DEF SettingsInit
<1>3. DOMAIN spec = d /\ SpecOK(spec)
  BY ZenonT(60), <1>1, <1>2, WrittenSpecs
<1>4. DOMAIN conf = d /\ (exists => ConfOK(conf))
  BY ZenonT(60), <1>1, <1>2, <1>3, WrittenConfs DEF Nothing
<1>. QED  BY ZenonT(60), <1>1, <1>2, <1>3, <1>4 DEF SettingsInv, UpToDateAgrees

LEMMA CreateKeepsInv ==
    ASSUME SettingsInv, CreateCluster
    PROVE  SettingsInv'
<1>1. /\ conf' \in ConfsOn[group][DOMAIN spec] /\ exists' = TRUE
      /\ UNCHANGED <<group, spec, mem, seen, stage, upToDate>>
      /\ stage = "observe" /\ ~exists
  BY ZenonT(60) DEF CreateCluster
<1>2. group \in Groups /\ DOMAIN spec \in Scopes[group] /\ SpecOK(spec) /\ ~upToDate
  BY ZenonT(60), <1>1 DEF SettingsInv
<1>3. DOMAIN conf' = DOMAIN spec /\ ConfOK(conf')
  BY ZenonT(60), <1>1, <1>2, WrittenConfs
<1>. QED  BY ZenonT(60), <1>1, <1>2, <1>3 DEF SettingsInv, UpToDateAgrees

LEMMA ObserveKeepsInv ==
    ASSUME SettingsInv, ObserveCluster
    PROVE  SettingsInv'
<1>1. /\ spec' = LateInitializeClusterSpec(group, spec, conf)
      /\ upToDate' = IsUpToDate(group, spec', conf)
      /\ exists /\ stage = "observe"
      /\ UNCHANGED <<group, conf, exists>>
      /\ IF upToDate' THEN stage' = stage
         ELSE mem' = spec' /\ seen' = conf /\ stage' = "update"
  BY ZenonT(60) DEF ObserveCluster
<1>2. /\ group \in Groups /\ DOMAIN spec \in Scopes[group]
      /\ DOMAIN conf = DOMAIN spec /\ SpecOK(spec) /\ ConfOK(conf)
  BY ZenonT(60), <1>1 DEF SettingsInv
<1>3. group \in TopStructs /\ Scoped(group, DOMAIN spec)
  BY ZenonT(60), <1>2, ScopesScoped
<1>4. /\ DOMAIN spec' = DOMAIN spec /\ SpecOK(spec')
      /\ group \notin Forgetful => \A f \in DOMAIN spec : spec'[f] = Nil => conf[f] = Zero
  BY SMTT(60), <1>1, <1>2, <1>3, LateSound
<1>5. ASSUME upToDate', NEW f \in DOMAIN spec
      PROVE  \/ spec'[f] = Nil \/ conf[f] = spec'[f]
             \/ group \notin Compared /\ f \notin ComparedLeaves
             \/ f = DiskType
             \/ f[1] = "Pubsub"
  BY ZenonT(60), <1>1, <1>2, <1>3, <1>4, <1>5, NoDifference
<1>6. UpToDateAgrees'
  BY ZenonT(60), <1>1, <1>4, <1>5 DEF UpToDateAgrees, NotReconciled
<1>7. ~upToDate' => Absorbed(group, mem', seen')
  BY ZenonT(60), <1>1, <1>4 DEF Absorbed
<1>8. upToDate' \in BOOLEAN
  BY ZenonT(60), <1>1 DEF IsUpToDate
<1>. QED  BY ZenonT(60), <1>1, <1>2, <1>4, <1>6, <1>7, <1>8 DEF SettingsInv

LEMMA UpdateKeepsInv ==
    ASSUME SettingsInv, UpdateCluster
    PROVE  SettingsInv'
<1>1. /\ stage = "update" /\ stage' = "observe"
      /\ conf' = IF IsUpToDate(group, mem, conf) THEN conf
                 ELSE Applied(UpdateFn(group, mem, conf), conf)
      /\ UNCHANGED <<group, spec, exists, upToDate>>
  BY ZenonT(60) DEF UpdateCluster
<1>2. /\ group \in Groups /\ DOMAIN spec \in Scopes[group] /\ exists /\ ~upToDate
      /\ DOMAIN conf = DOMAIN spec /\ SpecOK(spec) /\ ConfOK(conf)
      /\ DOMAIN mem = DOMAIN spec /\ SpecOK(mem)
  BY ZenonT(60), <1>1 DEF SettingsInv
<1>3. group \in TopStructs /\ Scoped(group, DOMAIN mem)
  BY ZenonT(60), <1>2, ScopesScoped
<1>4. DOMAIN conf' = DOMAIN spec /\ ConfOK(conf')
  BY ZenonT(60), <1>1, <1>2, <1>3, UpdateApplied
<1>. QED  BY ZenonT(60), <1>1, <1>2, <1>4 DEF SettingsInv, UpToDateAgrees

LEMMA OthersKeepInv ==
    ASSUME SettingsInv, ObservePanics \/ RestartProvider \/ PeopleWrite \/ Drift
    PROVE  SettingsInv'
<1>1. /\ group \in Groups /\ DOMAIN spec \in Scopes[group]
      /\ DOMAIN conf = DOMAIN spec
  BY ZenonT(60) DEF SettingsInv
<1>2. CASE ObservePanics
  BY ZenonT(60), <1>2 DEF ObservePanics, SettingsInv, UpToDateAgrees, NotReconciled
<1>3. CASE RestartProvider
  BY ZenonT(60), <1>3 DEF RestartProvider, SettingsInv, UpToDateAgrees, NotReconciled
<1>4. CASE PeopleWrite
  <2>1. /\ spec' \in SpecsOn[group][DOMAIN spec] /\ upToDate' = FALSE
        /\ UNCHANGED <<group, conf, exists, mem, seen, stage>>
    BY ZenonT(60), <1>4 DEF PeopleWrite
  <2>2. DOMAIN spec' = DOMAIN spec /\ SpecOK(spec')
    BY ZenonT(60), <1>1, <2>1, WrittenSpecs
  <2>. QED  BY ZenonT(60), <2>1, <2>2 DEF SettingsInv, UpToDateAgrees
<1>5. CASE Drift
  <2>1. /\ conf' \in ConfsOn[group][DOMAIN spec] /\ upToDate' = FALSE
        /\ UNCHANGED <<group, spec, exists, mem, seen, stage>>
    BY ZenonT(60), <1>5 DEF Drift
  <2>2. DOMAIN conf' = DOMAIN spec /\ ConfOK(conf')
    BY ZenonT(60), <1>1, <2>1, WrittenConfs
  <2>. QED  BY ZenonT(60), <2>1, <2>2 DEF SettingsInv, UpToDateAgrees
<1>. QED  BY ZenonT(60), <1>2, <1>3, <1>4, <1>5

\* The state of the reconciles of a Cluster: the spec and the cluster are always
\* ones that the API server and GKE accept, and the spec an Update is made from
\* has taken over what Observe read.
THEOREM SettingsInvariance == SettingsSpec => []SettingsInv
<1>1. SettingsInit => SettingsInv
  BY ZenonT(60), SettingsStart
<1>2. SettingsInv /\ [SettingsNext]_settingsVars => SettingsInv'
  <2>. SUFFICES ASSUME SettingsInv, [SettingsNext]_settingsVars
                PROVE  SettingsInv'
    BY ZenonT(60)
  <2>1. CASE SettingsNext
    BY ZenonT(60), <2>1, CreateKeepsInv, ObserveKeepsInv, UpdateKeepsInv, OthersKeepInv
       DEF SettingsNext, ReconcileCluster
  <2>2. CASE UNCHANGED settingsVars
    BY ZenonT(60), <2>2 DEF settingsVars, SettingsInv, UpToDateAgrees, NotReconciled
  <2>. QED  BY ZenonT(60), <2>1, <2>2
<1>. QED  BY <1>1, <1>2, PTL DEF SettingsSpec

\* For any values, any number of leaves and of changes: while Observe reports
\* ResourceUpToDate, GKE has every value of the spec that is reconciled.
THEOREM UpToDateMeansAgreement == SettingsSpec => []UpToDateAgrees
<1>1. SettingsInv => UpToDateAgrees
  BY ZenonT(60) DEF SettingsInv
<1>. QED  BY <1>1, SettingsInvariance, PTL

\* LateInitializeSpec and every other step of the provider leave each field that
\* the spec sets as it is, the two structs without a nil check apart.
THEOREM SettingsIntentKept == SettingsSpec => IntentKept
<1>. DEFINE Kept == PeopleWrite \/ \A f \in DOMAIN spec :
               spec[f] # Nil /\ f[1] \notin Unconditional => spec'[f] = spec[f]
<1>1. SettingsInv /\ [SettingsNext]_settingsVars => [Kept]_settingsVars
  <2>. SUFFICES ASSUME SettingsInv, SettingsNext PROVE Kept
    BY ZenonT(60)
  <2>1. CASE ObserveCluster
    <3>1. spec' = LateInitializeClusterSpec(group, spec, conf) /\ exists
      BY ZenonT(60), <2>1 DEF ObserveCluster
    <3>2. /\ group \in Groups /\ DOMAIN spec \in Scopes[group]
          /\ DOMAIN conf = DOMAIN spec /\ SpecOK(spec) /\ ConfOK(conf)
      BY ZenonT(60), <3>1 DEF SettingsInv
    <3>3. group \in TopStructs /\ Scoped(group, DOMAIN spec)
      BY SMTT(60), <3>2, ScopesScoped
    <3>. QED  BY SMTT(60), <3>1, <3>2, <3>3, LateSound
  <2>2. CASE CreateCluster \/ ObservePanics \/ RestartProvider \/ UpdateCluster \/ Drift
    <3>1. spec' = spec
      BY ZenonT(60), <2>2 DEF CreateCluster, ObservePanics, RestartProvider,
         UpdateCluster, Drift
    <3>. QED  BY ZenonT(60), <3>1
  <2>. QED  BY ZenonT(60), <2>1, <2>2 DEF SettingsNext, ReconcileCluster
<1>. QED  BY <1>1, SettingsInvariance, PTL DEF SettingsSpec, IntentKept

\* An update of a whole group resets nothing that the spec leaves open: unless
\* GKE changed since Observe, only fields that the spec sets change, the type of
\* the disks and the rest of a maintenance policy apart.
THEOREM SettingsUpdateKeepsTheRest == SettingsSpec => UpdateKeepsTheRest
<1>. DEFINE Sets == UpdateCluster /\ seen = conf =>
               \A f \in DOMAIN conf :
                  \/ conf'[f] = conf[f]
                  \/ mem[f] # Nil /\ conf'[f] = mem[f]
                  \/ f = DiskType \/ group = "MaintenancePolicy"
<1>1. SettingsInv => [Sets]_settingsVars
  <2>. SUFFICES ASSUME SettingsInv, UpdateCluster, seen = conf, NEW f \in DOMAIN conf
                PROVE  \/ conf'[f] = conf[f]
                       \/ mem[f] # Nil /\ conf'[f] = mem[f]
                       \/ f = DiskType \/ group = "MaintenancePolicy"
    BY ZenonT(60)
  <2>1. /\ stage = "update"
        /\ conf' = IF IsUpToDate(group, mem, conf) THEN conf
                   ELSE Applied(UpdateFn(group, mem, conf), conf)
    BY ZenonT(60) DEF UpdateCluster
  <2>2. /\ group \in Groups /\ DOMAIN mem \in Scopes[group]
        /\ DOMAIN conf = DOMAIN mem /\ SpecOK(mem) /\ ConfOK(conf)
        /\ Absorbed(group, mem, conf)
    BY ZenonT(60), <2>1 DEF SettingsInv
  <2>3. group \in TopStructs /\ Scoped(group, DOMAIN mem)
    BY ZenonT(60), <2>2, ScopesScoped
  <2>. QED  BY ZenonT(60), <2>1, <2>2, <2>3, UpdateSetsOnly
<1>. QED  BY <1>1, SettingsInvariance, PTL DEF UpdateKeepsTheRest
=============================================================================
