---------------------------- MODULE OrderProofs ----------------------------
(***************************************************************************)
(* Proofs about what must happen in a certain order: a key is created,     *)
(* named in its CR and published, and a CR resolves its references before  *)
(* it creates its resource.                                                *)
(***************************************************************************)
EXTENDS ServiceAccountKey, References, ManagedProofs

(***************************************************************************)
(* ServiceAccountKey, for every number of keys and disturbances: the       *)
(* private half of a key is told once, and until access to the keys is     *)
(* withdrawn no key is forgotten outside the response of keys.create, and  *)
(* no second key is made for a CR that has one.                            *)
(***************************************************************************)

\* Every step keeps the types.
LEMMA KeyStepType ==
    ASSUME TypeOK, StepInv, [Next]_vars
    PROVE  TypeOK'
<1>. USE DEF TypeOK
<1>s. Specs = 0 .. MaxKeys /\ MaxKeys \in Nat
  BY ZenonT(60), KeysAssumption
<1>1. CASE (Start \/ DecideDeleting \/ DecideLive \/ Finish) /\ UNCHANGED keyVars
  BY ZenonT(60), <1>1, ManagedStepType DEF ManagedStep, keyVars
<1>2. CASE Gone
  <2>1. ManagedTypeOK'
    BY ZenonT(60), <1>2, ManagedStepType DEF Gone, ManagedStep
  <2>2. NoSecret \in [private : 0 .. MaxKeys, public : 0 .. MaxKeys]
    BY SMTT(60), <1>s DEF NoSecret
  <2>. QED
    BY ZenonT(60), <1>2, <2>1, <2>2 DEF Gone
<1>3. CASE ObserveAbsent
  BY ZenonT(60), <1>3 DEF ObserveAbsent, ManagedTypeOK, NotThere, Observations, PCs, keyVars
<1>4. CASE Observe
  <2>1. [cr EXCEPT !.ready = "Available"] \in CRs
    BY ZenonT(60) DEF ManagedTypeOK, CRs, Readies
  <2>2. cr.spec \in 0 .. MaxKeys
    BY ZenonT(60), <1>s DEF ManagedTypeOK, CRs
  <2>3. secret' \in [private : 0 .. MaxKeys, public : 0 .. MaxKeys]
    BY ZenonT(60), <1>4, <2>2 DEF Observe
  <2>4. ManagedTypeOK'
    BY ZenonT(60), <1>4, <2>1 DEF Observe, ManagedTypeOK, Observations, PCs
  <2>. QED
    BY ZenonT(60), <1>4, <2>3, <2>4 DEF Observe
<1>5. CASE Create
  <2>1. ManagedTypeOK'
    BY ZenonT(60), <1>5 DEF Create, ManagedTypeOK, PCs
  <2>2. made < MaxKeys => made + 1 \in Keys /\ made + 1 \in 0 .. MaxKeys
    BY <1>s DEF Keys
  <2>. QED
    BY ZenonT(60), <1>5, <2>1, <2>2 DEF Create
<1>6. CASE CreateLost
  <2>1. ManagedTypeOK'
    BY ZenonT(60), <1>6, DisturbType DEF CreateLost, ManagedTypeOK, PCs
  <2>2. made + 1 \in Keys /\ made + 1 \in 0 .. MaxKeys
    BY <1>6, <1>s DEF CreateLost, Keys
  <2>3. dropped' \in Dropped
    BY ZenonT(60), <1>6, <2>2 DEF CreateLost, Dropped
  <2>. QED
    BY ZenonT(60), <1>6, <2>1, <2>2, <2>3 DEF CreateLost
<1>7. CASE RecordName
  <2>1. [kube EXCEPT !.spec = created] \in CRs
    BY ZenonT(60), <1>s DEF ManagedTypeOK, CRs
  <2>2. ManagedTypeOK'
    BY ZenonT(60), <1>7, <2>1 DEF RecordName, ManagedTypeOK, PCs
  <2>. QED
    BY ZenonT(60), <1>7, <2>2 DEF RecordName, keyVars
<1>8. CASE PublishConnection
  <2>1. secret' \in [private : 0 .. MaxKeys, public : 0 .. MaxKeys]
    BY ZenonT(60), <1>8 DEF PublishConnection
  <2>2. ManagedTypeOK'
    BY ZenonT(60), <1>8 DEF PublishConnection, ManagedTypeOK, PCs
  <2>. QED
    BY SMTT(60), <1>8, <1>s, <2>1, <2>2 DEF PublishConnection
<1>9. CASE Delete
  BY ZenonT(60), <1>9 DEF Delete, ManagedTypeOK, PCs
<1>10. CASE CallFails
  BY ZenonT(60), <1>10, DisturbType DEF CallFails, ManagedTypeOK, PCs, keyVars
<1>11. CASE Stop
  <2>1. ManagedTypeOK'
    BY ZenonT(60), <1>11, CrashType DEF Stop
  <2>2. dropped' \in Dropped
    <3>1. pc \in {"record", "publish"} => created \in Keys
      BY <1>s DEF Keys, StepInv
    <3>2. CASE pc = "record"
      BY ZenonT(60), <1>11, <3>1, <3>2 DEF Stop, Dropped
    <3>3. CASE pc = "publish"
      BY ZenonT(60), <1>11, <3>1, <3>3 DEF Stop, Dropped
    <3>4. CASE pc \notin {"record", "publish"}
      BY ZenonT(60), <1>11, <3>4 DEF Stop
    <3>. QED
      BY ZenonT(60), <3>2, <3>3, <3>4
  <2>. QED
    BY SMTT(60), <1>11, <1>s, <2>1, <2>2 DEF Stop
<1>12. CASE KeyDeleted
  BY ZenonT(60), <1>12, DisturbType DEF KeyDeleted, ManagedTypeOK
<1>13. CASE Forbid
  BY ZenonT(60), <1>13, DisturbType DEF Forbid, ManagedTypeOK
<1>14. CASE Allow
  BY ZenonT(60), <1>14 DEF Allow, ManagedTypeOK, managedVars
<1>15. CASE CreateCR
  BY ZenonT(60), <1>15, UserStepType DEF CreateCR, UserStep, keyVars
<1>16. CASE UserDelete /\ UNCHANGED keyVars
  BY ZenonT(60), <1>16, UserStepType DEF UserStep, keyVars
<1>17. CASE UNCHANGED vars
  BY ZenonT(60), <1>17 DEF vars, managedVars, ManagedTypeOK
<1>. QED
  BY ZenonT(60), <1>1, <1>2, <1>3, <1>4, <1>5, <1>6, <1>7, <1>8, <1>9, <1>10, <1>11,
     <1>12, <1>13,
     <1>14, <1>15, <1>16, <1>17 DEF Next, Reconcile
\* What the reconciler's own steps do to the fields of the CR.
LEMMA ReconcilerForm ==
    ASSUME TypeOK, Inv, Start \/ DecideDeleting \/ DecideLive \/ Finish
    PROVE  /\ kube'.spec = kube.spec /\ kube'.phase = kube.phase
           /\ kube.finalizer => kube'.finalizer
           /\ pc' # "idle" => cr'.spec = kube.spec
           /\ \/ pc = "idle" /\ pc' = "observe" /\ kube.phase # "gone"
              \/ pc = "decide" /\ obs' = obs /\ pc' \in {"update", "finish", "delete"}
              \/ pc = "decide" /\ ~obs.exists /\ pc' \in {"create", "unfinalize"}
              \/ pc = "finish" /\ pc' = "idle"
           /\ ~kube'.finalizer => ~kube.finalizer
<1>. USE DEF TypeOK, ManagedTypeOK, CRs
<1>1. CASE Start
  BY ZenonT(60), <1>1 DEF Start
<1>2. CASE DecideDeleting
  BY ZenonT(60), <1>2 DEF DecideDeleting, Inv, NameInv
<1>3. CASE DecideLive
  <2>1. cr.spec = kube.spec
    BY ZenonT(60), <1>3 DEF DecideLive, Inv, NameInv
  <2>2. Dispatch \in {"create", "update", "finish"} /\ (Dispatch = "create" => ~obs.exists)
    BY ZenonT(60) DEF Dispatch, Observations
  <2>3. CASE cr.finalizer \/ ~fresh
    BY ZenonT(60), <1>3, <2>1, <2>2, <2>3 DEF DecideLive
  <2>4. CASE ~cr.finalizer /\ fresh
    <3>1. kube'.phase = kube.phase /\ kube'.finalizer /\ kube'.spec = cr.spec
      BY ZenonT(60), <1>3, <2>4 DEF DecideLive
    <3>2. cr'.spec = cr.spec
      BY ZenonT(60), <1>3, <2>4 DEF DecideLive, Decoded
    <3>. QED
      BY ZenonT(60), <1>3, <2>1, <2>2, <2>4, <3>1, <3>2 DEF DecideLive
  <2>. QED
    BY ZenonT(60), <2>3, <2>4
<1>4. CASE Finish
  <2>1. kube'.phase = kube.phase /\ kube'.finalizer = kube.finalizer /\ kube'.spec = kube.spec
    BY ZenonT(60), <1>4 DEF Finish
  <2>. QED
    BY ZenonT(60), <1>4, <2>1 DEF Finish, Idle
<1>. QED
  BY ZenonT(60), <1>1, <1>2, <1>3, <1>4

\* The reconciler's own steps keep the invariant: they move no key.
LEMMA ReconcilerStepInv ==
    ASSUME TypeOK, Inv, Start \/ DecideDeleting \/ DecideLive \/ Finish,
           UNCHANGED keyVars
    PROVE  Inv'
<1>1. ManagedInv'
  BY ZenonT(60), ManagedStepInv DEF ManagedStep, Inv, TypeOK
<1>2. NameInv'
  BY ZenonT(60), ReconcilerForm DEF Inv, NameInv, keyVars
<1>3. StepInv'
  BY ZenonT(60), ReconcilerForm DEF Inv, StepInv, keyVars
<1>4. NoOrphanKey'
  BY ZenonT(60), ReconcilerForm DEF Inv, NoOrphanKey, Recorded, keyVars
<1>5. pc' # "panic"
  BY ZenonT(60), ReconcilerForm
<1>. QED
  BY ZenonT(60), <1>1, <1>2, <1>3, <1>4, <1>5 DEF Inv, keyVars

\* Removing the finalizer: the key the CR names is not there any more.
LEMMA GoneInv == ASSUME TypeOK, Inv, Gone PROVE Inv'
<1>1. ManagedInv'
  BY ZenonT(60), ManagedStepInv DEF ManagedStep, Gone, Inv, TypeOK
<1>2. /\ pc = "unfinalize" /\ pc' = "idle"
      /\ kube'.spec = kube.spec
      /\ kube' = kube \/ (kube'.phase = "gone" /\ ~kube'.finalizer)
      /\ UNCHANGED <<active, made, allowed, withdrawn, created, dropped>>
  BY ZenonT(60) DEF Gone, Unfinalize, Idle, TypeOK, ManagedTypeOK, CRs
<1>3. ~withdrawn => Recorded = {}
  BY SMTT(60), <1>2 DEF Inv, NoOrphanKey, StepInv, Recorded, TypeOK, Keys
<1>4. NameInv'
  BY ZenonT(60), <1>2 DEF Inv, NameInv
<1>5. StepInv'
  BY ZenonT(60), <1>2 DEF Inv, StepInv
<1>6. NoOrphanKey'
  BY ZenonT(60), <1>2, <1>3 DEF NoOrphanKey, Recorded
<1>. QED
  BY ZenonT(60), <1>1, <1>2, <1>4, <1>5, <1>6 DEF Inv

\* Observe, whatever it finds.
LEMMA ObserveInv == ASSUME TypeOK, Inv, ObserveAbsent \/ Observe PROVE Inv'
<1>1. /\ pc = "observe" /\ pc' = "decide"
      /\ UNCHANGED <<kube, fresh, active, made, allowed, withdrawn, created, dropped>>
      /\ cr'.spec = cr.spec /\ cr'.phase = cr.phase /\ cr'.finalizer = cr.finalizer
  BY ZenonT(60) DEF ObserveAbsent, Observe, keyVars, TypeOK, ManagedTypeOK, CRs
<1>2. ~withdrawn /\ ~obs'.exists => kube.spec \notin active
  <2>1. 0 \notin active /\ cr.spec = kube.spec /\ (withdrawn \/ allowed)
    BY SMTT(60), <1>1 DEF Inv, NameInv, TypeOK, Keys
  <2>2. CASE ObserveAbsent
    BY ZenonT(60), <2>1, <2>2 DEF ObserveAbsent
  <2>3. CASE Observe
    BY ZenonT(60), <2>3 DEF Observe
  <2>. QED
    BY ZenonT(60), <2>2, <2>3
<1>3. ManagedInv'
  BY ZenonT(60), <1>1 DEF Inv, ManagedInv, FreshAgrees, FinalizerHolds
<1>4. NameInv'
  BY ZenonT(60), <1>1 DEF Inv, NameInv
<1>5. StepInv'
  BY ZenonT(60), <1>1, <1>2 DEF Inv, StepInv
<1>6. NoOrphanKey'
  BY ZenonT(60), <1>1 DEF Inv, NoOrphanKey, Recorded
<1>. QED
  BY ZenonT(60), <1>1, <1>3, <1>4, <1>5, <1>6 DEF Inv

\* keys.create: the new key is a successor of every key there is.
LEMMA CreateInv ==
    ASSUME TypeOK, Inv, (Create /\ allowed) \/ CreateLost PROVE Inv'
<1>1. /\ pc = "create" /\ allowed
      /\ UNCHANGED <<kube, cr, fresh, obs, allowed, withdrawn>>
      /\ made' = made + 1 /\ active' = active \cup {made + 1}
      /\ \/ pc' = "record" /\ created' = made + 1 /\ dropped' = dropped
         \/ /\ pc' = "finish" /\ created' = created
            /\ dropped'.unrecorded = dropped.unrecorded \cup {made + 1}
  BY ZenonT(60) DEF Create, CreateLost, Inv, TypeOK, Dropped
<1>2. /\ kube.finalizer /\ kube.phase # "gone" /\ created = 0
      /\ ~withdrawn => kube.spec \notin active
  BY ZenonT(60), <1>1 DEF Inv, ManagedInv, FinalizerHolds, StepInv
<1>3. made \in Nat /\ kube.spec \in Nat /\ active \subseteq Nat
  BY SMTT(60), KeysAssumption DEF TypeOK, ManagedTypeOK, CRs, Keys
<1>4. ManagedInv'
  BY ZenonT(60), <1>1 DEF Inv, ManagedInv, FreshAgrees, FinalizerHolds
<1>5. NameInv'
  BY SMTT(60), <1>1, <1>3 DEF Inv, NameInv
<1>6. StepInv'
  <2>1. ~withdrawn => kube.spec \notin active'
    BY SMTT(60), <1>1, <1>2, <1>3 DEF Inv, NameInv
  <2>. QED
    BY SMTT(60), <1>1, <1>2, <1>3, <2>1 DEF StepInv
<1>7. NoOrphanKey'
  <2>. SUFFICES ASSUME ~withdrawn' PROVE NoOrphanKey'
    BY ZenonT(60) DEF NoOrphanKey
  <2>1. Recorded \subseteq {kube.spec, 0}
    BY ZenonT(60), <1>1, <1>2 DEF Inv, NoOrphanKey
  <2>2. Recorded' \subseteq {kube.spec, created'}
    <3>1. CASE created' = made + 1 /\ dropped' = dropped
      BY SMTT(60), <1>1, <1>2, <2>1, <3>1 DEF Recorded, TypeOK, Keys
    <3>2. CASE dropped'.unrecorded = dropped.unrecorded \cup {made + 1} /\ created' = created
      BY ZenonT(60), <1>1, <1>2, <2>1, <3>2 DEF Recorded
    <3>. QED
      BY ZenonT(60), <1>1, <3>1, <3>2
  <2>. QED
    BY ZenonT(60), <1>1, <1>2, <2>2 DEF NoOrphanKey
<1>8. \A k \in active' : k <= made'
  BY SMTT(60), <1>1, <1>3 DEF Inv
<1>. QED
  BY ZenonT(60), <1>1, <1>4, <1>5, <1>6, <1>7, <1>8 DEF Inv

\* The key's name replaces one that no key has.
LEMMA RecordInv == ASSUME TypeOK, Inv, RecordName PROVE Inv'
<1>1. /\ pc = "record" /\ pc' = "publish" /\ fresh'
      /\ kube'.spec = created /\ cr' = kube'
      /\ kube'.phase = kube.phase /\ kube'.finalizer = kube.finalizer
      /\ UNCHANGED <<obs, active, made, allowed, withdrawn, created, dropped>>
  BY ZenonT(60) DEF RecordName, keyVars, TypeOK, ManagedTypeOK, CRs
<1>2. /\ kube.finalizer /\ kube.phase # "gone"
      /\ created # 0 /\ (~withdrawn => kube.spec \notin active)
  BY ZenonT(60), <1>1 DEF Inv, ManagedInv, FinalizerHolds, StepInv
<1>3. ManagedInv'
  BY ZenonT(60), <1>1, <1>2 DEF Inv, ManagedInv, FreshAgrees, FinalizerHolds
<1>4. created <= made
  BY ZenonT(60), <1>1 DEF Inv, StepInv
<1>5. NameInv'
  BY ZenonT(60), <1>1, <1>2, <1>4 DEF NameInv
<1>6. StepInv'
  BY ZenonT(60), <1>1, <1>2, <1>4 DEF StepInv
<1>7. NoOrphanKey'
  BY ZenonT(60), <1>1, <1>2 DEF Inv, NoOrphanKey, Recorded
<1>. QED
  BY ZenonT(60), <1>1, <1>3, <1>5, <1>6, <1>7 DEF Inv

\* The private key is published, and the key is no longer in hand.
LEMMA PublishInv == ASSUME TypeOK, Inv, PublishConnection PROVE Inv'
<1>1. /\ pc = "publish" /\ pc' = "finish" /\ created' = 0
      /\ UNCHANGED <<kube, cr, fresh, obs, active, made, allowed, withdrawn, dropped>>
  BY ZenonT(60) DEF PublishConnection
<1>2. kube.spec = created /\ made \in Nat
  BY SMTT(60), <1>1, KeysAssumption DEF Inv, StepInv, TypeOK
<1>3. ManagedInv'
  BY ZenonT(60), <1>1 DEF Inv, ManagedInv, FreshAgrees, FinalizerHolds
<1>4. NameInv' /\ NoOrphanKey'
  BY ZenonT(60), <1>1, <1>2 DEF Inv, NameInv, NoOrphanKey, Recorded
<1>5. StepInv'
  BY <1>1, <1>2 DEF StepInv
<1>. QED
  BY ZenonT(60), <1>1, <1>3, <1>4, <1>5 DEF Inv

\* Keys only disappear: a refused keys.create, keys.delete, a failed call, somebody deletes a key.
LEMMA FewerKeysInv ==
    ASSUME TypeOK, Inv, (Create /\ ~allowed) \/ Delete \/ CallFails \/ KeyDeleted PROVE Inv'
<1>1. /\ pc' = pc \/ (pc \notin {"record", "publish"} /\ pc' = "finish")
      /\ active' \subseteq active
      /\ UNCHANGED <<kube, cr, fresh, obs, made, allowed, withdrawn, created, dropped>>
  BY ZenonT(60) DEF Create, Delete, CallFails, KeyDeleted, keyVars
<1>2. ManagedInv'
  BY ZenonT(60), <1>1 DEF Inv, ManagedInv, FreshAgrees, FinalizerHolds
<1>3. NameInv'
  <2>1. pc = "idle" => pc' = "idle"
    BY ZenonT(60) DEF Create, Delete, CallFails, KeyDeleted
  <2>. QED
    BY ZenonT(60), <1>1, <2>1 DEF Inv, NameInv, Create, Delete, CallFails, KeyDeleted
<1>4. StepInv'
  BY ZenonT(60), <1>1 DEF Inv, StepInv
<1>5. NoOrphanKey'
  BY ZenonT(60), <1>1 DEF Inv, NoOrphanKey, Recorded
<1>. QED
  BY ZenonT(60), <1>1, <1>2, <1>3, <1>4, <1>5 DEF Inv

\* A stop forgets at most the key in hand, and the history says which.
LEMMA StopInv == ASSUME TypeOK, Inv, Stop PROVE Inv'
<1>1. /\ pc' = "idle" /\ created' = 0
      /\ UNCHANGED <<kube, active, made, allowed, withdrawn>>
  BY ZenonT(60) DEF Stop, Crash, Idle
<1>2. ManagedInv'
  BY ZenonT(60), CrashInv DEF Stop, Inv
<1>3. NameInv'
  BY ZenonT(60), <1>1 DEF Inv, NameInv
<1>4. StepInv'
  <2>1. made \in Nat
    BY SMTT(60), KeysAssumption DEF TypeOK
  <2>. QED
    BY SMTT(60), <1>1, <2>1 DEF StepInv
<1>5. NoOrphanKey'
  <2>1. CASE pc = "record"
    <3>1. dropped'.unrecorded = dropped.unrecorded \cup {created}
      BY ZenonT(60), <2>1 DEF Stop, TypeOK, Dropped
    <3>. QED
      BY ZenonT(60), <1>1, <3>1 DEF Inv, NoOrphanKey, Recorded
  <2>2. CASE pc = "publish"
    <3>1. dropped'.unrecorded = dropped.unrecorded
      BY ZenonT(60), <2>2 DEF Stop, TypeOK, Dropped
    <3>. QED
      BY ZenonT(60), <1>1, <2>2, <3>1 DEF Inv, NoOrphanKey, Recorded, StepInv
  <2>3. CASE pc \notin {"record", "publish"}
    BY SMTT(60), <1>1, <2>3 DEF Stop, Inv, NoOrphanKey, Recorded, StepInv
  <2>. QED
    BY ZenonT(60), <2>1, <2>2, <2>3
<1>. QED
  BY ZenonT(60), <1>1, <1>2, <1>3, <1>4, <1>5 DEF Inv

\* People create a CR where there was none, and delete it.
LEMMA PeopleInv ==
    ASSUME TypeOK, Inv, CreateCR \/ (UserDelete /\ UNCHANGED keyVars) PROVE Inv'
<1>1. UNCHANGED <<cr, obs, pc, active, made, allowed, withdrawn, created, dropped>>
  BY ZenonT(60) DEF CreateCR, UserCreate, UserDelete, keyVars
<1>2. ManagedInv'
  BY ZenonT(60), UserStepInv DEF UserStep, CreateCR, Inv, TypeOK
<1>3. CASE CreateCR
  <2>1. /\ kube.phase = "gone" /\ ~kube.finalizer
        /\ kube'.phase = "live" /\ kube'.spec = 0
    <3>1. PICK s \in Specs : kube' = NewCR(s)
      BY ZenonT(60), <1>3 DEF CreateCR, UserCreate
    <3>2. kube'.phase = "live"
      BY ZenonT(60), <3>1 DEF NewCR
    <3>. QED
      BY ZenonT(60), <1>3, <3>2 DEF CreateCR, UserCreate, Inv, ManagedInv, FinalizerHolds
  <2>2. NameInv'
    BY SMTT(60), <1>1, <2>1, KeysAssumption DEF Inv, NameInv, TypeOK
  <2>3. StepInv'
    BY SMTT(60), <1>1, <2>1 DEF Inv, StepInv, TypeOK, Keys
  <2>4. NoOrphanKey'
    BY ZenonT(60), <1>1, <2>1 DEF Inv, NoOrphanKey, Recorded
  <2>. QED
    BY ZenonT(60), <1>1, <1>2, <2>2, <2>3, <2>4 DEF Inv
<1>4. CASE UserDelete
  <2>1. /\ kube.phase = "live"
        /\ kube'.phase = IF kube.finalizer THEN "deleting" ELSE "gone"
        /\ kube'.spec = kube.spec /\ kube'.finalizer = kube.finalizer
    BY ZenonT(60), <1>4 DEF UserDelete, TypeOK, ManagedTypeOK, CRs
  <2>2. NameInv'
    BY ZenonT(60), <1>1, <2>1 DEF Inv, NameInv
  <2>3. StepInv'
    BY ZenonT(60), <1>1, <2>1 DEF Inv, StepInv
  <2>4. NoOrphanKey'
    <3>. SUFFICES ASSUME ~withdrawn' PROVE NoOrphanKey'
      BY ZenonT(60) DEF NoOrphanKey
    <3>1. Recorded' = Recorded /\ Recorded' \subseteq {kube'.spec, created'}
      BY ZenonT(60), <1>1, <2>1 DEF Inv, NoOrphanKey, Recorded
    <3>2. ~kube.finalizer => kube.spec = 0 /\ created = 0
      BY ZenonT(60), <2>1 DEF Inv, NameInv, StepInv
    <3>3. 0 \notin Recorded
      BY SMTT(60) DEF Recorded, TypeOK, Keys
    <3>. QED
      BY ZenonT(60), <1>1, <2>1, <3>1, <3>2, <3>3 DEF NoOrphanKey
  <2>. QED
    BY <1>1, <1>2, <2>2, <2>3, <2>4 DEF Inv
<1>. QED
  BY ZenonT(60), <1>3, <1>4

\* The inductive step.
LEMMA KeyStepInv ==
    ASSUME TypeOK, Inv, [Next]_vars PROVE Inv'
<1>1. CASE (Start \/ DecideDeleting \/ DecideLive \/ Finish) /\ UNCHANGED keyVars
  BY ZenonT(60), <1>1, ReconcilerStepInv
<1>2. CASE Gone
  BY ZenonT(60), <1>2, GoneInv
<1>3. CASE ObserveAbsent \/ Observe
  BY ZenonT(60), <1>3, ObserveInv
<1>4. CASE (Create /\ allowed) \/ CreateLost
  BY ZenonT(60), <1>4, CreateInv
<1>5. CASE RecordName
  BY <1>5, RecordInv
<1>6. CASE PublishConnection
  BY <1>6, PublishInv
<1>7. CASE (Create /\ ~allowed) \/ Delete \/ CallFails \/ KeyDeleted
  BY ZenonT(60), <1>7, FewerKeysInv
<1>8. CASE Stop
  BY <1>8, StopInv
<1>9. CASE Forbid \/ Allow
  <2>1. /\ UNCHANGED <<kube, cr, fresh, obs, pc, active, made, created, dropped>>
        /\ withdrawn' \/ (~withdrawn' /\ ~withdrawn /\ allowed')
    BY ZenonT(60), <1>9 DEF Forbid, Allow, managedVars, TypeOK
  <2>. QED
    BY ZenonT(60), <2>1 DEF Inv, ManagedInv, FreshAgrees, FinalizerHolds, NameInv, StepInv,
       NoOrphanKey, Recorded
<1>10. CASE CreateCR \/ (UserDelete /\ UNCHANGED keyVars)
  BY ZenonT(60), <1>10, PeopleInv
<1>11. CASE UNCHANGED vars
  BY ZenonT(60), <1>11 DEF vars, managedVars, Inv, ManagedInv, FreshAgrees, FinalizerHolds,
     NameInv, StepInv, NoOrphanKey, Recorded
<1>. QED
  BY ZenonT(60), <1>1, <1>2, <1>3, <1>4, <1>5, <1>6, <1>7, <1>8, <1>9, <1>10, <1>11
  DEF Next, Reconcile

\* The initial states satisfy the invariant.
LEMMA KeyInit == Init => TypeOK /\ Inv
<1>. SUFFICES ASSUME Init PROVE TypeOK /\ Inv
  BY ZenonT(60)
<1>1. ManagedTypeOK /\ ManagedInv
  BY ZenonT(60), ManagedInitOK DEF Init
<1>2. TypeOK
  <2>1. allowed \in BOOLEAN /\ withdrawn \in BOOLEAN
    BY ZenonT(60) DEF Init
  <2>. QED
    BY SMTT(60), <1>1, <2>1, KeysAssumption DEF Init, TypeOK, NoSecret, Dropped
<1>3. NameInv /\ StepInv
  <2>1. /\ kube.phase = "live" /\ kube.spec = 0 /\ pc = "idle"
        /\ active = {} /\ made = 0 /\ created = 0
    BY ZenonT(60) DEF Init, ManagedInit, NewCR
  <2>. QED
    BY <2>1 DEF NameInv, StepInv
<1>4. NoOrphanKey
  BY ZenonT(60) DEF Init, NewCR, NoOrphanKey, Recorded
<1>. QED
  BY ZenonT(60), <1>1, <1>2, <1>3, <1>4 DEF Inv, Init, ManagedInit

\* While access to the keys is not withdrawn, the invariant holds for every
\* number of keys and of disturbances: the controller's methods, the reconciler
\* around them, crashes and people's steps keep it.
THEOREM KeyInvariance ==
    Spec => [](TypeOK /\ Inv)
<1>1. Init => TypeOK /\ Inv
  BY ZenonT(60), KeyInit
<1>2. TypeOK /\ Inv /\ [Next]_vars => (TypeOK /\ Inv)'
  BY ZenonT(60), KeyStepType, KeyStepInv DEF Inv
<1>. QED
  BY <1>1, <1>2, PTL DEF Spec

\* No key but one lost in the response of keys.create is ever forgotten, and a
\* CR that is gone has left none.
THEOREM NoOrphanKeyHolds ==
    Spec => []NoOrphanKey
<1>1. TypeOK /\ Inv => NoOrphanKey
  BY ZenonT(60) DEF Inv
<1>. QED
  BY <1>1, KeyInvariance, PTL

\* keys.create is called only while the CR names no existing key.
THEOREM NoSecondKeyHolds ==
    Spec => NoSecondKey
<1>1. ASSUME TypeOK, Inv, [Next]_vars PROVE made' > made /\ ~withdrawn => kube.spec \notin active
  <2>1. made \in Nat /\ ~(made > made)
    BY SMTT(60), <1>1, KeysAssumption DEF TypeOK
  <2>2. ~withdrawn /\ pc = "create" => kube.spec \notin active
    BY ZenonT(60), <1>1 DEF Inv, StepInv
  <2>3. made' = made \/ pc = "create"
    BY ZenonT(60), <1>1 DEF Next, Reconcile, Gone, ObserveAbsent, Observe, Create,
       CreateLost,
       RecordName, PublishConnection, Delete, CallFails, Stop, KeyDeleted, Forbid,
       Allow, CreateCR, keyVars, vars
  <2>. QED
    BY ZenonT(60), <2>1, <2>2, <2>3
<1>2. TypeOK /\ Inv /\ [Next]_vars => [made' > made /\ ~withdrawn => kube.spec \notin active]_vars
  BY ZenonT(60), <1>1
<1>. QED
  BY <1>2, KeyInvariance, PTL DEF Spec, NoSecondKey

\* What a step does to the credential: the new key's private half comes into
\* hand in Create, is told by PublishConnection, is lost by a stop, and goes
\* with the CR's secret.
LEMMA CredentialStep ==
    ASSUME TypeOK, Inv, [Next]_vars
    PROVE  Credentials!Next \/ UNCHANGED <<made, created, secret.private>>
<1>. USE DEF Credentials!Next
<1>1. CASE (Create /\ allowed) \/ CreateLost
  <2>1. created = 0
    BY ZenonT(60), <1>1 DEF Create, CreateLost, Inv, StepInv
  <2>. QED
    BY ZenonT(60), <1>1, <2>1 DEF Create, CreateLost, Credentials!Issue
<1>2. CASE PublishConnection
  <2>1. created # 0
    BY ZenonT(60), <1>2 DEF PublishConnection, Inv, StepInv
  <2>2. secret'.private = created
    BY ZenonT(60), <1>2 DEF PublishConnection, TypeOK
  <2>. QED
    BY ZenonT(60), <1>2, <2>1, <2>2 DEF PublishConnection, Credentials!Tell
<1>3. CASE Stop
  BY ZenonT(60), <1>3 DEF Stop, Credentials!Lose
<1>4. CASE Gone
  <2>1. created = 0
    BY ZenonT(60), <1>4 DEF Gone, Unfinalize, Inv, StepInv
  <2>2. secret' = secret \/ secret'.private = 0
    BY ZenonT(60), <1>4 DEF Gone, NoSecret
  <2>. QED
    BY ZenonT(60), <1>4, <2>1, <2>2 DEF Gone, Credentials!Forget
<1>5. CASE Observe
  <2>1. secret'.private = secret.private
    BY ZenonT(60), <1>5 DEF Observe, TypeOK
  <2>. QED
    BY ZenonT(60), <1>5, <2>1 DEF Observe
<1>6. CASE \/ (Start \/ DecideDeleting \/ DecideLive \/ Finish) /\ UNCHANGED keyVars
           \/ ObserveAbsent \/ (Create /\ ~allowed) \/ RecordName \/ Delete
           \/ CallFails \/ KeyDeleted \/ Forbid \/ Allow \/ CreateCR
           \/ UserDelete /\ UNCHANGED keyVars
           \/ UNCHANGED vars
  BY ZenonT(60), <1>6 DEF ObserveAbsent, Create, RecordName, Delete, CallFails,
     KeyDeleted, Forbid,
     Allow, CreateCR, keyVars, vars
<1>. QED
  BY ZenonT(60), <1>1, <1>2, <1>3, <1>4, <1>5, <1>6 DEF Next, Reconcile

\* The controller implements Credential: IAM's answer to keys.create is the only
\* source of what the connection secret holds as the private key, whatever access
\* is withdrawn and wherever the provider stops.
THEOREM ToldOnceHolds == Spec => ToldOnce
<1>1. Init => Credentials!Init
  BY SMTT(60) DEF Init, NoSecret, Credentials!Init
<1>2. TypeOK /\ Inv /\ [Next]_vars => [Credentials!Next]_(Credentials!credentialVars)
  BY ZenonT(60), CredentialStep DEF Credentials!credentialVars
<1>. QED
  BY <1>1, <1>2, KeyInvariance, PTL DEF Spec, ToldOnce, Credentials!Spec

\* What a step leaves of the secret's private half, for each of the steps that
\* can disturb it.
LEMMA SecretStep == ASSUME TypeOK, Inv, SecretInv, [Next]_vars PROVE SecretInv'
<1>1. CASE (Start \/ DecideDeleting \/ DecideLive \/ Finish) /\ UNCHANGED keyVars
  BY ZenonT(60), <1>1, ReconcilerForm DEF SecretInv, keyVars
<1>2. CASE Gone
  <2>1. pc = "unfinalize" /\ dropped' = dropped
    BY ZenonT(60), <1>2 DEF Gone, Unfinalize
  <2>2. kube' = kube \/ kube'.phase = "gone"
    BY ZenonT(60), <1>2 DEF Gone, Unfinalize, TypeOK, ManagedTypeOK, CRs
  <2>3. CASE kube'.phase = "gone"
    BY ZenonT(60), <1>2, <2>3 DEF Gone, NoSecret, SecretInv
  <2>4. CASE kube' = kube /\ kube'.phase # "gone"
    BY ZenonT(60), <1>2, <2>1, <2>4 DEF Gone, SecretInv
  <2>. QED
    BY ZenonT(60), <2>2, <2>3, <2>4
<1>3. CASE Observe
  <2>1. secret'.private = secret.private
    BY ZenonT(60), <1>3 DEF Observe, TypeOK
  <2>. QED
    BY ZenonT(60), <1>3, <2>1 DEF Observe, SecretInv
<1>4. CASE RecordName
  <2>1. kube'.phase = kube.phase /\ pc' = "publish"
    BY ZenonT(60), <1>4 DEF RecordName, TypeOK, ManagedTypeOK, CRs
  <2>. QED
    BY ZenonT(60), <1>4, <2>1 DEF RecordName, SecretInv, keyVars
<1>5. CASE PublishConnection
  <2>1. kube.spec = created /\ kube.phase # "gone"
    BY ZenonT(60), <1>5 DEF PublishConnection, Inv, StepInv, ManagedInv, FinalizerHolds
  <2>2. secret'.private = created
    BY ZenonT(60), <1>5 DEF PublishConnection, TypeOK
  <2>. QED
    BY ZenonT(60), <1>5, <2>1, <2>2 DEF PublishConnection, SecretInv
<1>6. CASE Stop
  <2>1. UNCHANGED <<kube, secret>> /\ pc' = "idle"
    BY ZenonT(60), <1>6 DEF Stop, Crash, Idle
  <2>2. CASE pc = "publish"
    <3>1. dropped'.unpublished = dropped.unpublished \cup {created}
      BY ZenonT(60), <1>6, <2>2 DEF Stop, TypeOK, Dropped
    <3>2. kube.spec = created
      BY ZenonT(60), <2>2 DEF Inv, StepInv
    <3>. QED
      BY ZenonT(60), <2>1, <3>1, <3>2 DEF SecretInv
  <2>3. CASE pc # "publish"
    <3>1. dropped'.unpublished = dropped.unpublished
      BY ZenonT(60), <1>6, <2>3 DEF Stop, TypeOK, Dropped
    <3>. QED
      BY ZenonT(60), <2>1, <2>3, <3>1 DEF SecretInv
  <2>. QED
    BY ZenonT(60), <2>2, <2>3
<1>7. CASE CreateLost
  <2>1. dropped'.unpublished = dropped.unpublished
    BY ZenonT(60), <1>7 DEF CreateLost, TypeOK, Dropped
  <2>. QED
    BY ZenonT(60), <1>7, <2>1 DEF CreateLost, SecretInv
<1>8. CASE CreateCR
  <2>1. kube.phase = "gone" /\ kube'.spec = 0
    BY ZenonT(60), <1>8 DEF CreateCR, UserCreate
  <2>2. kube'.phase = "live"
    <3>1. PICK s \in Specs : kube' = NewCR(s)
      BY ZenonT(60), <1>8 DEF CreateCR, UserCreate
    <3>. QED
      BY ZenonT(60), <3>1 DEF NewCR
  <2>. QED
    BY ZenonT(60), <1>8, <2>1, <2>2 DEF CreateCR, SecretInv, keyVars
<1>9. CASE UserDelete /\ UNCHANGED keyVars
  <2>1. /\ kube.phase = "live" /\ pc' = pc
        /\ kube'.phase = IF kube.finalizer THEN "deleting" ELSE "gone"
        /\ kube'.spec = kube.spec
    BY ZenonT(60), <1>9 DEF UserDelete, TypeOK, ManagedTypeOK, CRs
  <2>2. ~kube.finalizer => kube.spec = 0 /\ pc # "publish"
    BY ZenonT(60), <2>1 DEF Inv, NameInv, StepInv
  <2>3. 0 \notin dropped.unpublished
    BY DEF TypeOK, Dropped, Keys
  <2>. QED
    BY ZenonT(60), <1>9, <2>1, <2>2, <2>3 DEF SecretInv, keyVars
<1>10. CASE ObserveAbsent \/ Create \/ Delete \/ CallFails \/ KeyDeleted \/ Forbid \/ Allow
            \/ UNCHANGED vars
  <2>1. UNCHANGED <<kube, secret, dropped>> /\ (pc' = "publish" <=> pc = "publish")
    BY ZenonT(60), <1>10 DEF ObserveAbsent, Create, Delete, CallFails, KeyDeleted, Forbid,
       Allow,
       keyVars, managedVars, vars
  <2>. QED
    BY ZenonT(60), <2>1 DEF SecretInv
<1>. QED
  BY ZenonT(60), <1>1, <1>2, <1>3, <1>4, <1>5, <1>6, <1>7, <1>8, <1>9, <1>10 DEF Next,
     Reconcile

\* Whenever the CR says Available, its secret holds the private half of the key it
\* names, unless the provider stopped between the two writes of Create.
THEOREM AvailableHasPrivateKeyHolds == Spec => []AvailableHasPrivateKey
<1>1. ASSUME Init PROVE SecretInv
  <2>1. kube.phase = "live" /\ kube.spec = 0 /\ secret.private = 0
    BY ZenonT(60), <1>1 DEF Init, NewCR, NoSecret
  <2>. QED
    BY ZenonT(60), <2>1 DEF SecretInv
<1>2. TypeOK /\ Inv /\ SecretInv /\ [Next]_vars => SecretInv'
  BY ZenonT(60), SecretStep
<1>3. SecretInv => AvailableHasPrivateKey
  BY ZenonT(60) DEF SecretInv, AvailableHasPrivateKey
<1>. QED
  BY <1>1, <1>2, <1>3, KeyInvariance, PTL DEF Spec

\* The types hold through every behaviour.
THEOREM KeyTypeCorrect == Spec => []TypeOK
<1>. QED
  BY KeyInvariance, PTL

(***************************************************************************)
(* References, for every set of CRs, every way they refer to each other    *)
(* and any number of disturbances: a CR with a finalizer has its           *)
(* references resolved, no partial resolution is stored, and no resource   *)
(* outlives its CR.                                                        *)
(***************************************************************************)

\* The helpers that read `world` mean the same after a step that keeps it.
LEMMA SameWorld ==
    ASSUME world' = world, NEW o \in Objects
    PROVE  /\ Kind(o)' = Kind(o)
           /\ Requests(o)' = Requests(o)
           /\ NoValues(o)' = NoValues(o)
           /\ NewRecord(o)' = NewRecord(o)
           /\ CRRecords(o)' = CRRecords(o)
  BY ZenonT(60) DEF Kind, Requests, NoValues, NewRecord, CRRecords, Values

\* A CR none of whose state changes, except that its resource may go (with the
\* one it lives in), keeps its invariant.
LEMMA Others ==
    ASSUME CRInv, NEW p \in Objects, world' = world,
           crs'[p] = crs[p], mem'[p] = mem[p], pcs'[p] = pcs[p],
           current'[p] = current[p], p \in ext' => p \in ext,
           p \in cleared' <=> p \in cleared
    PROVE  LocalInv(p)'
<1>1. LocalInv(p)
  BY ZenonT(60) DEF CRInv
<1>2. /\ Complete(p, crs[p].values)' <=> Complete(p, crs[p].values)
      /\ Complete(p, mem[p].values)' <=> Complete(p, mem[p].values)
  BY ZenonT(60), SameWorld DEF Complete
<1>3. /\ Outlives(p)' <=> Outlives(p)
      /\ Stored(p)' <=> Stored(p)
      /\ NoValues(p)' = NoValues(p)
  BY ZenonT(60), SameWorld DEF Outlives, Stored
<1> QED
  BY ZenonT(60), <1>1, <1>2, <1>3 DEF LocalInv

\* A new CR has a record's type and no values.
LEMMA NewRecordType ==
    ASSUME NEW o \in Objects
    PROVE  /\ NoValues(o) \in Values(o)
           /\ NewRecord(o) \in CRRecords(o)
           /\ [NewRecord(o) EXCEPT !.phase = "gone"] \in CRRecords(o)
<1>1. NoValues(o) \in Values(o)
  BY ZenonT(60) DEF NoValues, Values
<1> QED
  BY ZenonT(60), <1>1 DEF NewRecord, CRRecords

\* What Init says of one CR.
LEMMA InitInv ==
    ASSUME CRInit
    PROVE  CRInv
<1>1. \A o \in Objects : crs[o] \in CRRecords(o) /\ mem[o] \in CRRecords(o)
  BY ZenonT(60), NewRecordType DEF CRInit
<1>2. Typed
  BY ZenonT(60), <1>1 DEF CRInit, Typed, CRPCs
<1>3. ASSUME NEW o \in Objects
      PROVE  LocalInv(o)
  <2>1. /\ ~ crs[o].finalizer
        /\ crs[o].phase \in {"none", "gone"}
        /\ crs[o].values = NoValues(o)
    BY ZenonT(60) DEF CRInit, NewRecord
  <2> QED
    BY ZenonT(60), <2>1 DEF CRInit, LocalInv
<1> QED
  BY ZenonT(60), <1>2, <1>3 DEF CRInv

\* What ResolveReferences computes: values for all requests once every request
\* resolves, of the type of values.
LEMMA ResolvedValues ==
    ASSUME CRInv, NEW o \in Objects
    PROVE  /\ Resolved(o) \in Values(o)
           /\ (\A i \in DOMAIN mem[o].values : Resolves(o, i))
                 => Complete(o, Resolved(o))
<1>1. /\ mem[o].values \in Values(o)
      /\ world.refs[o] \in [1..Len(Requests(o)) -> SUBSET Objects]
  BY ZenonT(60), WorldsAssumption DEF CRInv, Typed, CRRecords, Requests, Kind
<1>2. DOMAIN mem[o].values = 1..Len(Requests(o))
  BY ZenonT(60), <1>1 DEF Values
<1>3. ASSUME NEW i \in 1..Len(Requests(o))
      PROVE  /\ Chosen(o, i) \subseteq Objects
             /\ mem[o].values[i] \subseteq Objects
  BY ZenonT(60), <1>1, <1>3 DEF Chosen, Values
<1>4. Resolved(o) \in Values(o)
  BY ZenonT(60), <1>2, <1>3 DEF Resolved, Values
<1>5. ASSUME \A i \in DOMAIN mem[o].values : Resolves(o, i),
             NEW i \in DOMAIN Resolved(o),
             world.refs[o][i] # {} \/ Requests(o)[i].selectsAll
      PROVE  Resolved(o)[i] # {}
  <2>1. i \in DOMAIN mem[o].values
    BY ZenonT(60), <1>5 DEF Resolved
  <2>2. Resolved(o)[i] = mem[o].values[i] \cup Chosen(o, i)
    BY ZenonT(60), <2>1 DEF Resolved
  <2>3. mem[o].values[i] = {} => Chosen(o, i) # {}
    BY ZenonT(60), <1>5, <2>1 DEF Resolves, Chosen
  <2> QED
    BY ZenonT(60), <2>2, <2>3
<1> QED
  BY ZenonT(60), <1>4, <1>5 DEF Complete

\* Reading a CR: the copy is the stored CR, whose values are complete if it has
\* a finalizer.
LEMMA BeginKeeps ==
    ASSUME CRInv, NEW o \in Objects, Begin(o)
    PROVE  Typed' /\ LocalInv(o)'
<1> DEFINE c == [crs[o] EXCEPT !.named = TRUE]
<1>0. /\ LocalInv(o) /\ Typed
      /\ world' = world
      /\ crs[o] \in CRRecords(o)
      /\ Stored(o)
  BY ZenonT(60) DEF CRInv, Typed, Begin
<1>1. /\ c \in CRRecords(o)
      /\ c.phase = crs[o].phase /\ c.finalizer = crs[o].finalizer
      /\ c.values = crs[o].values
  BY ZenonT(60), <1>0 DEF CRRecords
<1>2. /\ crs' = [crs EXCEPT ![o] = c] /\ mem' = [mem EXCEPT ![o] = c]
      /\ pcs' = [pcs EXCEPT ![o] = IF c.phase = "live" THEN "resolve" ELSE "observe"]
      /\ current' = [current EXCEPT ![o] = TRUE]
      /\ UNCHANGED <<ext, found, cleared>>
  BY ZenonT(60) DEF Begin, Goto
<1> HIDE DEF c
<1>3. Typed'
  <2>1. \A q \in Objects : crs'[q] \in CRRecords(q) /\ mem'[q] \in CRRecords(q)
    BY ZenonT(60), <1>0, <1>1, <1>2 DEF Typed
  <2>2. \A q \in Objects : CRRecords(q)' = CRRecords(q)
    BY ZenonT(60), <1>0, SameWorld
  <2> QED
    BY ZenonT(60), <1>0, <1>2, <2>1, <2>2 DEF Typed, CRPCs
<1>4. LocalInv(o)'
  <2>1. /\ crs'[o] = c /\ mem'[o] = c /\ current'[o] = TRUE
        /\ pcs'[o] = IF c.phase = "live" THEN "resolve" ELSE "observe"
    BY ZenonT(60), <1>0, <1>2 DEF Typed
  <2>2. /\ Complete(o, crs[o].values)' <=> Complete(o, crs[o].values)
        /\ Complete(o, mem[o].values)' <=> Complete(o, crs[o].values)
    BY ZenonT(60), <1>0, <1>1, <2>1, SameWorld DEF Complete
  <2>3. /\ Outlives(o)' <=> Outlives(o)
        /\ Stored(o)' <=> Stored(o)
        /\ NoValues(o)' = NoValues(o)
    BY ZenonT(60), <1>0, <1>1, <1>2, <2>1, SameWorld DEF Outlives, Stored
  <2>4. crs[o].phase = "live" \/ crs[o].phase = "deleting"
    BY ZenonT(60), <1>0 DEF Stored
  <2>5. /\ crs[o].finalizer =>
             /\ Stored(o)
             /\ o \notin cleared => Complete(o, crs[o].values)
        /\ crs[o].phase = "deleting" => crs[o].finalizer
        /\ Complete(o, crs[o].values) \/ crs[o].values = NoValues(o)
        /\ o \in ext => crs[o].finalizer \/ Outlives(o)
    BY ZenonT(60), <1>0 DEF LocalInv
  <2>6. /\ pcs'[o] \in {"resolve", "observe"}
        /\ pcs'[o] = "observe" => mem'[o].phase = "deleting"
    BY ZenonT(60), <1>1, <2>1, <2>4
  <2>7. ext' = ext /\ cleared' = cleared /\ Stored(o)
    BY ZenonT(60), <1>0, <1>2
  <2> QED
    BY ZenonT(60), <1>1, <2>1, <2>2, <2>3, <2>5, <2>6, <2>7 DEF LocalInv
<1> QED
  BY ZenonT(60), <1>3, <1>4

\* Typed holds again once the functions keep their domains and the CR o, whose
\* reconcile takes the step, keeps its types.
LEMMA TypedStep ==
    ASSUME Typed, NEW o \in Objects, world' = world, ext' \subseteq Objects,
           NEW c \in CRRecords(o), NEW m \in CRRecords(o), NEW where \in CRPCs,
           NEW f \in BOOLEAN, NEW g \in BOOLEAN,
           crs' = [crs EXCEPT ![o] = c], mem' = [mem EXCEPT ![o] = m],
           pcs' = [pcs EXCEPT ![o] = where], current' = [current EXCEPT ![o] = f],
           found' = [found EXCEPT ![o] = g]
    PROVE  /\ Typed'
           /\ crs'[o] = c /\ mem'[o] = m /\ pcs'[o] = where /\ current'[o] = f
           /\ Complete(o, crs[o].values)' <=> Complete(o, c.values)
           /\ Complete(o, mem[o].values)' <=> Complete(o, m.values)
           /\ Kind(o)' = Kind(o) /\ NoValues(o)' = NoValues(o)
<1>1. \A q \in Objects : crs'[q] \in CRRecords(q) /\ mem'[q] \in CRRecords(q)
  BY ZenonT(60) DEF Typed
<1>2. \A q \in Objects : CRRecords(q)' = CRRecords(q)
  BY ZenonT(60), SameWorld
<1>3. Typed'
  BY ZenonT(60), <1>1, <1>2 DEF Typed
<1>4. crs'[o] = c /\ mem'[o] = m /\ pcs'[o] = where /\ current'[o] = f
  BY ZenonT(60) DEF Typed
<1>5. /\ Complete(o, crs[o].values)' <=> Complete(o, c.values)
      /\ Complete(o, mem[o].values)' <=> Complete(o, m.values)
  BY ZenonT(60), <1>4, SameWorld DEF Complete
<1> QED
  BY ZenonT(60), <1>3, <1>4, <1>5, SameWorld

\* The facts every step of o's reconcile starts from.
LEMMA CRFacts ==
    ASSUME CRInv, NEW o \in Objects
    PROVE  /\ Typed /\ LocalInv(o)
           /\ crs[o] \in CRRecords(o) /\ mem[o] \in CRRecords(o)
           /\ current[o] \in BOOLEAN /\ found[o] \in BOOLEAN /\ pcs[o] \in CRPCs
           /\ crs = [crs EXCEPT ![o] = crs[o]] /\ mem = [mem EXCEPT ![o] = mem[o]]
           /\ current = [current EXCEPT ![o] = current[o]]
           /\ found = [found EXCEPT ![o] = found[o]]
           /\ ext \subseteq Objects
  BY ZenonT(60) DEF CRInv, Typed

\* A step of o's reconcile that ends it, or goes on to a place where nothing
\* more is claimed, and leaves the CR and its copy alone.
LEMMA Quiet ==
    ASSUME CRInv, NEW o \in Objects, pcs[o] # "idle",
           NEW where \in {"finish", "delete"},
           world' = world, UNCHANGED <<crs, mem, current, cleared, found>>,
           pcs' = [pcs EXCEPT ![o] = where], ext' \subseteq Objects,
           o \in ext' => o \in ext \/ crs[o].finalizer
    PROVE  Typed' /\ LocalInv(o)'
<1>1. Typed'
  BY SMTT(60), CRFacts, SameWorld DEF Typed, CRPCs
<1>2. crs'[o] = crs[o] /\ mem'[o] = mem[o] /\ pcs'[o] = where /\ current'[o] = current[o]
  BY ZenonT(60), CRFacts DEF Typed
<1>3. /\ Complete(o, crs[o].values)' <=> Complete(o, crs[o].values)
      /\ Complete(o, mem[o].values)' <=> Complete(o, mem[o].values)
      /\ Kind(o)' = Kind(o) /\ NoValues(o)' = NoValues(o)
  BY ZenonT(60), SameWorld DEF Complete
<1>4. /\ Stored(o)' <=> Stored(o)
      /\ Outlives(o)' <=> Outlives(o)
  BY ZenonT(60), <1>3 DEF Stored, Outlives
<1> QED
  BY ZenonT(60), <1>1, <1>2, <1>3, <1>4, CRFacts DEF LocalInv

\* ResolveReferences leaves "resolve" for "observe" only with every value.
LEMMA ResolveReferencesKeeps ==
    ASSUME CRInv, NEW o \in Objects, ResolveReferences(o)
    PROVE  Typed' /\ LocalInv(o)'
<1> DEFINE c == [mem[o] EXCEPT !.values = Resolved(o)]
<1>0. /\ world' = world /\ pcs[o] = "resolve"
      /\ UNCHANGED <<ext, current, found, cleared>>
  BY ZenonT(60) DEF ResolveReferences
<1>1. /\ c \in CRRecords(o) /\ c.values = Resolved(o)
      /\ c.phase = mem[o].phase /\ c.finalizer = mem[o].finalizer
  BY ZenonT(60), CRFacts, ResolvedValues DEF CRRecords
<1> HIDE DEF c
<1>2. CASE (\A i \in DOMAIN mem[o].values : Resolves(o, i)) /\ current[o]
  <2>1. /\ crs' = [crs EXCEPT ![o] = c] /\ mem' = [mem EXCEPT ![o] = c]
        /\ pcs' = [pcs EXCEPT ![o] = "observe"]
    BY ZenonT(60), <1>2 DEF ResolveReferences, Write, Goto, c
  <2>2. Complete(o, c.values)
    BY ZenonT(60), <1>1, <1>2, ResolvedValues
  <2>3. /\ Typed'
        /\ crs'[o] = c /\ mem'[o] = c /\ pcs'[o] = "observe"
        /\ Complete(o, crs[o].values)' /\ Complete(o, mem[o].values)'
        /\ Kind(o)' = Kind(o)
    BY ZenonT(60), <1>0, <1>1, <2>1, <2>2, CRFacts, TypedStep, "observe" \in CRPCs DEF CRPCs
  <2>4. /\ Stored(o)' <=> Stored(o)
        /\ Outlives(o)' <=> Outlives(o)
    BY ZenonT(60), <1>0, <1>1, <1>2, <2>3, CRFacts DEF Stored, Outlives, LocalInv
  <2> QED
    BY SMTT(60), <1>0, <1>1, <1>2, <2>3, <2>4, CRFacts DEF LocalInv
<1>3. CASE ~ ((\A i \in DOMAIN mem[o].values : Resolves(o, i)) /\ current[o])
  <2>1. UNCHANGED <<crs, mem>> /\ pcs' = [pcs EXCEPT ![o] = "finish"]
    BY ZenonT(60), <1>3 DEF ResolveReferences, Write, Goto
  <2> QED
    BY ZenonT(60), <1>0, <2>1, CRFacts, Quiet
<1> QED
  BY ZenonT(60), <1>2, <1>3

\* The kinds found under their first reference have a first request.
LEMMA FirstRequest ==
    ASSUME NEW kind \in FoundUnderReference
    PROVE  1 \in 1..Len(RequestsTable[kind])
<1>0. RequestsTable[kind] = RequestsOf(kind)
  BY ZenonT(60) DEF FoundUnderReference, RequestsTable, Kinds
<1>1. CASE kind = "NodePool"
  BY SMTT(60), <1>0, <1>1 DEF RequestsOf, NodePoolReferences
<1>2. CASE kind = "Connection"
  BY SMTT(60), <1>0, <1>2 DEF RequestsOf, ConnectionReferences
<1>3. CASE kind = "CryptoKey"
  BY SMTT(60), <1>0, <1>3 DEF RequestsOf, CryptoKeyReferences
<1>4. CASE kind = "CryptoKeyPolicy"
  BY <1>0, <1>4 DEF RequestsOf, CryptoKeyPolicyReferences
<1>5. CASE kind = "BucketPolicy"
  BY SMTT(60), <1>0, <1>5 DEF RequestsOf, BucketPolicyReferences
<1>6. CASE kind = "BucketPolicyMember"
  BY SMTT(60), <1>0, <1>6 DEF RequestsOf, BucketPolicyMemberReferences
<1>7. CASE kind = "ServiceAccountKey"
  BY SMTT(60), <1>0, <1>7 DEF RequestsOf, ServiceAccountKeyReferences
<1>8. CASE kind = "ServiceAccountPolicy"
  <2>1. RequestsOf(kind) = ServiceAccountPolicyReferences
    BY ZenonT(60), <1>8 DEF RequestsOf
  <2> QED
    BY <1>0, <2>1 DEF ServiceAccountPolicyReferences
<1> QED
  BY ZenonT(60), <1>1, <1>2, <1>3, <1>4, <1>5, <1>6, <1>7, <1>8 DEF FoundUnderReference

\* Observe of a deleted CR says "not there" only if the resource is not there:
\* the finalizer guarantees that it is looked for in the right place.
LEMMA ObserveKeeps ==
    ASSUME CRInv, NEW o \in Objects, CRObserve(o)
    PROVE  Typed' /\ LocalInv(o)'
<1> DEFINE deleted == mem[o].phase = "deleting"
           there == /\ o \in ext
                    /\ ~(deleted /\ Kind(o) \in NotThereOnceDeleted)
                    /\ Kind(o) \in FoundUnderReference
                       => \/ world.refs[o][1] = {}
                          \/ mem[o].values[1] # {}
           m == [mem[o] EXCEPT !.observed = @ \/ there]
           where == IF ~deleted THEN "finalize"
                    ELSE IF there THEN "delete" ELSE "unfinalize"
<1>0. /\ world' = world /\ pcs[o] = "observe"
      /\ UNCHANGED <<crs, ext, current, cleared>>
      /\ found' = [found EXCEPT ![o] = there]
      /\ pcs' = [pcs EXCEPT ![o] = where]
      /\ mem' = [mem EXCEPT ![o] = m]
  BY ZenonT(60), CRFacts DEF CRObserve, Goto, CRRecords
<1>1. /\ m \in CRRecords(o) /\ m.values = mem[o].values
      /\ m.phase = mem[o].phase /\ m.finalizer = mem[o].finalizer
  BY ZenonT(60), CRFacts DEF CRRecords
<1>2. ASSUME deleted, ~there, o \in ext
      PROVE  Outlives(o)
  <2>1. CASE Kind(o) \in NotThereOnceDeleted
    BY ZenonT(60), <2>1 DEF Outlives, NotThereOnceDeleted
  <2>2. CASE /\ Kind(o) \in FoundUnderReference
             /\ world.refs[o][1] # {} /\ mem[o].values[1] = {}
    <3>1. 1 \in DOMAIN mem[o].values
      BY ZenonT(60), <2>2, FirstRequest, CRFacts DEF CRRecords, Values, Requests
    <3>2. ~ Complete(o, mem[o].values)
      BY ZenonT(60), <2>2, <3>1 DEF Complete
    <3>3. o \in cleared
      BY ZenonT(60), <1>0, <1>2, <3>2, CRFacts DEF LocalInv
    <3> QED
      BY ZenonT(60), <3>3 DEF Outlives
  <2> QED
    BY ZenonT(60), <1>2, <2>1, <2>2
<1>3. where \in CRPCs /\ there \in BOOLEAN
  BY ZenonT(60) DEF CRPCs
<1>4. crs' = [crs EXCEPT ![o] = crs[o]] /\ current' = [current EXCEPT ![o] = current[o]]
  BY ZenonT(60), <1>0, CRFacts
<1>5. /\ deleted => where \in {"delete", "unfinalize"}
      /\ where = "unfinalize" => deleted /\ ~there
      /\ where # "create"
  BY ZenonT(60)
<1>6. where = "unfinalize" => o \notin ext \/ Outlives(o)
  BY ZenonT(60), <1>2, <1>5
<1>7. where \in {"finalize", "create"} => Complete(o, mem[o].values)
  BY ZenonT(60), <1>0, <1>5, CRFacts DEF LocalInv
<1>8. where # "observe" /\ where # "create"
  BY ZenonT(60)
<1> HIDE DEF m, where, there, deleted
<1>c. PICK c \in CRRecords(o), n \in CRRecords(o), w \in CRPCs, f \in BOOLEAN,
           g \in BOOLEAN :
         c = crs[o] /\ n = m /\ w = where /\ f = current[o] /\ g = there
  BY ZenonT(60), <1>1, <1>3, CRFacts
<1>d. /\ crs' = [crs EXCEPT ![o] = c] /\ mem' = [mem EXCEPT ![o] = n]
      /\ pcs' = [pcs EXCEPT ![o] = w] /\ current' = [current EXCEPT ![o] = f]
      /\ found' = [found EXCEPT ![o] = g] /\ ext' \subseteq Objects /\ world' = world
  BY ZenonT(60), <1>0, <1>4, <1>c, CRFacts
<1>9. /\ Typed'
      /\ crs'[o] = c /\ mem'[o] = n /\ pcs'[o] = w /\ current'[o] = f
      /\ Complete(o, crs[o].values)' <=> Complete(o, c.values)
      /\ Complete(o, mem[o].values)' <=> Complete(o, n.values)
      /\ Kind(o)' = Kind(o) /\ NoValues(o)' = NoValues(o)
  BY ZenonT(60), <1>d, CRFacts, TypedStep
<1>10. /\ Stored(o)' <=> Stored(o)
       /\ Outlives(o)' <=> Outlives(o)
  BY ZenonT(60), <1>c, <1>0, <1>9 DEF Stored, Outlives
<1> QED
  BY SMTT(60), ZenonT(120), <1>c, <1>0, <1>1, <1>6, <1>7, <1>8, <1>9, <1>10,
     CRFacts DEF LocalInv

\* AddFinalizer is reached only with the values, so the CR it finalizes has them.
LEMMA AddFinalizerKeeps ==
    ASSUME CRInv, NEW o \in Objects, AddFinalizer(o)
    PROVE  Typed' /\ LocalInv(o)'
<1> DEFINE next == IF found[o] THEN "finish" ELSE "create"
<1>0. /\ world' = world /\ pcs[o] = "finalize"
      /\ UNCHANGED <<ext, current, found, cleared>>
      /\ next \in {"finish", "create"}
  BY ZenonT(60) DEF AddFinalizer
<1>1. CASE mem[o].finalizer
  <2>1. UNCHANGED <<crs, mem>> /\ pcs' = [pcs EXCEPT ![o] = next]
    BY ZenonT(60), <1>1 DEF AddFinalizer, Goto
  <2> HIDE DEF next
  <2>2. Typed'
    BY SMTT(60), ZenonT(120), <1>0, <2>1, CRFacts, SameWorld DEF Typed, CRPCs
  <2>3. crs'[o] = crs[o] /\ mem'[o] = mem[o] /\ pcs'[o] = next /\ current'[o] = current[o]
    BY ZenonT(60), <1>0, <2>1, CRFacts DEF Typed
  <2>4. /\ Complete(o, crs[o].values)' <=> Complete(o, crs[o].values)
        /\ Complete(o, mem[o].values)' <=> Complete(o, mem[o].values)
        /\ NoValues(o)' = NoValues(o)
    BY ZenonT(60), <1>0, <2>1, SameWorld DEF Complete
  <2>5. (Stored(o)' <=> Stored(o)) /\ (Outlives(o)' <=> Outlives(o))
    BY ZenonT(60), <1>0, <2>1, SameWorld DEF Stored, Outlives
  <2>6. crs[o].finalizer /\ Complete(o, mem[o].values)
    BY ZenonT(60), <1>0, <1>1, CRFacts DEF LocalInv
  <2> QED
    BY ZenonT(60), <1>0, <2>2, <2>3, <2>4, <2>5, <2>6, CRFacts DEF LocalInv
<1>2. CASE ~mem[o].finalizer /\ current[o]
  <2>0. PICK c \in CRRecords(o), m \in CRRecords(o), f \in BOOLEAN, g \in BOOLEAN,
             w \in {"finish", "create"} :
          /\ c = [crs[o] EXCEPT !.finalizer = TRUE]
          /\ m = [mem[o] EXCEPT !.finalizer = TRUE, !.observed = crs[o].observed]
          /\ f = current[o] /\ g = found[o] /\ w = next
    <3>1. /\ [crs[o] EXCEPT !.finalizer = TRUE] \in CRRecords(o)
          /\ [mem[o] EXCEPT !.finalizer = TRUE, !.observed = crs[o].observed]
               \in CRRecords(o)
      BY ZenonT(60), CRFacts DEF CRRecords
    <3> QED
      BY ZenonT(60), <3>1, <1>0, CRFacts
  <2>1. /\ crs' = [crs EXCEPT ![o] = c] /\ mem' = [mem EXCEPT ![o] = m]
        /\ pcs' = [pcs EXCEPT ![o] = w]
    BY ZenonT(60), <1>2, <2>0, CRFacts DEF AddFinalizer, Goto, CRRecords
  <2>2. /\ current' = [current EXCEPT ![o] = f] /\ found' = [found EXCEPT ![o] = g]
        /\ ext' \subseteq Objects /\ w \in CRPCs
    BY ZenonT(60), <1>0, <2>0, CRFacts DEF CRPCs
  <2>3. /\ Typed'
        /\ crs'[o] = c /\ mem'[o] = m /\ pcs'[o] = w /\ current'[o] = f
        /\ Complete(o, crs[o].values)' <=> Complete(o, c.values)
        /\ Complete(o, mem[o].values)' <=> Complete(o, m.values)
        /\ Kind(o)' = Kind(o) /\ NoValues(o)' = NoValues(o)
    BY ZenonT(60), <1>0, <2>1, <2>2, CRFacts, TypedStep
  <2>4. /\ c.values = crs[o].values /\ c.phase = crs[o].phase /\ c.finalizer
        /\ m.values = mem[o].values /\ m.phase = mem[o].phase /\ m.finalizer
    BY ZenonT(60), <2>0, CRFacts DEF CRRecords
  <2>5. crs[o].values = mem[o].values /\ crs[o].phase = mem[o].phase
    BY ZenonT(60), <1>0, <1>2, CRFacts DEF LocalInv
  <2>6. Complete(o, mem[o].values)
    BY ZenonT(60), <1>0, CRFacts DEF LocalInv
  <2>7. (Stored(o)' <=> Stored(o)) /\ (Outlives(o)' <=> Outlives(o))
    BY ZenonT(60), <1>0, <2>3, <2>4 DEF Stored, Outlives
  <2>8. Stored(o)
    BY ZenonT(60), <1>0, <1>2, CRFacts DEF LocalInv
  <2> QED
    BY SMTT(60), <1>0, <1>2, <2>0, <2>3, <2>4, <2>5, <2>6, <2>7, <2>8, CRFacts DEF LocalInv
<1>3. CASE ~mem[o].finalizer /\ ~current[o]
  <2>1. UNCHANGED <<crs, mem>> /\ pcs' = [pcs EXCEPT ![o] = "finish"]
    BY ZenonT(60), <1>3 DEF AddFinalizer, Goto
  <2> QED
    BY ZenonT(60), <1>0, <2>1, CRFacts, Quiet
<1> QED
  BY ZenonT(60), <1>1, <1>2, <1>3

\* A resource is created under a finalizer.
LEMMA CreateKeeps ==
    ASSUME CRInv, NEW o \in Objects, CRCreate(o)
    PROVE  Typed' /\ LocalInv(o)'
<1>1. /\ world' = world /\ pcs[o] = "create" /\ pcs' = [pcs EXCEPT ![o] = "finish"]
      /\ UNCHANGED <<crs, mem, current, found, cleared>>
      /\ ext' = ext \cup {o} \/ ext' = ext
  BY ZenonT(60) DEF CRCreate, Goto
<1>2. crs[o].finalizer /\ ext' \subseteq Objects
  BY ZenonT(60), <1>1, CRFacts DEF LocalInv
<1> QED
  BY ZenonT(60), <1>1, <1>2, Quiet

\* Delete takes resources away and ends the reconcile.
LEMMA DeleteKeeps ==
    ASSUME CRInv, NEW o \in Objects, CRDelete(o)
    PROVE  Typed' /\ LocalInv(o)' /\ ext' \subseteq ext
<1>1. /\ world' = world /\ pcs[o] = "delete" /\ pcs' = [pcs EXCEPT ![o] = "finish"]
      /\ UNCHANGED <<crs, mem, current, found, cleared>>
      /\ ext' \subseteq ext
  BY ZenonT(60) DEF CRDelete, Goto
<1>2. ext' \subseteq Objects
  BY ZenonT(60), <1>1, CRFacts
<1> QED
  BY ZenonT(60), <1>1, <1>2, Quiet

\* The finalizer goes only when the resource is not there.
LEMMA RemoveFinalizerKeeps ==
    ASSUME CRInv, NEW o \in Objects, RemoveFinalizer(o)
    PROVE  Typed' /\ LocalInv(o)'
<1>0. /\ world' = world /\ pcs[o] = "unfinalize"
      /\ UNCHANGED <<ext, current, found, cleared>>
  BY ZenonT(60) DEF RemoveFinalizer
<1>1. CASE current[o]
  <2>0. PICK c \in CRRecords(o), m \in CRRecords(o), f \in BOOLEAN, g \in BOOLEAN :
          /\ c = [NewRecord(o) EXCEPT !.phase = "gone"] /\ m = NewRecord(o)
          /\ f = current[o] /\ g = found[o]
    BY ZenonT(60), NewRecordType, CRFacts
  <2>1. /\ crs' = [crs EXCEPT ![o] = c] /\ mem' = [mem EXCEPT ![o] = m]
        /\ pcs' = [pcs EXCEPT ![o] = "idle"]
    BY ZenonT(60), <1>1, <2>0 DEF RemoveFinalizer, Goto
  <2>2. /\ current' = [current EXCEPT ![o] = f] /\ found' = [found EXCEPT ![o] = g]
        /\ ext' \subseteq Objects /\ "idle" \in CRPCs
    BY ZenonT(60), <1>0, <2>0, CRFacts DEF CRPCs
  <2>3. /\ Typed'
        /\ crs'[o] = c /\ pcs'[o] = "idle"
        /\ Kind(o)' = Kind(o) /\ NoValues(o)' = NoValues(o)
    BY ZenonT(60), <1>0, <2>1, <2>2, CRFacts, TypedStep
  <2>4. ~c.finalizer /\ c.phase = "gone" /\ c.values = NoValues(o)
    BY ZenonT(60), <2>0 DEF NewRecord
  <2>5. o \in ext => Outlives(o)
    BY ZenonT(60), <1>0, CRFacts DEF LocalInv
  <2>6. Outlives(o)' <=> Outlives(o)
    BY ZenonT(60), <1>0, <2>3 DEF Outlives
  <2> QED
    BY ZenonT(60), <1>0, <2>3, <2>4, <2>5, <2>6 DEF LocalInv
<1>2. CASE ~current[o]
  <2>1. UNCHANGED <<crs, mem>> /\ pcs' = [pcs EXCEPT ![o] = "finish"]
    BY ZenonT(60), <1>2 DEF RemoveFinalizer, Goto
  <2> QED
    BY ZenonT(60), <1>0, <2>1, CRFacts, Quiet
<1> QED
  BY ZenonT(60), <1>1, <1>2

\* The status update that ends a reconcile touches only the status.
LEMMA FinishKeeps ==
    ASSUME CRInv, NEW o \in Objects, CRFinish(o)
    PROVE  Typed' /\ LocalInv(o)'
<1>0. /\ world' = world /\ UNCHANGED <<ext, cleared>>
  BY ZenonT(60) DEF CRFinish
<1>1. PICK c \in CRRecords(o), m \in CRRecords(o) :
        /\ c = [crs[o] EXCEPT !.observed = IF current[o] THEN mem[o].observed ELSE @]
        /\ m = NewRecord(o)
  <2>1. [crs[o] EXCEPT !.observed = IF current[o] THEN mem[o].observed ELSE @]
           \in CRRecords(o)
    BY ZenonT(60), CRFacts DEF CRRecords
  <2> QED
    BY ZenonT(60), <2>1, NewRecordType
<1>2. /\ crs' = [crs EXCEPT ![o] = c] /\ mem' = [mem EXCEPT ![o] = m]
      /\ pcs' = [pcs EXCEPT ![o] = "idle"] /\ current' = [current EXCEPT ![o] = TRUE]
      /\ found' = [found EXCEPT ![o] = FALSE]
      /\ ext' \subseteq Objects /\ "idle" \in CRPCs
  BY ZenonT(60), <1>0, <1>1, CRFacts DEF CRFinish, Goto, CRPCs
<1>3. /\ Typed'
      /\ crs'[o] = c /\ pcs'[o] = "idle"
      /\ Complete(o, crs[o].values)' <=> Complete(o, c.values)
      /\ Kind(o)' = Kind(o) /\ NoValues(o)' = NoValues(o)
  BY ZenonT(60), <1>0, <1>2, CRFacts, TypedStep
<1>4. c.finalizer = crs[o].finalizer /\ c.phase = crs[o].phase /\ c.values = crs[o].values
  BY ZenonT(60), <1>1, CRFacts DEF CRRecords
<1>5. (Stored(o)' <=> Stored(o)) /\ (Outlives(o)' <=> Outlives(o))
  BY ZenonT(60), <1>0, <1>3, <1>4 DEF Stored, Outlives
<1> QED
  BY ZenonT(60), <1>0, <1>3, <1>4, <1>5, CRFacts DEF LocalInv

\* People create a CR, delete it or take its values away; the reconcile in
\* progress then holds a stale copy.
LEMMA PeopleKeep ==
    ASSUME CRInv, NEW o \in Objects, People(o)
    PROVE  Typed' /\ LocalInv(o)'
<1>0. world' = world /\ UNCHANGED <<ext, pcs, mem, found>>
  BY ZenonT(60) DEF People, PeopleCreate, PeopleDelete, PeopleReplace
<1>w. world' = world
  BY ZenonT(60), <1>0
<1>1. PICK m \in CRRecords(o), w \in CRPCs, g \in BOOLEAN :
        m = mem[o] /\ w = pcs[o] /\ g = found[o]
  BY ZenonT(60), CRFacts
<1>2. /\ mem' = [mem EXCEPT ![o] = m] /\ pcs' = [pcs EXCEPT ![o] = w]
      /\ found' = [found EXCEPT ![o] = g] /\ ext' \subseteq Objects
  BY ZenonT(60), <1>0, <1>1, CRFacts DEF Typed
<1>3. CASE PeopleCreate(o)
  <2>1. PICK c \in CRRecords(o), f \in BOOLEAN :
          c = [crs[o] EXCEPT !.phase = "live"] /\ f = current[o]
    BY ZenonT(60), CRFacts DEF CRRecords
  <2>2. crs' = [crs EXCEPT ![o] = c] /\ current' = [current EXCEPT ![o] = f]
    BY ZenonT(60), <1>3, <2>1, CRFacts DEF PeopleCreate
  <2>3. /\ Typed'
        /\ crs'[o] = c /\ mem'[o] = m /\ pcs'[o] = w /\ current'[o] = f
        /\ Complete(o, crs[o].values)' <=> Complete(o, c.values)
        /\ Complete(o, mem[o].values)' <=> Complete(o, m.values)
        /\ Kind(o)' = Kind(o) /\ NoValues(o)' = NoValues(o)
    BY ZenonT(60), <1>w, <1>2, <2>2, CRFacts, TypedStep
  <2>4. /\ c.finalizer = crs[o].finalizer /\ c.values = crs[o].values
        /\ c.phase = "live" /\ crs[o].phase = "none"
    BY ZenonT(60), <1>3, <2>1, CRFacts DEF CRRecords, PeopleCreate
  <2>5. ~Stored(o) /\ Stored(o)' /\ (Outlives(o)' <=> Outlives(o))
    BY ZenonT(60), <1>3, <2>3, <2>4 DEF Stored, Outlives, PeopleCreate
  <2>6. ~crs[o].finalizer /\ cleared' = cleared
    BY ZenonT(60), <1>3, <2>5, CRFacts DEF LocalInv, PeopleCreate
  <2> QED
    BY ZenonT(60), <1>0, <1>1, <2>1, <2>3, <2>4, <2>5, <2>6, CRFacts DEF LocalInv
<1>4. CASE PeopleDelete(o)
  <2>1. PICK c \in CRRecords(o) :
          c = IF crs[o].finalizer THEN [crs[o] EXCEPT !.phase = "deleting"]
              ELSE [NewRecord(o) EXCEPT !.phase = "gone"]
    <3>1. [crs[o] EXCEPT !.phase = "deleting"] \in CRRecords(o)
      BY ZenonT(60), CRFacts DEF CRRecords
    <3> QED
      BY ZenonT(60), <3>1, NewRecordType
  <2>2. crs' = [crs EXCEPT ![o] = c] /\ current' = [current EXCEPT ![o] = FALSE]
    BY ZenonT(60), <1>4, <2>1, CRFacts DEF PeopleDelete
  <2>3. /\ Typed'
        /\ crs'[o] = c /\ mem'[o] = m /\ pcs'[o] = w /\ current'[o] = FALSE
        /\ Complete(o, crs[o].values)' <=> Complete(o, c.values)
        /\ Complete(o, mem[o].values)' <=> Complete(o, m.values)
        /\ Kind(o)' = Kind(o) /\ NoValues(o)' = NoValues(o)
    BY ZenonT(60), <1>w, <1>2, <2>2, CRFacts, TypedStep
  <2>4. cleared' = cleared /\ (Outlives(o)' <=> Outlives(o))
    BY ZenonT(60), <1>4, <2>3 DEF PeopleDelete, Outlives
  <2>5. CASE crs[o].finalizer
    <3>1. /\ c.finalizer /\ c.values = crs[o].values /\ c.phase = "deleting"
      BY ZenonT(60), <2>1, <2>5, CRFacts DEF CRRecords
    <3>2. Stored(o)'
      BY ZenonT(60), <2>3, <3>1 DEF Stored
    <3> QED
      BY ZenonT(60), <1>0, <1>1, <2>3, <2>4, <2>5, <3>1, <3>2, CRFacts DEF LocalInv
  <2>6. CASE ~crs[o].finalizer
    <3>1. ~c.finalizer /\ c.values = NoValues(o) /\ c.phase = "gone"
      BY ZenonT(60), <2>1, <2>6 DEF NewRecord
    <3> QED
      BY ZenonT(60), <1>0, <1>1, <2>3, <2>4, <2>6, <3>1, CRFacts DEF LocalInv
  <2> QED
    BY ZenonT(60), <2>5, <2>6
<1>5. CASE PeopleReplace(o)
  <2>1. PICK c \in CRRecords(o) : c = [crs[o] EXCEPT !.values = NoValues(o)]
    BY ZenonT(60), CRFacts, NewRecordType DEF CRRecords
  <2>2. crs' = [crs EXCEPT ![o] = c] /\ current' = [current EXCEPT ![o] = FALSE]
    BY ZenonT(60), <1>5, <2>1, CRFacts DEF PeopleReplace
  <2>3. /\ Typed'
        /\ crs'[o] = c /\ mem'[o] = m /\ pcs'[o] = w /\ current'[o] = FALSE
        /\ Complete(o, mem[o].values)' <=> Complete(o, m.values)
        /\ Kind(o)' = Kind(o) /\ NoValues(o)' = NoValues(o)
    BY ZenonT(60), <1>w, <1>2, <2>2, CRFacts, TypedStep
  <2>4. /\ c.finalizer = crs[o].finalizer /\ c.values = NoValues(o)
        /\ c.phase = crs[o].phase
    BY ZenonT(60), <2>1, CRFacts DEF CRRecords
  <2>5. o \in cleared' /\ Outlives(o)' /\ (Stored(o)' <=> Stored(o))
    BY ZenonT(60), <1>5, <2>3, <2>4 DEF PeopleReplace, Outlives, Stored
  <2> QED
    BY ZenonT(60), <1>0, <1>1, <2>3, <2>4, <2>5, CRFacts DEF LocalInv
<1> QED
  BY ZenonT(60), <1>3, <1>4, <1>5 DEF People

\* The provider process starts again: no reconcile is in progress.
LEMMA RestartKeeps ==
    ASSUME CRInv, CRRestart
    PROVE  CRInv'
<1>1. /\ world' = world /\ UNCHANGED <<crs, ext, cleared>>
      /\ pcs' = [o \in Objects |-> "idle"] /\ mem' = [o \in Objects |-> NewRecord(o)]
      /\ current' = [o \in Objects |-> TRUE] /\ found' = [o \in Objects |-> FALSE]
  BY ZenonT(60) DEF CRRestart
<1>2. Typed /\ \A o \in Objects : LocalInv(o)
  BY ZenonT(60) DEF CRInv
<1>3. Typed'
  <2>1. \A o \in Objects : crs'[o] \in CRRecords(o)' /\ mem'[o] \in CRRecords(o)'
    BY ZenonT(60), <1>1, <1>2, SameWorld, NewRecordType DEF Typed
  <2>2. mem' = [o \in Objects |-> mem'[o]] /\ crs' = [o \in Objects |-> crs'[o]]
    BY ZenonT(60), <1>1, <1>2 DEF Typed
  <2> QED
    BY ZenonT(60), <1>1, <1>2, <2>1, <2>2 DEF Typed, CRPCs
<1>4. ASSUME NEW o \in Objects
      PROVE  LocalInv(o)'
  <2>1. /\ Complete(o, crs[o].values)' <=> Complete(o, crs[o].values)
        /\ NoValues(o)' = NoValues(o)
        /\ (Stored(o)' <=> Stored(o)) /\ (Outlives(o)' <=> Outlives(o))
    BY ZenonT(60), <1>1, SameWorld DEF Complete, Stored, Outlives
  <2>2. pcs'[o] = "idle"
    BY ZenonT(60), <1>1
  <2> QED
    BY ZenonT(60), <1>1, <1>2, <2>1, <2>2 DEF LocalInv
<1> QED
  BY ZenonT(60), <1>3, <1>4 DEF CRInv

\* A step changes the state of one CR only, apart from what goes with a deleted
\* resource.
LEMMA InvStep ==
    ASSUME CRInv, [CRNext]_crVars
    PROVE  CRInv'
<1>1. ASSUME NEW o \in Objects, CRReconcile(o) \/ People(o) \/ CRCallFails(o)
      PROVE  CRInv'
  <2>1. Typed' /\ LocalInv(o)'
    <3>1. CASE CRReconcile(o)
      BY ZenonT(60), <3>1, BeginKeeps, ResolveReferencesKeeps, ObserveKeeps,
         AddFinalizerKeeps,
         CreateKeeps, DeleteKeeps, RemoveFinalizerKeeps, FinishKeeps DEF CRReconcile
    <3>2. CASE CRCallFails(o)
      <4>1. /\ world' = world /\ pcs' = [pcs EXCEPT ![o] = "finish"]
            /\ UNCHANGED <<crs, ext, mem, current, found, cleared>> /\ pcs[o] # "idle"
        BY ZenonT(60), <3>2 DEF CRCallFails, Goto
      <4> QED
        BY ZenonT(60), <4>1, CRFacts, Quiet
    <3> QED
      BY ZenonT(60), <1>1, <3>1, <3>2, PeopleKeep
  <2>2. ASSUME NEW p \in Objects, p # o
        PROVE  LocalInv(p)'
    <3>1. CASE CRReconcile(o)
      <4>1. Begin(o) \/ ResolveReferences(o) \/ CRObserve(o) \/ AddFinalizer(o)
              => /\ world' = world /\ crs'[p] = crs[p] /\ mem'[p] = mem[p]
                 /\ pcs'[p] = pcs[p] /\ current'[p] = current[p] /\ ext' = ext
                 /\ cleared' = cleared
        BY SMTT(60), ZenonT(120), <2>2, CRFacts DEF Begin, ResolveReferences, Write,
           CRObserve, AddFinalizer,
                           Goto, Typed
      <4>2. CRCreate(o) \/ CRDelete(o) \/ RemoveFinalizer(o) \/ CRFinish(o)
              => /\ world' = world /\ crs'[p] = crs[p] /\ mem'[p] = mem[p]
                 /\ pcs'[p] = pcs[p] /\ current'[p] = current[p]
                 /\ p \in ext' => p \in ext
                 /\ cleared' = cleared
        BY SMTT(60), <2>2, CRFacts DEF CRCreate, CRDelete, RemoveFinalizer, CRFinish,
           Goto, Typed
      <4> QED
        BY ZenonT(60), <3>1, <4>1, <4>2, Others DEF CRReconcile
    <3>2. CASE People(o) \/ CRCallFails(o)
      <4>1. /\ world' = world /\ crs'[p] = crs[p] /\ mem'[p] = mem[p]
            /\ pcs'[p] = pcs[p] /\ current'[p] = current[p] /\ ext' = ext
            /\ p \in cleared' <=> p \in cleared
        BY ZenonT(60), <2>2, <3>2, CRFacts DEF People, PeopleCreate, PeopleDelete,
           PeopleReplace,
                                 CRCallFails, Goto, Typed
      <4> QED
        BY ZenonT(60), <4>1, Others
    <3> QED
      BY ZenonT(60), <1>1, <3>1, <3>2
  <2> QED
    BY ZenonT(60), <2>1, <2>2 DEF CRInv
<1>2. CASE UNCHANGED crVars
  <2>1. /\ world' = world
        /\ UNCHANGED <<crs, mem, pcs, current, found, ext, cleared>>
    BY ZenonT(60), <1>2 DEF crVars
  <2>2. Typed'
    BY ZenonT(60), <2>1, SameWorld DEF CRInv, Typed
  <2>3. \A p \in Objects : LocalInv(p)'
    BY ZenonT(60), <2>1, Others
  <2> QED
    BY ZenonT(60), <2>2, <2>3 DEF CRInv
<1> QED
  BY ZenonT(60), <1>1, <1>2, RestartKeeps DEF CRNext

\* The induction: CRInv holds throughout.
THEOREM Invariance == CRSpec => []CRInv
<1>1. CRInit => CRInv
  BY ZenonT(60), InitInv
<1>2. CRInv /\ [CRNext]_crVars => CRInv'
  BY ZenonT(60), InvStep
<1> QED
  BY <1>1, <1>2, PTL DEF CRSpec

\* A CR with a finalizer has its references resolved, whatever the CRs are and
\* however they refer to each other: the deletion of a CR, which resolves
\* nothing, finds the resource where it was created.
THEOREM Resolution == CRSpec => []FinalizerMeansResolved
<1>1. CRInv => FinalizerMeansResolved
  BY ZenonT(60) DEF CRInv, LocalInv, FinalizerMeansResolved
<1> QED
  BY <1>1, Invariance, PTL

\* ResolveReferences stores all the values of a CR or none.
THEOREM Together == CRSpec => []AllOrNone
<1>1. CRInv => AllOrNone
  BY ZenonT(60) DEF CRInv, LocalInv, AllOrNone
<1> QED
  BY <1>1, Invariance, PTL

\* No CR goes before its resource, except those of Cloud KMS and those whose
\* values were taken out of their spec.
THEOREM NothingLeft == CRSpec => []NoOrphan
<1>1. CRInv => NoOrphan
  BY ZenonT(60) DEF CRInv, LocalInv, Typed, NoOrphan
<1> QED
  BY <1>1, Invariance, PTL

\* Every request names one of the extractors.
LEMMA ExtractorNames ==
    ASSUME NEW kind \in Kinds, NEW i \in 1..Len(RequestsTable[kind])
    PROVE  RequestsTable[kind][i].by \in
              {"NetworkURL", "SubnetworkURL", "ClusterURL", "KeyRingRRN", "CryptoKeyRRN",
               "ServiceAccountRRN", "ServiceAccountMemberName", "ExternalName"}
<1>0. RequestsTable[kind] = RequestsOf(kind)
  BY ZenonT(60) DEF RequestsTable
<1> USE DEF To, RequestsOf
<1>1. CASE kind \in {"GlobalAddress", "Subnetwork", "Firewall", "Router", "CloudSQLInstance"}
  BY SMTT(60), <1>0, <1>1 DEF GlobalAddressReferences, SubnetworkReferences,
     FirewallReferences,
                    RouterReferences, CloudSQLInstanceReferences
<1>2. CASE kind \in {"NodePool", "CryptoKey", "Topic", "ServiceAccountKey"}
  BY SMTT(60), <1>0, <1>2 DEF NodePoolReferences, CryptoKeyReferences, TopicReferences,
                    ServiceAccountKeyReferences, ServiceAccountReference
<1>3. CASE kind = "Cluster"
  BY SMTT(60), <1>0, <1>3 DEF ClusterReferences
<1>4. CASE kind = "Connection"
  BY SMTT(60), <1>0, <1>4 DEF ConnectionReferences
<1>5. CASE kind = "CryptoKeyPolicy"
  BY SMTT(60), <1>0, <1>5 DEF CryptoKeyPolicyReferences
<1>6. CASE kind \in {"BucketPolicy", "BucketPolicyMember"}
  BY SMTT(60), <1>0, <1>6 DEF BucketPolicyReferences, BucketPolicyMemberReferences
<1>7. CASE kind = "ServiceAccountPolicy"
  BY SMTT(60), <1>0, <1>7 DEF ServiceAccountPolicyReferences, ServiceAccountReference
<1>8. CASE kind \in {"Network", "KeyRing", "Bucket", "ServiceAccount", ""}
  <2>1. RequestsOf(kind) = <<>>
    BY ZenonT(30), <1>8
  <2> QED
    BY SMTT(60), <1>0, <2>1
<1> QED
  BY ZenonT(30), <1>1, <1>2, <1>3, <1>4, <1>5, <1>6, <1>7, <1>8 DEF Kinds

\* What ResolveReferences takes from a status was reported.
LEMMA ResolvedFromStatus ==
    ASSUME CRInv, NEW o \in Objects, FromStatus(o, mem[o].values),
           \A i \in DOMAIN mem[o].values : Resolves(o, i)
    PROVE  FromStatus(o, Resolved(o))
<1> SUFFICES ASSUME NEW i \in DOMAIN Resolved(o), NEW t \in Resolved(o)[i],
                    Requests(o)[i].by # "ExternalName"
             PROVE  Reported(t)
  BY ZenonT(60) DEF FromStatus
<1>1. i \in DOMAIN mem[o].values /\ Resolved(o)[i] = mem[o].values[i] \cup Chosen(o, i)
  BY ZenonT(60) DEF Resolved
<1>2. CASE t \in mem[o].values[i]
  BY ZenonT(60), <1>1, <1>2 DEF FromStatus
<1>3. CASE t \in Chosen(o, i)
  <2>1. Extract(Requests(o)[i].by, crs[t])
    BY ZenonT(60), <1>1, <1>3 DEF Resolves
  <2>2. Kind(o) \in Kinds
    BY ZenonT(60), WorldsAssumption DEF CRInv, Typed, Kind
  <2>3. i \in 1..Len(RequestsTable[Kind(o)])
    BY ZenonT(60), <1>1, CRFacts DEF CRRecords, Values, Requests
  <2>4. Requests(o)[i].by \in
              {"NetworkURL", "SubnetworkURL", "ClusterURL", "KeyRingRRN", "CryptoKeyRRN",
               "ServiceAccountRRN", "ServiceAccountMemberName", "ExternalName"}
    BY ZenonT(60), <2>2, <2>3, ExtractorNames DEF Requests
  <2>5. crs[t].observed
    BY ZenonT(60), <2>1, <2>4 DEF Extract, NetworkURL, SubnetworkURL, ClusterURL,
       KeyRingRRN,
                      CryptoKeyRRN, ServiceAccountRRN, ServiceAccountMemberName
  <2> QED
    BY ZenonT(60), <2>5 DEF Reported
<1> QED
  BY ZenonT(60), <1>1, <1>2, <1>3

\* Values that were known to come from a status are still known to, after a
\* step that forgets no report.
LEMMA FromStatusKept ==
    ASSUME ReferentsInv, world' = world, NEW p \in Objects,
           \A t \in Objects : Reported(t) => Reported(t)',
           crs'[p].values \in {crs[p].values, NoValues(p)},
           mem'[p].values \in {crs[p].values, mem[p].values, NoValues(p)},
           uses'[p] \in {uses[p], mem[p].values, NoValues(p)}
    PROVE  /\ uses'[p] \in Values(p)'
           /\ FromStatus(p, crs[p].values)'
           /\ FromStatus(p, mem[p].values)'
           /\ FromStatus(p, uses[p])'
<1> DEFINE Known(vals) == \A i \in DOMAIN vals : \A t \in vals[i] :
                             Requests(p)[i].by # "ExternalName" => Reported(t)'
<1>1. /\ crs[p].values \in Values(p) /\ mem[p].values \in Values(p)
      /\ uses[p] \in Values(p) /\ NoValues(p) \in Values(p)
  BY ZenonT(60), CRFacts, NewRecordType DEF ReferentsInv, CRRecords
<1>2. ASSUME NEW vals \in Values(p), FromStatus(p, vals)
      PROVE  Known(vals)
  BY ZenonT(60), <1>2 DEF FromStatus, Values
<1>3. FromStatus(p, NoValues(p))
  BY ZenonT(60) DEF FromStatus, NoValues
<1>4. /\ FromStatus(p, crs[p].values) /\ FromStatus(p, mem[p].values)
      /\ FromStatus(p, uses[p])
  BY ZenonT(60) DEF ReferentsInv
<1>5. Known(crs[p].values) /\ Known(mem[p].values) /\ Known(uses[p]) /\ Known(NoValues(p))
  BY ZenonT(60), <1>1, <1>2, <1>3, <1>4
<1> HIDE DEF Known
<1>6. Known(crs'[p].values) /\ Known(mem'[p].values) /\ Known(uses'[p])
  BY ZenonT(60), <1>5
<1>7. Requests(p)' = Requests(p)
  BY ZenonT(60), SameWorld
<1>8. /\ FromStatus(p, crs[p].values)' /\ FromStatus(p, mem[p].values)'
      /\ FromStatus(p, uses[p])'
  BY ZenonT(60), <1>6, <1>7 DEF Known, FromStatus
<1>9. Values(p)' = Values(p)
  BY ZenonT(60), <1>7 DEF Values
<1> QED
  BY ZenonT(60), <1>1, <1>8, <1>9

\* No step forgets that a resource was reported: the status of a CR is only
\* written from a copy that is fresh, and a CR that is gone stays so.
LEMMA ReportedStays ==
    ASSUME ReferentsInv, [CRNext]_crVars, NEW t \in Objects, Reported(t)
    PROVE  Reported(t)'
<1> USE DEF Reported
<1>0. CRInv /\ Typed /\ crs[t] \in CRRecords(t) /\ mem[t] \in CRRecords(t) /\ LocalInv(t)
  BY ZenonT(60), CRFacts DEF ReferentsInv
<1>i. (pcs[t] # "idle" /\ current[t] /\ crs[t].observed) => mem[t].observed
  BY ZenonT(60) DEF ReferentsInv
<1>1. ASSUME NEW o \in Objects, CRReconcile(o) \/ People(o) \/ CRCallFails(o), crs'[t] # crs[t]
      PROVE  Reported(t)'
  <2>0. crs = [q \in Objects |-> crs[q]]
    BY ZenonT(60), <1>0 DEF Typed
  <2>1. CASE Begin(o)
    BY ZenonT(60), <1>0, <1>1, <2>0, <2>1 DEF Begin, CRRecords
  <2>2. CASE ResolveReferences(o)
    <3>1. /\ current[o] /\ pcs[o] = "resolve"
          /\ crs' = [crs EXCEPT ![o] = [mem[o] EXCEPT !.values = Resolved(o)]]
      BY ZenonT(60), <1>1, <2>2 DEF ResolveReferences, Write
    <3>2. o = t
      BY ZenonT(60), <1>1, <2>0, <3>1
    <3>3. crs'[t].observed = mem[t].observed /\ crs'[t].phase = mem[t].phase
      BY ZenonT(60), <1>0, <2>0, <3>1, <3>2 DEF CRRecords
    <3>4. mem[t].phase = crs[t].phase
      BY ZenonT(60), <1>0, <3>1, <3>2 DEF LocalInv
    <3> QED
      BY ZenonT(60), <1>i, <3>1, <3>2, <3>3, <3>4
  <2>3. CASE AddFinalizer(o)
    BY SMTT(60), <1>0, <1>1, <2>0, <2>3 DEF AddFinalizer, CRRecords
  <2>4. CASE RemoveFinalizer(o)
    BY ZenonT(60), <1>0, <1>1, <2>0, <2>4 DEF RemoveFinalizer, NewRecord
  <2>5. CASE CRFinish(o)
    BY ZenonT(60), <1>0, <1>1, <1>i, <2>0, <2>5 DEF CRFinish, CRRecords
  <2>6. CASE PeopleCreate(o)
    BY ZenonT(60), <1>0, <1>1, <2>0, <2>6 DEF PeopleCreate, CRRecords
  <2>7. CASE PeopleDelete(o)
    BY ZenonT(60), <1>0, <1>1, <2>0, <2>7 DEF PeopleDelete, CRRecords, NewRecord
  <2>8. CASE PeopleReplace(o)
    BY ZenonT(60), <1>0, <1>1, <2>0, <2>8 DEF PeopleReplace, CRRecords
  <2>9. CASE CRObserve(o) \/ CRCreate(o) \/ CRDelete(o) \/ CRCallFails(o)
    BY ZenonT(60), <1>1, <2>9 DEF CRObserve, CRCreate, CRDelete, CRCallFails
  <2> QED
    BY ZenonT(60), <1>1, <2>1, <2>2, <2>3, <2>4, <2>5, <2>6, <2>7, <2>8, <2>9
       DEF CRReconcile, People
<1>2. CASE CRRestart \/ UNCHANGED crVars
  BY ZenonT(60), <1>2 DEF CRRestart, crVars
<1> QED
  BY ZenonT(60), <1>1, <1>2 DEF CRNext

\* The values of o, its copy's and its resource's, after a step of its own.
LEMMA OwnReferents ==
    ASSUME ReferentsInv, [CRNext]_crVars, NEW o \in Objects,
           CRReconcile(o) \/ People(o) \/ CRCallFails(o)
    PROVE  /\ uses'[o] \in Values(o)'
           /\ FromStatus(o, crs[o].values)'
           /\ FromStatus(o, mem[o].values)'
           /\ FromStatus(o, uses[o])'
           /\ (pcs'[o] # "idle" /\ current'[o] /\ crs'[o].observed) => mem'[o].observed
<1>0. /\ CRInv /\ Typed /\ crs[o] \in CRRecords(o) /\ mem[o] \in CRRecords(o)
      /\ current[o] \in BOOLEAN /\ uses = [q \in Objects |-> uses[q]]
      /\ (pcs[o] # "idle" /\ current[o] /\ crs[o].observed) => mem[o].observed
  BY ZenonT(60), CRFacts DEF ReferentsInv
<1>t. /\ crs = [q \in Objects |-> crs[q]] /\ mem = [q \in Objects |-> mem[q]]
      /\ pcs \in [Objects -> CRPCs] /\ current \in [Objects -> BOOLEAN]
  BY ZenonT(60), <1>0 DEF Typed
<1>w. world' = world
  BY ZenonT(60) DEF CRReconcile, Begin, ResolveReferences, CRObserve, AddFinalizer,
     CRCreate, CRDelete,
         RemoveFinalizer, CRFinish, People, PeopleCreate, PeopleDelete, PeopleReplace, CRCallFails
<1>r. \A t \in Objects : Reported(t) => Reported(t)'
  BY ZenonT(60), ReportedStays
<1>1. CASE /\ crs'[o].values \in {crs[o].values, NoValues(o)}
           /\ mem'[o].values \in {crs[o].values, mem[o].values, NoValues(o)}
           /\ uses'[o] \in {uses[o], mem[o].values, NoValues(o)}
           /\ (pcs'[o] # "idle" /\ current'[o] /\ crs'[o].observed) => mem'[o].observed
  BY ZenonT(60), <1>1, <1>w, <1>r, FromStatusKept
<1>2. CASE Begin(o)
  BY ZenonT(60), <1>0, <1>t, <1>1, <1>2 DEF Begin, CRRecords
<1>3. CASE ResolveReferences(o)
  <2>1. CASE (\A i \in DOMAIN mem[o].values : Resolves(o, i)) /\ current[o]
    <3>1. /\ crs'[o] = [mem[o] EXCEPT !.values = Resolved(o)]
          /\ mem'[o] = crs'[o] /\ uses' = uses
      BY ZenonT(60), <1>t, <1>3, <2>1 DEF ResolveReferences, Write
    <3>2. crs'[o].values = Resolved(o) /\ mem'[o].values = Resolved(o)
      BY ZenonT(60), <1>0, <3>1 DEF CRRecords
    <3>3. Resolved(o) \in Values(o) /\ FromStatus(o, Resolved(o))
      BY ZenonT(60), <1>0, <2>1, ResolvedFromStatus, ResolvedValues DEF ReferentsInv
    <3>4. Requests(o)' = Requests(o) /\ Values(o)' = Values(o)
      BY ZenonT(60), <1>w, SameWorld DEF Values
    <3>5. FromStatus(o, crs[o].values)' /\ FromStatus(o, mem[o].values)'
      BY ZenonT(60), <1>r, <3>2, <3>3, <3>4 DEF FromStatus, Values
    <3>6. uses'[o] \in Values(o)' /\ FromStatus(o, uses[o])'
      <4>1. uses[o] \in Values(o) /\ FromStatus(o, uses[o])
        BY ZenonT(60) DEF ReferentsInv
      <4> QED
        BY ZenonT(60), <1>r, <3>1, <3>4, <4>1 DEF FromStatus, Values
    <3> QED
      BY ZenonT(60), <3>1, <3>5, <3>6
  <2>2. CASE ~((\A i \in DOMAIN mem[o].values : Resolves(o, i)) /\ current[o])
    <3>1. UNCHANGED <<crs, mem, uses, current>> /\ pcs[o] # "idle"
      BY ZenonT(60), <1>3, <2>2 DEF ResolveReferences, Write
    <3> QED
      BY ZenonT(60), <1>0, <1>1, <3>1
  <2> QED
    BY ZenonT(60), <2>1, <2>2
<1>4. CASE CRObserve(o)
  BY ZenonT(60), <1>0, <1>t, <1>1, <1>4 DEF CRObserve, CRRecords
<1>5. CASE AddFinalizer(o)
  <2>0. UNCHANGED <<uses, current>> /\ pcs[o] # "idle"
    BY ZenonT(60), <1>5 DEF AddFinalizer
  <2>1. CASE UNCHANGED <<crs, mem>>
    BY ZenonT(60), <1>0, <1>1, <2>0, <2>1
  <2>2. CASE /\ crs' = [crs EXCEPT ![o].finalizer = TRUE]
             /\ mem' = [mem EXCEPT ![o] = [@ EXCEPT !.finalizer = TRUE,
                                                    !.observed = crs[o].observed]]
    <3>1. /\ crs'[o].values = crs[o].values /\ mem'[o].values = mem[o].values
          /\ crs'[o].observed = crs[o].observed /\ mem'[o].observed = crs[o].observed
      BY ZenonT(60), <1>0, <1>t, <2>2 DEF CRRecords
    <3> QED
      BY ZenonT(60), <1>1, <2>0, <3>1
  <2> QED
    BY ZenonT(60), <1>5, <2>1, <2>2 DEF AddFinalizer
<1>6. CASE CRCreate(o)
  BY ZenonT(60), <1>0, <1>t, <1>1, <1>6 DEF CRCreate, Goto
<1>7. CASE CRDelete(o)
  BY ZenonT(60), <1>0, <1>t, <1>1, <1>7 DEF CRDelete, Goto
<1>8. CASE RemoveFinalizer(o)
  <2>1. CASE current[o]
    BY ZenonT(60), <1>0, <1>t, <1>1, <1>8, <2>1 DEF RemoveFinalizer, Goto, NewRecord
  <2>2. CASE ~current[o]
    BY ZenonT(60), <1>0, <1>t, <1>1, <1>8, <2>2 DEF RemoveFinalizer
  <2> QED
    BY ZenonT(60), <2>1, <2>2
<1>9. CASE CRFinish(o)
  BY ZenonT(60), <1>0, <1>t, <1>1, <1>9 DEF CRFinish, Goto, NewRecord, CRRecords
<1>10. CASE People(o)
  <2>1. UNCHANGED <<uses, mem>>
    BY ZenonT(60), <1>10 DEF People, PeopleCreate, PeopleDelete, PeopleReplace
  <2>2. CASE PeopleCreate(o)
    BY ZenonT(60), <1>0, <1>t, <1>1, <2>1, <2>2 DEF PeopleCreate, CRRecords
  <2>3. CASE PeopleDelete(o)
    BY ZenonT(60), <1>0, <1>t, <1>1, <2>1, <2>3 DEF PeopleDelete, CRRecords, NewRecord
  <2>4. CASE PeopleReplace(o)
    BY ZenonT(60), <1>0, <1>t, <1>1, <2>1, <2>4 DEF PeopleReplace, CRRecords
  <2> QED
    BY ZenonT(60), <1>10, <2>2, <2>3, <2>4 DEF People
<1>11. CASE CRCallFails(o)
  BY ZenonT(60), <1>0, <1>1, <1>11 DEF CRCallFails
<1> QED
  BY ZenonT(60), <1>2, <1>3, <1>4, <1>5, <1>6, <1>7, <1>8, <1>9, <1>10, <1>11
     DEF CRReconcile

\* The invariant is inductive.
LEMMA ReferentsStep ==
    ASSUME ReferentsInv, [CRNext]_crVars
    PROVE  ReferentsInv'
<1>0. CRInv /\ Typed /\ CRInv' /\ uses = [q \in Objects |-> uses[q]]
  BY ZenonT(60), InvStep DEF ReferentsInv, CRInv
<1>r. \A t \in Objects : Reported(t) => Reported(t)'
  BY ZenonT(60), ReportedStays
<1> DEFINE Referents(p) == /\ uses'[p] \in Values(p)'
                           /\ FromStatus(p, crs[p].values)'
                           /\ FromStatus(p, mem[p].values)'
                           /\ FromStatus(p, uses[p])'
                           /\ (pcs'[p] # "idle" /\ current'[p] /\ crs'[p].observed)
                                 => mem'[p].observed
<1>1. ASSUME NEW o \in Objects, CRReconcile(o) \/ People(o) \/ CRCallFails(o)
      PROVE  uses' = [q \in Objects |-> uses'[q]] /\ \A p \in Objects : Referents(p)
  <2>1. uses' = [q \in Objects |-> uses'[q]]
    <3>1. CASE CRCreate(o) \/ CRDelete(o)
      BY ZenonT(60), <1>0, <3>1 DEF CRCreate, CRDelete
    <3>2. CASE ~(CRCreate(o) \/ CRDelete(o))
      BY ZenonT(60), <1>0, <1>1, <3>2 DEF CRReconcile, Begin, ResolveReferences,
         CRObserve, AddFinalizer,
         RemoveFinalizer, CRFinish, People, PeopleCreate, PeopleDelete, PeopleReplace, CRCallFails
    <3> QED
      BY ZenonT(60), <3>1, <3>2
  <2>2. Referents(o)
    BY ZenonT(60), <1>1, OwnReferents
  <2>3. ASSUME NEW p \in Objects, p # o
        PROVE  Referents(p)
    <3>1. /\ world' = world /\ crs'[p] = crs[p] /\ mem'[p] = mem[p]
          /\ pcs'[p] = pcs[p] /\ current'[p] = current[p]
      <4>1. CASE Begin(o) \/ ResolveReferences(o) \/ CRObserve(o) \/ AddFinalizer(o)
        BY ZenonT(60), <1>0, <2>3, <4>1 DEF Begin, ResolveReferences, Write, CRObserve,
           AddFinalizer,
                                Goto, Typed
      <4>2. CASE CRCreate(o) \/ CRDelete(o) \/ RemoveFinalizer(o) \/ CRFinish(o)
        BY ZenonT(60), <1>0, <2>3, <4>2 DEF CRCreate, CRDelete, RemoveFinalizer, CRFinish,
           Goto, Typed
      <4>3. CASE People(o) \/ CRCallFails(o)
        BY ZenonT(60), <1>0, <2>3, <4>3 DEF People, PeopleCreate, PeopleDelete,
           PeopleReplace,
                                CRCallFails, Goto, Typed
      <4> QED
        BY ZenonT(60), <1>1, <4>1, <4>2, <4>3 DEF CRReconcile
    <3>2. uses'[p] \in {uses[p], NoValues(p)}
      <4>1. CASE CRCreate(o)
        BY ZenonT(60), <1>0, <2>3, <4>1 DEF CRCreate
      <4>2. CASE CRDelete(o)
        BY ZenonT(60), <1>0, <2>3, <4>2 DEF CRDelete
      <4>3. CASE ~(CRCreate(o) \/ CRDelete(o))
        BY ZenonT(60), <1>0, <1>1, <4>3 DEF CRReconcile, Begin, ResolveReferences,
           CRObserve, AddFinalizer,
           RemoveFinalizer, CRFinish, People, PeopleCreate, PeopleDelete, PeopleReplace,
           CRCallFails
      <4> QED
        BY ZenonT(60), <4>1, <4>2, <4>3
    <3>3. (pcs'[p] # "idle" /\ current'[p] /\ crs'[p].observed) => mem'[p].observed
      BY ZenonT(60), <3>1 DEF ReferentsInv
    <3> QED
      BY ZenonT(60), <1>r, <3>1, <3>2, <3>3, FromStatusKept
  <2> QED
    BY ZenonT(60), <2>1, <2>2, <2>3
<1>2. CASE CRRestart \/ UNCHANGED crVars
  <2>1. /\ world' = world /\ UNCHANGED <<crs, uses>>
        /\ \A p \in Objects : /\ mem'[p].values \in {mem[p].values, NoValues(p)}
                              /\ pcs'[p] = "idle" \/ (/\ pcs'[p] = pcs[p] /\ mem'[p] = mem[p]
                                                      /\ current'[p] = current[p])
    <3>1. CASE CRRestart
      BY ZenonT(60), <3>1 DEF CRRestart, NewRecord
    <3>2. CASE UNCHANGED crVars
      BY ZenonT(60), <3>2 DEF crVars
    <3> QED
      BY ZenonT(60), <1>2, <3>1, <3>2
  <2>2. ASSUME NEW p \in Objects PROVE Referents(p)
    BY ZenonT(60), <1>r, <2>1, FromStatusKept DEF ReferentsInv
  <2> QED
    BY ZenonT(60), <1>0, <2>1, <2>2 DEF ReferentsInv
<1> QED
  BY ZenonT(60), <1>0, <1>1, <1>2 DEF CRNext, ReferentsInv

\* A resource is created only after the resources it refers to, by what GCP
\* reported of them, were observed, however the controllers interleave.
THEOREM AfterReferents == CRSpec => []CreatedAfterReferents
<1>1. CRInit => ReferentsInv
  <2> SUFFICES ASSUME CRInit PROVE ReferentsInv
    OBVIOUS
  <2>1. ASSUME NEW o \in Objects
        PROVE  /\ crs[o].values = NoValues(o) /\ mem[o].values = NoValues(o)
               /\ uses[o] = NoValues(o) /\ pcs[o] = "idle"
    BY ZenonT(60) DEF CRInit, NewRecord
  <2>2. ASSUME NEW o \in Objects PROVE FromStatus(o, NoValues(o))
    BY ZenonT(60) DEF FromStatus, NoValues
  <2>3. uses = [o \in Objects |-> uses[o]]
    BY ZenonT(60) DEF CRInit
  <2> QED
    BY ZenonT(60), <2>1, <2>2, <2>3, InitInv, NewRecordType DEF ReferentsInv
<1>2. ReferentsInv /\ [CRNext]_crVars => ReferentsInv'
  BY ReferentsStep
<1>3. ReferentsInv => CreatedAfterReferents
  BY ZenonT(60) DEF ReferentsInv, CRInv, Typed, CreatedAfterReferents, FromStatus, Reported
<1> QED
  BY <1>1, <1>2, <1>3, PTL DEF CRSpec
=============================================================================
