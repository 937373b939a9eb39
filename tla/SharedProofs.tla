---------------------------- MODULE SharedProofs ----------------------------
(***************************************************************************)
(* Proofs about the two objects that several controllers share: the        *)
(* ProviderConfig that managed resources name, and the IAM policy of a     *)
(* bucket that several CRs write.                                          *)
(***************************************************************************)
EXTENDS ProviderConfig, IAMPolicy, TLAPS

(***************************************************************************)
(* ProviderConfig, for every set of CRs.                                   *)
(***************************************************************************)

\* What ConfigAct leaves of the config.
LEMMA Acted ==
  ASSUME config \in Objects, ConfigAct
  PROVE  config' \in {config, [config EXCEPT !.finalizer = TRUE], Object("gone")} \cap Objects
<1>a. Object("gone") \in Objects
  BY ZenonT(60) DEF Objects, Object
<1>b. [config EXCEPT !.finalizer = TRUE] \in Objects
  BY ZenonT(60) DEF Objects
<1>1. {config, [config EXCEPT !.finalizer = TRUE], Object("gone")} \subseteq Objects
  BY ZenonT(60), <1>a, <1>b
<1>2. CASE ~fresh \/ (copy.phase = "deleting" /\ inUse)
  BY ZenonT(60), <1>1, <1>2 DEF ConfigAct
<1>3. CASE fresh /\ ~(copy.phase = "deleting" /\ inUse)
  BY ZenonT(60), <1>1, <1>3 DEF ConfigAct
<1>4. QED
  BY ZenonT(60), <1>2, <1>3

\* A reconcile that goes on or ends keeps the types of its own state.
LEMMA GotoTypes ==
  ASSUME ConfigTypeOK, NEW c \in ManagedCRs,
         NEW l \in {"idle", "auth", "get", "connected", "create"}, Goto(c, l)
  PROVE  /\ pcs' \in [ManagedCRs -> {"idle", "auth", "get", "connected", "create"}]
         /\ mem' \in [ManagedCRs -> Objects]
<1>1. Object("none") \in Objects
  BY ZenonT(60) DEF Objects, Object
<1>2. QED
  BY ZenonT(60), <1>1 DEF Goto, ConfigTypeOK

\* Every step keeps the types.
LEMMA ConfigTypeStep == ConfigTypeOK /\ [ConfigNext]_providerVars => ConfigTypeOK'
<1> SUFFICES ASSUME ConfigTypeOK, [ConfigNext]_providerVars PROVE ConfigTypeOK'
  BY ZenonT(60)
<1> USE DEF ConfigTypeOK, Objects, Object, Stored, configVars, crVars
<1>1. CASE UNCHANGED providerVars
  BY SMTT(60), ZenonT(120), <1>1 DEF providerVars
<1>2. ASSUME NEW c \in ManagedCRs, Reconcile(c) PROVE ConfigTypeOK'
  <2>1. CASE BeginReconcile(c)
    BY <2>1 DEF BeginReconcile
  <2>2. CASE GetAuthInfo(c)
    <3>1. CASE c \in Legacy
      <4>1. PICK l \in {"connected", "idle"} : Goto(c, l)
        BY ZenonT(60), <2>2, <3>1 DEF GetAuthInfo, UseProvider
      <4>2. QED
        BY ZenonT(60), <2>2, <3>1, <4>1, GotoTypes DEF GetAuthInfo, UseProvider
    <3>2. CASE c \notin Legacy
      BY <2>2, <3>2 DEF GetAuthInfo, Track, Goto
    <3>3. QED
      BY ZenonT(60), <3>1, <3>2
  <2>3. CASE GetConfig(c)
    BY <2>3 DEF GetConfig, Goto
  <2>4. CASE AddFinalizer(c)
    <3>1. [managed[c] EXCEPT !.finalizer = TRUE] \in Objects
      BY ZenonT(60) DEF ConfigTypeOK, Objects
    <3>2. managed' \in [ManagedCRs -> Objects]
      BY ZenonT(60), <2>4, <3>1 DEF AddFinalizer
    <3>3. pcs' \in [ManagedCRs -> {"idle", "auth", "get", "connected", "create"}]
          /\ mem' \in [ManagedCRs -> Objects]
      <4>1. PICK l \in {"create", "idle"} : Goto(c, l)
        BY ZenonT(60), <2>4 DEF AddFinalizer
      <4>2. QED
        BY ZenonT(60), <4>1, GotoTypes
    <3>4. QED
      BY <2>4, <3>2, <3>3 DEF AddFinalizer
  <2>5. CASE Create(c)
    BY <2>5 DEF Create, Goto
  <2>6. CASE Delete(c)
    BY <2>6 DEF Delete, Goto
  <2>7. CASE RemoveFinalizer(c)
    BY <2>7 DEF RemoveFinalizer, Goto
  <2>8. QED
    BY ZenonT(60), <1>2, <2>1, <2>2, <2>3, <2>4, <2>5, <2>6, <2>7 DEF Reconcile
<1>3. ASSUME NEW c \in ManagedCRs, CollectUsage(c) PROVE ConfigTypeOK'
  BY <1>3 DEF CollectUsage
<1>4. ASSUME NEW c \in ManagedCRs, PersonCreates(c) PROVE ConfigTypeOK'
  BY <1>4 DEF PersonCreates
<1>5. ASSUME NEW c \in ManagedCRs, PersonDeletes(c) PROVE ConfigTypeOK'
  BY SMTT(60), <1>5 DEF PersonDeletes
<1>6. ASSUME NEW c \in ManagedCRs, Crash(c) PROVE ConfigTypeOK'
  BY <1>6 DEF Crash, Goto
<1>7. CASE ConfigBegin
  BY ZenonT(60), <1>7 DEF ConfigBegin
<1>8. CASE ConfigCount
  BY ZenonT(60), <1>8 DEF ConfigCount
<1>9. CASE ConfigAct
  <2>1. config' \in Objects
    BY ZenonT(60), <1>9, Acted DEF ConfigTypeOK
  <2>2. QED
    BY ZenonT(60), <1>9, <2>1 DEF ConfigAct, ConfigDone
<1>10. CASE DeleteConfig
  BY ZenonT(60), <1>10 DEF DeleteConfig
<1>11. CASE CreateConfig
  <2>1. configs' \in Nat
    BY <1>11 DEF CreateConfig
  <2>2. QED
    BY ZenonT(60), <1>11, <2>1 DEF CreateConfig
<1>12. CASE DeleteProvider
  BY ZenonT(60), <1>12 DEF DeleteProvider
<1>13. CASE ConfigCrash
  <2>1. crashes' \in Nat
    BY <1>13 DEF ConfigCrash
  <2>2. QED
    BY ZenonT(60), <1>13, <2>1 DEF ConfigCrash, ConfigDone
<1>14. QED
  BY ZenonT(60), <1>1, <1>2, <1>3, <1>4, <1>5, <1>6, <1>7, <1>8, <1>9, <1>10, <1>11,
     <1>12, <1>13
     DEF ConfigNext, ConfigReconcile

\* Type correctness of the reconcilers and the objects they write.
THEOREM ConfigTypeCorrect == ConfigSpec => []ConfigTypeOK
<1>1. ConfigInit => ConfigTypeOK
  <2> SUFFICES ASSUME ConfigInit PROVE ConfigTypeOK
    BY ZenonT(60)
  <2>1. configs \in Nat /\ crashes \in Nat
    BY ZenonT(60), ConfigBounds DEF ConfigInit
  <2>2. Object("none") \in Objects /\ Object("live") \in Objects
    BY ZenonT(60) DEF Objects, Object
  <2>3. QED
    BY ZenonT(60), <2>1, <2>2 DEF ConfigInit, ConfigTypeOK
<1>2. QED
  BY <1>1, ConfigTypeStep, PTL DEF ConfigSpec

\* The step of a CR's reconcile.
LEMMA ReconcileKeeps ==
  ASSUME ConfigTypeOK, ConfigInv, NEW c \in ManagedCRs, Reconcile(c)
  PROVE  ConfigInv'
<1> USE DEF ConfigTypeOK, ConfigInv, ConfigKept, Objects, Object, Stored, configVars, crVars
<1>1. CASE BeginReconcile(c)
  BY ZenonT(60), <1>1 DEF BeginReconcile
<1>2. CASE GetAuthInfo(c)
  <2>1. CASE c \in Legacy
    BY <1>2, <2>1 DEF GetAuthInfo, UseProvider, Goto
  <2>2. CASE c \notin Legacy
    BY SMTT(60), <1>2, <2>2 DEF GetAuthInfo, Track, Goto
  <2>3. QED
    BY ZenonT(60), <2>1, <2>2
<1>3. CASE GetConfig(c)
  BY ZenonT(60), <1>3 DEF GetConfig, Goto
<1>4. CASE AddFinalizer(c)
  <2>1. CASE mem[c] # managed[c]
    BY SMTT(60), <1>4, <2>1 DEF AddFinalizer, Goto
  <2>2. CASE mem[c] = managed[c]
    <3>1. managed'[c] = [managed[c] EXCEPT !.finalizer = TRUE] /\ managed'[c].phase = "live"
          /\ \A d \in ManagedCRs \ {c} : managed'[d] = managed[d]
      BY SMTT(60), <1>4, <2>2 DEF AddFinalizer
    <3>2. pcs'[c] = "create" /\ \A d \in ManagedCRs \ {c} : pcs'[d] = pcs[d]
      BY ZenonT(60), <1>4, <2>2 DEF AddFinalizer, Goto
    <3>3. mem' = mem /\ UNCHANGED <<configVars, provider, usages, late>>
      BY ZenonT(60), <1>4, <2>2 DEF AddFinalizer, Goto
    <3>4. c \notin Legacy => c \in usages /\ (Stored(config) \/ early \/ c \in late)
      BY ZenonT(60), <1>4, <2>2 DEF AddFinalizer
    <3>5. ConfigKept'
      BY ZenonT(60), <3>1, <3>3, <3>4
    <3>6. \A d \in ManagedCRs : (managed[d].finalizer => Stored(managed[d]))'
      BY ZenonT(60), <3>1
    <3>7. QED
      BY SMTT(60), <3>1, <3>2, <3>3, <3>4, <3>5, <3>6
  <2>3. QED
    BY ZenonT(60), <2>1, <2>2
<1>5. CASE Create(c)
  BY ZenonT(60), <1>5 DEF Create, Goto
<1>6. CASE Delete(c)
  BY ZenonT(60), <1>6 DEF Delete, Goto
<1>7. CASE RemoveFinalizer(c)
  BY ZenonT(60), <1>7 DEF RemoveFinalizer, Goto
<1>8. QED
  BY ZenonT(60), <1>1, <1>2, <1>3, <1>4, <1>5, <1>6, <1>7 DEF Reconcile

\* Every step keeps the invariant.
LEMMA ConfigInvStep == ConfigTypeOK /\ ConfigInv /\ [ConfigNext]_providerVars => ConfigInv'
<1> SUFFICES ASSUME ConfigTypeOK, ConfigInv, [ConfigNext]_providerVars PROVE ConfigInv'
  BY ZenonT(60)
<1>1. CASE UNCHANGED providerVars
  BY ZenonT(60), <1>1 DEF providerVars, ConfigInv, ConfigKept, Stored
<1>2. ASSUME NEW c \in ManagedCRs, Reconcile(c) PROVE ConfigInv'
  BY ZenonT(60), <1>2, ReconcileKeeps
<1> USE DEF ConfigTypeOK, ConfigInv, ConfigKept, Objects, Object, Stored, configVars, crVars
<1>3. ASSUME NEW c \in ManagedCRs, CollectUsage(c) PROVE ConfigInv'
  BY ZenonT(60), <1>3 DEF CollectUsage
<1>4. ASSUME NEW c \in ManagedCRs, PersonCreates(c) PROVE ConfigInv'
  BY ZenonT(60), <1>4 DEF PersonCreates
<1>5. ASSUME NEW c \in ManagedCRs, PersonDeletes(c) PROVE ConfigInv'
  BY SMTT(60), ZenonT(120), <1>5 DEF PersonDeletes
<1>6. ASSUME NEW c \in ManagedCRs, Crash(c) PROVE ConfigInv'
  BY ZenonT(60), <1>6 DEF Crash, Goto
<1>7. CASE ConfigBegin
  BY ZenonT(60), <1>7 DEF ConfigBegin
<1>8. CASE ConfigCount
  BY ZenonT(60), <1>8 DEF ConfigCount
<1>9. CASE ConfigAct
  BY ZenonT(60), <1>9 DEF ConfigAct, ConfigDone
<1>10. CASE DeleteConfig
  BY ZenonT(60), <1>10 DEF DeleteConfig
<1>11. CASE CreateConfig
  BY ZenonT(60), <1>11 DEF CreateConfig
<1>12. CASE DeleteProvider
  BY ZenonT(60), <1>12 DEF DeleteProvider
<1>13. CASE ConfigCrash
  BY ZenonT(60), <1>13 DEF ConfigCrash, ConfigDone
<1>14. QED
  BY ZenonT(60), <1>1, <1>2, <1>3, <1>4, <1>5, <1>6, <1>7, <1>8, <1>9, <1>10, <1>11,
     <1>12, <1>13
     DEF ConfigNext, ConfigReconcile

\* The inductive invariant holds in every reachable state.
THEOREM ConfigInvariance == ConfigSpec => []ConfigInv
<1>1. ConfigInit => ConfigInv
  BY DEF ConfigInit, ConfigInv, ConfigKept, Object, Stored
<1>2. QED
  BY <1>1, ConfigInvStep, ConfigTypeCorrect, PTL DEF ConfigSpec

\* UseProviderConfig's order, usage first, keeps the config for every CR that
\* has its finalizer, but for the two exceptions named.
THEOREM Kept == ConfigSpec => []ConfigKept
<1>1. ConfigInv => ConfigKept
  BY ZenonT(60) DEF ConfigInv
<1>2. QED
  BY <1>1, ConfigInvariance, PTL

\* The config's controller lets a config go only over usages recorded since it
\* counted.
THEOREM Counted == ConfigSpec => CountedIsKept
<1>1. ConfigTypeOK /\ ConfigInv /\ [ConfigNext]_providerVars =>
         [Stored(config) /\ config'.phase = "gone" /\ config.finalizer
             => usages \subseteq late]_providerVars
  <2> SUFFICES ASSUME ConfigTypeOK, ConfigInv, ConfigNext, Stored(config),
                      config'.phase = "gone", config.finalizer
               PROVE  usages \subseteq late
    BY ZenonT(60)
  <2>1. config' # config
    BY ZenonT(60) DEF Stored
  <2>2. CASE ConfigAct
    BY ZenonT(60), <2>2 DEF ConfigAct, ConfigInv, Stored, ConfigTypeOK, Objects
  <2>3. CASE DeleteConfig
    BY ZenonT(60), <2>3 DEF DeleteConfig, ConfigTypeOK, Objects
  <2>4. ASSUME NEW c \in ManagedCRs, Reconcile(c) PROVE FALSE
    BY ZenonT(60), <2>1, <2>4 DEF Reconcile, BeginReconcile, GetAuthInfo, UseProvider,
       Track, GetConfig,
       AddFinalizer, Create, Delete, RemoveFinalizer, configVars
  <2>5. ASSUME NEW c \in ManagedCRs,
               CollectUsage(c) \/ PersonCreates(c) \/ PersonDeletes(c) \/ Crash(c)
        PROVE  FALSE
    BY ZenonT(60), <2>1, <2>5 DEF CollectUsage, PersonCreates, PersonDeletes, Crash,
       configVars
  <2>6. CASE ConfigBegin \/ ConfigCount \/ DeleteProvider \/ ConfigCrash
    BY ZenonT(60), <2>1, <2>6 DEF ConfigBegin, ConfigCount, DeleteProvider, ConfigCrash,
       configVars
  <2>7. CASE CreateConfig
    BY ZenonT(60), <2>7 DEF CreateConfig, Stored
  <2>8. QED
    BY ZenonT(60), <2>2, <2>3, <2>4, <2>5, <2>6, <2>7 DEF ConfigNext, ConfigReconcile
<1>2. QED
  BY <1>1, ConfigInvariance, ConfigTypeCorrect, PTL DEF ConfigSpec, CountedIsKept

(***************************************************************************)
(* IAMPolicy, for every set of roles, members, conditions and CRs: the     *)
(* state stays well typed, the writers of an IAM policy only make the      *)
(* changes that AccessPolicy allows, and, where bindings have no           *)
(* conditions, a BucketPolicyMember that is gone has left no grant.        *)
(***************************************************************************)

USE DEF Controllers, CRNames

\* The policy of a resource that nobody granted anything is well typed.
LEMMA EmptyType == Empty \in Policies
BY ZenonT(60) DEF Empty, Policies

\* A worker between two reconciles is well typed.
LEMMA IdleType == Idle \in Jobs
BY ZenonT(60), EmptyType DEF Idle, Jobs, PCs

\* Adding or removing a member gives a policy.
LEMMA WithType ==
    ASSUME NEW p \in Policies, NEW r \in Roles, NEW c \in Conds, NEW m \in Principals
    PROVE  With(p, r, c, m) \in Policies /\ Without(p, r, c, m) \in Policies
<1> DEFINE B == [Conds -> SUBSET Principals]
<1>1. p[r] \in B
  BY ZenonT(60) DEF Policies
<1>2. [p[r] EXCEPT ![c] = p[r][c] \cup {m}] \in B /\ [p[r] EXCEPT ![c] = p[r][c] \ {m}] \in B
  BY ZenonT(60), <1>1
<1>3. \A b \in B : [p EXCEPT ![r] = b] \in Policies
  BY ZenonT(60) DEF Policies
<1>4. /\ With(p, r, c, m) = [p EXCEPT ![r] = [p[r] EXCEPT ![c] = p[r][c] \cup {m}]]
      /\ Without(p, r, c, m) = [p EXCEPT ![r] = [p[r] EXCEPT ![c] = p[r][c] \ {m}]]
  BY ZenonT(60) DEF With, Without, Policies
<1> HIDE DEF B
<1> QED BY ZenonT(60), <1>2, <1>3, <1>4

\* What adding and removing do to each binding.
LEMMA WithAt ==
    ASSUME NEW p \in Policies, NEW r \in Roles, NEW c \in Conds, NEW m \in Principals,
           NEW s \in Roles, NEW d \in Conds, NEW x
    PROVE  /\ x \in With(p, r, c, m)[s][d] <=>
                  x \in p[s][d] \/ (s = r /\ d = c /\ x = m)
           /\ x \in Without(p, r, c, m)[s][d] <=>
                  x \in p[s][d] /\ ~(s = r /\ d = c /\ x = m)
<1>1. /\ With(p, r, c, m)[s] = IF s = r THEN [p[r] EXCEPT ![c] = p[r][c] \cup {m}] ELSE p[s]
      /\ Without(p, r, c, m)[s] = IF s = r THEN [p[r] EXCEPT ![c] = p[r][c] \ {m}] ELSE p[s]
  BY ZenonT(60) DEF With, Without, Policies
<1>2. p[r] \in [Conds -> SUBSET Principals]
  BY ZenonT(60) DEF Policies
<1>3. \A y : [p[r] EXCEPT ![c] = y][d] = IF d = c THEN y ELSE p[r][d]
  BY ZenonT(60), <1>2
<1>4. CASE s = r
  <2>1. /\ With(p, r, c, m)[s][d] = [p[r] EXCEPT ![c] = p[r][c] \cup {m}][d]
        /\ Without(p, r, c, m)[s][d] = [p[r] EXCEPT ![c] = p[r][c] \ {m}][d]
    BY ZenonT(60), <1>1, <1>4
  <2>2. CASE d = c
    <3>1. /\ With(p, r, c, m)[s][d] = p[s][d] \cup {m}
          /\ Without(p, r, c, m)[s][d] = p[s][d] \ {m}
      BY ZenonT(60), <1>3, <1>4, <2>1, <2>2
    <3> QED BY ZenonT(60), <3>1, <1>4, <2>2
  <2>3. CASE d # c
    BY ZenonT(60), <1>3, <1>4, <2>1, <2>3
  <2> QED BY ZenonT(60), <2>2, <2>3
<1>5. CASE s # r
  BY ZenonT(60), <1>1, <1>5
<1> QED BY ZenonT(60), <1>4, <1>5

\* BindRoleToMember adds the member to one binding of the role.
LEMMA BindForm ==
    ASSUME NEW w \in Members, NEW p, NEW q \in BindRoleToMember(w, p)
    PROVE  \E c \in Conds : q = With(p, RoleOf[w], c, PrincipalOf[w])
BY ZenonT(60), CondsAssumption DEF BindRoleToMember, FirstBindings

\* UnbindRoleFromMember removes the member from one binding or changes nothing.
LEMMA UnbindForm ==
    ASSUME NEW w \in Members, NEW p, NEW q \in UnbindRoleFromMember(w, p)
    PROVE  q = p \/ \E c \in Conds : q = Without(p, RoleOf[w], c, PrincipalOf[w])
BY ZenonT(60) DEF UnbindRoleFromMember, FirstBindings

\* Binding and unbinding a member keep a policy well typed.
LEMMA BindType ==
    ASSUME NEW w \in Members, NEW p \in Policies
    PROVE  /\ BindRoleToMember(w, p) \subseteq Policies
           /\ UnbindRoleFromMember(w, p) \subseteq Policies
BY SMTT(60), BindForm, UnbindForm, WithType, MembersAssumption

\* A step of the workers' bookkeeping keeps the jobs well typed.
LEMMA EndType ==
    ASSUME TypeOK, NEW c \in Controllers, End(c)
    PROVE  job' \in [Controllers -> Jobs]
BY ZenonT(60), IdleType DEF TypeOK, End

\* Reading the policy and planning a write of it keep the jobs well typed.
LEMMA ReadType ==
    ASSUME TypeOK, NEW c \in Controllers, NEW p \in Policies, NEW b, Read(c, p, b)
    PROVE  job' \in [Controllers -> Jobs]
<1>1. [job[c] EXCEPT !.pc = "set", !.new = p, !.fresh = TRUE] \in Jobs
  BY ZenonT(60) DEF TypeOK, Jobs, PCs
<1> QED BY ZenonT(60), <1>1, EndType DEF TypeOK, Read

\* So does finding out that the etag is no longer the policy's.
LEMMA StaleType ==
    ASSUME NEW j \in Jobs
    PROVE  [j EXCEPT !.fresh = FALSE] \in Jobs
BY ZenonT(60) DEF Jobs

\* So does a write of the policy, which makes the etags of the others stale.
LEMMA WriteType ==
    ASSUME TypeOK, NEW c \in Controllers, NEW p \in Policies, Write(c, p)
    PROVE  policy' \in Policies /\ job' \in [Controllers -> Jobs]
BY ZenonT(60), IdleType, StaleType DEF TypeOK, Write

\* The start of a reconcile keeps the jobs and the CRs well typed.
LEMMA BeginType ==
    ASSUME TypeOK, NEW c \in Controllers, NEW w \in CRNames, NEW e, NEW u,
           Begin(c, w, e, u)
    PROVE  job' \in [Controllers -> Jobs] /\ crs' \in [CRNames -> CRs]
<1>1. \A n \in PCs : [Idle EXCEPT !.pc = n, !.cr = w, !.want = want] \in Jobs
  BY ZenonT(60), EmptyType, PolicyAssumption DEF TypeOK, Idle, Jobs
<1>2. PICK n \in PCs : job' = [job EXCEPT ![c] = IF n = "idle" THEN Idle
                      ELSE [Idle EXCEPT !.pc = n, !.cr = w, !.want = want]]
  <2> DEFINE next == CASE crs[w].phase = "deleting" /\ e -> "delete"
                  [] crs[w].phase = "deleting" /\ ~e -> "unfinalize"
                  [] crs[w].phase = "live" /\ ~e -> "create"
                  [] crs[w].phase = "live" /\ e /\ ~u -> "update"
                  [] OTHER -> "idle"
  <2>1. next \in PCs
    BY ZenonT(60) DEF PCs
  <2>2. job' = [job EXCEPT ![c] = IF next = "idle" THEN Idle
                      ELSE [Idle EXCEPT !.pc = next, !.cr = w, !.want = want]]
    BY ZenonT(60) DEF Begin
  <2> HIDE DEF next
  <2> QED BY ZenonT(60), <2>1, <2>2
<1>3. job' \in [Controllers -> Jobs]
  BY ZenonT(60), <1>1, <1>2, IdleType DEF TypeOK
<1>4. [crs[w] EXCEPT !.finalizer = TRUE] \in CRs
  BY ZenonT(60) DEF TypeOK, CRs
<1>5. crs' = [crs EXCEPT ![w] = [crs[w] EXCEPT !.finalizer = TRUE]]
  BY ZenonT(60) DEF Begin
<1> QED BY ZenonT(60), <1>3, <1>4, <1>5 DEF TypeOK

\* Every step keeps the types.  That the CR of a reconcile is one of the
\* controller's needs Inv.
LEMMA StepType ==
    ASSUME TypeOK, Inv, [Next]_vars
    PROVE  TypeOK'
<1>m. job["member"].pc # "idle" => job["member"].cr \in Members
  BY ZenonT(60) DEF Inv, JobOwned
<1>p. \A c \in Controllers : job[c].pc # "idle" => job[c].cr \in CRNames
  BY ZenonT(60) DEF Inv, JobOwned
<1>w. want \in Policies /\ PolicySpecs \subseteq Policies /\ policy \in Policies
  BY ZenonT(60), PolicyAssumption DEF TypeOK
<1>j. \A c \in Controllers : job[c].want \in Policies /\ job[c].new \in Policies
  BY ZenonT(60) DEF TypeOK, Jobs
<1>1. ASSUME NEW c \in Controllers, Set(c) PROVE TypeOK'
  <2>1. CASE job[c].fresh
    <3>1. policy' \in Policies /\ job' \in [Controllers -> Jobs]
      BY ZenonT(60), <1>1, <2>1, <1>j, WriteType DEF Set
    <3> QED BY ZenonT(60), <1>1, <3>1 DEF Set, TypeOK
  <2>2. CASE ~job[c].fresh
    <3>1. job' \in [Controllers -> Jobs] /\ UNCHANGED policy
      BY ZenonT(60), <1>1, <2>2, EndType DEF Set
    <3> QED BY ZenonT(60), <1>1, <3>1 DEF Set, TypeOK
  <2> QED BY ZenonT(60), <2>1, <2>2
<1>2. ASSUME NEW c \in Controllers, Unfinalize(c) PROVE TypeOK'
  <2>1. job' \in [Controllers -> Jobs]
    BY ZenonT(60), <1>2, EndType DEF Unfinalize
  <2>2. job[c].cr \in CRNames
    BY ZenonT(60), <1>2, <1>p DEF Unfinalize
  <2>3. [crs[job[c].cr] EXCEPT !.phase = "gone", !.finalizer = FALSE] \in CRs
    BY ZenonT(60), <2>2 DEF TypeOK, CRs, Phases
  <2>4. crs' \in [CRNames -> CRs]
    BY ZenonT(60), <1>2, <2>3 DEF TypeOK, Unfinalize
  <2> QED BY ZenonT(60), <1>2, <2>1, <2>4 DEF TypeOK, Unfinalize
<1>3. ASSUME NEW w \in Members, MemberObserve(w) PROVE TypeOK'
  <2>1. job' \in [Controllers -> Jobs] /\ crs' \in [CRNames -> CRs]
    BY ZenonT(60), <1>3, BeginType DEF MemberObserve
  <2> QED BY ZenonT(60), <1>3, <2>1 DEF TypeOK, MemberObserve
<1>4. CASE MemberCreate
  <2>1. job' \in [Controllers -> Jobs]
    BY ZenonT(60), <1>4, <1>m, <1>w, BindType, ReadType DEF MemberCreate
  <2> QED BY ZenonT(60), <1>4, <2>1 DEF TypeOK, MemberCreate
<1>5. CASE MemberDelete
  <2>1. job' \in [Controllers -> Jobs]
    BY ZenonT(60), <1>5, <1>m, <1>w, BindType, ReadType DEF MemberDelete
  <2> QED BY ZenonT(60), <1>5, <2>1 DEF TypeOK, MemberDelete
<1>6. ASSUME NEW w \in PolicyCRs, PolicyObserve(w) PROVE TypeOK'
  <2>1. job' \in [Controllers -> Jobs] /\ crs' \in [CRNames -> CRs]
    BY ZenonT(60), <1>6, BeginType DEF PolicyObserve
  <2> QED BY ZenonT(60), <1>6, <2>1 DEF TypeOK, PolicyObserve
<1>7. CASE PolicyCreate
  <2>1. policy' \in Policies /\ job' \in [Controllers -> Jobs]
    BY ZenonT(60), <1>7, <1>j, WriteType DEF PolicyCreate
  <2> QED BY ZenonT(60), <1>7, <2>1 DEF TypeOK, PolicyCreate
<1>8. CASE PolicyUpdate
  <2>1. job' \in [Controllers -> Jobs]
    BY ZenonT(60), <1>8, <1>j, ReadType DEF PolicyUpdate
  <2> QED BY ZenonT(60), <1>8, <2>1 DEF TypeOK, PolicyUpdate
<1>9. CASE PolicyDelete
  <2>1. policy' \in Policies /\ job' \in [Controllers -> Jobs]
    BY ZenonT(60), <1>9, EmptyType, WriteType DEF PolicyDelete
  <2> QED BY ZenonT(60), <1>9, <2>1 DEF TypeOK, PolicyDelete
<1>10. CASE OtherWrites
  <2>1. PICK g \in OtherGrants : policy' \in {With(policy, g[1], g[2], g[3]),
                                              Without(policy, g[1], g[2], g[3])}
    BY ZenonT(60), <1>10 DEF OtherWrites
  <2>2. g[1] \in Roles /\ g[2] \in Conds /\ g[3] \in Principals
    BY ZenonT(60), OthersAssumption
  <2>3. policy' \in Policies
    BY ZenonT(60), <2>1, <2>2, <1>w, WithType
  <2>4. job' \in [Controllers -> Jobs]
    BY ZenonT(60), <1>10, StaleType DEF OtherWrites, TypeOK
  <2>5. budget' \in Nat
    BY SMTT(60), <1>10 DEF OtherWrites, Disturb, TypeOK
  <2> QED BY ZenonT(60), <1>10, <2>3, <2>4, <2>5 DEF OtherWrites, TypeOK
<1>11. CASE Abort
  <2>1. job' \in [Controllers -> Jobs]
    BY ZenonT(60), <1>11, EndType DEF Abort
  <2>2. budget' \in Nat
    BY <1>11 DEF Abort, Disturb, TypeOK
  <2> QED BY ZenonT(60), <1>11, <2>1, <2>2 DEF Abort, TypeOK
<1>12. CASE UserDelete
  <2>1. PICK w \in CRNames : crs' = [crs EXCEPT ![w] = [crs[w] EXCEPT
                        !.phase = IF crs[w].finalizer THEN "deleting" ELSE "gone"]]
    BY ZenonT(60), <1>12 DEF UserDelete
  <2>2. \A q \in Phases : [crs[w] EXCEPT !.phase = q] \in CRs
    BY ZenonT(60) DEF TypeOK, CRs
  <2>3. crs' \in [CRNames -> CRs]
    BY ZenonT(60), <2>1, <2>2 DEF TypeOK, Phases
  <2>4. budget' \in Nat
    BY SMTT(60), <1>12 DEF UserDelete, Disturb, TypeOK
  <2> QED BY ZenonT(60), <1>12, <2>3, <2>4 DEF UserDelete, TypeOK
<1>13. CASE UserCreate
  <2>1. NewCR \in CRs
    BY ZenonT(60) DEF NewCR, CRs, Phases
  <2>2. budget' \in Nat
    BY SMTT(60), <1>13 DEF UserCreate, Disturb, TypeOK
  <2> QED BY ZenonT(60), <1>13, <2>1, <2>2 DEF UserCreate, TypeOK
<1>14. CASE UserEdit
  BY <1>14 DEF UserEdit, Disturb, TypeOK
<1>15. CASE UNCHANGED vars
  BY ZenonT(60), <1>15 DEF vars, TypeOK
<1> QED BY ZenonT(60), <1>1, <1>2, <1>3, <1>4, <1>5, <1>6, <1>7, <1>8, <1>9, <1>10, <1>11,
           <1>12,
           <1>13, <1>14, <1>15 DEF Next, MemberStep, PolicyStep

\* What a reconcile begins with: the CR has its finalizer, and a Delete or the
\* removal of the finalizer is for a CR that is being deleted.
LEMMA BeginForm ==
    ASSUME TypeOK, NEW c \in Controllers, NEW w \in CRNames, NEW e, NEW u,
           Begin(c, w, e, u)
    PROVE  /\ job[c].pc = "idle"
           /\ crs[w].phase # "gone"
           /\ crs'[w].finalizer /\ crs'[w].phase = crs[w].phase
           /\ \A v \in CRNames \ {w} : crs'[v] = crs[v]
           /\ \A d \in Controllers \ {c} : job'[d] = job[d]
           /\ \/ job'[c].pc = "idle"
              \/ /\ job'[c].pc \in {"create", "update", "delete", "unfinalize"}
                 /\ job'[c].cr = w
                 /\ job'[c].want = want
                 /\ job'[c].pc \in {"delete", "unfinalize"} => crs[w].phase = "deleting"
                 /\ job'[c].pc = "unfinalize" => ~e
<1> DEFINE next == CASE crs[w].phase = "deleting" /\ e -> "delete"
                  [] crs[w].phase = "deleting" /\ ~e -> "unfinalize"
                  [] crs[w].phase = "live" /\ ~e -> "create"
                  [] crs[w].phase = "live" /\ e /\ ~u -> "update"
                  [] OTHER -> "idle"
<1>1. job' = [job EXCEPT ![c] = IF next = "idle" THEN Idle
                      ELSE [Idle EXCEPT !.pc = next, !.cr = w, !.want = want]]
  BY DEF Begin
<1>2. /\ next \in {"idle", "create", "update", "delete", "unfinalize"}
      /\ next \in {"delete", "unfinalize"} => crs[w].phase = "deleting"
      /\ next = "unfinalize" => ~e
  BY ZenonT(60)
<1> HIDE DEF next
<1>3. /\ job'[c] = IF next = "idle" THEN Idle
                   ELSE [Idle EXCEPT !.pc = next, !.cr = w, !.want = want]
      /\ \A d \in Controllers \ {c} : job'[d] = job[d]
  BY ZenonT(60), <1>1 DEF TypeOK
<1>4. /\ [Idle EXCEPT !.pc = next, !.cr = w, !.want = want].pc = next
      /\ [Idle EXCEPT !.pc = next, !.cr = w, !.want = want].cr = w
      /\ [Idle EXCEPT !.pc = next, !.cr = w, !.want = want].want = want
      /\ Idle.pc = "idle"
  BY ZenonT(60) DEF Idle
<1>5. crs' = [crs EXCEPT ![w] = [crs[w] EXCEPT !.finalizer = TRUE]]
  BY ZenonT(60) DEF Begin
<1>6. /\ crs'[w].finalizer /\ crs'[w].phase = crs[w].phase
      /\ \A v \in CRNames \ {w} : crs'[v] = crs[v]
  BY ZenonT(60), <1>5 DEF TypeOK, CRs
<1> QED BY SMTT(30), <1>2, <1>3, <1>4, <1>6 DEF Begin

\* A reconcile that begins keeps Inv.
LEMMA BeginInv ==
    ASSUME TypeOK, Inv, NEW c \in Controllers, NEW w, NEW e, NEW u,
           w \in IF c = "member" THEN Members ELSE PolicyCRs,
           Begin(c, w, e, u), UNCHANGED <<policy, want>>
    PROVE  Inv'
<1>w. w \in CRNames
  BY ZenonT(60)
<1>1. Finalized'
  BY SMTT(60), <1>w, BeginForm DEF Inv, Finalized
<1>2. JobOwned'
  <2> SUFFICES ASSUME NEW d \in Controllers, job'[d].pc # "idle"
               PROVE  /\ job'[d].cr \in IF d = "member" THEN Members ELSE PolicyCRs
                      /\ crs'[job'[d].cr].finalizer
                      /\ job'[d].pc \in {"delete", "unfinalize"} =>
                            crs'[job'[d].cr].phase = "deleting"
    BY ZenonT(60) DEF JobOwned
  <2>1. CASE d = c
    BY SMTT(60), ZenonT(120), <1>w, <2>1, BeginForm
  <2>2. CASE d # c
    <3>1. job'[d] = job[d]
      BY ZenonT(60), <1>w, <2>2, BeginForm
    <3>2. job'[d].cr \in CRNames \ {w}
      BY ZenonT(60), <2>2, <3>1, PolicyAssumption DEF Inv, JobOwned
    <3>3. crs'[job'[d].cr] = crs[job'[d].cr]
      BY SMTT(60), ZenonT(120), <1>w, <3>2, BeginForm
    <3> QED BY ZenonT(60), <3>1, <3>3 DEF Inv, JobOwned
  <2> QED BY ZenonT(60), <2>1, <2>2
<1>3. PolicyJob'
  BY ZenonT(60), <1>w, BeginForm DEF Inv, PolicyJob, TypeOK
<1>4. MemberJob'
  <2>1. CASE c = "member"
    BY ZenonT(60), <1>w, <2>1, BeginForm DEF MemberJob
  <2>2. CASE c = "policy"
    <3>1. job'["member"] = job["member"]
      BY ZenonT(60), <1>w, <2>2, BeginForm
    <3>2. SUFFICES ASSUME job["member"].pc = "set" PROVE MemberJob'
      BY ZenonT(60), <3>1 DEF MemberJob
    <3>3. job["member"].cr \in CRNames \ {w}
      BY ZenonT(60), <2>2, <3>2, PolicyAssumption DEF Inv, JobOwned
    <3>4. crs'[job["member"].cr] = crs[job["member"].cr]
      BY SMTT(60), <1>w, <3>3, BeginForm
    <3> QED BY ZenonT(60), <3>1, <3>4 DEF Inv, MemberJob, BindRoleToMember,
               UnbindRoleFromMember
  <2> QED BY ZenonT(60), <2>1, <2>2
<1> QED BY ZenonT(60), <1>1, <1>2, <1>3, <1>4 DEF Inv

\* A reconcile that ends changes its own job only.
LEMMA EndForm ==
    ASSUME TypeOK, NEW c \in Controllers, End(c)
    PROVE  job'[c].pc = "idle" /\ \A d \in Controllers \ {c} : job'[d] = job[d]
BY ZenonT(60) DEF TypeOK, End, Idle

\* A write changes nothing of the other jobs but the freshness of their etags.
LEMMA WriteForm ==
    ASSUME TypeOK, NEW c \in Controllers, NEW p, Write(c, p)
    PROVE  /\ job'[c].pc = "idle"
           /\ \A d \in Controllers \ {c} :
                 /\ job'[d].pc = job[d].pc /\ job'[d].cr = job[d].cr
                 /\ job'[d].want = job[d].want /\ job'[d].new = job[d].new
                 /\ job'[d].fresh = FALSE
<1>1. \A j \in Jobs : /\ [j EXCEPT !.fresh = FALSE].pc = j.pc
                      /\ [j EXCEPT !.fresh = FALSE].cr = j.cr
                      /\ [j EXCEPT !.fresh = FALSE].want = j.want
                      /\ [j EXCEPT !.fresh = FALSE].new = j.new
                      /\ [j EXCEPT !.fresh = FALSE].fresh = FALSE
  BY ZenonT(60) DEF Jobs
<1> QED BY ZenonT(60), <1>1 DEF TypeOK, Write, Idle

\* A reconcile that ends, and one that ends with a write, keep Inv.
LEMMA EndInv ==
    ASSUME TypeOK, Inv, NEW c \in Controllers, End(c), UNCHANGED <<policy, crs>>
    PROVE  Inv'
<1>1. job'[c].pc = "idle" /\ \A d \in Controllers \ {c} : job'[d] = job[d]
  BY ZenonT(60), EndForm
<1>2. Finalized' /\ JobOwned' /\ PolicyJob'
  BY ZenonT(60), <1>1 DEF Inv, Finalized, JobOwned, PolicyJob
<1>3. MemberJob'
  BY ZenonT(60), <1>1 DEF Inv, MemberJob, BindRoleToMember, UnbindRoleFromMember
<1> QED BY ZenonT(60), <1>2, <1>3 DEF Inv

\* A write of the policy ends the reconcile and keeps Inv.
LEMMA WriteInv ==
    ASSUME TypeOK, Inv, NEW c \in Controllers, NEW p, Write(c, p), UNCHANGED crs
    PROVE  Inv'
<1>1. /\ job'[c].pc = "idle"
      /\ \A d \in Controllers \ {c} :
            /\ job'[d].pc = job[d].pc /\ job'[d].cr = job[d].cr
            /\ job'[d].want = job[d].want /\ job'[d].new = job[d].new
            /\ job'[d].fresh = FALSE
  BY ZenonT(60), WriteForm
<1>2. Finalized' /\ JobOwned' /\ PolicyJob'
  BY ZenonT(60), <1>1 DEF Inv, Finalized, JobOwned, PolicyJob
<1>3. MemberJob'
  BY ZenonT(60), <1>1 DEF MemberJob
<1> QED BY ZenonT(60), <1>2, <1>3 DEF Inv

\* So does the Get of a read-modify-write that computes what the controller owns.
LEMMA ReadInv ==
    ASSUME TypeOK, Inv, NEW c \in Controllers, NEW p, NEW b, Read(c, p, b),
           job[c].pc # "idle", UNCHANGED <<policy, crs>>,
           c = "policy" => p \in PolicySpecs,
           c = "member" => LET w == job[c].cr IN
               \/ p \in BindRoleToMember(w, policy)
               \/ p \in UnbindRoleFromMember(w, policy) /\ crs[w].phase = "deleting"
    PROVE  Inv'
<1>1. CASE ~b
  BY ZenonT(60), <1>1, EndInv DEF Read
<1>2. CASE b
  <2>1. job' = [job EXCEPT ![c] = [job[c] EXCEPT !.pc = "set", !.new = p, !.fresh = TRUE]]
    BY ZenonT(60), <1>2 DEF Read
  <2>2. /\ job'[c].pc = "set" /\ job'[c].cr = job[c].cr
        /\ job'[c].want = job[c].want /\ job'[c].new = p
        /\ \A d \in Controllers \ {c} : job'[d] = job[d]
    BY ZenonT(60), <2>1 DEF TypeOK, Jobs
  <2>3. Finalized' /\ JobOwned' /\ PolicyJob'
    BY SMTT(60), ZenonT(120), <2>2 DEF Inv, Finalized, JobOwned, PolicyJob
  <2>4. MemberJob'
    <3> DEFINE w == job'["member"].cr
               q == job'["member"].new
    <3>1. SUFFICES ASSUME job'["member"].pc = "set", job'["member"].fresh
                   PROVE  \/ q \in BindRoleToMember(w, policy)
                          \/ q \in UnbindRoleFromMember(w, policy) /\ crs[w].phase = "deleting"
      BY ZenonT(60) DEF MemberJob, BindRoleToMember, UnbindRoleFromMember
    <3>2. CASE c = "member"
      BY ZenonT(60), <2>2, <3>2
    <3>3. CASE c # "member"
      BY ZenonT(60), <2>2, <3>1, <3>3 DEF Inv, MemberJob
    <3> QED BY ZenonT(60), <3>2, <3>3
  <2> QED BY ZenonT(60), <2>3, <2>4 DEF Inv
<1> QED BY ZenonT(60), <1>1, <1>2

\* A CR that is deleted or created: it keeps its finalizer while a worker has it.
LEMMA LifecycleInv ==
    ASSUME TypeOK, Inv, NEW w \in CRNames, NEW x \in CRs,
           crs' = [crs EXCEPT ![w] = x], UNCHANGED <<policy, want, job>>,
           x.phase = "gone" => ~x.finalizer,
           x.phase = "deleting" => x.finalizer,
           crs[w].finalizer => x.finalizer /\ x.phase = "deleting"
    PROVE  Inv'
<1>1. crs'[w] = x /\ \A v \in CRNames \ {w} : crs'[v] = crs[v]
  BY ZenonT(60) DEF TypeOK
<1>2. Finalized' /\ PolicyJob'
  BY ZenonT(60), <1>1 DEF Inv, Finalized, PolicyJob
<1>3. JobOwned'
  BY SMTT(60), <1>1 DEF Inv, JobOwned
<1>4. MemberJob'
  <2> DEFINE v == job["member"].cr
             q == job["member"].new
  <2>1. SUFFICES ASSUME job["member"].pc = "set", job["member"].fresh
                 PROVE  \/ q \in BindRoleToMember(v, policy)
                        \/ q \in UnbindRoleFromMember(v, policy) /\ crs'[v].phase = "deleting"
    BY ZenonT(60) DEF MemberJob, BindRoleToMember, UnbindRoleFromMember
  <2>2. v \in CRNames /\ crs[v].finalizer
    BY ZenonT(60), <2>1 DEF Inv, JobOwned
  <2>3. crs[v].phase = "deleting" => crs'[v].phase = "deleting"
    BY ZenonT(60), <1>1, <2>2
  <2> QED
    BY ZenonT(60), <2>1, <2>3 DEF Inv, MemberJob
<1> QED BY ZenonT(60), <1>2, <1>3, <1>4 DEF Inv

\* Every step keeps Inv.
LEMMA StepInv ==
    ASSUME TypeOK, Inv, [Next]_vars
    PROVE  Inv'
<1>1. ASSUME NEW c \in Controllers, Set(c) PROVE Inv'
  BY ZenonT(60), <1>1, WriteInv, EndInv DEF Set
<1>2. ASSUME NEW c \in Controllers, Unfinalize(c) PROVE Inv'
  <2> DEFINE w == job[c].cr
  <2>1. w \in IF c = "member" THEN Members ELSE PolicyCRs
    BY ZenonT(60), <1>2 DEF Inv, JobOwned, Unfinalize
  <2>2. /\ crs'[w].phase = "gone" /\ ~crs'[w].finalizer
        /\ \A v \in CRNames \ {w} : crs'[v] = crs[v]
    BY ZenonT(60), <1>2, <2>1 DEF Unfinalize, TypeOK, CRs
  <2>3. job'[c].pc = "idle" /\ \A d \in Controllers \ {c} : job'[d] = job[d]
    BY ZenonT(60), <1>2, EndForm DEF Unfinalize
  <2>4. \A d \in Controllers \ {c} : job[d].pc # "idle" => job[d].cr \in CRNames \ {w}
    BY ZenonT(60), <2>1, PolicyAssumption DEF Inv, JobOwned
  <2>5. UNCHANGED policy
    BY ZenonT(60), <1>2 DEF Unfinalize
  <2> HIDE DEF w
  <2>6. Finalized' /\ PolicyJob'
    BY ZenonT(60), <2>2, <2>3 DEF Inv, Finalized, PolicyJob
  <2>7. JobOwned'
    <3> SUFFICES ASSUME NEW d \in Controllers, job'[d].pc # "idle"
                 PROVE  /\ job'[d].cr \in IF d = "member" THEN Members ELSE PolicyCRs
                        /\ crs'[job'[d].cr].finalizer
                        /\ job'[d].pc \in {"delete", "unfinalize"} =>
                              crs'[job'[d].cr].phase = "deleting"
      BY ZenonT(60) DEF JobOwned
    <3>1. d # c /\ job'[d] = job[d]
      BY ZenonT(60), <2>3
    <3>2. crs'[job[d].cr] = crs[job[d].cr]
      BY ZenonT(60), <2>2, <2>4, <3>1
    <3> QED
      BY ZenonT(60), <3>1, <3>2 DEF Inv, JobOwned
  <2>8. MemberJob'
    <3> SUFFICES ASSUME job'["member"].pc = "set"
                 PROVE  MemberJob'
      BY ZenonT(60) DEF MemberJob
    <3>1. "member" \in Controllers /\ "member" # c /\ job'["member"] = job["member"]
      BY ZenonT(60), <2>3 DEF Controllers
    <3>2. crs'[job["member"].cr] = crs[job["member"].cr]
      BY ZenonT(60), <2>2, <2>4, <3>1
    <3> QED
      BY ZenonT(60), <2>5, <3>1, <3>2 DEF Inv, MemberJob, BindRoleToMember,
         UnbindRoleFromMember
  <2> QED BY ZenonT(60), <2>6, <2>7, <2>8 DEF Inv
<1>3. ASSUME NEW w \in Members, MemberObserve(w) PROVE Inv'
  BY ZenonT(60), <1>3, BeginInv DEF MemberObserve
<1>4. CASE MemberCreate
  BY ZenonT(60), <1>4, ReadInv DEF MemberCreate
<1>5. CASE MemberDelete
  <2>1. crs[job["member"].cr].phase = "deleting"
    BY ZenonT(60), <1>5 DEF MemberDelete, Inv, JobOwned
  <2> QED BY ZenonT(60), <1>5, <2>1, ReadInv DEF MemberDelete
<1>6. ASSUME NEW w \in PolicyCRs, PolicyObserve(w) PROVE Inv'
  BY ZenonT(60), <1>6, BeginInv DEF PolicyObserve
<1>7. CASE PolicyCreate
  BY ZenonT(60), <1>7, WriteInv DEF PolicyCreate
<1>8. CASE PolicyUpdate
  <2>1. job["policy"].want \in PolicySpecs
    BY ZenonT(60), <1>8 DEF PolicyUpdate, Inv, PolicyJob
  <2> QED BY ZenonT(60), <1>8, <2>1, ReadInv DEF PolicyUpdate
<1>9. CASE PolicyDelete
  BY ZenonT(60), <1>9, WriteInv DEF PolicyDelete
<1>10. CASE OtherWrites
  <2>1. \A d \in Controllers :
          /\ job'[d].pc = job[d].pc /\ job'[d].cr = job[d].cr
          /\ job'[d].want = job[d].want /\ job'[d].new = job[d].new
          /\ job'[d].fresh = FALSE
    BY ZenonT(60), <1>10 DEF OtherWrites, TypeOK, Jobs
  <2> QED BY SMTT(30), <1>10, <2>1 DEF OtherWrites, Inv, Finalized, JobOwned, PolicyJob,
             MemberJob
<1>11. CASE Abort
  BY ZenonT(60), <1>11, EndInv DEF Abort
<1>12. CASE UserDelete
  <2>1. PICK w \in CRNames : crs' = [crs EXCEPT ![w] = [crs[w] EXCEPT
                        !.phase = IF crs[w].finalizer THEN "deleting" ELSE "gone"]]
    BY ZenonT(60), <1>12 DEF UserDelete
  <2> DEFINE q == IF crs[w].finalizer THEN "deleting" ELSE "gone"
             x == [crs[w] EXCEPT !.phase = q]
  <2>2. x \in CRs /\ x.phase = q /\ x.finalizer = crs[w].finalizer
    BY ZenonT(60) DEF TypeOK, CRs, Phases
  <2>3. crs' = [crs EXCEPT ![w] = x]
    BY ZenonT(60), <2>1
  <2> HIDE DEF x
  <2> QED BY ZenonT(60), <1>12, <2>2, <2>3, LifecycleInv DEF UserDelete
<1>13. CASE UserCreate
  <2>1. PICK w \in CRNames : crs[w].phase = "gone" /\ crs' = [crs EXCEPT ![w] = NewCR]
    BY ZenonT(60), <1>13 DEF UserCreate
  <2>2. NewCR \in CRs /\ NewCR.phase = "live"
    BY ZenonT(60) DEF NewCR, CRs, Phases
  <2>3. ~crs[w].finalizer
    BY ZenonT(60), <2>1 DEF Inv, Finalized
  <2> QED BY ZenonT(60), <1>13, <2>1, <2>2, <2>3, LifecycleInv DEF UserCreate
<1>14. CASE UserEdit
  BY ZenonT(60), <1>14 DEF UserEdit, Inv, Finalized, JobOwned, PolicyJob, MemberJob,
               BindRoleToMember, UnbindRoleFromMember
<1>15. CASE UNCHANGED vars
  BY ZenonT(60), <1>15 DEF vars, Inv, Finalized, JobOwned, PolicyJob, MemberJob,
               BindRoleToMember, UnbindRoleFromMember
<1> QED BY ZenonT(60), <1>1, <1>2, <1>3, <1>4, <1>5, <1>6, <1>7, <1>8, <1>9, <1>10, <1>11,
           <1>12,
           <1>13, <1>14, <1>15 DEF Next, MemberStep, PolicyStep

\* The initial states satisfy the invariant.
LEMMA InitInv ==
    ASSUME Init
    PROVE  TypeOK /\ Inv
<1>1. NewCR \in CRs
  BY ZenonT(60) DEF NewCR, CRs, Phases
<1>2. TypeOK
  BY ZenonT(60), <1>1, EmptyType, IdleType, BudgetAssumption DEF Init, TypeOK
<1>3. /\ \A w \in CRNames : crs[w].phase = "live"
      /\ \A c \in Controllers : job[c].pc = "idle"
  BY ZenonT(60) DEF Init, NewCR, Idle
<1> QED BY ZenonT(60), <1>2, <1>3 DEF Inv, Finalized, JobOwned, PolicyJob, MemberJob

\* The inductive invariant: TypeOK and Inv hold in every state.
THEOREM Invariance == Spec => [](TypeOK /\ Inv)
<1>1. (TypeOK /\ Inv) /\ [Next]_vars => (TypeOK /\ Inv)'
  BY ZenonT(60), StepType, StepInv
<1> QED BY <1>1, InitInv, PTL DEF Spec

(***************************************************************************)
(* The refinement of AccessPolicy.                                         *)
(***************************************************************************)

\* A change of one binding is a change of one grant.
LEMMA GrantsWith ==
    ASSUME policy \in Policies, NEW r \in Roles, NEW c \in Conds, NEW m \in Principals
    PROVE  /\ policy' = With(policy, r, c, m) => Grants' = Grants \cup {<<r, c, m>>}
           /\ policy' = Without(policy, r, c, m) => Grants' = Grants \ {<<r, c, m>>}
<1> DEFINE T == Roles \X Conds \X Principals
<1>1. <<r, c, m>> \in T
  BY ZenonT(60)
<1>2. Grants = {g \in T : g[3] \in policy[g[1]][g[2]]} /\
      Grants' = {g \in T : g[3] \in policy'[g[1]][g[2]]}
  BY ZenonT(60) DEF Grants
<1>3. \A g \in T : /\ g[1] \in Roles /\ g[2] \in Conds /\ g[3] \in Principals
                   /\ g = <<r, c, m>> <=> g[1] = r /\ g[2] = c /\ g[3] = m
  OBVIOUS
<1> HIDE DEF T
<1>4. ASSUME policy' = With(policy, r, c, m) PROVE Grants' = Grants \cup {<<r, c, m>>}
  <2>1. \A g \in T : g[3] \in policy'[g[1]][g[2]] <=>
                         g[3] \in policy[g[1]][g[2]] \/ g = <<r, c, m>>
    <3> TAKE g \in T
    <3>1. g[3] \in With(policy, r, c, m)[g[1]][g[2]] <=>
              g[3] \in policy[g[1]][g[2]] \/ (g[1] = r /\ g[2] = c /\ g[3] = m)
      BY SMTT(60), <1>3, WithAt
    <3> QED BY ZenonT(60), <1>3, <1>4, <3>1
  <2> QED BY ZenonT(60), <1>1, <1>2, <2>1
<1>5. ASSUME policy' = Without(policy, r, c, m) PROVE Grants' = Grants \ {<<r, c, m>>}
  <2>1. \A g \in T : g[3] \in policy'[g[1]][g[2]] <=>
                         g[3] \in policy[g[1]][g[2]] /\ g # <<r, c, m>>
    <3> TAKE g \in T
    <3>1. g[3] \in Without(policy, r, c, m)[g[1]][g[2]] <=>
              g[3] \in policy[g[1]][g[2]] /\ ~(g[1] = r /\ g[2] = c /\ g[3] = m)
      BY SMTT(30), <1>3, WithAt
    <3> QED BY ZenonT(60), <1>3, <1>5, <3>1
  <2> QED BY ZenonT(60), <1>1, <1>2, <2>1
<1> QED BY ZenonT(60), <1>4, <1>5

\* Steps that leave the policy and the phases alone stutter.
LEMMA Stutter ==
    ASSUME policy' = policy, \A w \in CRNames : crs'[w].phase = crs[w].phase
    PROVE  UNCHANGED <<Grants, PhaseOf>>
BY ZenonT(60) DEF Grants, PhaseOf

\* A Set of the member controller with a current etag grants or revokes.
LEMMA MemberWrite ==
    ASSUME TypeOK, Inv, job["member"].pc = "set", job["member"].fresh,
           policy' = job["member"].new, UNCHANGED crs
    PROVE  Access!Next \/ UNCHANGED <<Grants, PhaseOf>>
<1> DEFINE w == job["member"].cr
<1>1. w \in Members /\ crs[w].finalizer
  BY ZenonT(60) DEF Inv, JobOwned
<1>2. crs[w].phase # "gone"
  BY ZenonT(60), <1>1 DEF Inv, Finalized
<1>3. RoleOf[w] \in Roles /\ PrincipalOf[w] \in Principals /\ policy \in Policies
  BY ZenonT(60), <1>1, MembersAssumption DEF TypeOK
<1>4. PhaseOf[w] = crs[w].phase /\ UNCHANGED PhaseOf
  BY ZenonT(60), <1>1 DEF PhaseOf
<1>5. CASE policy' \in BindRoleToMember(w, policy)
  <2>1. PICK c \in Conds : policy' = With(policy, RoleOf[w], c, PrincipalOf[w])
    BY ZenonT(60), <1>1, <1>5, BindForm
  <2>2. Grants' = Grants \cup {<<RoleOf[w], c, PrincipalOf[w]>>}
    BY ZenonT(60), <1>3, <2>1, GrantsWith
  <2>3. Access!Grant(w)
    BY ZenonT(60), <1>2, <1>4, <2>2 DEF Access!Grant, Access!Own
  <2> QED BY ZenonT(60), <1>1, <2>3 DEF Access!Next
<1>6. CASE policy' \in UnbindRoleFromMember(w, policy) /\ crs[w].phase = "deleting"
  <2>1. CASE policy' = policy
    BY ZenonT(60), <2>1, Stutter
  <2>2. CASE \E c \in Conds : policy' = Without(policy, RoleOf[w], c, PrincipalOf[w])
    <3>1. PICK c \in Conds : policy' = Without(policy, RoleOf[w], c, PrincipalOf[w])
      BY ZenonT(60), <2>2
    <3>2. Grants' = Grants \ {<<RoleOf[w], c, PrincipalOf[w]>>}
      BY ZenonT(60), <1>3, <3>1, GrantsWith
    <3>3. Access!Revoke(w)
      BY ZenonT(60), <1>6, <1>4, <3>2 DEF Access!Revoke, Access!Own
    <3> QED BY ZenonT(60), <1>1, <3>3 DEF Access!Next
  <2> QED BY ZenonT(60), <1>1, <1>6, <2>1, <2>2, UnbindForm
<1> QED BY ZenonT(60), <1>5, <1>6 DEF Inv, MemberJob
\* A write of the whole policy by its owner.
LEMMA PolicyWrite ==
    ASSUME TypeOK, Inv, job["policy"].pc # "idle", NEW p, policy' = p, UNCHANGED crs,
           p \in PolicySpecs \/ (p = Empty /\ job["policy"].pc = "delete")
    PROVE  Access!Next
<1> DEFINE w == job["policy"].cr
<1>1. w \in PolicyCRs /\ crs[w].finalizer
  BY ZenonT(60) DEF Inv, JobOwned
<1>2. crs[w].phase # "gone"
  BY ZenonT(60), <1>1 DEF Inv, Finalized
<1>3. PhaseOf[w] = crs[w].phase /\ UNCHANGED PhaseOf
  BY ZenonT(60), <1>1 DEF PhaseOf
<1>4. Grants' = {g \in Roles \X Conds \X Principals : g[3] \in p[g[1]][g[2]]}
  BY ZenonT(60) DEF Grants
<1>5. CASE p \in PolicySpecs
  <2>1. Access!Replace(w)
    BY ZenonT(60), <1>2, <1>3, <1>4, <1>5 DEF Access!Replace
  <2> QED BY ZenonT(60), <1>1, <2>1 DEF Access!Next
<1>6. CASE p = Empty /\ job["policy"].pc = "delete"
  <2>1. \A g \in Roles \X Conds \X Principals : p[g[1]][g[2]] = {}
    BY ZenonT(60), <1>6 DEF Empty
  <2>2. Grants' = {}
    BY ZenonT(60), <1>4, <2>1
  <2>3. crs[w].phase = "deleting"
    BY ZenonT(60), <1>6 DEF Inv, JobOwned
  <2>4. Access!Clear(w)
    BY ZenonT(60), <1>3, <2>2, <2>3 DEF Access!Clear
  <2> QED BY ZenonT(60), <1>1, <2>4 DEF Access!Next
<1> QED BY ZenonT(60), <1>5, <1>6

\* A CR that is deleted, finalized or created.
LEMMA LifecycleStep ==
    ASSUME TypeOK, NEW w \in CRNames, NEW x, crs' = [crs EXCEPT ![w] = x], UNCHANGED policy,
           \/ crs[w].phase = "live" /\ x.phase \in {"deleting", "gone"}
           \/ crs[w].phase = "deleting" /\ x.phase = "gone"
           \/ crs[w].phase = "gone" /\ x.phase = "live"
    PROVE  Access!Next
<1>1. crs'[w] = x /\ \A v \in CRNames \ {w} : crs'[v] = crs[v]
  BY ZenonT(60) DEF TypeOK
<1>2. PhaseOf[w] = crs[w].phase
  BY ZenonT(60) DEF PhaseOf
<1>3. PhaseOf' = [PhaseOf EXCEPT ![w] = x.phase]
  <2>1. PhaseOf' = [v \in CRNames |-> crs'[v].phase]
    BY ZenonT(60) DEF PhaseOf
  <2>2. \A v \in CRNames : crs'[v].phase = IF v = w THEN x.phase ELSE PhaseOf[v]
    BY <1>1 DEF PhaseOf
  <2>3. PhaseOf \in [CRNames -> Phases]
    BY ZenonT(60) DEF PhaseOf, TypeOK, CRs
  <2> QED BY ZenonT(60), <2>1, <2>2, <2>3
<1>4. UNCHANGED Grants
  BY ZenonT(60) DEF Grants
<1>5. Access!Lifecycle(w)
  BY ZenonT(60), <1>2, <1>3, <1>4 DEF Access!Lifecycle
<1> QED BY ZenonT(60), <1>5 DEF Access!Next, Access!CRNames

\* Every step of the controllers and the other writers is one of AccessPolicy.
LEMMA StepRefines ==
    ASSUME TypeOK, Inv, [Next]_vars
    PROVE  [Access!Next]_<<Grants, PhaseOf>>
<1> SUFFICES Access!Next \/ UNCHANGED <<Grants, PhaseOf>>
  BY ZenonT(60)
<1>1. CASE Set("member")
  <2>1. CASE job["member"].fresh
    BY ZenonT(60), <1>1, <2>1, MemberWrite DEF Set, Write
  <2>2. CASE ~job["member"].fresh
    BY ZenonT(60), <1>1, <2>2, Stutter DEF Set
  <2> QED BY ZenonT(60), <2>1, <2>2
<1>2. CASE Set("policy")
  <2>1. CASE job["policy"].fresh
    <3>1. job["policy"].new \in PolicySpecs
      BY ZenonT(60), <1>2 DEF Set, Inv, PolicyJob
    <3> QED BY ZenonT(60), <1>2, <2>1, <3>1, PolicyWrite DEF Set, Write
  <2>2. CASE ~job["policy"].fresh
    BY ZenonT(60), <1>2, <2>2, Stutter DEF Set
  <2> QED BY ZenonT(60), <2>1, <2>2
<1>3. ASSUME NEW c \in Controllers, Unfinalize(c) PROVE Access!Next
  <2>1. job[c].cr \in CRNames /\ crs[job[c].cr].phase = "deleting"
    BY ZenonT(60), <1>3 DEF Unfinalize, Inv, JobOwned
  <2> DEFINE x == [crs[job[c].cr] EXCEPT !.phase = "gone", !.finalizer = FALSE]
  <2>2. x.phase = "gone"
    BY ZenonT(60), <2>1 DEF TypeOK, CRs
  <2>3. crs' = [crs EXCEPT ![job[c].cr] = x] /\ UNCHANGED policy
    BY ZenonT(60), <1>3 DEF Unfinalize
  <2> HIDE DEF x
  <2> QED BY ZenonT(60), <2>1, <2>2, <2>3, LifecycleStep
<1>4. ASSUME NEW w \in Members, MemberObserve(w) PROVE UNCHANGED <<Grants, PhaseOf>>
  <2>1. UNCHANGED policy /\ \A v \in CRNames : crs'[v].phase = crs[v].phase
    BY ZenonT(60), <1>4, BeginForm DEF MemberObserve
  <2> QED BY ZenonT(60), <2>1, Stutter
<1>5. CASE MemberCreate
  BY ZenonT(60), <1>5, Stutter DEF MemberCreate
<1>6. CASE MemberDelete
  BY ZenonT(60), <1>6, Stutter DEF MemberDelete
<1>7. ASSUME NEW w \in PolicyCRs, PolicyObserve(w) PROVE UNCHANGED <<Grants, PhaseOf>>
  <2>1. UNCHANGED policy /\ \A v \in CRNames : crs'[v].phase = crs[v].phase
    BY ZenonT(60), <1>7, BeginForm DEF PolicyObserve
  <2> QED BY ZenonT(60), <2>1, Stutter
<1>8. CASE PolicyCreate
  <2>1. job["policy"].want \in PolicySpecs
    BY ZenonT(60), <1>8 DEF PolicyCreate, Inv, PolicyJob
  <2> QED BY ZenonT(60), <1>8, <2>1, PolicyWrite DEF PolicyCreate, Write
<1>9. CASE PolicyUpdate
  BY ZenonT(60), <1>9, Stutter DEF PolicyUpdate
<1>10. CASE PolicyDelete
  BY ZenonT(60), <1>10, PolicyWrite DEF PolicyDelete, Write
<1>11. CASE OtherWrites
  <2>1. PICK g \in OtherGrants : policy' \in {With(policy, g[1], g[2], g[3]),
                                              Without(policy, g[1], g[2], g[3])}
    BY <1>11 DEF OtherWrites
  <2>2. /\ g[1] \in Roles /\ g[2] \in Conds /\ g[3] \in Principals
        /\ g = <<g[1], g[2], g[3]>>
    BY SMTT(60), OthersAssumption
  <2>3. Grants' \in {Grants \cup {g}, Grants \ {g}}
    BY SMTT(60), <2>1, <2>2, GrantsWith DEF TypeOK
  <2>4. UNCHANGED PhaseOf
    BY ZenonT(60), <1>11 DEF OtherWrites, PhaseOf
  <2> QED BY ZenonT(60), <2>3, <2>4 DEF Access!Next, Access!Other
<1>12. CASE Abort
  BY ZenonT(60), <1>12, Stutter DEF Abort
<1>13. CASE UserDelete
  <2>1. PICK w \in CRNames : crs[w].phase = "live" /\ crs' = [crs EXCEPT ![w] =
            [crs[w] EXCEPT !.phase = IF crs[w].finalizer THEN "deleting" ELSE "gone"]]
    BY ZenonT(60), <1>13 DEF UserDelete
  <2> DEFINE q == IF crs[w].finalizer THEN "deleting" ELSE "gone"
             x == [crs[w] EXCEPT !.phase = q]
  <2>2. x.phase = q
    BY ZenonT(60) DEF TypeOK, CRs
  <2>3. crs' = [crs EXCEPT ![w] = x] /\ UNCHANGED policy
    BY ZenonT(60), <1>13, <2>1 DEF UserDelete
  <2> HIDE DEF x
  <2> QED BY ZenonT(60), <2>1, <2>2, <2>3, LifecycleStep
<1>14. CASE UserCreate
  <2>1. NewCR.phase = "live"
    BY ZenonT(60) DEF NewCR
  <2> QED BY ZenonT(60), <1>14, <2>1, LifecycleStep DEF UserCreate
<1>15. CASE UserEdit
  BY ZenonT(60), <1>15, Stutter DEF UserEdit
<1>16. CASE UNCHANGED vars
  BY ZenonT(60), <1>16, Stutter DEF vars
<1> QED BY ZenonT(60), <1>1, <1>2, <1>3, <1>4, <1>5, <1>6, <1>7, <1>8, <1>9, <1>10, <1>11,
           <1>12,
           <1>13, <1>14, <1>15, <1>16 DEF Next, MemberStep, PolicyStep

\* OnlyOwnGrants for every instance: the controllers, with the etags they send and
\* do not send, implement AccessPolicy, in which a BucketPolicyMember changes no
\* grant but its own.
THEOREM OnlyOwnGrantsHolds == Spec => OnlyOwnGrants
<1>1. Init => Access!Init
  <2> SUFFICES ASSUME Init PROVE Access!Init
    OBVIOUS
  <2>1. \A g \in Roles \X Conds \X Principals : policy[g[1]][g[2]] = {}
    BY ZenonT(60) DEF Init, Empty
  <2>2. Grants = {}
    BY ZenonT(60), <2>1 DEF Grants
  <2>3. PhaseOf = [w \in CRNames |-> "live"]
    BY ZenonT(60) DEF Init, PhaseOf, NewCR
  <2> QED BY ZenonT(60), <2>2, <2>3 DEF Access!Init, Access!CRNames
<1>2. TypeOK /\ Inv /\ [Next]_vars => [Access!Next]_<<Grants, PhaseOf>>
  BY ZenonT(60), StepRefines
<1> QED BY <1>1, <1>2, Invariance, PTL DEF Spec, OnlyOwnGrants, Access!Spec
(***************************************************************************)
(* No grant is left behind.                                                *)
(***************************************************************************)

\* What GrantRevoked needs to be inductive: a CR without finalizer has no grant, and
\* neither has the one whose finalizer is about to be removed.
Revoked ==
    \A w \in Members : Exclusive(w) =>
        /\ ~crs[w].finalizer => ~Bound(w)
        /\ job["member"].pc = "unfinalize" /\ job["member"].cr = w => ~Bound(w)

\* Changes of other grants do not bind w.
LEMMA NotBound ==
    ASSUME policy \in Policies, NEW w \in Members, ~Bound(w),
           NEW r \in Roles, NEW c \in Conds, NEW m \in Principals,
           \/ policy' = policy
           \/ policy' = Without(policy, r, c, m)
           \/ policy' = With(policy, r, c, m) /\ <<r, m>> # <<RoleOf[w], PrincipalOf[w]>>
    PROVE  ~Bound(w)'
<1> SUFFICES ASSUME NEW d \in Conds PROVE PrincipalOf[w] \notin policy'[RoleOf[w]][d]
  BY ZenonT(60) DEF Bound
<1>1. RoleOf[w] \in Roles /\ PrincipalOf[w] \in Principals
  BY ZenonT(60), MembersAssumption
<1>2. PrincipalOf[w] \notin policy[RoleOf[w]][d]
  BY ZenonT(60) DEF Bound
<1>3. CASE policy' = Without(policy, r, c, m)
  BY ZenonT(60), <1>1, <1>2, <1>3, WithAt
<1>4. CASE policy' = With(policy, r, c, m) /\ <<r, m>> # <<RoleOf[w], PrincipalOf[w]>>
  BY SMTT(60), <1>1, <1>2, <1>4, WithAt
<1> QED BY ZenonT(60), <1>2, <1>3, <1>4

\* Where bindings have no conditions, binding a member that is bound changes nothing.
LEMMA BindChanges ==
    ASSUME Conds = {NoCond}, policy \in Policies, NEW w \in Members,
           NEW p \in BindRoleToMember(w, policy), p # policy
    PROVE  ~Bound(w)
<1> DEFINE r == RoleOf[w]
           m == PrincipalOf[w]
<1>1. r \in Roles /\ m \in Principals
  BY ZenonT(60), MembersAssumption
<1> HIDE DEF r, m
<1>2. p = With(policy, r, NoCond, m)
  BY ZenonT(60), BindForm DEF r, m
<1>3. ASSUME m \in policy[r][NoCond] PROVE FALSE
  <2>1. policy[r] \in [Conds -> SUBSET Principals]
    BY ZenonT(60), <1>1 DEF Policies
  <2>2. policy[r][NoCond] \cup {m} = policy[r][NoCond]
    BY ZenonT(60), <1>3
  <2>3. [policy[r] EXCEPT ![NoCond] = policy[r][NoCond]] = policy[r]
    BY ZenonT(60), <2>1
  <2>4. [policy EXCEPT ![r] = policy[r]] = policy
    BY ZenonT(60), <1>1 DEF Policies
  <2> QED BY ZenonT(60), <1>2, <2>2, <2>3, <2>4 DEF With
<1> QED BY ZenonT(60), <1>3 DEF Bound, r, m
\* A policy that its owner asks for, or the empty one, does not bind w.
LEMMA OwnerDoesNotBind ==
    ASSUME NEW w \in Members, Exclusive(w), policy' \in PolicySpecs \/ policy' = Empty
    PROVE  ~Bound(w)'
<1>1. RoleOf[w] \in Roles
  BY ZenonT(60), MembersAssumption
<1>2. CASE policy' \in PolicySpecs
  BY ZenonT(60), <1>2 DEF Exclusive, Bound
<1>3. CASE policy' = Empty
  BY ZenonT(60), <1>1, <1>3 DEF Bound, Empty
<1> QED BY ZenonT(60), <1>2, <1>3

\* Every step keeps Revoked.
LEMMA StepRevoked ==
    ASSUME Conds = {NoCond}, TypeOK, Inv, Revoked, [Next]_vars
    PROVE  Revoked'
<1> SUFFICES ASSUME NEW w \in Members, Exclusive(w)
             PROVE  /\ ~crs'[w].finalizer => ~Bound(w)'
                    /\ job'["member"].pc = "unfinalize" /\ job'["member"].cr = w => ~Bound(w)'
  BY ZenonT(60) DEF Revoked, Exclusive
<1>i. /\ ~crs[w].finalizer => ~Bound(w)
      /\ job["member"].pc = "unfinalize" /\ job["member"].cr = w => ~Bound(w)
  BY ZenonT(60) DEF Revoked
<1>b. policy' = policy => (Bound(w)' <=> Bound(w))
  BY ZenonT(60) DEF Bound
<1>p. policy \in Policies
  BY ZenonT(60) DEF TypeOK
<1>1. CASE Set("member")
  <2>1. CASE job["member"].fresh
    <3> DEFINE v == job["member"].cr
    <3>1. v \in Members /\ crs[v].finalizer
      BY ZenonT(60), <1>1 DEF Set, Inv, JobOwned
    <3>2. job'["member"].pc = "idle" /\ policy' = job["member"].new /\ UNCHANGED crs
      BY ZenonT(60), <1>1, <2>1, WriteForm DEF Set, Write
    <3>3. SUFFICES ASSUME ~crs[w].finalizer PROVE ~Bound(w)'
      BY ZenonT(60), <3>2
    <3>4. ~Bound(w) /\ v # w
      BY ZenonT(60), <1>i, <3>1, <3>3
    <3>5. <<RoleOf[v], PrincipalOf[v]>> # <<RoleOf[w], PrincipalOf[w]>>
      BY ZenonT(60), <3>1, <3>4 DEF Exclusive
    <3>6. RoleOf[v] \in Roles /\ PrincipalOf[v] \in Principals
      BY ZenonT(60), <3>1, MembersAssumption
    <3>7. policy' \in BindRoleToMember(v, policy) \/ policy' \in UnbindRoleFromMember(v, policy)
      BY ZenonT(60), <1>1, <2>1, <3>2 DEF Set, Inv, MemberJob
    <3> HIDE DEF v
    <3>8. \/ policy' = policy
          \/ \E c \in Conds : \/ policy' = With(policy, RoleOf[v], c, PrincipalOf[v])
                              \/ policy' = Without(policy, RoleOf[v], c, PrincipalOf[v])
      <4>1. CASE policy' \in BindRoleToMember(v, policy)
        BY ZenonT(60), <3>1, <4>1, BindForm
      <4>2. CASE policy' \in UnbindRoleFromMember(v, policy)
        BY ZenonT(60), <3>1, <4>2, UnbindForm
      <4> QED
        BY ZenonT(60), <3>7, <4>1, <4>2
    <3> QED BY ZenonT(60), <1>b, <1>p, <3>4, <3>5, <3>6, <3>8, NotBound
  <2>2. CASE ~job["member"].fresh
    BY ZenonT(60), <1>1, <2>2, <1>i, <1>b, EndForm DEF Set
  <2> QED BY ZenonT(60), <2>1, <2>2
<1>2. CASE Set("policy")
  <2>1. CASE job["policy"].fresh
    <3>1. policy' \in PolicySpecs
      BY ZenonT(60), <1>2, <2>1 DEF Set, Write, Inv, PolicyJob
    <3> QED BY ZenonT(60), <3>1, OwnerDoesNotBind
  <2>2. CASE ~job["policy"].fresh
    BY ZenonT(60), <1>2, <2>2, <1>i, <1>b, EndForm DEF Set
  <2> QED BY ZenonT(60), <2>1, <2>2
<1>3. CASE Unfinalize("member")
  <2>1. job["member"].cr \in Members
    BY ZenonT(60), <1>3 DEF Unfinalize, Inv, JobOwned
  <2>2. \A v \in CRNames \ {job["member"].cr} : crs'[v] = crs[v]
    BY ZenonT(60), <1>3, <2>1 DEF Unfinalize, TypeOK
  <2> QED BY ZenonT(60), <1>3, <1>i, <1>b, <2>2, EndForm DEF Unfinalize
<1>4. CASE Unfinalize("policy")
  <2>1. job["policy"].cr \in PolicyCRs
    BY ZenonT(60), <1>4 DEF Unfinalize, Inv, JobOwned
  <2>2. crs'[w] = crs[w]
    BY ZenonT(60), <1>4, <2>1, PolicyAssumption DEF Unfinalize, TypeOK
  <2> QED BY ZenonT(60), <1>4, <1>i, <1>b, <2>2, EndForm DEF Unfinalize
<1>5. ASSUME NEW v \in Members, MemberObserve(v)
      PROVE  /\ ~crs'[w].finalizer => ~Bound(w)'
             /\ job'["member"].pc = "unfinalize" /\ job'["member"].cr = w => ~Bound(w)'
  <2>1. PICK p \in BindRoleToMember(v, policy) : Begin("member", v, p = policy, p = policy)
    BY ZenonT(60), <1>5 DEF MemberObserve
  <2>2. UNCHANGED policy
    BY ZenonT(60), <1>5 DEF MemberObserve
  <2>3. ~crs'[w].finalizer => ~crs[w].finalizer
    BY ZenonT(60), <2>1, BeginForm
  <2>4. job'["member"].pc = "unfinalize" => job'["member"].cr = v /\ p # policy
    BY ZenonT(60), <2>1, BeginForm
  <2>5. p # policy => ~Bound(v)
    BY ZenonT(60), <1>p, BindChanges
  <2> QED BY ZenonT(60), <1>i, <1>b, <2>2, <2>3, <2>4, <2>5
<1>6. CASE MemberCreate \/ MemberDelete
  <2>1. PICK p, b : Read("member", p, b)
    BY ZenonT(60), <1>6 DEF MemberCreate, MemberDelete
  <2>2. job'["member"].pc \in {"idle", "set"}
    BY ZenonT(60), <2>1, EndForm DEF Read, TypeOK, Jobs
  <2> QED BY ZenonT(60), <1>6, <1>i, <1>b, <2>2 DEF MemberCreate, MemberDelete
<1>7. ASSUME NEW v \in PolicyCRs, PolicyObserve(v)
      PROVE  /\ ~crs'[w].finalizer => ~Bound(w)'
             /\ job'["member"].pc = "unfinalize" /\ job'["member"].cr = w => ~Bound(w)'
  <2>1. crs'[w] = crs[w] /\ job'["member"] = job["member"]
    <3>1. v \in CRNames /\ w \in CRNames \ {v}
      BY ZenonT(60), PolicyAssumption DEF CRNames
    <3>2. "policy" \in Controllers /\ "member" \in Controllers \ {"policy"}
      BY ZenonT(60) DEF Controllers
    <3>3. PICK u : Begin("policy", v, ~IsEmpty(policy), u)
      BY ZenonT(60), <1>7 DEF PolicyObserve
    <3> QED
      BY ZenonT(60), <3>1, <3>2, <3>3, BeginForm
  <2> QED BY ZenonT(60), <1>7, <1>i, <1>b, <2>1 DEF PolicyObserve
<1>8. CASE PolicyCreate
  <2>1. policy' \in PolicySpecs
    BY ZenonT(60), <1>8 DEF PolicyCreate, Write, Inv, PolicyJob
  <2> QED BY <2>1, OwnerDoesNotBind
<1>9. CASE PolicyUpdate
  <2>1. job'["member"] = job["member"]
    BY ZenonT(60), <1>9, EndForm DEF PolicyUpdate, Read, TypeOK
  <2> QED BY ZenonT(60), <1>9, <1>i, <1>b, <2>1 DEF PolicyUpdate
<1>10. CASE PolicyDelete
  <2>1. policy' = Empty
    BY ZenonT(60), <1>10 DEF PolicyDelete, Write
  <2> QED BY ZenonT(60), <2>1, OwnerDoesNotBind
<1>11. CASE OtherWrites
  <2>1. PICK g \in OtherGrants : policy' \in {With(policy, g[1], g[2], g[3]),
                                              Without(policy, g[1], g[2], g[3])}
    BY ZenonT(60), <1>11 DEF OtherWrites
  <2>2. /\ g[1] \in Roles /\ g[2] \in Conds /\ g[3] \in Principals
        /\ <<g[1], g[3]>> # <<RoleOf[w], PrincipalOf[w]>>
    BY ZenonT(60), OthersAssumption DEF Exclusive
  <2>3. ~Bound(w) => ~Bound(w)'
    BY ZenonT(60), <1>p, <2>1, <2>2, NotBound
  <2>4. job'["member"].pc = job["member"].pc /\ job'["member"].cr = job["member"].cr
    BY ZenonT(60), <1>11 DEF OtherWrites, TypeOK, Jobs
  <2> QED BY ZenonT(60), <1>11, <1>i, <2>3, <2>4 DEF OtherWrites
<1>12. CASE Abort
  BY ZenonT(60), <1>12, <1>i, <1>b, EndForm DEF Abort
<1>13. CASE UserDelete
  <2>1. crs'[w].finalizer = crs[w].finalizer
    BY ZenonT(60), <1>13 DEF UserDelete, TypeOK, CRs
  <2> QED BY ZenonT(60), <1>13, <1>i, <1>b, <2>1 DEF UserDelete
<1>14. CASE UserCreate
  <2>1. crs'[w] = crs[w] \/ crs[w].phase = "gone"
    BY ZenonT(60), <1>14 DEF UserCreate, TypeOK
  <2> QED BY ZenonT(60), <1>14, <1>i, <1>b, <2>1 DEF UserCreate, Inv, Finalized
<1>15. CASE UserEdit
  BY ZenonT(60), <1>15, <1>i, <1>b DEF UserEdit
<1>16. CASE UNCHANGED vars
  BY ZenonT(60), <1>16, <1>i, <1>b DEF vars
<1> QED BY ZenonT(60), <1>1, <1>2, <1>3, <1>4, <1>5, <1>6, <1>7, <1>8, <1>9, <1>10, <1>11,
           <1>12,
           <1>13, <1>14, <1>15, <1>16 DEF Next, MemberStep, PolicyStep

\* GrantRevoked for every instance in which bindings have no conditions: the
\* finalizer of a BucketPolicyMember outlives its grant.
THEOREM GrantRevokedHolds ==
    ASSUME Conds = {NoCond}
    PROVE  Spec => []GrantRevoked
<1>1. Init => Revoked
  <2> SUFFICES ASSUME Init, NEW w \in Members PROVE ~Bound(w)
    BY ZenonT(60) DEF Revoked
  <2> QED BY ZenonT(60), MembersAssumption DEF Init, Empty, Bound
<1>2. TypeOK /\ Inv /\ Revoked /\ [Next]_vars => Revoked'
  BY ZenonT(60), StepRevoked
<1>3. Inv /\ Revoked => GrantRevoked
  BY ZenonT(60) DEF Inv, Finalized, Revoked, GrantRevoked, Bound
<1> QED BY <1>1, <1>2, <1>3, Invariance, PTL DEF Spec
=============================================================================
