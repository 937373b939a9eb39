--------------------------- MODULE ManagedProofs ---------------------------
(***************************************************************************)
(* The reconciler's own steps, and those of the people who write the CR,   *)
(* keep the CR well typed and keep ManagedInv.  Every controller's proof   *)
(* cites these lemmas and adds only the steps of its own methods.          *)
(***************************************************************************)
EXTENDS Managed, TLAPS

\* A CR as a person creates it, and the empty in-memory copy, are CRs.
LEMMA NewCRType == \A s \in Specs : NewCR(s) \in CRs
BY ZenonT(60), StatesAssumption DEF NewCR, CRs, Phases, Readies

\* A CR that does not exist has no finalizer.
LEMMA BlankType == Blank \in CRs /\ ~Blank.finalizer /\ Blank.phase = "gone"
<1>1. (CHOOSE s \in Specs : TRUE) \in Specs
  BY SpecsAssumption
<1>. QED
  BY ZenonT(60), <1>1, StatesAssumption DEF Blank, NewCR, CRs, Phases, Readies

\* The initial states are well typed and satisfy the invariant.
LEMMA ManagedInitOK == ManagedInit => ManagedTypeOK /\ ManagedInv
<1>. SUFFICES ASSUME ManagedInit PROVE ManagedTypeOK /\ ManagedInv
  OBVIOUS
<1>1. PICK s \in Specs : kube = NewCR(s)
  BY DEF ManagedInit
<1>2. ManagedTypeOK
  BY ZenonT(60), <1>1, NewCRType, BlankType, BudgetAssumption
  DEF ManagedInit, ManagedTypeOK, NotThere, Observations, PCs
<1>3. ManagedInv
  BY ZenonT(60), <1>1, BlankType
  DEF ManagedInit, ManagedInv, FreshAgrees, FinalizerHolds, NewCR
<1>. QED
  BY <1>2, <1>3

\* Typing: the reconciler's steps.
LEMMA ManagedStepType == ManagedTypeOK /\ ManagedStep => ManagedTypeOK'
<1>. SUFFICES ASSUME ManagedTypeOK, ManagedStep PROVE ManagedTypeOK'
  OBVIOUS
<1>. USE DEF ManagedTypeOK, PCs
<1>1. CASE Start
  BY <1>1 DEF Start
<1>2. CASE DecideDeleting
  BY <1>2 DEF DecideDeleting
<1>3. CASE DecideLive
  <2>1. pc' \in PCs
    BY <1>3 DEF DecideLive, Dispatch, Observations
  <2>2. kube' \in CRs /\ cr' \in CRs
    <3>1. Decoded(cr) \in CRs
      BY ZenonT(60) DEF Decoded, CRs
    <3>2. [Decoded(cr) EXCEPT !.finalizer = TRUE] \in CRs
      BY ZenonT(60), <3>1 DEF CRs
    <3>3. [kube EXCEPT !.finalizer = TRUE, !.spec = cr.spec] \in CRs
      BY ZenonT(60) DEF CRs
    <3>. QED
      BY ZenonT(60), <1>3, <3>2, <3>3 DEF DecideLive
  <2>. QED
    BY <1>3, <2>1, <2>2 DEF DecideLive
<1>4. CASE Unfinalize
  <2>1. kube' \in CRs
    BY ZenonT(60), <1>4 DEF Unfinalize, CRs, Phases
  <2>. QED
    BY ZenonT(60), <1>4, <2>1, BlankType DEF Unfinalize, Idle, NotThere, Observations
<1>5. CASE Finish
  <2>1. kube' \in CRs
    BY ZenonT(60), <1>5 DEF Finish, CRs
  <2>. QED
    BY ZenonT(60), <1>5, <2>1, BlankType DEF Finish, Idle, NotThere, Observations
<1>6. CASE Restart
  BY ZenonT(60), <1>6, BlankType DEF Restart, Idle, NotThere, Observations
<1>. QED
  BY <1>1, <1>2, <1>3, <1>4, <1>5, <1>6 DEF ManagedStep

\* A disturbance leaves a natural number of them.
LEMMA DisturbType == budget \in Nat /\ Disturb => budget' \in Nat
BY DEF Disturb

\* Typing: a crash, and the steps of people.
LEMMA CrashType == ManagedTypeOK /\ Crash => ManagedTypeOK'
<1>. SUFFICES ASSUME ManagedTypeOK, Crash PROVE ManagedTypeOK'
  OBVIOUS
<1>1. budget' \in Nat
  BY DisturbType DEF Crash, ManagedTypeOK
<1>. QED
  BY ZenonT(60), <1>1, BlankType DEF Crash, Idle, ManagedTypeOK, NotThere, Observations, PCs

\* What people do to a CR keeps it well typed.
LEMMA UserStepType == ManagedTypeOK /\ UserStep => ManagedTypeOK'
<1>. SUFFICES ASSUME ManagedTypeOK, UserStep PROVE ManagedTypeOK'
  OBVIOUS
<1>1. CASE UserCreate
  <2>1. kube' \in CRs
    BY <1>1, NewCRType DEF UserCreate
  <2>. QED
    BY ZenonT(60), <1>1, <2>1, DisturbType DEF UserCreate, ManagedTypeOK
<1>2. CASE UserEdit
  <2>1. kube' \in CRs
    BY <1>2 DEF UserEdit, ManagedTypeOK, CRs
  <2>. QED
    BY ZenonT(60), <1>2, <2>1, DisturbType DEF UserEdit, ManagedTypeOK
<1>3. CASE UserDelete
  <2>1. kube' \in CRs
    BY <1>3 DEF UserDelete, ManagedTypeOK, CRs, Phases
  <2>. QED
    BY ZenonT(60), <1>3, <2>1, DisturbType DEF UserDelete, ManagedTypeOK
<1>. QED
  BY <1>1, <1>2, <1>3 DEF UserStep

\* The invariant: the reconciler's steps.
LEMMA ManagedStepInv ==
    ManagedTypeOK /\ ManagedInv /\ ManagedStep => ManagedInv'
<1>. SUFFICES ASSUME ManagedTypeOK, ManagedInv, ManagedStep PROVE ManagedInv'
  OBVIOUS
<1>. USE DEF ManagedInv, FreshAgrees, FinalizerHolds
<1>1. CASE Start
  BY <1>1 DEF Start
<1>2. CASE DecideDeleting
  BY <1>2 DEF DecideDeleting
<1>3. CASE DecideLive
  <2>1. CASE cr.finalizer
    BY ZenonT(60), <1>3, <2>1 DEF DecideLive, Dispatch, ManagedTypeOK, Observations
  <2>2. CASE ~cr.finalizer /\ ~fresh
    BY <1>3, <2>2 DEF DecideLive
  <2>3. CASE ~cr.finalizer /\ fresh
    <3>1. /\ kube'.phase = kube.phase /\ kube'.finalizer /\ kube'.spec = cr.spec
          /\ cr'.phase = cr.phase /\ cr'.finalizer /\ cr'.spec = cr.spec
      BY ZenonT(60), <1>3, <2>3 DEF DecideLive, Decoded, ManagedTypeOK, CRs
    <3>2. pc' \in {"create", "finish"} \/ (pc' = "update" /\ obs.exists)
      BY <1>3, <2>3 DEF DecideLive, Dispatch, ManagedTypeOK, Observations
    <3>. QED
      BY <1>3, <2>3, <3>1, <3>2 DEF DecideLive
  <2>. QED
    BY <2>1, <2>2, <2>3
<1>4. CASE Unfinalize
  BY ZenonT(60), <1>4, BlankType DEF Unfinalize, Idle, ManagedTypeOK, CRs
<1>5. CASE Finish
  <2>1. kube'.phase = kube.phase /\ kube'.finalizer = kube.finalizer
    BY <1>5 DEF Finish, ManagedTypeOK, CRs
  <2>. QED
    BY <1>5, <2>1, BlankType DEF Finish, Idle
<1>6. CASE Restart
  BY <1>6, BlankType DEF Restart, Idle
<1>. QED
  BY <1>1, <1>2, <1>3, <1>4, <1>5, <1>6 DEF ManagedStep

\* The invariant: a crash, and the steps of people.
LEMMA CrashInv == ManagedInv /\ Crash => ManagedInv'
BY BlankType DEF Crash, Idle, ManagedInv, FreshAgrees, FinalizerHolds

\* What people do to a CR keeps what the reconciler's copy of it promises.
LEMMA UserStepInv == ManagedTypeOK /\ ManagedInv /\ UserStep => ManagedInv'
<1>. SUFFICES ASSUME ManagedTypeOK, ManagedInv, UserStep PROVE ManagedInv'
  OBVIOUS
<1>. USE DEF ManagedInv, FreshAgrees, FinalizerHolds
<1>1. CASE UserCreate
  <2>1. PICK s \in Specs : kube' = NewCR(s)
    BY <1>1 DEF UserCreate
  <2>2. kube'.phase = "live" /\ ~cr.finalizer
    BY ZenonT(60), <1>1, <2>1 DEF UserCreate, NewCR
  <2>. QED
    BY <1>1, <2>2 DEF UserCreate
<1>2. CASE UserEdit
  BY <1>2 DEF UserEdit, ManagedTypeOK, CRs
<1>3. CASE UserDelete
  BY <1>3 DEF UserDelete, ManagedTypeOK, CRs
<1>. QED
  BY <1>1, <1>2, <1>3 DEF UserStep

\* What does not depend on the spec: the reconciler's steps, a crash and the
\* steps of people.
LEMMA LifecycleStepInv ==
    ManagedTypeOK /\ LifecycleInv /\ ManagedStep => LifecycleInv'
<1>. SUFFICES ASSUME ManagedTypeOK, LifecycleInv, ManagedStep PROVE LifecycleInv'
  OBVIOUS
<1>. USE DEF LifecycleInv, FinalizerHolds
<1>1. CASE Start
  BY <1>1 DEF Start
<1>2. CASE DecideDeleting
  BY <1>2 DEF DecideDeleting
<1>3. CASE DecideLive
  <2>1. CASE cr.finalizer
    BY ZenonT(60), <1>3, <2>1 DEF DecideLive, Dispatch, ManagedTypeOK, Observations
  <2>2. CASE ~cr.finalizer /\ ~fresh
    BY <1>3, <2>2 DEF DecideLive
  <2>3. CASE ~cr.finalizer /\ fresh
    <3>1. /\ kube'.phase = kube.phase /\ kube'.finalizer
          /\ cr'.phase = cr.phase /\ cr'.finalizer
      BY ZenonT(60), <1>3, <2>3 DEF DecideLive, Decoded, ManagedTypeOK, CRs
    <3>2. pc' \in {"create", "finish"} \/ (pc' = "update" /\ obs.exists)
      BY <1>3, <2>3 DEF DecideLive, Dispatch, ManagedTypeOK, Observations
    <3>. QED
      BY <1>3, <2>3, <3>1, <3>2 DEF DecideLive
  <2>. QED
    BY <2>1, <2>2, <2>3
<1>4. CASE Unfinalize
  <2>1. /\ kube'.phase \in {kube.phase, "gone"}
        /\ kube'.phase = "gone" => ~kube'.finalizer
        /\ kube'.phase = "deleting" => kube'.finalizer
    BY <1>4 DEF Unfinalize, ManagedTypeOK, CRs
  <2>. QED
    BY ZenonT(60), <1>4, <2>1, BlankType DEF Unfinalize, Idle
<1>5. CASE Finish
  <2>1. kube'.phase = kube.phase /\ kube'.finalizer = kube.finalizer
    BY <1>5 DEF Finish, ManagedTypeOK, CRs
  <2>. QED
    BY <1>5, <2>1, BlankType DEF Finish, Idle
<1>6. CASE Restart
  BY <1>6, BlankType DEF Restart, Idle
<1>. QED
  BY <1>1, <1>2, <1>3, <1>4, <1>5, <1>6 DEF ManagedStep

\* A crash keeps it.
LEMMA LifecycleCrashInv == LifecycleInv /\ Crash => LifecycleInv'
BY BlankType DEF Crash, Idle, LifecycleInv, FinalizerHolds

\* What people do keeps it.
LEMMA LifecycleUserInv == ManagedTypeOK /\ LifecycleInv /\ UserStep => LifecycleInv'
<1>. SUFFICES ASSUME ManagedTypeOK, LifecycleInv, UserStep PROVE LifecycleInv'
  OBVIOUS
<1>. USE DEF LifecycleInv, FinalizerHolds
<1>1. CASE UserCreate
  <2>1. PICK s \in Specs : kube' = NewCR(s)
    BY <1>1 DEF UserCreate
  <2>2. kube'.phase = "live" /\ ~cr.finalizer
    BY ZenonT(60), <1>1, <2>1 DEF UserCreate, NewCR
  <2>. QED
    BY <1>1, <2>2 DEF UserCreate
<1>2. CASE UserEdit
  BY <1>2 DEF UserEdit, ManagedTypeOK, CRs
<1>3. CASE UserDelete
  BY <1>3 DEF UserDelete, ManagedTypeOK, CRs
<1>. QED
  BY <1>1, <1>2, <1>3 DEF UserStep
=============================================================================
