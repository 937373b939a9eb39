------------------------------ MODULE Managed ------------------------------
(***************************************************************************)
(* The part every controller of the provider shares and that is not in     *)
(* this repository: the custom resource (CR) kept by the Kubernetes API    *)
(* server and the reconciler of crossplane-runtime (managed.NewReconciler) *)
(* that calls a controller's Observe, Create, Update and Delete.           *)
(*                                                                         *)
(* A reconcile reads the CR into memory, observes the external resource,   *)
(* decides which of the controller's methods to call, and ends with a      *)
(* Status().Update of the in-memory copy.  The API server accepts a write  *)
(* only if the copy's resourceVersion is still the stored one; `fresh` is  *)
(* that comparison.  People edit, delete and re-create the CR at any time. *)
(* Every step that is not the system's own progress (an edit, a failed     *)
(* call, a crash of the provider) consumes one unit of `budget`.           *)
(***************************************************************************)
EXTENDS Naturals

CONSTANTS Specs,           \* the values of spec.forProvider
          States,          \* the values of status.atProvider.status, "" when empty
          MaxDisturbances  \* bound on edits, failures, crashes and drift

ASSUME SpecsAssumption == Specs # {}
ASSUME StatesAssumption == "" \in States
ASSUME BudgetAssumption == MaxDisturbances \in Nat

VARIABLES kube,   \* the stored CR
          cr,     \* the reconciler's in-memory copy of it
          fresh,  \* cr's resourceVersion is the stored one
          obs,    \* what the last Observe returned
          pc,     \* where the reconcile is
          budget  \* disturbances left

managedVars == <<kube, cr, fresh, obs, pc, budget>>

Phases == {"live", "deleting", "gone"}
Readies == {"", "Creating", "Available", "Unavailable", "Deleting"}
PCs == {"idle", "observe", "decide", "create", "update", "updateCall",
        "record", "publish", "delete", "unfinalize", "finish", "panic"}

CRs == [phase : Phases, finalizer : BOOLEAN, spec : Specs,
        state : States, ready : Readies]

\* managed.ExternalObservation; wrote says that Observe persisted a
\* late-initialized spec.
Observations == [exists : BOOLEAN, upToDate : BOOLEAN, wrote : BOOLEAN]

NotThere == [exists |-> FALSE, upToDate |-> FALSE, wrote |-> FALSE]

NewCR(spec) == [phase |-> "live", finalizer |-> FALSE, spec |-> spec,
                state |-> "", ready |-> ""]

\* The in-memory copy outside a reconcile.
Blank == [NewCR(CHOOSE s \in Specs : TRUE) EXCEPT !.phase = "gone"]

ManagedTypeOK ==
    /\ kube \in CRs
    /\ cr \in CRs
    /\ fresh \in BOOLEAN
    /\ obs \in Observations
    /\ pc \in PCs
    /\ budget \in Nat

ManagedInit ==
    /\ kube \in {NewCR(s) : s \in Specs}
    /\ cr = Blank
    /\ fresh = FALSE
    /\ obs = NotThere
    /\ pc = "idle"
    /\ budget = MaxDisturbances

Disturb == budget > 0 /\ budget' = budget - 1

(***************************************************************************)
(* The reconciler.                                                         *)
(***************************************************************************)

\* The copy is dropped when a reconcile ends.
Idle ==
    /\ pc' = "idle"
    /\ cr' = Blank
    /\ fresh' = FALSE
    /\ obs' = NotThere

\* A reconcile starts from the stored object; connecting to GCP succeeds.
Start ==
    /\ pc = "idle"
    /\ kube.phase # "gone"
    /\ cr' = kube
    /\ fresh' = TRUE
    /\ pc' = "observe"
    /\ UNCHANGED <<kube, obs, budget>>

\* client.Update decodes the API server's response into the object it was
\* given: the status in the response is the stored one, and the fields it
\* holds replace those in memory.
Decoded(obj) ==
    [obj EXCEPT !.state = IF kube.state = "" THEN @ ELSE kube.state,
                !.ready = IF kube.ready = "" THEN @ ELSE kube.ready]

\* Which of the controller's methods a live CR needs.
Dispatch == CASE ~obs.exists -> "create"
              [] obs.exists /\ obs.upToDate -> "finish"
              [] obs.exists /\ ~obs.upToDate -> "update"

\* A deleted CR goes to Delete while the external resource exists and loses
\* its finalizer once it does not.
DecideDeleting ==
    /\ pc = "decide"
    /\ cr.phase = "deleting"
    /\ pc' = IF obs.exists THEN "delete" ELSE "unfinalize"
    /\ UNCHANGED <<kube, cr, fresh, obs, budget>>

\* A live CR gets its finalizer before anything is created for it.
DecideLive ==
    /\ pc = "decide"
    /\ cr.phase = "live"
    /\ IF cr.finalizer
       THEN /\ pc' = Dispatch
            /\ UNCHANGED <<kube, cr>>
       ELSE IF fresh
       THEN /\ kube' = [kube EXCEPT !.finalizer = TRUE, !.spec = cr.spec]
            /\ cr' = [Decoded(cr) EXCEPT !.finalizer = TRUE]
            /\ pc' = Dispatch
       ELSE /\ pc' = "finish"
            /\ UNCHANGED <<kube, cr>>
    /\ UNCHANGED <<fresh, obs, budget>>

\* Removing the last finalizer of a deleted CR makes it disappear.
Unfinalize ==
    /\ pc = "unfinalize"
    /\ kube' = IF fresh THEN [kube EXCEPT !.phase = "gone", !.finalizer = FALSE]
                        ELSE kube
    /\ Idle
    /\ UNCHANGED budget

\* Status().Update: the end of every reconcile, successful or not.
Finish ==
    /\ pc = "finish"
    /\ kube' = IF fresh THEN [kube EXCEPT !.state = cr.state, !.ready = cr.ready]
                        ELSE kube
    /\ Idle
    /\ UNCHANGED budget

\* The provider stops anywhere in a reconcile, or a write to the API server
\* fails: what was only in memory is lost.
Crash ==
    /\ pc \notin {"idle", "panic"}
    /\ Disturb
    /\ Idle
    /\ UNCHANGED kube

\* The process is restarted after a panic and reconciles again.
Restart ==
    /\ pc = "panic"
    /\ Idle
    /\ UNCHANGED <<kube, budget>>

ManagedStep == Start \/ DecideDeleting \/ DecideLive \/ Unfinalize \/ Finish
                     \/ Restart

(***************************************************************************)
(* People and tools that write the CR.                                     *)
(***************************************************************************)

UserCreate ==
    /\ kube.phase = "gone"
    /\ Disturb
    /\ kube' \in {NewCR(s) : s \in Specs}
    /\ fresh' = FALSE
    /\ UNCHANGED <<cr, obs, pc>>

UserEdit ==
    /\ kube.phase # "gone"
    /\ Disturb
    /\ \E s \in Specs \ {kube.spec} : kube' = [kube EXCEPT !.spec = s]
    /\ fresh' = FALSE
    /\ UNCHANGED <<cr, obs, pc>>

UserDelete ==
    /\ kube.phase = "live"
    /\ Disturb
    /\ kube' = [kube EXCEPT !.phase = IF kube.finalizer THEN "deleting" ELSE "gone"]
    /\ fresh' = FALSE
    /\ UNCHANGED <<cr, obs, pc>>

UserStep == UserCreate \/ UserEdit \/ UserDelete

(***************************************************************************)
(* What the reconciler and the API server keep between them, whatever the  *)
(* controller: the in-memory copy agrees with the stored CR while it is    *)
(* fresh, and the finalizer is there before the controller's methods that  *)
(* change the external resource are called, and until the CR is gone.      *)
(***************************************************************************)
FreshAgrees ==
    fresh => /\ cr.phase = kube.phase
             /\ cr.finalizer = kube.finalizer
             /\ cr.spec = kube.spec

FinalizerHolds ==
    /\ kube.phase = "gone" => ~kube.finalizer
    /\ kube.phase = "deleting" => kube.finalizer
    /\ cr.phase = "deleting" => cr.finalizer
    /\ cr.finalizer => kube.finalizer
    /\ pc \in {"create", "update", "updateCall", "delete"} => cr.finalizer
    /\ pc \in {"update", "updateCall"} => obs.exists

ManagedInv == FreshAgrees /\ FinalizerHolds

\* The same for a controller whose Observe leaves a spec in memory that is not
\* the stored one.
LifecycleInv ==
    /\ fresh => cr.phase = kube.phase /\ cr.finalizer = kube.finalizer
    /\ FinalizerHolds
=============================================================================
