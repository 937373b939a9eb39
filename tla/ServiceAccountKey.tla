------------------------- MODULE ServiceAccountKey -------------------------
(***************************************************************************)
(* The controller of ServiceAccountKey.  IAM names a key when it creates   *)
(* it and shows its private half only then, so three writes must follow    *)
(* each other: keys.create, the key's id in the CR's external-name         *)
(* annotation, the private key in the connection secret.  Everything that  *)
(* stops the provider between them loses something for good.               *)
(*                                                                         *)
(* Managed's `spec` is the external-name annotation here, the only part of *)
(* the CR that changes: 0 while there is none.  The key's parameters are   *)
(* immutable, and its public key type is the default one.                  *)
(***************************************************************************)
EXTENDS Managed

CONSTANT MaxKeys \* bound on the keys that are ever created

ASSUME KeysAssumption == MaxKeys \in Nat /\ Specs = 0 .. MaxKeys

Keys == 1 .. MaxKeys

VARIABLES active,    \* the keys that exist in IAM
          made,      \* the last key created
          allowed,   \* whether IAM lets the provider at the service account's keys
          withdrawn, \* history: whether access has ever been withdrawn
          created,   \* the key in the response of keys.create, 0 outside of Create
          secret,    \* the keys whose halves are in the connection secret
          dropped    \* history: where the provider stopped with a new key in hand

vars == <<managedVars, active, made, allowed, withdrawn, created, secret, dropped>>
keyVars == <<active, made, allowed, withdrawn, created, secret, dropped>>

NoSecret == [private |-> 0, public |-> 0]
Dropped == [unrecorded : SUBSET Keys, unpublished : SUBSET Keys]

TypeOK ==
    /\ ManagedTypeOK
    /\ active \subseteq Keys
    /\ made \in 0 .. MaxKeys
    /\ allowed \in BOOLEAN /\ withdrawn \in BOOLEAN
    /\ created \in 0 .. MaxKeys
    /\ secret \in [private : 0 .. MaxKeys, public : 0 .. MaxKeys]
    /\ dropped \in Dropped

Init ==
    /\ ManagedInit
    /\ kube = NewCR(0)
    /\ active = {}
    /\ made = 0
    /\ allowed = TRUE /\ withdrawn = FALSE
    /\ created = 0
    /\ secret = NoSecret
    /\ dropped = [unrecorded |-> {}, unpublished |-> {}]

(***************************************************************************)
(* The controller, and the two writes of the reconciler that follow its    *)
(* Create.                                                                 *)
(***************************************************************************)

\* Mutant: every error of keys.get is ignored.
ObserveAbsentOnError ==
    /\ pc = "observe"
    /\ cr.spec = 0 \/ budget > 0
    /\ obs' = NotThere
    /\ pc' = "decide"
    /\ UNCHANGED <<kube, cr, fresh, budget, keyVars>>

\* There is no external name, or keys.get answers 404 or 403.
ObserveAbsent ==
    /\ pc = "observe"
    /\ cr.spec = 0 \/ cr.spec \notin active \/ ~allowed
    /\ obs' = NotThere
    /\ pc' = "decide"
    /\ UNCHANGED <<kube, cr, fresh, budget, keyVars>>

\* Mutant: Observe returns both halves as connection details, the private one
\* made of what keys.get answers.
ObserveTellsBoth ==
    /\ pc = "observe"
    /\ cr.spec \in active /\ allowed
    /\ cr' = [cr EXCEPT !.ready = "Available"]
    /\ obs' = [exists |-> TRUE, upToDate |-> TRUE, wrote |-> FALSE]
    /\ secret' = IF cr.phase = "live" THEN [private |-> cr.spec, public |-> cr.spec] ELSE secret
    /\ pc' = "decide"
    /\ UNCHANGED <<kube, fresh, budget, active, made, allowed, withdrawn, created, dropped>>

\* A key that exists is up to date.  The reconciler publishes what Observe
\* returns, the public half, unless the CR is being deleted; what the secret
\* holds besides stays.
Observe ==
    /\ pc = "observe"
    /\ cr.spec \in active /\ allowed
    /\ cr' = [cr EXCEPT !.ready = "Available"]
    /\ obs' = [exists |-> TRUE, upToDate |-> TRUE, wrote |-> FALSE]
    /\ secret' = IF cr.phase = "live" THEN [secret EXCEPT !.public = cr.spec] ELSE secret
    /\ pc' = "decide"
    /\ UNCHANGED <<kube, fresh, budget, active, made, allowed, withdrawn, created, dropped>>

\* keys.create returns the new key; it fails with 403 while access is denied.
Create ==
    /\ pc = "create"
    /\ IF allowed
       THEN /\ made < MaxKeys
            /\ made' = made + 1
            /\ active' = active \cup {made + 1}
            /\ created' = made + 1
            /\ pc' = "record"
       ELSE /\ pc' = "finish"
            /\ UNCHANGED <<made, active, created>>
    /\ UNCHANGED <<kube, cr, fresh, obs, budget, allowed, withdrawn, secret, dropped>>

\* keys.create has created the key, and Create returns an error: the response
\* was lost, or the key data or the name in it could not be decoded.
CreateLost ==
    /\ pc = "create"
    /\ allowed
    /\ Disturb
    /\ made < MaxKeys
    /\ made' = made + 1
    /\ active' = active \cup {made + 1}
    /\ dropped' = [dropped EXCEPT !.unrecorded = @ \cup {made + 1}]
    /\ pc' = "finish"
    /\ UNCHANGED <<kube, cr, fresh, obs, allowed, withdrawn, created, secret>>

\* ExternalNameAssigned: the reconciler reads the CR again and stores the
\* external name in it, retrying on conflicts.
RecordName ==
    /\ pc = "record"
    /\ kube' = [kube EXCEPT !.spec = created]
    /\ cr' = [kube EXCEPT !.spec = created]
    /\ fresh' = TRUE
    /\ pc' = "publish"
    /\ UNCHANGED <<obs, budget, keyVars>>

\* Mutant: Create returns no connection details.
PublishNothing ==
    /\ pc = "publish"
    /\ created' = 0
    /\ pc' = "finish"
    /\ UNCHANGED <<kube, cr, fresh, obs, budget, active, made, allowed, withdrawn, secret, dropped>>

\* The connection details of Create: only here is the private half published.
PublishConnection ==
    /\ pc = "publish"
    /\ secret' = [secret EXCEPT !.private = created]
    /\ created' = 0
    /\ pc' = "finish"
    /\ UNCHANGED <<kube, cr, fresh, obs, budget, active, made, allowed, withdrawn, dropped>>

\* Mutant: the key is left to expire.
DeleteNothing ==
    /\ pc = "delete"
    /\ pc' = "finish"
    /\ UNCHANGED <<kube, cr, fresh, obs, budget, keyVars>>

\* keys.delete; a 404 is not an error, a 403 is.
Delete ==
    /\ pc = "delete"
    /\ active' = IF allowed THEN active \ {cr.spec} ELSE active
    /\ pc' = "finish"
    /\ UNCHANGED <<kube, cr, fresh, obs, budget, made, allowed, withdrawn, created, secret, dropped>>

\* A call fails before it has an effect.
CallFails ==
    /\ pc \in {"observe", "create", "delete"}
    /\ Disturb
    /\ pc' = "finish"
    /\ UNCHANGED <<kube, cr, fresh, obs, keyVars>>

\* The provider stops, or the API server refuses a write for good: the response
\* of keys.create is gone with the reconcile.
Stop ==
    /\ Crash
    /\ created' = 0
    /\ dropped' = CASE pc = "record" ->
                            [dropped EXCEPT !.unrecorded = @ \cup {created}]
                    [] pc = "publish" ->
                            [dropped EXCEPT !.unpublished = @ \cup {created}]
                    [] OTHER -> dropped
    /\ UNCHANGED <<active, made, allowed, withdrawn, secret>>

\* The secret belongs to the CR and goes with it.
Gone ==
    /\ Unfinalize
    /\ secret' = IF kube'.phase = "gone" THEN NoSecret ELSE secret
    /\ UNCHANGED <<active, made, allowed, withdrawn, created, dropped>>

Reconcile ==
    \/ (Start \/ DecideDeleting \/ DecideLive \/ Finish) /\ UNCHANGED keyVars
    \/ Gone
    \/ ObserveAbsent \/ Observe \/ Create \/ RecordName \/ PublishConnection \/ Delete

(***************************************************************************)
(* IAM and people.                                                         *)
(***************************************************************************)

\* Somebody deletes a key.
KeyDeleted ==
    /\ Disturb
    /\ \E k \in active : active' = active \ {k}
    /\ UNCHANGED <<kube, cr, fresh, obs, pc, made, allowed, withdrawn, created, secret, dropped>>

\* Access to the keys is withdrawn for a while.
Forbid ==
    /\ allowed
    /\ Disturb
    /\ allowed' = FALSE /\ withdrawn' = TRUE
    /\ UNCHANGED <<kube, cr, fresh, obs, pc, active, made, created, secret, dropped>>

Allow ==
    /\ ~allowed
    /\ allowed' = TRUE
    /\ UNCHANGED <<managedVars, withdrawn, active, made, created, secret, dropped>>

\* A new CR has no external name.
CreateCR ==
    /\ UserCreate
    /\ kube'.spec = 0
    /\ UNCHANGED keyVars

Next ==
    \/ Reconcile \/ CreateLost \/ CallFails \/ Stop
    \/ KeyDeleted \/ Forbid \/ Allow
    \/ CreateCR
    \/ UserDelete /\ UNCHANGED keyVars

Spec == Init /\ [][Next]_vars
FairSpec == Spec /\ WF_vars(Reconcile) /\ WF_vars(Allow)

(***************************************************************************)
(* Properties.                                                             *)
(***************************************************************************)

\* Keys that Create made and whose id reached the CR.
Recorded == active \ dropped.unrecorded

\* A key is never forgotten except in the response of keys.create: every other
\* key is the one the CR names, or in the hands of the reconcile that made it,
\* and once the CR is gone there is none.  This holds while access to the keys
\* has not been withdrawn: Observe takes a 403 for a key that does not exist.
NoOrphanKey ==
    ~withdrawn =>
        /\ Recorded \subseteq {kube.spec, created}
        /\ kube.phase = "gone" => Recorded = {}

\* A new key is made only when there is none the CR could name, so that a CR
\* never has two, while access to the keys has not been withdrawn.
NoSecondKey == [][made' > made /\ ~withdrawn => kube.spec \notin active]_vars

\* The reconciler's copy has the stored name, and a CR that has not got its
\* finalizer yet has none; a CR that disappears during a reconcile is such a CR.
NameInv ==
    /\ pc # "idle" => cr.spec = kube.spec
    /\ kube.phase = "live" /\ ~kube.finalizer => kube.spec = 0
    /\ kube.phase = "gone" /\ pc # "idle" => kube.spec = 0
    /\ kube.spec <= made

\* Create and the removal of the finalizer are reached only when the key the CR
\* names does not exist, unless access has been withdrawn; the response of keys.create is in hand until published.
StepInv ==
    /\ pc \in {"record", "publish"} <=> created # 0
    /\ created <= made
    /\ pc \in {"record", "publish"} => kube.finalizer
    /\ pc = "publish" => kube.spec = created
    /\ /\ ~withdrawn
       /\ (pc = "decide" /\ ~obs.exists) \/ pc \in {"create", "record", "unfinalize"}
       => kube.spec \notin active

\* The inductive invariant behind NoOrphanKey and NoSecondKey.
Inv ==
    /\ ManagedInv
    /\ pc # "panic"
    /\ withdrawn \/ allowed
    /\ \A k \in active : k <= made
    /\ NameInv /\ StepInv /\ NoOrphanKey

\* The private half of a key is told once: the controller implements Credential,
\* with the answer of keys.create in hand until it is published.
Credentials == INSTANCE Credential WITH issued <- made, inHand <- created,
                                        told <- secret.private
ToldOnce == Credentials!Spec

\* The private half is in the secret before the CR says Available, unless the
\* provider stopped between naming the key and publishing it: the code has no
\* second chance to read it.
AvailableHasPrivateKey ==
    kube.phase # "gone" /\ kube.ready = "Available" /\ pc # "publish" =>
        secret.private = kube.spec \/ kube.spec \in dropped.unpublished

\* The inductive form: it does not depend on the Ready condition, and a CR that is
\* gone has taken its secret along.
SecretInv ==
    /\ kube.phase = "gone" => secret.private = 0
    /\ kube.phase # "gone" /\ pc # "publish" =>
          secret.private = kube.spec \/ kube.spec \in dropped.unpublished

\* What the comment in Observe says of a 403: "It should be safe to ignore this
\* error and assume that the key doesn't exist".  It is if a CR that is gone has
\* left none of the keys it named.
SafeToIgnoreForbidden == kube.phase = "gone" => Recorded = {}

\* Once the disturbances stop, a live CR has a key and a secret with both its
\* halves, the private one as far as it was ever published, and a deleted CR is
\* gone.  The bound on keys is not reached: each disturbance costs one at most.
Settles ==
    <>[](\/ kube.phase = "gone"
         \/ /\ kube.phase = "live"
            /\ kube.spec \in active
            /\ kube.ready = "Available"
            /\ secret.public = kube.spec
            /\ secret.private = kube.spec \/ kube.spec \in dropped.unpublished)
=============================================================================
