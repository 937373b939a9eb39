------------------------------- MODULE Fields -------------------------------
(***************************************************************************)
(* How the clients of the provider treat one setting of a resource.        *)
(*                                                                         *)
(* A spec (spec.forProvider of a CR) and a configuration (what GCP holds)  *)
(* are functions from the same set of field names.  A field of the spec is *)
(* a pointer, Nil when it is not set, or a plain string, number, list or   *)
(* map, which is not set when it has Go's zero value.  A method of a       *)
(* controller is modelled by the request it sends and by what it sets in   *)
(* the CR; Resources.tla runs the methods.                                 *)
(***************************************************************************)
EXTENDS Naturals

CONSTANTS Values,  \* the values of a field in GCP
          Zero,    \* Go's zero value: an absent or empty setting
          Nil      \* the pointer is not set in the spec

ASSUME ValuesAssumption == Zero \in Values /\ Nil \notin Values

\* StringValue, Int64Value, BoolValue: a nil pointer is sent as zero.
ValueOf(v) == IF v = Nil THEN Zero ELSE v

Unset(f, v, plain) == v = Nil \/ (f \in plain /\ v = Zero)

\* Mutant: the observed value wins over the one in the spec.
FillAlways(spec, conf, plain, fs) ==
    [f \in DOMAIN spec |->
        IF f \in fs /\ conf[f] # Zero THEN conf[f] ELSE spec[f]]

\* LateInitializeString, -Int64, -Bool, -StringSlice, -StringMap: the fields
\* fs that are not set take the value GCP has, if it has one.
FillUnset(spec, conf, plain, fs) ==
    [f \in DOMAIN spec |->
        IF f \in fs /\ Unset(f, spec[f], plain) /\ conf[f] # Zero
        THEN conf[f] ELSE spec[f]]

\* A Generate... function: the fields of `always` are assigned, nil as zero,
\* the others only when the spec sets them.
Generated(spec, conf, always) ==
    [f \in DOMAIN spec |->
        IF f \in always \/ spec[f] # Nil THEN ValueOf(spec[f]) ELSE conf[f]]

Nothing(spec) == [f \in DOMAIN spec |-> Zero]

(***************************************************************************)
(* Requests: the fields a call sets, with their values.                    *)
(***************************************************************************)

Restricted(gen, fs) == [f \in DOMAIN gen \cap fs |-> gen[f]]

\* The body of a request: "GCP API clients omit any field set to its zero
\* value" unless it is named in ForceSendFields.
Body(gen, forced) == Restricted(gen, {f \in DOMAIN gen : gen[f] # Zero} \cup forced)

\* A body with an update mask: the fields of the mask, omitted or not.
Masked(gen, mask) == Restricted(gen, mask)

\* What an update asks of GCP: no call, a call, or a nil dereference.
NoCall == [call |-> "none", set |-> <<>>]
Patch(set) == [call |-> "patch", set |-> set]
NilDereference == [call |-> "panic", set |-> <<>>]

\* What GCP has after accepting a request.
Applied(set, conf) ==
    [f \in DOMAIN conf |-> IF f \in DOMAIN set THEN set[f] ELSE conf[f]]

(***************************************************************************)
(* What a method does to the CR.                                           *)
(***************************************************************************)

\* Observe: the late-initialized spec, the spec left in memory, the Ready
\* condition ("" to leave it) and ResourceUpToDate.
Seen(spec, mem, ready, upToDate) ==
    [spec |-> spec, mem |-> mem, ready |-> ready, upToDate |-> upToDate]

\* Create: the condition set before the call and the body of the call.
Creation(ready, set) == [ready |-> ready, set |-> set]

\* Delete: the condition set, and whether there is a call to make.
Deletion(ready, calls) == [ready |-> ready, calls |-> calls]
=============================================================================
