------------------------------ MODULE Storage ------------------------------
(***************************************************************************)
(* Bucket (pkg/controller/storage/bucket.go), whose controller converts    *)
(* between its API types and those of the storage client with the New...   *)
(* and CopyTo... functions of apis/storage/v1alpha3.                       *)
(*                                                                         *)
(* A label is a field of its own: LabelA and LabelB.                       *)
(***************************************************************************)
EXTENDS Fields

CONSTANT Dated  \* lifecycle rules that all have a createdBefore

ASSUME DatedAssumption == Dated \notin Values \cup {Nil}

BucketLabels == {"LabelA", "LabelB"}

\* The storage client returns them empty; they only go out with a request.
PredefinedACLs == {"PredefinedACL", "PredefinedDefaultObjectACL"}

\* Lists of ACL rules, copied rule by rule with the project team of each.
ACLRules == {"ACL", "DefaultObjectACL"}

\* CopyTo... keeps nil for these, which the storage client does not send.
NilIsNotSent == {"CORS", "Encryption", "Logging", "Website"}

BucketUpdatableAttrs ==
    BucketLabels \cup PredefinedACLs \cup NilIsNotSent \cup
    {"BucketPolicyOnly", "DefaultEventBasedHold", "Lifecycle", "RequesterPays",
     "RetentionPolicy", "VersioningEnabled"}

BucketSpecAttrs == BucketUpdatableAttrs \cup ACLRules \cup {"Location", "StorageClass"}

BucketPlain == BucketSpecAttrs \ {"BucketPolicyOnly", "Encryption", "Logging",
                                  "RetentionPolicy", "Website"}

\* No policy of GCP is no pointer; no pointer is a policy of zero seconds.
NewRetentionPolicy(rp) == IF rp = Zero THEN Nil ELSE rp
CopyToRetentionPolicy(rp) == ValueOf(rp)

\* The same for the uniform access of the bucket: nil turns it off.
NewBucketPolicyOnly(bp) == IF bp = Zero THEN Nil ELSE bp
CopyToBucketPolicyOnly(bp) == ValueOf(bp)

NewBucketUpdatableAttrs(conf) ==
    [f \in DOMAIN conf \cap BucketUpdatableAttrs |->
        CASE f = "RetentionPolicy" -> NewRetentionPolicy(conf[f])
          [] f = "BucketPolicyOnly" -> NewBucketPolicyOnly(conf[f])
          [] conf[f] = Zero /\ f \notin BucketPlain -> Nil
          [] OTHER -> conf[f]]

NewBucketSpecAttrs(conf) ==
    [f \in DOMAIN conf |-> IF f \in BucketUpdatableAttrs
                           THEN NewBucketUpdatableAttrs(conf)[f] ELSE conf[f]]

\* The values of the settings in the storage client's format.
CopyToBucketAttrs(spec) ==
    [f \in DOMAIN spec |-> CASE f = "RetentionPolicy" -> CopyToRetentionPolicy(spec[f])
                             [] f = "BucketPolicyOnly" -> CopyToBucketPolicyOnly(spec[f])
                             [] OTHER -> ValueOf(spec[f])]

\* The default object ACL is not copied.
CopyBucketSpecAttrs(spec) ==
    Restricted(CopyToBucketAttrs(spec), DOMAIN spec \ {"DefaultObjectACL"})

\* The settings an update sends: labels of the bucket that the spec does not
\* have are deleted.
CopyToBucketUpdateAttrs(spec, labels) ==
    Restricted(CopyToBucketAttrs(spec),
               {f \in DOMAIN spec \cap BucketUpdatableAttrs :
                   CASE f \in BucketLabels -> spec[f] # Zero \/ f \in labels
                     [] f \in NilIsNotSent \cup PredefinedACLs -> ~Unset(f, spec[f], BucketPlain)
                     [] OTHER -> TRUE})

\* mergo.Merge fills every empty field: false, missing labels and what is
\* empty behind a pointer included.
BucketLateInitialize(spec, conf) ==
    LET new == NewBucketSpecAttrs(conf)
    IN  [f \in DOMAIN spec |->
            IF spec[f] \in {Zero, Nil} /\ new[f] \notin {Zero, Nil} THEN new[f] ELSE spec[f]]

\* NewLifecycleCondition always makes a createdBefore, the zero date if the
\* rule has none, and the spec, in which that is null, never has the zero date:
\* only rules that all have a date compare as equal.
LifecyclesEqual(conf) == "Lifecycle" \in DOMAIN conf => conf["Lifecycle"] \in {Zero, Dated}

BucketIsUpToDate(spec, conf) ==
    /\ NewBucketUpdatableAttrs(conf) = Restricted(spec, BucketUpdatableAttrs)
    /\ LifecyclesEqual(conf)

BucketObserve(spec, conf) ==
    LET late == BucketLateInitialize(spec, conf)
    IN  Seen(late, late, "Available", BucketIsUpToDate(late, conf))

\* What GCP keeps of a request.
BucketKeeps(set) == Restricted(set, DOMAIN set \ PredefinedACLs)

BucketCreate(spec) == Creation("", BucketKeeps(Body(CopyBucketSpecAttrs(spec), {})))

BucketUpdate(spec, conf) ==
    LET labels == {f \in DOMAIN conf \cap BucketLabels : conf[f] # Zero}
    IN  Patch(BucketKeeps(CopyToBucketUpdateAttrs(spec, labels)))

BucketDelete == Deletion("", TRUE)
=============================================================================
