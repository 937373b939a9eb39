------------------------------- MODULE PubSub -------------------------------
(***************************************************************************)
(* The Pub/Sub controllers (pkg/controller/pubsub) and their clients       *)
(* (pkg/clients/topic, pkg/clients/subscription).                          *)
(*                                                                         *)
(* A topic has a short name and a fully qualified one.  Short is a name as *)
(* people write it, Full its qualified form, which is what GCP returns,    *)
(* and Wrong stands for a name that was qualified twice.                   *)
(***************************************************************************)
EXTENDS Fields

CONSTANTS Default,            \* the acknowledgement deadline of 10 seconds
          Short, Full, Wrong  \* names of the dead letter topic

ASSUME NamesAssumption ==
    /\ {Default, Short, Full, Wrong} \cap (Values \cup {Nil}) = {}
    /\ Short # Full /\ Wrong \notin {Default, Short, Full}

(***************************************************************************)
(* Topic.                                                                  *)
(***************************************************************************)

TopicParameters == {"KmsKeyName", "Labels", "MessageStoragePolicy"}
TopicPlain == {"Labels"}

TopicLateInitialize(spec, conf) == FillUnset(spec, conf, TopicPlain, TopicParameters)

GenerateTopic(spec) == Generated(spec, Nothing(spec), TopicParameters)

\* What LateInitialize makes of empty parameters: the configuration, seen as
\* a spec.
TopicObserved(conf) ==
    [f \in DOMAIN conf |-> IF conf[f] = Zero /\ f \notin TopicPlain THEN Nil ELSE conf[f]]

TopicIsUpToDate(spec, conf) == TopicObserved(conf) = spec

TopicObserve(spec, conf) ==
    LET late == TopicLateInitialize(spec, conf)
    IN  Seen(late, late, "Available", TopicIsUpToDate(late, conf))

TopicCreate(spec) == Creation("Creating", Body(GenerateTopic(spec), {}))

\* GenerateUpdateRequest: the mask has no entry for the key name.
TopicUpdateMask(spec, conf) ==
    {f \in DOMAIN spec \cap {"Labels", "MessageStoragePolicy"} :
        spec[f] # TopicObserved(conf)[f]}

TopicUpdate(spec, conf) == Patch(Masked(GenerateTopic(spec), TopicUpdateMask(spec, conf)))

TopicDelete == Deletion("", TRUE)

(***************************************************************************)
(* Subscription.                                                           *)
(***************************************************************************)

SubscriptionGroups == {"DeadLetterPolicy", "ExpirationPolicy", "PushConfig", "RetryPolicy"}

SubscriptionPlain ==
    {"AckDeadlineSeconds", "Detached", "EnableMessageOrdering", "Filter",
     "Labels", "MessageRetentionDuration", "RetainAckedMessages", "Topic"}

SubscriptionParameters == SubscriptionPlain \cup SubscriptionGroups

TopicNames == {"DeadLetterPolicy", "Topic"}

\* GetFullyQualifiedName of a topic.
Qualified(name) == CASE name \in {Nil, Zero} -> name
                     [] name = Short -> Full
                     [] OTHER -> Wrong

\* A deadline of 10 seconds counts as unset.
SubscriptionLateInitialize(spec, conf) ==
    [f \in DOMAIN spec |->
        IF f = "AckDeadlineSeconds" /\ spec[f] = Default /\ conf[f] # Zero THEN conf[f]
        ELSE FillUnset(spec, conf, SubscriptionPlain, SubscriptionParameters)[f]]

\* setDeadLetterPolicy, setExpirationPolicy, setPushConfig and setRetryPolicy
\* assign what is not nil; names of topics are qualified.
GenerateSubscription(spec) ==
    [f \in DOMAIN spec |-> IF f \in TopicNames THEN Qualified(ValueOf(spec[f]))
                                               ELSE ValueOf(spec[f])]

SubscriptionObserved(conf) ==
    [f \in DOMAIN conf |->
        IF conf[f] = Zero /\ f \notin SubscriptionPlain THEN Nil ELSE conf[f]]

SubscriptionIsUpToDate(spec, conf) ==
    SubscriptionObserved(conf)
        = [f \in DOMAIN spec |-> IF f \in TopicNames THEN Qualified(spec[f]) ELSE spec[f]]

\* IsUpToDate gets a copy of the parameters, but the copy shares the dead
\* letter policy: the topic is qualified in the CR in memory too.
QualifiedInPlace(spec) ==
    [f \in DOMAIN spec |-> IF f = "DeadLetterPolicy" THEN Qualified(spec[f]) ELSE spec[f]]

SubscriptionObserve(spec, conf) ==
    LET late == SubscriptionLateInitialize(spec, conf)
    IN  Seen(late, QualifiedInPlace(late), "Available", SubscriptionIsUpToDate(late, conf))

SubscriptionCreate(spec) == Creation("Creating", Body(GenerateSubscription(spec), {}))

\* "enableMessageOrdering, deadLetterPolicy, topic are not mutable".
SubscriptionUpdateMask(spec, conf) ==
    {f \in DOMAIN spec \ {"EnableMessageOrdering", "DeadLetterPolicy", "Topic"} :
        spec[f] # SubscriptionObserved(conf)[f]}

SubscriptionUpdate(spec, conf) ==
    Patch(Masked([f \in DOMAIN spec |-> ValueOf(spec[f])], SubscriptionUpdateMask(spec, conf)))

SubscriptionDelete == Deletion("", TRUE)

\* GCP has no topic with a name that was qualified twice, and refuses an
\* update with an empty mask.
PubSubRefuses(set) == DOMAIN set = {} \/ \E f \in DOMAIN set : set[f] = Wrong
=============================================================================
