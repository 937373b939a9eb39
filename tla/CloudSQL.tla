------------------------------ MODULE CloudSQL ------------------------------
(***************************************************************************)
(* The CloudSQLInstance controller (pkg/controller/database/cloudsql.go)   *)
(* with its client (pkg/clients/cloudsql).  Create makes up the root       *)
(* password, and only the connection secret keeps it.                      *)
(*                                                                         *)
(* Values are numbers, 0 Go's zero value.  Of the labels only whether the  *)
(* provider's tags are among them is kept.  IPConfiguration is present if  *)
(* one of its fields is.                                                   *)
(***************************************************************************)
EXTENDS Managed, Fields, Sequences

CONSTANTS SQLFields  \* the fields of this instance

TopScalars ==
    {"DatabaseVersion", "GceZone", "InstanceType", "MasterInstanceName",
     "MaxDiskSize", "Region", "ReplicaNames", "SuspensionReason"}

SettingsScalars ==
    {"ActivationPolicy", "AuthorizedGaeApplications", "AvailabilityType",
     "CrashSafeReplicationEnabled", "DataDiskSizeGb", "DataDiskType",
     "DatabaseReplicationEnabled", "PricingPlan", "ReplicationType",
     "StorageAutoResize", "StorageAutoResizeLimit", "Tier", "UserLabels"}

TopGroups == {"DiskEncryptionConfiguration", "FailoverReplica", "OnPremisesConfiguration"}
BackupConfiguration ==
    {"BinaryLogEnabled", "Enabled", "Location", "ReplicationLogArchivingEnabled",
     "StartTime", "PointInTimeRecoveryEnabled"}
IPConfiguration == {"Ipv4Enabled", "PrivateNetwork", "RequireSsl", "AuthorizedNetworks"}
LocationPreference == {"FollowGaeApplication", "Zone"}
MaintenanceWindow == {"Day", "Hour", "UpdateTrack"}

Scalars == TopScalars \cup SettingsScalars
Groups == BackupConfiguration \cup IPConfiguration \cup LocationPreference \cup
          MaintenanceWindow \cup TopGroups \cup {"DatabaseFlags"}

CloudSQLInstanceParameters == Scalars \cup Groups

CloudSQLPlain ==
    {"Region", "ReplicaNames", "SuspensionReason", "Tier", "UserLabels",
     "AuthorizedGaeApplications", "AuthorizedNetworks", "DatabaseFlags"}

DBStates == {"PENDING_CREATE", "RUNNABLE", "SUSPENDED", "MAINTENANCE", "FAILED",
             "PENDING_DELETE"}

SQLValues(f) == CASE f \in {"StorageAutoResize", "UserLabels", "Ipv4Enabled"} -> {0, 1}
                  [] f \in {"DataDiskSizeGb", "Region", "Tier"} -> Values \ {0}
                  [] OTHER -> Values

Confs == {c \in [SQLFields -> Values] : \A f \in SQLFields : c[f] \in SQLValues(f)}

SQLSpecs == {s \in [SQLFields -> Values \cup {Nil}] :
                \A f \in SQLFields : s[f] \in SQLValues(f) \cup
                                        (IF f \in CloudSQLPlain THEN {} ELSE {Nil})}

ASSUME SQLValuesAssumption == {0, 1} \subseteq Values /\ Values \subseteq Nat /\ Zero = 0
ASSUME SQLFieldsAssumption ==
    /\ SQLFields \subseteq CloudSQLInstanceParameters
    /\ {"DataDiskSizeGb", "StorageAutoResize", "UserLabels"} \subseteq SQLFields
ASSUME SQLSpecsAssumption == Specs = SQLSpecs
ASSUME SQLStatesAssumption == States = DBStates \cup {""}

VARIABLES db,      \* the instance in Cloud SQL and the operation running on it
          issued,  \* how many instances, and root passwords, there have been
          conn,    \* the connection details about to be published
          secret,  \* the connection secret
          lost     \* history: passwords that were in no one's hands any more

vars == <<managedVars, db, issued, conn, secret, lost>>
sqlVars == <<db, issued, conn, secret, lost>>

\* A deleted instance's name stays reserved for a while.
NoDB(state) == [state |-> state, conf |-> <<>>, op |-> "none", to |-> <<>>,
                password |-> 0, ips |-> <<>>]
Exists == db.state \notin {"absent", "reserved"}

IPLists == {<<"PRIMARY", "PRIVATE">>, <<"PRIVATE", "PRIMARY">>}

SecretKeys == {"password", "endpoint", "privateIP", "publicIP"}
NoAddress == [type |-> "", of |-> 0]
NoSecret == [password |-> 0, endpoint |-> NoAddress, privateIP |-> NoAddress,
             publicIP |-> NoAddress]
NoDetails == <<>>

(***************************************************************************)
(* Pure functions of the client.                                           *)
(***************************************************************************)

GenerateDatabaseInstance(spec, conf) ==
    Generated(spec, conf, Scalars)

\* The zero values that are sent: StorageAutoResize is a pointer in the API
\* too, and Ipv4Enabled is in ForceSendFields of IpConfiguration.
ForceSendFields(spec) ==
    {f \in {"StorageAutoResize"} : spec[f] # Nil} \cup
    {f \in {"Ipv4Enabled"} : \E g \in IPConfiguration \cap SQLFields : spec[g] # Nil}

DatabaseInstanceBody(spec) ==
    Body(GenerateDatabaseInstance(spec, [f \in SQLFields |-> 0]), ForceSendFields(spec))

\* Mutant: the size of the disk is treated like any other field.
FollowGrownDiskNot(spec, conf) == spec

\* "If storage auto resize enabled, GCP does not allow setting a smaller size
\* but allows increasing it."
FollowGrownDisk(spec, conf) ==
    IF ValueOf(spec["StorageAutoResize"]) = 1
       /\ ValueOf(spec["DataDiskSizeGb"]) < conf["DataDiskSizeGb"]
    THEN [spec EXCEPT !["DataDiskSizeGb"] = conf["DataDiskSizeGb"]]
    ELSE spec

LateInitializeScalars(spec, conf) == FillUnset(spec, conf, CloudSQLPlain, Scalars)
LateInitializeGroups(spec, conf) == FillUnset(spec, conf, CloudSQLPlain, Groups)

\* StorageAutoResize is copied as a pointer: false is a value like any other.
LateInitializeSpec(spec, conf) ==
    LET filled == LateInitializeGroups(LateInitializeScalars(spec, conf), conf)
    IN  FollowGrownDisk([filled EXCEPT !["StorageAutoResize"] =
                            IF @ = Nil THEN conf["StorageAutoResize"] ELSE @], conf)

IsUpToDate(spec, conf) == GenerateDatabaseInstance(spec, conf) = conf

\* What the status keeps of the instance.
GenerateObservation(d) == [state |-> d.state, ips |-> d.ips]

\* Mutant: the last address is the endpoint.
AddressDetailsLast(m, type, of) ==
    LET a == [type |-> type, of |-> of] IN
    [k \in DOMAIN m \cup {"endpoint", IF type = "PRIVATE" THEN "privateIP" ELSE "publicIP"} |->
        IF k = "endpoint" \/ k = (IF type = "PRIVATE" THEN "privateIP" ELSE "publicIP")
        THEN a ELSE m[k]]

\* One address of the instance: a private one is the endpoint, a public one
\* if there is no endpoint yet.
AddressDetails(m, type, of) ==
    LET a == [type |-> type, of |-> of] IN
    [k \in DOMAIN m \cup {"endpoint", IF type = "PRIVATE" THEN "privateIP" ELSE "publicIP"} |->
        CASE k = "privateIP" /\ type = "PRIVATE" -> a
          [] k = "publicIP" /\ type = "PRIMARY" -> a
          [] k = "endpoint" /\ (type = "PRIVATE" \/ k \notin DOMAIN m) -> a
          [] OTHER -> m[k]]

\* The loop over the addresses; user, connection name and certificates of
\* the instance are left out.
getConnectionDetails(ips, of) ==
    LET m[i \in 0 .. Len(ips)] ==
            IF i = 0 THEN NoDetails ELSE AddressDetails(m[i - 1], ips[i], of)
    IN  m[Len(ips)]

\* cloudsqlTagger: the tags are among the labels.
Tagged(spec) == [spec EXCEPT !["UserLabels"] = 1]

(***************************************************************************)
(* A reconcile.                                                            *)
(***************************************************************************)

\* The CR is read; the initializers come first.
Begin ==
    /\ pc = "idle"
    /\ kube.phase # "gone"
    /\ cr' = kube
    /\ fresh' = TRUE
    /\ pc' = "record"
    /\ UNCHANGED <<kube, obs, budget, sqlVars>>

\* Initialize writes the CR in every reconcile.
Initialize ==
    /\ pc = "record"
    /\ cr' = [cr EXCEPT !.spec = Tagged(@)]
    /\ kube' = IF fresh THEN [kube EXCEPT !.spec = Tagged(cr.spec)] ELSE kube
    /\ pc' = IF fresh THEN "observe" ELSE "finish"
    /\ UNCHANGED <<fresh, obs, budget, sqlVars>>

\* Mutant: an instance that is being deleted counts as gone.
ObserveAbsentOrDeleting ==
    /\ pc = "observe"
    /\ ~Exists \/ db.state = "PENDING_DELETE"
    /\ obs' = NotThere
    /\ pc' = "decide"
    /\ UNCHANGED <<kube, cr, fresh, budget, sqlVars>>

ObserveAbsent ==
    /\ pc = "observe"
    /\ ~Exists
    /\ obs' = NotThere
    /\ pc' = "decide"
    /\ UNCHANGED <<kube, cr, fresh, budget, sqlVars>>

ReadyFor(state, ready) ==
    CASE state = "RUNNABLE" -> "Available"
      [] state = "PENDING_CREATE" -> "Creating"
      [] state \in {"FAILED", "SUSPENDED", "MAINTENANCE"} -> "Unavailable"
      [] OTHER -> ready

\* The late-initialized spec is written before the status is set.  What
\* Observe returns is published unless the CR is being deleted.
Observe ==
    /\ pc = "observe"
    /\ Exists
    /\ LET spec == LateInitializeSpec(cr.spec, db.conf)
           wrote == spec # cr.spec
           seen == GenerateObservation(db)
       IN  IF wrote /\ ~fresh
           THEN /\ cr' = [cr EXCEPT !.spec = spec]
                /\ pc' = "finish"
                /\ UNCHANGED <<kube, obs, conn>>
           ELSE /\ kube' = IF wrote THEN [kube EXCEPT !.spec = spec] ELSE kube
                /\ cr' = [cr EXCEPT !.spec = spec, !.state = seen.state,
                                    !.ready = ReadyFor(seen.state, @)]
                /\ obs' = [exists |-> TRUE, wrote |-> wrote,
                           upToDate |-> IsUpToDate(spec, db.conf)]
                /\ conn' = IF cr.phase = "live"
                           THEN getConnectionDetails(seen.ips, db.password) ELSE NoDetails
                /\ pc' = IF cr.phase = "live" THEN "publish" ELSE "decide"
    /\ UNCHANGED <<fresh, budget, db, issued, secret, lost>>

\* The reconciler adds the details to the secret; the other keys stay.
PublishConnection ==
    /\ pc = "publish"
    /\ secret' = Applied(conn, secret)
    /\ conn' = NoDetails
    /\ pc' = IF obs.exists THEN "decide" ELSE "finish"
    /\ UNCHANGED <<kube, cr, fresh, obs, budget, db, issued, lost>>

\* Cloud SQL makes the instance with what is sent and its choice of the rest.
Inserted ==
    /\ db.state = "absent"
    /\ LET set == DatabaseInstanceBody(cr.spec) IN
       \E c \in Confs :
          /\ \A f \in DOMAIN set : c[f] = set[f]
          /\ db' = [state |-> "PENDING_CREATE", conf |-> c, op |-> "create", to |-> c,
                    password |-> issued + 1, ips |-> <<>>]
    /\ issued' = issued + 1

\* Mutant: the password is returned even if the name is in use.
CreateTellsAnyway ==
    /\ pc = "create"
    /\ cr' = [cr EXCEPT !.ready = "Creating"]
    /\ Inserted \/ (db.state # "absent" /\ UNCHANGED <<db, issued>>)
    /\ conn' = [password |-> issued + 1]
    /\ pc' = "publish"
    /\ UNCHANGED <<kube, fresh, obs, budget, secret, lost>>

\* Mutant: Create returns no connection details.
CreateUntold ==
    /\ pc = "create"
    /\ cr' = [cr EXCEPT !.ready = "Creating"]
    /\ Inserted \/ (db.state # "absent" /\ UNCHANGED <<db, issued>>)
    /\ pc' = "finish"
    /\ UNCHANGED <<kube, fresh, obs, budget, conn, secret, lost>>

\* "We don't want to return (and thus publish) our randomly generated password
\* if we didn't actually successfully create a new instance."
Create ==
    /\ pc = "create"
    /\ cr' = [cr EXCEPT !.ready = "Creating"]
    /\ \/ /\ Inserted
          /\ conn' = [password |-> issued + 1]
          /\ pc' = "publish"
       \/ /\ db.state # "absent"
          /\ pc' = "finish"
          /\ UNCHANGED <<db, issued, conn>>
    /\ UNCHANGED <<kube, fresh, obs, budget, secret, lost>>

\* The instance is created, and the answer is lost.
CreateLost ==
    /\ pc = "create"
    /\ Disturb
    /\ cr' = [cr EXCEPT !.ready = "Creating"]
    /\ Inserted
    /\ lost' = lost \cup {issued + 1}
    /\ pc' = "finish"
    /\ UNCHANGED <<kube, fresh, obs, conn, secret>>

\* Cloud SQL runs one operation at a time, and a disk that resizes itself
\* does not shrink.
Refuses(set) ==
    \/ db.op # "none" \/ ~Exists
    \/ /\ db.conf["StorageAutoResize"] = 1
       /\ "DataDiskSizeGb" \in DOMAIN set
       /\ set["DataDiskSizeGb"] < db.conf["DataDiskSizeGb"]

\* The whole spec is sent; the instance is not read again.
Update ==
    /\ pc = "update"
    /\ LET set == DatabaseInstanceBody(cr.spec) IN
       db' = IF cr.state = "PENDING_CREATE" \/ Refuses(set) THEN db
             ELSE [db EXCEPT !.op = "update", !.to = Applied(set, db.conf)]
    /\ pc' = "finish"
    /\ UNCHANGED <<kube, cr, fresh, obs, budget, issued, conn, secret, lost>>

Delete ==
    /\ pc = "delete"
    /\ cr' = [cr EXCEPT !.ready = "Deleting"]
    /\ db' = IF db.op = "none" /\ Exists
             THEN [db EXCEPT !.op = "delete", !.state = "PENDING_DELETE"] ELSE db
    /\ pc' = "finish"
    /\ UNCHANGED <<kube, fresh, obs, budget, issued, conn, secret, lost>>

\* A call fails before it has an effect.
CallFails ==
    /\ pc \in {"record", "observe", "create", "update", "delete"}
    /\ Disturb
    /\ cr' = [cr EXCEPT !.ready = CASE pc = "create" -> "Creating"
                                    [] pc = "delete" -> "Deleting"
                                    [] OTHER -> @]
    /\ pc' = "finish"
    /\ UNCHANGED <<kube, fresh, obs, sqlVars>>

\* The provider stops, or the secret cannot be written.
Stop ==
    /\ Crash
    /\ conn' = NoDetails
    /\ lost' = lost \cup (IF "password" \in DOMAIN conn THEN {conn["password"]} ELSE {})
    /\ UNCHANGED <<db, issued, secret>>

\* The secret belongs to the CR and goes with it.
SecretGoesToo ==
    /\ secret' = IF kube'.phase = "gone" THEN NoSecret ELSE secret
    /\ UNCHANGED <<db, issued, conn, lost>>

Gone == Unfinalize /\ SecretGoesToo

Reconcile ==
    \/ Begin \/ Initialize
    \/ (DecideDeleting \/ DecideLive \/ Finish) /\ UNCHANGED sqlVars
    \/ Gone
    \/ ObserveAbsent \/ Observe \/ PublishConnection \/ Create \/ Update \/ Delete

(***************************************************************************)
(* Cloud SQL and its other users.                                          *)
(***************************************************************************)

OperationDone ==
    /\ db.op # "none"
    /\ \/ /\ db.op = "create"
          /\ \E ips \in IPLists :
                db' = [db EXCEPT !.op = "none", !.state = "RUNNABLE", !.ips = ips]
       \/ db.op = "update" /\ db' = [db EXCEPT !.op = "none", !.conf = db.to]
       \/ db.op = "delete" /\ db' = NoDB("reserved")
    /\ UNCHANGED <<managedVars, issued, conn, secret, lost>>

NameReleased ==
    /\ db.state = "reserved"
    /\ db' = NoDB("absent")
    /\ UNCHANGED <<managedVars, issued, conn, secret, lost>>

\* A creation fails, the disk grows, somebody changes a setting, suspends or
\* deletes the instance.
SQLEvent ==
    /\ Disturb
    /\ \/ db.op = "create" /\ db' = [db EXCEPT !.op = "none", !.state = "FAILED"]
       \/ /\ db.state = "RUNNABLE" /\ db.op = "none"
          /\ \E f \in SQLFields, v \in Values :
                /\ v \in SQLValues(f)
                /\ f = "DataDiskSizeGb" => v > db.conf[f]
                /\ db' = [db EXCEPT !.conf[f] = v, !.to[f] = v]
       \/ /\ db.state = "RUNNABLE" /\ db.op = "none"
          /\ db' = [db EXCEPT !.state = "SUSPENDED"]
       \/ /\ Exists /\ db.op = "none"
          /\ db' = [db EXCEPT !.op = "delete", !.state = "PENDING_DELETE"]
    /\ UNCHANGED <<kube, cr, fresh, obs, pc, issued, conn, secret, lost>>

\* There may be an instance of that name already, without the provider's tags.
Init ==
    /\ ManagedInit
    /\ db \in {NoDB("absent")} \cup
              {[NoDB("RUNNABLE") EXCEPT !.conf = c, !.to = c, !.ips = <<"PRIMARY">>] :
                 c \in {d \in Confs : d["UserLabels"] = 0}}
    /\ issued = 0
    /\ conn = NoDetails
    /\ secret = NoSecret
    /\ lost = {}

Next ==
    \/ Reconcile \/ CreateLost \/ CallFails \/ Stop
    \/ OperationDone \/ NameReleased \/ SQLEvent
    \/ UserStep /\ SecretGoesToo

Spec == Init /\ [][Next]_vars

\* The reconciler polls and retries; operations end; names are released.
FairSpec == Spec /\ WF_vars(Reconcile) /\ WF_vars(OperationDone) /\ WF_vars(NameReleased)

(***************************************************************************)
(* Properties.                                                             *)
(***************************************************************************)

DBs == {NoDB("absent"), NoDB("reserved")} \cup
       [state : DBStates, conf : Confs, op : {"none", "create", "update", "delete"},
        to : Confs, password : Nat, ips : {<<>>, <<"PRIMARY">>} \cup IPLists]

TypeOK ==
    /\ ManagedTypeOK
    /\ db \in DBs
    /\ issued \in Nat
    /\ DOMAIN conn \subseteq SecretKeys
    /\ DOMAIN secret = SecretKeys
    /\ lost \subseteq 1 .. issued

\* The password in a secret is one an instance was created with, and the
\* secret only ever moves on to a later one: the comment in Create.
InHand == IF "password" \in DOMAIN conn THEN conn["password"] ELSE 0
Credentials == INSTANCE Credential WITH inHand <- InHand, told <- secret["password"]
ToldOnce == Credentials!Spec

\* While an instance of this controller exists its password is in the
\* connection secret or on its way there, unless the provider stopped
\* between the creation and the publishing.
PasswordKept ==
    Exists /\ db.password \notin lost \cup {0} =>
        db.password \in {secret["password"], InHand}

\* No instance of this controller without a CR that will delete it.
NoOrphan == Exists /\ db.password # 0 => kube.finalizer /\ kube.phase # "gone"

\* The inductive invariant behind the three: only the latest instance can
\* exist; its password is in hand from the answer of Insert to the publishing
\* and only then; the reconciler acts on a 404 only while it still holds.
Inv ==
    /\ ManagedInv
    /\ Exists => db.password \in {0, issued}
    /\ pc # "publish" => conn = NoDetails
    /\ "password" \in DOMAIN conn => /\ conn["password"] = issued /\ issued > 0
                                    /\ kube.finalizer
    /\ ~kube.finalizer => ~Exists \/ db.password = 0
    /\ pc = "unfinalize" => ~Exists
    /\ pc = "decide" /\ ~obs.exists => ~Exists
    /\ PasswordKept

\* The update turns automatic resizing off and at the same time asks for a
\* smaller disk, which is refused until it is off.
Refused ==
    /\ kube.phase = "live" /\ Exists
    /\ db.conf["StorageAutoResize"] = 1 /\ kube.spec["StorageAutoResize"] = 0
    /\ ValueOf(kube.spec["DataDiskSizeGb"]) < db.conf["DataDiskSizeGb"]

Settled ==
    \/ kube.phase = "gone" /\ (~Exists \/ db.password = 0)
    \/ /\ kube.phase = "live" /\ db.state = "RUNNABLE"
       /\ kube.ready = "Available" /\ kube.state = "RUNNABLE"
       /\ IsUpToDate(kube.spec, db.conf)
    \/ kube.phase = "live" /\ db.state \in {"FAILED", "SUSPENDED"}

\* Once the disturbances stop the CR and the instance agree, through name
\* reservations, disks that grew and calls that failed, and a deleted CR is
\* gone; the one exception is an update that GCP can never accept.
Converges == <>[](Settled \/ Refused)

\* In the end the secret has the address of the instance that is there, the
\* private one if it has one, in whatever order Cloud SQL lists them.
EndpointPrefersPrivate ==
    <>[](kube.phase = "live" /\ db.state = "RUNNABLE" =>
            secret["endpoint"] =
               [type |-> IF \E i \in DOMAIN db.ips : db.ips[i] = "PRIVATE"
                         THEN "PRIVATE" ELSE "PRIMARY",
                of |-> db.password])
=============================================================================
