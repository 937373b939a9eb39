--------------------------- MODULE CloudSQLProofs ---------------------------
(***************************************************************************)
(* The CloudSQLInstance controller's properties for every set of fields    *)
(* and values and any number of disturbances.                              *)
(***************************************************************************)
EXTENDS CloudSQL, ManagedProofs

(***************************************************************************)
(* The pure functions.                                                     *)
(***************************************************************************)

\* What Cloud SQL has, and what a spec sets, is one of the values of the field.
LEMMA ConfValue ==
    ASSUME NEW c \in Confs, NEW f \in SQLFields
    PROVE  c[f] \in Values /\ c[f] \in SQLValues(f)
BY DEF Confs

\* A setting of a spec is a value of its field, or nil when the field is a pointer.
LEMMA SpecValue ==
    ASSUME NEW s \in Specs, NEW f \in SQLFields
    PROVE  /\ s[f] \in Values \cup {Nil}
           /\ s[f] \in SQLValues(f) \cup (IF f \in CloudSQLPlain THEN {} ELSE {Nil})
BY SQLSpecsAssumption DEF SQLSpecs

\* A function whose fields have values of a spec is a spec.
LEMMA IsSpec ==
    ASSUME NEW s, s = [f \in SQLFields |-> s[f]],
           \A f \in SQLFields :
              /\ s[f] \in Values \cup {Nil}
              /\ s[f] \in SQLValues(f) \cup (IF f \in CloudSQLPlain THEN {} ELSE {Nil})
    PROVE  s \in Specs
<1>1. s \in [SQLFields -> Values \cup {Nil}]
  OBVIOUS
<1>. QED
  BY <1>1, SQLSpecsAssumption DEF SQLSpecs

\* A spec has exactly the fields of the model.
LEMMA SpecDomain == \A s \in Specs : DOMAIN s = SQLFields /\ s = [f \in SQLFields |-> s[f]]
BY SQLSpecsAssumption DEF SQLSpecs

\* A spec of which one field takes a value of that field is a spec.
LEMMA SpecChange ==
    ASSUME NEW s \in Specs, NEW g \in SQLFields, NEW v \in Values, v \in SQLValues(g)
    PROVE  [s EXCEPT ![g] = v] \in Specs
<1>. DEFINE t == [s EXCEPT ![g] = v]
<1>1. t = [f \in SQLFields |-> t[f]]
  BY SpecDomain
<1>2. \A f \in SQLFields : t[f] = IF f = g THEN v ELSE s[f]
  BY SpecDomain
<1>. HIDE DEF t
<1>3. t \in Specs
  BY <1>1, <1>2, SpecValue, IsSpec
<1>. QED
  BY <1>3 DEF t

\* The tagger yields a spec.
LEMMA TaggedType == \A s \in Specs : Tagged(s) \in Specs
BY ZenonT(60), SpecChange, SQLFieldsAssumption, SQLValuesAssumption DEF Tagged, SQLValues

\* LateInitializeSpec yields a spec.
LEMMA FillType ==
    ASSUME NEW s \in Specs, NEW c \in Confs, NEW fs
    PROVE  FillUnset(s, c, CloudSQLPlain, fs) \in Specs
<1>. DEFINE t == FillUnset(s, c, CloudSQLPlain, fs)
<1>1. t = [f \in SQLFields |-> t[f]]
  BY SpecDomain DEF FillUnset
<1>2. \A f \in SQLFields : t[f] \in {s[f], c[f]}
  BY SpecDomain DEF FillUnset
<1>. HIDE DEF t
<1>3. t \in Specs
  BY <1>1, <1>2, SpecValue, ConfValue, IsSpec
<1>. QED
  BY <1>3 DEF t

\* Late initialization of a spec gives a spec.
LEMMA LateInitializeType ==
    ASSUME NEW s \in Specs, NEW c \in Confs
    PROVE  LateInitializeSpec(s, c) \in Specs
<1>. DEFINE filled == LateInitializeGroups(LateInitializeScalars(s, c), c)
            resize == [filled EXCEPT !["StorageAutoResize"] =
                          IF @ = Nil THEN c["StorageAutoResize"] ELSE @]
<1>1. filled \in Specs
  BY FillType DEF LateInitializeGroups, LateInitializeScalars
<1>f. {"DataDiskSizeGb", "StorageAutoResize"} \subseteq SQLFields
  BY SQLFieldsAssumption
<1>2. resize \in Specs
  <2>. HIDE DEF filled
  <2>1. CASE filled["StorageAutoResize"] = Nil
    <3>1. resize = [filled EXCEPT !["StorageAutoResize"] = c["StorageAutoResize"]]
      BY <2>1, <1>1, SpecDomain
    <3>. QED
      BY <3>1, <1>1, <1>f, SpecChange, ConfValue
  <2>2. CASE filled["StorageAutoResize"] # Nil
    <3>1. resize = filled
      BY <2>2, <1>1, SpecDomain
    <3>. QED
      BY <3>1, <1>1
  <2>. QED
    BY <2>1, <2>2
<1>3. LateInitializeSpec(s, c) = FollowGrownDisk(resize, c)
  BY DEF LateInitializeSpec
<1>. HIDE DEF resize, filled
<1>4. FollowGrownDisk(resize, c) \in Specs
  <2>1. [resize EXCEPT !["DataDiskSizeGb"] = c["DataDiskSizeGb"]] \in Specs
    BY <1>2, <1>f, SpecChange, ConfValue
  <2>. QED
    BY <1>2, <2>1 DEF FollowGrownDisk
<1>. QED
  BY <1>3, <1>4

\* What an update sends are values of the fields: zero only where zero is one.
LEMMA BodyValue ==
    ASSUME NEW s \in Specs, NEW f \in DOMAIN DatabaseInstanceBody(s)
    PROVE  /\ f \in SQLFields
           /\ DatabaseInstanceBody(s)[f] \in Values
           /\ DatabaseInstanceBody(s)[f] \in SQLValues(f)
<1>. DEFINE zeros == [g \in SQLFields |-> 0]
            gen == GenerateDatabaseInstance(s, zeros)
            body == DatabaseInstanceBody(s)
<1>1. DOMAIN gen = SQLFields
  BY SpecDomain DEF GenerateDatabaseInstance, Generated
<1>2. \A g \in SQLFields : gen[g] = IF s[g] = Nil THEN 0 ELSE s[g]
  BY SpecDomain, SQLValuesAssumption DEF GenerateDatabaseInstance, Generated, ValueOf
<1>3. body = Body(gen, ForceSendFields(s))
  BY DEF DatabaseInstanceBody
<1>. HIDE DEF gen, body
<1>4. /\ f \in SQLFields /\ body[f] = gen[f]
      /\ gen[f] # 0 \/ f \in ForceSendFields(s)
  <2>1. f \in DOMAIN body
    BY DEF body
  <2>. QED
    BY <2>1, <1>1, <1>3, SQLValuesAssumption DEF Body, Restricted
<1>5. CASE s[f] # Nil
  BY <1>2, <1>4, <1>5, SpecValue, SQLValuesAssumption DEF body
<1>6. CASE s[f] = Nil
  <2>1. gen[f] = 0 /\ f \in ForceSendFields(s)
    BY <1>2, <1>4, <1>6
  <2>2. f = "Ipv4Enabled"
    BY <2>1, <1>6 DEF ForceSendFields
  <2>3. 0 \in Values /\ 0 \in SQLValues(f)
    BY <2>2, SQLValuesAssumption DEF SQLValues
  <2>. QED
    BY <1>4, <2>1, <2>3 DEF body
<1>. QED
  BY <1>5, <1>6

\* So Cloud SQL holds values of the fields after the update.
LEMMA UpdatedType ==
    ASSUME NEW s \in Specs, NEW c \in Confs
    PROVE  Applied(DatabaseInstanceBody(s), c) \in Confs
<1>. DEFINE body == DatabaseInstanceBody(s)
            t == Applied(body, c)
<1>1. \A f \in DOMAIN body : body[f] \in Values /\ body[f] \in SQLValues(f)
  BY BodyValue
<1>2. DOMAIN c = SQLFields
  BY DEF Confs
<1>. HIDE DEF body
<1>3. ASSUME NEW f \in SQLFields PROVE t[f] \in Values /\ t[f] \in SQLValues(f)
  BY <1>1, <1>2, ConfValue DEF Applied
<1>4. t = [f \in SQLFields |-> t[f]]
  BY <1>2 DEF Applied
<1>. HIDE DEF t
<1>5. t \in [SQLFields -> Values]
  BY <1>3, <1>4
<1>6. t \in Confs
  BY <1>3, <1>5 DEF Confs
<1>. QED
  BY <1>6 DEF t, body

\* One address adds keys other than the password.
LEMMA AddressKeys ==
    ASSUME NEW m, NEW type, NEW of, DOMAIN m \subseteq SecretKeys \ {"password"}
    PROVE  DOMAIN AddressDetails(m, type, of) \subseteq SecretKeys \ {"password"}
BY DEF AddressDetails, SecretKeys

\* The connection details that Observe returns never hold a password, for the
\* lists of addresses that Cloud SQL has.
LEMMA DetailsKeys ==
    ASSUME NEW ips \in {<<>>, <<"PRIMARY">>} \cup IPLists, NEW of
    PROVE  DOMAIN getConnectionDetails(ips, of) \subseteq SecretKeys \ {"password"}
<1>. DEFINE n == Len(ips)
            Loop(h) == [i \in 0 .. n |-> IF i = 0 THEN NoDetails
                                          ELSE AddressDetails(h[i - 1], ips[i], of)]
            one == AddressDetails(NoDetails, ips[1], of)
            two == AddressDetails(one, ips[2], of)
            w == [i \in 0 .. n |-> IF i = 0 THEN NoDetails ELSE IF i = 1 THEN one ELSE two]
            m == CHOOSE h : h = Loop(h)
<1>1. n \in 0 .. 2
  BY DEF IPLists
<1>. HIDE DEF n, one, two
<1>2. w = Loop(w)
  <2>1. ASSUME NEW i \in 0 .. n PROVE w[i] = Loop(w)[i]
    <3>1. CASE i = 0
      BY <3>1, <1>1
    <3>2. CASE i = 1
      BY <3>2, <1>1 DEF one
    <3>3. CASE i = 2
      BY <3>3, <1>1 DEF two
    <3>. QED
      BY <3>1, <3>2, <3>3, <1>1
  <2>. QED
    BY <2>1
<1>3. m = Loop(m)
  <2>. HIDE DEF w, Loop
  <2>. QED
    BY <1>2
<1>. HIDE DEF m
<1>4. DOMAIN m[0] \subseteq SecretKeys \ {"password"}
  BY <1>1, <1>3 DEF NoDetails
<1>5. n >= 1 => DOMAIN m[1] \subseteq SecretKeys \ {"password"}
  <2>1. n >= 1 => m[1] = AddressDetails(m[0], ips[1], of)
    BY <1>1, <1>3
  <2>. QED
    BY <2>1, <1>4, AddressKeys
<1>6. n >= 2 => DOMAIN m[2] \subseteq SecretKeys \ {"password"}
  <2>1. n >= 2 => m[2] = AddressDetails(m[1], ips[2], of)
    BY <1>1, <1>3
  <2>. QED
    BY <2>1, <1>1, <1>5, AddressKeys
<1>7. getConnectionDetails(ips, of) = m[n]
  BY DEF getConnectionDetails, m, n, Loop
<1>. QED
  BY <1>1, <1>4, <1>5, <1>6, <1>7

(***************************************************************************)
(* Types.                                                                  *)
(***************************************************************************)

\* An instance that exists is a record; one that does not has no operation.
LEMMA DBCases ==
    ASSUME TypeOK
    PROVE  /\ Exists => db \in [state : DBStates, conf : Confs,
                                op : {"none", "create", "update", "delete"}, to : Confs,
                                password : Nat, ips : {<<>>, <<"PRIMARY">>} \cup IPLists]
           /\ ~Exists => db.op = "none" /\ db.password = 0
BY DEF TypeOK, DBs, NoDB, Exists, DBStates

\* Insert makes an instance with the next password.
LEMMA InsertedType ==
    ASSUME TypeOK, Inserted
    PROVE  /\ db' \in DBs /\ db'.state = "PENDING_CREATE" /\ db'.password = issued + 1
           /\ issued' = issued + 1 /\ issued' \in Nat /\ ~Exists
<1>1. PICK c \in Confs :
         db' = [state |-> "PENDING_CREATE", conf |-> c, op |-> "create", to |-> c,
                password |-> issued + 1, ips |-> <<>>]
  BY DEF Inserted
<1>2. issued + 1 \in Nat
  BY DEF TypeOK
<1>3. db' \in DBs
  BY ZenonT(60), <1>1, <1>2 DEF DBs, DBStates
<1>. QED
  BY <1>1, <1>2, <1>3 DEF Inserted, Exists

\* Every step leaves an instance, or none; the password of an instance stays
\* what it was created with.
LEMMA DBType ==
    ASSUME TypeOK, [Next]_vars
    PROVE  /\ db' \in DBs
           /\ \/ Inserted
              \/ issued' = issued /\ (Exists' => Exists /\ db'.password = db.password)
<1>. DEFINE Made == [state : DBStates, conf : Confs,
                     op : {"none", "create", "update", "delete"}, to : Confs,
                     password : Nat, ips : {<<>>, <<"PRIMARY">>} \cup IPLists]
            Same == issued' = issued /\ (Exists' => Exists /\ db'.password = db.password)
<1>m. /\ Exists => db \in Made
      /\ db.op # "none" => Exists
      /\ Made \subseteq DBs /\ db \in DBs
  BY DBCases DEF TypeOK, DBs
<1>1. CASE UNCHANGED <<db, issued>>
  BY <1>1, <1>m DEF Exists
<1>2. CASE Inserted
  BY <1>2, InsertedType
<1>3. CASE Update /\ db' # db
  <2>. DEFINE t == Applied(DatabaseInstanceBody(cr.spec), db.conf)
  <2>1. Exists /\ db' = [db EXCEPT !.op = "update", !.to = t] /\ issued' = issued
    BY <1>3 DEF Update, Refuses
  <2>2. db \in Made
    BY <2>1, <1>m
  <2>3. t \in Confs
    BY <2>2, UpdatedType DEF TypeOK, ManagedTypeOK, CRs
  <2>. HIDE DEF t
  <2>4. db' \in Made /\ db'.password = db.password
    BY ZenonT(60), <2>1, <2>2, <2>3
  <2>. QED
    BY ZenonT(60), <2>1, <2>4, <1>m
<1>4. CASE Delete /\ db' # db
  <2>1. Exists /\ db' = [db EXCEPT !.op = "delete", !.state = "PENDING_DELETE"] /\ issued' = issued
    BY <1>4 DEF Delete
  <2>2. db' \in Made /\ db'.password = db.password
    BY ZenonT(60), <2>1, <1>m DEF DBStates
  <2>. QED
    BY ZenonT(60), <2>1, <2>2, <1>m
<1>5. CASE OperationDone
  <2>1. Exists /\ issued' = issued /\ db \in Made
    BY ZenonT(60), <1>5, <1>m DEF OperationDone
  <2>2. CASE db' = NoDB("reserved")
    BY <2>1, <2>2 DEF DBs, NoDB, Exists
  <2>3. CASE \E ips \in IPLists : db' = [db EXCEPT !.op = "none", !.state = "RUNNABLE", !.ips = ips]
    <3>1. db' \in Made /\ db'.password = db.password
      BY ZenonT(60), <2>1, <2>3 DEF DBStates
    <3>. QED
      BY <2>1, <3>1, <1>m
  <2>4. CASE db' = [db EXCEPT !.op = "none", !.conf = db.to]
    <3>1. db' \in Made /\ db'.password = db.password
      BY ZenonT(60), <2>1, <2>4
    <3>. QED
      BY <2>1, <3>1, <1>m
  <2>. QED
    BY ZenonT(60), <1>5, <2>2, <2>3, <2>4 DEF OperationDone
<1>6. CASE NameReleased
  BY <1>6 DEF NameReleased, NoDB, DBs, Exists
<1>7. CASE SQLEvent
  <2>1. Exists /\ issued' = issued /\ db \in Made
    BY ZenonT(60), <1>7, <1>m DEF SQLEvent, Exists
  <2>2. CASE \E f \in SQLFields, v \in Values :
                v \in SQLValues(f) /\ db' = [db EXCEPT !.conf[f] = v, !.to[f] = v]
    <3>1. PICK f \in SQLFields, v \in Values :
             v \in SQLValues(f) /\ db' = [db EXCEPT !.conf[f] = v, !.to[f] = v]
      BY ZenonT(60), <2>2
    <3>2. db' = [db EXCEPT !.conf = [db.conf EXCEPT ![f] = v], !.to = [db.to EXCEPT ![f] = v]]
      BY <2>1, <3>1
    <3>3. ASSUME NEW c \in Confs PROVE [c EXCEPT ![f] = v] \in Confs
      BY <3>1 DEF Confs
    <3>4. db' \in Made /\ db'.password = db.password
      BY ZenonT(60), <2>1, <3>2, <3>3
    <3>. QED
      BY <2>1, <3>4, <1>m
  <2>3. CASE \E st \in DBStates, o \in {"none", "delete"} :
                db' = [db EXCEPT !.op = o, !.state = st]
    <3>1. db' \in Made /\ db'.password = db.password
      BY ZenonT(60), <2>1, <2>3
    <3>. QED
      BY <2>1, <3>1, <1>m
  <2>4. CASE db' = [db EXCEPT !.state = "SUSPENDED"]
    <3>1. db' \in Made /\ db'.password = db.password
      BY <2>1, <2>4 DEF DBStates
    <3>. QED
      BY <2>1, <3>1, <1>m
  <2>. QED
    BY ZenonT(60), <1>7, <2>2, <2>3, <2>4 DEF SQLEvent, DBStates
<1>. QED
  BY ZenonT(60), <1>1, <1>2, <1>3, <1>4, <1>5, <1>6, <1>7
  DEF Next, Reconcile, Begin, Initialize, Gone, SecretGoesToo, ObserveAbsent, Observe,
      PublishConnection, Create, Update, Delete, CreateLost, CallFails, Stop, vars, sqlVars

\* What Observe does to the CR, in parts.
LEMMA ObserveType ==
    ASSUME TypeOK, Observe
    PROVE  ManagedTypeOK' /\ DOMAIN conn' \subseteq SecretKeys
<1>. DEFINE spec == LateInitializeSpec(cr.spec, db.conf)
            stored == [kube EXCEPT !.spec = spec]
            mem == [cr EXCEPT !.spec = spec]
            done == [cr EXCEPT !.spec = spec, !.state = db.state,
                               !.ready = ReadyFor(db.state, @)]
<1>1. /\ db.state \in States /\ db.conf \in Confs
      /\ db.ips \in {<<>>, <<"PRIMARY">>} \cup IPLists
  BY ZenonT(60), DBCases, SQLStatesAssumption DEF Observe
<1>2. kube \in CRs /\ cr \in CRs /\ cr.spec \in Specs
  BY DEF TypeOK, ManagedTypeOK, CRs
<1>3. spec \in Specs
  BY <1>1, <1>2, LateInitializeType
<1>4. \A st, r : r \in Readies => ReadyFor(st, r) \in Readies
  BY ZenonT(60) DEF ReadyFor, Readies
<1>5. stored \in CRs /\ mem \in CRs /\ done \in CRs
  <2>. HIDE DEF spec
  <2>. QED
    BY ZenonT(60), <1>1, <1>2, <1>3, <1>4 DEF CRs
<1>6. kube' \in {kube, stored} /\ cr' \in {mem, done} /\ pc' \in {"finish", "publish", "decide"}
  BY DEF Observe, GenerateObservation
<1>7. obs' \in Observations
  <2>1. \/ obs' = obs
        \/ \E w, u \in BOOLEAN : obs' = [exists |-> TRUE, wrote |-> w, upToDate |-> u]
    BY Zenon DEF Observe, IsUpToDate
  <2>2. \A w, u \in BOOLEAN : [exists |-> TRUE, wrote |-> w, upToDate |-> u] \in Observations
    BY DEF Observations
  <2>. QED
    BY <2>1, <2>2, Zenon DEF TypeOK, ManagedTypeOK
<1>8. DOMAIN conn' \subseteq SecretKeys
  <2>1. conn' \in {conn, NoDetails, getConnectionDetails(db.ips, db.password)}
    BY DEF Observe, GenerateObservation
  <2>2. DOMAIN NoDetails \subseteq SecretKeys
    BY DEF NoDetails
  <2>3. DOMAIN getConnectionDetails(db.ips, db.password) \subseteq SecretKeys
    BY ZenonT(60), <1>1, DetailsKeys
  <2>. QED
    BY <2>1, <2>2, <2>3 DEF TypeOK
<1>. HIDE DEF stored, mem, done
<1>. QED
  BY <1>2, <1>5, <1>6, <1>7, <1>8 DEF Observe, TypeOK, ManagedTypeOK, PCs

\* Every step keeps the CR, the instance, the secret and the history well typed.
LEMMA StepType == TypeOK /\ Inv /\ [Next]_vars => TypeOK'
<1>. SUFFICES ASSUME TypeOK, Inv, [Next]_vars PROVE TypeOK'
  OBVIOUS
<1>d. db' \in DBs /\ issued' \in Nat /\ issued' >= issued
  BY DBType, InsertedType DEF TypeOK
<1>l. lost \subseteq 1 .. issued'
  BY <1>d DEF TypeOK
<1>n. DOMAIN NoDetails \subseteq SecretKeys /\ DOMAIN NoSecret = SecretKeys
  BY DEF NoDetails, NoSecret, SecretKeys
<1>. USE DEF TypeOK
<1>1. CASE Begin
  BY <1>1, <1>d, <1>l DEF Begin, ManagedTypeOK, PCs, sqlVars
<1>2. CASE Initialize
  <2>1. Tagged(cr.spec) \in Specs
    BY TaggedType DEF ManagedTypeOK, CRs
  <2>2. cr' \in CRs /\ kube' \in CRs
    <3>. DEFINE t == Tagged(cr.spec)
    <3>1. cr' = [cr EXCEPT !.spec = t] /\ kube' \in {kube, [kube EXCEPT !.spec = t]}
      BY <1>2 DEF Initialize, ManagedTypeOK, CRs
    <3>. HIDE DEF t
    <3>2. t \in Specs
      BY <2>1 DEF t
    <3>. QED
      BY <3>1, <3>2 DEF ManagedTypeOK, CRs
  <2>. QED
    BY <1>2, <1>d, <1>l, <2>2 DEF Initialize, ManagedTypeOK, PCs, sqlVars
<1>3. CASE (DecideDeleting \/ DecideLive \/ Finish) /\ UNCHANGED sqlVars
  BY <1>3, <1>d, <1>l, ManagedStepType DEF ManagedStep, sqlVars
<1>4. CASE Gone
  <2>1. ManagedTypeOK'
    BY <1>4, ManagedStepType DEF Gone, ManagedStep
  <2>. QED
    BY <1>4, <1>d, <1>l, <1>n, <2>1 DEF Gone, SecretGoesToo
<1>5. CASE ObserveAbsent
  BY <1>5, <1>d, <1>l DEF ObserveAbsent, ManagedTypeOK, NotThere, Observations, PCs, sqlVars
<1>6. CASE Observe
  BY <1>6, <1>d, <1>l, ObserveType DEF Observe
<1>7. CASE PublishConnection
  <2>1. DOMAIN secret' = SecretKeys
    BY <1>7 DEF PublishConnection, Applied
  <2>. QED
    BY <1>7, <1>d, <1>l, <1>n, <2>1 DEF PublishConnection, ManagedTypeOK, PCs
<1>8. CASE Create
  <2>1. cr' \in CRs
    BY ZenonT(60), <1>8 DEF Create, ManagedTypeOK, CRs, Readies
  <2>2. DOMAIN conn' \subseteq SecretKeys
    BY <1>8 DEF Create, SecretKeys
  <2>. QED
    BY <1>8, <1>d, <1>l, <2>1, <2>2 DEF Create, ManagedTypeOK, PCs
<1>9. CASE CreateLost
  <2>1. cr' \in CRs /\ budget' \in Nat
    BY ZenonT(60), <1>9, DisturbType DEF CreateLost, ManagedTypeOK, CRs, Readies
  <2>2. lost' \subseteq 1 .. issued'
    BY <1>9, <1>d, <1>l, InsertedType DEF CreateLost
  <2>. QED
    BY <1>9, <1>d, <2>1, <2>2 DEF CreateLost, ManagedTypeOK, PCs
<1>10. CASE Update
  BY <1>10, <1>d, <1>l DEF Update, ManagedTypeOK, PCs
<1>11. CASE Delete
  <2>1. cr' \in CRs
    BY ZenonT(60), <1>11 DEF Delete, ManagedTypeOK, CRs, Readies
  <2>. QED
    BY <1>11, <1>d, <1>l, <2>1 DEF Delete, ManagedTypeOK, PCs
<1>12. CASE CallFails
  <2>1. cr' \in CRs /\ budget' \in Nat
    BY ZenonT(60), <1>12, DisturbType DEF CallFails, ManagedTypeOK, CRs, Readies
  <2>. QED
    BY <1>12, <1>d, <1>l, <2>1 DEF CallFails, ManagedTypeOK, PCs, sqlVars
<1>13. CASE Stop
  <2>1. ManagedTypeOK'
    BY <1>13, CrashType DEF Stop
  <2>2. "password" \in DOMAIN conn => conn["password"] \in 1 .. issued
    BY DEF Inv
  <2>3. lost' \subseteq 1 .. issued'
    BY ZenonT(60), <1>13, <2>2 DEF Stop
  <2>. QED
    BY <1>13, <1>d, <1>n, <2>1, <2>3 DEF Stop
<1>14. CASE OperationDone \/ NameReleased
  BY ZenonT(60), <1>14, <1>d, <1>l DEF OperationDone, NameReleased, managedVars,
     ManagedTypeOK
<1>15. CASE SQLEvent
  <2>1. budget' \in Nat
    BY ZenonT(60), <1>15, DisturbType DEF SQLEvent, ManagedTypeOK
  <2>2. UNCHANGED <<kube, cr, fresh, obs, pc, issued, conn, secret, lost>>
    BY ZenonT(60), <1>15 DEF SQLEvent
  <2>. QED
    BY <1>d, <2>1, <2>2 DEF ManagedTypeOK
<1>16. CASE UserStep /\ SecretGoesToo
  <2>1. ManagedTypeOK'
    BY <1>16, UserStepType
  <2>. QED
    BY <1>16, <1>d, <1>l, <1>n, <2>1 DEF SecretGoesToo
<1>17. CASE UNCHANGED vars
  BY <1>17 DEF vars, managedVars, ManagedTypeOK
<1>. QED
  BY ZenonT(60), <1>1, <1>2, <1>3, <1>4, <1>5, <1>6, <1>7, <1>8, <1>9, <1>10, <1>11,
     <1>12, <1>13,
     <1>14, <1>15, <1>16, <1>17 DEF Next, Reconcile

(***************************************************************************)
(* The invariant.                                                          *)
(***************************************************************************)

\* A call that returns no connection details returns no password.
LEMMA EmptyHanded == "password" \notin DOMAIN NoDetails
BY DEF NoDetails

\* A step that makes no instance and leaves secret and details alone keeps
\* what Inv says of the password, if it only adds to the lost ones.
LEMMA KeptWithoutCreate ==
    ASSUME TypeOK, Inv, UNCHANGED <<issued, conn, secret>>, lost \subseteq lost',
           Exists' => Exists /\ db'.password = db.password
    PROVE  /\ Exists' => db'.password \in {0, issued'}
           /\ PasswordKept'
BY ZenonT(60) DEF Inv, PasswordKept, InHand

\* The steps of the reconciler that are not the controller's.
LEMMA ManagedKeepsInv ==
    ASSUME TypeOK, Inv, (DecideDeleting \/ DecideLive \/ Finish) /\ UNCHANGED sqlVars
    PROVE  Inv'
<1>. USE DEF Inv, sqlVars
<1>m. ManagedInv'
  BY ManagedStepInv DEF ManagedStep, TypeOK
<1>e. Exists' = Exists
  BY DEF Exists
<1>k. (Exists' => db'.password \in {0, issued'}) /\ PasswordKept'
  BY <1>e, KeptWithoutCreate
<1>1. CASE DecideDeleting
  BY <1>1, <1>m, <1>e, <1>k DEF DecideDeleting
<1>2. CASE DecideLive
  <2>1. pc' \in {"create", "finish", "update"}
    BY <1>2 DEF DecideLive, Dispatch, TypeOK, ManagedTypeOK, Observations
  <2>2. kube.finalizer => kube'.finalizer
    BY ZenonT(60), <1>2 DEF DecideLive, TypeOK, ManagedTypeOK, CRs
  <2>3. ~kube'.finalizer => ~Exists \/ db.password = 0
    BY <2>2
  <2>4. conn = NoDetails
    BY <1>2 DEF DecideLive
  <2>. QED
    BY <1>m, <1>e, <1>k, <2>1, <2>3, <2>4, EmptyHanded
<1>3. CASE Finish
  <2>1. kube'.finalizer = kube.finalizer /\ pc' = "idle"
    BY <1>3 DEF Finish, Idle, TypeOK, ManagedTypeOK, CRs
  <2>2. conn = NoDetails
    BY <1>3 DEF Finish
  <2>. QED
    BY <1>m, <1>e, <1>k, <2>1, <2>2, EmptyHanded
<1>. QED
  BY <1>1, <1>2, <1>3

\* The finalizer goes when the instance is not there, and the secret with it.
LEMMA GoneKeepsInv == ASSUME TypeOK, Inv, Gone PROVE Inv'
<1>. USE DEF Inv
<1>m. ManagedInv'
  BY ManagedStepInv DEF ManagedStep, TypeOK, Gone
<1>1. ~Exists /\ ~Exists' /\ conn' = NoDetails /\ pc' = "idle"
  BY DEF Gone, SecretGoesToo, Unfinalize, Idle, Exists
<1>. QED
  BY <1>m, <1>1, EmptyHanded DEF PasswordKept

\* People: a CR that goes at once, or is created, has no instance of its own.
LEMMA UserKeepsInv == ASSUME TypeOK, Inv, UserStep, SecretGoesToo PROVE Inv'
<1>. USE DEF Inv
<1>m. ManagedInv'
  BY UserStepInv DEF TypeOK
<1>1. UNCHANGED <<cr, obs, pc, db, issued, conn, lost>>
  BY DEF UserStep, UserCreate, UserEdit, UserDelete, SecretGoesToo
<1>2. Exists' = Exists
  BY <1>1 DEF Exists
<1>3. kube'.finalizer = kube.finalizer \/ (~kube.finalizer /\ ~kube'.finalizer)
  <2>1. CASE UserCreate
    <3>1. PICK s \in Specs : kube' = NewCR(s)
      BY <2>1 DEF UserCreate
    <3>2. ~kube'.finalizer
      BY ZenonT(60), <3>1 DEF NewCR
    <3>. QED
      BY <2>1, <3>2 DEF UserCreate, ManagedInv, FinalizerHolds
  <2>2. CASE UserEdit \/ UserDelete
    BY <2>2 DEF UserEdit, UserDelete, TypeOK, ManagedTypeOK, CRs
  <2>. QED
    BY <2>1, <2>2 DEF UserStep
<1>4. kube'.phase = "gone" => ~Exists \/ db.password = 0
  <2>1. kube'.phase = "gone" => ~kube'.finalizer
    BY <1>m DEF ManagedInv, FinalizerHolds
  <2>. QED
    BY <1>3, <2>1
<1>5. PasswordKept'
  <2>1. CASE kube'.phase = "gone"
    BY <1>1, <1>2, <1>4, <2>1 DEF PasswordKept
  <2>2. CASE kube'.phase # "gone"
    BY <1>1, <1>2, <2>2 DEF SecretGoesToo, PasswordKept, InHand
  <2>. QED
    BY <2>1, <2>2
<1>6. ~kube'.finalizer => ~Exists' \/ db'.password = 0
  BY ZenonT(60), <1>1, <1>2, <1>3
<1>7. "password" \in DOMAIN conn' => kube'.finalizer
  BY <1>1, <1>3
<1>. QED
  BY <1>m, <1>1, <1>2, <1>5, <1>6, <1>7

\* What Observe hands to the reconciler holds no password.
LEMMA ObserveTellsNone == ASSUME TypeOK, Inv, Observe PROVE "password" \notin DOMAIN conn'
<1>0. pc = "observe" /\ Exists /\ conn = NoDetails
  BY DEF Observe, Inv
<1>1. conn' \in {NoDetails, getConnectionDetails(db.ips, db.password)}
  BY <1>0 DEF Observe, GenerateObservation
<1>2. db.ips \in {<<>>, <<"PRIMARY">>} \cup IPLists
  BY <1>0, DBCases
<1>3. "password" \notin DOMAIN getConnectionDetails(db.ips, db.password)
  BY <1>2, DetailsKeys
<1>. QED
  BY <1>1, <1>3, EmptyHanded

\* Observe writes the stored and the in-memory spec together, and what it wants
\* published is not a password.
LEMMA ObserveKeepsInv == ASSUME TypeOK, Inv, Observe PROVE Inv'
<1>. DEFINE spec == LateInitializeSpec(cr.spec, db.conf)
            stored == [kube EXCEPT !.spec = spec]
            mem == [cr EXCEPT !.spec = spec]
            done == [cr EXCEPT !.spec = spec, !.state = db.state,
                               !.ready = ReadyFor(db.state, @)]
<1>0. pc = "observe" /\ Exists /\ conn = NoDetails
  BY DEF Observe, Inv
<1>1. /\ stored.finalizer = kube.finalizer /\ stored.phase = kube.phase /\ stored.spec = spec
      /\ mem.finalizer = cr.finalizer /\ mem.phase = cr.phase /\ mem.spec = spec
      /\ done.finalizer = cr.finalizer /\ done.phase = cr.phase /\ done.spec = spec
  BY DEF TypeOK, ManagedTypeOK, CRs
<1>2. \/ ~fresh /\ cr' = mem /\ pc' = "finish" /\ kube' = kube /\ conn' = conn
      \/ /\ cr' = done /\ pc' \in {"publish", "decide"} /\ obs'.exists
         /\ kube' = (IF spec # cr.spec THEN stored ELSE kube) /\ (spec # cr.spec => fresh)
         /\ pc' # "publish" => conn' = NoDetails
  BY DEF Observe, GenerateObservation
<1>3. UNCHANGED <<fresh, db, issued, secret, lost>> /\ Exists' = Exists
  BY DEF Observe, Exists
<1>4. fresh => cr.spec = kube.spec /\ cr.phase = kube.phase /\ cr.finalizer = kube.finalizer
  BY DEF Inv, ManagedInv, FreshAgrees
<1>. HIDE DEF spec, stored, mem, done
<1>5. /\ kube'.finalizer = kube.finalizer /\ kube'.phase = kube.phase
      /\ cr'.finalizer = cr.finalizer /\ cr'.phase = cr.phase
      /\ fresh => cr'.spec = kube'.spec
  BY ZenonT(60), <1>1, <1>2, <1>4
<1>6. ManagedInv'
  BY <1>0, <1>2, <1>3, <1>4, <1>5 DEF Inv, ManagedInv, FreshAgrees, FinalizerHolds
<1>7. "password" \notin DOMAIN conn'
  BY ObserveTellsNone
<1>8. PasswordKept'
  BY <1>0, <1>3, <1>7, EmptyHanded DEF Inv, PasswordKept, InHand
<1>9. pc' # "publish" => conn' = NoDetails
  BY <1>0, <1>2
<1>10. pc' # "unfinalize" /\ (pc' = "decide" => obs'.exists)
  BY <1>2
<1>. QED
  BY <1>3, <1>5, <1>6, <1>7, <1>8, <1>9, <1>10 DEF Inv

\* The tagger, too, writes the stored and the in-memory spec together.
LEMMA BeginKeepsInv == ASSUME TypeOK, Inv, Begin \/ Initialize PROVE Inv'
<1>1. UNCHANGED sqlVars /\ Exists' = Exists
  BY DEF Begin, Initialize, sqlVars, Exists
<1>2. /\ kube'.finalizer = kube.finalizer /\ kube'.phase = kube.phase
      /\ fresh' => /\ cr'.spec = kube'.spec /\ cr'.phase = kube'.phase
                   /\ cr'.finalizer = kube'.finalizer
      /\ cr' = kube' \/ (cr'.finalizer = cr.finalizer /\ cr'.phase = cr.phase)
  <2>1. CASE Begin
    BY <2>1 DEF Begin
  <2>2. CASE Initialize
    <3>. DEFINE t == Tagged(cr.spec)
    <3>1. /\ cr' = [cr EXCEPT !.spec = t] /\ fresh' = fresh
          /\ kube' = IF fresh THEN [kube EXCEPT !.spec = t] ELSE kube
      BY <2>2 DEF Initialize, TypeOK, ManagedTypeOK, CRs
    <3>. HIDE DEF t
    <3>2. fresh => cr.phase = kube.phase /\ cr.finalizer = kube.finalizer
      BY DEF Inv, ManagedInv, FreshAgrees
    <3>. QED
      BY <3>1, <3>2 DEF TypeOK, ManagedTypeOK, CRs
  <2>. QED
    BY <2>1, <2>2
<1>3. pc \in {"idle", "record"} /\ pc' \in {"record", "observe", "finish"}
  BY DEF Begin, Initialize
<1>4. ManagedInv'
  BY <1>2, <1>3 DEF Inv, ManagedInv, FreshAgrees, FinalizerHolds
<1>5. PasswordKept' /\ (Exists' => db'.password \in {0, issued'})
  BY <1>1, KeptWithoutCreate DEF sqlVars
<1>6. conn = NoDetails
  BY <1>3 DEF Inv
<1>. QED
  BY <1>1, <1>2, <1>3, <1>4, <1>5, <1>6, EmptyHanded DEF Inv, sqlVars

\* The answer of Insert is in hand until it is published or lost.
LEMMA CreateKeepsInv == ASSUME TypeOK, Inv, Create \/ CreateLost PROVE Inv'
<1>1. /\ cr'.finalizer = cr.finalizer /\ cr'.phase = cr.phase /\ cr'.spec = cr.spec
      /\ UNCHANGED <<kube, fresh, obs, secret>> /\ pc = "create"
      /\ pc' \in {"publish", "finish"}
  BY ZenonT(60) DEF Create, CreateLost, TypeOK, ManagedTypeOK, CRs
<1>2. ManagedInv'
  BY <1>1 DEF Inv, ManagedInv, FreshAgrees, FinalizerHolds
<1>3. conn = NoDetails /\ kube.finalizer
  BY ZenonT(60), <1>1 DEF Inv, ManagedInv, FinalizerHolds
<1>4. CASE Inserted
  <2>1. db'.password = issued' /\ issued' = issued + 1 /\ issued' > 0
    BY <1>4, InsertedType DEF TypeOK
  <2>2. \/ conn' = [password |-> issued'] /\ pc' = "publish"
        \/ conn' = NoDetails /\ pc' = "finish" /\ issued' \in lost'
    <3>1. CASE CreateLost
      BY <1>3, <2>1, <3>1 DEF CreateLost
    <3>2. CASE Create /\ conn' = [password |-> issued + 1] /\ pc' = "publish"
      BY ZenonT(60), <2>1, <3>2
    <3>3. CASE Create /\ db.state # "absent"
      BY <1>4, <3>3 DEF Inserted
    <3>. QED
      BY <3>1, <3>2, <3>3 DEF Create
  <2>3. PasswordKept'
    BY SMTT(60), <2>1, <2>2 DEF PasswordKept, InHand
  <2>. QED
    BY SMTT(60), <1>1, <1>2, <1>3, <2>1, <2>2, <2>3, EmptyHanded DEF Inv
<1>5. CASE ~Inserted
  <2>1. UNCHANGED <<db, issued, conn, lost>> /\ pc' = "finish"
    BY <1>5 DEF Create, CreateLost
  <2>2. Exists' = Exists
    BY <2>1 DEF Exists
  <2>3. PasswordKept' /\ (Exists' => db'.password \in {0, issued'})
    BY <1>1, <2>1, <2>2, KeptWithoutCreate
  <2>. QED
    BY <1>1, <1>2, <1>3, <2>1, <2>2, <2>3, EmptyHanded DEF Inv
<1>. QED
  BY <1>4, <1>5

\* Publishing moves the password from memory to the secret; the addresses leave
\* it as it is.
LEMMA PublishKeepsInv == ASSUME TypeOK, Inv, PublishConnection PROVE Inv'
<1>1. /\ UNCHANGED <<kube, cr, fresh, obs, db, issued, lost>> /\ conn' = NoDetails
      /\ pc = "publish" /\ pc' = IF obs.exists THEN "decide" ELSE "finish"
      /\ Exists' = Exists
  BY DEF PublishConnection, Exists
<1>2. secret'["password"] = IF "password" \in DOMAIN conn THEN conn["password"]
                                                        ELSE secret["password"]
  BY DEF PublishConnection, Applied, TypeOK, SecretKeys
<1>3. PasswordKept'
  BY ZenonT(60), <1>1, <1>2, EmptyHanded DEF Inv, PasswordKept, InHand
<1>4. ManagedInv'
  BY ZenonT(60), <1>1 DEF Inv, ManagedInv, FreshAgrees, FinalizerHolds
<1>. QED
  BY <1>1, <1>3, <1>4, EmptyHanded DEF Inv

\* A stop loses what is in hand, and the history remembers it.
LEMMA StopKeepsInv == ASSUME TypeOK, Inv, Stop PROVE Inv'
<1>m. ManagedInv'
  BY CrashInv DEF Stop, Inv
<1>1. /\ UNCHANGED <<kube, db, issued, secret>> /\ conn' = NoDetails /\ pc' = "idle"
      /\ Exists' = Exists
  BY DEF Stop, Crash, Idle, Exists
<1>2. lost' = lost \cup (IF "password" \in DOMAIN conn THEN {conn["password"]} ELSE {})
  BY DEF Stop
<1>3. PasswordKept'
  <2>. SUFFICES ASSUME Exists, db.password \notin lost' \cup {0}
                PROVE  db.password = secret["password"]
    BY <1>1 DEF PasswordKept
  <2>1. db.password \in {secret["password"], InHand}
    BY <1>2 DEF Inv, PasswordKept
  <2>2. InHand \in lost' \cup {0}
    BY <1>2 DEF InHand
  <2>. QED
    BY <2>1, <2>2
<1>. QED
  BY ZenonT(60), <1>m, <1>1, <1>3, EmptyHanded DEF Inv

\* Every step keeps the invariant.
LEMMA StepInv == TypeOK /\ Inv /\ [Next]_vars => Inv'
<1>. SUFFICES ASSUME TypeOK, Inv, [Next]_vars PROVE Inv'
  OBVIOUS
<1>1. CASE Begin \/ Initialize
  BY <1>1, BeginKeepsInv
<1>2. CASE (DecideDeleting \/ DecideLive \/ Finish) /\ UNCHANGED sqlVars
  BY <1>2, ManagedKeepsInv
<1>3. CASE Gone
  BY <1>3, GoneKeepsInv
<1>4. CASE Observe
  BY <1>4, ObserveKeepsInv
<1>5. CASE PublishConnection
  BY <1>5, PublishKeepsInv
<1>6. CASE Create \/ CreateLost
  BY <1>6, CreateKeepsInv
<1>7. CASE Stop
  BY <1>7, StopKeepsInv
<1>8. CASE UserStep /\ SecretGoesToo
  BY ZenonT(60), <1>8, UserKeepsInv
<1>9. CASE ObserveAbsent \/ Update \/ Delete \/ CallFails
  <2>1. /\ UNCHANGED <<kube, fresh, issued, conn, secret, lost>>
        /\ pc \in {"record", "observe", "create", "update", "delete"}
        /\ pc' \in {"finish", "decide"}
    BY <1>9 DEF ObserveAbsent, Update, Delete, CallFails, sqlVars
  <2>2. cr'.finalizer = cr.finalizer /\ cr'.phase = cr.phase /\ cr'.spec = cr.spec
    BY ZenonT(60), <1>9 DEF ObserveAbsent, Update, Delete, CallFails, TypeOK,
       ManagedTypeOK, CRs
  <2>3. ManagedInv'
    BY <2>1, <2>2 DEF Inv, ManagedInv, FreshAgrees, FinalizerHolds
  <2>4. ~Inserted
    BY <2>1, InsertedType DEF TypeOK
  <2>5. Exists' => Exists /\ db'.password = db.password
    BY <2>4, DBType
  <2>6. PasswordKept' /\ (Exists' => db'.password \in {0, issued'})
    BY <2>1, <2>5, KeptWithoutCreate
  <2>7. pc' = "decide" => ~Exists'
    BY <1>9 DEF ObserveAbsent, Update, Delete, CallFails, sqlVars, Exists
  <2>. QED
    BY <2>1, <2>3, <2>5, <2>6, <2>7 DEF Inv
<1>10. CASE OperationDone \/ NameReleased \/ SQLEvent
  <2>1. UNCHANGED <<kube, cr, fresh, obs, pc, issued, conn, secret, lost>>
    BY ZenonT(60), <1>10 DEF OperationDone, NameReleased, SQLEvent, managedVars
  <2>2. ManagedInv'
    BY <2>1 DEF Inv, ManagedInv, FreshAgrees, FinalizerHolds
  <2>3. ~Inserted
    BY <2>1, InsertedType DEF TypeOK
  <2>4. Exists' => Exists /\ db'.password = db.password
    BY <2>3, DBType
  <2>5. PasswordKept' /\ (Exists' => db'.password \in {0, issued'})
    BY ZenonT(60), <2>1, <2>4, KeptWithoutCreate
  <2>. QED
    BY <2>1, <2>2, <2>4, <2>5 DEF Inv
<1>11. CASE UNCHANGED vars
  <2>1. Exists' = Exists /\ PasswordKept' = PasswordKept
    BY <1>11 DEF vars, Exists, PasswordKept, InHand
  <2>. QED
    BY <1>11, <2>1
    DEF vars, managedVars, Inv, ManagedInv, FreshAgrees, FinalizerHolds
<1>. QED
  BY <1>1, <1>2, <1>3, <1>4, <1>5, <1>6, <1>7, <1>8, <1>9, <1>10, <1>11
  DEF Next, Reconcile

\* The initial states: no instance, or one that is not this controller's.
LEMMA InitOK == Init => TypeOK /\ Inv
<1>. SUFFICES ASSUME Init PROVE TypeOK /\ Inv
  OBVIOUS
<1>m. ManagedTypeOK /\ ManagedInv
  BY ZenonT(60), ManagedInitOK DEF Init
<1>1. db \in DBs /\ db.password = 0
  <2>1. CASE db = NoDB("absent")
    BY <2>1 DEF DBs, NoDB
  <2>2. ASSUME NEW c \in Confs,
               db = [NoDB("RUNNABLE") EXCEPT !.conf = c, !.to = c, !.ips = <<"PRIMARY">>]
        PROVE  db \in DBs /\ db.password = 0
    <3>1. db = [state |-> "RUNNABLE", conf |-> c, op |-> "none", to |-> c,
                password |-> 0, ips |-> <<"PRIMARY">>]
      BY ZenonT(60), <2>2 DEF NoDB
    <3>. QED
      BY <3>1 DEF DBs, DBStates
  <2>. QED
    BY ZenonT(60), <2>1, <2>2 DEF Init
<1>2. DOMAIN conn \subseteq SecretKeys /\ DOMAIN secret = SecretKeys
  <2>1. DOMAIN NoDetails \subseteq SecretKeys /\ DOMAIN NoSecret = SecretKeys
    BY DEF NoDetails, NoSecret, SecretKeys
  <2>. QED
    BY ZenonT(60), <2>1 DEF Init
<1>3. TypeOK
  BY ZenonT(60), <1>m, <1>1, <1>2 DEF Init, TypeOK
<1>4. Inv
  BY ZenonT(60), <1>m, <1>1, EmptyHanded DEF Init, ManagedInit, Inv, PasswordKept
<1>. QED
  BY <1>3, <1>4

\* The types and the invariant hold in every behaviour of the controller.
THEOREM SQLInvariance == Spec => [](TypeOK /\ Inv)
BY InitOK, StepType, StepInv, PTL DEF Spec

\* Whatever stops, deletions and re-creations come in between, the password of
\* an instance the controller made is in the connection secret or on its way
\* there, unless the provider stopped before it could publish it.
THEOREM PasswordKeptHolds == Spec => []PasswordKept
<1>1. TypeOK /\ Inv => PasswordKept
  BY DEF Inv
<1>. QED
  BY <1>1, SQLInvariance, PTL

\* No instance the controller made is left without a CR that will delete it.
THEOREM NoOrphanHolds == Spec => []NoOrphan
<1>1. TypeOK /\ Inv => NoOrphan
  BY ZenonT(60) DEF Inv, NoOrphan, ManagedInv, FinalizerHolds
<1>. QED
  BY <1>1, SQLInvariance, PTL

\* What a step does to the credential: the password comes into hand when Insert
\* is answered, is told by PublishConnection, is lost by a stop, and goes with
\* the CR's secret.
LEMMA CredentialStep ==
    ASSUME TypeOK, Inv, [Next]_vars
    PROVE  Credentials!Next \/ UNCHANGED <<issued, InHand, secret["password"]>>
<1>. USE DEF Credentials!Next
<1>e. pc # "publish" => InHand = 0
  BY EmptyHanded DEF Inv, InHand
<1>f. conn' = NoDetails => InHand' = 0
  BY EmptyHanded DEF InHand
<1>1. CASE Create /\ Inserted
  <2>1. InHand = 0 /\ issued' = issued + 1 /\ secret' = secret
    BY <1>1, <1>e DEF Create, Inserted
  <2>2. conn' = [password |-> issued + 1]
    BY <1>1, <2>1 DEF Create, Inserted
  <2>3. InHand' = issued + 1
    BY <2>2 DEF InHand
  <2>. QED
    BY <2>1, <2>3 DEF Credentials!Issue
<1>2. CASE CreateLost
  <2>1. InHand = 0 /\ issued' = issued + 1 /\ secret' = secret /\ conn' = conn
    BY <1>2, <1>e DEF CreateLost, Inserted
  <2>2. InHand' = InHand
    BY <2>1 DEF InHand
  <2>. QED
    BY <2>1, <2>2 DEF Credentials!Issue
<1>3. CASE PublishConnection
  <2>1. UNCHANGED issued /\ InHand' = 0
    BY ZenonT(60), <1>3, <1>f DEF PublishConnection
  <2>2. secret'["password"] = IF "password" \in DOMAIN conn THEN conn["password"]
                                                          ELSE secret["password"]
    BY <1>3 DEF PublishConnection, Applied, TypeOK, SecretKeys
  <2>3. CASE "password" \in DOMAIN conn
    <3>1. InHand # 0 /\ secret'["password"] = InHand
      BY <2>2, <2>3 DEF Inv, InHand
    <3>. QED
      BY <2>1, <3>1 DEF Credentials!Tell
  <2>4. CASE "password" \notin DOMAIN conn
    BY <2>1, <2>2, <2>4 DEF InHand
  <2>. QED
    BY <2>3, <2>4
<1>4. CASE Stop
  BY <1>4, <1>f DEF Stop, Credentials!Lose
<1>5. CASE Gone \/ (UserStep /\ SecretGoesToo)
  <2>1. UNCHANGED <<issued, conn>>
    BY <1>5 DEF Gone, SecretGoesToo
  <2>2. InHand' = InHand
    BY <2>1 DEF InHand
  <2>3. secret' = IF kube'.phase = "gone" THEN NoSecret ELSE secret
    BY <1>5 DEF Gone, SecretGoesToo
  <2>4. CASE kube'.phase = "gone"
    <3>1. InHand = 0 \/ kube.finalizer
      BY DEF Inv, InHand
    <3>2. InHand = 0 \/ kube.phase = "gone"
      <4>1. CASE Gone
        BY <4>1, <1>e DEF Gone, Unfinalize
      <4>2. CASE UserStep
        BY ZenonT(60), <4>2, <3>1, <2>4
        DEF UserStep, UserCreate, UserEdit, UserDelete, NewCR, TypeOK, ManagedTypeOK, CRs
      <4>. QED
        BY <1>5, <4>1, <4>2
    <3>3. InHand = 0
      BY ZenonT(60), <3>1, <3>2 DEF Inv, ManagedInv, FinalizerHolds
    <3>4. secret'["password"] = 0
      BY <2>3, <2>4 DEF NoSecret
    <3>. QED
      BY ZenonT(60), <2>1, <2>2, <3>3, <3>4 DEF Credentials!Forget
  <2>. QED
    BY <2>1, <2>2, <2>3, <2>4
<1>6. CASE Observe
  <2>1. UNCHANGED <<issued, secret>> /\ pc = "observe"
    BY <1>6 DEF Observe
  <2>2. "password" \notin DOMAIN conn'
    BY <1>6, ObserveTellsNone
  <2>. QED
    BY <1>e, <2>1, <2>2 DEF InHand
<1>7. CASE \/ Begin \/ Initialize
           \/ (DecideDeleting \/ DecideLive \/ Finish) /\ UNCHANGED sqlVars
           \/ ObserveAbsent \/ (Create /\ ~Inserted) \/ Update \/ Delete \/ CallFails
           \/ OperationDone \/ NameReleased \/ SQLEvent \/ UNCHANGED vars
  <2>1. UNCHANGED <<issued, conn, secret>>
    BY ZenonT(60), <1>7 DEF Begin, Initialize, ObserveAbsent, Create, Update, Delete,
       CallFails,
       OperationDone, NameReleased, SQLEvent, sqlVars, vars
  <2>. QED
    BY <2>1 DEF InHand
<1>. QED
  BY ZenonT(60), <1>1, <1>2, <1>3, <1>4, <1>5, <1>6, <1>7 DEF Next, Reconcile

\* The controller implements Credential: the password in the connection secret
\* is one that Insert took, told once, whatever is lost on the way.
THEOREM ToldOnceHolds == Spec => ToldOnce
<1>1. Init => Credentials!Init
  <2>1. Init => InHand = 0
    BY ZenonT(60), EmptyHanded DEF Init, InHand
  <2>2. NoSecret["password"] = 0
    BY DEF NoSecret
  <2>. QED
    BY ZenonT(60), <2>1, <2>2 DEF Init, Credentials!Init
<1>2. TypeOK /\ Inv /\ [Next]_vars => [Credentials!Next]_(Credentials!credentialVars)
  BY CredentialStep DEF Credentials!credentialVars
<1>. QED
  BY <1>1, <1>2, SQLInvariance, PTL DEF Spec, ToldOnce, Credentials!Spec
=============================================================================
