--------------------------- MODULE ProviderConfig ---------------------------
(***************************************************************************)
(* How a controller gets at GCP (pkg/clients/gcp.go, the Connect of every  *)
(* controller) while the ProviderConfig with the credentials may be        *)
(* deleted.  Two kinds of reconcilers run side by side: those of the CRs,  *)
(* which record their usage of the config before they read it, and that of *)
(* the config (pkg/controller/config), which counts the usages and lets a  *)
(* deleted config go when there is none.                                   *)
(*                                                                         *)
(* A member of ManagedCRs is one incarnation of a CR, with its own UID.    *)
(***************************************************************************)
EXTENDS Naturals

CONSTANTS ManagedCRs,  \* custom resources
          Legacy,      \* the ones with a providerRef instead of a providerConfigRef
          MaxConfigs,  \* bound on how often the config is created
          MaxCrashes  \* bound on crashes and failed calls

ASSUME LegacyAssumption == Legacy \subseteq ManagedCRs
ASSUME ConfigBounds == MaxConfigs \in Nat /\ MaxCrashes \in Nat

VARIABLES config,    \* the stored ProviderConfig
          provider,  \* whether the Provider that the legacy CRs name exists
          configs,   \* how often the config was created
          usages,    \* CRs with a ProviderConfigUsage
          managed,   \* the stored CRs
          ext,       \* CRs whose external resource exists
          pcs,       \* where the reconcile of each CR is
          mem,       \* its copy of the CR
          cpc,       \* where the reconcile of the config is
          copy,      \* its copy of the config
          fresh,     \* whether that copy has the stored resourceVersion
          inUse,     \* whether it counted a usage
          early,     \* history: the config was deleted before it had its finalizer
          late,      \* history: CRs tracked since the last count, the config still there
          crashes    \* crashes left

configVars == <<config, configs, cpc, copy, fresh, inUse, early>>
crVars == <<managed, ext, pcs, mem>>
providerVars == <<config, provider, configs, usages, managed, ext, pcs, mem, cpc, copy,
                  fresh, inUse, early, late, crashes>>

Objects == [phase : {"none", "live", "deleting", "gone"}, finalizer : BOOLEAN]
Object(phase) == [phase |-> phase, finalizer |-> FALSE]
Stored(o) == o.phase \in {"live", "deleting"}

ConfigInit ==
    /\ config = Object("live")
    /\ provider = TRUE
    /\ configs = 1
    /\ usages = {}
    /\ managed = [c \in ManagedCRs |-> Object("none")]
    /\ ext = {}
    /\ pcs = [c \in ManagedCRs |-> "idle"]
    /\ mem = [c \in ManagedCRs |-> Object("none")]
    /\ cpc = "idle"
    /\ copy = Object("none")
    /\ fresh = FALSE
    /\ inUse = FALSE
    /\ early = FALSE
    /\ late = {}
    /\ crashes = MaxCrashes

(***************************************************************************)
(* The reconcile of a CR.                                                  *)
(***************************************************************************)

\* The copy is dropped when the reconcile ends.
Goto(c, l) ==
    /\ pcs' = [pcs EXCEPT ![c] = l]
    /\ mem' = IF l = "idle" THEN [mem EXCEPT ![c] = Object("none")] ELSE mem

BeginReconcile(c) ==
    /\ pcs[c] = "idle"
    /\ Stored(managed[c])
    /\ mem' = [mem EXCEPT ![c] = managed[c]]
    /\ pcs' = [pcs EXCEPT ![c] = "auth"]
    /\ UNCHANGED <<configVars, provider, usages, managed, ext, late, crashes>>

\* UseProvider: nothing holds the Provider while it is used.
UseProvider(c) ==
    /\ Goto(c, IF provider THEN "connected" ELSE "idle")
    /\ UNCHANGED <<configVars, provider, usages, managed, ext, late, crashes>>

\* Mutant: the usage is not recorded.
TrackNothing(c) ==
    /\ Goto(c, "get")
    /\ UNCHANGED <<configVars, provider, usages, managed, ext, late, crashes>>

\* UseProviderConfig, first half: the usage is recorded.
Track(c) ==
    /\ usages' = usages \cup {c}
    /\ late' = IF Stored(config) /\ c \notin usages THEN late \cup {c} ELSE late
    /\ Goto(c, "get")
    /\ UNCHANGED <<configVars, provider, managed, ext, crashes>>

\* GetAuthInfo: a providerConfigRef comes before a providerRef.
GetAuthInfo(c) ==
    /\ pcs[c] = "auth"
    /\ IF c \in Legacy THEN UseProvider(c) ELSE Track(c)

\* Mutant: a config that is being deleted is not used any more.
GetConfigUnlessDeleted(c) ==
    /\ pcs[c] = "get"
    /\ Goto(c, IF config.phase = "live" THEN "connected" ELSE "idle")
    /\ UNCHANGED <<configVars, provider, usages, managed, ext, late, crashes>>

\* UseProviderConfig, second half: the config and its credentials are read.
GetConfig(c) ==
    /\ pcs[c] = "get"
    /\ Goto(c, IF Stored(config) THEN "connected" ELSE "idle")
    /\ UNCHANGED <<configVars, provider, usages, managed, ext, late, crashes>>

\* A live CR gets its finalizer, if the copy of it is still the stored one,
\* and then its external resource.
AddFinalizer(c) ==
    /\ pcs[c] = "connected"
    /\ mem[c].phase = "live"
    /\ IF mem[c] = managed[c]
       THEN managed' = [managed EXCEPT ![c].finalizer = TRUE] /\ Goto(c, "create")
       ELSE Goto(c, "idle") /\ UNCHANGED managed
    /\ UNCHANGED <<configVars, provider, usages, ext, late, crashes>>

Create(c) ==
    /\ pcs[c] = "create"
    /\ ext' = ext \cup {c}
    /\ Goto(c, "idle")
    /\ UNCHANGED <<configVars, provider, usages, managed, late, crashes>>

Delete(c) ==
    /\ pcs[c] = "connected"
    /\ mem[c].phase = "deleting"
    /\ c \in ext
    /\ ext' = ext \ {c}
    /\ Goto(c, "idle")
    /\ UNCHANGED <<configVars, provider, usages, managed, late, crashes>>

RemoveFinalizer(c) ==
    /\ pcs[c] = "connected"
    /\ mem[c].phase = "deleting"
    /\ c \notin ext
    /\ managed' = [managed EXCEPT ![c] = Object("gone")]
    /\ Goto(c, "idle")
    /\ UNCHANGED <<configVars, provider, usages, ext, late, crashes>>

Reconcile(c) ==
    \/ BeginReconcile(c) \/ GetAuthInfo(c) \/ GetConfig(c)
    \/ AddFinalizer(c) \/ Create(c) \/ Delete(c) \/ RemoveFinalizer(c)

(***************************************************************************)
(* The reconcile of the config (providerconfig.NewReconciler).             *)
(***************************************************************************)

ConfigDone ==
    /\ cpc' = "idle"
    /\ copy' = Object("none")
    /\ fresh' = FALSE
    /\ inUse' = FALSE

ConfigBegin ==
    /\ cpc = "idle"
    /\ Stored(config)
    /\ copy' = config
    /\ fresh' = TRUE
    /\ cpc' = "count"
    /\ UNCHANGED <<config, provider, configs, usages, crVars, inUse, early, late, crashes>>

ConfigCount ==
    /\ cpc = "count"
    /\ inUse' = (usages # {})
    /\ late' = {}
    /\ cpc' = "act"
    /\ UNCHANGED <<config, provider, configs, usages, crVars, copy, fresh, early, crashes>>

\* Mutant: the usages are not looked at.
ConfigActBlind ==
    /\ cpc = "act"
    /\ config' = CASE ~fresh -> config
                   [] fresh /\ copy.phase = "live" -> [config EXCEPT !.finalizer = TRUE]
                   [] OTHER -> Object("gone")
    /\ ConfigDone
    /\ UNCHANGED <<provider, configs, usages, crVars, early, late, crashes>>

\* A live config gets its finalizer, a deleted one loses it if no usage was
\* counted.
ConfigAct ==
    /\ cpc = "act"
    /\ config' = CASE ~fresh \/ (copy.phase = "deleting" /\ inUse) -> config
                   [] fresh /\ copy.phase = "live" -> [config EXCEPT !.finalizer = TRUE]
                   [] OTHER -> Object("gone")
    /\ ConfigDone
    /\ UNCHANGED <<provider, configs, usages, crVars, early, late, crashes>>

ConfigReconcile == ConfigBegin \/ ConfigCount \/ ConfigAct

(***************************************************************************)
(* The API server, people, crashes.                                        *)
(***************************************************************************)

\* A usage is owned by its CR.
CollectUsage(c) ==
    /\ managed[c].phase = "gone"
    /\ c \in usages
    /\ usages' = usages \ {c}
    /\ UNCHANGED <<configVars, provider, crVars, late, crashes>>

PersonCreates(c) ==
    /\ managed[c].phase = "none"
    /\ managed' = [managed EXCEPT ![c] = Object("live")]
    /\ UNCHANGED <<configVars, provider, usages, ext, pcs, mem, late, crashes>>

PersonDeletes(c) ==
    /\ managed[c].phase = "live"
    /\ managed' = [managed EXCEPT ![c] = IF @.finalizer THEN [@ EXCEPT !.phase = "deleting"]
                                 ELSE Object("gone")]
    /\ UNCHANGED <<configVars, provider, usages, ext, pcs, mem, late, crashes>>

DeleteConfig ==
    /\ config.phase = "live"
    /\ config' = IF config.finalizer THEN [config EXCEPT !.phase = "deleting"]
                 ELSE Object("gone")
    /\ early' = ~config.finalizer
    /\ fresh' = FALSE
    /\ UNCHANGED <<provider, configs, usages, crVars, cpc, copy, inUse, late, crashes>>

CreateConfig ==
    /\ config.phase = "gone"
    /\ configs < MaxConfigs
    /\ config' = Object("live")
    /\ configs' = configs + 1
    /\ early' = FALSE
    /\ UNCHANGED <<provider, usages, crVars, cpc, copy, fresh, inUse, late, crashes>>

DeleteProvider ==
    /\ provider
    /\ provider' = FALSE
    /\ UNCHANGED <<configVars, usages, crVars, late, crashes>>

Crash(c) ==
    /\ crashes > 0
    /\ crashes' = crashes - 1
    /\ pcs[c] # "idle"
    /\ Goto(c, "idle")
    /\ UNCHANGED <<configVars, provider, usages, managed, ext, late>>

ConfigCrash ==
    /\ crashes > 0
    /\ crashes' = crashes - 1
    /\ cpc # "idle"
    /\ ConfigDone
    /\ UNCHANGED <<config, provider, configs, usages, crVars, early, late>>

ConfigNext ==
    \/ \E c \in ManagedCRs : Reconcile(c) \/ CollectUsage(c) \/ PersonCreates(c)
                                \/ PersonDeletes(c) \/ Crash(c)
    \/ ConfigReconcile \/ DeleteConfig \/ CreateConfig \/ DeleteProvider \/ ConfigCrash

ConfigSpec == ConfigInit /\ [][ConfigNext]_providerVars

\* Each reconciler goes on, and usages without an owner are collected.
ConfigFairSpec ==
    /\ ConfigSpec
    /\ \A c \in ManagedCRs : WF_providerVars(Reconcile(c)) /\ WF_providerVars(CollectUsage(c))
    /\ WF_providerVars(ConfigReconcile)

(***************************************************************************)
(* Properties.                                                             *)
(***************************************************************************)

ConfigTypeOK ==
    /\ config \in Objects /\ copy \in Objects
    /\ provider \in BOOLEAN /\ fresh \in BOOLEAN /\ inUse \in BOOLEAN /\ early \in BOOLEAN
    /\ configs \in Nat /\ crashes \in Nat
    /\ usages \subseteq ManagedCRs /\ ext \subseteq ManagedCRs /\ late \subseteq ManagedCRs
    /\ managed \in [ManagedCRs -> Objects] /\ mem \in [ManagedCRs -> Objects]
    /\ pcs \in [ManagedCRs -> {"idle", "auth", "get", "connected", "create"}]
    /\ cpc \in {"idle", "count", "act"}

\* A CR that has its finalizer, so that GCP has to be reached before it can go,
\* still has its ProviderConfig.  Recording the usage before reading the config
\* gives that but for two cases: the config was deleted before its own
\* controller had seen it, or the usage was recorded after the config's
\* controller had counted and before it let the config go.
ConfigKept ==
    \A c \in ManagedCRs \ Legacy :
        managed[c].finalizer => Stored(config) \/ early \/ c \in late

\* The inductive invariant behind it.  A CR that got past Track, or has its
\* finalizer, has a usage; one that is connected has a config by the same
\* exceptions; the config's controller acts on what is stored, and since its
\* count there are only usages in `late`.
ConfigInv ==
    /\ ConfigKept
    /\ \A c \in ManagedCRs \ Legacy :
          /\ pcs[c] \in {"get", "connected", "create"} \/ managed[c].finalizer
                => c \in usages \/ managed[c].phase = "gone"
          /\ pcs[c] = "connected" /\ managed[c].phase # "gone"
                => Stored(config) \/ early \/ c \in late
    /\ \A c \in ManagedCRs : managed[c].finalizer => Stored(managed[c])
    /\ fresh => copy = config /\ Stored(config)
    /\ cpc = "count" => Stored(config) \/ early
    /\ cpc = "act" /\ fresh /\ ~inUse => usages \subseteq late

\* The config is not let go over a usage that was counted.
CountedIsKept == [][Stored(config) /\ config'.phase = "gone" /\ config.finalizer
                       => usages \subseteq late]_providerVars

\* A config and the CRs that use it can be deleted together, in any order:
\* the config waits for the CRs, and the CRs do not wait for the config, except
\* for one that is already gone.
TeardownCompletes ==
    (config.phase = "deleting" /\ \A c \in ManagedCRs \ Legacy : ~(managed[c].phase = "live"))
        ~> (config.phase = "gone" \/ \E c \in ManagedCRs \ Legacy : managed[c].phase = "live")
=============================================================================
