----------------------------- MODULE IAMPolicy -----------------------------
(***************************************************************************)
(* The controllers that write the IAM policy of a resource: BucketPolicy   *)
(* (and CryptoKeyPolicy and ServiceAccountPolicy, which have the same      *)
(* methods) owns the whole policy, BucketPolicyMember adds and removes one *)
(* member of one role.  They run concurrently with each other and with     *)
(* everybody else who writes the policy; each controller has one worker.   *)
(*                                                                         *)
(* IAM keeps a policy as bindings of members to a role under a condition,  *)
(* one binding for each role and condition, none without members.  The     *)
(* order in which a Get lists the bindings of a role is IAM's choice.  A   *)
(* Set that carries an etag is refused when the policy was written since   *)
(* that etag was read (`fresh`); a Set without one always succeeds.  The   *)
(* resource itself is there throughout: Observe answers for one that is    *)
(* not found as it does for an empty policy.                               *)
(***************************************************************************)
EXTENDS Naturals, FiniteSets

CONSTANTS Roles, Principals,
          Conds, NoCond,        \* the conditions of bindings, one of them none
          Members,              \* the BucketPolicyMember CRs ...
          RoleOf, PrincipalOf,  \* ... and their spec
          PolicyCRs,            \* the CR that owns the whole policy, if any
          PolicySpecs,          \* the policies its spec may ask for
          OtherGrants,          \* <<role, condition, member>> others add and remove
          MaxDisturbances       \* bound on others' writes, deletions and failures

Policies == [Roles -> [Conds -> SUBSET Principals]]

ASSUME CondsAssumption == NoCond \in Conds
ASSUME MembersAssumption ==
    /\ RoleOf \in [Members -> Roles]
    /\ PrincipalOf \in [Members -> Principals]
ASSUME PolicyAssumption ==
    /\ PolicySpecs \subseteq Policies
    /\ PolicySpecs # {}
    /\ Members \cap PolicyCRs = {}
ASSUME OthersAssumption == OtherGrants \subseteq Roles \X Conds \X Principals
ASSUME BudgetAssumption == MaxDisturbances \in Nat

VARIABLES policy,  \* the policy in IAM
          crs,     \* the stored CRs
          want,    \* the policy asked for by the CR in PolicyCRs
          job,     \* the reconcile each controller's worker is in
          budget   \* disturbances left

vars == <<policy, crs, want, job, budget>>

CRNames == Members \cup PolicyCRs
Controllers == {"member", "policy"}
Phases == {"live", "deleting", "gone"}
CRs == [phase : Phases, finalizer : BOOLEAN]
PCs == {"idle", "create", "update", "delete", "set", "unfinalize"}

\* cr: the CR; want: its spec as it was read; new: the policy to Set.
Jobs == [pc : PCs, cr : CRNames \cup {"none"}, want : Policies,
         new : Policies, fresh : BOOLEAN]

Empty == [r \in Roles |-> [c \in Conds |-> {}]]
Idle == [pc |-> "idle", cr |-> "none", want |-> Empty, new |-> Empty,
         fresh |-> FALSE]
NewCR == [phase |-> "live", finalizer |-> FALSE]

TypeOK ==
    /\ policy \in Policies
    /\ crs \in [CRNames -> CRs]
    /\ want \in PolicySpecs
    /\ job \in [Controllers -> Jobs]
    /\ budget \in Nat

Init ==
    /\ policy = Empty
    /\ crs = [w \in CRNames |-> NewCR]
    /\ want \in PolicySpecs
    /\ job = [c \in Controllers |-> Idle]
    /\ budget = MaxDisturbances

(***************************************************************************)
(* Pure functions of the client.                                           *)
(***************************************************************************)

\* The policy p with member m added to, or removed from, one binding.
With(p, r, c, m) == [p EXCEPT ![r] = [p[r] EXCEPT ![c] = p[r][c] \cup {m}]]
Without(p, r, c, m) == [p EXCEPT ![r] = [p[r] EXCEPT ![c] = p[r][c] \ {m}]]

\* The bindings of role r, each of which may be the first one listed.
FirstBindings(p, r) == {c \in Conds : p[r][c] # {}}

\* BindRoleToMember: the policies it may make of p.
BindRoleToMember(w, p) ==
    LET first == FirstBindings(p, RoleOf[w])
    IN  {With(p, RoleOf[w], c, PrincipalOf[w]) :
            c \in IF first = {} THEN {NoCond} ELSE first}

\* Mutant: nothing is removed.
UnbindNothing(w, p) == {p}

\* UnbindRoleFromMember: the policies it may make of p.
UnbindRoleFromMember(w, p) ==
    LET first == FirstBindings(p, RoleOf[w])
    IN  IF first = {} THEN {p}
        ELSE {Without(p, RoleOf[w], c, PrincipalOf[w]) : c \in first}

IsEmpty(p) == p = Empty

\* Mutant: only the roles are compared.
IsUpToDateByRole(desired, p) ==
    {\A r \in Roles : FirstBindings(desired, r) = {} <=> FirstBindings(p, r) = {}}

\* IsUpToDate: its possible answers.  The bindings are compared sorted by role,
\* so two bindings of one role are also compared by the order they have.
IsUpToDate(desired, p) ==
    IF desired # p THEN {FALSE}
    ELSE IF \A r \in Roles : Cardinality(FirstBindings(p, r)) <= 1 THEN {TRUE}
    ELSE BOOLEAN

(***************************************************************************)
(* The reconciler.  A reconcile begins with Observe; a live CR that is not *)
(* up to date gets its finalizer and goes on to Create or Update, a        *)
(* deleted one to Delete while the resource exists and else loses its      *)
(* finalizer.  Reading the CR, observing the policy and adding the         *)
(* finalizer are one step: of the three only the observation depends on    *)
(* the policy, and a write to the CR in between makes adding the finalizer *)
(* fail, which ends the reconcile.  The CR's conditions are left out.      *)
(***************************************************************************)

Begin(c, w, exists, upToDate) ==
    LET next == CASE crs[w].phase = "deleting" /\ exists -> "delete"
                  [] crs[w].phase = "deleting" /\ ~exists -> "unfinalize"
                  [] crs[w].phase = "live" /\ ~exists -> "create"
                  [] crs[w].phase = "live" /\ exists /\ ~upToDate -> "update"
                  [] OTHER -> "idle"
    IN  /\ job[c].pc = "idle"
        /\ crs[w].phase # "gone"
        /\ job' = [job EXCEPT ![c] = IF next = "idle" THEN Idle
                      ELSE [Idle EXCEPT !.pc = next, !.cr = w, !.want = want]]
        /\ crs' = [crs EXCEPT ![w] = [@ EXCEPT !.finalizer = TRUE]]

End(c) == job' = [job EXCEPT ![c] = Idle]

Unfinalize(c) ==
    /\ job[c].pc = "unfinalize"
    /\ crs' = [crs EXCEPT ![job[c].cr] = [@ EXCEPT !.phase = "gone",
                                                  !.finalizer = FALSE]]
    /\ End(c)
    /\ UNCHANGED <<policy, want, budget>>

\* A successful Set makes every etag that was read before it stale.
Write(c, p) ==
    /\ policy' = p
    /\ job' = [d \in Controllers |->
                  IF d = c THEN Idle ELSE [job[d] EXCEPT !.fresh = FALSE]]

\* The Get of a read-modify-write that is going to Set p, if it changes anything.
Read(c, p, changed) ==
    IF changed
    THEN job' = [job EXCEPT ![c] = [@ EXCEPT !.pc = "set", !.new = p, !.fresh = TRUE]]
    ELSE End(c)

\* Mutant: the etag is not sent.
SetWithoutEtag(c) ==
    /\ job[c].pc = "set"
    /\ Write(c, job[c].new)
    /\ UNCHANGED <<crs, want, budget>>

\* The Set of a read-modify-write, with the etag of its Get.
Set(c) ==
    /\ job[c].pc = "set"
    /\ IF job[c].fresh THEN Write(c, job[c].new) ELSE End(c) /\ UNCHANGED policy
    /\ UNCHANGED <<crs, want, budget>>

(***************************************************************************)
(* BucketPolicyMember.                                                     *)
(***************************************************************************)

\* Mutant: Observe returns the same observation whether the member is bound or not.
MemberObserveNothing(w) ==
    /\ \E p \in BindRoleToMember(w, policy) : Begin("member", w, FALSE, p = policy)
    /\ UNCHANGED <<policy, want, budget>>

\* The resource exists when binding the member would change nothing.
MemberObserve(w) ==
    /\ \E p \in BindRoleToMember(w, policy) :
          Begin("member", w, p = policy, p = policy)
    /\ UNCHANGED <<policy, want, budget>>

\* Create, up to its Set.
MemberCreate ==
    /\ job["member"].pc = "create"
    /\ \E p \in BindRoleToMember(job["member"].cr, policy) :
          Read("member", p, p # policy)
    /\ UNCHANGED <<policy, crs, want, budget>>

\* Delete, up to its Set.
MemberDelete ==
    /\ job["member"].pc = "delete"
    /\ \E p \in UnbindRoleFromMember(job["member"].cr, policy) :
          Read("member", p, p # policy)
    /\ UNCHANGED <<policy, crs, want, budget>>

MemberStep ==
    \/ \E w \in Members : MemberObserve(w)
    \/ MemberCreate \/ MemberDelete \/ Set("member") \/ Unfinalize("member")

(***************************************************************************)
(* BucketPolicy, CryptoKeyPolicy, ServiceAccountPolicy.                    *)
(***************************************************************************)

PolicyObserve(w) ==
    /\ \E u \in IsUpToDate(want, policy) :
          Begin("policy", w, ~IsEmpty(policy), u)
    /\ UNCHANGED <<policy, want, budget>>

\* A Set of a new policy, which has no etag.
PolicyCreate ==
    /\ job["policy"].pc = "create"
    /\ Write("policy", job["policy"].want)
    /\ UNCHANGED <<crs, want, budget>>

\* Update, up to its Set.
PolicyUpdate ==
    /\ job["policy"].pc = "update"
    /\ \E u \in IsUpToDate(job["policy"].want, policy) :
          Read("policy", job["policy"].want, ~u)
    /\ UNCHANGED <<policy, crs, want, budget>>

\* A Set of the empty policy, which has no etag.
PolicyDelete ==
    /\ job["policy"].pc = "delete"
    /\ Write("policy", Empty)
    /\ UNCHANGED <<crs, want, budget>>

PolicyStep ==
    \/ \E w \in PolicyCRs : PolicyObserve(w)
    \/ PolicyCreate \/ PolicyUpdate \/ PolicyDelete
    \/ Set("policy") \/ Unfinalize("policy")

(***************************************************************************)
(* Everybody else.                                                         *)
(***************************************************************************)

Disturb == budget > 0 /\ budget' = budget - 1

\* Somebody else adds or removes one grant with a read-modify-write.
OtherWrites ==
    /\ Disturb
    /\ \E g \in OtherGrants :
          policy' \in {With(policy, g[1], g[2], g[3]),
                       Without(policy, g[1], g[2], g[3])} \ {policy}
    /\ job' = [c \in Controllers |-> [job[c] EXCEPT !.fresh = FALSE]]
    /\ UNCHANGED <<crs, want>>

\* A call fails, or the provider stops: the reconcile ends.
Abort ==
    /\ Disturb
    /\ \E c \in Controllers : job[c].pc # "idle" /\ End(c)
    /\ UNCHANGED <<policy, crs, want>>

UserDelete ==
    /\ Disturb
    /\ \E w \in CRNames :
          /\ crs[w].phase = "live"
          /\ crs' = [crs EXCEPT ![w] = [@ EXCEPT
                        !.phase = IF crs[w].finalizer THEN "deleting" ELSE "gone"]]
    /\ UNCHANGED <<policy, want, job>>

UserCreate ==
    /\ Disturb
    /\ \E w \in CRNames : crs[w].phase = "gone" /\ crs' = [crs EXCEPT ![w] = NewCR]
    /\ UNCHANGED <<policy, want, job>>

\* An edit of the spec; while the CR is gone, the spec it is created with next.
UserEdit ==
    /\ PolicyCRs # {}
    /\ Disturb
    /\ want' \in PolicySpecs \ {want}
    /\ UNCHANGED <<policy, crs, job>>

Next == MemberStep \/ PolicyStep \/ OtherWrites \/ Abort
            \/ UserDelete \/ UserCreate \/ UserEdit

Spec == Init /\ [][Next]_vars

\* Every CR is polled, and a worker that is in a reconcile goes on with it.
Fairness ==
    /\ WF_vars(MemberStep)
    /\ WF_vars(PolicyStep)
    /\ \A w \in Members : SF_vars(MemberObserve(w))

FairSpec == Spec /\ Fairness

(***************************************************************************)
(* Properties.                                                             *)
(***************************************************************************)

Finalized ==
    \A w \in CRNames : /\ crs[w].phase = "gone" => ~crs[w].finalizer
                       /\ crs[w].phase = "deleting" => crs[w].finalizer

JobOwned ==
    \A c \in Controllers : job[c].pc # "idle" =>
        /\ job[c].cr \in IF c = "member" THEN Members ELSE PolicyCRs
        /\ crs[job[c].cr].finalizer
        /\ job[c].pc \in {"delete", "unfinalize"} => crs[job[c].cr].phase = "deleting"

PolicyJob ==
    /\ job["policy"].pc # "idle" => job["policy"].want \in PolicySpecs
    /\ job["policy"].pc = "set" => job["policy"].new \in PolicySpecs

MemberJob ==
    job["member"].pc = "set" /\ job["member"].fresh =>
        LET w == job["member"].cr IN
        \/ job["member"].new \in BindRoleToMember(w, policy)
        \/ /\ job["member"].new \in UnbindRoleFromMember(w, policy)
           /\ crs[w].phase = "deleting"

\* The CR of a worker's reconcile keeps its finalizer, so it is not gone, and the
\* Delete and the removal of the finalizer are for a CR that is being deleted; a
\* Set whose etag is current makes the change of the policy that was asked for.
Inv == Finalized /\ JobOwned /\ PolicyJob /\ MemberJob

\* The grants of the policy, for the abstract specification.
Grants == {g \in Roles \X Conds \X Principals : g[3] \in policy[g[1]][g[2]]}
PhaseOf == [w \in CRNames |-> crs[w].phase]

Access == INSTANCE AccessPolicy WITH grants <- Grants, phase <- PhaseOf

\* However the controllers and the other writers interleave, the policy changes
\* only as AccessPolicy allows: a BucketPolicyMember never adds or removes a grant
\* of anybody else, not one that was made after it read the policy either, and
\* never removes its own while its CR is live.
OnlyOwnGrants == Access!Spec

\* Nobody but the CR w grants its role to its member.
Exclusive(w) ==
    /\ \A v \in Members \ {w} : <<RoleOf[v], PrincipalOf[v]>> # <<RoleOf[w], PrincipalOf[w]>>
    /\ \A p \in PolicySpecs, c \in Conds : PrincipalOf[w] \notin p[RoleOf[w]][c]
    /\ \A g \in OtherGrants : <<g[1], g[3]>> # <<RoleOf[w], PrincipalOf[w]>>

\* A BucketPolicyMember that is gone has left no grant behind: the finalizer goes
\* only after an Observe that did not find the member bound, and a Create whose
\* reconcile began before the deletion cannot add the grant after that.
GrantRevoked ==
    \A w \in Members : Exclusive(w) /\ crs[w].phase = "gone" =>
        \A c \in Conds : PrincipalOf[w] \notin policy[RoleOf[w]][c]

\* Some binding of w's role has its member.
Bound(w) == \E c \in Conds : PrincipalOf[w] \in policy[RoleOf[w]][c]

\* What the comment on UnbindRoleFromMember says: a member that is bound to the
\* role is unbound by it, in whichever binding of the role it is.
UnbindsWhatIsBound ==
    \A w \in Members : Bound(w) => policy \notin UnbindRoleFromMember(w, policy)

\* Where no other controller owns the policy, every BucketPolicyMember ends up
\* bound while it is live, and gone once it was deleted, whatever deletions,
\* failures and other writers' changes came in between.
MembersSettle ==
    <>[](\A w \in Members : /\ crs[w].phase # "deleting"
                            /\ crs[w].phase = "live" => Bound(w))

\* Once the BucketPolicyMembers are gone for good, the policy ends up as the
\* BucketPolicy says, or the CR is gone, whatever the members, other writers,
\* failures and edits have left behind.
PolicySettles ==
    <>[](\A w \in Members : crs[w].phase = "gone") =>
        <>[](\A w \in PolicyCRs : /\ crs[w].phase # "deleting"
                                  /\ crs[w].phase = "live" => policy = want)
=============================================================================
