---------------------------- MODULE MCIAMPolicy ----------------------------
(* Instances of IAMPolicy for TLC. *)
EXTENDS IAMPolicy

MCRoleOf == [w \in Members |-> "reader"]
\* Each member CR binds a principal of its own.
MCPrincipalOf == [w \in Members |-> w]

Policy(grants) ==
    [r \in Roles |-> [c \in Conds |-> {m \in Principals : <<r, c, m>> \in grants}]]

\* The whole policy: a grant of another role than the member CRs bind, or the
\* role they bind under each condition, in as many bindings.
MCPolicySpecs == {Policy({<<"reader", c, "eve">> : c \in Conds}),
                  Policy({<<"writer", "always", "eve">>})}

MCOtherGrants == {<<"reader", c, "bob">> : c \in Conds}
=============================================================================
