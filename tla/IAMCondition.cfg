SPECIFICATION Spec
CONSTANTS
    Roles = {"reader"}
    Principals = {"ann", "bob"}
    Conds = {"always", "office"}
    NoCond = "always"
    Members = {"ann"}
    RoleOf <- MCRoleOf
    PrincipalOf <- MCPrincipalOf
    PolicyCRs = {}
    PolicySpecs <- MCPolicySpecs
    OtherGrants <- MCOtherGrants
    MaxDisturbances = 4
INVARIANT UnbindsWhatIsBound
CHECK_DEADLOCK FALSE
