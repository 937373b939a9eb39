SPECIFICATION FairSpec
CONSTANTS
    Roles = {"reader"}
    Principals = {"ann", "bob", "cat"}
    Conds = {"always"}
    NoCond = "always"
    Members = {"ann", "cat"}
    RoleOf <- MCRoleOf
    PrincipalOf <- MCPrincipalOf
    PolicyCRs = {}
    PolicySpecs <- MCPolicySpecs
    OtherGrants <- MCOtherGrants
    MaxDisturbances = 5
INVARIANT GrantRevoked
PROPERTY MembersSettle
CHECK_DEADLOCK FALSE
