SPECIFICATION FairSpec
CONSTANTS
    Roles = {"reader", "writer"}
    Principals = {"ann", "bob", "eve"}
    Conds = {"always", "office"}
    NoCond = "always"
    Members = {"ann"}
    RoleOf <- MCRoleOf
    PrincipalOf <- MCPrincipalOf
    PolicyCRs = {"whole"}
    PolicySpecs <- MCPolicySpecs
    OtherGrants <- MCOtherGrants
    MaxDisturbances = 4
PROPERTIES OnlyOwnGrants PolicySettles
CHECK_DEADLOCK FALSE
