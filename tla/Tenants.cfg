\* Four requests on one tenant, with one failing statement or lost reply.
SPECIFICATION Spec
CONSTANTS
    Nil = Nil
    Requests = {r1, r2, r3, r4}
    t1 = t1
    t2 = t2
    n1 = n1
    n2 = n2
    c1 = c1
    c2 = c2
    png = png
    pdf = pdf
    Tenants = {t1}
    Names = {n1, n2}
    Contacts = {c1, c2}
    Types = {png, pdf}
    Admins <- MCAdmins
    DefaultPolicy <- MCDefaultPolicy
    TenantPatches <- MCTenantPatches
    PolicyPatches <- MCPolicyPatches
    MaxFaults = 1
SYMMETRY Symmetry
INVARIANTS
    TenantWhole
    AuditReplays
    AnswersAudited
PROPERTIES
    ChangesAuthorised
CHECK_DEADLOCK FALSE
