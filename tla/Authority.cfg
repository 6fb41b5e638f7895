CONSTANTS
    t1 = t1
    Capabilities = {c1}
    Targets = {t1}
    Grants = {g1, g2}
    Decisions = {d1}
    GrantTerms <- MCTerms
    Contracts <- MCContracts
    Policies <- MCPolicies
    MaxDrift = 2
    Providers = {p1}
    Contents = {x1, x2}
    Callers = {k1}
    MaxRevisions = 3
SPECIFICATION BindingSpec
INVARIANT ApprovalIsSpentOnIssue
INVARIANT AsksStayAuditable
INVARIANT RevisionsBuildOnEachOther
PROPERTY ConsumedOnlyWhenPermitted
PROPERTY SpentOnDecidedConfiguration
PROPERTY ImplementsReceipts
SYMMETRY Symmetry
CHECK_DEADLOCK FALSE
