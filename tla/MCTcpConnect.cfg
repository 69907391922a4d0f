\* Two clients of different groups, one destination, two upstreams.
SPECIFICATION FairSpec
CONSTANTS
    c1 = c1
    c2 = c2
    a = a
    b = b
    t = t
    d = d
    u1 = u1
    u2 = u2
    Conns = {c1, c2}
    Clients = {a, b}
    Targets = {t}
    Domains = {d}
    Upstreams = {u1, u2}
    Groups = {"default", "home", "guests"}
    None = None
    Origins <- MCOrigins
    TargetOf <- MCTargetOf
    Members <- MCMembers
    GroupRule <- MCGroupRule
    DomainRule <- MCDomainRule
    IpRule <- MCIpRule
    ForceDomains = FALSE
    GeositeTags = TRUE
    DomainRoutes = {b}
    Ttl = 1
    CacheMax = 1
    MaxTime = 1
INVARIANTS
    DecisionMatchesMode
    GivesUpAfterAll
    UpstreamOfGroup
PROPERTIES
    Handled
