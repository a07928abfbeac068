SPECIFICATION ServicesSpec
CONSTANTS
    a1 = a1
    a2 = a2
    a3 = a3
    b1 = b1
    b2 = b2
    c1 = c1
    c2 = c2
    m1 = m1
    m2 = m2
    m3 = m3
    i1 = i1
    p1 = p1
    p2 = p2
    e1 = e1
    e2 = e2
    e3 = e3
    r1 = r1
    r2 = r2
    r3 = r3
    x1 = x1
    s1 = s1
    s2 = s2
    None = None
    Proposal = {a1, a2}
    Reviewer = {b1, b2}
    Applier = {c1, c2}
    Lock = {x1}
    MaxAttempts = 3
    BundleRequest <- MCBundleRequest
    Claim = {m1, m2, m3}
    Initial <- MCInitial
    Identity <- MCIdentity
    Relation <- MCRelation
    Signature <- MCSignature
    Group <- MCGroup
    Tokens <- MCTokens
    NoLLM = {m3}
    Sensitive = {m2}
    BundleTop = 2
    ProfileMax = 1
    ExpandedMax = 2
    MaxTokens = 3
    PerGroup = 1
    AggregationRerank = TRUE
    CandidateLimit = 2
    CallLimit = 2
    MaxClaimChanges = 2
    Add = {a1, a2, a3}
    Id = {i1}
    Payload = {p1, p2}
    IdOf <- MCIdOf
    PayloadOf <- MCPayloadOf
    Size <- MCSize
    RequireVector = TRUE
    Listed = 1
    TopK = 2
    PerSession = 1
    MaxTries = 3
    MaxClears = 1
    Emit = {e1, e2, e3}
    Metered = {e1, e2}
    Issuer = {a1, a2}
    Amount <- MCAmount
    Limit <- MCLimit
    Enforce = TRUE
    Application = {r1, r2, r3}
    Extra = {x1}
    Account = {s1, s2}
    Email = {e1, e2}
    Prefix = {a1, a2}
    Admin = p1
    AccountOf <- MCAccountOf
    EmailOf <- MCEmailOf
    Slug <- MCSlug
    MaxUsers = 2
    Field = {a1, a2}
    Value = {b1, b2}
    Item = {c1, c2}
    Door = {None, s1}
    MaxWrites = 1
SYMMETRY Symmetry
INVARIANTS
    ServicesTypeOK NothingUnapproved RecordsAgree BundleSound CallSound SearchServesStored
    MeteringSound AccountsSound AnswersGrounded CompletionsBilled
PROPERTIES AckedIsStored LinkStands
CHECK_DEADLOCK FALSE
