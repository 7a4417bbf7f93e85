SPECIFICATION MCSpec
CONSTANTS
    a1 = a1
    a2 = a2
    b1 = b1
    b2 = b2
    l1 = l1
    s1 = s1
    q1 = q1
    t1 = t1
    e1 = e1
    e2 = e2
    Requests = {b1, b2}
    Admins = {a1, a2}
    Newcomers = {e1, e2}
    Listed = {e1}
    Directory = "required"
    InviteRoles = {"user", "administrator"}
    MaxInvitations = 2
    MaxVerifications = 2
    Logins = {l1}
    SessionIds = {s1}
    Visits = {b1, b2}
    ResetIds = {t1}
    Ops = {"view", "logout", "revoke", "change"}
    AdminOps = {}
    TrustedHeader = FALSE
    Limit = 2
    Legacy = FALSE
    Prompt = TRUE
    MaxVersion = 3
    MaxGen = 2
    MaxWrong = 0
    Messages = {a1, a2}
    Deliverers = {b1, b2}
    Batch = 2
    MaxAttempts = 2
    MaxSends = 3
    MaxCrashes = 1
    MaxTimeouts = 1
    MaxRetries = 1
SYMMETRY Symmetry
INVARIANTS
    SessionsSafe
    AccountsSafe
    MailSafe
    LimitsHold
\* Every bounded budget may be used up.
CHECK_DEADLOCK FALSE
