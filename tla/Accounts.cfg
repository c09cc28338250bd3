SPECIFICATION MCSpec
CONSTANTS
    a1 = a1
    a2 = a2
    p1 = p1
    p2 = p2
    p3 = p3
    k1 = k1
    k2 = k2
    alice = alice
    msig = msig
    level1 = level1
    level2 = level2
    content = content
    None = None
    Proposers = {alice}
    Names = {msig}
    Withdrawing = {alice}
    Levels = {level1, level2}
    Contents = {content}
    MaxAsked = 2
    MaxTime = 2
CHECK_DEADLOCK FALSE
INVARIANTS
    LimitsHold
    BlockAccepted
    ChecksRight
    PermissionsConsistent
    SentOnce
PROPERTIES
    SentWithConsent
