SPECIFICATION Spec
CONSTANTS
    r1 = r1
    r2 = r2
    p1 = p1
    p2 = p2
    a1 = a1
    o1 = o1
    o2 = o2
    m1 = m1
    m2 = m2
    s1 = s1
    none = none
    noitem = noitem
PROPERTIES
    WorkIsFound
    DatabricksResolves
    MailSettles
    OperationsEnd
    OwnerGetsIn
\* What has settled leaves nothing to do.
CHECK_DEADLOCK FALSE
