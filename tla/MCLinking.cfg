\* Two redemptions of one code, repeated while they fail, and two creators.
CONSTANTS
    t1 = t1
    t2 = t2
    i1 = i1
    i2 = i2
    n1 = n1
    c1 = c1
    a1 = a1
    g1 = g1
    g2 = g2
    b1 = b1
    b2 = b2
    Task = {t1, t2}
    Creator = {g1, g2}
    Code = {c1}
    Ip = {i1, i2}
    Node = {n1}
    Ask <- Asks
    AccountOf <- Accounts
    NewAccount <- NewAccounts
    PerIp = 2
    Global = 3
    NoAccount = NoAccount
    NoTask = NoTask
SPECIFICATION LiveSpec
INVARIANTS RateLimited OneAccount
PROPERTIES RedeemedIsGone RedemptionEnds
CHECK_DEADLOCK FALSE
