\* Two requests through two models and two backends, fixed configuration.
SPECIFICATION Spec
CONSTANTS
    b1 = b1
    b2 = b2
    u1 = u1
    u2 = u2
    r1 = r1
    r2 = r2
    m1 = m1
    m2 = m2
    NoModel = NoModel
    NoBackend = NoBackend
    Backends = {b1, b2}
    Urls = {u1}
    Requests = {r1, r2}
    Models = {m1, m2}
    Configs <- FailoverConfigs
    FirstConfig <- Failover
    DefaultHealth <- Default
    MaxBackoff = 1
    MaxReloads = 0
INVARIANTS
    TypeOK
PROPERTIES
    NoCallRepeated
    EveryRequestAnswered
