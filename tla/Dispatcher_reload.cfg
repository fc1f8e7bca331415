\* Two requests and one backend while the configuration is reloaded.
SPECIFICATION Spec
CONSTANTS
    b1 = b1
    b2 = b2
    u1 = u1
    u2 = u2
    r1 = r1
    r2 = r2
    m1 = m1
    m2 = m2
    NoModel = NoModel
    NoBackend = NoBackend
    Backends = {b1}
    Urls = {u1, u2}
    Requests = {r1, r2}
    Models = {m1}
    Configs <- ReloadConfigs
    FirstConfig <- Steady
    DefaultHealth <- Default
    MaxBackoff = 1
    MaxReloads = 2
PROPERTIES
    ProbeLostOnlyByDropOrDisable
    ConfigTakesEffect
    RecoversUnlessProbeLost
