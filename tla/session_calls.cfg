SPECIFICATION FairSpec
CONSTANTS
    ada = ada
    lee = lee
    t1 = t1
    t2 = t2
    c1 = c1
    c2 = c2
    Tabs = {t1}
    Users = {ada}
    Calls = {c1, c2}
    NoSession = NoSession
    MaxTokens = 2
    MaxLogins = 1
    MaxFaults = 1
    MaxFlights = 1
    MaxActive = 3
PROPERTIES
    EveryCallSettles
CHECK_DEADLOCK FALSE
