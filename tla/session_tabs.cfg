SPECIFICATION Spec
CONSTANTS
    ada = ada
    lee = lee
    t1 = t1
    t2 = t2
    c1 = c1
    c2 = c2
    Tabs = {t1, t2}
    Users = {ada}
    Calls = {c1}
    NoSession = NoSession
    MaxTokens = 3
    MaxLogins = 2
    MaxFaults = 0
    MaxFlights = 1
    MaxActive = 3
INVARIANTS
    SessionSound
SYMMETRY Interchangeable
CHECK_DEADLOCK FALSE
