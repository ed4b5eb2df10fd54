SPECIFICATION TxSpec
CONSTANTS
    ada = ada
    report = report
    s1 = s1
    s2 = s2
    Users = {ada}
    Docs = {report}
    DomainOf <- DomainOfDocs
    InitialPosition <- Staff
    Seeded <- OrderReportSeed
    Plans <- OneOrTwoSteps
    MaxWorkflows = 2
    MaxTemplates = 1
    Sessions = {s1}
    MaxInFlight = 1
PROPERTIES
    Spec
CHECK_DEADLOCK FALSE
