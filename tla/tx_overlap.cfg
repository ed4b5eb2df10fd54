SPECIFICATION TxSpec
CONSTANTS
    ada = ada
    report = report
    s1 = s1
    s2 = s2
    Users = {ada}
    Docs = {report}
    DomainOf <- DomainOfDocs
    InitialPosition <- Staff
    Seeded <- OrderReportSeed
    Plans <- TwoSteps
    MaxWorkflows = 2
    MaxTemplates = 1
    Sessions = {s1, s2}
    MaxInFlight = 2
INVARIANTS
    TxTypeOK
    
    ApprovedReportHasProject
CHECK_DEADLOCK FALSE
SYMMETRY SessionSymmetry
