SPECIFICATION FairSpec
CONSTANTS
    ada = ada
    lee = lee
    report = report
    billing = billing
    purchase = purchase
    Users = {ada, lee}
    Docs = {report}
    DomainOf <- DomainOfDocs
    InitialPosition <- Staff
    Seeded <- OrderReportSeed
    Plans <- LongPlans
    MaxWorkflows = 1
    MaxTemplates = 1
PROPERTIES
    EveryWorkflowEnds
CHECK_DEADLOCK FALSE
