SPECIFICATION Spec
CONSTANTS
    ada = ada
    lee = lee
    report = report
    billing = billing
    purchase = purchase
    Users = {ada}
    Docs = {billing, purchase}
    DomainOf <- DomainOfDocs
    InitialPosition <- Staff
    Seeded <- MixedSeed
    Plans <- OneStepPlan
    MaxWorkflows = 2
    MaxTemplates = 3
INVARIANTS
    ApprovedOnceWithProject
PROPERTIES
    KeepsPromise
CHECK_DEADLOCK FALSE
