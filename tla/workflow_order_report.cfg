SPECIFICATION Spec
CONSTANTS
    ada = ada
    lee = lee
    report = report
    billing = billing
    purchase = purchase
    Users = {ada, lee}
    Docs = {report}
    DomainOf <- DomainOfDocs
    InitialPosition <- Staff
    Seeded <- OrderReportSeed
    Plans <- ShortPlans
    MaxWorkflows = 2
    MaxTemplates = 1
INVARIANTS
    TypeOK
    LiveIsNewest
    OneCurrentLine
    ApprovalChain
    StatusIsLastOutcome
    PendingHasWorkflow
    ApprovedOnceWithProject
    NextApproverHint
PROPERTIES
    DecisionsAreFinal
    NoStepSkipped
CHECK_DEADLOCK FALSE
