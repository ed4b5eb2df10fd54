SPECIFICATION DeliverySpec
CONSTANTS
    OpenParts = {"order", "approval", "alarms", "billing", "support", "maintenance", "project", "chat", "report", "licence"}
    t1 = t1
    pg1 = pg1
    pg2 = pg2
    pj1 = pj1
    pj2 = pj2
    ann1 = ann1
    bob1 = bob1
    CustomerOf <- CompanyOfDeal
    Staffed = {1}
    ListPrice <- PriceList
    ClassOf <- ClassList
    OrderQuantities = {1, 1000}
    StoredOrders <- SomeOrders
    MaxOrderChanges = 2
    MaxOrderSends = 1
    MaxOrderFaults = 1
    Staff = {"lead", "head", "member"}
    NameOf <- StaffNames
    LevelOf <- StaffLevels
    UserOf <- PageUsers
    Domains = {"ORDER_REPORT", "LICENSE", "QUOTATION", "PRB"}
    MaxPanelChoices = 3
    MaxPanelFaults = 1
    Accounts = {"kim", "lee"}
    BrowserTabs = {t1}
    MaxAlarms = 2
    MaxUpsets = 1
    Reports = {"r1", "r2"}
    Clerks = {"ann", "bob", "cid"}
    CalledClerk <- ClerkNames
    Requester = "ann"
    StepClerks <- ClerksOfStep
    Lookers <- TwoLookers
    OtherWorkflows <- OthersOfNumber
    MaxInvoices = 2
    MaxRemarks = 2
    MaxBillRuns = 4
    SupCustomers = {"c1", "c2"}
    SupStaff <- SupportStaff
    SupName <- SupportNames
    StoredSupport <- SomeSupport
    MaxSupRows = 3
    MaxSupParts = 1
    MaxSupRuns = 4
    Projects = {"pj1"}
    PeopleOf <- PeopleOfProject
    MntUsers <- ThreeUsers
    MntName <- KimLeeKim
    MntPages = {pg1, pg2}
    MaxContracts = 1
    MaxMntFiles = 2
    MaxMntRuns = 4
    PrjPages = {pj1, pj2}
    PrjUsers <- ThreeUsers
    PrjNameOf <- KimKimLee
    FirstProjects <- TwoProjects
    MaxUploads = 1
    MaxPrjRuns = 4
    MaxPrjFaults = 1
    ChatUsers = {ann1, bob1}
    MaxChats = 2
    MaxQuestions = 1
    MaxChatRuns = 3
    MaxChatFaults = 1
    RepOptions <- OptionGroups
    MaxAsked = 3
    MaxToggles = 3
    MaxReloads = 1
    LicCompanies = {"c1", "c2"}
    LicModules = {"m1", "m2"}
    LicRegistered = {"m1"}
    LicGroupOf <- GroupOfModule
    MaxLicRows = 2
    MaxLicEdits = 8
    MaxLicSends = 2
    MaxLicFaults = 1
INVARIANTS
    DeliveryTypeOK
    FilesStayWithTheirRows
    PageShowsItsChoice
    OfferedToTheirUser
    OnceAndWhole
PROPERTIES
    StoredAsOnPage
    FormerIsKept
    DecidedAsOffered
CHECK_DEADLOCK FALSE
