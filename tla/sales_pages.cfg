SPECIFICATION SalesSpec
CONSTANTS
    OpenForms = {"company", "opportunity", "quotation", "activity", "proposal", "bid", "prb", "prbresult", "rfp"}
    e1 = e1
    e2 = e2
    i1 = i1
    i2 = i2
    n1 = n1
    n2 = n2
    p1 = p1
    m1 = m1
    m2 = m2
    d1 = d1
    d2 = d2
    Names = {n1, n2}
    Emails = {e1, e2}
    Infos = {i1, i2}
    Blank = Blank
    Kinds = {"newCustomer", "newPartner", "editCustomer", "editPartner"}
    Typed <- TypedContacts
    Cards <- OneCard
    StoredManagers <- SomeManagers
    MaxContacts = 2
    MaxTyped = 2
    MaxRuns = 2
    MaxFaults = 1
    Documents = {d1, d2}
    ModuleNames <- TwoModules
    Meets = {}
    PartnerNames <- OnePartner
    StoredFiles <- SomeFiles
    MaxAttachments = 2
    MaxSteps = 3
    MaxSubs = 1
    MaxBad = 1
    Prices = {0, 2, 4}
    Offers = {3}
    Quantities = {2}
    LegacyRows <- WholeLines
    MaxQuotes = 2
    MaxEntries = 2
    MaxRepricing = 1
    MaxLost = 1
    Firms = {"f1", "f2"}
    Deals = {"o1", "o2", "o3"}
    FirmOf <- FirmOfDeal
    Colleagues <- TwoColleagues
    CalledAs <- ColleagueNames
    OpenRequests <- OneRequest
    Purposes = {"CONSULTING"}
    MaxActivities = 2
    MaxRequests = 2
    MaxActRuns = 2
    MaxTouched = 2
    RequestOf <- TwoRequests
    StoredProposals <- SomeProposals
    MaxFiles = 1
    MaxChoices = 2
    MaxSends = 2
    MaxDown = 1
    ProposalOf <- FourProposals
    OpportunityName <- SharedNames
    Factors = {"f"}
    NoFactors = "none"
    StoredResults <- SomeResults
    MaxBidChanges = 2
    MaxBidSends = 1
    MaxBidFaults = 1
    OpportunityNamed <- PrbNames
    Users = {"u"}
    Purchases = {"p"}
    Opinions = {"none", "text"}
    StoredPrbs <- SomePrbs
    MaxPrbChanges <- PrbBounds
    MaxPrbSends = 1
    MaxPrbFaults = 1
    RfpOwner <- RfpOwners
    FirstRfps <- SomeRfps
    RfpTexts = {"r"}
    MaxRows = 2
    MaxRfpRuns = 3
    MaxRfpFaults = 1
    Me = "u"
    Attenders = {"u", "v"}
    RepresentedBy <- Represented
    FirstReports <- FirstKnowledge
    ResultTexts = {"r"}
    FirstResults <- SomePrbResults
    MaxResultSteps = 3
    MaxResultSends = 1
    MaxResultFaults = 1
INVARIANTS
    SalesTypeOK
    FormShowsWhatIs
    
PROPERTIES
    UntouchedIsKept
    StoredIsShown
    SavedMeansSaved
SYMMETRY Interchangeable
CHECK_DEADLOCK FALSE
