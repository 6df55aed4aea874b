\* The scenarios of MCLibrary: two requests at once, or one besides two threads.
SPECIFICATION FairSpec
CONSTANTS
    Docs = {d1, d2}
    NoDoc = NoDoc
    Pages = {1, 2}
    Names = {n1, n2}
    NoName = NoName
    Receipts = {c1, c2, c3}
    NoReceipt = NoReceipt
    Images = {i1, i2, i3}
    NoImage = NoImage
    Bills <- AllBills
    NoBill = NoBill
    Requests = {r1, r2}
    Threads = {t1, t2}
    Cards <- AllCards
    TopN = 2
    Scenarios <- LibraryScenarios
    MaxFaults = 1
    Categories = {1, 2}
    NoCategory = 0
    CategoryName <- CategoryNames
    Fee <- CardFees
    BenefitTags <- CardTags
    RecentDates <- Recent
    Stores = {"s1", "s2"}
    Years <- TheYears
    PageSizes = {1, 2}
    C1 = c1
    C2 = c2
    I1 = i1
    R1 = r1
    T1 = t1
INVARIANTS
    TypeOK
    
    UsageAccounts
    RecommendationsBounded
    ReportsAgree
    
PROPERTIES
    
    RequestIsServed
CHECK_DEADLOCK FALSE
