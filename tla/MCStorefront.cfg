SPECIFICATION LiveSpec
CONSTANTS
    NoData = NoData
    NoArchive = NoArchive
    Archives = {1, 2}
    Matches <- Found
    Price <- Prices
    PerPage = 1
    Drafts <- Texts
    trim <- Trim
    Sorts = {"popular_week"}
    Links <- SomeLinks
    InitialRows <- TwoCatalogues
    MaxEvents = 2
INVARIANTS
    PagesPartition
    ViewsAreVisits
    OnlyWhatIsTyped
PROPERTY SearchSettles
CHECK_DEADLOCK FALSE
