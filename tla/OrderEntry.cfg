\* Two markets, one order, filters that change once.
SPECIFICATION Spec
CONSTANTS
    A = A
    B = B
    Symbols = {A, B}
    NoSymbol = NoSymbol
    MaxVersions = 2
    FilterTable <- MCFilterTable
    Prices = {2, 4}
    Forms <- MCForms
    Quantities = {4, 6}
    ApiOrders <- MCApiOrders
    MaxRuns = 2
    Exponential = {1, 2}
CHECK_DEADLOCK FALSE
INVARIANTS
    PostedAsTyped
    OwnFilters
    BackendAgrees
    ExecutionAgrees
    EntriesComeThrough
