SPECIFICATION Spec
CONSTANTS
    FirstDay = 20240127
    LastDay = 20240403
    MAX_OCCURRENCES_PER_RUN = 20
    MAX_SCAN = 60
    Null = Null
    MAX_SAFE_INTEGER = 2000000
    MAX_REDIRECTS = 2
INVARIANTS ResumesExactly BalanceSheetIsNetWorth ReportsAgree TextReadsBack
    ImportSettles CallsAreHonest ProxyStaysHome
PROPERTIES  WindowsTile BillsFollow
CHECK_DEADLOCK FALSE
