SPECIFICATION Spec
CONSTANTS
    Phone = Phone
    Laptop = Laptop
    Devices <- MCDevices
    MaxMoves <- MCRestore
    Statement <- MCStatement
    Limit = 2
    FirstDay = 20240229
    LastDay = 20240302
    MAX_OCCURRENCES_PER_RUN = 6
    MAX_SCAN = 8
    Null = Null
    MAX_SAFE_INTEGER = 2000000
PROPERTY RestoreKeepsNewer
CHECK_DEADLOCK FALSE
