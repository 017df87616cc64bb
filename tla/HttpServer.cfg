SPECIFICATION Spec
CONSTANTS
    Boundary <- MCBoundary
    Callbacks <- MCCallbacks
    Lines <- MCLines
    Methods <- MCMethods
    HeaderLines <- MCHeaderLines
    Cases <- MCCases
    Chars <- MCChars
    Files <- MCFiles
    Allowed <- MCAllowed
    Maxima = {0, 3}
    Room = 2
INVARIANTS
    MultipartContentWhole
    OnlyBrokenIsRefused
    ServedInside
    KeepAliveAccounts
PROPERTIES
    RequestsAnswered
CHECK_DEADLOCK FALSE
