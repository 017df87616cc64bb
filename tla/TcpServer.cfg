SPECIFICATION Spec
CONSTANTS
    Main = "main"
    Conns = {"c1", "c2"}
    Listener = "listener"
    Fds = {1, 2}
    Setups <- MCSetups
INVARIANTS
    ServerSafe
    PollerMatches
PROPERTIES
    StopCompletes
CHECK_DEADLOCK FALSE
