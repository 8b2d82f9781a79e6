SPECIFICATION Spec
CONSTANTS
    Goroutines = {g1, g2, g3}
    Nobody = Nobody
    Running = {"join", "ignore", "broadcast", "handshake", "mode", "add", "op",
               "import", "reload", "reverify", "complete"}
PROPERTY EverybodyReturns
CHECK_DEADLOCK FALSE
