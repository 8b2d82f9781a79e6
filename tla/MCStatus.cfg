SPECIFICATION Spec
CONSTANTS
    Goroutines = {g1, g2, g3}
    Nobody = Nobody
    Running = {"join", "import", "status"}
PROPERTY EverybodyReturns
CHECK_DEADLOCK FALSE
