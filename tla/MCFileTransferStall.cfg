CONSTANTS
    t1 = t1
    t2 = t2
    Transfer = {t1, t2}
    Chunks = 2
    Depth = 1
SPECIFICATION MCStallSpec
PROPERTIES CancelStops
