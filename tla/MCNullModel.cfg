SPECIFICATION Spec
CONSTANTS
    north = north
    south = south
    west = west
    Location <- Locations
    Nowhere = Nowhere
    NumAgents = 2
    NumTicks = 4
INVARIANT ConvergedIffLastUnanimous
PROPERTY WatchSpec
CHECK_DEADLOCK FALSE
