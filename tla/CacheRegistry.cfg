SPECIFICATION MCSpec
CONSTANTS
    g1 = g1
    g2 = g2
    g3 = g3
    g4 = g4
    d1 = d1
    d2 = d2
    x1 = x1
    Guards <- MCGuards
    Devices <- MCDevices
    Throwers <- MCThrowers
    NoCache = NoCache
    HintValues = {1}
    MaxCaches = 4
    MaxFrames = 2
    Unlimited = 3
SYMMETRY MCSymmetry
INVARIANT RegistryExact
PROPERTIES FrontKeepsLimit OldestGives
