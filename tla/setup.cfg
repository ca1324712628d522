SPECIFICATION Spec
CONSTANTS
    Null = Null
    Torn = Torn
    Connections <- TwoConnections
    Packs <- PackRepo
    Discovered <- TwoSources
    MaxConns = 2
INVARIANTS
    ConfigIsSound
    InstallIsWhole
PROPERTIES
    WorkSurvives
