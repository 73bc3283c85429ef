\* Five layers that speak or say nothing, four trees, a game that is empty or not.
CONSTANTS
    Invalid = Invalid
    Unset = Unset
    NoPort = NoPort
    Drives <- MCDrives
    Settings <- MCSettings
    Pointers <- MCPointers
    Defaults <- MCDefaults
    Layers <- MCLayers
    Zero <- MCZero
    Resolve <- MCResolve
    Trees <- MCTrees
    Remotes <- MCRemotes
    DefaultInclude <- MCInclude
    Declarations <- Ts
    DefaultIgnore <- MCIgnore
SPECIFICATION StartupSpec
INVARIANTS TypeOK HighestLayerWins OwnProjectFile AcceptedDestinationServes UploadsAreRecognised EventsAgreeWithWalk
CHECK_DEADLOCK FALSE
