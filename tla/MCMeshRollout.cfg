CONSTANTS
    None = None
    NoPeer = NoPeer
    Pool <- FourNodes
    Starts <- SomeFiles
    MaxEdits = 2
    MaxFaults = 1
SPECIFICATION RolloutFairSpec
INVARIANTS RolloutTypeOK PortsDistinct AddressesDistinct PinnedLinksAgree RoutedLinksBuilt OrderIrrelevant
PROPERTY MeshAgrees
CHECK_DEADLOCK FALSE
