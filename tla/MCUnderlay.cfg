CONSTANTS
    None = None
    p1 = p1
    p2 = p2
    own4 = own4
    own6 = own6
    new4 = new4
    a4 = a4
    a6 = a6
    b4 = b4
    moved4 = moved4
    gw4 = gw4
    gw6 = gw6
    other4 = other4
    far4 = far4
    Peers = {p1, p2}
    Addresses = {own4, own6, new4, a4, a6, b4, moved4, gw4, gw6, other4, far4}
    Scenarios <- Nodes
SPECIFICATION UnderlayFairSpec
INVARIANTS PinnedBeforePeered
PROPERTIES PinsWritten PinsRunWithProbes
