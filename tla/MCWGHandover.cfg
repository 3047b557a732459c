CONSTANTS
    None = None
    a = a
    b = b
    c = c
    k1 = k1
    k2 = k2
    k3 = k3
    Names = {a, b, c}
    Inventories <- All
    Budget <- OneForeign
SPECIFICATION WgSpec
PROPERTY UnmanagedSpared
