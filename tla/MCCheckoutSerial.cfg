SPECIFICATION Spec
CONSTANTS
    v1 = v1
    v2 = v2
    NoRow = NoRow
    Variants = {v1, v2}
    Active = {v1, v2}
    InitialStock <- MCStock
    OrderIds = {o1, o2}
    MaxQuantity = 2
    Users = {u1, u2}
    ItemIds = {i1, i2, i3}
    Sessions = {s1}
SYMMETRY Symmetry
INVARIANTS
    StockConservation
    ItemOrderedOnce
