CONSTANTS
    r1 = r1
    r2 = r2
    i1 = i1
    i2 = i2
    i3 = i3
    i4 = i4
    None = None
    home = home
    museum = museum
    bazaar = bazaar
    Requests = {r1, r2}
    Points = {home, museum, bazaar}
    MaxMatrixPoints = 2
    Instances = {i1, i2, i3, i4}
SPECIFICATION Spec
SYMMETRY Interchangeable
INVARIANT WarmedIsRead
