SPECIFICATION Spec
CONSTANTS
    i1 = i1
    i2 = i2
    i3 = i3
    w1 = w1
    w2 = w2
    w3 = w3
    Kinds = {"docker", "kubernetes", "systemd"}
    Names = {"api", "web"}
    Ids = {i1, i2, i3}
    Workers = {w1, w2, w3}
    None = None
SYMMETRY MCSymmetry
INVARIANTS TypeOK UnitsTracked ListedIsThere
CHECK_DEADLOCK FALSE
