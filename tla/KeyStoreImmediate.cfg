SPECIFICATION Spec
CONSTANTS
    Pods = {p1, p2}
    Keys = {k1}
    Ops = {o1, o2}
    Users = {u1}
    Aliases = {a1}
    Lifetimes <- MCNoExpiry
    MaxLife = 1
    TTL = 2
    MaxFill = 1
SYMMETRY Symmetry
INVARIANT RevocationIsImmediate
