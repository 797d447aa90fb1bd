SPECIFICATION Spec
CONSTANTS
    Clients = {c1}
    Ids = {s1, s2}
    Keys = {k1, k2}
    Plain = {p, q}
    Dollar = {}
    Empty = Empty
    Masked = Masked
    MaxServers = 2
    None = None
INVARIANTS
    SecretsKeepTheirOwner
CHECK_DEADLOCK FALSE
