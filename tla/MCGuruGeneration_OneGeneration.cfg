CONSTANTS
    None = None
    Callers = {c1, c2, s1}
    Schedulers = {s1}
    Users = {u1, u2}
    Kinds = {"review", "digest", "take", "chat", "decision"}
    Instances = {i1, i2, i3}
    Keyless = {i3}
    Budget = 1
    Costs = {1}
    MaxCost = 1
    MaxRows = 1
SPECIFICATION Spec
INVARIANT OneGenerationPerKind
