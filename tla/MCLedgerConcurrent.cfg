CONSTANTS
    Container = {c1, c2}
    Digest = {d1}
    Writer = {w1, w2}
    NoRecord = NoRecord
    Absent = Absent
    Torn = Torn
    MaxMutations = 2
SPECIFICATION Spec
INVARIANT QuiescentDurable
