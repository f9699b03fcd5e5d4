CONSTANTS
    Container = {c1, c2}
    Digest = {d1}
    Writer = {w1, w2}
    NoRecord = NoRecord
    Absent = Absent
    Torn = Torn
    MaxMutations = 3
SPECIFICATION Spec
INVARIANTS TypeOK NeverTorn SerialDurable
PROPERTIES PublishCoversPast ImplementsAbstract
