SPECIFICATION Spec
CONSTANTS
    Ids = {a1, a2}
    Given = {a1}
    Values = {1, 2}
    MaxLen = 4
    Blocks = {k1, k2, k3}
    Absent = Absent
INVARIANTS TypeOK
PROPERTIES ActsOnSequence
VIEW MCView
