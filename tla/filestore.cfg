\* Two records, two mutations in flight and a read that loads by itself, crashes and failures.
SPECIFICATION Spec
CONSTANTS
    Keys = {k1, k2}
    Writers = {w1, w2}
    Readers = {r1}
    None = none
INVARIANTS
    TypeOK
    StoredIsKept
    ReadsAreCurrent
PROPERTY OnlyMutatedChange
SYMMETRY MC_Symmetry
