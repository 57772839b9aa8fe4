\* Two processes over one fresh database, two calls in flight, one job.
SPECIFICATION Spec
CONSTANTS
    Procs = {p1, p2}
    Calls = {c1, c2}
    Keys = {k1}
    Values = {v1}
    None = none
    MaxLate = 1
SYMMETRY Symmetry
INVARIANT TypeOK
PROPERTIES
    
    KeepsPromise
