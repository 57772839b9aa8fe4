\* Two pages, two briefs; each page pays once, or one of them twice.
SPECIFICATION Spec
CONSTANTS
    Pages = {p1, p2}
    Briefs = {b1, b2}
    None = none
    MaxTxs = 2
SYMMETRY Symmetry
INVARIANTS
    TypeOK
    DoneIsMine
    
