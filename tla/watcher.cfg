\* Two overlapping ticks, one job, ranges and a rewind shorter than the chain.
SPECIFICATION Spec
CONSTANTS
    Jobs = {j1}
    Contents <- MC_Contents
    Ticks = {t1, t2}
    MayFail = TRUE
    Pollers = {}
    None = none
    ReorgBuffer = 1
    MaxRange = 2
    MaxHead = 4
    Uploads = {}
INVARIANTS
    TypeOK
    NothingSlipsBehind
SYMMETRY MC_Symmetry
