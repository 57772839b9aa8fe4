\* Two concurrent calls over two deliveries, the Postgres store.
SPECIFICATION Spec
CONSTANTS
    good = good
    bad = bad
    Calls = {c1, c2}
    Deliveries = {good, bad}
    Titles = {t1}
    None = none
    Refused = {bad}
    Judgements <- MC_Judgements
    Forcing = {TRUE, FALSE}
    KeepsColumns = TRUE
INVARIANTS
    TypeOK
    StoredVerdictReached
    SignedVerdictReached
    PaidOnlyIfJudged
 
SYMMETRY MC_Symmetry
