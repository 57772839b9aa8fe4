\* One deliver form, the buyer's outcome page, and a delivery that may be replaced.
SPECIFICATION Spec
CONSTANTS
    DeliverPages = {provider}
    OutcomePages = {buyer}
    BuyerPages = {buyer}
    Texts = {d1, d2}
    None = none
    Deadline = 1
    MaxTime = 2
    MaxPending = 2
    MaxFailures = 1
INVARIANTS
    TypeOK
    DoneIsSafe
    OffersFitContract
PROPERTY MoneyLeaves
CHECK_DEADLOCK FALSE
