\* A poller, one tick at a time, evaluations that may fail.
SPECIFICATION PolledSpec
CONSTANTS
    Jobs = {j1}
    Contents <- MC_Contents
    Uploads = {j1}
    Ticks = {t1}
    MayFail = TRUE
    Pollers = {t1}
    None = none
    ReorgBuffer = 1
    MaxRange = 2
    MaxHead = 4
PROPERTY EveryDeliveryTried
