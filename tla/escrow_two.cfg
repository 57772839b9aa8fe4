\* Two jobs of different amounts between an ordinary account and one with
\* code, either of them buyer or provider: signatures offered to the wrong
\* job, and the payee of one job working on the other while it is paid.
SPECIFICATION Spec
CONSTANTS
    Accounts = {alice, bot}
    Contracts = {bot}
    Owners = {alice}
    Zero = zero
    Self = self
    Signers = {v1}
    BriefHashes = {b1}
    DeliveryHashes = {d1}
    NoHash = nohash
    Domains = {here}
    Domain = here
    Values = {1, 2, 3}
    MaxAmount = 2
    MaxDeliveryWindow = 1
    MaxDecisionTTL = 1
    MaxTime = 2
    MaxJobs = 2
    MaxSignatures = 1
INVARIANTS
    Solvent
    
PROPERTY KeepsPromise
CHECK_DEADLOCK FALSE
