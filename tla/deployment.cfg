\* Mainnet and testnet, two keys, an escrow on each chain or two on one.
SPECIFICATION DSpec
CONSTANTS
    Chains = {c677, c968}
    Keys = {k1, k2}
    Unset = none
    Mainnet = c677
    MaxDeploys = 2
SYMMETRY Symmetry
INVARIANTS
    DTypeOK
    CertifiedSettles
    HealthTells
