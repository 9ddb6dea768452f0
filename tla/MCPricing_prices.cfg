\* Operations priced while two forms edit the grid and rates come into effect.
SPECIFICATION PricingSpec
CONSTANTS
    none = none
    absent = absent
    t1 = t1
    t2 = t2
    f1 = f1
    f2 = f2
    Amounts = {2}
    Manual = {1}
    NoManual = none
    Rates = {1, 2}
    Bounds = {1, 2}
    TierFees = {3}
    Ceiling = 3
    TierIds = {t1, t2}
    NoTier = absent
    Forms = {f1, f2}
    LastTime = 1
INVARIANTS
    PricesExplained
PROPERTIES
    OverlapsAreConcurrent
SYMMETRY RowSymmetry
