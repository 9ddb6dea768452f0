\* Two operations of one account under idempotency keys, corrected and cancelled in every order on two business days.
SPECIFICATION Spec
CONSTANTS
    boss = boss
    agent1 = agent1
    till1 = till1
    NoAccount = NoAccount
    NoKey = NoKey
    Users <- Staff
    Role <- StaffRole
    Accounts <- OneTill
    Holder <- OneTillHolder
    Amounts = {3}
    Counts = {1}
    AccountForms <- NoForm
    LastDay = 1
    MaxMovements = 3
    MaxGlobalMovements = 2
    MaxHandovers = 0
    OpAmounts = {2}
    Fees = {0, 1}
    AutoFee <- FlatFee
    Ceiling = 2
    Keys = {"k1"}
    MaxOps = 2
    MaxRevisions = 2
INVARIANTS
    OneOperationPerKey
    PaidOnce
    LedgerFollowsFirstRevision
    TrailExplainsPrice
PROPERTIES
    ImplementsVault
    ClosedDaysSettled
