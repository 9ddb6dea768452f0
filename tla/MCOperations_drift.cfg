\* An operation corrected twice: the ledger drifts from the operation.
SPECIFICATION Spec
CONSTANTS
    boss = boss
    agent1 = agent1
    till1 = till1
    NoAccount = NoAccount
    NoKey = NoKey
    Users <- Staff
    Role <- StaffRole
    Accounts <- OneTill
    Holder <- OneTillHolder
    Amounts = {3}
    Counts = {}
    AccountForms <- NoForm
    LastDay = 0
    MaxMovements = 5
    MaxGlobalMovements = 2
    MaxHandovers = 0
    OpAmounts = {2, 3}
    Fees = {1}
    AutoFee <- FlatFee
    Ceiling = 3
    Keys = {}
    MaxOps = 1
    MaxRevisions = 2
INVARIANTS
    LedgerFollowsOperations
