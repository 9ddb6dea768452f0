\* A day counted short after the cutover: the till and its account in the journal part.
SPECIFICATION CutoverSpec
CONSTANTS
    boss = boss
    agent1 = agent1
    till1 = till1
    NoAccount = NoAccount
    NoKey = NoKey
    Users <- Staff
    Role <- StaffRole
    Accounts <- OneTill
    Holder <- OneTillHolder
    Amounts = {3}
    Counts = {2}
    AccountForms <- NoForm
    LastDay = 0
    MaxMovements = 4
    MaxGlobalMovements = 3
    MaxHandovers = 1
    OpAmounts = {2}
    Fees = {1}
    AutoFee <- FlatFee
    Ceiling = 2
    Keys = {}
    MaxOps = 1
    MaxRevisions = 1
    Safe = Safe
    Transit = Transit
    Commission = Commission
    Capital = Capital
    Opening = Opening
    Due = Due
    Debts = Debts
    SharePercent = 60
    Tokens = {1}
    MaxBatches = 6
INVARIANTS
    ProjectionHolds
