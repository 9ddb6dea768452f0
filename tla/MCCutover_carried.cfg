\* An operation before or after the balances are carried over, paid, cancelled, with a share for a partner, and a day counted short.
SPECIFICATION CutoverSpec
CONSTANTS
    boss = boss
    agent1 = agent1
    till1 = till1
    NoAccount = NoAccount
    NoKey = NoKey
    Users <- Staff
    Role <- StaffRole
    Accounts <- OneTill
    Holder <- OneTillHolder
    Amounts = {3}
    Counts = {2}
    AccountForms <- NoForm
    LastDay = 0
    MaxMovements = 4
    MaxGlobalMovements = 3
    MaxHandovers = 1
    OpAmounts = {2}
    Fees = {0, 1}
    AutoFee <- FlatFee
    Ceiling = 2
    Keys = {}
    MaxOps = 1
    MaxRevisions = 1
    Safe = Safe
    Transit = Transit
    Commission = Commission
    Capital = Capital
    Opening = Opening
    Due = Due
    Debts = Debts
    SharePercent = 60
    Tokens = {1}
    MaxBatches = 5
INVARIANTS
    OperationsAreBooked
    CashFollowsJournal
    PartnerAccountAddsUp
