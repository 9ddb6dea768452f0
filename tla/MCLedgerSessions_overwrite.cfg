\* A form saved while a service commits overwrites the balance.
SPECIFICATION SessionsSpec
CONSTANTS
    boss = boss
    deputy = deputy
    agent1 = agent1
    till1 = till1
    s1 = s1
    s2 = s2
    s3 = s3
    NoAccount = NoAccount
    NoKey = NoKey
    Users <- Staff
    Role <- StaffRole
    Accounts <- OneTill
    Holder <- OneTillHolder
    Amounts = {2}
    Counts = {}
    AccountForms <- SameForm
    LastDay = 0
    MaxMovements = 6
    MaxGlobalMovements = 4
    MaxHandovers = 1
    OpAmounts = {1, 2, 3}
    Fees = {1}
    AutoFee <- FlatFee
    Ceiling = 5
    Keys = {"k1"}
    MaxOps = 4
    MaxRevisions = 0
    Sessions = {s1, s2}
    Calls <- AllCalls
    Forms = {"till"}
    MaxCalls = 2
    Start <- FundedStart
INVARIANTS
    LedgersReconcile
CHECK_DEADLOCK FALSE
