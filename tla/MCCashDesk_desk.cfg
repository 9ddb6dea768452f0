\* One account, two administrators: both ledgers, two handovers, and two business days closed in any order.
SPECIFICATION CashSpec
CONSTANTS
    boss = boss
    deputy = deputy
    agent1 = agent1
    till1 = till1
    NoAccount = NoAccount
    Users <- OneAgent
    Role <- OneAgentRole
    Accounts <- OneTill
    Holder <- OneTillHolder
    Amounts = {2}
    Counts = {0, 1, 3}
    AccountForms <- LockOrUnlink
    LastDay = 1
    MaxMovements = 4
    MaxGlobalMovements = 3
    MaxHandovers = 2
INVARIANTS
    LedgersReconcile
    HandoversReceivedOnce
    TransfersMirrored
    VariancesPosted
PROPERTIES
    ClosedDaysFinal
