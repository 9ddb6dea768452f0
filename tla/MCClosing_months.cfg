\* A month and its day, closed in either order, with fees, a charge and a remuneration, while forms of the administration site write, add and delete charges.
SPECIFICATION ClosingSpec
CONSTANTS
    boss = boss
    phone = phone
    capital = capital
    fees = fees
    charges = charges
    due = due
    euros = euros
    Users <- OneAdmin
    Role <- AdminRole
    FinAccounts <- Chart
    Nature <- ChartNature
    Currency <- ChartCurrency
    Drafts <- FeesOrMixture
    Tokens = {1}
    PeriodForms <- DayAndMonth
    LastDay = 1
    MaxBatches = 5
    CashAccounts = {phone}
    Charge = charges
    Payable = due
    ChargeForms <- OneCharge
    OnSite = {boss}
    ExpenseForms <- ChargesTypedIn
    Counts = {1, 2}
    Salary = 1
    MonthLength = 1
    MaxExpenses = 1
INVARIANTS
    ApprovedIsRecognised
    DueIsPayable
    CachedIsLedger
    ResultStands
    BooksBalance
    ReversalsPair
PROPERTIES
    LockedFlowsFinal
    PostedIsFinal
CHECK_DEADLOCK FALSE
