\* The result of a closed month, proposed, approved and settled while forms of the administration site write, add and delete its rows.
SPECIFICATION DividendsSpec
CONSTANTS
    boss = boss
    clerk = clerk
    phone = phone
    capital = capital
    fees = fees
    charges = charges
    due = due
    euros = euros
    ann = ann
    bob = bob
    cleo = cleo
    dan = dan
    dueAnn = dueAnn
    dueBob = dueBob
    dueCleo = dueCleo
    dueDan = dueDan
    capAnn = capAnn
    capBob = capBob
    capCleo = capCleo
    capDan = capDan
    Users <- Staff
    Role <- StaffRole
    FinAccounts <- Chart
    Nature <- ChartNature
    Currency <- ChartCurrency
    Drafts <- SmallFees
    Tokens = {1}
    PeriodForms <- OneMonth
    LastDay = 1
    MaxBatches = 6
    CashAccounts = {phone}
    Charge = charges
    Payable = due
    ChargeForms = {}
    OnSite = {boss}
    ExpenseForms = {}
    Counts = {6}
    Salary = 0
    MonthLength = 1
    MaxExpenses = 0
    Shareholders <- FourShareholders
    Capital <- CapitalIn
    DividendPayable <- PayableTo
    CapitalOf <- OwnCapital
    Proposals = {5}
    AmountForms = {6}
    PartForms <- PartsTypedIn
    MaxEdited = 1
INVARIANTS
    OneBatchPerEvent
    PartsAddUp
    DuePartsArePayable
PROPERTIES
    ApprovalStands
CHECK_DEADLOCK FALSE
