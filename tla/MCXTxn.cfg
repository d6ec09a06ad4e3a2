CONSTANTS
    Client = {c1, c2}
    Xid = {x}
    None = None
    Policies <- Small
    Limit <- Tight
    Budgets = {1}
    DefaultRisk = 3
    MaxObj = 2
    MaxStage = 2
    MaxCalls = 4
SPECIFICATION FairSpec
INVARIANTS CommittedIsWhole AbortedIsNothing PartialIsContended BudgetsConsistent
PROPERTY CallsReturn
CHECK_DEADLOCK FALSE
