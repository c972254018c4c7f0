SPECIFICATION HandoffSpec
CONSTANTS
    o1 = o1
    o2 = o2
    d1 = d1
    Open = {o1}
    Drain = {d1}
    Budgets = {"short"}
INVARIANTS
    RetiredMeansReplaceable
CHECK_DEADLOCK FALSE
