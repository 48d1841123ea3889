CONSTANTS
    Programs = {"go", "python"}
    Conns = {c1, c2}
    Names = {"a"}
    x = x
    y = y
    Targets = {x, y}
    Configs <- OneMonitor
    Workers = {1}
    MaxReports = 1
    HistoryLen = 2
    Enough = 1
    None = None
SPECIFICATION Spec
SYMMETRY Alike
INVARIANTS TypeOK MonitorsOfSession RatesOfHistory
CHECK_DEADLOCK FALSE
