CONSTANTS
    Programs = {"go", "python"}
    Conns = {1, 2}
    Names = {}
    Targets = {}
    Configs <- NoMonitors
    Workers = {}
    MaxReports = 1
    HistoryLen = 1
    Enough = 0
    Patience = 2
    User = user
    Servers = {user}
    None = None
SPECIFICATION SpecAll
PROPERTIES ReadsEnd OutageNoticed SessionRegained ImplementsSuspicion
CHECK_DEADLOCK FALSE
