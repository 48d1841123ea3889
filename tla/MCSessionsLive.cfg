CONSTANTS
    MaxClients = 2
    Addrs = {"a1", "a2", "lo"}
    Ips = {"x", "y"}
    Ip <- OneIpAndLoopback
    Loopback = {"y"}
    Creds = {"alice"}
    OtherLines = {"junk"}
    Configs <- OneUser
    Broken = Broken
    Batches <- LineByLine
    MaxLines = 1
    MaxBans = 1
    AuthTimeout = 0
    IdleTimeout = 0
    BanShort = 1
    BanLong = 1
    NoAddr = NoAddr
SPECIFICATION FairSpec
PROPERTIES UnauthenticatedLeave IdleLeave BrokenReaped BansEnd ExitHonoured
CHECK_DEADLOCK FALSE
