CONSTANTS
    MaxClients = 1
    Addrs = {"a1", "a2"}
    Ips = {"x"}
    Ip <- OneIp
    Loopback = {}
    Creds = {"alice", "bob"}
    OtherLines = {"junk"}
    Configs <- TwoUsers
    Broken = Broken
    Batches <- LineByLine
    MaxLines = 1
    MaxBans = 1
    AuthTimeout = 0
    IdleTimeout = 0
    BanShort = 1
    BanLong = 1
    NoAddr = NoAddr
SPECIFICATION Spec
INVARIANT ReloadTakesEffect
CHECK_DEADLOCK FALSE
