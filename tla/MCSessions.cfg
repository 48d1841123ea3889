CONSTANTS
    MaxClients = 2
    Addrs = {"a1", "a2"}
    Ips = {"x", "y"}
    Ip <- TwoIps
    Loopback = {}
    Creds = {"alice", "bob"}
    OtherLines = {}
    Configs <- TwoUsers
    Broken = Broken
    Batches <- Pipelined
    MaxLines = 2
    MaxBans = 1
    AuthTimeout = 0
    IdleTimeout = 0
    BanShort = 1
    BanLong = 1
    NoAddr = NoAddr
SPECIFICATION Spec
INVARIANTS TypeOK SlotsAgree SessionsBound ClientsAgree CurrentCredentials OneConnectionPerAddress
PROPERTIES AlarmNamesLeaver ImplementsPresence
CHECK_DEADLOCK FALSE
