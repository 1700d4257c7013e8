SPECIFICATION Spec
CONSTANTS
    Ips = {"ip"}
    NoIp = NoIp
    Hosts = {"addr1", "addr2", "name", "ptr"}
    Targets = {"addr1", "addr2", "name"}
    IpHosts = {"addr1", "addr2"}
    PtrNames = {"name", "ptr"}
    Conns = {c1, c2}
    Kinds = {"tunnel"}
    MaxBytes = 1
    MaxOpens = 1
INVARIANT ReportBracket
PROPERTY NamesKeepTheirRow ReportComesOut
