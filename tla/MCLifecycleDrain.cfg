SPECIFICATION Spec
CONSTANTS
    Ips = {"ip"}
    NoIp = NoIp
    Hosts = {"addr", "name", "ptr"}
    Targets = {"addr", "name"}
    IpHosts = {"addr"}
    PtrNames = {"name", "ptr"}
    Conns = {c1}
    Kinds = {"tunnel"}
    MaxBytes = 1
    MaxOpens = 1
INVARIANT CleanDrainComplete
