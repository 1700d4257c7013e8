SPECIFICATION Spec
CONSTANTS
    Ips = {"ip"}
    NoIp = NoIp
    Hosts = {"addr", "name"}
    Targets = {"addr", "name"}
    IpHosts = {"addr"}
    PtrNames = {"name"}
    Conns = {c1, c2}
    Kinds = {"tunnel", "http", "udp"}
    MaxBytes = 1
    MaxOpens = 1
SYMMETRY ConnSymmetry
INVARIANTS TypeOK GuardsBalance
PROPERTY DrainWaits
