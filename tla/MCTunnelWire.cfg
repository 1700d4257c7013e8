SPECIFICATION Spec
CONSTANTS
    Ips = {"ip"}
    NoIp = NoIp
    MaxSent <- MCMaxSent
    BufSize = 1
INVARIANT WireExact
