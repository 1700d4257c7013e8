SPECIFICATION Spec
CONSTANTS
    Ips = {"ip1", "ip2", "ip6"}
    NoIp = NoIp
    Hosts = {"a", "b", "unknown", "ip1", "ip2", "ip6"}
    Dests <- const_Dests
    Clients = {k1}
    NoClient = NoClient
    NoHost = NoHost
    Others = {"a"}
    IpName <- const_IpName
    DnsOf <- const_DnsOf
    V6 = {"ip6"}
    Sizes = {1}
    MaxOut = 2
    MaxBack = 2
INVARIANTS TypeOK OneConnectionPerHost EgressExact IngressExact DistinctAttributed
PROPERTY ClientServed
