SPECIFICATION Spec
CONSTANTS
    ip4 = ip4
    ip6 = ip6
    NoIp = NoIp
    NoName = NoName
    NoFilter = NoFilter
    Ips = {ip4, ip6}
    Hosts <- MCHosts
    IpOf <- MCIpOf
    Recorded <- MCRecorded
    Answers <- MCAnswers
    Filters <- MCFilters
    Statuses <- MCStatuses
INVARIANTS TypeOK NothingLost RowsExact Reproducible FilterExact SuccessIsSuccess
PROPERTY Printed
