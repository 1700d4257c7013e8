SPECIFICATION Spec
CONSTANTS
    NoFilter = NoFilter
    Ipv4Len = 4
    Ipv6Len = 16
    Requests <- MCRequests
    Payload <- MCPayload
    Chunk = 6
    MAX_HEAD_BYTES = 20
INVARIANT CleanReject
