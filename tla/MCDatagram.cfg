SPECIFICATION Spec
CONSTANTS
    NoFilter = NoFilter
    Ipv4Len = 1
    Ipv6Len = 2
    Raws <- MCRaws
    Earlier <- MCEarlier
    Sources <- MCSources
    Payloads <- MCPayloads
    MaxCalls = 2
CHECK_DEADLOCK FALSE
INVARIANTS ParsesWhatWasSent CutsNeverMislead AnswersRoundTrip
