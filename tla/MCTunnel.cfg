SPECIFICATION Spec
CONSTANTS
    Ips = {"ip"}
    NoIp = NoIp
    MaxSent <- MCMaxSent
    BufSize = 2
INVARIANTS TypeOK InOrder MeterBounds EndOfInput HalfClose ExactOnCleanClose
PROPERTIES UpImplementsByteStream DownImplementsByteStream EofForwarded EndsWhenClosed
