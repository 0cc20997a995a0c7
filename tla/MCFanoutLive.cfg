SPECIFICATION Spec
CONSTANTS
    r1 = r1
    r2 = r2
    Nil = Nil
    Requests <- MCRequests
    OptionSpace <- MCLiveOptionSpace
    BadURLs <- MCBadURLs
    Canonical <- MCCanonical
    BodyError = BodyError
    Inbound <- MCInbound
    Application <- MCApplication
    Expected <- MCExpected
    DefaultEndpoint = "default"
    DefaultMaxIdleConnsPerHost = 20
    DefaultFanoutTimeout = 3
    DefaultClientTimeout = 2
    DefaultMaxClients = 2
    DefaultConcurrency = 2
PROPERTY AnsweredAndSpansFlushed
