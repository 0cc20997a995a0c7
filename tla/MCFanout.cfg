SPECIFICATION Spec
CONSTANTS
    r1 = r1
    r2 = r2
    Nil = Nil
    Requests <- MCRequests
    OptionSpace <- MCOptionSpace
    BadURLs <- MCBadURLs
    Canonical <- MCCanonical
    BodyError = BodyError
    Inbound <- MCInbound
    Application <- MCApplication
    Expected <- MCExpected
    DefaultEndpoint = "default"
    DefaultMaxIdleConnsPerHost = 20
    DefaultFanoutTimeout = 3
    DefaultClientTimeout = 2
    DefaultMaxClients = 2
    DefaultConcurrency = 2
SYMMETRY Symmetry
INVARIANT TypeOK
INVARIANT CountersBalanced
INVARIANT AdmissionBounded
INVARIANT ResponseJustified
INVARIANT ReplicasCarryTheRequest
INVARIANT AnswerFromTheWinner
PROPERTY AnswerIsFinal
