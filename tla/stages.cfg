SPECIFICATION MCSpec
CONSTANTS
    Bits = 4
    HighBits = 3
    MappedOnes = 2
    maxHosts = 8
    plain = plain
    secure = secure
    elsewhere = elsewhere
    Urls <- MCUrls
    SecureUrls <- MCSecureUrls
    Responses <- MCResponses
    NotRead = NotRead
    NoAnswer = NoAnswer
INVARIANTS
    ExpandsToHostAddresses
    ListStaysBounded
    LoginFindingTellsPort
    CertificateEndIsReported
    InspectionIsBounded
PROPERTIES
    ExpandReturns
    InspectionReturns
CHECK_DEADLOCK FALSE
