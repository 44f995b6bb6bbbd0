SPECIFICATION Spec
CONSTANTS
    Images <- MCImages
    Contents <- MCContents
    Size <- MCSize
    Encode <- MCEncode
    Deployed = {"jpeg", "junk"}
    Torn = "torn"
    None = None
INVARIANTS TypeOK DeploymentsKept OnlyChanged
PROPERTY ServesAfterPass
