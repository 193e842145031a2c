SPECIFICATION PartSpec
CONSTANTS
    None = None
    Malformed = Malformed
    Zeros = Zeros
CHECK_DEADLOCK FALSE
PROPERTIES LeasesEnd  NobodyWaitsForEver  MembershipFollows EveryItemServed
