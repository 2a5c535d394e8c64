\* MD5 router: 3 digits of 2 bits (keys 0..63), fleets of 1 to 4 servers.
CONSTANTS
    MaxFleet = 4
    DigitBits = 2
    DigestLen = 3
    HashKind = "MD5"
    CharIsSigned = TRUE
INIT Init
NEXT Next
INVARIANT TypeOK
INVARIANT LookupMatchesReference
INVARIANT EveryServerReachable
