SPECIFICATION FairSpec
CONSTANTS
    NoncePages = 3
    SignaturePages = 2
    AuthPages = 4
    NonceIds = {n1, n2}
    MaxChallenges = 3
INVARIANTS
    TypeOK
    SigningIsUnderWay
    OfferIsWhole
    PageInBuffer
    WaitHasWork
PROPERTIES
    AnswersChallenge
    WaitShrinks
    WaitEnds
