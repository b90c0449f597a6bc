SPECIFICATION FairSpec
CONSTANTS
    first = first
    second = second
    hotline = hotline
    agency = agency
    act = act
    rate = rate
    deadline = deadline
    Conns = {first, second}
    MaxBytes = 1
    Sizes = {1}
    Lengths = {0, 2}
    Answers = {200}
    MaxParts = 1
    Claim <- MCClaim
    KindOf <- MCKindOf
    Questions <- MCQuestions
    Asks <- MCAsks
    Mixes <- MCMixes
    MaxInput = 3
INVARIANTS
    OneAnswer
    LimitIsKept
    NeverFalselyOff
    ShownIsGrounded
    EvidenceIsLeft
    AsksNoMore
    CountsTell
PROPERTIES
    HeardIsAnswered
\* Each request ends, and no other comes.
CHECK_DEADLOCK FALSE
