SPECIFICATION FairSpec
CONSTANTS
    m1 = m1
    m2 = m2
    m3 = m3
    f1 = f1
    j1 = j1
    Msg = {m1, m2, m3}
    File = {f1}
    Job = {j1}
    Malformed = Malformed
    Id <- OwnId
    Content <- ContentDef
    MaxCrashes = 1
    MaxCuts = 1
INVARIANTS
    TypeOK
    TakenIsSpooled
    HandedOnce
PROPERTIES
    EveryDeliveryAcked
