SPECIFICATION FairSpec
INVARIANTS
    TypeOK
    SomeoneAnswers
    RoundIsOver
PROPERTIES
    RoundEnds
