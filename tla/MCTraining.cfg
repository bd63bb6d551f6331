SPECIFICATION Spec
CONSTANTS
    Trainers = {t1, t2, t3}
    Words <- MCWords
    Nodes <- MCNodes
    Below <- MCBelow
    Plain <- MCPlain
    Synonyms <- MCSynonyms
    Sentences <- MCSentences
SYMMETRY TrainerSymmetry
CHECK_DEADLOCK FALSE
INVARIANTS
    TypeOK
    TaughtIsConnected
PROPERTIES
    MapsAreComplete
    MapsAreSound
    RecognisedStays
