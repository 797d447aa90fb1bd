SPECIFICATION FairSpec
CONSTANTS
    Ids = {m1, m2}
    Articles <- SomeArticles
    None = None
INVARIANTS
    TypeOK
    InStep
    BodyHasOwnArticle
    DoneIsWhole
PROPERTIES
    CallsEnd
