SPECIFICATION Spec
CONSTANTS
    Garments <- MCGarments
    BagPicture = BagPicture
    CoatPicture = CoatPicture
    Pictures <- MCPictures
    PictureOf <- MCPictureOf
    MaxItems = 2
    Edits = {r1, r2}
    MaxBatch = 3
    NoPicture = NoPicture
    NoCoordi = NoCoordi
    Ids = {1, 2, 3, 4}
    MaxTime = 2
    MaxLimit = 2
    Limits = {0, 1, 3}
    Holders = {m1, g1}
    Visitors = {g1}
    Serials = {n1}
    Heights = {165, 180}
    Weights = {60, 75}
    Asks = {r1, r2}
    MaxCopies = 2
    NoBody = NoBody
    Texts <- MCTexts
    Scores = {6, 12}
    Certain = 12
    MaxDetections = 3
    Catalogue <- MCCatalogueCodes
    Shown = {1, 2, 3, 4, 5}
    CategoryOf <- MCCategory
    ColorsOf <- MCColors
    StylesOf <- MCStyles
    SeasonsOf <- MCSeasons
    CodeRank <- MCRank
    CandidateLimit = 3
    GuestLimit = 1
    MemberLimit = 2
    AskedLimits = {0, 2, 3}
    SeedRuns = {r1, r2}
    Thumbnails = {f1, f2, f3, f4}
    LostFile = LostFile
    NoFile = NoFile
    MaxStores = 2
SYMMETRY Symmetry
INVARIANTS
    TypesOK
    ThumbnailFits
    NoneSkipped
    NoneRepeated
    RegisteredOnce
    BodyAsSent
    AnswerIsBest
    MisreadRecovered
    RecommendsBest
    SeedHolds
PROPERTIES
    ReplaceExact
    DeletedStaysDeleted
CHECK_DEADLOCK FALSE
