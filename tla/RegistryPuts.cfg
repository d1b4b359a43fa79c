SPECIFICATION Spec
CONSTANTS
    Requests = {r1, r2, r3}
    Names = {1, 2}
    Versions = {v1}
    Descriptions = {d1, d2}
    Artifacts = {a1}
    None = None
    PageLimit = 1
    MaxLost = 1
SYMMETRY Symmetry
INVARIANTS TypeOK AnswersStayTrue CreatedOnce UnavailableMeansLost PagesMissNothing
PROPERTIES ImplementsService VersionsAreImmutable
