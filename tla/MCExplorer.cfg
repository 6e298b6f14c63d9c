SPECIFICATION Spec
CONSTANTS
    Component <- MCComponent
    Temps <- MCTemps
    Members <- MCMembers
    Cards <- MCCards
    Names = {"n"}
    ZipFile <- MCZip
    MaxOps = 1
    MaxDepth = 3
INVARIANTS
    UserFilesKept
    TargetsWhole
    ResultTrue
    PageShowsWhatExists
