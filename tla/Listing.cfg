SPECIFICATION Spec
CONSTANTS
    Names <- FiveNames
    Folder <- OneFolder
    NoVid = 0
    NullVid = 9
    DefaultPage = 3
    PageSizes = {0}
    PartNumbers = {1, 2, 3, 4}
    Tables <- StartTables
    MaxVersions = 2
    MaxWrites = 2
CHECK_DEADLOCK FALSE
INVARIANTS
    TypeOK
    StayersListed
    NoRepeats
PROPERTY ListingEnds
