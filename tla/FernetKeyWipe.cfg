SPECIFICATION FernetSpec
CONSTANTS
    Cli = {g1, g2}
    NoKey = NoKey
    NoCli = NoCli
    Blank = Blank
    Overlaps = TRUE
    MaxKeys = 3
    MaxTrouble = 0
PROPERTIES
    WipeAfterRestore
CHECK_DEADLOCK FALSE
