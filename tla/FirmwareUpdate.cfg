\* A factory image, a working update and a broken one; a first and a last
\* piece per body.
SPECIFICATION FairSpec
CONSTANTS
    Images = {"factory", "update", "broken"}
    Working = {"factory", "update"}
    Factory = "factory"
    PIECES = 2
    FLASH_FAILS = TRUE
INVARIANTS
    TypeOK
    BrokenImageOnTrial
PROPERTIES
    CleanUploadIsWhole
    ServesAgain
