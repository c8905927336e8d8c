\* What is marked for the test boot, whatever happened to the request.
SPECIFICATION Spec
CONSTANTS
    Images = {"factory", "update", "broken"}
    Working = {"factory", "update"}
    Factory = "factory"
    PIECES = 3
    FLASH_FAILS = TRUE
PROPERTIES
    MarkedIsWhole
