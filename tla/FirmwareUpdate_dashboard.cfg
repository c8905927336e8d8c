\* What the dashboard tells the user.
SPECIFICATION Spec
CONSTANTS
    Images = {"factory", "update", "broken"}
    Working = {"factory", "update"}
    Factory = "factory"
    PIECES = 3
    FLASH_FAILS = TRUE
INVARIANTS
    RebootMessageTrue
