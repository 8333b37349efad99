\* The three keys of the configuration, every content of it; every method, up to two
\* results, one of them with up to two odd values or with all of them alike.
CONSTANTS
  Keys = {"BASE_API_URL", "BASE_IMAGE_API_URL", "API_KEY"}
  MaxResults = 2

SPECIFICATION AppSpec

INVARIANTS
  CompleteRepliesAreDrawn
  WholePageOrNothing
  MissingKeysBreakTiles
  ErrorOnlyForBadConfig

PROPERTY LeavesSplash
