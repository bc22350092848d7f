SPECIFICATION Spec
CONSTANTS
  Ids <- Rows
  Place <- SharedPlaces
  PageSize = 3
  Styles = {"managed", "runs", "syncs"}
  MaxMoves = 3
INVARIANTS TypeOK ForwardWalksShowAll PagesInv
PROPERTY ListsStepBack
