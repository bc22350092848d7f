SPECIFICATION Spec
CONSTANTS
  Ids <- Rows
  Place <- SharedPlaces
  PageSize = 2
  Styles = {"managed"}
  MaxMoves = 0
PROPERTY RecordsStepBack
