\* Apples, growth, turns and keys on a board of four cells.
SPECIFICATION FairSpec
CONSTANTS
  NumTasks = 6
  Keys = {key, zero}
  Zero = zero
  Err = Err
  MaxKeys = 1
  Rows = 2
  Cols = 2
  InitLength = 2
  AppleAge = 2
  MaxApples = 1
  MaxLength = 3
INVARIANTS WormInOnePiece OverMeansEnded
PROPERTY GameOverIsShown
\* main returns in the end.
CHECK_DEADLOCK FALSE
