CONSTANTS
  Setups <- MCSetups
  Times = 2
  Points <- MCPoints
  Pressures <- MCPressures
  Surface = 0
  SurfaceLimit = 1
  FixedTimes = {0, 2}
SPECIFICATION FairSpec
INVARIANT CannotHappen
INVARIANT SpectraMatch
INVARIANT DarkIsRecent
INVARIANT EnoughAtSurface
INVARIANT OcrRuns
PROPERTY StopCompletes
PROPERTY SurfaceEnds
