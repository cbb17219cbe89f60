SPECIFICATION Spec
CONSTANTS
  cast = cast
  wipe = wipe
  env = env
  map = map
  None = None
  Names = {cast, env, map, wipe}
  NumArcs = 3
  MaxHolders = 2
  ReleaseLoading = TRUE
INVARIANT OwnArchive
