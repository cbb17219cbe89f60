-------------------------------- MODULE MCRes --------------------------------
EXTENDS Res
CONSTANTS cast, env, map, wipe
=============================================================================
