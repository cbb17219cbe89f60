-------------------------------- MODULE MCBoot --------------------------------
EXTENDS Boot
CONSTANTS object1, object2
=============================================================================
