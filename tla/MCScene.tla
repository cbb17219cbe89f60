------------------------------- MODULE MCScene -------------------------------
EXTENDS Scene
CONSTANTS STAGE, object1, object2
=============================================================================
