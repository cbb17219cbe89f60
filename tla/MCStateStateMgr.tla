--------------------------- MODULE MCStateStateMgr ---------------------------
EXTENDS StateStateMgr
CONSTANTS Walk, Die
=============================================================================
