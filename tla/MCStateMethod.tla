---------------------------- MODULE MCStateMethod ----------------------------
EXTENDS StateMethod
CONSTANTS A, B, C, stateMgr
=============================================================================
