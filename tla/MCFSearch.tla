------------------------------ MODULE MCFSearch ------------------------------
(***************************************************************************)
(* An instance of FSearch: five bases, of two profiles, in two lists.      *)
(***************************************************************************)
EXTENDS FSearch

FiveBases == 1..5
TwoProfiles == {"OBJ_CENTER", "TAG_WIND"}
=============================================================================
