--------------------------- MODULE MCProfileValues ---------------------------
(* Class is every pair of parameters of the profiles.                      *)
EXTENDS ProfileValues, ProfileVisits
=============================================================================
