--------------------------- MODULE MCProfileStore ---------------------------
(***************************************************************************)
(* Instances of ProfileStore for TLC.                                      *)
(***************************************************************************)
EXTENDS ProfileStore, TLC

\* Two versions, each with two contents.
MCProfiles == [version : Versions, revision : 1..2]
MCSymmetry == Permutations(Saves) \cup Permutations(Versions)
=============================================================================
