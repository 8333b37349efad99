---------------------- MODULE MCMainPageDataController ----------------------
(***************************************************************************)
(* Small instances of MainPageDataController for TLC.                      *)
(***************************************************************************)
EXTENDS MainPageDataController, TLC

\* Fetches differ only in their identity.
FetchSymmetry == Permutations(Fetches)

=============================================================================
