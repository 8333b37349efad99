----------------------------- MODULE MCMainPage -----------------------------
(***************************************************************************)
(* Small instances of MainPage for TLC.                                    *)
(***************************************************************************)
EXTENDS MainPage, TLC

\* Fetches differ only in their identity.
FetchSymmetry == Permutations(Fetches)

=============================================================================
