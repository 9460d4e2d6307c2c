----------------------------- MODULE MCWinscard -----------------------------
(***************************************************************************)
(* Winscard with small sets of clients and handles.                        *)
(***************************************************************************)
EXTENDS WinscardProperties, TLC

\* Clients and handles are interchangeable: no definition names one of them.
Symmetry == Permutations(Handles) \cup Permutations(Clients)

=============================================================================
