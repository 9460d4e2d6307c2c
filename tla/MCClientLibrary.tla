-------------------------- MODULE MCClientLibrary --------------------------
(***************************************************************************)
(* ClientLibrary with two threads, and contexts, handles and structures    *)
(* that are interchangeable.                                               *)
(***************************************************************************)
EXTENDS ClientLibrary, TLC

Symmetry == Permutations(Threads) \cup Permutations(Contexts)
              \cup Permutations(Handles) \cup Permutations(Maps)

=============================================================================
