--------------------------- MODULE MCHookManager ---------------------------
(***************************************************************************)
(* HookManager for TLC.  Entries, functions and clients are only compared  *)
(* with each other, so the safety run may permute them.                    *)
(***************************************************************************)
EXTENDS HookManager

Symmetry == Permutations(Entries) \cup Permutations(Functions) \cup Permutations(Clients)
=============================================================================
