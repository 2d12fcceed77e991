------------------------- MODULE MCAtlassianOAuth ---------------------------
(* Small instances of AtlassianOAuth for TLC. *)
EXTENDS AtlassianOAuth, TLC

Symmetry == Permutations(States) \cup Permutations(Callbacks) \cup Permutations(Collectors)
            \cup Permutations(Sites)
=============================================================================
