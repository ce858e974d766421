--------------------------- MODULE MCSceneHistory ---------------------------
(* Small instances of SceneHistory for TLC. *)
EXTENDS SceneHistory, TLC

Symmetry == Permutations(Commands) \cup Permutations(Variants) \cup Permutations(Handlers)
=============================================================================
