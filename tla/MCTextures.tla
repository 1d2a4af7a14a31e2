----------------------------- MODULE MCTextures ------------------------------
(* Textures on one identifier, and one whose name is an alias of the first.   *)
EXTENDS Textures, TLC

Icon == {<<1>>}                         \* "icon"
IconAndAlias == {<<1>>, <<1, 1>>}       \* "icon" and "icon_1"
ThreadSymmetry == Permutations(Loaders) \cup Permutations(Workers)
=============================================================================
