------------------------------ MODULE MCWSClient ------------------------------
(* Frames are interchangeable: which caller sends which does not matter.   *)
EXTENDS WSClient, TLC

Symmetric == Permutations(Frames)

==============================================================================
