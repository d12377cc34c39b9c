--------------------------- MODULE MCZethaStorage ---------------------------
(* The keys of a small instance are interchangeable: nothing orders them.  *)
EXTENDS ZethaStorageInv, TLC

KeySymmetry == Permutations(Keys)
=============================================================================
