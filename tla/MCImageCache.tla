---------------------------- MODULE MCImageCache ----------------------------
(* Instances of ImageCache for TLC. *)
EXTENDS ImageCache, TLC

CacheSymmetry == Permutations(Keys) \cup Permutations(Requests)
=============================================================================
