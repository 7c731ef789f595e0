---------------------------- MODULE MCImageFetch ----------------------------
(* Instances of ImageFetch for TLC. *)
EXTENDS ImageFetch
=============================================================================
