----------------------------- MODULE MCImgProxy -----------------------------
(* Instances of ImgProxy for TLC. *)
EXTENDS ImgProxy

CONSTANTS n, good, bad

MCLookups == {{good}, {good, bad}}
MCAsked == {[host |-> n, port |-> 80, plain |-> TRUE]}
=============================================================================
