---------------------------- MODULE MCTokenCoding ----------------------------
(* Small alphabets for TLC; the constants are given in the configurations. *)
EXTENDS TokenCoding
=============================================================================
