------------------------------ MODULE MCZ80Bus ------------------------------
(* Instance of Z80Bus for TLC.  Bogus lengths 1 and 2 stand for every      *)
(* length: a single falling edge, and one that needs another.              *)
EXTENDS Z80Waves

MCBogusLengths == {1, 2}
=============================================================================
