------------------------------ MODULE MCZ80Emu ------------------------------
(* Instance of Z80Emu for TLC.                                             *)
EXTENDS Z80Emu

(* HALT, EI and IM 1 let an INT into a halted CPU, LD D,(HL) reads data and*)
(* makes DD ask for a displacement and a pointer; the bytes stand for each *)
(* other behind the prefixes.                                              *)
MCProgram == {86, 118, 221, 237, 251}

(* One host resets the CPU in the middle of anything, the other takes the  *)
(* bus and time from it.                                                   *)
MCHosts == {{"reset", "int"}, {"wait", "busreq", "int", "nmi"}}
=============================================================================
