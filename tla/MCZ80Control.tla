---------------------------- MODULE MCZ80Control ----------------------------
(* Instances of Z80Control for TLC.                                        *)
EXTENDS Z80Control

(* Enough opcodes for every path through the control: NOP, JR, LDIR behind *)
(* ED, INC (HL) for the pointer of DD, LD r,(HL) which is IM 1 and IM 2    *)
(* behind ED, LD B,L which is RETN, DI, EI and the prefixes but FD.        *)
MCInterruptProgram == {0, 24, 52, 69, 86, 94, 176, 203, 221, 237, 243, 251}

(* HALT with what it takes to let INT in: EI and IM 1.                     *)
MCHaltProgram == {0, 86, 118, 237, 251}

(* ED A4, an empty slot of the block instructions.                         *)
MCHoleProgram == {0, 164, 237}
=============================================================================
