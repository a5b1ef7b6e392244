------------------------------ MODULE Z80Timing ------------------------------
(***************************************************************************)
(* Reference for the length of every instruction: the published T states of*)
(* a real Z80, which the README promises to keep to.  The tables are stated*)
(* by opcode, independently of the cycles the decoder strings together.    *)
(***************************************************************************)
EXTENDS Integers, Sequences

(* Main opcodes, a row for each high nibble; what a conditional instruction*)
(* takes when the condition fails.  Prefixes have no entry of their own.   *)
MainTable == <<
    <<4, 10,  7,  6,  4,  4,  7,  4,   4, 11,  7,  6,  4,  4,  7,  4>>,
    <<8, 10,  7,  6,  4,  4,  7,  4,  12, 11,  7,  6,  4,  4,  7,  4>>,
    <<7, 10, 16,  6,  4,  4,  7,  4,   7, 11, 16,  6,  4,  4,  7,  4>>,
    <<7, 10, 13,  6, 11, 11, 10,  4,   7, 11, 13,  6,  4,  4,  7,  4>>,
    <<4,  4,  4,  4,  4,  4,  7,  4,   4,  4,  4,  4,  4,  4,  7,  4>>,
    <<4,  4,  4,  4,  4,  4,  7,  4,   4,  4,  4,  4,  4,  4,  7,  4>>,
    <<4,  4,  4,  4,  4,  4,  7,  4,   4,  4,  4,  4,  4,  4,  7,  4>>,
    <<7,  7,  7,  7,  7,  7,  4,  7,   4,  4,  4,  4,  4,  4,  7,  4>>,
    <<4,  4,  4,  4,  4,  4,  7,  4,   4,  4,  4,  4,  4,  4,  7,  4>>,
    <<4,  4,  4,  4,  4,  4,  7,  4,   4,  4,  4,  4,  4,  4,  7,  4>>,
    <<4,  4,  4,  4,  4,  4,  7,  4,   4,  4,  4,  4,  4,  4,  7,  4>>,
    <<4,  4,  4,  4,  4,  4,  7,  4,   4,  4,  4,  4,  4,  4,  7,  4>>,
    <<5, 10, 10, 10, 10, 11,  7, 11,   5, 10, 10,  0, 10, 17,  7, 11>>,
    <<5, 10, 10, 11, 10, 11,  7, 11,   5,  4, 10, 11, 10,  0,  7, 11>>,
    <<5, 10, 10, 19, 10, 11,  7, 11,   5,  4, 10,  4, 10,  0,  7, 11>>,
    <<5, 10, 10,  4, 10, 11,  7, 11,   5,  6, 10,  4, 10,  0,  7, 11>> >>

Low(o)  == o % 16
High(o) == o \div 16
MainT(o) == MainTable[High(o) + 1][Low(o) + 1]

(* What a condition that holds adds: DJNZ and JR cc, RET cc, CALL cc.      *)
RelativeJumps == {16, 32, 40, 48, 56}
TakenT(o) ==
    CASE o \in RelativeJumps                -> 5
      [] o >= 192 /\ Low(o) \in {0, 8}      -> 6
      [] o >= 192 /\ Low(o) \in {4, 12}     -> 7
      [] OTHER                              -> 0

(* Opcodes whose operand (HL) a DD or FD prefix turns into (IX+d), which   *)
(* takes 8 T states more, 5 where an immediate byte is read meanwhile.     *)
MemoryOperands ==
    {52, 53, 54} \cup (112..119 \ {118})
      \cup {o \in 64..191 : Low(o) \in {6, 14} /\ o # 118}
IndexedT(o) ==
    CASE o = 54              -> 9
      [] o \in MemoryOperands -> 12
      [] OTHER               -> 4

(* After CB: registers, (HL), and BIT on (HL), which writes nothing back;  *)
(* after DDCB and FDCB all operands are in memory.                         *)
IsBit(o) == o \in 64..127
CBT(o, indexed) ==
    CASE indexed                 -> IF IsBit(o) THEN 20 ELSE 23
      [] Low(o) \in {6, 14}      -> IF IsBit(o) THEN 12 ELSE 15
      [] OTHER                   -> 8

(* After ED: the documented rows 4 to 7 and the block instructions, 5 more *)
(* for one that repeats; every other slot is a NOP of two bytes.           *)
EDT(o, repeats) ==
    CASE o \in 64..127 /\ Low(o) \in {0, 1, 8, 9} -> 12
      [] o \in 64..127 /\ Low(o) \in {2, 10}      -> 15
      [] o \in 64..127 /\ Low(o) \in {3, 11}      -> 20
      [] o \in 64..127 /\ Low(o) \in {5, 13}      -> 14
      [] o \in {71, 79, 87, 95}                   -> 9
      [] o \in {103, 111}                         -> 18
      [] o \in 160..191 /\ Low(o) % 8 < 4         ->
            IF o >= 176 /\ repeats THEN 21 ELSE 16
      [] OTHER                                    -> 8

InstructionT(subset, mod, o, taken) ==
    CASE subset = "CB" -> CBT(o, mod # "none")
      [] subset = "ED" -> EDT(o, taken)
      [] OTHER         -> MainT(o) + (IF taken THEN TakenT(o) ELSE 0)
                            + (IF mod = "none" THEN 0 ELSE IndexedT(o))

(* Response to an interrupt, and what fetching an opcode by an acknowledge *)
(* adds to the instruction in mode 0.                                      *)
NmiT == 11
IntT(mode) == IF mode = 2 THEN 19 ELSE 13
AckT == 2
=============================================================================
