----------------------------- MODULE Z80Decode -----------------------------
(***************************************************************************)
(* The instruction executors as data: for every opcode the machine cycles  *)
(* its steps start, in order.  Step i of next_step() starts the (i + 1)-th *)
(* cycle of the plan, and the step after the last one calls reset().  What *)
(* the executors compute in the data registers and flags is left out; the  *)
(* one thing a plan needs of it, whether a condition on the flags holds, is*)
(* the argument taken.                                                     *)
(***************************************************************************)
EXTENDS Z80Cycles, Sequences

Bytes == 0..255

(* _x, _y and _z: an opcode as octal digits xx yyy zzz.                    *)
X(op) == op \div 64
Y(op) == (op \div 8) % 8
Z(op) == op % 8

(* A cycle: its kind, its length if it is bogus, and what it is started for*)
(* as far as the decoder's own state depends on it.                        *)
Uses == {"opcode", "halted", "vector",  \* fetch, halted fetch, intack in mode 1/2
         "imm", "d", "cbop",            \* reads at PC++
         "data", "push", "pop",         \* other transfers
         "idle", "jump", "rewind",      \* bogus cycles; PC changes as two of them start
         "expired", "reset"}

Cycle(k, u, n) == [kind |-> k, use |-> u, n |-> n]

Fetch(hlt) == Cycle("fetch", IF hlt THEN "halted" ELSE "opcode", 0)
Intack(m)  == Cycle("intack", IF m = 0 THEN "opcode" ELSE "vector", 0)
Imm        == Cycle("memRead", "imm", 0)
Read       == Cycle("memRead", "data", 0)
Write      == Cycle("memWrite", "data", 0)
Pop        == Cycle("memRead", "pop", 0)
Push       == Cycle("memWrite", "push", 0)
In         == Cycle("ioRead", "data", 0)
Out        == Cycle("ioWrite", "data", 0)
Idle(n)    == Cycle("bogus", "idle", n)
Jump       == Cycle("bogus", "jump", 5)
Rewind     == Cycle("bogus", "rewind", 5)

TStates(c) == IF c.kind = "bogus" THEN c.n ELSE LastT[c.kind] + 1

When(cond, plan) == IF cond THEN plan ELSE <<>>
ReadOrWrite(y) == IF y % 2 = 1 THEN Read ELSE Write

-----------------------------------------------------------------------------
(* Main quadrant 0: NOP, EX AF, DJNZ, JR, 16-bit loads and arithmetic, INC,*)
(* DEC, LD r,n, the accumulator rotates.                                   *)
PlanQ0(y, z, taken) ==
    CASE z = 0 /\ y \in 0..1  -> <<>>
      [] z = 0 /\ y = 2       -> <<Idle(1), Imm>> \o When(taken, <<Jump>>)
      [] z = 0 /\ y = 3       -> <<Imm, Jump>>
      [] z = 0 /\ y \in 4..7  -> <<Imm>> \o When(taken, <<Jump>>)
      [] z = 1                -> IF y % 2 = 1 THEN <<Idle(7)>> ELSE <<Imm, Imm>>
      [] z = 2 /\ y \in 0..3  -> <<ReadOrWrite(y)>>
      [] z = 2 /\ y \in 4..5  -> <<Imm, Imm, ReadOrWrite(y), ReadOrWrite(y)>>
      [] z = 2 /\ y \in 6..7  -> <<Imm, Imm, ReadOrWrite(y)>>
      [] z = 3                -> <<Idle(2)>>
      [] z \in 4..5 /\ y = 6  -> <<Read, Idle(1), Write>>
      [] z = 6 /\ y = 6       -> <<Imm, Write>>
      [] z = 6 /\ y # 6       -> <<Imm>>
      [] OTHER                -> <<>>

(* Main quadrant 1: LD r,r and HALT.                                       *)
PlanQ1(y, z) ==
    CASE y = 6 /\ z # 6 -> <<Write>>
      [] z = 6 /\ y # 6 -> <<Read>>
      [] OTHER          -> <<>>

(* Main quadrant 2: ALU on a register or (HL).                             *)
PlanQ2(z) == When(z = 6, <<Read>>)

(* Main quadrant 3: returns, jumps, calls, stack, I/O, exchanges, DI, EI.  *)
PlanQ3(y, z, taken) ==
    CASE z = 0                           -> <<Idle(1)>> \o When(taken, <<Pop, Pop>>)
      [] z = 1 /\ (y % 2 = 0 \/ y = 1)   -> <<Pop, Pop>>
      [] z = 1 /\ y = 7                  -> <<Idle(2)>>
      [] z = 2 \/ (z = 3 /\ y = 0)       -> <<Imm, Imm>>
      [] z = 3 /\ y = 2                  -> <<Imm, Out>>
      [] z = 3 /\ y = 3                  -> <<Imm, In>>
      [] z = 3 /\ y = 4                  -> <<Read, Read, Idle(1), Write, Write, Idle(2)>>
      [] z = 4                           -> <<Imm, Imm>> \o When(taken, <<Idle(1), Push, Push>>)
      [] z = 5 /\ y % 2 = 0              -> <<Idle(1), Push, Push>>
      [] z = 5 /\ y % 2 = 1              -> <<Imm, Imm, Idle(1), Push, Push>>
      [] z = 6                           -> <<Imm>>
      [] z = 7                           -> <<Idle(1), Push, Push>>
      [] OTHER                           -> <<>>

(* ED quadrant 1: I/O by C, 16-bit ADC/SBC and loads, NEG, RETN, IM, LD A,I*)
(* and the BCD rotates.                                                    *)
PlanED1(y, z) ==
    CASE z = 0                   -> <<In>>
      [] z = 1                   -> <<Out>>
      [] z = 2                   -> <<Idle(7)>>
      [] z = 3                   -> <<Imm, Imm, ReadOrWrite(y), ReadOrWrite(y)>>
      [] z = 5                   -> <<Pop, Pop>>
      [] z = 7 /\ y \in 0..3     -> <<Idle(1)>>
      [] z = 7 /\ y \in 4..5     -> <<Read, Idle(4), Write>>
      [] OTHER                   -> <<>>

(* A wrong variant used by a mutant: a block output writes before it reads.*)
PlanED2OutFirst(y, z, taken) ==
    CASE y < 4 \/ z > 3 -> <<>>
      [] z = 0  -> <<Read, Write, Idle(2)>>
      [] z = 1  -> <<Read, Idle(5)>>
      [] z = 2  -> <<Idle(1), In, Write>>
      [] OTHER  -> <<Idle(1), Out, Read>>

(* ED quadrant 2: the block instructions, repeated by rewinding PC.        *)
PlanED2(y, z, taken) ==
    LET again == When(y \in 6..7 /\ taken, <<Rewind>>)
    IN  CASE y < 4 \/ z > 3 -> <<>>
          [] z = 0  -> <<Read, Write, Idle(2)>> \o again
          [] z = 1  -> <<Read, Idle(5)>> \o again
          [] z = 2  -> <<Idle(1), In, Write>> \o again
          [] OTHER  -> <<Idle(1), Read, Out>> \o again

(* A wrong variant used by a mutant: z alone decides, prefixed or not.     *)
PlanCBByOpcode(mod, x, z) ==
    IF z = 6 THEN <<Read, Idle(1)>> \o When(x # 1, <<Write>>) ELSE <<>>

(* CB subset: with a DD/FD prefix the memory operand is used whatever z is.*)
PlanCB(mod, x, z) ==
    IF z = 6 \/ mod # "none"
      THEN <<Read, Idle(1)>> \o When(x # 1, <<Write>>)
      ELSE <<>>

Plan(subset, mod, op, taken) ==
    CASE subset = "CB"              -> PlanCB(mod, X(op), Z(op))
      [] subset = "ED" /\ X(op) = 1 -> PlanED1(Y(op), Z(op))
      [] subset = "ED" /\ X(op) = 2 -> PlanED2(Y(op), Z(op), taken)
      [] subset = "ED"              -> <<>>
      [] X(op) = 0                  -> PlanQ0(Y(op), Z(op), taken)
      [] X(op) = 1                  -> PlanQ1(Y(op), Z(op))
      [] X(op) = 2                  -> PlanQ2(Z(op))
      [] OTHER                      -> PlanQ3(Y(op), Z(op), taken)

-----------------------------------------------------------------------------
(* A test of _x where _z was meant lets these slots of ED quadrant 2 reach *)
(* the switch that has no case for them: nothing is started.               *)
Hole(subset, op) == subset = "ED" /\ X(op) = 2 /\ Y(op) >= 4 /\ Z(op) >= 4

(* Main opcodes with a memory operand (HL), to be replaced by (IX+d) under *)
(* a DD or FD prefix.                                                      *)
LdPtrImm(op) == op = 54
UsesPtr(op) ==
    \/ X(op) = 0 /\ Y(op) = 6 /\ Z(op) \in 4..6
    \/ X(op) = 1 /\ (Y(op) = 6) # (Z(op) = 6)
    \/ X(op) = 2 /\ Z(op) = 6

IsHALT(subset, mod, op) == subset = "none" /\ mod = "none" /\ op = 118
IsDI(subset, op)   == subset = "none" /\ op = 243
IsEI(subset, op)   == subset = "none" /\ op = 251
IsRETN(subset, op) == subset = "ED" /\ X(op) = 1 /\ Z(op) = 5
IsIM(subset, op)   == subset = "ED" /\ X(op) = 1 /\ Z(op) = 6
IntMode(op)        == CASE Y(op) % 4 = 2 -> 1 [] Y(op) % 4 = 3 -> 2 [] OTHER -> 0

(* Instructions whose last step loads PC from WZ, HL or the stack.         *)
LoadsPC(subset, op, taken) ==
    \/ IsRETN(subset, op)
    \/ subset = "none" /\ X(op) = 3
         /\ \/ Z(op) \in {0, 2, 4} /\ taken
            \/ op \in {195, 201, 205, 233}        \* JP nn, RET, CALL nn, JP HL
IsRST(subset, op) == subset = "none" /\ X(op) = 3 /\ Z(op) = 7
=============================================================================
