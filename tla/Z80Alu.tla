------------------------------- MODULE Z80Alu -------------------------------
(***************************************************************************)
(* The arithmetic of the executors: from operands and the flags f before,  *)
(* a set of bits, to the result v and the flags after.                     *)
(***************************************************************************)
EXTENDS Z80Bits

Result(v, f) == [v |-> v, f |-> f]

(* Flags that most instructions take from a byte they produce.             *)
ZeroSign(v) == Copy(v, FS53) \cup When(FlagZ, v = 0)

(* A wrong variant used by a mutant: the overflow rule of the addition.    *)
SubOverflowAsAdd(a, z, v) == Bit7(a) = Bit7(z) /\ Bit7(a) # Bit7(v)

AddOverflow(a, z, v) == Bit7(a) = Bit7(z) /\ Bit7(a) # Bit7(v)
SubOverflow(a, z, v) == Bit7(a) # Bit7(z) /\ Bit7(a) # Bit7(v)

AddByte(a, z, c) ==
    LET tmp == a + z + c
        v   == Byte8(tmp)
    IN  Result(v, ZeroSign(v)
                    \cup When(FlagPV, AddOverflow(a, z, v))
                    \cup When(FlagC, tmp > 255)
                    \cup When(FlagH, (a % 16) + (z % 16) + c > 15))

SubByte(a, z, c) ==
    LET v == Byte8(a - z - c)
    IN  Result(v, ZeroSign(v) \cup {FlagN}
                    \cup When(FlagPV, SubOverflow(a, z, v))
                    \cup When(FlagC, a < z + c)
                    \cup When(FlagH, a % 16 < (z % 16) + c))

Logic(v) == Result(v, ZeroSign(v) \cup When(FlagPV, Parity(v)))

(* exec_alu_stub(): operation y on A and the operand z.                    *)
Alu(y, a, z, f) ==
    LET sub == SubByte(a, z, 0)
    IN  CASE y = 0 -> AddByte(a, z, 0)
          [] y = 1 -> AddByte(a, z, Carry(f))
          [] y = 2 -> sub
          [] y = 3 -> SubByte(a, z, Carry(f))
          [] y = 4 -> [Logic(And(a, z)) EXCEPT !.f = @ \cup {FlagH}]
          [] y = 5 -> Logic(Xor(a, z))
          [] y = 6 -> Logic(Or(a, z))
          [] y = 7 -> Result(a, (sub.f \ F53) \cup Copy(z, F53))

IncByte(n, f) ==
    LET v == Byte8(n + 1)
    IN  Result(v, (f \cap {FlagC}) \cup ZeroSign(v)
                    \cup When(FlagH, v % 16 = 0) \cup When(FlagPV, v = 128))

DecByte(n, f) ==
    LET v == Byte8(n - 1)
    IN  Result(v, (f \cap {FlagC}) \cup ZeroSign(v) \cup {FlagN}
                    \cup When(FlagH, v % 16 = 15) \cup When(FlagPV, v = 127))

-----------------------------------------------------------------------------
(* RLCA, RRCA, RLA, RRA: y bit 0 is the direction, bit 1 clear makes it    *)
(* circular.                                                               *)
ShiftA(y, a, f) ==
    LET right == y % 2 = 1
        out   == IF right THEN a % 2 ELSE a \div 128
        fill  == IF y < 2 THEN out ELSE Carry(f)
        v     == IF right THEN (a \div 2) + 128 * fill ELSE Byte8(2 * a) + fill
    IN  Result(v, (f \ ({FlagC, FlagN, FlagH} \cup F53))
                    \cup When(FlagC, out = 1) \cup Copy(v, F53))

(* A wrong variant used by a mutant: SRA loses the sign.                   *)
ShiftedSraLogical(y, n, c) ==
    CASE y = 0 -> Byte8(2 * n) + (n \div 128)
      [] y = 1 -> (n \div 2) + 128 * (n % 2)
      [] y = 2 -> Byte8(2 * n) + c
      [] y = 3 -> (n \div 2) + 128 * c
      [] y = 4 -> Byte8(2 * n)
      [] y = 6 -> Byte8(2 * n) + 1
      [] OTHER -> n \div 2

(* RLC, RRC, RL, RR, SLA, SRA, SLL, SRL with the old carry c.              *)
Shifted(y, n, c) ==
    CASE y = 0 -> Byte8(2 * n) + (n \div 128)
      [] y = 1 -> (n \div 2) + 128 * (n % 2)
      [] y = 2 -> Byte8(2 * n) + c
      [] y = 3 -> (n \div 2) + 128 * c
      [] y = 4 -> Byte8(2 * n)
      [] y = 5 -> (n \div 2) + 128 * (n \div 128)
      [] y = 6 -> Byte8(2 * n) + 1
      [] y = 7 -> n \div 2

ShiftRot(y, n, f) ==
    LET v   == Shifted(y, n, Carry(f))
        out == IF y % 2 = 0 THEN n \div 128 ELSE n % 2
    IN  Result(v, ZeroSign(v) \cup When(FlagPV, Parity(v)) \cup When(FlagC, out = 1))

(* BIT y: bits 3 and 5 come from src, the operand or half of MEMPTR.       *)
BitFlags(y, n, src, f) ==
    (f \cap {FlagC}) \cup {FlagH} \cup Copy(src, F53)
      \cup (IF y \in BitsOf[n] THEN {y} \cap {FlagS} ELSE {FlagZ, FlagPV})

ResBit(y, n) == NumOf(BitsOf[n] \ {y})
SetBit(y, n) == NumOf(BitsOf[n] \cup {y})

-----------------------------------------------------------------------------
(* A wrong variant used by a mutant: the upper digit is corrected only when*)
(* it is above 9, not when the lower one carries into it.                  *)
NeedsSixtyByDigit(a, f) == FlagC \in f \/ a \div 16 > 9

NeedsSix(a, f)   == FlagH \in f \/ a % 16 > 9
NeedsSixty(a, f) == FlagC \in f \/ a > 153

Daa(a, f) ==
    LET w == (IF NeedsSix(a, f) THEN 6 ELSE 0) + (IF NeedsSixty(a, f) THEN 96 ELSE 0)
        n == FlagN \in f
        v == Byte8(IF n THEN a - w ELSE a + w)
        h == IF n THEN a % 16 < w % 16 ELSE (a % 16) + (w % 16) > 15
    IN  Result(v, (f \cap {FlagN}) \cup When(FlagC, NeedsSixty(a, f)) \cup When(FlagH, h)
                    \cup ZeroSign(v) \cup When(FlagPV, Parity(v)))

Cpl(a, f) ==
    LET v == Xor(a, 255)
    IN  Result(v, (f \ F53) \cup Copy(v, F53) \cup {FlagH, FlagN})

(* SCF and CCF: bits 3 and 5 depend on q, the flags the instruction before *)
(* has assembled.                                                          *)
Undocumented(a, f, q) == (((q \cup f) \ (q \cap f)) \cup BitsOf[a]) \cap F53

Scf(a, f, q) ==
    Result(a, (f \ ({FlagH, FlagN} \cup F53)) \cup Undocumented(a, f, q) \cup {FlagC})

Ccf(a, f, q) ==
    Result(a, (f \ ({FlagH, FlagN, FlagC} \cup F53)) \cup Undocumented(a, f, q)
                \cup When(IF FlagC \in f THEN FlagH ELSE FlagC, TRUE))

-----------------------------------------------------------------------------
(* ADD HL, ADC HL and SBC HL.                                              *)
Sign16(w) == Bit7(Hi(w))

AddWord(hl, n, f) ==
    LET v == Word16(hl + n)
    IN  Result(v, (f \cap {FlagS, FlagZ, FlagPV}) \cup Copy(Hi(v), F53)
                    \cup When(FlagC, hl + n > 65535)
                    \cup When(FlagH, (hl % 4096) + (n % 4096) > 4095))

(* A wrong variant used by a mutant: the carry coming in is left out where *)
(* the half carry is found.                                                *)
AdcHalfWithoutCarry(hl, n, c) == (hl % 4096) + (n % 4096) > 4095

AdcHalf(hl, n, c) == (hl % 4096) + (n % 4096) + c > 4095

AdcWord(hl, n, f) ==
    LET c == Carry(f)
        v == Word16(hl + n + c)
    IN  Result(v, Copy(Hi(v), FS53) \cup When(FlagZ, v = 0)
                    \cup When(FlagPV, Sign16(hl) = Sign16(n) /\ Sign16(hl) # Sign16(v))
                    \cup When(FlagC, hl + n + c > 65535)
                    \cup When(FlagH, AdcHalf(hl, n, c)))

SbcWord(hl, n, f) ==
    LET c == Carry(f)
        v == Word16(hl - n - c)
    IN  Result(v, Copy(Hi(v), FS53) \cup When(FlagZ, v = 0) \cup {FlagN}
                    \cup When(FlagPV, Sign16(hl) # Sign16(n) /\ Sign16(hl) # Sign16(v))
                    \cup When(FlagC, hl < n + c)
                    \cup When(FlagH, hl % 4096 < (n % 4096) + c))

-----------------------------------------------------------------------------
(* A wrong variant used by a mutant: RLD leaves the digit of A behind.     *)
RotatedRldLossy(y, wz) ==
    IF y % 2 = 1 THEN Word16(16 * wz) ELSE ((wz \div 16) % 256) + 256 * (wz % 16)

(* RLD and RRD: WZ is A and the byte at HL; what is left in W and Z.       *)
Rotated(y, wz) ==
    IF y % 2 = 1 THEN Word16(16 * wz) + ((wz \div 256) % 16)
                 ELSE ((wz \div 16) % 256) + 256 * (wz % 16)

DigitRotate(y, a, n) ==
    LET wz == Rotated(y, WordOf(a, n))
    IN  [a |-> 16 * (a \div 16) + (Hi(wz) % 16), m |-> Lo(wz)]

(* Flags of RLD, RRD and IN r,(C), and those of LD A,I and LD A,R.         *)
ByteFlags(v, f) == (f \cap {FlagC}) \cup ZeroSign(v) \cup When(FlagPV, Parity(v))
LdIrFlags(v, iff, f) == (f \cap {FlagC}) \cup ZeroSign(v) \cup When(FlagPV, iff)

-----------------------------------------------------------------------------
(* Flags of one round of a block instruction.  Bits 3 and 5 of a round that*)
(* is repeated are those of the upper half of PC.                          *)
OddBits(n) == Copy(n, {Flag3}) \cup When(Flag5, 1 \in BitsOf[n])
Rewound(f, pch) == (f \ F53) \cup Copy(pch, F53)

LdRoundFlags(a, z, bc, f) ==
    (f \cap {FlagC, FlagZ, FlagS}) \cup OddBits(Byte8(z + a)) \cup When(FlagPV, bc # 0)

(* A wrong variant used by a mutant: the comparison leaves its own carry.  *)
CpRoundFlagsCarryLost(a, z, bc, f) ==
    (Alu(7, a, z, f).f \ {FlagPV}) \cup When(FlagPV, bc # 0)

CpRoundFlags(a, z, bc, f) ==
    LET cp == Alu(7, a, z, f).f
        n  == Byte8(a - z - (IF FlagH \in cp THEN 1 ELSE 0))
    IN  (cp \cap {FlagS, FlagN, FlagZ, FlagH}) \cup (f \cap {FlagC})
          \cup OddBits(n) \cup When(FlagPV, bc # 0)

(* INI and OUTI: n is the byte transferred, k what it is added to.         *)
IoRoundFlags(n, k, b) ==
    When(FlagN, n > 127)
      \cup (IF n + k > 255 THEN {FlagC, FlagH} ELSE {})
      \cup When(FlagPV, Parity(Xor((n + k) % 8, b)))
      \cup ZeroSign(b)

Toggle(f, flag, cond) == IF ~cond THEN f ELSE IF flag \in f THEN f \ {flag} ELSE f \cup {flag}

IoRewound(f, b, pch) ==
    LET g    == Rewound(f, pch)
        near == IF FlagC \notin g THEN b ELSE IF FlagN \in g THEN b - 1 ELSE b + 1
        half == IF FlagN \in g THEN b % 16 = 0 ELSE b % 16 = 15
        h    == IF FlagC \in g THEN (g \ {FlagH}) \cup When(FlagH, half) ELSE g
    IN  Toggle(Toggle(h, FlagPV, Parity(near % 8)), FlagPV, TRUE)
=============================================================================
