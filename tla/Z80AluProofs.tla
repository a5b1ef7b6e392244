---------------------------- MODULE Z80AluProofs ----------------------------
(***************************************************************************)
(* Lemmas about the operators of Z80Bits and Z80Alu: what a byte, a word   *)
(* and a set of bits are made of, and that every operation gives a value   *)
(* of its width.                                                           *)
(***************************************************************************)
EXTENDS Z80Alu, TLAPS

-----------------------------------------------------------------------------
(* Bits and bytes.                                                         *)

(* The weights of the eight bits.                                          *)
LEMMA WeightFacts ==
    /\ Weight[0 + 1] = 1 /\ Weight[1 + 1] = 2 /\ Weight[2 + 1] = 4 /\ Weight[3 + 1] = 8
    /\ Weight[4 + 1] = 16 /\ Weight[5 + 1] = 32 /\ Weight[6 + 1] = 64 /\ Weight[7 + 1] = 128
BY DEF Weight

(* The bits of a byte, by division.                                        *)
LEMMA BitsAre ==
    ASSUME NEW n \in Byte
    PROVE  /\ BitsOf[n] \in SUBSET (0..7)
           /\ 0 \in BitsOf[n] <=> n % 2 = 1
           /\ 1 \in BitsOf[n] <=> (n \div 2) % 2 = 1
           /\ 2 \in BitsOf[n] <=> (n \div 4) % 2 = 1
           /\ 3 \in BitsOf[n] <=> (n \div 8) % 2 = 1
           /\ 4 \in BitsOf[n] <=> (n \div 16) % 2 = 1
           /\ 5 \in BitsOf[n] <=> (n \div 32) % 2 = 1
           /\ 6 \in BitsOf[n] <=> (n \div 64) % 2 = 1
           /\ 7 \in BitsOf[n] <=> n \div 128 = 1
<1>1. BitsOf[n] = {i \in 0..7 : (n \div Weight[i + 1]) % 2 = 1}
  BY DEF BitsOf
<1>2. n \div 1 = n /\ (n \div 128) % 2 = n \div 128
  BY DEF Byte
<1>3. \A i \in 0..7 : i \in BitsOf[n] <=> (n \div Weight[i + 1]) % 2 = 1
  BY <1>1
<1> QED BY <1>1, <1>2, <1>3, WeightFacts

(* Whatever set it is given, NumOf makes a byte of the bits in it.         *)
LEMMA NumOfByte == \A s : NumOf(s) \in Byte
<1> TAKE s
<1> DEFINE v(i) == IF i \in s THEN Weight[i + 1] ELSE 0
<1>1. /\ v(0) \in {0, 1} /\ v(1) \in {0, 2} /\ v(2) \in {0, 4} /\ v(3) \in {0, 8}
      /\ v(4) \in {0, 16} /\ v(5) \in {0, 32} /\ v(6) \in {0, 64} /\ v(7) \in {0, 128}
  BY WeightFacts
<1>2. NumOf(s) = v(0) + v(1) + v(2) + v(3) + v(4) + v(5) + v(6) + v(7)
  BY DEF NumOf
<1> HIDE DEF v
<1> QED BY <1>1, <1>2 DEF Byte

(* The halves of a register pair are bytes and make up the pair.           *)
LEMMA HalvesOf == \A w \in Word : Hi(w) \in Byte /\ Lo(w) \in Byte /\ WordOf(Hi(w), Lo(w)) = w
BY DEF Hi, Lo, WordOf, Byte, Word

(* Two bytes joined are a word, and its halves are those bytes.            *)
LEMMA Joined ==
   ASSUME NEW h \in Byte, NEW l \in Byte
   PROVE /\ WordOf(h, l) \in Word
         /\ Hi(WordOf(h, l)) = h /\ Lo(WordOf(h, l)) = l
<1>1. WordOf(h, l) \in Word
  BY DEF WordOf, Byte, Word
<1>2. (256 * h + l) % 256 = l
  BY DEF Byte
<1>3. (256 * h + l) \div 256 = h
  BY DEF Byte
<1> QED BY <1>1, <1>2, <1>3 DEF Hi, Lo, WordOf

(* A cast to uint8_t or uint16_t stays within its width.                   *)
LEMMA Wraps == ASSUME NEW n \in Int PROVE Byte8(n) \in Byte /\ Word16(n) \in Word
<1>1. Byte8(n) \in Byte
  BY SMT DEF Byte8, Byte
<1>2. Word16(n) \in Word
  BY SMT DEF Word16, Word
<1> QED BY <1>1, <1>2

(* A displacement read as int8_t.                                          *)
LEMMA SignedInt == \A n \in Byte : Signed(n) \in -128..127
BY SMT DEF Signed, Byte

(* The addresses and bytes next to one, across the wrap.                   *)
LEMMA Neighbours ==
    /\ \A w \in Word : /\ Word16(w + 1) \in Word /\ Word16(w - 1) \in Word
                       /\ Word16(w + 2) \in Word /\ Word16(w - 2) \in Word
    /\ \A b \in Byte : Byte8(b + 1) \in Byte /\ Byte8(b - 1) \in Byte
<1>1. \A w \in Word : w + 1 \in Int /\ w - 1 \in Int /\ w + 2 \in Int /\ w - 2 \in Int
  BY SMT DEF Word
<1>2. \A b \in Byte : b + 1 \in Int /\ b - 1 \in Int
  BY SMT DEF Byte
<1> QED BY <1>1, <1>2, Wraps

(* Taking the lowest bit off a number.                                     *)
LEMMA Doubled ==
    ASSUME NEW b \in {0, 1}, NEW m \in Nat
    PROVE  b + 2 * m \in Nat /\ (b + 2 * m) \div 2 = m /\ (b + 2 * m) % 2 = b
BY SMT

(* Halving again and again.                                                *)
LEMMA Halved ==
    ASSUME NEW n \in Nat
    PROVE  /\ (n \div 2) \div 2 = n \div 4 /\ (n \div 4) \div 2 = n \div 8
           /\ (n \div 8) \div 2 = n \div 16 /\ (n \div 16) \div 2 = n \div 32
           /\ (n \div 32) \div 2 = n \div 64 /\ (n \div 64) \div 2 = n \div 128
BY SMT

(* A set of bits is read back from the byte made of it: flags survive      *)
(* being stored in F.                                                      *)
LEMMA BitsOfNumOf == ASSUME NEW s \in SUBSET (0..7) PROVE BitsOf[NumOf(s)] = s
<1> DEFINE b(i) == IF i \in s THEN 1 ELSE 0
           n  == NumOf(s)
           m6 == b(6) + 2 * b(7)
           m5 == b(5) + 2 * m6
           m4 == b(4) + 2 * m5
           m3 == b(3) + 2 * m4
           m2 == b(2) + 2 * m3
           m1 == b(1) + 2 * m2
<1>1. \A i : b(i) \in {0, 1} /\ (b(i) = 1 <=> i \in s)
  OBVIOUS
<1>2. n = b(0) + 2 * b(1) + 4 * b(2) + 8 * b(3) + 16 * b(4) + 32 * b(5) + 64 * b(6) + 128 * b(7)
  BY WeightFacts, SMT DEF NumOf
<1>3. n \in Byte
  BY NumOfByte
<1> HIDE DEF b, n
<1>4. n = b(0) + 2 * m1
  <2>1. /\ b(0) \in Int /\ b(1) \in Int /\ b(2) \in Int /\ b(3) \in Int
        /\ b(4) \in Int /\ b(5) \in Int /\ b(6) \in Int /\ b(7) \in Int
    BY <1>1, SMT
  <2> QED BY <1>2, <2>1, SMT
<1>5. b(7) \in Nat
  BY <1>1, SMT
<1>6. m6 \in Nat /\ m6 \div 2 = b(7) /\ m6 % 2 = b(6)
  BY <1>1, <1>5, Doubled
<1> HIDE DEF m6
<1>7. m5 \in Nat /\ m5 \div 2 = m6 /\ m5 % 2 = b(5)
  BY <1>1, <1>6, Doubled
<1> HIDE DEF m5
<1>8. m4 \in Nat /\ m4 \div 2 = m5 /\ m4 % 2 = b(4)
  BY <1>1, <1>7, Doubled
<1> HIDE DEF m4
<1>9. m3 \in Nat /\ m3 \div 2 = m4 /\ m3 % 2 = b(3)
  BY <1>1, <1>8, Doubled
<1> HIDE DEF m3
<1>10. m2 \in Nat /\ m2 \div 2 = m3 /\ m2 % 2 = b(2)
  BY <1>1, <1>9, Doubled
<1> HIDE DEF m2
<1>11. m1 \in Nat /\ m1 \div 2 = m2 /\ m1 % 2 = b(1)
  BY <1>1, <1>10, Doubled
<1> HIDE DEF m1
<1>12. n \in Nat /\ n \div 2 = m1 /\ n % 2 = b(0)
  BY <1>1, <1>4, <1>11, Doubled
<1>13. /\ n % 2 = b(0) /\ (n \div 2) % 2 = b(1) /\ (n \div 4) % 2 = b(2) /\ (n \div 8) % 2 = b(3)
       /\ (n \div 16) % 2 = b(4) /\ (n \div 32) % 2 = b(5) /\ (n \div 64) % 2 = b(6)
       /\ n \div 128 = b(7)
  <2>1. n \div 4 = m2
    BY <1>11, <1>12, Halved
  <2>2. n \div 8 = m3
    BY <1>10, <1>12, <2>1, Halved
  <2>3. n \div 16 = m4
    BY <1>9, <1>12, <2>2, Halved
  <2>4. n \div 32 = m5
    BY <1>8, <1>12, <2>3, Halved
  <2>5. n \div 64 = m6
    BY <1>7, <1>12, <2>4, Halved
  <2>6. n \div 128 = b(7)
    BY <1>6, <1>12, <2>5, Halved
  <2> QED BY <1>6, <1>7, <1>8, <1>9, <1>10, <1>11, <1>12, <2>1, <2>2, <2>3, <2>4, <2>5, <2>6
<1>14. BitsOf[n] \in SUBSET (0..7)
  BY <1>3, BitsAre
<1>15. \A i \in {0, 1, 2, 3, 4, 5, 6, 7} : i \in BitsOf[n] <=> b(i) = 1
  BY <1>3, <1>13, BitsAre
<1>16. \A i \in 0..7 : i \in {0, 1, 2, 3, 4, 5, 6, 7}
  BY SMT
<1>17. \A i \in 0..7 : i \in BitsOf[n] <=> i \in s
  BY <1>1, <1>15, <1>16
<1> QED BY <1>14, <1>17 DEF n
-----------------------------------------------------------------------------
(* The operations.                                                         *)

(* The carry flag as a number.                                             *)
LEMMA CarryIs == \A f : Carry(f) \in {0, 1}
BY DEF Carry

(* AND, OR and XOR give bytes.                                             *)
LEMMA LogicBytes == \A a, b : And(a, b) \in Byte /\ Or(a, b) \in Byte /\ Xor(a, b) \in Byte
BY NumOfByte DEF And, Or, Xor

(* A sum and a difference with carry are bytes.                            *)
LEMMA SumByte ==
    ASSUME NEW a \in Byte, NEW z \in Byte, NEW c \in {0, 1}
    PROVE  AddByte(a, z, c).v \in Byte /\ SubByte(a, z, c).v \in Byte
<1>1. a + z + c \in Int /\ a - z - c \in Int
  BY SMT DEF Byte
<1> QED BY <1>1, Wraps DEF AddByte, SubByte, Result

(* Each of the eight operations gives a byte.                              *)
LEMMA AluByte ==
    ASSUME NEW y \in 0..7, NEW a \in Byte, NEW z \in Byte, NEW f
    PROVE  Alu(y, a, z, f).v \in Byte
<1> DEFINE sub == SubByte(a, z, 0)
           con == [Logic(And(a, z)) EXCEPT !.f = @ \cup {FlagH}]
<1>1. con.v \in Byte
  BY LogicBytes DEF Logic, Result
<1>2. Logic(Xor(a, z)).v \in Byte /\ Logic(Or(a, z)).v \in Byte
  BY LogicBytes DEF Logic, Result
<1>3. Result(a, (sub.f \ F53) \cup Copy(z, F53)).v \in Byte
  BY DEF Result
<1>4. AddByte(a, z, 0).v \in Byte /\ AddByte(a, z, Carry(f)).v \in Byte
  BY CarryIs, SumByte
<1>5. sub.v \in Byte /\ SubByte(a, z, Carry(f)).v \in Byte
  BY CarryIs, SumByte
<1>6. y \in {0, 1, 2, 3, 4, 5, 6, 7}
  BY SMT
<1> QED BY <1>1, <1>2, <1>3, <1>4, <1>5, <1>6, Zenon DEF Alu

(* INC and DEC give bytes.                                                 *)
LEMMA CountByte ==
    ASSUME NEW n \in Byte, NEW f
    PROVE  IncByte(n, f).v \in Byte /\ DecByte(n, f).v \in Byte
<1>1. n + 1 \in Int /\ n - 1 \in Int
  BY SMT DEF Byte
<1> QED BY <1>1, Wraps DEF IncByte, DecByte, Result

(* RLCA, RRCA, RLA and RRA give bytes.                                     *)
LEMMA ShiftAByte ==
    ASSUME NEW y, NEW a \in Byte, NEW f
    PROVE  ShiftA(y, a, f).v \in Byte
<1> DEFINE right == y % 2 = 1
           out == IF right THEN a % 2 ELSE a \div 128
           fill == IF y < 2 THEN out ELSE Carry(f)
<1>1. fill \in {0, 1}
  BY CarryIs, SMT DEF Byte
<1> HIDE DEF fill
<1>2. (a \div 2) + 128 * fill \in Byte /\ Byte8(2 * a) + fill \in Byte
  BY <1>1, SMT DEF Byte, Byte8
<1>3. ShiftA(y, a, f).v = IF right THEN (a \div 2) + 128 * fill ELSE Byte8(2 * a) + fill
  BY DEF ShiftA, Result, fill
<1> QED BY <1>2, <1>3

(* Each of the eight shifts gives a byte.                                  *)
LEMMA ShiftedByte ==
    ASSUME NEW y \in 0..7, NEW n \in Byte, NEW c \in {0, 1}
    PROVE  Shifted(y, n, c) \in Byte
<1>1. /\ n \div 2 \in 0..127 /\ n \div 128 \in {0, 1} /\ n % 2 \in {0, 1}
      /\ Byte8(2 * n) \in Byte /\ Byte8(2 * n) % 2 = 0
  BY SMT DEF Byte, Byte8
<1>2. \A d \in {0, 1} : (n \div 2) + 128 * d \in Byte
  BY <1>1, SMT DEF Byte
<1>3. \A d \in {0, 1} : Byte8(2 * n) + d \in Byte
  BY <1>1, SMT DEF Byte
<1>4. y \in {0, 1, 2, 3, 4, 5, 6, 7} /\ n \div 2 \in Byte
  BY <1>1, SMT DEF Byte
<1> QED BY <1>1, <1>2, <1>3, <1>4, SMT DEF Shifted

(* The decimal adjustment gives a byte.                                    *)
LEMMA DaaByte ==
    ASSUME NEW a \in Byte, NEW f
    PROVE  Daa(a, f).v \in Byte
<1> DEFINE w == (IF NeedsSix(a, f) THEN 6 ELSE 0) + (IF NeedsSixty(a, f) THEN 96 ELSE 0)
<1>1. w \in Int
  BY SMT
<1> HIDE DEF w
<1>2. (IF FlagN \in f THEN a - w ELSE a + w) \in Int
  BY <1>1, SMT DEF Byte
<1>3. Daa(a, f).v = Byte8(IF FlagN \in f THEN a - w ELSE a + w)
  BY DEF Daa, Result, w
<1> QED BY <1>2, <1>3, Wraps

(* The additions and subtractions of pairs give words.                     *)
LEMMA WideWord ==
    ASSUME NEW p \in Word, NEW q \in Word, NEW f
    PROVE  AddWord(p, q, f).v \in Word /\ AdcWord(p, q, f).v \in Word /\ SbcWord(p, q, f).v \in Word
<1>1. p + q \in Int /\ p + q + Carry(f) \in Int /\ p - q - Carry(f) \in Int
  BY CarryIs, SMT DEF Word
<1> QED BY <1>1, Wraps DEF AddWord, AdcWord, SbcWord, Result

(* RRD and RLD leave bytes in the accumulator and in memory.               *)
LEMMA DigitBytes ==
    ASSUME NEW y, NEW a \in Byte, NEW n \in Byte
    PROVE  DigitRotate(y, a, n).a \in Byte /\ DigitRotate(y, a, n).m \in Byte
<1> DEFINE w == WordOf(a, n)
<1>1. w \in Word
  BY Joined
<1> HIDE DEF w
<1>2. w \in Int /\ 0 <= w /\ w < 65536
  BY <1>1, SMT DEF Word
<1>3. Word16(16 * w) + ((w \div 256) % 16) \in Word
  <2>1. 16 * w \in Int /\ Word16(16 * w) = 16 * (w % 4096)
    BY <1>2, SMT DEF Word16
  <2> QED BY <2>1, <1>2, SMT DEF Word
<1>4. ((w \div 16) % 256) + 256 * (w % 16) \in Word
  BY <1>2, SMT DEF Word
<1>5. Rotated(y, w) \in Word
  BY <1>3, <1>4 DEF Rotated
<1>6. 16 * (a \div 16) + (Hi(Rotated(y, w)) % 16) \in Byte
  BY <1>5, HalvesOf, SMT DEF Byte
<1> QED BY <1>5, <1>6, HalvesOf DEF DigitRotate, w
=============================================================================
