-------------------------- MODULE Z80ResultProofs ---------------------------
(***************************************************************************)
(* Proofs that the instructions compute what Z80Results specifies: the     *)
(* arithmetic of pairs and bytes, the shifts, the decimal adjustment and   *)
(* the pairs of instructions that undo one another; and what it specifies  *)
(* of whole programs, whose invariants say where a program is and what it  *)
(* has done so far.                                                        *)
(***************************************************************************)
EXTENDS Z80ExecProofs

-----------------------------------------------------------------------------
(* Arithmetic of pairs.                                                    *)

(* A word as its top digit and the twelve bits below.                      *)
LEMMA Split12 ==
   ASSUME NEW p \in Word
   PROVE \E a, k \in Nat : /\ a < 16 /\ k < 4096 /\ p = 4096 * a + k
                           /\ p % 4096 = k /\ p \div 4096 = a
<1>1. p \div 4096 \in Nat /\ p % 4096 \in Nat /\ p \div 4096 < 16 /\ p % 4096 < 4096
      /\ p = 4096 * (p \div 4096) + (p % 4096)
  BY SMT DEF Word, Word16
<1> QED BY <1>1, SMT

(* A carry came out of bit 11 of a sum exactly when bit 12 is not the sum  *)
(* of the bits 12: FlagHelper compares the former, the reference           *)
(* definition the latter.                                                  *)
LEMMA CarryIntoBit12 ==
    ASSUME NEW p \in Word, NEW q \in Word, NEW c \in {0, 1}, NEW s \in Word,
           s = Word16(p + q + c)
    PROVE  (p % 4096) + (q % 4096) + c > 4095 <=> (Bit12(p) + Bit12(q) + Bit12(s)) % 2 = 1
<1>1. PICK a, k \in Nat : a < 16 /\ k < 4096 /\ p = 4096 * a + k /\ p % 4096 = k /\ p \div 4096 = a
  BY Split12, SMT
<1>2. PICK b, l \in Nat : b < 16 /\ l < 4096 /\ q = 4096 * b + l /\ q % 4096 = l /\ q \div 4096 = b
  BY Split12, SMT
<1>3. PICK h \in {0, 1}, t \in Nat : t < 4096 /\ k + l + c = 4096 * h + t
  <2>1. CASE k + l + c < 4096
    BY <1>1, <1>2, <2>1, SMT
  <2>2. CASE ~(k + l + c < 4096)
    <3> DEFINE t == k + l + c - 4096
    <3>1. t \in Nat /\ t < 4096 /\ k + l + c = 4096 * 1 + t
      BY <1>1, <1>2, <2>2, SMT
    <3> QED BY <3>1, SMT
  <2> QED BY <2>1, <2>2, SMT
<1>5. (p % 4096) + (q % 4096) + c > 4095 <=> h = 1
  BY <1>1, <1>2, <1>3, SMT
<1>6. PICK u \in Nat : u = a + b + h /\ u < 32
  BY <1>1, <1>2, SMT
<1>7. p + q + c = 4096 * u + t
  BY <1>1, <1>2, <1>3, <1>6, SMT
<1>8. s = 4096 * (u % 16) + t
  BY <1>3, <1>6, <1>7, SMT DEF Word16
<1>9. s \div 4096 = u % 16
  BY <1>3, <1>6, <1>8, SMT
<1>10. Bit12(s) = u % 2
  BY <1>6, <1>9, SMT DEF Bit12
<1>11. ((a % 2) + (b % 2) + (u % 2)) % 2 = h
  BY <1>6, SMT
<1> QED BY <1>1, <1>2, <1>5, <1>10, <1>11, SMT DEF Bit12

(* A difference is what is added back to give the minuend.                 *)
LEMMA Borrowed ==
    ASSUME NEW p \in Word, NEW q \in Word, NEW c \in {0, 1}, NEW s, s = Word16(p - q - c)
    PROVE  /\ s \in Word /\ p = Word16(s + q + c)
           /\ p < q + c <=> s + q + c # p
           /\ p = s + q + c \/ p = s + q + c - 65536
<1>0. s = (IF p < q + c THEN p - q - c + 65536 ELSE p - q - c)
  BY SMT DEF Word, Word16
<1>1. s \in Word /\ p = Word16(s + q + c)
  BY <1>0, SMT DEF Word, Word16
<1>2. p < q + c <=> s + q + c # p
  BY <1>0, SMT DEF Word, Word16
<1>3. p = s + q + c \/ p = s + q + c - 65536
  BY <1>0, SMT DEF Word, Word16
<1> QED BY <1>1, <1>2, <1>3

(* The same for the borrow of a difference.                                *)
LEMMA BorrowIntoBit12 ==
    ASSUME NEW p \in Word, NEW q \in Word, NEW c \in {0, 1}, NEW s \in Word, s = Word16(p - q - c)
    PROVE  p % 4096 < (q % 4096) + c <=> (Bit12(s) + Bit12(q) + Bit12(p)) % 2 = 1
<1>1. p = Word16(s + q + c) /\ (p = s + q + c \/ p = s + q + c - 65536)
  BY Borrowed
<1>3. (s % 4096) + (q % 4096) + c > 4095 <=> (Bit12(s) + Bit12(q) + Bit12(p)) % 2 = 1
  BY <1>1, CarryIntoBit12
<1>4. p % 4096 < (q % 4096) + c <=> (s % 4096) + (q % 4096) + c > 4095
  <2>1. PICK a, k \in Nat : a < 16 /\ k < 4096 /\ s = 4096 * a + k /\ s % 4096 = k /\ s \div 4096 = a
    BY Split12, SMT
  <2>2. PICK b, l \in Nat : b < 16 /\ l < 4096 /\ q = 4096 * b + l /\ q % 4096 = l /\ q \div 4096 = b
    BY Split12, SMT
  <2>3. PICK d, m \in Nat : d < 16 /\ m < 4096 /\ p = 4096 * d + m /\ p % 4096 = m /\ p \div 4096 = d
    BY Split12, SMT
  <2>4. m = k + l + c - 4096 * (d - a - b) \/ m = k + l + c - 4096 * (16 + d - a - b)
    BY <1>1, <2>1, <2>2, <2>3, SMT
  <2>5. m = k + l + c \/ m = k + l + c - 4096
    BY <2>1, <2>2, <2>3, <2>4, SMT
  <2> QED BY <2>1, <2>2, <2>3, <2>5, SMT
<1> QED BY <1>3, <1>4

(* What the flag register can hold.                                        *)
Flags == SUBSET (0..7)

(* The flags the operators join are flags.                                 *)
LEMMA FlagsOf ==
    /\ \A n \in Byte : BitsOf[n] \in Flags
    /\ \A n \in Byte : \A mask : Copy(n, mask) \in Flags
    /\ \A flag \in 0..7 : \A cond : When(flag, cond) \in Flags
<1>1. \A n \in Byte : BitsOf[n] \in Flags
  BY BitsAre DEF Flags
<1>2. \A n \in Byte : \A mask : Copy(n, mask) \in Flags
  BY <1>1 DEF Copy, Flags
<1> QED BY <1>1, <1>2 DEF When, Flags

(* ADD HL is the sum of two words, and leaves S, Z and PV.                 *)
LEMMA AddWordIs ==
    ASSUME NEW p \in Word, NEW q \in Word, NEW f \in Flags
    PROVE  /\ AddWord(p, q, f).f \in Flags
           /\ IsWideSum(p, q, 0, AddWord(p, q, f).v, AddWord(p, q, f).f)
           /\ AddWord(p, q, f).f \cap {FlagS, FlagZ, FlagPV} = f \cap {FlagS, FlagZ, FlagPV}
<1> DEFINE v == Word16(p + q)
           half == (p % 4096) + (q % 4096) > 4095
           over == p + q > 65535
           g == (f \cap {FlagS, FlagZ, FlagPV}) \cup Copy(Hi(v), F53) \cup When(FlagC, over) \cup When(FlagH, half)
<1>1. AddWord(p, q, f).v = v /\ AddWord(p, q, f).f = g
  BY DEF AddWord, Result
<1>2. v \in Word /\ p + q = p + q + 0 /\ p + q \in Int
  BY Wraps, SMT DEF Word
<1>3. half <=> (Bit12(p) + Bit12(q) + Bit12(v)) % 2 = 1
  <2>1. v = Word16(p + q + 0)
    BY <1>2
  <2>2. half <=> (p % 4096) + (q % 4096) + 0 > 4095
    BY SMT DEF Word
  <2> HIDE DEF v, half
  <2> QED BY <1>2, <2>1, <2>2, CarryIntoBit12
<1>4. over <=> p + q + 0 # v
  BY SMT DEF Word, Word16
<1>5. v = (p + q + 0) % 65536
  BY <1>2 DEF Word16
<1>6. Hi(v) \in Byte
  BY <1>2, HalvesOf
<1> HIDE DEF v, half, over
<1>7. g \in Flags
  <2>1. Copy(Hi(v), F53) \in Flags /\ When(FlagC, over) \in Flags /\ When(FlagH, half) \in Flags
    BY <1>6, FlagsOf DEF FlagC, FlagH
  <2> QED BY <2>1 DEF Flags
<1>8. /\ FlagC \in g <=> over
      /\ FlagH \in g <=> half
      /\ g \cap {FlagS, FlagZ, FlagPV} = f \cap {FlagS, FlagZ, FlagPV}
  BY SMT DEF Copy, When, F53, FlagS, FlagZ, Flag5, FlagH, Flag3, FlagPV, FlagN, FlagC
<1> HIDE DEF g
<1>9. IsWideSum(p, q, 0, v, g)
  BY <1>3, <1>4, <1>5, <1>8 DEF IsWideSum
<1> QED BY <1>1, <1>7, <1>8, <1>9

(* The sign of a word, as a bit and as the sign of an int16_t.             *)
LEMMA Sign16Is ==
    ASSUME NEW w \in Word
    PROVE  /\ Sign16(w) = IF w > 32767 THEN 1 ELSE 0
           /\ 7 \in BitsOf[Hi(w)] <=> w > 32767
           /\ Signed16(w) < 0 <=> w > 32767
<1>1. Hi(w) \in Byte
  BY HalvesOf
<1>2. Hi(w) \div 128 = IF w > 32767 THEN 1 ELSE 0
  BY SMT DEF Hi, Word
<1>3. Bit7(Hi(w)) = Hi(w) \div 128
  BY <1>2, SMT DEF Bit7
<1>4. 7 \in BitsOf[Hi(w)] <=> Hi(w) \div 128 = 1
  BY <1>1, BitsAre
<1>5. Signed16(w) < 0 <=> w > 32767
  BY SMT DEF Signed16, Word
<1> QED BY <1>2, <1>3, <1>4, <1>5 DEF Sign16

(* The test of overflow on signs is the test on the exact sum, or          *)
(* difference.                                                             *)
LEMMA Overflows ==
    ASSUME NEW p \in Word, NEW q \in Word, NEW c \in {0, 1}, NEW v \in Word, NEW x \in Int
    PROVE  /\ v = Word16(p + q + c) /\ x = Signed16(p) + Signed16(q) + c =>
                (Sign16(p) = Sign16(q) /\ Sign16(p) # Sign16(v) <=> x < -32768 \/ x > 32767)
           /\ v = Word16(p - q - c) /\ x = Signed16(p) - Signed16(q) - c =>
                (Sign16(p) # Sign16(q) /\ Sign16(p) # Sign16(v) <=> x < -32768 \/ x > 32767)
<1>1. \A w \in Word : Signed16(w) = IF Sign16(w) = 1 THEN w - 65536 ELSE w
  BY Sign16Is, SMT DEF Signed16
<1>2. \A w \in Word : Sign16(w) = IF w > 32767 THEN 1 ELSE 0
  BY Sign16Is
<1>3. \A w \in Word : w \in Int /\ 0 <= w /\ w <= 65535
  BY SMT DEF Word
<1>4. \A n \in Int : Word16(n) = n % 65536
  BY DEF Word16
<1>5. ASSUME v = Word16(p + q + c), x = Signed16(p) + Signed16(q) + c
      PROVE  Sign16(p) = Sign16(q) /\ Sign16(p) # Sign16(v) <=> x < -32768 \/ x > 32767
  <2>1. v = IF p + q + c > 65535 THEN p + q + c - 65536 ELSE p + q + c
    BY <1>3, <1>5, SMT DEF Word16
  <2> QED BY <1>1, <1>2, <1>3, <1>5, <2>1, SMT
<1>6. ASSUME v = Word16(p - q - c), x = Signed16(p) - Signed16(q) - c
      PROVE  Sign16(p) # Sign16(q) /\ Sign16(p) # Sign16(v) <=> x < -32768 \/ x > 32767
  <2>1. v = IF p - q - c < 0 THEN p - q - c + 65536 ELSE p - q - c
    BY <1>3, <1>6, SMT DEF Word16
  <2> QED BY <1>1, <1>2, <1>3, <1>6, <2>1, SMT
<1> QED BY <1>5, <1>6

(* ADC HL is the sum with carry and sets S, Z and PV from it.              *)
LEMMA AdcWordIs ==
    ASSUME NEW p \in Word, NEW q \in Word, NEW f \in Flags
    PROVE  LET c == Carry(f)   r == AdcWord(p, q, f)
           IN  /\ r.f \in Flags
               /\ IsWideSum(p, q, c, r.v, r.f)
               /\ WideFlags(r.f, r.v, Signed16(p) + Signed16(q) + c)
<1> DEFINE c == Carry(f)
           v == Word16(p + q + c)
           half == AdcHalf(p, q, c)
           over == p + q + c > 65535
           oflow == Sign16(p) = Sign16(q) /\ Sign16(p) # Sign16(v)
           g == Copy(Hi(v), FS53) \cup When(FlagZ, v = 0) \cup When(FlagPV, oflow)
                  \cup When(FlagC, over) \cup When(FlagH, half)
           x == Signed16(p) + Signed16(q) + c
<1>1. AdcWord(p, q, f).v = v /\ AdcWord(p, q, f).f = g
  BY DEF AdcWord, Result
<1>c. c \in {0, 1}
  BY CarryIs
<1> HIDE DEF c
<1>2. v \in Word /\ v = (p + q + c) % 65536 /\ x \in Int
  BY <1>c, Wraps, SMT DEF Word, Word16, Signed16
<1>3. half <=> (Bit12(p) + Bit12(q) + Bit12(v)) % 2 = 1
  BY <1>c, <1>2, CarryIntoBit12 DEF AdcHalf
<1>4. over <=> p + q + c # v
  BY <1>c, SMT DEF Word, Word16
<1>5. oflow <=> x < -32768 \/ x > 32767
  BY <1>c, <1>2, Overflows
<1>6. Hi(v) \in Byte /\ (7 \in BitsOf[Hi(v)] <=> Signed16(v) < 0)
  BY <1>2, HalvesOf, Sign16Is
<1> HIDE DEF v, half, over, oflow, x
<1>7. g \in Flags
  <2>1. /\ Copy(Hi(v), FS53) \in Flags /\ When(FlagZ, v = 0) \in Flags
        /\ When(FlagPV, oflow) \in Flags /\ When(FlagC, over) \in Flags /\ When(FlagH, half) \in Flags
    BY <1>6, FlagsOf DEF FlagC, FlagH, FlagZ, FlagPV
  <2> QED BY <2>1 DEF Flags
<1>8. /\ FlagC \in g <=> over
      /\ FlagH \in g <=> half
      /\ FlagPV \in g <=> oflow
      /\ FlagZ \in g <=> v = 0
      /\ FlagS \in g <=> 7 \in BitsOf[Hi(v)]
  BY SMT DEF Copy, When, FS53, FlagS, FlagZ, Flag5, FlagH, Flag3, FlagPV, FlagN, FlagC
<1> HIDE DEF g
<1>9. IsWideSum(p, q, c, v, g)
  BY <1>2, <1>3, <1>4, <1>8 DEF IsWideSum
<1>10. WideFlags(g, v, x)
  BY <1>5, <1>6, <1>8 DEF WideFlags
<1> QED BY <1>1, <1>7, <1>9, <1>10 DEF c, x

(* SBC HL is the difference with carry.                                    *)
LEMMA SbcWordIs ==
    ASSUME NEW p \in Word, NEW q \in Word, NEW f \in Flags
    PROVE  LET c == Carry(f)   r == SbcWord(p, q, f)
           IN  /\ r.f \in Flags
               /\ IsWideSum(r.v, q, c, p, r.f)
               /\ WideFlags(r.f, r.v, Signed16(p) - Signed16(q) - c)
<1> DEFINE c == Carry(f)
           v == Word16(p - q - c)
           half == p % 4096 < (q % 4096) + c
           over == p < q + c
           oflow == Sign16(p) # Sign16(q) /\ Sign16(p) # Sign16(v)
           g == Copy(Hi(v), FS53) \cup When(FlagZ, v = 0) \cup {FlagN} \cup When(FlagPV, oflow)
                  \cup When(FlagC, over) \cup When(FlagH, half)
           x == Signed16(p) - Signed16(q) - c
<1>1. SbcWord(p, q, f).v = v /\ SbcWord(p, q, f).f = g
  BY DEF SbcWord, Result
<1>c. c \in {0, 1}
  BY CarryIs
<1> HIDE DEF c
<1>2. v \in Word /\ p = (v + q + c) % 65536 /\ x \in Int
  <2>1. v \in Word /\ p = Word16(v + q + c)
    BY <1>c, Borrowed
  <2>2. x \in Int
    BY <1>c, SMT DEF Word, Signed16
  <2> QED BY <2>1, <2>2 DEF Word16
<1>3. half <=> (Bit12(v) + Bit12(q) + Bit12(p)) % 2 = 1
  BY <1>c, <1>2, BorrowIntoBit12
<1>4. over <=> v + q + c # p
  BY <1>c, SMT DEF Word, Word16
<1>5. oflow <=> x < -32768 \/ x > 32767
  BY <1>c, <1>2, Overflows
<1>6. Hi(v) \in Byte /\ (7 \in BitsOf[Hi(v)] <=> Signed16(v) < 0)
  BY <1>2, HalvesOf, Sign16Is
<1> HIDE DEF v, half, over, oflow, x
<1>7. g \in Flags
  <2>1. /\ Copy(Hi(v), FS53) \in Flags /\ When(FlagZ, v = 0) \in Flags
        /\ When(FlagPV, oflow) \in Flags /\ When(FlagC, over) \in Flags /\ When(FlagH, half) \in Flags
    BY <1>6, FlagsOf DEF FlagC, FlagH, FlagZ, FlagPV
  <2> QED BY <2>1 DEF Flags, FlagN
<1>8. /\ FlagC \in g <=> over
      /\ FlagH \in g <=> half
      /\ FlagPV \in g <=> oflow
      /\ FlagZ \in g <=> v = 0
      /\ FlagS \in g <=> 7 \in BitsOf[Hi(v)]
  BY SMT DEF Copy, When, FS53, FlagS, FlagZ, Flag5, FlagH, Flag3, FlagPV, FlagN, FlagC
<1> HIDE DEF g
<1>9. IsWideSum(v, q, c, p, g)
  BY <1>2, <1>3, <1>4, <1>8 DEF IsWideSum
<1>10. WideFlags(g, v, x)
  BY <1>5, <1>6, <1>8 DEF WideFlags
<1> QED BY <1>1, <1>7, <1>9, <1>10 DEF c, x

-----------------------------------------------------------------------------
(* Which action a step of an executor is. *)

(* In the unprefixed table, by the top bits of the opcode.                 *)
LEMMA MainActs ==
    ASSUME IInv, Next, Executing("NONE")
    PROVE  /\ X = 0 => Quadrant0
           /\ X = 1 \/ X = 2 => Quadrant12
           /\ X = 3 => Quadrant3
<1>1. Quadrant0 => X = 0 \/ subset = "ED"
  BY DEF Quadrant0, Main, Nop, ExAf, Djnz, Jr, LdWordImm, AddHl, LdA, LdWordAt,
         IncDecWord, IncDecByte, LdByteImm, Accumulator
<1>2. Quadrant12 => X = 1 \/ X = 2
  BY DEF Quadrant12, Main, Halt, PrefixedHalt, LdReg, LdRegMem, LdMemReg, AluReg, AluMem
<1>3. Quadrant3 => X = 3
  BY DEF Quadrant3, Main, RetCc, Ret, Pop, Push, Exx, JpHl, LdSpHl, Jp, OutA, InA,
         ExSpHl, ExDeHl, Di, Ei, Call, Rst, AluImm
<1>4. SubsetCB => subset = "CB"
  BY DEF SubsetCB, ShiftRotate, BitTest, Res, Set, Cb
<1>5. SubsetED => subset = "ED"
  BY DEF SubsetED, InC, OutC, AdcSbcHl, Neg, Retn, Im, LdIr, RotateDigits, EdNop,
         BlockLd, BlockCp, BlockIn, BlockOut, Block, Ed
<1>6. stage = "start" /\ subset = "NONE" /\ regs.instr \notin PrefixBytes
  BY DEF Executing
<1>7. ~Fetch /\ ~HaltedFetch /\ ~Prefix /\ ~Displaced /\ ~IntResponse /\ ~ServeNmi /\ ~AcceptInt /\ ~Ended
  BY <1>6 DEF Fetch, HaltedFetch, Prefix, Displaced, IntResponse, ServeNmi, AcceptInt, Between, Ended, Stopped
<1>8. X \in {0, 1, 2, 3}
  BY Facts, SMT
<1> QED BY <1>1, <1>2, <1>3, <1>4, <1>5, <1>6, <1>7, <1>8 DEF Next, Cpu

(* In the tables behind CB and ED.                                         *)
LEMMA PrefixedActs ==
    ASSUME IInv, Next
    PROVE  /\ Executing("CB") => SubsetCB
           /\ Executing("ED") => SubsetED \/ LdWordAt
<1>1. Quadrant0 => subset = "NONE" \/ LdWordAt
  BY DEF Quadrant0, Main, Nop, ExAf, Djnz, Jr, LdWordImm, AddHl, LdA,
         IncDecWord, IncDecByte, LdByteImm, Accumulator
<1>2. Quadrant12 => subset = "NONE"
  BY DEF Quadrant12, Main, Halt, PrefixedHalt, LdReg, LdRegMem, LdMemReg, AluReg, AluMem
<1>3. Quadrant3 => subset = "NONE"
  BY DEF Quadrant3, Main, RetCc, Ret, Pop, Push, Exx, JpHl, LdSpHl, Jp, OutA, InA,
         ExSpHl, ExDeHl, Di, Ei, Call, Rst, AluImm
<1>4. SubsetCB => subset = "CB"
  BY DEF SubsetCB, ShiftRotate, BitTest, Res, Set, Cb
<1>5. SubsetED => subset = "ED"
  BY DEF SubsetED, InC, OutC, AdcSbcHl, Neg, Retn, Im, LdIr, RotateDigits, EdNop,
         BlockLd, BlockCp, BlockIn, BlockOut, Block, Ed
<1>6. LdWordAt => subset = "NONE" \/ subset = "ED"
  BY DEF LdWordAt, Main
<1>7. ASSUME stage = "start", subset # "NONE"
      PROVE  ~Fetch /\ ~HaltedFetch /\ ~Prefix /\ ~Displaced /\ ~IntResponse /\ ~ServeNmi /\ ~AcceptInt /\ ~Ended
  BY <1>7 DEF Fetch, HaltedFetch, Prefix, Displaced, IntResponse, ServeNmi, AcceptInt, Between, Ended, Stopped
<1> QED BY <1>1, <1>2, <1>3, <1>4, <1>5, <1>6, <1>7 DEF Next, Cpu, Executing

(* The flags stored are the flags read back, and nothing else changes.     *)
LEMMA AfterWithFlags ==
    ASSUME NEW r, RegisterFile(r), NEW f \in Flags
    PROVE  /\ BitsOf[Lo(WithFlags(r, f).AF)] = f /\ Hi(WithFlags(r, f).AF) = Hi(r.AF)
           /\ \A n \in Pairs \ {"AF"} : WithFlags(r, f)[n] = r[n]
<1> DEFINE q == NumOf(f)
           w == WordOf(Hi(r.AF), q)
<1>1. q \in Byte /\ BitsOf[q] = f
  BY NumOfByte, BitsOfNumOf DEF Flags
<1>2. Hi(r.AF) \in Byte
  BY Values DEF Pairs
<1>3. Lo(w) = q /\ Hi(w) = Hi(r.AF)
  BY <1>1, <1>2, Joined
<1>4. WithFlags(r, f) = [r EXCEPT !.AF = w, !.Q = q]
  BY DEF WithFlags
<1> HIDE DEF w, q
<1>5. WithFlags(r, f).AF = w
  BY <1>4, SMT DEF RegisterFile, Pairs, Names
<1>6. \A n \in Pairs \ {"AF"} : WithFlags(r, f)[n] = r[n]
  <2>1. \A n \in Pairs \ {"AF"} : n \in DOMAIN r /\ n # "AF" /\ n # "Q"
    BY SMT DEF RegisterFile, Pairs, Names
  <2> QED BY <1>4, <2>1
<1> QED BY <1>1, <1>3, <1>5, <1>6

(* The flags before the step.                                              *)
LEMMA FlagsBefore ==
    ASSUME IInv
    PROVE  F \in Flags /\ Bit(0, Lo(regs.AF)) = Carry(F)
<1>1. Lo(regs.AF) \in Byte
  BY Facts, HalvesOf DEF Pairs
<1> QED BY <1>1, FlagsOf DEF F, Bit, Carry, FlagC

(* ADD HL, rr in a step.                                                   *)
LEMMA AddHlWide ==
    ASSUME IInv, AddHl
    PROVE  LET p == regs[Index]   q == regs[Reg16(Y \div 2)]   s == regs'[Index]
           IN  /\ IsWideSum(p, q, 0, s, AfterF)
               /\ AfterF \cap {FlagS, FlagZ, FlagPV} = F \cap {FlagS, FlagZ, FlagPV}
<1> DEFINE sum == AddWord(regs[Index], regs[Reg16(Y \div 2)], F)
           m == Word16(regs[Index] + 1)
           r == [regs EXCEPT ![Index] = sum.v, !.MEMPTR = m]
<1>1. /\ sum.f \in Flags
      /\ IsWideSum(regs[Index], regs[Reg16(Y \div 2)], 0, sum.v, sum.f)
      /\ sum.f \cap {FlagS, FlagZ, FlagPV} = F \cap {FlagS, FlagZ, FlagPV}
  BY Facts, FlagsBefore, AddWordIs
<1>2. sum.v \in Word /\ m \in Word
  BY Facts, WideWord, Neighbours
<1>3. regs' = WithFlags(r, sum.f)
  BY DEF AddHl, Flagged, Retire
<1>4. RegisterFile(regs) /\ Index \in {"HL", "IX", "IY"}
  BY Facts
<1> HIDE DEF sum, m
<1>5. RegisterFile(r) /\ r[Index] = sum.v
  <2>1. Index \in Pairs /\ Index \in DOMAIN regs /\ Index # "MEMPTR"
    BY <1>4, SMT DEF RegisterFile, Pairs, Names
  <2>2. r[Index] = sum.v
    BY <2>1
  <2>3. RegisterFile(r)
    BY <1>2, <1>4, <2>1, SMT DEF RegisterFile, Pairs, Names
  <2> QED BY <2>2, <2>3
<1> HIDE DEF r
<1>6. AfterF = sum.f
  BY <1>1, <1>3, <1>5, AfterWithFlags DEF AfterF
<1>7. regs'[Index] = sum.v
  BY <1>1, <1>3, <1>4, <1>5, AfterWithFlags DEF Pairs
<1> QED BY <1>1, <1>6, <1>7

(* ADC HL, rr and SBC HL, rr in a step.                                    *)
LEMMA AdcSbcHlWide ==
    ASSUME IInv, AdcSbcHl
    PROVE  LET p == regs.HL   q == regs[Reg16(Y \div 2)]   s == regs'.HL   c == Bit(0, Lo(regs.AF))
           IN  IF Y % 2 = 1
               THEN /\ IsWideSum(p, q, c, s, AfterF)
                    /\ WideFlags(AfterF, s, Signed16(p) + Signed16(q) + c)
               ELSE /\ IsWideSum(s, q, c, p, AfterF)
                    /\ WideFlags(AfterF, s, Signed16(p) - Signed16(q) - c)
<1> DEFINE n   == regs[Reg16(Y \div 2)]
           res == IF Y % 2 = 1 THEN AdcWord(regs.HL, n, F) ELSE SbcWord(regs.HL, n, F)
           m   == Word16(regs.HL + 1)
           r   == [regs EXCEPT !.HL = res.v, !.MEMPTR = m]
           c   == Bit(0, Lo(regs.AF))
           x   == Signed16(regs.HL) + Signed16(n) + c
           y   == Signed16(regs.HL) - Signed16(n) - c
<1>0. regs.HL \in Word /\ n \in Word /\ F \in Flags /\ c = Carry(F)
  BY Facts, FlagsBefore DEF Pairs
<1>1. res.f \in Flags /\ res.v \in Word /\ m \in Word
  BY <1>0, AdcWordIs, SbcWordIs, WideWord, Neighbours
<1>2. Y % 2 = 1 => IsWideSum(regs.HL, n, c, res.v, res.f) /\ WideFlags(res.f, res.v, x)
  BY <1>0, AdcWordIs
<1>3. Y % 2 # 1 => IsWideSum(res.v, n, c, regs.HL, res.f) /\ WideFlags(res.f, res.v, y)
  BY <1>0, SbcWordIs
<1>4. regs' = WithFlags(r, res.f)
  BY DEF AdcSbcHl, Flagged, Retire
<1> HIDE DEF res, m
<1>5. RegisterFile(r) /\ r.HL = res.v
  BY <1>1, Facts, SMT DEF RegisterFile, Pairs, Names
<1> HIDE DEF r
<1>6. AfterF = res.f
  BY <1>1, <1>4, <1>5, AfterWithFlags DEF AfterF
<1>7. regs'.HL = res.v
  BY <1>1, <1>4, <1>5, AfterWithFlags DEF Pairs
<1> QED BY <1>2, <1>3, <1>6, <1>7

(* ADD, ADC and SBC on HL and the index registers give the exact sum or    *)
(* difference modulo 65536, a half carry out of bit 11, and the flags of   *)
(* each.                                                                   *)
THEOREM ExecWideArithmetic == Spec => WideArithmetic
<1>1. ASSUME IInv, Next PROVE WideStep
  <2>1. ASSUME Executing("NONE"), X = 0, Z = 1, Y % 2 = 1 PROVE AddHl
    <3>1. Quadrant0 /\ subset = "NONE"
      BY <1>1, <2>1, MainActs DEF Executing
    <3> QED BY <2>1, <3>1 DEF Quadrant0, Nop, ExAf, Djnz, Jr, LdWordImm, LdA, LdWordAt,
                              IncDecWord, IncDecByte, LdByteImm, Accumulator
  <2>2. ASSUME Executing("ED"), X = 1, Z = 2 PROVE AdcSbcHl /\ Index = "HL"
    <3>1. (SubsetED \/ LdWordAt) /\ subset = "ED" /\ Index = "HL"
      BY <1>1, <2>2, PrefixedActs DEF Executing, IInv, EdUnprefixed, Index
    <3> QED BY <2>2, <3>1 DEF SubsetED, InC, OutC, Neg, Retn, Im, LdIr, RotateDigits, EdNop, LdWordAt, Main,
                              BlockLd, BlockCp, BlockIn, BlockOut, Block, Ed
  <2> QED BY <1>1, <2>1, <2>2, AddHlWide, AdcSbcHlWide DEF WideStep
<1>2. IInv /\ [Next]_vars => [WideStep]_vars
  BY <1>1
<1> QED BY <1>2, ExecInductive, PTL DEF Spec, WideArithmetic
-----------------------------------------------------------------------------
(* Arithmetic of bytes.                                                    *)

(* A bit is 0 or 1.                                                        *)
LEMMA Unit == \A i, n : Bit(i, n) \in {0, 1} /\ (Bit(i, n) = 1 <=> i \in BitsOf[n])
BY SMT DEF Bit

(* XOR, bit by bit.                                                        *)
LEMMA XorBits ==
    ASSUME NEW a \in Byte, NEW b \in Byte
    PROVE  \A i \in 0..7 : i \in BitsOf[Xor(a, b)] <=> (i \in BitsOf[a] <=> i \notin BitsOf[b])
<1> DEFINE s == (BitsOf[a] \cup BitsOf[b]) \ (BitsOf[a] \cap BitsOf[b])
<1>1. s \in SUBSET (0..7)
  BY BitsAre
<1>2. BitsOf[Xor(a, b)] = s
  BY <1>1, BitsOfNumOf DEF Xor
<1>3. \A i \in 0..7 : i \in s <=> (i \in BitsOf[a] <=> i \notin BitsOf[b])
  BY <1>1
<1> QED BY <1>2, <1>3

(* The bits of a byte that has been shifted right.                         *)
LEMMA ShiftedBits ==
    ASSUME NEW n \in Byte
    PROVE  /\ n \div 16 \in Byte /\ n \div 4 \in Byte /\ n \div 2 \in Byte
           /\ 0 \in BitsOf[n \div 16] <=> 4 \in BitsOf[n]
           /\ 1 \in BitsOf[n \div 16] <=> 5 \in BitsOf[n]
           /\ 2 \in BitsOf[n \div 16] <=> 6 \in BitsOf[n]
           /\ 3 \in BitsOf[n \div 16] <=> 7 \in BitsOf[n]
           /\ 0 \in BitsOf[n \div 4] <=> 2 \in BitsOf[n]
           /\ 1 \in BitsOf[n \div 4] <=> 3 \in BitsOf[n]
           /\ 0 \in BitsOf[n \div 2] <=> 1 \in BitsOf[n]
<1>1. n \div 16 \in Byte /\ n \div 4 \in Byte /\ n \div 2 \in Byte
  BY SMT DEF Byte
<1>2. n \in Nat
  BY SMT DEF Byte
<1>3. /\ 0 \in BitsOf[n \div 16] <=> (n \div 16) % 2 = 1
      /\ 1 \in BitsOf[n \div 16] <=> ((n \div 16) \div 2) % 2 = 1
      /\ 2 \in BitsOf[n \div 16] <=> ((n \div 16) \div 4) % 2 = 1
      /\ 3 \in BitsOf[n \div 16] <=> ((n \div 16) \div 8) % 2 = 1
      /\ 0 \in BitsOf[n \div 4] <=> (n \div 4) % 2 = 1
      /\ 1 \in BitsOf[n \div 4] <=> ((n \div 4) \div 2) % 2 = 1
      /\ 0 \in BitsOf[n \div 2] <=> (n \div 2) % 2 = 1
  BY <1>1, BitsAre
<1>4. /\ (n \div 16) \div 2 = n \div 32 /\ (n \div 4) \div 2 = n \div 8
      /\ (n \div 16) \div 4 = n \div 64
      /\ (n \div 16) \div 8 = n \div 128
  BY <1>2, SMT
<1>5. (n \div 128) % 2 = 1 <=> n \div 128 = 1
  BY <1>2, SMT DEF Byte
<1> QED BY <1>1, <1>3, <1>4, <1>5, BitsAre

(* The parity that the code folds with shifts and XOR is that the number   *)
(* of bits set is even.                                                    *)
LEMMA ParityEven ==
    ASSUME NEW n \in Byte
    PROVE  Parity(n) <=> Even(n)
<1> DEFINE p == Xor(n, n \div 16)
           q == Xor(p, p \div 4)
           r == Xor(q, q \div 2)
<1>1. p \in Byte /\ q \in Byte /\ r \in Byte
  BY LogicBytes
<1>2. n \div 16 \in Byte /\ p \div 4 \in Byte /\ q \div 2 \in Byte
  BY <1>1, ShiftedBits
<1>3. Parity(n) <=> 0 \notin BitsOf[r]
  <2>1. Parity(n) <=> r % 2 = 0
    BY DEF Parity
  <2>2. 0 \in BitsOf[r] <=> r % 2 = 1
    BY <1>1, BitsAre
  <2> HIDE DEF r
  <2> QED BY <1>1, <2>1, <2>2, SMT DEF Byte
<1>4. 0 \in BitsOf[r] <=> ~(0 \in BitsOf[q] <=> 1 \in BitsOf[q])
  BY <1>1, <1>2, XorBits, ShiftedBits, SMT
<1>5. /\ 0 \in BitsOf[q] <=> ~(0 \in BitsOf[p] <=> 2 \in BitsOf[p])
      /\ 1 \in BitsOf[q] <=> ~(1 \in BitsOf[p] <=> 3 \in BitsOf[p])
  BY <1>1, <1>2, XorBits, ShiftedBits, SMT
<1>6. /\ 0 \in BitsOf[p] <=> ~(0 \in BitsOf[n] <=> 4 \in BitsOf[n])
      /\ 1 \in BitsOf[p] <=> ~(1 \in BitsOf[n] <=> 5 \in BitsOf[n])
      /\ 2 \in BitsOf[p] <=> ~(2 \in BitsOf[n] <=> 6 \in BitsOf[n])
      /\ 3 \in BitsOf[p] <=> ~(3 \in BitsOf[n] <=> 7 \in BitsOf[n])
  BY <1>1, <1>2, XorBits, ShiftedBits, SMT
<1> HIDE DEF p, q, r
<1> DEFINE b(i) == Bit(i, n)
<1>7. /\ b(0) \in {0, 1} /\ (b(0) = 1 <=> 0 \in BitsOf[n])
      /\ b(1) \in {0, 1} /\ (b(1) = 1 <=> 1 \in BitsOf[n])
      /\ b(2) \in {0, 1} /\ (b(2) = 1 <=> 2 \in BitsOf[n])
      /\ b(3) \in {0, 1} /\ (b(3) = 1 <=> 3 \in BitsOf[n])
      /\ b(4) \in {0, 1} /\ (b(4) = 1 <=> 4 \in BitsOf[n])
      /\ b(5) \in {0, 1} /\ (b(5) = 1 <=> 5 \in BitsOf[n])
      /\ b(6) \in {0, 1} /\ (b(6) = 1 <=> 6 \in BitsOf[n])
      /\ b(7) \in {0, 1} /\ (b(7) = 1 <=> 7 \in BitsOf[n])
  BY Unit
<1>8. Even(n) <=> (b(0) + b(1) + b(2) + b(3) + b(4) + b(5) + b(6) + b(7)) % 2 = 0
  BY DEF Even
<1> HIDE DEF b
<1> QED BY <1>3, <1>4, <1>5, <1>6, <1>7, <1>8, SMT

(* A byte as its two digits.                                               *)
LEMMA Digits16 ==
    ASSUME NEW n \in Byte
    PROVE  \E h, l \in Nat : h < 16 /\ l < 16 /\ n = 16 * h + l /\ n % 16 = l /\ n \div 16 = h
<1>1. n \div 16 \in Nat /\ n % 16 \in Nat /\ n \div 16 < 16 /\ n % 16 < 16
      /\ n = 16 * (n \div 16) + (n % 16)
  BY SMT DEF Byte
<1> QED BY <1>1, SMT

(* The half carry, as the carry out of the low digits and as a bit 4 that  *)
(* is not the sum of the bits 4.                                           *)
LEMMA CarryIntoBit4 ==
    ASSUME NEW a \in Byte, NEW z \in Byte, NEW c \in {0, 1}, NEW v, v = Byte8(a + z + c)
    PROVE  (a % 16) + (z % 16) + c > 15 <=> (Bit(4, a) + Bit(4, z) + Bit(4, v)) % 2 = 1
<1>1. v \in Byte
  BY SMT DEF Byte, Byte8
<1>2. ASSUME NEW n \in Byte PROVE Bit(4, n) = (n \div 16) % 2
  <2>1. n \div 16 \in Nat
    BY SMT DEF Byte
  <2> QED BY <2>1, BitsAre, SMT DEF Bit
<1>3. (a % 16) + (z % 16) + c > 15 <=> (((a \div 16) % 2) + ((z \div 16) % 2) + ((v \div 16) % 2)) % 2 = 1
  BY SMT DEF Byte, Byte8
<1> QED BY <1>1, <1>2, <1>3

(* A difference of bytes, before the cast and after.                       *)
LEMMA ByteBorrowed ==
    ASSUME NEW a \in Byte, NEW z \in Byte, NEW c \in {0, 1}, NEW v, v = Byte8(a - z - c)
    PROVE  /\ v \in Byte /\ a = Byte8(v + z + c)
           /\ v = IF a < z + c THEN a - z - c + 256 ELSE a - z - c
<1>1. v = IF a < z + c THEN a - z - c + 256 ELSE a - z - c
  BY SMT DEF Byte, Byte8
<1>2. v \in Byte /\ a = Byte8(v + z + c)
  BY <1>1, SMT DEF Byte, Byte8
<1> QED BY <1>1, <1>2

(* A borrow out of the byte, and out of its low digit, seen by adding      *)
(* back.                                                                   *)
LEMMA BorrowOut ==
    ASSUME NEW a \in Byte, NEW z \in Byte, NEW c \in {0, 1}, NEW v, v = Byte8(a - z - c)
    PROVE  /\ a < z + c <=> v + z + c # a
           /\ a % 16 < (z % 16) + c <=> (v % 16) + (z % 16) + c > 15
<1>1. v = IF a < z + c THEN a - z - c + 256 ELSE a - z - c
  BY SMT DEF Byte, Byte8
<1>2. v \in Byte
  BY <1>1, SMT DEF Byte
<1>3. a < z + c <=> v + z + c # a
  BY <1>1, SMT DEF Byte
<1>4. a % 16 < (z % 16) + c <=> (v % 16) + (z % 16) + c > 15
  <2>1. PICK h, l \in Nat : h < 16 /\ l < 16 /\ a = 16 * h + l /\ a % 16 = l /\ a \div 16 = h
    BY Digits16
  <2>2. PICK i, m \in Nat : i < 16 /\ m < 16 /\ z = 16 * i + m /\ z % 16 = m /\ z \div 16 = i
    BY Digits16
  <2>3. PICK j, n \in Nat : j < 16 /\ n < 16 /\ v = 16 * j + n /\ v % 16 = n /\ v \div 16 = j
    BY <1>2, Digits16
  <2>4. n = l - m - c \/ n = l - m - c + 16
    <3> DEFINE d == h - i - j
               e == d + 16
    <3>1. n = l - m - c + 16 * d \/ n = l - m - c + 16 * e
      BY <1>1, <2>1, <2>2, <2>3, SMT
    <3>i. d \in Int /\ e \in Int
      BY <2>1, <2>2, <2>3, SMT
    <3> HIDE DEF d, e
    <3>2. PICK k \in Int : n = l - m - c + 16 * k
      BY <3>i, <3>1
    <3>3. k \in {0, 1}
      BY <2>1, <2>2, <2>3, <3>2, SMT
    <3> QED BY <2>1, <2>2, <2>3, <3>2, <3>3, SMT
  <2> QED BY <2>1, <2>2, <2>3, <2>4, SMT
<1> QED BY <1>3, <1>4

(* The sign of a byte.                                                     *)
LEMMA SignBit == \A n \in Byte : Bit7(n) = IF n > 127 THEN 1 ELSE 0
BY SMT DEF Byte, Bit7

(* Out of the range of an int8_t.                                          *)
Beyond(x) == x \notin -128..127

(* The test of overflow on signs is the test on the exact sum of bytes.    *)
LEMMA SumOverflows ==
    ASSUME NEW a \in Byte, NEW z \in Byte, NEW c \in {0, 1}, NEW v, v = Byte8(a + z + c)
    PROVE  AddOverflow(a, z, v) <=> Beyond(Signed(a) + Signed(z) + c)
<1>1. v \in Byte
  BY SMT DEF Byte, Byte8
<1>2. v = IF a + z + c > 255 THEN a + z + c - 256 ELSE a + z + c
  BY SMT DEF Byte, Byte8
<1> QED BY <1>1, <1>2, SignBit, SMT DEF Byte, AddOverflow, Signed, Beyond

(* And on the exact difference.                                            *)
LEMMA DifferenceOverflows ==
    ASSUME NEW a \in Byte, NEW z \in Byte, NEW c \in {0, 1}, NEW v, v = Byte8(a - z - c)
    PROVE  SubOverflow(a, z, v) <=> Beyond(Signed(a) - Signed(z) - c)
<1>1. v \in Byte
  BY SMT DEF Byte, Byte8
<1>2. v = IF a < z + c THEN a - z - c + 256 ELSE a - z - c
  BY SMT DEF Byte, Byte8
<1>3. /\ Bit7(a) = IF a > 127 THEN 1 ELSE 0
      /\ Bit7(z) = IF z > 127 THEN 1 ELSE 0
      /\ Bit7(v) = IF v > 127 THEN 1 ELSE 0
  BY <1>1, SignBit
<1> DEFINE x == Signed(a) - Signed(z) - c
<1>4. x \in Int /\ (Beyond(x) <=> x < -128 \/ x > 127)
  BY SMT DEF Byte, Signed, Beyond
<1>5. SubOverflow(a, z, v) <=> x < -128 \/ x > 127
  BY <1>2, <1>3, SMT DEF Byte, SubOverflow, Signed
<1> QED BY <1>4, <1>5

(* S, Z and the copies of bits 5 and 3 describe the byte, and no other     *)
(* flag is among them.                                                     *)
LEMMA ZeroSignIs ==
    ASSUME NEW v \in Byte
    PROVE  /\ ZeroSign(v) \in Flags /\ Describes(ZeroSign(v), v)
           /\ FlagC \notin ZeroSign(v) /\ FlagH \notin ZeroSign(v) /\ FlagN \notin ZeroSign(v)
           /\ FlagPV \notin ZeroSign(v)
<1> DEFINE g == BitsOf[v]
<1>1. g \in SUBSET (0..7) /\ (7 \in g <=> v > 127)
  <2>1. v \div 128 = 1 <=> v > 127
    BY SMT DEF Byte
  <2> QED BY <2>1, BitsAre
<1>2. ZeroSign(v) = (g \cap FS53) \cup When(FlagZ, v = 0)
  BY DEF ZeroSign, Copy
<1>3. ZeroSign(v) \in Flags
  BY <1>1, <1>2, FlagsOf DEF Flags, FlagZ
<1> HIDE DEF g
<1>4. /\ FlagC \notin ZeroSign(v) /\ FlagH \notin ZeroSign(v) /\ FlagN \notin ZeroSign(v)
      /\ FlagPV \notin ZeroSign(v)
      /\ FlagS \in ZeroSign(v) <=> 7 \in g
      /\ FlagZ \in ZeroSign(v) <=> v = 0
      /\ ZeroSign(v) \cap F53 = g \cap F53
  BY <1>2, SMT DEF When, FS53, F53, FlagS, FlagZ, Flag5, FlagH, Flag3, FlagPV, FlagN, FlagC
<1> QED BY <1>1, <1>3, <1>4 DEF Describes, g

(* Flags joined to those of ZeroSign do not spoil them. *)

(* Flags joined to those of ZeroSign do not spoil them.                    *)
LEMMA DescribesMore ==
    ASSUME NEW v, NEW f, NEW g, Describes(f, v), g \cap {FlagS, FlagZ, Flag5, Flag3} = {}
    PROVE  Describes(f \cup g, v)
BY DEF Describes, F53, FlagS, FlagZ, Flag5, Flag3

(* ADD and ADC: the sum, with its flags.                                   *)
LEMMA AddByteIs ==
    ASSUME NEW a \in Byte, NEW z \in Byte, NEW c \in {0, 1}
    PROVE  LET r == AddByte(a, z, c)
           IN  r.f \in Flags /\ IsSum(a, z, c, r.v, r.f) /\ Describes(r.f, r.v)
<1> DEFINE v == Byte8(a + z + c)
           oflow == AddOverflow(a, z, v)
           over == a + z + c > 255
           half == (a % 16) + (z % 16) + c > 15
           g == When(FlagPV, oflow) \cup When(FlagC, over) \cup When(FlagH, half)
           f == ZeroSign(v) \cup g
<1>1. AddByte(a, z, c).v = v /\ AddByte(a, z, c).f = f
  BY DEF AddByte, Result
<1>2. v \in Byte
  BY SMT DEF Byte, Byte8
<1>3. v = (a + z + c) % 256 /\ (over <=> a + z + c # v)
  BY SMT DEF Byte, Byte8
<1>4. half <=> (Bit(4, a) + Bit(4, z) + Bit(4, v)) % 2 = 1
  BY CarryIntoBit4
<1>5. oflow <=> Signed(a) + Signed(z) + c \notin -128..127
  BY SumOverflows DEF Beyond
<1> HIDE DEF v, oflow, over, half
<1>6. /\ FlagC \in g <=> over
      /\ FlagH \in g <=> half
      /\ FlagPV \in g <=> oflow
      /\ FlagN \notin g
      /\ g \cap {FlagS, FlagZ, Flag5, Flag3} = {}
      /\ g \in Flags
  BY SMT DEF When, Flags, FlagS, FlagZ, Flag5, FlagH, Flag3, FlagPV, FlagN, FlagC
<1> HIDE DEF g
<1>7. f \in Flags /\ Describes(f, v)
  BY <1>2, <1>6, ZeroSignIs, DescribesMore DEF Flags
<1>8. IsSum(a, z, c, v, f)
  BY <1>2, <1>3, <1>4, <1>5, <1>6, ZeroSignIs DEF IsSum, Carries
<1> QED BY <1>1, <1>7, <1>8

(* SUB and SBC: the difference, with its flags.                            *)
LEMMA SubByteIs ==
    ASSUME NEW a \in Byte, NEW z \in Byte, NEW c \in {0, 1}
    PROVE  LET r == SubByte(a, z, c)
           IN  /\ r.f \in Flags /\ IsDifference(a, z, c, r.v, r.f) /\ Describes(r.f, r.v)
               /\ r.v = (a - z - c) % 256
<1> DEFINE v == Byte8(a - z - c)
           oflow == SubOverflow(a, z, v)
           over == a < z + c
           half == a % 16 < (z % 16) + c
           g == {FlagN} \cup When(FlagPV, oflow) \cup When(FlagC, over) \cup When(FlagH, half)
           f == ZeroSign(v) \cup g
<1>1. SubByte(a, z, c).v = v /\ SubByte(a, z, c).f = f
  BY DEF SubByte, Result
<1>0. v = Byte8(a - z - c)
  OBVIOUS
<1> HIDE DEF v
<1>2. v \in Byte /\ a = Byte8(v + z + c)
  BY <1>0, ByteBorrowed
<1>3. v = (a - z - c) % 256 /\ a = (v + z + c) % 256
  BY <1>0, <1>2 DEF Byte8
<1>v. over <=> v + z + c # a
  BY <1>0, BorrowOut
<1>4. half <=> (Bit(4, v) + Bit(4, z) + Bit(4, a)) % 2 = 1
  <2>1. half <=> (v % 16) + (z % 16) + c > 15
    BY <1>0, BorrowOut
  <2> HIDE DEF half
  <2> QED BY <1>2, <2>1, CarryIntoBit4
<1>5. oflow <=> Beyond(Signed(a) - Signed(z) - c)
  BY <1>0, DifferenceOverflows
<1> HIDE DEF oflow, over, half
<1>6. /\ FlagC \in g <=> over
      /\ FlagH \in g <=> half
      /\ FlagPV \in g <=> oflow
      /\ FlagN \in g
      /\ g \cap {FlagS, FlagZ, Flag5, Flag3} = {}
      /\ g \in Flags
  BY SMT DEF When, Flags, FlagS, FlagZ, Flag5, FlagH, Flag3, FlagPV, FlagN, FlagC
<1> HIDE DEF g
<1>7. f \in Flags /\ Describes(f, v)
  BY <1>2, <1>6, ZeroSignIs, DescribesMore DEF Flags
<1>8. IsDifference(a, z, c, v, f)
  BY <1>2, <1>3, <1>4, <1>5, <1>6, <1>v, ZeroSignIs DEF IsDifference, Carries, Beyond
<1> QED BY <1>1, <1>3, <1>7, <1>8

(* AND, XOR and OR: the bits, the parity, and H for AND only.              *)
LEMMA LogicIs ==
    ASSUME NEW bits \in Flags
    PROVE  LET v == NumOf(bits)   r == Logic(v)
           IN  /\ r.v = v /\ r.f \in Flags /\ r.f \cup {FlagH} \in Flags
               /\ IsLogic(v, r.f, bits, {}) /\ IsLogic(v, r.f \cup {FlagH}, bits, {FlagH})
<1> DEFINE v == NumOf(bits)
           even == Parity(v)
           g == When(FlagPV, even)
           f == ZeroSign(v) \cup g
<1>1. v \in Byte /\ BitsOf[v] = bits
  BY NumOfByte, BitsOfNumOf DEF Flags
<1>2. Logic(v).v = v /\ Logic(v).f = f
  BY DEF Logic, Result
<1> HIDE DEF v
<1>3. even <=> Even(v)
  BY <1>1, ParityEven
<1> HIDE DEF even
<1>4. /\ FlagPV \in g <=> even
      /\ FlagC \notin g /\ FlagH \notin g /\ FlagN \notin g
      /\ g \cap {FlagS, FlagZ, Flag5, Flag3} = {}
      /\ g \in Flags
      /\ (g \cup {FlagH}) \cap {FlagS, FlagZ, Flag5, Flag3} = {}
  BY SMT DEF When, Flags, FlagS, FlagZ, Flag5, FlagH, Flag3, FlagPV, FlagN, FlagC
<1> HIDE DEF g
<1>5. Describes(f, v) /\ Describes(ZeroSign(v) \cup (g \cup {FlagH}), v)
  BY <1>1, <1>4, ZeroSignIs, DescribesMore
<1>6. ZeroSign(v) \cup (g \cup {FlagH}) = f \cup {FlagH}
  OBVIOUS
<1>7. f \in Flags /\ f \cup {FlagH} \in Flags
  <2>1. FlagH \in 0..7
    BY SMT DEF FlagH
  <2> QED BY <1>1, <1>4, <2>1, ZeroSignIs DEF Flags
<1>8. FlagPV \in f <=> Even(v)
  BY <1>1, <1>3, <1>4, ZeroSignIs
<1>9. FlagC \notin f /\ FlagN \notin f /\ FlagH \notin f
  BY <1>1, <1>4, ZeroSignIs
<1>10. FlagPV # FlagH /\ FlagC # FlagH /\ FlagN # FlagH
  BY SMT DEF FlagPV, FlagH, FlagC, FlagN
<1> HIDE DEF f
<1>11. IsLogic(v, f, bits, {})
  BY <1>1, <1>5, <1>8, <1>9 DEF IsLogic
<1>12. IsLogic(v, f \cup {FlagH}, bits, {FlagH})
  <2>1. FlagPV \in f \cup {FlagH} <=> Even(v)
    BY <1>8, <1>10
  <2>2. (f \cup {FlagH}) \cap {FlagC, FlagN, FlagH} = {FlagH}
    BY <1>9, <1>10
  <2>3. Describes(f \cup {FlagH}, v)
    BY <1>5, <1>6
  <2> QED BY <1>1, <2>1, <2>2, <2>3 DEF IsLogic
<1> QED BY <1>2, <1>7, <1>11, <1>12 DEF v

(* CP: the flags of the difference, but bits 5 and 3 from the operand.     *)
LEMMA ComparedIs ==
    ASSUME NEW a \in Byte, NEW z \in Byte
    PROVE  LET d == (a - z - 0) % 256   f == (SubByte(a, z, 0).f \ F53) \cup Copy(z, F53)
           IN  /\ f \in Flags /\ IsDifference(a, z, 0, d, f)
               /\ Describes((f \ F53) \cup (BitsOf[d] \cap F53), d)
               /\ f \cap F53 = BitsOf[z] \cap F53
<1> DEFINE d == (a - z - 0) % 256
           g == SubByte(a, z, 0).f
           f == (g \ F53) \cup Copy(z, F53)
<1>1. g \in Flags /\ IsDifference(a, z, 0, d, g) /\ Describes(g, d)
  BY SubByteIs
<1>2. BitsOf[z] \in Flags
  BY FlagsOf
<1> HIDE DEF g, d
<1>3. f \in Flags /\ f \cap F53 = BitsOf[z] \cap F53 /\ f \ F53 = g \ F53
  BY <1>1, <1>2 DEF Flags, Copy
<1>4. \A i \in {FlagS, FlagZ, FlagPV, FlagN, FlagH, FlagC} : i \notin F53
  BY SMT DEF F53, FlagS, FlagZ, Flag5, FlagH, Flag3, FlagPV, FlagN, FlagC
<1>5. \A i \in {FlagS, FlagZ, FlagPV, FlagN, FlagH, FlagC} : i \in f <=> i \in g
  BY <1>3, <1>4
<1> HIDE DEF f
<1>6. IsDifference(a, z, 0, d, f)
  BY <1>1, <1>5 DEF IsDifference, Carries
<1>7. Describes((f \ F53) \cup (BitsOf[d] \cap F53), d)
  BY <1>1, <1>4, <1>5 DEF Describes
<1> QED BY <1>3, <1>6, <1>7 DEF f, g, d

(* The flags and the accumulator after an instruction that sets both. *)

(* The flags and the accumulator after an instruction that sets both.      *)
LEMMA AfterWithResult ==
    ASSUME NEW r, RegisterFile(r), NEW res, res.v \in Byte, res.f \in Flags,
           regs' = WithResult(r, RegA, res)
    PROVE  AfterA = res.v /\ AfterF = res.f
<1> DEFINE s == Put(r, RegA, res.v)
           w == WordOf(res.v, Lo(r.AF))
<1>1. RegA = <<"AF", "hi">>
  BY SMT DEF RegA, Reg8NoMod
<1>2. RegisterFile(s)
  BY <1>1, PutFile DEF Pairs
<1>3. s.AF = w
  <2>1. s = [r EXCEPT !["AF"] = w]
    BY <1>1 DEF Put
  <2>2. "AF" \in DOMAIN r
    BY SMT DEF RegisterFile, Names, Pairs
  <2> HIDE DEF w
  <2> QED BY <2>1, <2>2
<1>4. Hi(w) = res.v
  BY Joined, Values DEF Pairs
<1>5. regs' = WithFlags(s, res.f)
  BY DEF WithResult
<1> HIDE DEF s, w
<1> QED BY <1>2, <1>3, <1>4, <1>5, AfterWithFlags DEF AfterA, AfterF

(* The eight operations do what they are specified to.                     *)
LEMMA AluFlags ==
    ASSUME IInv, NEW n \in Byte
    PROVE  LET r == Alu(Y, A, n, F)
           IN  r.f \in Flags /\ AluIs(n, r.v, r.f)
<1> DEFINE c == Carry(F)
<1>0. A \in Byte /\ Y \in 0..7 /\ c \in {0, 1} /\ Bit(0, Lo(regs.AF)) = c
  BY Facts, CarryIs, FlagsBefore
<1> HIDE DEF c
<1>1. CASE Y = 0
  <2>1. Alu(Y, A, n, F) = AddByte(A, n, 0)
    BY <1>1 DEF Alu
  <2> QED BY <1>0, <1>1, <2>1, AddByteIs DEF AluIs
<1>2. CASE Y = 1
  <2>1. Alu(Y, A, n, F) = AddByte(A, n, c)
    BY <1>2 DEF Alu, c
  <2> QED BY <1>0, <1>2, <2>1, AddByteIs DEF AluIs
<1>3. CASE Y = 2
  <2>1. Alu(Y, A, n, F) = SubByte(A, n, 0)
    BY <1>3 DEF Alu
  <2> QED BY <1>0, <1>3, <2>1, SubByteIs DEF AluIs
<1>4. CASE Y = 3
  <2>1. Alu(Y, A, n, F) = SubByte(A, n, c)
    BY <1>4 DEF Alu, c
  <2> QED BY <1>0, <1>4, <2>1, SubByteIs DEF AluIs
<1>b. BitsOf[A] \in Flags /\ BitsOf[n] \in Flags
  BY <1>0, FlagsOf
<1>5. CASE Y = 4
  <2> DEFINE bits == BitsOf[A] \cap BitsOf[n]
             l == Logic(NumOf(bits))
  <2>1. bits \in Flags
    BY <1>b DEF Flags
  <2>2. Alu(Y, A, n, F) = [l EXCEPT !.f = @ \cup {FlagH}]
    BY <1>5 DEF Alu, And
  <2>3. Alu(Y, A, n, F).v = l.v /\ Alu(Y, A, n, F).f = l.f \cup {FlagH}
    BY <2>2 DEF Logic, Result
  <2> HIDE DEF bits
  <2>4. l.v = NumOf(bits) /\ l.f \cup {FlagH} \in Flags /\ IsLogic(NumOf(bits), l.f \cup {FlagH}, bits, {FlagH})
    BY <2>1, LogicIs
  <2> HIDE DEF l
  <2>5. AluIs(n, NumOf(bits), l.f \cup {FlagH})
    BY <1>5, <2>4 DEF AluIs, bits
  <2> QED BY <2>3, <2>4, <2>5
<1>6. CASE Y = 5
  <2> DEFINE bits == (BitsOf[A] \cup BitsOf[n]) \ (BitsOf[A] \cap BitsOf[n])
             l == Logic(NumOf(bits))
  <2>1. bits \in Flags /\ bits = {i \in 0..7 : i \in BitsOf[A] <=> i \notin BitsOf[n]}
    BY <1>b DEF Flags
  <2>2. Alu(Y, A, n, F) = l
    BY <1>6 DEF Alu, Xor
  <2> HIDE DEF bits
  <2>4. l.v = NumOf(bits) /\ l.f \in Flags /\ IsLogic(NumOf(bits), l.f, bits, {})
    BY <2>1, LogicIs
  <2> HIDE DEF l
  <2>5. AluIs(n, NumOf(bits), l.f)
    BY <1>6, <2>1, <2>4 DEF AluIs
  <2> QED BY <2>2, <2>4, <2>5
<1>7. CASE Y = 6
  <2> DEFINE bits == BitsOf[A] \cup BitsOf[n]
             l == Logic(NumOf(bits))
  <2>1. bits \in Flags
    BY <1>b DEF Flags
  <2>2. Alu(Y, A, n, F) = l
    BY <1>7 DEF Alu, Or
  <2> HIDE DEF bits
  <2>4. l.v = NumOf(bits) /\ l.f \in Flags /\ IsLogic(NumOf(bits), l.f, bits, {})
    BY <2>1, LogicIs
  <2> HIDE DEF l
  <2>5. AluIs(n, NumOf(bits), l.f)
    BY <1>7, <2>4 DEF AluIs, bits
  <2> QED BY <2>2, <2>4, <2>5
<1>8. CASE Y = 7
  <2> DEFINE f == (SubByte(A, n, 0).f \ F53) \cup Copy(n, F53)
             d == (A - n - 0) % 256
  <2>1. Alu(Y, A, n, F) = Result(A, f)
    BY <1>8 DEF Alu
  <2>2. /\ f \in Flags /\ IsDifference(A, n, 0, d, f)
        /\ Describes((f \ F53) \cup (BitsOf[d] \cap F53), d)
        /\ f \cap F53 = BitsOf[n] \cap F53
    <3>1. ASSUME NEW q \in Byte
          PROVE  LET g == (SubByte(q, n, 0).f \ F53) \cup Copy(n, F53)   e == (q - n - 0) % 256
                 IN  /\ g \in Flags /\ IsDifference(q, n, 0, e, g)
                     /\ Describes((g \ F53) \cup (BitsOf[e] \cap F53), e)
                     /\ g \cap F53 = BitsOf[n] \cap F53
      BY ComparedIs
    <3>2. A \in Byte
      BY <1>0
    <3> QED BY <3>1, <3>2
  <2>3. d = (A - n) % 256
    BY <1>0, SMT DEF Byte
  <2> HIDE DEF f, d
  <2>4. AluIs(n, A, f)
    BY <1>8, <2>2, <2>3 DEF AluIs
  <2> QED BY <2>1, <2>2, <2>4 DEF Result
<1>9. Y = 0 \/ Y = 1 \/ Y = 2 \/ Y = 3 \/ Y = 4 \/ Y = 5 \/ Y = 6 \/ Y = 7
  BY <1>0, SMT
<1> QED BY <1>1, <1>2, <1>3, <1>4, <1>5, <1>6, <1>7, <1>8, <1>9

(* INC and DEC: one more or less modulo 256, PV at the edges of a signed   *)
(* byte, C kept.                                                           *)
LEMMA CountedIs ==
    ASSUME NEW n \in Byte, NEW f \in Flags
    PROVE  /\ LET r == IncByte(n, f)
              IN  /\ r.f \in Flags /\ r.v \in Byte /\ r.v = (n + 1) % 256 /\ Describes(r.f, r.v)
                  /\ FlagPV \in r.f <=> n = 127
                  /\ FlagH \in r.f <=> n \div 16 # r.v \div 16
                  /\ FlagC \in r.f <=> FlagC \in f
           /\ LET r == DecByte(n, f)
              IN  /\ r.f \in Flags /\ r.v \in Byte /\ n = (r.v + 1) % 256 /\ Describes(r.f, r.v)
                  /\ FlagPV \in r.f <=> n = 128
                  /\ FlagH \in r.f <=> n \div 16 # r.v \div 16
                  /\ FlagC \in r.f <=> FlagC \in f
<1> DEFINE G(v, down, half, over) ==
             (f \cap {FlagC}) \cup ZeroSign(v) \cup down \cup When(FlagH, half) \cup When(FlagPV, over)
<1>1. ASSUME NEW v \in Byte, NEW down \in SUBSET {FlagN}, NEW half, NEW over
      PROVE  /\ G(v, down, half, over) \in Flags /\ Describes(G(v, down, half, over), v)
             /\ FlagPV \in G(v, down, half, over) <=> over
             /\ FlagH \in G(v, down, half, over) <=> half
             /\ FlagC \in G(v, down, half, over) <=> FlagC \in f
  <2> DEFINE g == (f \cap {FlagC}) \cup down \cup When(FlagH, half) \cup When(FlagPV, over)
  <2>1. G(v, down, half, over) = ZeroSign(v) \cup g
    OBVIOUS
  <2>2. /\ FlagPV \in g <=> over
        /\ FlagH \in g <=> half
        /\ FlagC \in g <=> FlagC \in f
        /\ g \cap {FlagS, FlagZ, Flag5, Flag3} = {}
        /\ g \in Flags
    BY <1>1, SMT DEF When, Flags, FlagS, FlagZ, Flag5, FlagH, Flag3, FlagPV, FlagN, FlagC
  <2> HIDE DEF g
  <2>3. /\ ZeroSign(v) \in Flags /\ Describes(ZeroSign(v), v)
        /\ FlagC \notin ZeroSign(v) /\ FlagH \notin ZeroSign(v) /\ FlagPV \notin ZeroSign(v)
    BY ZeroSignIs
  <2> DEFINE t == ZeroSign(v) \cup g
  <2>4. t \in Flags /\ Describes(t, v)
    BY <2>2, <2>3, DescribesMore DEF Flags
  <2>5. (FlagPV \in t <=> over) /\ (FlagH \in t <=> half) /\ (FlagC \in t <=> FlagC \in f)
    BY <2>2, <2>3
  <2>6. G(v, down, half, over) = t
    BY <2>1
  <2> HIDE DEF t, G
  <2> QED BY <2>4, <2>5, <2>6
<1>4. /\ Byte8(n + 1) \in Byte /\ Byte8(n + 1) = (n + 1) % 256
      /\ Byte8(n + 1) % 16 = 0 <=> n \div 16 # Byte8(n + 1) \div 16
      /\ Byte8(n + 1) = 128 <=> n = 127
  BY SMT DEF Byte, Byte8
<1>5. /\ Byte8(n - 1) \in Byte /\ n = (Byte8(n - 1) + 1) % 256
      /\ Byte8(n - 1) % 16 = 15 <=> n \div 16 # Byte8(n - 1) \div 16
      /\ Byte8(n - 1) = 127 <=> n = 128
  BY SMT DEF Byte, Byte8
<1> DEFINE v == Byte8(n + 1)   w == Byte8(n - 1)
           p == v % 16 = 0     q == w % 16 = 15
           o == v = 128        u == w = 127
           i == IncByte(n, f)  d == DecByte(n, f)
<1>6. i.v = v /\ i.f = G(v, {}, p, o)
  <2>1. i.f = (f \cap {FlagC}) \cup ZeroSign(v) \cup When(FlagH, p) \cup When(FlagPV, o)
    BY DEF IncByte, Result
  <2> QED BY <2>1 DEF IncByte, Result
<1>7. d.v = w /\ d.f = G(w, {FlagN}, q, u)
  <2>1. d.f = (f \cap {FlagC}) \cup ZeroSign(w) \cup When(FlagH, q) \cup {FlagN} \cup When(FlagPV, u)
    BY DEF DecByte, Result
  <2> QED BY <2>1 DEF DecByte, Result
<1>8. v \in Byte /\ v = (n + 1) % 256 /\ (p <=> n \div 16 # v \div 16) /\ (o <=> n = 127)
  BY <1>4
<1>9. w \in Byte /\ n = (w + 1) % 256 /\ (q <=> n \div 16 # w \div 16) /\ (u <=> n = 128)
  BY <1>5
<1> HIDE DEF v, w, p, q, o, u, i, d, G
<1>e. {} \in SUBSET {FlagN} /\ {FlagN} \in SUBSET {FlagN}
  OBVIOUS
<1>10. /\ i.f \in Flags /\ Describes(i.f, v) /\ (FlagPV \in i.f <=> o)
       /\ (FlagH \in i.f <=> p) /\ (FlagC \in i.f <=> FlagC \in f)
  BY <1>1, <1>6, <1>8, <1>e
<1>11. /\ d.f \in Flags /\ Describes(d.f, w) /\ (FlagPV \in d.f <=> u)
       /\ (FlagH \in d.f <=> q) /\ (FlagC \in d.f <=> FlagC \in f)
  BY <1>1, <1>7, <1>9, <1>e
<1>12. /\ i.f \in Flags /\ i.v \in Byte /\ i.v = (n + 1) % 256 /\ Describes(i.f, i.v)
       /\ (FlagPV \in i.f <=> n = 127) /\ (FlagH \in i.f <=> n \div 16 # i.v \div 16)
       /\ (FlagC \in i.f <=> FlagC \in f)
  BY <1>6, <1>8, <1>10
<1>13. /\ d.f \in Flags /\ d.v \in Byte /\ n = (d.v + 1) % 256 /\ Describes(d.f, d.v)
       /\ (FlagPV \in d.f <=> n = 128) /\ (FlagH \in d.f <=> n \div 16 # d.v \div 16)
       /\ (FlagC \in d.f <=> FlagC \in f)
  BY <1>7, <1>9, <1>11
<1> QED BY <1>12, <1>13 DEF i, d

(* The eight operations in a step.                                         *)
LEMMA AluWithIs ==
    ASSUME IInv, NEW r, RegisterFile(r), NEW n \in Byte, AluWith(r, n)
    PROVE  AluIs(n, AfterA, AfterF)
<1> DEFINE res == Alu(Y, A, n, F)
<1>1. res.v \in Byte /\ res.f \in Flags /\ AluIs(n, res.v, res.f)
  BY Facts, AluByte, AluFlags
<1>2. regs' = WithResult(r, RegA, res)
  BY DEF AluWith, Flagged, Retire
<1> HIDE DEF res
<1> QED BY <1>1, <1>2, AfterWithResult

(* INC A and DEC A in a step.                                              *)
LEMMA CountA ==
    ASSUME IInv, IncDecByte, Y = 7
    PROVE  /\ IF Z = 4 THEN AfterA = (A + 1) % 256 /\ (FlagPV \in AfterF <=> A = 127)
                       ELSE A = (AfterA + 1) % 256 /\ (FlagPV \in AfterF <=> A = 128)
           /\ Describes(AfterF, AfterA)
           /\ FlagH \in AfterF <=> A \div 16 # AfterA \div 16
           /\ FlagC \in AfterF <=> FlagC \in F
<1> DEFINE res == IF Z = 4 THEN IncByte(A, F) ELSE DecByte(A, F)
<1>1. Reg8(7) = RegA /\ Get(RegA) = A
  BY SMT DEF Reg8, Reg8NoMod, RegA, Get, A
<1>2. Y # 6
  BY SMT
<1>3. regs' = WithResult(regs, RegA, res)
  BY <1>1, <1>2 DEF IncDecByte, Flagged, Retire
<1>4. A \in Byte /\ F \in Flags /\ RegisterFile(regs)
  BY Facts, FlagsBefore
<1>5. res.v \in Byte /\ res.f \in Flags
  BY <1>4, CountedIs
<1>6. AfterA = res.v /\ AfterF = res.f
  BY <1>3, <1>4, <1>5, AfterWithResult
<1>7. CASE Z = 4
  BY <1>4, <1>6, <1>7, CountedIs
<1>8. CASE Z # 4
  BY <1>4, <1>6, <1>8, CountedIs
<1> QED BY <1>7, <1>8

(* The eight operations on A, with every kind of operand, INC A, DEC A and *)
(* NEG give the arithmetic result modulo 256 and the flags that describe   *)
(* it.                                                                     *)
THEOREM ExecByteArithmetic == Spec => ByteArithmetic
<1>1. ASSUME IInv, Next PROVE ByteStep
  <2>0. RegisterFile(regs) /\ RegisterFile(AtHlPtr) /\ RegisterFile(Ahead(regs, 1)) /\ Imm8 \in Byte
        /\ Peek(HlPtr) \in Byte /\ A \in Byte
    BY <1>1, Facts, HlPtrFile, AheadFile
  <2>1. ASSUME Executing("NONE"), X = 2 \/ (X = 3 /\ Z = 6) PROVE AluIs(AluOperand, AfterA, AfterF)
    <3>1. CASE X = 2
      <4>1. AluReg \/ AluMem
        BY <1>1, <2>1, <3>1, MainActs DEF Quadrant12, Halt, PrefixedHalt, LdReg, LdRegMem, LdMemReg, Main
      <4>2. CASE AluReg
        <5>1. Get(Reg8(Z)) \in Byte /\ AluWith(regs, Get(Reg8(Z))) /\ Z # 6
          BY <1>1, <2>0, <4>2, Facts, Gotten DEF AluReg
        <5> QED BY <1>1, <2>0, <3>1, <5>1, AluWithIs DEF AluOperand
      <4>3. CASE AluMem
        BY <1>1, <2>0, <3>1, <4>3, AluWithIs DEF AluOperand, AluMem
      <4> QED BY <4>1, <4>2, <4>3
    <3>2. CASE X = 3 /\ Z = 6
      <4>1. AluImm
        BY <1>1, <2>1, <3>2, MainActs DEF Quadrant3, RetCc, Ret, Pop, Push, Exx, JpHl, LdSpHl, Jp, OutA, InA,
           ExSpHl, ExDeHl, Di, Ei, Call, Rst
      <4> QED BY <1>1, <2>0, <3>2, <4>1, AluWithIs DEF AluOperand, AluImm
    <3> QED BY <2>1, <3>1, <3>2
  <2>2. ASSUME Executing("ED"), X = 1, Z = 4 PROVE IsDifference(0, A, 0, AfterA, AfterF) /\ Describes(AfterF, AfterA)
    <3>1. (SubsetED \/ LdWordAt) /\ subset = "ED"
      BY <1>1, <2>2, PrefixedActs DEF Executing
    <3>2. Neg
      BY <2>2, <3>1 DEF SubsetED, InC, OutC, AdcSbcHl, Retn, Im, LdIr, RotateDigits, EdNop, LdWordAt, Main,
                        BlockLd, BlockCp, BlockIn, BlockOut, Block, Ed
    <3> DEFINE res == SubByte(0, A, 0)
    <3>3. 0 \in Byte
      BY SMT DEF Byte
    <3>4. res.v \in Byte /\ res.f \in Flags /\ IsDifference(0, A, 0, res.v, res.f) /\ Describes(res.f, res.v)
      BY <2>0, <3>3, SumByte, SubByteIs
    <3>5. regs' = WithResult(regs, RegA, res)
      BY <3>2 DEF Neg, Flagged, Retire
    <3> HIDE DEF res
    <3> QED BY <2>0, <3>4, <3>5, AfterWithResult
  <2>3. ASSUME Executing("NONE"), X = 0, Z \in {4, 5}, Y = 7 PROVE IncDecByte
    <3>1. Quadrant0 /\ subset = "NONE"
      BY <1>1, <2>3, MainActs DEF Executing
    <3>2. Z # 0 /\ Z # 1 /\ Z # 2 /\ Z # 3 /\ Z # 6 /\ Z # 7
      BY <2>3, SMT
    <3> QED BY <2>3, <3>1, <3>2 DEF Quadrant0, Nop, ExAf, Djnz, Jr, LdWordImm, AddHl, LdA, LdWordAt,
                              IncDecWord, LdByteImm, Accumulator
  <2> QED BY <1>1, <2>1, <2>2, <2>3, CountA DEF ByteStep
<1>2. IInv /\ [Next]_vars => [ByteStep]_vars
  BY <1>1
<1> QED BY <1>2, ExecInductive, PTL DEF Spec, ByteArithmetic
-----------------------------------------------------------------------------
(* Shifts.                                                                 *)

(* Each shift moves every bit one place, fills the end left open as its    *)
(* kind asks and drops the bit at the other end.                           *)
LEMMA ShiftedIs ==
    ASSUME NEW y \in 0..7, NEW n \in Byte, NEW c \in {0, 1}
    PROVE  Shifts(y, n, c, Shifted(y, n, c), IF y % 2 = 0 THEN n \div 128 ELSE n % 2)
<1> DEFINE v == Shifted(y, n, c)
           d == IF y % 2 = 0 THEN n \div 128 ELSE n % 2
<1>1. CASE y = 0
  <2>1. d = n \div 128 /\ v = Byte8(2 * n) + (n \div 128)
    BY <1>1, SMT DEF Shifted
  <2>2. (v - 2 * n) % 255 = 0 /\ (v = 0 <=> n = 0)
    BY <2>1, SMT DEF Byte, Byte8
  <2> QED BY <1>1, <2>1, <2>2 DEF Shifts
<1>2. CASE y = 1
  <2>1. d = n % 2 /\ v = (n \div 2) + 128 * (n % 2)
    BY <1>2, SMT DEF Shifted
  <2>2. (2 * v - n) % 255 = 0 /\ (v = 0 <=> n = 0)
    BY <2>1, SMT DEF Byte
  <2> QED BY <1>2, <2>1, <2>2, SMT DEF Shifts
<1>3. CASE y = 2
  <2>1. d = n \div 128 /\ v = Byte8(2 * n) + c
    BY <1>3, SMT DEF Shifted
  <2>2. 256 * d + v = 2 * n + c
    BY <2>1, SMT DEF Byte, Byte8
  <2> QED BY <1>3, <2>1, <2>2, SMT DEF Shifts
<1>4. CASE y = 3
  <2>1. d = n % 2 /\ v = (n \div 2) + 128 * c
    BY <1>4, SMT DEF Shifted
  <2>2. 2 * v + d = 256 * c + n
    BY <2>1, SMT DEF Byte
  <2> QED BY <1>4, <2>1, <2>2, SMT DEF Shifts
<1>5. CASE y = 4
  <2>1. d = n \div 128 /\ v = Byte8(2 * n)
    BY <1>5, SMT DEF Shifted
  <2>2. 256 * d + v = 2 * n
    BY <2>1, SMT DEF Byte, Byte8
  <2> QED BY <1>5, <2>1, <2>2, SMT DEF Shifts
<1>6. CASE y = 5
  <2>1. d = n % 2 /\ v = (n \div 2) + 128 * (n \div 128)
    BY <1>6, SMT DEF Shifted
  <2>2. 2 * Signed(v) + d = Signed(n)
    BY <2>1, SMT DEF Byte, Signed
  <2> QED BY <1>6, <2>1, <2>2, SMT DEF Shifts
<1>7. CASE y = 6
  <2>1. d = n \div 128 /\ v = Byte8(2 * n) + 1
    BY <1>7, SMT DEF Shifted
  <2>2. 256 * d + v = 2 * n + 1
    BY <2>1, SMT DEF Byte, Byte8
  <2> QED BY <1>7, <2>1, <2>2, SMT DEF Shifts
<1>8. CASE y = 7
  <2>1. d = n % 2 /\ v = n \div 2
    BY <1>8, SMT DEF Shifted
  <2>2. 2 * v + d = n
    BY <2>1, SMT DEF Byte
  <2> QED BY <1>8, <2>1, <2>2, SMT DEF Shifts
<1>9. y = 0 \/ y = 1 \/ y = 2 \/ y = 3 \/ y = 4 \/ y = 5 \/ y = 6 \/ y = 7
  BY SMT
<1> QED BY <1>1, <1>2, <1>3, <1>4, <1>5, <1>6, <1>7, <1>8, <1>9

(* The bit that leaves the operand of shift y. *)

(* The bit that leaves the operand of shift y.                             *)
Out(y, n) == IF y % 2 = 0 THEN n \div 128 ELSE n % 2

(* The flags of a shift: its parity, and the bit that left in C.           *)
LEMMA ShiftRotIs ==
    ASSUME NEW y \in 0..7, NEW n \in Byte, NEW f
    PROVE  LET r == ShiftRot(y, n, f)
           IN  /\ r.v \in Byte /\ r.f \in Flags /\ r.v = Shifted(y, n, Carry(f))
               /\ Describes(r.f, r.v)
               /\ FlagPV \in r.f <=> Even(r.v)
               /\ FlagC \in r.f <=> Out(y, n) = 1
<1> DEFINE v == Shifted(y, n, Carry(f))
           out == Out(y, n) = 1
           even == Parity(v)
           g == When(FlagPV, even) \cup When(FlagC, out)
<1>1. ShiftRot(y, n, f).v = v /\ ShiftRot(y, n, f).f = ZeroSign(v) \cup g
  BY DEF ShiftRot, Result, Out
<1>2. v \in Byte
  BY ShiftedByte, CarryIs
<1> HIDE DEF v
<1>3. even <=> Even(v)
  BY <1>2, ParityEven
<1> HIDE DEF even, out
<1>4. /\ FlagPV \in g <=> even
      /\ FlagC \in g <=> out
      /\ g \cap {FlagS, FlagZ, Flag5, Flag3} = {}
      /\ g \in Flags
  BY SMT DEF When, Flags, FlagS, FlagZ, Flag5, FlagH, Flag3, FlagPV, FlagN, FlagC
<1> HIDE DEF g
<1>5. /\ ZeroSign(v) \in Flags /\ Describes(ZeroSign(v), v)
      /\ FlagC \notin ZeroSign(v) /\ FlagPV \notin ZeroSign(v)
  BY <1>2, ZeroSignIs
<1>6. ZeroSign(v) \cup g \in Flags /\ Describes(ZeroSign(v) \cup g, v)
  BY <1>4, <1>5, DescribesMore DEF Flags
<1> QED BY <1>1, <1>2, <1>3, <1>4, <1>5, <1>6 DEF v, out

(* The rotations of the accumulator shift alike.                           *)
LEMMA ShiftAIs ==
    ASSUME NEW y \in 0..3, NEW a \in Byte, NEW f \in Flags
    PROVE  LET r == ShiftA(y, a, f)
           IN  /\ r.v \in Byte /\ r.f \in Flags /\ r.v = Shifted(y, a, Carry(f))
               /\ FlagC \in r.f <=> Out(y, a) = 1
<1> DEFINE out == Out(y, a)
           fill == IF y < 2 THEN out ELSE Carry(f)
           v == IF y % 2 = 1 THEN (a \div 2) + 128 * fill ELSE Byte8(2 * a) + fill
           o == out = 1
           g == (f \ ({FlagC, FlagN, FlagH} \cup F53)) \cup When(FlagC, o) \cup Copy(v, F53)
<1>0. out = IF y % 2 = 1 THEN a % 2 ELSE a \div 128
  BY SMT DEF Out
<1>1. ShiftA(y, a, f).v = v /\ ShiftA(y, a, f).f = g
  BY <1>0 DEF ShiftA, Result
<1>2. v \in Byte
  BY <1>1, ShiftAByte
<1>3. v = Shifted(y, a, Carry(f))
  <2>1. y = 0 \/ y = 1 \/ y = 2 \/ y = 3
    BY SMT
  <2>2. CASE y = 0
    BY <1>0, <2>2, SMT DEF Shifted
  <2>3. CASE y = 1
    BY <1>0, <2>3, SMT DEF Shifted
  <2>4. CASE y = 2
    BY <1>0, <2>4, SMT DEF Shifted
  <2>5. CASE y = 3
    BY <1>0, <2>5, SMT DEF Shifted
  <2> QED BY <2>1, <2>2, <2>3, <2>4, <2>5
<1> HIDE DEF v, o
<1>4. BitsOf[v] \in Flags
  BY <1>2, FlagsOf
<1>5. g \in Flags /\ (FlagC \in g <=> o)
  <2>1. FlagC \notin F53 /\ FlagC \in 0..7
    BY SMT DEF FlagC, F53, Flag5, Flag3
  <2> QED BY <1>4, <2>1 DEF Flags, When, Copy
<1> QED BY <1>1, <1>2, <1>3, <1>5 DEF o

(* A word needs no cast.                                                   *)
LEMMA WordKept == \A w \in Word : Word16(w) = w
BY SMT DEF Word, Word16

(* What is read back of a byte that was put. *)

(* What is read back of a byte that was put.                               *)
LEMMA PutGet ==
    ASSUME NEW r, RegisterFile(r), NEW n, n[1] \in Pairs, n[2] \in {"hi", "lo"}, NEW v \in Byte
    PROVE  (IF n[2] = "hi" THEN Hi(Put(r, n, v)[n[1]]) ELSE Lo(Put(r, n, v)[n[1]])) = v
<1> DEFINE w == IF n[2] = "hi" THEN WordOf(v, Lo(r[n[1]])) ELSE WordOf(Hi(r[n[1]]), v)
<1>1. Hi(r[n[1]]) \in Byte /\ Lo(r[n[1]]) \in Byte
  BY Values
<1>2. (IF n[2] = "hi" THEN Hi(w) ELSE Lo(w)) = v
  BY <1>1, Joined
<1>3. Put(r, n, v) = [r EXCEPT ![n[1]] = w] /\ n[1] \in DOMAIN r
  BY SMT DEF Put, RegisterFile, Names
<1> HIDE DEF w
<1>4. Put(r, n, v)[n[1]] = w
  BY <1>3
<1> QED BY <1>2, <1>4

(* The carry stored is bit 0 of F.                                         *)
LEMMA CarryAfter ==
    ASSUME NEW f \in Flags, AfterF = f, NEW y \in 0..7, NEW n \in Byte, FlagC \in f <=> Out(y, n) = 1
    PROVE  Bit(0, Lo(regs'.AF)) = Out(y, n)
<1>1. Out(y, n) \in {0, 1}
  BY SMT DEF Out, Byte
<1> QED BY <1>1, SMT DEF AfterF, Bit, FlagC

(* A CB shift in a step, of a register or of memory.                       *)
LEMMA ShiftRotateIs ==
    ASSUME IInv, ShiftRotate, InMemory => CbPtr \in DOMAIN mem
    PROVE  LET v == IF InMemory THEN mem'[CbPtr]
                                ELSE LET n == Reg8NoMod(Z)
                                     IN  IF n[2] = "hi" THEN Hi(regs'[n[1]]) ELSE Lo(regs'[n[1]])
           IN  /\ Shifts(Y, CbOperand, Bit(0, Lo(regs.AF)), v, Bit(0, Lo(regs'.AF)))
               /\ Describes(AfterF, v)
               /\ FlagPV \in AfterF <=> Even(v)
<1> DEFINE n == Reg8NoMod(Z)
           res == ShiftRot(Y, CbOperand, F)
           v == IF InMemory THEN mem'[CbPtr] ELSE IF n[2] = "hi" THEN Hi(regs'[n[1]]) ELSE Lo(regs'[n[1]])
<1>0. CbOperand \in Byte /\ Y \in 0..7 /\ Z \in 0..7 /\ RegisterFile(regs)
  BY Facts, CbFile, NumOfByte
<1>1. /\ res.v \in Byte /\ res.f \in Flags /\ res.v = Shifted(Y, CbOperand, Carry(F))
      /\ Describes(res.f, res.v)
      /\ FlagPV \in res.f <=> Even(res.v)
      /\ FlagC \in res.f <=> Out(Y, CbOperand) = 1
  BY <1>0, ShiftRotIs
<1>2. regs' = WithFlags(CbRegs(res.v), res.f) /\ mem' = CbMem(res.v)
  BY DEF ShiftRotate, Flagged, Retire
<1> HIDE DEF res
<1>3. RegisterFile(CbRegs(res.v))
  BY <1>1, CbFile
<1>4. AfterF = res.f
  BY <1>1, <1>2, <1>3, AfterWithFlags DEF AfterF
<1>5. v = res.v
  <2>1. CASE InMemory
    <3>1. CbPtr \in Word
      BY <1>0, SMT DEF CbPtr, RegisterFile, Pairs
    <3>2. mem' = [mem EXCEPT ![CbPtr] = res.v]
      BY <1>2, <2>1, <3>1, WordKept DEF CbMem, Poke, PokeIn
    <3> QED BY <2>1, <3>2
  <2>2. CASE ~InMemory
    <3>1. Z # 6
      BY <2>2 DEF InMemory
    <3>2. n[1] \in Pairs /\ n[2] \in {"hi", "lo"} /\ (n[1] = "AF" => n[2] = "hi")
      <4>1. Z = 0 \/ Z = 1 \/ Z = 2 \/ Z = 3 \/ Z = 4 \/ Z = 5 \/ Z = 7
        BY <1>0, <3>1, SMT
      <4> QED BY <4>1, SMT DEF Reg8NoMod, Pairs
    <3> HIDE DEF n
    <3> DEFINE s == Put(regs, n, res.v)
    <3>3. CbRegs(res.v) = s
      BY <3>1 DEF CbRegs, n
    <3>4. (IF n[2] = "hi" THEN Hi(s[n[1]]) ELSE Lo(s[n[1]])) = res.v
      BY <1>0, <1>1, <3>2, PutGet
    <3> HIDE DEF s
    <3>5. Hi(regs'.AF) = Hi(s.AF) /\ \A k \in Pairs \ {"AF"} : regs'[k] = s[k]
      BY <1>1, <1>2, <1>3, <3>3, AfterWithFlags
    <3> QED BY <2>2, <3>2, <3>4, <3>5
  <2> QED BY <2>1, <2>2
<1>6. Bit(0, Lo(regs'.AF)) = Out(Y, CbOperand) /\ Bit(0, Lo(regs.AF)) = Carry(F)
  BY <1>0, <1>1, <1>4, CarryAfter, FlagsBefore
<1>7. Shifts(Y, CbOperand, Carry(F), res.v, Out(Y, CbOperand))
  BY <1>0, <1>1, CarryIs, ShiftedIs DEF Out
<1> HIDE DEF v
<1>8. /\ Shifts(Y, CbOperand, Bit(0, Lo(regs.AF)), v, Bit(0, Lo(regs'.AF)))
      /\ Describes(AfterF, v)
      /\ FlagPV \in AfterF <=> Even(v)
  BY <1>1, <1>4, <1>5, <1>6, <1>7
<1> QED BY <1>8 DEF v, n

(* RLCA, RRCA, RLA and RRA in a step.                                      *)
LEMMA ShiftAccumulatorIs ==
    ASSUME IInv, Accumulator, Y < 4
    PROVE  Shifts(Y, A, Bit(0, Lo(regs.AF)), AfterA, Bit(0, Lo(regs'.AF)))
<1> DEFINE res == ShiftA(Y, A, F)
<1>0. A \in Byte /\ F \in Flags /\ Y \in 0..3 /\ Y \in 0..7 /\ RegisterFile(regs)
  <2>1. Y \in 0..7
    BY Facts
  <2>2. Y \in 0..3
    BY <2>1, SMT
  <2> QED BY <2>1, <2>2, Facts, FlagsBefore
<1>1. /\ res.v \in Byte /\ res.f \in Flags /\ res.v = Shifted(Y, A, Carry(F))
      /\ FlagC \in res.f <=> Out(Y, A) = 1
  BY <1>0, ShiftAIs
<1>2. regs' = WithResult(regs, RegA, res)
  <2>1. Y # 4 /\ Y # 5 /\ Y # 6 /\ Y # 7
    BY SMT
  <2> QED BY <2>1 DEF Accumulator, Flagged, Retire
<1> HIDE DEF res
<1>3. AfterA = res.v /\ AfterF = res.f
  BY <1>0, <1>1, <1>2, AfterWithResult
<1>4. Bit(0, Lo(regs'.AF)) = Out(Y, A) /\ Bit(0, Lo(regs.AF)) = Carry(F)
  BY <1>0, <1>1, <1>3, CarryAfter, FlagsBefore
<1>5. Shifts(Y, A, Carry(F), res.v, Out(Y, A))
  BY <1>0, <1>1, CarryIs, ShiftedIs DEF Out
<1> QED BY <1>3, <1>4, <1>5

(* Every rotate and shift, of A, of a register or of a byte in memory,     *)
(* moves each bit one place and leaves the dropped one in C.               *)
THEOREM ExecShiftsMoveBits == Spec => ShiftsMoveBits
<1>1. ASSUME IInv, Next PROVE ShiftStep
  <2>1. ASSUME Executing("CB"), X = 0 PROVE ShiftRotate
    BY <1>1, <2>1, PrefixedActs DEF SubsetCB, BitTest, Res, Set, Cb
  <2>2. ASSUME Executing("NONE"), X = 0, Z = 7 PROVE Accumulator
    <3>1. Quadrant0 /\ subset = "NONE"
      BY <1>1, <2>2, MainActs DEF Executing
    <3>2. Z # 0 /\ Z # 1 /\ Z # 2 /\ Z # 3 /\ Z # 6 /\ Z \notin {4, 5}
      BY <2>2, SMT
    <3> QED BY <2>2, <3>1, <3>2 DEF Quadrant0, Nop, ExAf, Djnz, Jr, LdWordImm, AddHl, LdA, LdWordAt,
                                    IncDecWord, IncDecByte, LdByteImm
  <2> QED BY <1>1, <2>1, <2>2, ShiftRotateIs, ShiftAccumulatorIs DEF ShiftStep
<1>2. IInv /\ [Next]_vars => [ShiftStep]_vars
  BY <1>1
<1> QED BY <1>2, ExecInductive, PTL DEF Spec, ShiftsMoveBits
-----------------------------------------------------------------------------
(* Decimal adjustment, and instructions that undo one another.             *)

(* A BCD byte as two decimal digits.                                       *)
LEMMA BcdDigits ==
    ASSUME NEW n \in Byte, IsBcd(n)
    PROVE  \E h, l \in 0..9 : n = 16 * h + l /\ n % 16 = l /\ Decimal(n) = 10 * h + l
<1>1. n \div 16 \in 0..9 /\ n % 16 \in 0..9 /\ n = 16 * (n \div 16) + (n % 16)
  BY SMT DEF Byte, IsBcd
<1> QED BY <1>1, SMT DEF Decimal

(* Two decimal digits as a BCD byte.                                       *)
LEMMA BcdOf ==
    ASSUME NEW h \in 0..9, NEW l \in 0..9
    PROVE  16 * h + l \in Byte /\ IsBcd(16 * h + l) /\ Decimal(16 * h + l) = 10 * h + l
<1>1. (16 * h + l) \div 16 = h /\ (16 * h + l) % 16 = l
  BY SMT
<1> QED BY <1>1, SMT DEF Byte, IsBcd, Decimal

(* The adjustment, in one line: six for the low digit, sixty for the high, *)
(* added or subtracted as N says, and C is whether the high digit needed   *)
(* it.                                                                     *)
LEMMA DaaIs ==
    ASSUME NEW s \in Byte, NEW f
    PROVE  LET w == (IF NeedsSix(s, f) THEN 6 ELSE 0) + (IF NeedsSixty(s, f) THEN 96 ELSE 0)
               r == Daa(s, f)
           IN  /\ r.v = Byte8(IF FlagN \in f THEN s - w ELSE s + w)
               /\ FlagC \in r.f <=> NeedsSixty(s, f)
<1> DEFINE w == (IF NeedsSix(s, f) THEN 6 ELSE 0) + (IF NeedsSixty(s, f) THEN 96 ELSE 0)
           v == Byte8(IF FlagN \in f THEN s - w ELSE s + w)
           h == IF FlagN \in f THEN s % 16 < w % 16 ELSE (s % 16) + (w % 16) > 15
           c == NeedsSixty(s, f)
           e == Parity(v)
           g == (f \cap {FlagN}) \cup When(FlagC, c) \cup When(FlagH, h) \cup ZeroSign(v) \cup When(FlagPV, e)
<1>1. Daa(s, f).v = v /\ Daa(s, f).f = g
  BY DEF Daa, Result
<1>2. Daa(s, f).v \in Byte
  BY DaaByte
<1> HIDE DEF v, h, c, e
<1>3. FlagC \notin ZeroSign(v)
  BY <1>1, <1>2, ZeroSignIs
<1>4. FlagC # FlagN /\ FlagC # FlagH /\ FlagC # FlagPV
  BY SMT DEF FlagC, FlagN, FlagH, FlagPV
<1>5. FlagC \in g <=> c
  BY <1>3, <1>4 DEF When
<1> QED BY <1>1, <1>5 DEF v, c

(* DAA after ADD or ADC of two BCD bytes is their decimal sum, and C is    *)
(* the decimal carry: what DecimalAdjust observes of the programs that do  *)
(* it.                                                                     *)
THEOREM DaaAddsDecimals ==
    ASSUME NEW a \in Byte, NEW b \in Byte, IsBcd(a), IsBcd(b), NEW c \in {0, 1}
    PROVE  LET sum == AddByte(a, b, c)   r == Daa(sum.v, sum.f)   exact == Decimal(a) + Decimal(b) + c
           IN  /\ IsBcd(r.v) /\ Decimal(r.v) = exact % 100
               /\ FlagC \in r.f <=> exact > 99
<1>1. PICK h, l \in 0..9 : a = 16 * h + l /\ a % 16 = l /\ Decimal(a) = 10 * h + l
  BY BcdDigits
<1>2. PICK i, m \in 0..9 : b = 16 * i + m /\ b % 16 = m /\ Decimal(b) = 10 * i + m
  BY BcdDigits
<1> DEFINE sum == AddByte(a, b, c)
           s == sum.v
           f == sum.f
           r == Daa(s, f)
           low == l + m + c
           k == IF low > 9 THEN 1 ELSE 0
           high == h + i + k
           exact == Decimal(a) + Decimal(b) + c
<1>3. s \in Byte /\ s = Byte8(a + b + c)
  BY SumByte DEF AddByte, Result
<1>4. FlagN \notin f /\ (FlagC \in f <=> a + b + c > 255) /\ (FlagH \in f <=> low > 15)
  <2> DEFINE o == AddOverflow(a, b, s)   p == a + b + c > 255   q == low > 15
  <2>1. f = ZeroSign(s) \cup When(FlagPV, o) \cup When(FlagC, p) \cup When(FlagH, q)
    BY <1>1, <1>2 DEF AddByte, Result
  <2>2. FlagC \notin ZeroSign(s) /\ FlagH \notin ZeroSign(s) /\ FlagN \notin ZeroSign(s)
    BY <1>3, ZeroSignIs
  <2> HIDE DEF o, p, q, s, f
  <2>3. FlagN \notin f /\ (FlagC \in f <=> p) /\ (FlagH \in f <=> q)
    BY <2>1, <2>2, SMT DEF When, FlagC, FlagN, FlagH, FlagPV
  <2> QED BY <2>3 DEF p, q
<1>5. /\ r.v = Byte8(s + ((IF NeedsSix(s, f) THEN 6 ELSE 0) + (IF NeedsSixty(s, f) THEN 96 ELSE 0)))
      /\ FlagC \in r.f <=> NeedsSixty(s, f)
  BY <1>3, <1>4, DaaIs
<1> HIDE DEF sum, s, f, r
<1>6. s = IF a + b + c > 255 THEN a + b + c - 256 ELSE a + b + c
  <2>1. Byte8(a + b + c) = IF a + b + c > 255 THEN a + b + c - 256 ELSE a + b + c
    BY SMT DEF Byte, Byte8
  <2> QED BY <1>3, <2>1
<1>7. NeedsSix(s, f) <=> low > 9
  <2>1. low > 15 \/ s % 16 = low
    BY <1>1, <1>2, <1>6, SMT
  <2> QED BY <1>1, <1>2, <1>4, <2>1, SMT DEF NeedsSix
<1>8. NeedsSixty(s, f) <=> high > 9
  BY <1>1, <1>2, <1>4, <1>6, SMT DEF NeedsSixty
<1> DEFINE u == IF low > 9 THEN low - 10 ELSE low
           t == IF high > 9 THEN high - 10 ELSE high
<1>9. u \in 0..9 /\ t \in 0..9
  BY <1>1, <1>2, SMT
<1>10. r.v = 16 * t + u
  BY <1>1, <1>2, <1>5, <1>6, <1>7, <1>8, SMT DEF Byte8
<1>11. IsBcd(r.v) /\ Decimal(r.v) = 10 * t + u
  <2> HIDE DEF t, u
  <2> QED BY <1>9, <1>10, BcdOf
<1>12. 10 * t + u = exact % 100 /\ (high > 9 <=> exact > 99)
  BY <1>1, <1>2, SMT
<1> QED BY <1>5, <1>8, <1>11, <1>12 DEF r, s, f, sum

(* DAA after SUB or SBC of two BCD bytes is their decimal difference, and  *)
(* C is the decimal borrow.                                                *)
THEOREM DaaSubtractsDecimals ==
    ASSUME NEW a \in Byte, NEW b \in Byte, IsBcd(a), IsBcd(b), NEW c \in {0, 1}
    PROVE  LET dif == SubByte(a, b, c)   r == Daa(dif.v, dif.f)   exact == Decimal(a) - Decimal(b) - c
           IN  /\ IsBcd(r.v) /\ Decimal(r.v) = exact % 100
               /\ FlagC \in r.f <=> exact < 0
<1>1. PICK h, l \in 0..9 : a = 16 * h + l /\ a % 16 = l /\ Decimal(a) = 10 * h + l
  BY BcdDigits
<1>2. PICK i, m \in 0..9 : b = 16 * i + m /\ b % 16 = m /\ Decimal(b) = 10 * i + m
  BY BcdDigits
<1> DEFINE dif == SubByte(a, b, c)
           s == dif.v
           f == dif.f
           r == Daa(s, f)
           low == l - m - c
           k == IF low < 0 THEN 1 ELSE 0
           high == h - i - k
           exact == Decimal(a) - Decimal(b) - c
<1>3. s \in Byte /\ s = Byte8(a - b - c)
  BY SumByte DEF SubByte, Result
<1>4. FlagN \in f /\ (FlagC \in f <=> a < b + c) /\ (FlagH \in f <=> l < m + c)
  <2> DEFINE o == SubOverflow(a, b, s)   p == a < b + c   q == l < m + c
  <2>1. f = ZeroSign(s) \cup {FlagN} \cup When(FlagPV, o) \cup When(FlagC, p) \cup When(FlagH, q)
    BY <1>1, <1>2 DEF SubByte, Result
  <2>2. FlagC \notin ZeroSign(s) /\ FlagH \notin ZeroSign(s) /\ FlagN \notin ZeroSign(s)
    BY <1>3, ZeroSignIs
  <2> HIDE DEF o, p, q, s, f
  <2>3. FlagN \in f /\ (FlagC \in f <=> p) /\ (FlagH \in f <=> q)
    BY <2>1, <2>2, SMT DEF When, FlagC, FlagN, FlagH, FlagPV
  <2> QED BY <2>3 DEF p, q
<1>5. /\ r.v = Byte8(s - ((IF NeedsSix(s, f) THEN 6 ELSE 0) + (IF NeedsSixty(s, f) THEN 96 ELSE 0)))
      /\ FlagC \in r.f <=> NeedsSixty(s, f)
  BY <1>3, <1>4, DaaIs
<1> HIDE DEF dif, s, f, r
<1>6. s = IF a < b + c THEN a - b - c + 256 ELSE a - b - c
  <2>1. Byte8(a - b - c) = IF a < b + c THEN a - b - c + 256 ELSE a - b - c
    BY SMT DEF Byte, Byte8
  <2> QED BY <1>3, <2>1
<1>7. NeedsSix(s, f) <=> low < 0
  <2>1. low < 0 \/ s % 16 = low
    BY <1>1, <1>2, <1>6, SMT
  <2> QED BY <1>1, <1>2, <1>4, <2>1, SMT DEF NeedsSix
<1>8. NeedsSixty(s, f) <=> high < 0
  BY <1>1, <1>2, <1>4, <1>6, SMT DEF NeedsSixty
<1> DEFINE u == IF low < 0 THEN low + 10 ELSE low
           t == IF high < 0 THEN high + 10 ELSE high
<1>9. u \in 0..9 /\ t \in 0..9
  BY <1>1, <1>2, SMT
<1>10. r.v = 16 * t + u
  BY <1>1, <1>2, <1>5, <1>6, <1>7, <1>8, SMT DEF Byte8
<1>11. IsBcd(r.v) /\ Decimal(r.v) = 10 * t + u
  <2> HIDE DEF t, u
  <2> QED BY <1>9, <1>10, BcdOf
<1>12. 10 * t + u = exact % 100 /\ (high < 0 <=> exact < 0)
  <2>1. exact \in Int /\ exact = 10 * high + u /\ u \in 0..9 /\ high \in Int /\ -11 < high /\ high < 10
    BY <1>1, <1>2, SMT
  <2>2. exact < 0 <=> high < 0
    BY <2>1, SMT
  <2>3. 10 * t + u = IF high < 0 THEN exact + 100 ELSE exact
    BY <2>1, SMT
  <2>4. -100 - 1 < exact /\ exact < 100
    BY <2>1, SMT
  <2>5. 10 * t + u \in 0..99
    BY <1>9, SMT
  <2> HIDE DEF t, u, high, exact
  <2>6. 10 * t + u = exact % 100
    BY <2>1, <2>3, <2>5, SMT
  <2> QED BY <2>2, <2>6
<1> QED BY <1>5, <1>8, <1>11, <1>12 DEF r, s, f, dif

(* RLC and RRC undo one another, and so do RL and RR through the carry.    *)
THEOREM RotationsReturn ==
    ASSUME NEW n \in Byte, NEW c \in {0, 1}, NEW d \in {0, 1}
    PROVE  /\ Shifted(1, Shifted(0, n, c), d) = n /\ Shifted(0, Shifted(1, n, c), d) = n
           /\ LET v == Shifted(2, n, c) IN Shifted(3, v, Out(2, n)) = n /\ Out(3, v) = c
           /\ LET v == Shifted(3, n, c) IN Shifted(2, v, Out(3, n)) = n /\ Out(2, v) = c
<1>1. \A k \in Byte, e \in {0, 1} :
        /\ Shifted(0, k, e) = Byte8(2 * k) + (k \div 128)
        /\ Shifted(1, k, e) = (k \div 2) + 128 * (k % 2)
        /\ Shifted(2, k, e) = Byte8(2 * k) + e
        /\ Shifted(3, k, e) = (k \div 2) + 128 * e
        /\ Shifted(0, k, e) \in Byte /\ Shifted(1, k, e) \in Byte /\ Shifted(2, k, e) \in Byte
        /\ Shifted(3, k, e) \in Byte
  <2> TAKE k \in Byte, e \in {0, 1}
  <2>1. \A y \in {0, 1, 2, 3} : y \in 0..7
    BY SMT
  <2>2. \A y \in {0, 1, 2, 3} : Shifted(y, k, e) \in Byte
    BY <2>1, ShiftedByte
  <2> QED BY <2>2, SMT DEF Shifted
<1>2. /\ Out(2, n) = n \div 128 /\ Out(3, n) = n % 2
      /\ \A v : Out(2, v) = v \div 128 /\ Out(3, v) = v % 2
      /\ Out(2, n) \in {0, 1} /\ Out(3, n) \in {0, 1}
  BY SMT DEF Out, Byte
<1>3. \A k \in Byte, e \in {0, 1} :
        /\ k \div 128 = IF k > 127 THEN 1 ELSE 0
        /\ Byte8(2 * k) = IF k > 127 THEN 2 * k - 256 ELSE 2 * k
  BY SMT DEF Byte, Byte8
<1>4. Shifted(1, Shifted(0, n, c), d) = n
  <2> DEFINE v == Shifted(0, n, c)
  <2>1. v \in Byte /\ v = Byte8(2 * n) + (n \div 128) /\ Shifted(1, v, d) = (v \div 2) + 128 * (v % 2)
    BY <1>1
  <2> HIDE DEF v
  <2>0. n \div 128 = (IF n > 127 THEN 1 ELSE 0) /\ Byte8(2 * n) = (IF n > 127 THEN 2 * n - 256 ELSE 2 * n)
    BY <1>3
  <2>2. v = (IF n > 127 THEN 2 * n - 256 ELSE 2 * n) + (IF n > 127 THEN 1 ELSE 0)
    BY <2>0, <2>1, Zenon
  <2>3. v = IF n > 127 THEN 2 * n - 255 ELSE 2 * n
    BY <2>2, SMT DEF Byte
  <2>4. (v \div 2) + 128 * (v % 2) = n
    BY <2>3, SMT DEF Byte
  <2> QED BY <2>1, <2>4, Zenon DEF v
<1>5. Shifted(0, Shifted(1, n, c), d) = n
  <2> DEFINE v == Shifted(1, n, c)
  <2>1. v \in Byte /\ v = (n \div 2) + 128 * (n % 2) /\ Shifted(0, v, d) = Byte8(2 * v) + (v \div 128)
    BY <1>1
  <2> HIDE DEF v
  <2>0. v \div 128 = (IF v > 127 THEN 1 ELSE 0) /\ Byte8(2 * v) = (IF v > 127 THEN 2 * v - 256 ELSE 2 * v)
    BY <1>3, <2>1
  <2>2. Byte8(2 * v) + (v \div 128) = (IF v > 127 THEN 2 * v - 256 ELSE 2 * v) + (IF v > 127 THEN 1 ELSE 0)
    BY <2>0, Zenon
  <2>3. (IF v > 127 THEN 2 * v - 256 ELSE 2 * v) + (IF v > 127 THEN 1 ELSE 0) = n
    <3>1. v = (n \div 2) + 128 * (n % 2)
      BY <2>1
    <3> QED BY <3>1, SMT DEF Byte
  <2> QED BY <2>1, <2>2, <2>3, Zenon DEF v
<1>6. LET v == Shifted(2, n, c) IN Shifted(3, v, Out(2, n)) = n /\ Out(3, v) = c
  <2> DEFINE v == Shifted(2, n, c)
             o == Out(2, n)
  <2>1. v \in Byte /\ v = Byte8(2 * n) + c /\ Shifted(3, v, o) = (v \div 2) + 128 * o /\ o = n \div 128 /\ Out(3, v) = v % 2
    BY <1>1, <1>2
  <2> HIDE DEF v, o
  <2>0. Byte8(2 * n) = IF n > 127 THEN 2 * n - 256 ELSE 2 * n
    BY <1>3
  <2>2. v = (IF n > 127 THEN 2 * n - 256 ELSE 2 * n) + c
    BY <2>0, <2>1, Zenon
  <2>3. v = IF n > 127 THEN 2 * n - 256 + c ELSE 2 * n + c
    BY <2>2, SMT DEF Byte
  <2>4. o = IF n > 127 THEN 1 ELSE 0
    BY <1>3, <2>1, Zenon
  <2>5. v % 2 = c /\ (v \div 2) + 128 * o = n
    BY <2>3, <2>4, SMT DEF Byte
  <2>6. Shifted(3, v, o) = n /\ Out(3, v) = c
    BY <2>1, <2>5, Zenon
  <2> QED BY <2>6 DEF v, o
<1>7. LET v == Shifted(3, n, c) IN Shifted(2, v, Out(3, n)) = n /\ Out(2, v) = c
  <2> DEFINE v == Shifted(3, n, c)
             o == Out(3, n)
  <2>1. v \in Byte /\ v = (n \div 2) + 128 * c /\ Shifted(2, v, o) = Byte8(2 * v) + o /\ o = n % 2 /\ Out(2, v) = v \div 128
    BY <1>1, <1>2
  <2> HIDE DEF v, o
  <2>2. Byte8(2 * v) = IF v > 127 THEN 2 * v - 256 ELSE 2 * v
    BY <1>3, <2>1
  <2>3. Shifted(2, v, o) = n /\ Out(2, v) = c
    BY <1>3, <2>1, <2>2, SMT DEF Byte
  <2> QED BY <2>3 DEF v, o
<1> QED BY <1>4, <1>5, <1>6, <1>7

(* RRD and RLD undo one another.                                           *)
THEOREM DigitsReturn ==
    ASSUME NEW a \in Byte, NEW n \in Byte, NEW y \in {4, 5}
    PROVE  LET r == DigitRotate(y, a, n) IN DigitRotate(9 - y, r.a, r.m) = [a |-> a, m |-> n]
<1>1. PICK h, l \in Nat : h < 16 /\ l < 16 /\ a = 16 * h + l /\ a % 16 = l /\ a \div 16 = h
  BY Digits16
<1>2. PICK i, m \in Nat : i < 16 /\ m < 16 /\ n = 16 * i + m /\ n % 16 = m /\ n \div 16 = i
  BY Digits16
<1> DEFINE Two(p, q) == 16 * p + q
<1>3. ASSUME NEW p \in Nat, NEW q \in Nat, NEW s \in Nat, NEW t \in Nat, p < 16, q < 16, s < 16, t < 16
      PROVE  /\ DigitRotate(5, Two(p, q), Two(s, t)) = [a |-> Two(p, s), m |-> Two(t, q)]
             /\ DigitRotate(4, Two(p, q), Two(s, t)) = [a |-> Two(p, t), m |-> Two(q, s)]
  <2> DEFINE wz == 256 * (16 * p + q) + (16 * s + t)
             x == Rotated(5, wz)
             z == Rotated(4, wz)
  <2>0. (16 * p + q) \div 16 = p
    BY <1>3, SMT
  <2>1. Word16(16 * wz) = 4096 * q + 256 * s + 16 * t
    BY <1>3, SMT DEF Word16
  <2>2. (wz \div 256) % 16 = q /\ (wz \div 16) % 256 = 16 * q + s /\ wz % 16 = t
    BY <1>3, SMT
  <2>3. x = 4096 * q + 256 * s + 16 * t + q
    BY <2>1, <2>2 DEF Rotated
  <2>4. z = 16 * q + s + 256 * t
    BY <2>2 DEF Rotated
  <2> HIDE DEF x, z
  <2>5. Hi(x) % 16 = s /\ Lo(x) = 16 * t + q
    BY <1>3, <2>3, SMT DEF Hi, Lo
  <2>6. Hi(z) % 16 = t /\ Lo(z) = 16 * q + s
    BY <1>3, <2>4, SMT DEF Hi, Lo
  <2> QED BY <2>0, <2>5, <2>6 DEF DigitRotate, WordOf, x, z
<1>4. a = Two(h, l) /\ n = Two(i, m)
  BY <1>1, <1>2
<1>5. 9 - 5 = 4 /\ 9 - 4 = 5
  BY SMT
<1>6. h < 16 /\ l < 16 /\ i < 16 /\ m < 16
  BY <1>1, <1>2
<1> HIDE DEF Two
<1>7. CASE y = 5
  <2>1. DigitRotate(5, Two(h, l), Two(i, m)) = [a |-> Two(h, i), m |-> Two(m, l)]
    BY <1>3, <1>6
  <2>2. DigitRotate(4, Two(h, i), Two(m, l)) = [a |-> Two(h, l), m |-> Two(i, m)]
    BY <1>3, <1>6
  <2> QED BY <1>4, <1>5, <1>7, <2>1, <2>2
<1>8. CASE y = 4
  <2>1. DigitRotate(4, Two(h, l), Two(i, m)) = [a |-> Two(h, m), m |-> Two(l, i)]
    BY <1>3, <1>6
  <2>2. DigitRotate(5, Two(h, m), Two(l, i)) = [a |-> Two(h, l), m |-> Two(i, m)]
    BY <1>3, <1>6
  <2> QED BY <1>4, <1>5, <1>8, <2>1, <2>2
<1> QED BY <1>7, <1>8

(* A word pushed where there is memory is read back from the stack pointer *)
(* the push leaves, wherever the stack wraps.                              *)
THEOREM PushedIsPopped ==
    ASSUME NEW sp \in Word, NEW w \in Word,
           Word16(sp - 1) \in DOMAIN mem, Word16(sp - 2) \in DOMAIN mem,
           mem' = PushIn(sp, w)
    PROVE  WordOf(mem'[Word16(Word16(sp - 2) + 1)], mem'[Word16(sp - 2)]) = w
<1>1. Word16(Word16(sp - 2) + 1) = Word16(sp - 1) /\ Word16(sp - 1) # Word16(sp - 2)
  BY SMT DEF Word, Word16
<1>2. mem' = [[mem EXCEPT ![Word16(sp - 1)] = Hi(w)] EXCEPT ![Word16(sp - 2)] = Lo(w)]
  BY DEF PushIn, Poke, PokeIn
<1>3. mem'[Word16(sp - 1)] = Hi(w) /\ mem'[Word16(sp - 2)] = Lo(w)
  BY <1>1, <1>2
<1> QED BY <1>1, <1>3, HalvesOf

-----------------------------------------------------------------------------
(* Whole programs.                                                         *)

(* No step changes what was loaded, and interrupts are only used up.       *)
LEMMA LoadKept ==
    ASSUME [Next]_vars
    PROVE  load' = load /\ (irq' = irq \/ \E kind \in irq : irq' = irq \ {kind})
<1>1. UNCHANGED vars => load' = load /\ irq' = irq
  BY DEF vars
<1>2. (Fetch \/ HaltedFetch \/ Prefix \/ Displaced \/ IntResponse) => load' = load /\ irq' = irq
  BY DEF Fetch, HaltedFetch, Prefix, Displaced, IntResponse
<1>3. \A r, m : Retire(r, m) => load' = load /\ irq' = irq
  BY DEF Retire
<1>4. /\ \A r, m : Flagged(r, m) => load' = load /\ irq' = irq
      /\ \A r, m : Quiet(r, m) => load' = load /\ irq' = irq
      /\ \A r, m, dir, port, v : Transfer(r, m, dir, port, v) => load' = load /\ irq' = irq
      /\ \A r : Return(r) => load' = load /\ irq' = irq
      /\ \A r, taken : Branch(r, taken) => load' = load /\ irq' = irq
  BY <1>3 DEF Flagged, Quiet, Transfer, Return, Branch
<1>5. Quadrant0 => load' = load /\ irq' = irq
  BY <1>4 DEF Quadrant0, Nop, ExAf, Djnz, Jr, LdWordImm, AddHl, LdA, LdWordAt,
         IncDecWord, IncDecByte, LdByteImm, Accumulator
<1>6. Quadrant12 => load' = load /\ irq' = irq
  BY <1>4 DEF Quadrant12, Halt, PrefixedHalt, LdReg, LdRegMem, LdMemReg, AluReg, AluMem, AluWith
<1>7. Quadrant3 => load' = load /\ irq' = irq
  BY <1>3, <1>4 DEF Quadrant3, RetCc, Ret, Pop, Push, Exx, JpHl, LdSpHl, Jp, OutA, InA,
         ExSpHl, ExDeHl, Di, Ei, Call, Rst, AluImm, AluWith
<1>8. SubsetCB => load' = load /\ irq' = irq
  BY <1>4 DEF SubsetCB, ShiftRotate, BitTest, Res, Set
<1>9. SubsetED => load' = load /\ irq' = irq
  BY <1>4 DEF SubsetED, InC, OutC, AdcSbcHl, Neg, Retn, Im, LdIr, RotateDigits, EdNop,
         BlockLd, BlockCp, BlockIn, BlockOut
<1>10. ServeNmi => load' = load /\ "NMI" \in irq /\ irq' = irq \ {"NMI"}
  BY DEF ServeNmi, Between
<1>11. AcceptInt => load' = load /\ "INT" \in irq /\ irq' = irq \ {"INT"}
  BY DEF AcceptInt, Between
<1> QED BY <1>1, <1>2, <1>5, <1>6, <1>7, <1>8, <1>9, <1>10, <1>11 DEF Next, Cpu, Ended

(* What was loaded were registers, and the interrupts are among those the  *)
(* host was given.                                                         *)
LoadOK == RegisterFile(load.regs) /\ irq \subseteq load.irq

(* Which it stays.                                                         *)
LEMMA LoadInductive == Spec => []LoadOK
<1>1. Init => LoadOK
  <2> SUFFICES ASSUME Init PROVE LoadOK
    OBVIOUS
  <2>1. PICK p \in Programs : regs \in p.regs
    BY DEF Init
  <2>2. RegisterFile(regs)
    BY <2>1, ProgramsTyped DEF ProgramsAssumption
  <2>3. load.regs = regs /\ load.irq = irq
    BY DEF Init
  <2> QED BY <2>2, <2>3 DEF LoadOK
<1>2. LoadOK /\ [Next]_vars => LoadOK'
  BY LoadKept DEF LoadOK
<1> QED BY <1>1, <1>2, PTL DEF Spec

(* At an opcode that is not about to be interrupted the step is its fetch. *)
LEMMA TakesFetch ==
    ASSUME Next, stage = "fetch", regs.PC \in DOMAIN mem, irq = {} \/ irq' = irq
    PROVE  Fetch
<1>1. ~ServeNmi /\ ~AcceptInt
  BY DEF ServeNmi, AcceptInt, Between
<1>2. ~Ended /\ ~HaltedFetch /\ ~Prefix /\ ~Displaced /\ ~IntResponse
  BY DEF Ended, Stopped, HaltedFetch, Prefix, Displaced, IntResponse
<1>3. ~Quadrant0
  BY DEF Quadrant0, Main, Nop, ExAf, Djnz, Jr, LdWordImm, AddHl, LdA, LdWordAt,
         IncDecWord, IncDecByte, LdByteImm, Accumulator
<1>4. ~Quadrant12
  BY DEF Quadrant12, Main, Halt, PrefixedHalt, LdReg, LdRegMem, LdMemReg, AluReg, AluMem
<1>5. ~Quadrant3
  BY DEF Quadrant3, Main, RetCc, Ret, Pop, Push, Exx, JpHl, LdSpHl, Jp, OutA, InA,
         ExSpHl, ExDeHl, Di, Ei, Call, Rst, AluImm
<1>6. ~SubsetCB /\ ~SubsetED
  BY DEF SubsetCB, ShiftRotate, BitTest, Res, Set, Cb, SubsetED, InC, OutC, AdcSbcHl, Neg, Retn, Im,
         LdIr, RotateDigits, EdNop, BlockLd, BlockCp, BlockIn, BlockOut, Block, Ed
<1> QED BY <1>1, <1>2, <1>3, <1>4, <1>5, <1>6 DEF Next, Cpu

(* Nothing interrupts a program whose memory ends at PC, nor goes on.      *)
LEMMA HasStopped ==
    ASSUME Next, stage = "fetch", regs.PC \notin DOMAIN mem, irq = {} \/ irq' = irq
    PROVE  UNCHANGED vars
<1>1. ~ServeNmi /\ ~AcceptInt
  BY DEF ServeNmi, AcceptInt, Between
<1>2. ~Fetch /\ ~HaltedFetch /\ ~Prefix /\ ~Displaced /\ ~IntResponse
  BY DEF Fetch, HaltedFetch, Prefix, Displaced, IntResponse
<1>3. ~Quadrant0
  BY DEF Quadrant0, Main, Nop, ExAf, Djnz, Jr, LdWordImm, AddHl, LdA, LdWordAt,
         IncDecWord, IncDecByte, LdByteImm, Accumulator
<1>4. ~Quadrant12
  BY DEF Quadrant12, Main, Halt, PrefixedHalt, LdReg, LdRegMem, LdMemReg, AluReg, AluMem
<1>5. ~Quadrant3
  BY DEF Quadrant3, Main, RetCc, Ret, Pop, Push, Exx, JpHl, LdSpHl, Jp, OutA, InA,
         ExSpHl, ExDeHl, Di, Ei, Call, Rst, AluImm
<1>6. ~SubsetCB /\ ~SubsetED
  BY DEF SubsetCB, ShiftRotate, BitTest, Res, Set, Cb, SubsetED, InC, OutC, AdcSbcHl, Neg, Retn, Im,
         LdIr, RotateDigits, EdNop, BlockLd, BlockCp, BlockIn, BlockOut, Block, Ed
<1> QED BY <1>1, <1>2, <1>3, <1>4, <1>5, <1>6 DEF Next, Cpu, Ended

(* What a fetch does.                                                      *)
LEMMA AfterFetch ==
    ASSUME IInv, Fetch, stage = "fetch"
    PROVE  /\ regs'.PC = Word16(regs.PC + 1) /\ regs'.instr = mem[regs.PC]
           /\ regs'.IR = Refreshed(regs.IR)
           /\ \A n \in Pairs \ {"PC", "IR"} : regs'[n] = regs[n]
           /\ stage' = "start" /\ UNCHANGED <<mem, io, subset, mod, irq, load, ret>>
<1> DEFINE pc == Word16(regs.PC + 1)
           ir == Refreshed(regs.IR)
<1>1. RegisterFile(regs) /\ regs.PC \in Word
  BY Facts DEF Pairs
<1>2. Imm8 = mem[regs.PC]
  BY <1>1, WordKept DEF Fetch, Imm8, Peek
<1>3. regs' = [[regs EXCEPT !.PC = pc] EXCEPT !.IR = Refreshed(@), !.instr = Imm8]
  BY DEF Fetch, Ahead
<1>4. [regs EXCEPT !.PC = pc].IR = regs.IR
  BY <1>1, SMT DEF RegisterFile, Names, Pairs
<1>5. regs' = [[regs EXCEPT !.PC = pc] EXCEPT !.IR = ir, !.instr = Imm8]
  BY <1>3, <1>4
<1> HIDE DEF pc, ir
<1>6. regs'.PC = pc /\ regs'.IR = ir /\ regs'.instr = Imm8
  BY <1>1, <1>5, SMT DEF RegisterFile, Names, Pairs
<1>7. \A n \in Pairs \ {"PC", "IR"} : regs'[n] = regs[n]
  <2>1. \A n \in Pairs \ {"PC", "IR"} : n \in DOMAIN regs /\ n # "instr"
    BY <1>1, SMT DEF RegisterFile, Names, Pairs
  <2> QED BY <1>5, <2>1
<1> QED BY <1>2, <1>6, <1>7 DEF pc, ir, Fetch

(* A result stored in A changes no other pair.                             *)
LEMMA ResultKeeps ==
    ASSUME NEW r, RegisterFile(r), NEW res, res.v \in Byte, res.f \in Flags
    PROVE  \A n \in Pairs \ {"AF"} : WithResult(r, RegA, res)[n] = r[n]
<1> DEFINE s == Put(r, RegA, res.v)
<1>1. RegA = <<"AF", "hi">>
  BY SMT DEF RegA, Reg8NoMod
<1>2. RegisterFile(s)
  BY <1>1, PutFile DEF Pairs
<1>3. \A n \in Pairs \ {"AF"} : s[n] = r[n]
  <2>1. s = [r EXCEPT !["AF"] = WordOf(res.v, Lo(r.AF))]
    BY <1>1 DEF Put
  <2>2. \A n \in Pairs \ {"AF"} : n \in DOMAIN r
    BY SMT DEF RegisterFile, Names
  <2> HIDE DEF s
  <2> QED BY <2>1, <2>2
<1>4. WithResult(r, RegA, res) = WithFlags(s, res.f)
  BY DEF WithResult
<1> HIDE DEF s
<1> QED BY <1>2, <1>3, <1>4, AfterWithFlags

(* The flags of an adjustment are flags.                                   *)
LEMMA DaaFlags ==
    ASSUME NEW s \in Byte, NEW f
    PROVE  Daa(s, f).f \in Flags
<1> DEFINE r == Daa(s, f)
<1>1. r.v \in Byte
  BY DaaByte
<1>2. ZeroSign(r.v) \in Flags
  BY <1>1, FlagsOf, SMT DEF ZeroSign, Copy, When, Flags, FlagZ
<1>3. {FlagN, FlagC, FlagH, FlagPV} \in Flags
  BY SMT DEF Flags, FlagN, FlagC, FlagH, FlagPV
<1> QED BY <1>2, <1>3 DEF Daa, Result, Flags, When

-----------------------------------------------------------------------------
(* Decimal adjustment.                                                     *)

(* The program adjusts a decimal sum or difference.                        *)
Adjusts == Op(0) \in {128, 136, 144, 152} /\ Op(1) = 39

(* What its first instruction leaves, and its second.                      *)
Combined == Alu((Op(0) \div 8) % 8, Hi(load.regs.AF), Hi(load.regs.BC), BitsOf[Lo(load.regs.AF)])
Adjusted == Daa(Combined.v, Combined.f)

Untouched == regs.AF = load.regs.AF /\ regs.BC = load.regs.BC

(* Where it is, and what is in A and F there.                              *)
AdjustPhase ==
    \/ stage = "fetch" /\ regs.PC = Start /\ Untouched
    \/ stage = "start" /\ regs.PC = Word16(Start + 1) /\ regs.instr = Op(0) /\ Untouched
    \/ stage = "fetch" /\ regs.PC = Word16(Start + 1) /\ A = Combined.v /\ F = Combined.f
    \/ stage = "start" /\ regs.PC = Word16(Start + 2) /\ regs.instr = 39 /\ A = Combined.v /\ F = Combined.f
    \/ stage = "fetch" /\ regs.PC = Word16(Start + 2) /\ A = Adjusted.v /\ F = Adjusted.f

AdjustInv ==
    Adjusts =>
      /\ irq = {} /\ DOMAIN load.mem = {Start, Word16(Start + 1)} /\ mem = load.mem
      /\ subset = "NONE" /\ mod = "NONE"
      /\ AdjustPhase

(* Neighbours in memory are different cells, also across its top.          *)
LEMMA Cells ==
    ASSUME NEW s \in Word
    PROVE  /\ Word16(s + 0) = s
           /\ Word16(s + 1) \in Word /\ Word16(s + 2) \in Word /\ Word16(s + 3) \in Word
           /\ Word16(Word16(s + 1) + 1) = Word16(s + 2) /\ Word16(Word16(s + 2) + 1) = Word16(s + 3)
           /\ s # Word16(s + 1) /\ s # Word16(s + 2) /\ s # Word16(s + 3)
           /\ Word16(s + 1) # Word16(s + 2) /\ Word16(s + 1) # Word16(s + 3)
           /\ Word16(s + 2) # Word16(s + 3)
BY SMT DEF Word, Word16

(* The program does its two instructions in order.                         *)
LEMMA AdjustStep ==
    ASSUME IInv, LoadOK, AdjustInv, Adjusts, Next
    PROVE  AdjustInv'
<1>1. load' = load /\ irq = {}
  BY LoadKept DEF AdjustInv
<1>2. Start \in Word /\ RegisterFile(load.regs)
  BY Values DEF LoadOK, Start, Pairs
<1>3. DOMAIN mem = {Start, Word16(Start + 1)} /\ mem = load.mem /\ subset = "NONE" /\ mod = "NONE"
  BY DEF AdjustInv
<1>4. Op(0) = mem[Start] /\ Op(1) = mem[Word16(Start + 1)]
  BY <1>2, <1>3, Cells DEF Op
<1>5. Op(0)' = Op(0) /\ Op(1)' = Op(1) /\ Start' = Start /\ Adjusts' = Adjusts
      /\ Combined' = Combined /\ Adjusted' = Adjusted
  BY <1>1 DEF Op, Start, Adjusts, Combined, Adjusted
<1> DEFINE Still == irq' = {} /\ mem' = mem /\ subset' = "NONE" /\ mod' = "NONE"
<1>6. ASSUME Still, AdjustPhase' PROVE AdjustInv'
  BY <1>1, <1>3, <1>5, <1>6 DEF AdjustInv
<1>7. RegisterFile(regs) /\ A \in Byte /\ F \in Flags
  BY Facts, FlagsBefore
<1>a. CASE stage = "fetch" /\ regs.PC \in DOMAIN mem
  <2>1. Fetch
    BY <1>1, <1>a, TakesFetch
  <2>2. /\ regs'.PC = Word16(regs.PC + 1) /\ regs'.instr = mem[regs.PC]
        /\ regs'.AF = regs.AF /\ regs'.BC = regs.BC
        /\ stage' = "start" /\ Still
    BY <1>1, <1>3, <1>a, <2>1, AfterFetch DEF Pairs
  <2>3. A' = A /\ F' = F
    BY <2>2 DEF A, F
  <2>4. regs.PC = Start \/ regs.PC = Word16(Start + 1)
    BY <1>3, <1>a
  <2>5. regs.PC = Start => Untouched
    BY <1>2, <1>a, <2>4, Cells DEF AdjustInv, AdjustPhase
  <2>6. regs.PC = Word16(Start + 1) => A = Combined.v /\ F = Combined.f
    BY <1>2, <1>a, <2>4, Cells DEF AdjustInv, AdjustPhase
  <2>7. CASE regs.PC = Start
    <3>1. AdjustPhase'
      BY <1>1, <1>4, <1>5, <2>2, <2>5, <2>7 DEF AdjustPhase, Untouched
    <3> QED BY <1>6, <2>2, <3>1
  <2>8. CASE regs.PC = Word16(Start + 1)
    <3>1. Op(1) = 39 /\ Word16(regs.PC + 1) = Word16(Start + 2)
      BY <1>2, <2>8, Cells DEF Adjusts
    <3>2. AdjustPhase'
      BY <1>4, <1>5, <2>2, <2>3, <2>6, <2>8, <3>1 DEF AdjustPhase
    <3> QED BY <1>6, <2>2, <3>2
  <2> QED BY <2>4, <2>7, <2>8
<1>b. CASE stage = "fetch" /\ regs.PC \notin DOMAIN mem
  <2>1. UNCHANGED vars
    BY <1>1, <1>b, HasStopped
  <2> QED BY <1>5, <2>1 DEF vars, AdjustInv, AdjustPhase, Untouched, A, F
<1>c. CASE stage = "start" /\ regs.PC = Word16(Start + 1)
  <2>1. regs.instr = Op(0) /\ Untouched
    BY <1>2, <1>c, Cells DEF AdjustInv, AdjustPhase
  <2>2. X = 2 /\ Z = 0 /\ Y = (Op(0) \div 8) % 8 /\ regs.instr \notin PrefixBytes
    BY <2>1, SMT DEF Adjusts, X, Y, Z, PrefixBytes
  <2>3. AluReg
    BY <1>3, <1>c, <2>2, MainActs DEF Executing, Quadrant12, Halt, PrefixedHalt, LdReg, LdRegMem, LdMemReg, AluMem, Main
  <2> DEFINE n == Get(Reg8(Z))
  <2>4. n = Hi(load.regs.BC) /\ A = Hi(load.regs.AF) /\ F = BitsOf[Lo(load.regs.AF)]
    BY <2>1, <2>2, SMT DEF Untouched, Get, Reg8, Reg8NoMod, A, F
  <2>5. n \in Byte
    BY <1>2, <2>4, Values DEF Pairs
  <2>6. regs' = WithResult(regs, RegA, Alu(Y, A, n, F)) /\ stage' = "fetch" /\ Still
    BY <1>1, <2>3 DEF AluReg, AluWith, Flagged, Retire
  <2> HIDE DEF n
  <2>7. Alu(Y, A, n, F) = Combined
    BY <2>2, <2>4 DEF Combined
  <2>8. Combined.v \in Byte /\ Combined.f \in Flags
    BY <1>7, <2>5, <2>7, Facts, AluByte, AluFlags
  <2>9. AfterA = Combined.v /\ AfterF = Combined.f /\ regs'.PC = regs.PC
    BY <1>7, <2>6, <2>7, <2>8, AfterWithResult, ResultKeeps DEF Pairs
  <2>10. A' = Combined.v /\ F' = Combined.f
    BY <2>9 DEF A, F, AfterA, AfterF
  <2>11. AdjustPhase'
    BY <1>5, <1>c, <2>6, <2>9, <2>10 DEF AdjustPhase
  <2> QED BY <1>6, <2>6, <2>11
<1>d. CASE stage = "start" /\ regs.PC = Word16(Start + 2)
  <2>1. regs.instr = 39 /\ A = Combined.v /\ F = Combined.f
    BY <1>2, <1>d, Cells DEF AdjustInv, AdjustPhase
  <2>2. X = 0 /\ Z = 7 /\ Y = 4 /\ regs.instr \notin PrefixBytes
    BY <2>1, SMT DEF X, Y, Z, PrefixBytes
  <2>3. Accumulator
    BY <1>3, <1>d, <2>2, MainActs, SMT DEF Executing, Quadrant0, Nop, ExAf, Djnz, Jr, LdWordImm, AddHl, LdA, LdWordAt,
         IncDecWord, IncDecByte, LdByteImm, Main
  <2>4. regs' = WithResult(regs, RegA, Daa(A, F)) /\ stage' = "fetch" /\ Still
    BY <1>1, <2>2, <2>3, SMT DEF Accumulator, Flagged, Retire
  <2>5. Adjusted.v \in Byte /\ Adjusted.f \in Flags /\ Daa(A, F) = Adjusted
    BY <1>7, <2>1, DaaByte, DaaFlags DEF Adjusted
  <2>6. AfterA = Adjusted.v /\ AfterF = Adjusted.f /\ regs'.PC = regs.PC
    BY <1>7, <2>4, <2>5, AfterWithResult, ResultKeeps DEF Pairs
  <2>7. A' = Adjusted.v /\ F' = Adjusted.f
    BY <2>6 DEF A, F, AfterA, AfterF
  <2>8. AdjustPhase'
    BY <1>5, <1>d, <2>4, <2>6, <2>7 DEF AdjustPhase
  <2> QED BY <1>6, <2>4, <2>8
<1> QED BY <1>a, <1>b, <1>c, <1>d DEF AdjustInv, AdjustPhase

(* DAA behind ADD, ADC, SUB and SBC of decimal numbers, fetched and        *)
(* executed as a program: the decimal result and its carry.                *)
THEOREM ExecDecimalAdjust ==
    ASSUME AdjustsAlone
    PROVE  Spec => []DecimalAdjust
<1>1. Init => AdjustInv
  <2> SUFFICES ASSUME Init, Adjusts PROVE AdjustInv
    BY DEF AdjustInv
  <2>1. PICK p \in Programs : regs \in p.regs /\ mem = p.mem /\ irq = p.irq
    BY DEF Init
  <2>2. load.regs = regs /\ load.mem = mem /\ stage = "fetch" /\ subset = "NONE" /\ mod = "NONE"
    BY DEF Init
  <2>3. RegisterFile(regs)
    BY <2>1, ProgramsTyped DEF ProgramsAssumption
  <2>4. Start = regs.PC /\ Start \in Word
    BY <2>2, <2>3, Values DEF Start, Pairs
  <2>5. Op(0) = Loaded(p, regs.PC) /\ Op(1) = Loaded(p, regs.PC + 1)
    BY <2>1, <2>2, <2>4, SMT DEF Op, Loaded, Word
  <2>6. irq = {} /\ DOMAIN load.mem = {Start, Word16(Start + 1)}
    BY <2>1, <2>2, <2>4, <2>5 DEF Adjusts, AdjustsAlone
  <2> QED BY <2>2, <2>4, <2>6 DEF AdjustInv, AdjustPhase, Untouched
<1>2. IInv /\ LoadOK /\ AdjustInv /\ [Next]_vars => AdjustInv'
  <2> SUFFICES ASSUME IInv, LoadOK, AdjustInv, [Next]_vars PROVE AdjustInv'
    OBVIOUS
  <2>1. CASE UNCHANGED vars
    <3>1. load' = load /\ regs' = regs /\ mem' = mem /\ irq' = irq /\ stage' = stage /\ subset' = subset /\ mod' = mod
      BY <2>1 DEF vars
    <3>2. Start' = Start /\ Op(0)' = Op(0) /\ Adjusts' = Adjusts /\ Combined' = Combined /\ Adjusted' = Adjusted
          /\ Untouched' = Untouched /\ A' = A /\ F' = F
      BY <3>1 DEF Start, Op, Adjusts, Combined, Adjusted, Untouched, A, F
    <3> QED BY <3>1, <3>2 DEF AdjustInv, AdjustPhase
  <2>2. CASE Next /\ Adjusts
    BY <2>2, AdjustStep
  <2>3. CASE ~Adjusts
    BY <2>3, LoadKept DEF AdjustInv, Adjusts, Op, Start
  <2> QED BY <2>1, <2>2, <2>3
<1>3. IInv /\ LoadOK /\ AdjustInv => DecimalAdjust
  <2> DEFINE a == Hi(load.regs.AF)
             b == Hi(load.regs.BC)
             y == (Op(0) \div 8) % 8
             c == IF y \in {1, 3} THEN Bit(0, Lo(load.regs.AF)) ELSE 0
             exact == IF y < 2 THEN Decimal(a) + Decimal(b) + c ELSE Decimal(a) - Decimal(b) - c
  <2> SUFFICES ASSUME IInv, LoadOK, AdjustInv, Adjusts, IsBcd(a), IsBcd(b), HasEnded
               PROVE  /\ IsBcd(A) /\ Decimal(A) = exact % 100
                      /\ FlagC \in F <=> exact \notin 0..99
    BY DEF DecimalAdjust, Adjusts
  <2>1. A = Adjusted.v /\ F = Adjusted.f
    BY DEF AdjustInv, AdjustPhase, HasEnded
  <2>2. a \in Byte /\ b \in Byte /\ Lo(load.regs.AF) \in Byte
    BY Values DEF LoadOK, Pairs
  <2>3. Carry(BitsOf[Lo(load.regs.AF)]) = Bit(0, Lo(load.regs.AF))
    BY DEF Carry, Bit, FlagC
  <2>4. y = 0 \/ y = 1 \/ y = 2 \/ y = 3
    BY SMT DEF Adjusts
  <2>5. c \in {0, 1}
    BY DEF Bit
  <2>6. Combined = IF y < 2 THEN AddByte(a, b, c) ELSE SubByte(a, b, c)
    BY <2>3, <2>4, SMT DEF Combined, Alu
  <2>7. Decimal(a) \in 0..99 /\ Decimal(b) \in 0..99
    BY <2>2, BcdDigits, SMT
  <2> DEFINE sum == Decimal(a) + Decimal(b) + c
             dif == Decimal(a) - Decimal(b) - c
  <2> HIDE DEF a, b, c, y
  <2>8. (sum > 99 <=> sum \notin 0..99) /\ (dif < 0 <=> dif \notin 0..99)
    <3>1. \A i, j \in 0..99 : \A k \in {0, 1} :
            /\ i + j + k > 99 <=> i + j + k \notin 0..99
            /\ i - j - k < 0 <=> i - j - k \notin 0..99
      BY SMT
    <3> HIDE DEF sum, dif
    <3> QED BY <2>5, <2>7, <3>1, ZenonT(30) DEF sum, dif
  <2>9. CASE y < 2
    <3>1. LET s == AddByte(a, b, c)   r == Daa(s.v, s.f)
          IN  IsBcd(r.v) /\ Decimal(r.v) = sum % 100 /\ (FlagC \in r.f <=> sum > 99)
      BY <2>2, <2>5, DaaAddsDecimals
    <3>2. Combined = AddByte(a, b, c) /\ exact = sum
      BY <2>6, <2>9
    <3>3. A = Daa(AddByte(a, b, c).v, AddByte(a, b, c).f).v /\ F = Daa(AddByte(a, b, c).v, AddByte(a, b, c).f).f
      BY <2>1, <3>2 DEF Adjusted
    <3> HIDE DEF sum, exact
    <3> QED BY <2>8, <3>1, <3>2, <3>3
  <2>10. CASE ~(y < 2)
    <3>1. LET s == SubByte(a, b, c)   r == Daa(s.v, s.f)
          IN  IsBcd(r.v) /\ Decimal(r.v) = dif % 100 /\ (FlagC \in r.f <=> dif < 0)
      BY <2>2, <2>5, DaaSubtractsDecimals
    <3>2. Combined = SubByte(a, b, c) /\ exact = dif
      BY <2>6, <2>10
    <3>3. A = Daa(SubByte(a, b, c).v, SubByte(a, b, c).f).v /\ F = Daa(SubByte(a, b, c).v, SubByte(a, b, c).f).f
      BY <2>1, <3>2 DEF Adjusted
    <3> HIDE DEF dif, exact
    <3> QED BY <2>8, <3>1, <3>2, <3>3
  <2> QED BY <2>9, <2>10, SMTT(60)
<1> QED BY <1>1, <1>2, <1>3, ExecInductive, LoadInductive, PTL DEF Spec

-----------------------------------------------------------------------------
(* The loop.                                                               *)

(* The instruction in progress is op of the main table.                    *)
Starts(op) == stage = "start" /\ subset = "NONE" /\ mod = "NONE" /\ regs.instr = op

(* The program has fetched n opcodes: R counts them in seven bits.         *)
Ticked(n) ==
    /\ Lo(regs.IR) % 128 = (Lo(load.regs.IR) + n) % 128
    /\ Hi(regs.IR) = Hi(load.regs.IR)

(* A refresh is one more fetch.                                            *)
LEMMA Ticks ==
    ASSUME NEW n \in Nat, Ticked(n), regs.IR \in Word, load.regs.IR \in Word,
           regs'.IR = Refreshed(regs.IR), load' = load
    PROVE  Ticked(n + 1)'
<1> DEFINE w == regs.IR
           h == Hi(w)
           t == (w + 1) % 128
           l == Lo(load.regs.IR)
<1>1. h \in Byte /\ Lo(w) \in Byte /\ l \in Byte /\ w = 256 * h + Lo(w)
  BY HalvesOf DEF WordOf
<1>2. t \in Byte /\ t < 128 /\ t = ((Lo(w) % 128) + 1) % 128
  <2>1. ASSUME NEW i \in Byte, NEW j \in Byte
        PROVE  /\ (256 * i + j + 1) % 128 \in Byte /\ (256 * i + j + 1) % 128 < 128
               /\ (256 * i + j + 1) % 128 = ((j % 128) + 1) % 128
    BY SMT DEF Byte
  <2> HIDE DEF w, h
  <2>2. t = (256 * h + Lo(w) + 1) % 128
    BY <1>1
  <2> HIDE DEF t
  <2> QED BY <1>1, <2>1, <2>2
<1>3. regs'.IR = WordOf(h, t)
  BY DEF Refreshed
<1> HIDE DEF t, h
<1>4. Hi(regs'.IR) = h /\ Lo(regs'.IR) = t
  BY <1>1, <1>2, <1>3, Joined
<1>5. Lo(w) % 128 = (l + n) % 128
  BY DEF Ticked
<1> HIDE DEF l
<1>6. t = (l + n + 1) % 128 /\ t % 128 = t
  <2>1. (((l + n) % 128) + 1) % 128 = (l + n + 1) % 128
    BY <1>1, SMT DEF Byte
  <2>2. t = (((l + n) % 128) + 1) % 128
    BY <1>2, <1>5
  <2>3. t % 128 = t
    BY <1>2, SMT DEF Byte
  <2> QED BY <2>1, <2>2, <2>3
<1>7. l + (n + 1) = l + n + 1
  BY <1>1, SMT DEF Byte
<1> QED BY <1>2, <1>4, <1>6, <1>7 DEF Ticked, l, h

Loops == Op(0) = 19 /\ Op(1) = 16

Passes == IF Hi(load.regs.BC) = 0 THEN 256 ELSE Hi(load.regs.BC)

(* DE has been incremented d times and B decremented b times.              *)
Looped(d, b) == regs.DE = Word16(load.regs.DE + d) /\ B = Byte8(Hi(load.regs.BC) - b)

(* Where the program is in its pass behind k others, or behind the last.   *)
LoopPhase ==
    \/ \E k \in 0..Passes - 1 :
         \/ stage = "fetch" /\ regs.PC = Start /\ Looped(k, k) /\ Ticked(2 * k)
         \/ stage = "start" /\ regs.PC = Word16(Start + 1) /\ regs.instr = 19 /\ Looped(k, k) /\ Ticked(2 * k + 1)
         \/ stage = "fetch" /\ regs.PC = Word16(Start + 1) /\ Looped(k + 1, k) /\ Ticked(2 * k + 1)
         \/ stage = "start" /\ regs.PC = Word16(Start + 2) /\ regs.instr = 16 /\ Looped(k + 1, k) /\ Ticked(2 * k + 2)
    \/ stage = "fetch" /\ regs.PC = Word16(Start + 3) /\ regs.DE = Word16(load.regs.DE + Passes) /\ Ticked(2 * Passes)

LoopInv ==
    Loops =>
      /\ irq = {} /\ mem = load.mem /\ Op(2) = 253
      /\ DOMAIN load.mem = {Start, Word16(Start + 1), Word16(Start + 2)}
      /\ subset = "NONE" /\ mod = "NONE"
      /\ LoopPhase

(* INC DE as a step.                                                       *)
LEMMA IncDe ==
    ASSUME IInv, Next, Starts(19)
    PROVE  /\ regs'.DE = Word16(regs.DE + 1)
           /\ \A n \in Pairs \ {"DE"} : regs'[n] = regs[n]
           /\ stage' = "fetch" /\ subset' = "NONE" /\ mod' = "NONE" /\ UNCHANGED <<mem, irq, load>>
<1>1. X = 0 /\ Z = 3 /\ Y = 2 /\ regs.instr \notin PrefixBytes
  BY SMT DEF Starts, X, Y, Z, PrefixBytes
<1>2. IncDecWord
  BY <1>1, MainActs, SMT DEF Starts, Executing, Quadrant0, Nop, ExAf, Djnz, Jr, LdWordImm, AddHl, LdA, LdWordAt,
     IncDecByte, LdByteImm, Accumulator, Main
<1>3. Reg16(Y \div 2) = "DE" /\ Y % 2 # 1
  BY <1>1, SMT DEF Reg16
<1>4. Quiet([regs EXCEPT !["DE"] = Word16(@ + 1)], mem)
  BY <1>2, <1>3 DEF IncDecWord
<1> DEFINE w == Word16(regs.DE + 1)
<1>5. regs' = [[regs EXCEPT !["DE"] = w] EXCEPT !.Q = 0]
  BY <1>4 DEF Quiet, Flagged, Retire
<1> HIDE DEF w
<1>6. regs'.DE = w /\ \A n \in Pairs \ {"DE"} : regs'[n] = regs[n]
  <2>1. RegisterFile(regs)
    BY Facts
  <2>2. \A n \in Pairs : n \in DOMAIN regs /\ n # "Q"
    BY <2>1, SMT DEF RegisterFile, Names, Pairs
  <2> QED BY <1>5, <2>2 DEF Pairs
<1> QED BY <1>4, <1>6 DEF Quiet, Flagged, Retire, w

(* DJNZ as a step.                                                         *)
LEMMA DjnzIs ==
    ASSUME IInv, Next, Starts(16)
    PROVE  LET b == Byte8(B - 1)   next == Word16(regs.PC + 1)
           IN  /\ B' = b
               /\ regs'.PC = IF b # 0 THEN Word16(next + Signed(Imm8)) ELSE next
               /\ \A n \in Pairs \ {"BC", "PC"} : regs'[n] = regs[n]
               /\ stage' = "fetch" /\ subset' = "NONE" /\ mod' = "NONE" /\ UNCHANGED <<mem, irq, load>>
<1>1. X = 0 /\ Z = 0 /\ Y = 2 /\ regs.instr \notin PrefixBytes
  BY SMT DEF Starts, X, Y, Z, PrefixBytes
<1>2. Djnz
  BY <1>1, MainActs, SMT DEF Starts, Executing, Quadrant0, Nop, ExAf, Jr, LdWordImm, AddHl, LdA, LdWordAt,
     IncDecWord, IncDecByte, LdByteImm, Accumulator, Main
<1> DEFINE b == Byte8(B - 1)
           bc == WordOf(b, Lo(regs.BC))
           r == [regs EXCEPT !["BC"] = bc]
           next == Word16(regs.PC + 1)
           to == Word16(next + Signed(Imm8))
<1>3. Reg8(0) = <<"BC", "hi">>
  BY SMT DEF Reg8, Reg8NoMod
<1>4. Put(regs, Reg8(0), b) = r
  <2>1. \A v : Put(regs, <<"BC", "hi">>, v) = [regs EXCEPT !["BC"] = WordOf(v, Lo(regs.BC))]
    BY DEF Put
  <2> QED BY <1>3, <2>1
<1>5. RegisterFile(regs) /\ b \in Byte /\ Lo(regs.BC) \in Byte
  <2>1. RegisterFile(regs) /\ B \in Byte
    BY Facts
  <2>2. B - 1 \in Int
    BY <2>1, SMT DEF Byte
  <2> QED BY <2>1, <2>2, Wraps, Values DEF Pairs
<1> HIDE DEF b
<1>6. Hi(bc) = b
  BY <1>5, Joined
<1> HIDE DEF bc
<1>7. r.BC = bc /\ r.PC = regs.PC
  BY <1>5, SMT DEF RegisterFile, Names, Pairs
<1>8. Branch(r, Hi(r.BC) # 0)
  BY <1>2, <1>4 DEF Djnz, b
<1> HIDE DEF r
<1>9. Ahead(r, 1) = [r EXCEPT !.PC = next]
  BY <1>7 DEF Ahead
<1> DEFINE s == [r EXCEPT !.PC = next]
           q == IF b # 0 THEN [s EXCEPT !.PC = to, !.MEMPTR = to] ELSE s
<1>10. DOMAIN r = Names
  BY <1>5 DEF r, RegisterFile
<1>11. s.PC = next
  BY <1>10, SMT DEF Names, Pairs
<1>12. Quiet(q, mem)
  BY <1>6, <1>7, <1>8, <1>9, <1>11 DEF Branch
<1>13. regs' = [q EXCEPT !.Q = 0]
  BY <1>12 DEF Quiet, Flagged, Retire
<1> HIDE DEF to, next
<1>14. \A n \in Pairs : n \in Names /\ n # "Q" /\ n # "MEMPTR"
  BY SMT DEF Names, Pairs
<1>15. DOMAIN s = Names /\ DOMAIN q = Names
  BY <1>10
<1>16. q.PC = (IF b # 0 THEN to ELSE next) /\ \A n \in Pairs \ {"PC"} : q[n] = r[n]
  BY <1>10, <1>14, <1>15, <1>11 DEF Pairs
<1> HIDE DEF q
<1>17. \A n \in Pairs : regs'[n] = q[n]
  BY <1>13, <1>14, <1>15
<1>18. \A n \in Pairs \ {"BC", "PC"} : regs'[n] = regs[n]
  <2>1. \A n \in Pairs \ {"BC"} : r[n] = regs[n]
    BY <1>5, <1>14 DEF r, RegisterFile
  <2> QED BY <1>16, <1>17, <2>1
<1>19. regs'.BC = bc /\ regs'.PC = IF b # 0 THEN to ELSE next
  BY <1>7, <1>16, <1>17 DEF Pairs
<1>20. B' = b
  BY <1>6, <1>19 DEF B
<1> QED BY <1>12, <1>18, <1>19, <1>20 DEF Quiet, Flagged, Retire, b, to, next

(* Counters that wrap count like numbers.                                  *)
LEMMA Onwards ==
    ASSUME NEW a \in Int, NEW k \in Int
    PROVE  /\ Word16(Word16(a + k) + 1) = Word16(a + (k + 1))
           /\ Word16(Word16(a - k) - 1) = Word16(a - (k + 1))
           /\ Byte8(Byte8(a - k) - 1) = Byte8(a - (k + 1))
<1>1. \A x \in Int : Word16(Word16(x) + 1) = Word16(x + 1) /\ Word16(Word16(x) - 1) = Word16(x - 1)
                     /\ Byte8(Byte8(x) - 1) = Byte8(x - 1)
  BY SMT DEF Word16, Byte8
<1>2. a + k \in Int /\ a - k \in Int /\ (a + k) + 1 = a + (k + 1) /\ (a - k) - 1 = a - (k + 1)
  BY SMT
<1> QED BY <1>1, <1>2

(* B is 0 for the first time behind the last pass.                         *)
LEMMA LastPass ==
    ASSUME LoadOK, NEW k \in 0..Passes - 1
    PROVE  /\ Passes \in 1..256 /\ k \in Nat /\ k + 1 \in Nat
           /\ Byte8(Hi(load.regs.BC) - (k + 1)) # 0 <=> k + 1 \in 0..Passes - 1
           /\ Byte8(Hi(load.regs.BC) - (k + 1)) = 0 <=> k + 1 = Passes
<1> DEFINE b == Hi(load.regs.BC)
           d == b - (k + 1)
<1>1. b \in Byte
  BY Values DEF LoadOK, Pairs
<1>2. Passes = IF b = 0 THEN 256 ELSE b
  BY DEF Passes
<1> HIDE DEF b
<1>3. Passes \in 1..256 /\ k \in Nat /\ k + 1 \in Nat
  BY <1>1, <1>2, SMT DEF Byte
<1>4. CASE b = 0
  <2>1. d \in -256..-1
    BY <1>2, <1>4, SMT
  <2>2. \A x \in -256..-1 : x % 256 = x + 256
    BY SMT
  <2>3. Byte8(d) = d + 256
    BY <2>1, <2>2 DEF Byte8
  <2>4. d = 0 - (k + 1) /\ Passes = 256
    BY <1>2, <1>4
  <2>5. (d + 256 # 0 <=> k + 1 \in 0..Passes - 1) /\ (d + 256 = 0 <=> k + 1 = Passes)
    BY <1>3, <2>4, SMT
  <2> HIDE DEF d
  <2>6. (Byte8(d) # 0 <=> k + 1 \in 0..Passes - 1) /\ (Byte8(d) = 0 <=> k + 1 = Passes)
    BY <2>3, <2>5
  <2> QED BY <1>3, <2>6 DEF d, b
<1>5. CASE b # 0
  <2>1. d \in 0..255 /\ Byte8(d) = d
    BY <1>1, <1>2, <1>5, SMT DEF Byte, Byte8
  <2>2. (d # 0 <=> k + 1 \in 0..Passes - 1) /\ (d = 0 <=> k + 1 = Passes)
    BY <1>1, <1>2, <1>3, <1>5, SMT DEF Byte
  <2> HIDE DEF d
  <2>3. (Byte8(d) # 0 <=> k + 1 \in 0..Passes - 1) /\ (Byte8(d) = 0 <=> k + 1 = Passes)
    BY <2>1, <2>2
  <2> QED BY <1>3, <2>3 DEF d, b
<1> QED BY <1>4, <1>5

(* The program goes on as it should.                                       *)
LEMMA LoopStep ==
    ASSUME IInv, LoadOK, LoopInv, Loops, Next
    PROVE  LoopInv'
<1>1. load' = load /\ irq = {}
  BY LoadKept DEF LoopInv
<1>2. Start \in Word /\ load.regs.IR \in Word /\ load.regs.DE \in Int /\ Hi(load.regs.BC) \in Int
  <2>1. load.regs.PC \in Word /\ load.regs.IR \in Word /\ load.regs.DE \in Word /\ Hi(load.regs.BC) \in Byte
    BY Values DEF LoadOK, Pairs
  <2> QED BY <2>1, SMT DEF Start, Word, Byte
<1>3. /\ DOMAIN mem = {Start, Word16(Start + 1), Word16(Start + 2)} /\ mem = load.mem
      /\ subset = "NONE" /\ mod = "NONE"
  BY DEF LoopInv
<1>4. Op(0) = mem[Start] /\ Op(1) = mem[Word16(Start + 1)] /\ Op(2) = mem[Word16(Start + 2)]
  BY <1>2, <1>3, Cells DEF Op
<1>5. /\ Op(0)' = Op(0) /\ Op(1)' = Op(1) /\ Op(2)' = Op(2) /\ Start' = Start /\ Loops' = Loops
      /\ Passes' = Passes
  BY <1>1 DEF Op, Start, Loops, Passes
<1> DEFINE Still == irq' = {} /\ mem' = mem /\ subset' = "NONE" /\ mod' = "NONE"
<1>6. ASSUME Still, LoopPhase' PROVE LoopInv'
  BY <1>1, <1>3, <1>5, <1>6 DEF LoopInv
<1>7. RegisterFile(regs) /\ regs.IR \in Word
  BY Facts DEF Pairs
<1>8. ASSUME NEW k \in 0..Passes - 1, stage = "fetch", regs.PC = Start, Looped(k, k), Ticked(2 * k)
      PROVE  LoopInv'
  <2>1. Fetch
    BY <1>1, <1>3, <1>8, TakesFetch
  <2>2. /\ regs'.PC = Word16(Start + 1) /\ regs'.instr = 19 /\ regs'.IR = Refreshed(regs.IR)
        /\ regs'.DE = regs.DE /\ regs'.BC = regs.BC /\ stage' = "start" /\ Still
    BY <1>1, <1>3, <1>4, <1>8, <2>1, AfterFetch DEF Pairs, Loops
  <2>3. 2 * k \in Nat
    BY <1>8, LastPass, SMT
  <2>4. Ticked(2 * k + 1)'
    BY <1>1, <1>2, <1>7, <1>8, <2>2, <2>3, Ticks
  <2>5. Looped(k, k)'
    BY <1>1, <1>8, <2>2 DEF Looped, B
  <2>6. LoopPhase'
    BY <1>5, <2>2, <2>4, <2>5 DEF LoopPhase
  <2> QED BY <1>6, <2>2, <2>6
<1>9. ASSUME NEW k \in 0..Passes - 1, stage = "start", regs.PC = Word16(Start + 1), regs.instr = 19,
             Looped(k, k), Ticked(2 * k + 1)
      PROVE  LoopInv'
  <2>1. Starts(19)
    BY <1>3, <1>9 DEF Starts
  <2>2. /\ regs'.DE = Word16(regs.DE + 1) /\ regs'.PC = regs.PC /\ regs'.BC = regs.BC /\ regs'.IR = regs.IR
        /\ stage' = "fetch" /\ Still
    BY <1>1, <2>1, IncDe DEF Pairs
  <2>3. Ticked(2 * k + 1)'
    BY <1>1, <1>9, <2>2 DEF Ticked
  <2>4. Looped(k + 1, k)'
    <3>1. k \in Int
      BY SMT
    <3> QED BY <1>1, <1>2, <1>9, <2>2, <3>1, Onwards DEF Looped, B
  <2>5. LoopPhase'
    BY <1>5, <1>9, <2>2, <2>3, <2>4 DEF LoopPhase
  <2> QED BY <1>6, <2>2, <2>5
<1>10. ASSUME NEW k \in 0..Passes - 1, stage = "fetch", regs.PC = Word16(Start + 1),
              Looped(k + 1, k), Ticked(2 * k + 1)
       PROVE  LoopInv'
  <2>1. Fetch
    BY <1>1, <1>3, <1>10, TakesFetch
  <2>2. /\ regs'.PC = Word16(Start + 2) /\ regs'.instr = 16 /\ regs'.IR = Refreshed(regs.IR)
        /\ regs'.DE = regs.DE /\ regs'.BC = regs.BC /\ stage' = "start" /\ Still
    BY <1>1, <1>2, <1>3, <1>4, <1>10, <2>1, AfterFetch, Cells DEF Pairs, Loops
  <2>3. 2 * k + 1 \in Nat /\ (2 * k + 1) + 1 = 2 * k + 2
    BY <1>10, LastPass, SMT
  <2>4. Ticked(2 * k + 2)'
    BY <1>1, <1>2, <1>7, <1>10, <2>2, <2>3, Ticks
  <2>5. Looped(k + 1, k)'
    BY <1>1, <1>10, <2>2 DEF Looped, B
  <2>6. LoopPhase'
    BY <1>5, <2>2, <2>4, <2>5 DEF LoopPhase
  <2> QED BY <1>6, <2>2, <2>6
<1>11. ASSUME NEW k \in 0..Passes - 1, stage = "start", regs.PC = Word16(Start + 2), regs.instr = 16,
              Looped(k + 1, k), Ticked(2 * k + 2)
       PROVE  LoopInv'
  <2>1. Starts(16)
    BY <1>3, <1>11 DEF Starts
  <2> DEFINE b == Byte8(B - 1)
             next == Word16(regs.PC + 1)
  <2>2. /\ B' = b /\ regs'.PC = IF b # 0 THEN Word16(next + Signed(Imm8)) ELSE next
        /\ regs'.DE = regs.DE /\ regs'.IR = regs.IR /\ stage' = "fetch" /\ Still
    BY <1>1, <2>1, DjnzIs DEF Pairs
  <2>3. next = Word16(Start + 3)
    BY <1>2, <1>11, Cells
  <2>4. Word16(next + Signed(Imm8)) = Start
    <3>1. Imm8 = 253
      <4>1. Word16(Word16(Start + 2)) = Word16(Start + 2)
        BY <1>2, Cells, WordKept
      <4> QED BY <1>3, <1>4, <1>11, <4>1 DEF LoopInv, Imm8, Peek
    <3> QED BY <1>2, <2>3, <3>1, SMT DEF Word, Word16, Signed
  <2>5. b = Byte8(Hi(load.regs.BC) - (k + 1))
    <3>1. k \in Int
      BY SMT
    <3> QED BY <1>2, <1>11, <3>1, Onwards DEF Looped
  <2>6. Ticked(2 * k + 2)' /\ regs'.DE = Word16(load.regs.DE + (k + 1))
    BY <1>1, <1>11, <2>2 DEF Ticked, Looped
  <2>7. CASE b # 0
    <3>1. k + 1 \in 0..Passes - 1
      BY <2>5, <2>7, LastPass
    <3>2. Looped(k + 1, k + 1)' /\ 2 * (k + 1) = 2 * k + 2
      BY <1>1, <2>2, <2>5, <2>6, SMT DEF Looped
    <3>3. \E i \in 0..Passes - 1 : stage' = "fetch" /\ regs'.PC = Start /\ Looped(i, i)' /\ Ticked(2 * i)'
      BY <2>2, <2>4, <2>6, <2>7, <3>1, <3>2
    <3>4. LoopPhase'
      BY <1>5, <3>3 DEF LoopPhase
    <3> QED BY <1>6, <2>2, <3>4
  <2>8. CASE b = 0
    <3>1. k + 1 = Passes
      BY <2>5, <2>8, LastPass
    <3>2. 2 * Passes = 2 * k + 2
      BY <3>1, SMT
    <3>3. LoopPhase'
      BY <1>1, <1>5, <2>2, <2>3, <2>6, <2>8, <3>1, <3>2 DEF LoopPhase
    <3> QED BY <1>6, <2>2, <3>3
  <2> QED BY <2>7, <2>8
<1>12. ASSUME stage = "fetch", regs.PC = Word16(Start + 3),
              regs.DE = Word16(load.regs.DE + Passes), Ticked(2 * Passes)
       PROVE  LoopInv'
  <2>1. UNCHANGED vars
    BY <1>1, <1>2, <1>3, <1>12, Cells, HasStopped
  <2>2. regs' = regs /\ stage' = stage /\ Still
    BY <1>1, <1>3, <2>1 DEF vars
  <2>3. Ticked(2 * Passes)'
    BY <1>1, <1>5, <1>12, <2>2 DEF Ticked
  <2>4. LoopPhase'
    BY <1>1, <1>5, <1>12, <2>2, <2>3 DEF LoopPhase
  <2> QED BY <1>6, <2>2, <2>4
<1> QED BY <1>8, <1>9, <1>10, <1>11, <1>12 DEF LoopInv, LoopPhase

(* So its invariant is one.                                                *)
LEMMA LoopInductive ==
    ASSUME LoopsAlone
    PROVE  Spec => []LoopInv
<1>1. Init => LoopInv
  <2> SUFFICES ASSUME Init, Loops PROVE LoopInv
    BY DEF LoopInv
  <2>1. PICK p \in Programs : regs \in p.regs /\ mem = p.mem /\ irq = p.irq
    BY DEF Init
  <2>2. load.regs = regs /\ load.mem = mem /\ load.irq = irq /\ stage = "fetch" /\ subset = "NONE" /\ mod = "NONE"
    BY DEF Init
  <2>3. RegisterFile(regs)
    BY <2>1, ProgramsTyped DEF ProgramsAssumption
  <2>4. Start = regs.PC /\ Start \in Word /\ regs.DE \in Word /\ B \in Byte /\ Lo(regs.IR) \in Byte
    BY <2>2, <2>3, Values DEF Start, Pairs, B
  <2>5. Op(0) = Loaded(p, regs.PC) /\ Op(1) = Loaded(p, regs.PC + 1) /\ Op(2) = Loaded(p, regs.PC + 2)
    BY <2>1, <2>2, <2>4, SMT DEF Op, Loaded, Word
  <2>6. irq = {} /\ DOMAIN load.mem = {Word16(Start + i) : i \in 0..2} /\ Op(2) = 253
    BY <2>1, <2>2, <2>4, <2>5 DEF Loops, LoopsAlone
  <2>7. DOMAIN load.mem = {Start, Word16(Start + 1), Word16(Start + 2)}
    <3>1. 0..2 = {0, 1, 2}
      BY SMT
    <3>2. DOMAIN load.mem = {Word16(Start + 0), Word16(Start + 1), Word16(Start + 2)}
      BY <2>6, <3>1
    <3> QED BY <2>4, <3>2, Cells
  <2>8. Looped(0, 0) /\ Ticked(2 * 0)
    <3>1. Word16(load.regs.DE + 0) = regs.DE /\ Byte8(Hi(load.regs.BC) - 0) = B
      BY <2>2, <2>4, SMT DEF Word16, Word, Byte8, Byte, B
    <3>2. Lo(load.regs.IR) + 2 * 0 = Lo(regs.IR)
      BY <2>2, <2>4, SMT DEF Byte
    <3> QED BY <2>2, <3>1, <3>2 DEF Looped, Ticked
  <2>9. 0 \in 0..Passes - 1
    BY <2>2, <2>4, SMT DEF Passes, B, Byte
  <2>10. LoopPhase
    BY <2>2, <2>4, <2>8, <2>9 DEF LoopPhase
  <2> QED BY <2>2, <2>6, <2>7, <2>10 DEF LoopInv
<1>2. IInv /\ LoadOK /\ LoopInv /\ [Next]_vars => LoopInv'
  <2> SUFFICES ASSUME IInv, LoadOK, LoopInv, [Next]_vars PROVE LoopInv'
    OBVIOUS
  <2>1. CASE UNCHANGED vars
    <3>1. load' = load /\ regs' = regs /\ mem' = mem /\ irq' = irq /\ stage' = stage /\ subset' = subset /\ mod' = mod
      BY <2>1 DEF vars
    <3>2. /\ Start' = Start /\ Op(0)' = Op(0) /\ Op(2)' = Op(2) /\ Loops' = Loops /\ Passes' = Passes
          /\ \A d, b : Looped(d, b)' = Looped(d, b)
          /\ \A n : Ticked(n)' = Ticked(n)
      BY <3>1 DEF Start, Op, Loops, Passes, Looped, Ticked, B
    <3>3. LoopPhase' = LoopPhase
      BY <3>1, <3>2 DEF LoopPhase
    <3> QED BY <3>1, <3>2, <3>3 DEF LoopInv
  <2>2. CASE Next /\ Loops
    BY <2>2, LoopStep
  <2>3. CASE ~Loops
    BY <2>3, LoadKept DEF LoopInv, Loops, Op, Start
  <2> QED BY <2>1, <2>2, <2>3
<1> QED BY <1>1, <1>2, ExecInductive, LoadInductive, PTL DEF Spec

(* The loop around DJNZ makes as many rounds as B says, 256 for 0.         *)
THEOREM ExecLoopRounds ==
    ASSUME LoopsAlone
    PROVE  Spec => []LoopRounds
<1>1. LoopInv => LoopRounds
  <2> SUFFICES ASSUME LoopInv, Loops, HasEnded PROVE regs.DE = Word16(load.regs.DE + Passes)
    BY DEF LoopRounds, Loops, Passes
  <2>1. regs.PC # Start /\ regs.PC # Word16(Start + 1) /\ stage # "start"
    BY DEF HasEnded, LoopInv
  <2> QED BY <2>1 DEF LoopInv, LoopPhase
<1> QED BY <1>1, LoopInductive, PTL

-----------------------------------------------------------------------------
(* Behind DD CB and FD CB.                                                 *)

(* At a prefix the step is the prefix's.                                   *)
LEMMA TakesPrefix ==
    ASSUME Next, stage = "start", subset = "NONE", regs.instr \in PrefixBytes
    PROVE  Prefix
<1>1. ~ServeNmi /\ ~AcceptInt /\ ~Ended /\ ~Fetch /\ ~HaltedFetch /\ ~Displaced /\ ~IntResponse
  BY DEF ServeNmi, AcceptInt, Between, Ended, Stopped, Fetch, HaltedFetch, Displaced, IntResponse
<1>3. ~Quadrant0
  BY DEF Quadrant0, Main, Nop, ExAf, Djnz, Jr, LdWordImm, AddHl, LdA, LdWordAt,
         IncDecWord, IncDecByte, LdByteImm, Accumulator
<1>4. ~Quadrant12
  BY DEF Quadrant12, Main, Halt, PrefixedHalt, LdReg, LdRegMem, LdMemReg, AluReg, AluMem
<1>5. ~Quadrant3
  BY DEF Quadrant3, Main, RetCc, Ret, Pop, Push, Exx, JpHl, LdSpHl, Jp, OutA, InA,
         ExSpHl, ExDeHl, Di, Ei, Call, Rst, AluImm
<1>6. ~SubsetCB /\ ~SubsetED
  BY DEF SubsetCB, ShiftRotate, BitTest, Res, Set, Cb, SubsetED, InC, OutC, AdcSbcHl, Neg, Retn, Im,
         LdIr, RotateDigits, EdNop, BlockLd, BlockCp, BlockIn, BlockOut, Block, Ed
<1> QED BY <1>1, <1>3, <1>4, <1>5, <1>6 DEF Next, Cpu

(* At the displacement of DD CB d it is the one that reads it.             *)
LEMMA TakesDisplacement ==
    ASSUME Next, stage = "displaced"
    PROVE  Displaced
<1>1. ~ServeNmi /\ ~AcceptInt /\ ~Ended /\ ~Fetch /\ ~HaltedFetch /\ ~Prefix /\ ~IntResponse
  BY DEF ServeNmi, AcceptInt, Between, Ended, Stopped, Fetch, HaltedFetch, Prefix, IntResponse
<1>3. ~Quadrant0
  BY DEF Quadrant0, Main, Nop, ExAf, Djnz, Jr, LdWordImm, AddHl, LdA, LdWordAt,
         IncDecWord, IncDecByte, LdByteImm, Accumulator
<1>4. ~Quadrant12
  BY DEF Quadrant12, Main, Halt, PrefixedHalt, LdReg, LdRegMem, LdMemReg, AluReg, AluMem
<1>5. ~Quadrant3
  BY DEF Quadrant3, Main, RetCc, Ret, Pop, Push, Exx, JpHl, LdSpHl, Jp, OutA, InA,
         ExSpHl, ExDeHl, Di, Ei, Call, Rst, AluImm
<1>6. ~SubsetCB /\ ~SubsetED
  BY DEF SubsetCB, ShiftRotate, BitTest, Res, Set, Cb, SubsetED, InC, OutC, AdcSbcHl, Neg, Retn, Im,
         LdIr, RotateDigits, EdNop, BlockLd, BlockCp, BlockIn, BlockOut, Block, Ed
<1> QED BY <1>1, <1>3, <1>4, <1>5, <1>6 DEF Next, Cpu

(* Storing flags changes no pair but AF.                                   *)
LEMMA FlagsKeep ==
    ASSUME NEW r, RegisterFile(r), NEW f
    PROVE  \A n \in Pairs \ {"AF"} : WithFlags(r, f)[n] = r[n]
<1>1. \A n \in Pairs \ {"AF"} : n \in DOMAIN r /\ n # "Q"
  BY SMT DEF RegisterFile, Names, Pairs
<1> QED BY <1>1 DEF WithFlags

(* The operations of CB leave PC and R.                                    *)
LEMMA CbKeeps ==
    ASSUME IInv, SubsetCB
    PROVE  /\ regs'.PC = regs.PC /\ regs'.IR = regs.IR
           /\ stage' = "fetch" /\ subset' = "NONE" /\ mod' = "NONE" /\ UNCHANGED <<irq, load>>
<1> DEFINE Same(r) == r.PC = regs.PC /\ r.IR = regs.IR
<1>0. RegisterFile(regs) /\ Z \in 0..7
  BY Facts
<1>a. "PC" \in Pairs \ {"AF"} /\ "IR" \in Pairs \ {"AF"} /\ "PC" # "Q" /\ "IR" # "Q"
  BY SMT DEF Pairs
<1>1. \A r, f : RegisterFile(r) /\ Same(r) => Same(WithFlags(r, f))
  BY <1>a, FlagsKeep
<1>2. ASSUME NEW v \in Byte PROVE RegisterFile(CbRegs(v)) /\ Same(CbRegs(v))
  <2>1. CASE Z = 6
    BY <1>0, <2>1 DEF CbRegs
  <2>2. CASE Z # 6
    <3>1. Reg8NoMod(Z)[1] \in {"BC", "DE", "HL", "AF"}
      BY <1>0, <2>2, SMT DEF Reg8NoMod
    <3> DEFINE n == Reg8NoMod(Z)
               w == IF n[2] = "hi" THEN WordOf(v, Lo(regs[n[1]])) ELSE WordOf(Hi(regs[n[1]]), v)
    <3>2. Put(regs, n, v) = [regs EXCEPT ![n[1]] = w]
      BY DEF Put
    <3>3. RegisterFile(Put(regs, n, v))
      BY <1>0, <3>1, PutFile DEF Pairs
    <3> HIDE DEF w
    <3>4. Same(Put(regs, n, v))
      <4>1. n[1] # "PC" /\ n[1] # "IR"
        BY <3>1
      <4>2. "PC" \in DOMAIN regs /\ "IR" \in DOMAIN regs
        BY <1>0, SMT DEF RegisterFile, Names, Pairs
      <4> HIDE DEF n
      <4> QED BY <3>2, <4>1, <4>2
    <3>5. CbRegs(v) = Put(regs, n, v)
      BY <2>2 DEF CbRegs
    <3> QED BY <3>3, <3>4, <3>5
  <2> QED BY <2>1, <2>2
<1>3. \A r : RegisterFile(r) /\ Same(r) => Same([r EXCEPT !.Q = 0])
  BY <1>a, SMT DEF RegisterFile, Names, Pairs
<1>4. ASSUME NEW r, NEW m, RegisterFile(r), Same(r), Quiet(r, m)
      PROVE  Same(regs')
  BY <1>3, <1>4 DEF Quiet, Flagged, Retire
<1>5. CbOperand \in Byte
  BY <1>0, Facts, Gotten DEF CbOperand, InMemory
<1>6. CASE ShiftRotate
  <2> DEFINE res == ShiftRot(Y, CbOperand, F)
  <2>1. res.v \in Byte
    BY <1>5, Facts, ShiftedByte, CarryIs DEF ShiftRot, Result
  <2>2. regs' = WithFlags(CbRegs(res.v), res.f)
    BY <1>6 DEF ShiftRotate, Flagged, Retire
  <2> HIDE DEF res
  <2>3. Same(regs')
    BY <1>1, <1>2, <2>1, <2>2
  <2> QED BY <1>6, <2>3 DEF ShiftRotate, Flagged, Retire
<1>7. CASE BitTest
  <2>1. \E f : regs' = WithFlags(regs, f)
    BY <1>7 DEF BitTest, Flagged, Retire
  <2>2. Same(regs')
    BY <1>0, <1>1, <2>1
  <2> QED BY <1>7, <2>2 DEF BitTest, Flagged, Retire
<1>8. CASE Res
  <2>1. ResBit(Y, CbOperand) \in Byte
    BY NumOfByte DEF ResBit
  <2>2. Same(regs')
    BY <1>2, <1>4, <1>8, <2>1 DEF Res
  <2> QED BY <1>8, <2>2 DEF Res, Quiet, Flagged, Retire
<1>9. CASE Set
  <2>1. SetBit(Y, CbOperand) \in Byte
    BY NumOfByte DEF SetBit
  <2>2. Same(regs')
    BY <1>2, <1>4, <1>9, <2>1 DEF Set
  <2> QED BY <1>9, <2>2 DEF Set, Quiet, Flagged, Retire
<1> QED BY <1>6, <1>7, <1>8, <1>9 DEF SubsetCB

CbIndexed == Op(0) \in {221, 253} /\ Op(1) = 203

(* Where DD CB d op is, and how many opcodes it has fetched.               *)
IndexedPhase ==
    \/ stage = "fetch" /\ subset = "NONE" /\ mod = "NONE" /\ regs.PC = Start /\ Ticked(0)
    \/ stage = "start" /\ subset = "NONE" /\ mod = "NONE" /\ regs.PC = Word16(Start + 1)
         /\ regs.instr = Op(0) /\ Ticked(1)
    \/ stage = "fetch" /\ subset = "NONE" /\ mod # "NONE" /\ regs.PC = Word16(Start + 1) /\ Ticked(1)
    \/ stage = "start" /\ subset = "NONE" /\ mod # "NONE" /\ regs.PC = Word16(Start + 2)
         /\ regs.instr = 203 /\ Ticked(2)
    \/ stage = "displaced" /\ regs.PC = Word16(Start + 2) /\ Ticked(2)
    \/ stage = "start" /\ subset = "CB" /\ regs.PC = Word16(Start + 4) /\ Ticked(2)

IndexedInv ==
    CbIndexed =>
      /\ Word16(Start + 4) \notin DOMAIN load.mem
      /\ irq = load.irq =>
           \/ mem = load.mem /\ IndexedPhase
           \/ stage = "fetch" /\ regs.PC = Word16(Start + 4) /\ Ticked(2)

(* Until an interrupt is raised none has been, and the step raises none.   *)
LEMMA NotRaised ==
    ASSUME LoadOK, [Next]_vars, irq' = load'.irq
    PROVE  load' = load /\ irq = load.irq /\ irq' = irq
BY LoadKept DEF LoadOK

(* What the reading of the displacement does.                              *)
LEMMA AfterDisplaced ==
    ASSUME IInv, Displaced
    PROVE  /\ regs'.PC = Word16(regs.PC + 2) /\ regs'.IR = regs.IR
           /\ stage' = "start" /\ UNCHANGED <<mem, subset, mod, irq, load>>
<1> DEFINE pc == Word16(regs.PC + 2)
<1>1. regs' = [[regs EXCEPT !.PC = pc] EXCEPT !.MEMPTR = HlPtr, !.instr = Peek(regs.PC + 1)]
  BY DEF Displaced, Ahead
<1>2. DOMAIN regs = Names
  BY Facts DEF RegisterFile
<1>3. {"PC", "IR"} \subseteq Names /\ "PC" # "MEMPTR" /\ "PC" # "instr" /\ "IR" # "MEMPTR" /\ "IR" # "instr" /\ "IR" # "PC"
  BY SMT DEF Names, Pairs
<1> HIDE DEF pc
<1>4. regs'.PC = pc /\ regs'.IR = regs.IR
  BY <1>1, <1>2, <1>3
<1> QED BY <1>4 DEF Displaced, pc

(* The program fetches two opcodes, and reads the other two bytes.         *)
LEMMA IndexedStep ==
    ASSUME IInv, LoadOK, IndexedInv, CbIndexed, Next, irq' = load'.irq
    PROVE  IndexedInv'
<1>1. load' = load /\ irq = load.irq /\ irq' = irq
  BY NotRaised
<1>2. Start \in Word /\ load.regs.IR \in Word
  BY Values DEF LoadOK, Start, Pairs
<1>3. DOMAIN mem = DOMAIN load.mem
  BY DEF IInv, TypeOK
<1>4. Op(0) # 255 /\ Op(1) # 255
  BY DEF CbIndexed
<1>5. /\ Start \in DOMAIN mem /\ Word16(Start + 1) \in DOMAIN mem
      /\ Op(0) = load.mem[Start] /\ Op(1) = load.mem[Word16(Start + 1)]
  BY <1>2, <1>3, <1>4, Cells DEF Op, Floating
<1>6. Op(0)' = Op(0) /\ Op(1)' = Op(1) /\ Start' = Start /\ CbIndexed' = CbIndexed
  BY <1>1 DEF Op, Start, CbIndexed
<1>7. Word16(Start + 4) \notin DOMAIN load.mem /\ Word16(Start + 4)' = Word16(Start + 4)
  BY <1>6 DEF IndexedInv
<1>8. ASSUME mem' = load.mem, IndexedPhase' PROVE IndexedInv'
  BY <1>1, <1>6, <1>7, <1>8 DEF IndexedInv
<1>9. regs.IR \in Word
  BY Facts DEF Pairs
<1>10. \A n : regs'.IR = regs.IR /\ Ticked(n) => Ticked(n)'
  BY <1>1 DEF Ticked
<1>11. /\ regs'.IR = Refreshed(regs.IR) /\ Ticked(0) => Ticked(1)'
       /\ regs'.IR = Refreshed(regs.IR) /\ Ticked(1) => Ticked(2)'
  <2>1. 0 \in Nat /\ 1 \in Nat /\ 0 + 1 = 1 /\ 1 + 1 = 2
    BY SMT
  <2>2. Ticked(0) /\ regs'.IR = Refreshed(regs.IR) => Ticked(0 + 1)'
    BY <1>1, <1>2, <1>9, <2>1, Ticks
  <2>3. Ticked(1) /\ regs'.IR = Refreshed(regs.IR) => Ticked(1 + 1)'
    BY <1>1, <1>2, <1>9, <2>1, Ticks
  <2> QED BY <2>1, <2>2, <2>3
<1>12. CASE mem = load.mem /\ stage = "fetch" /\ subset = "NONE" /\ mod = "NONE" /\ regs.PC = Start /\ Ticked(0)
  <2>1. Fetch
    BY <1>1, <1>5, <1>12, TakesFetch
  <2>2. /\ regs'.PC = Word16(Start + 1) /\ regs'.instr = Op(0) /\ regs'.IR = Refreshed(regs.IR) /\ stage' = "start"
        /\ UNCHANGED <<mem, subset, mod>>
    BY <1>5, <1>12, <2>1, AfterFetch
  <2>3. Ticked(1)'
    BY <1>11, <1>12, <2>2
  <2>4. IndexedPhase'
    BY <1>6, <1>12, <2>2, <2>3 DEF IndexedPhase
  <2> QED BY <1>8, <1>12, <2>2, <2>4
<1>13. CASE /\ mem = load.mem /\ stage = "start" /\ subset = "NONE" /\ mod = "NONE" /\ regs.PC = Word16(Start + 1)
            /\ regs.instr = Op(0) /\ Ticked(1)
  <2>1. Prefix
    BY <1>13, TakesPrefix DEF CbIndexed, PrefixBytes
  <2>2. regs' = regs /\ mem' = mem /\ stage' = "fetch" /\ subset' = "NONE" /\ mod' # "NONE"
    BY <1>13, <2>1 DEF Prefix, CbIndexed
  <2>3. Ticked(1)'
    BY <1>10, <1>13, <2>2
  <2>4. IndexedPhase'
    BY <1>6, <1>13, <2>2, <2>3 DEF IndexedPhase
  <2> QED BY <1>8, <1>13, <2>2, <2>4
<1>14. CASE mem = load.mem /\ stage = "fetch" /\ subset = "NONE" /\ mod # "NONE" /\ regs.PC = Word16(Start + 1) /\ Ticked(1)
  <2>1. Fetch
    BY <1>1, <1>5, <1>14, TakesFetch
  <2>2. /\ regs'.PC = Word16(Start + 2) /\ regs'.instr = 203 /\ regs'.IR = Refreshed(regs.IR) /\ stage' = "start"
        /\ UNCHANGED <<mem, subset, mod>>
    BY <1>2, <1>5, <1>14, <2>1, AfterFetch, Cells DEF CbIndexed
  <2>3. Ticked(2)'
    BY <1>11, <1>14, <2>2
  <2>4. IndexedPhase'
    BY <1>6, <1>14, <2>2, <2>3 DEF IndexedPhase
  <2> QED BY <1>8, <1>14, <2>2, <2>4
<1>15. CASE /\ mem = load.mem /\ stage = "start" /\ subset = "NONE" /\ mod # "NONE" /\ regs.PC = Word16(Start + 2)
            /\ regs.instr = 203 /\ Ticked(2)
  <2>1. Prefix
    BY <1>15, TakesPrefix DEF PrefixBytes
  <2>2. regs' = regs /\ mem' = mem /\ stage' = "displaced"
    BY <1>15, <2>1 DEF Prefix
  <2>3. Ticked(2)'
    BY <1>10, <1>15, <2>2
  <2>4. IndexedPhase'
    BY <1>6, <1>15, <2>2, <2>3 DEF IndexedPhase
  <2> QED BY <1>8, <1>15, <2>2, <2>4
<1>16. CASE mem = load.mem /\ stage = "displaced" /\ regs.PC = Word16(Start + 2) /\ Ticked(2)
  <2>1. Displaced /\ subset = "CB"
    BY <1>16, TakesDisplacement DEF IInv, DisplacedAt
  <2>2. /\ regs'.PC = Word16(regs.PC + 2) /\ regs'.IR = regs.IR /\ stage' = "start" /\ mem' = mem
        /\ subset' = "CB"
    BY <2>1, AfterDisplaced
  <2>3. Word16(Word16(Start + 2) + 2) = Word16(Start + 4)
    BY <1>2, SMT DEF Word, Word16
  <2>4. Ticked(2)'
    BY <1>10, <1>16, <2>2
  <2>5. IndexedPhase'
    BY <1>6, <1>16, <2>2, <2>3, <2>4 DEF IndexedPhase
  <2> QED BY <1>8, <1>16, <2>2, <2>5
<1>17. CASE stage = "start" /\ subset = "CB" /\ regs.PC = Word16(Start + 4) /\ Ticked(2)
  <2>1. SubsetCB
    BY <1>17, PrefixedActs DEF Executing
  <2>2. regs'.PC = regs.PC /\ regs'.IR = regs.IR /\ stage' = "fetch"
    BY <2>1, CbKeeps
  <2>3. Ticked(2)'
    BY <1>10, <1>17, <2>2
  <2> QED BY <1>1, <1>6, <1>7, <1>17, <2>2, <2>3 DEF IndexedInv
<1>18. CASE stage = "fetch" /\ regs.PC = Word16(Start + 4) /\ Ticked(2)
  <2>1. UNCHANGED vars
    BY <1>1, <1>3, <1>7, <1>18, HasStopped
  <2>2. regs' = regs /\ stage' = stage
    BY <2>1 DEF vars
  <2>3. Ticked(2)'
    BY <1>10, <1>18, <2>2
  <2> QED BY <1>1, <1>6, <1>7, <1>18, <2>2, <2>3 DEF IndexedInv
<1> QED BY <1>1, <1>12, <1>13, <1>14, <1>15, <1>16, <1>17, <1>18 DEF IndexedInv, IndexedPhase

(* So its invariant is one.                                                *)
LEMMA IndexedInductive ==
    ASSUME IndexedAlone
    PROVE  Spec => []IndexedInv
<1>1. Init => IndexedInv
  <2> SUFFICES ASSUME Init, CbIndexed PROVE IndexedInv
    BY DEF IndexedInv
  <2>1. PICK p \in Programs : regs \in p.regs /\ mem = p.mem
    BY DEF Init
  <2>2. load.regs = regs /\ load.mem = mem /\ load.irq = irq /\ stage = "fetch" /\ subset = "NONE" /\ mod = "NONE"
    BY DEF Init
  <2>3. RegisterFile(regs)
    BY <2>1, ProgramsTyped DEF ProgramsAssumption
  <2>4. Start = regs.PC /\ Start \in Word /\ Lo(regs.IR) \in Byte
    BY <2>2, <2>3, Values DEF Start, Pairs
  <2>5. Op(0) = Loaded(p, regs.PC) /\ Op(1) = Loaded(p, regs.PC + 1)
    BY <2>1, <2>2, <2>4, SMT DEF Op, Loaded, Word
  <2>6. Word16(Start + 4) \notin DOMAIN load.mem
    BY <2>1, <2>2, <2>4, <2>5 DEF CbIndexed, IndexedAlone
  <2>7. Ticked(0)
    <3>1. Lo(load.regs.IR) + 0 = Lo(regs.IR)
      BY <2>2, <2>4, SMT DEF Byte
    <3> QED BY <2>2, <3>1 DEF Ticked
  <2> QED BY <2>2, <2>4, <2>6, <2>7 DEF IndexedInv, IndexedPhase
<1>2. IInv /\ LoadOK /\ IndexedInv /\ [Next]_vars => IndexedInv'
  <2> SUFFICES ASSUME IInv, LoadOK, IndexedInv, [Next]_vars PROVE IndexedInv'
    OBVIOUS
  <2>0. load' = load
    BY LoadKept
  <2>1. CASE UNCHANGED vars
    <3>1. load' = load /\ regs' = regs /\ mem' = mem /\ irq' = irq /\ stage' = stage /\ subset' = subset /\ mod' = mod
      BY <2>1 DEF vars
    <3>2. Start' = Start /\ Op(0)' = Op(0) /\ CbIndexed' = CbIndexed /\ \A n : Ticked(n)' = Ticked(n)
      BY <3>1 DEF Start, Op, CbIndexed, Ticked
    <3>3. IndexedPhase' = IndexedPhase
      BY <3>1, <3>2 DEF IndexedPhase
    <3> QED BY <3>1, <3>2, <3>3 DEF IndexedInv
  <2>2. CASE Next /\ CbIndexed /\ irq' = load'.irq
    BY <2>2, IndexedStep
  <2>3. CASE ~(CbIndexed /\ irq' = load'.irq)
    <3>1. CbIndexed' = CbIndexed /\ Start' = Start
      BY <2>0 DEF CbIndexed, Op, Start
    <3> QED BY <2>0, <2>3, <3>1 DEF IndexedInv
  <2> QED BY <2>1, <2>2, <2>3
<1> QED BY <1>1, <1>2, ExecInductive, LoadInductive, PTL DEF Spec

-----------------------------------------------------------------------------
(* Block instructions.                                                     *)

(* Whether the instruction is executed again: the counter is not used up   *)
(* and a search has not found A.                                           *)
Goes == Repeats /\ (IF Z < 2 THEN regs'.BC # 0 ELSE B' # 0) /\ (Z = 1 => Peek(regs.HL) # A)

(* What a round transfers.                                                 *)
RoundItem ==
    \/ Z = 0 /\ mem' = Poke(regs.DE, Peek(regs.HL)) /\ io' = io
    \/ Z = 1 /\ mem' = mem /\ io' = io
    \/ Z = 2 /\ \E v \in BusBytes : mem' = Poke(regs.HL, v) /\ io' = [dir |-> "in", port |-> regs.BC, v |-> v]
    \/ Z = 3 /\ mem' = mem /\ io' = [dir |-> "out", port |-> OutPort(regs.BC), v |-> Peek(regs.HL)]

(* What its flags say.                                                     *)
RoundFlags ==
    /\ Z < 2 => (FlagPV \in AfterF <=> regs'.BC # 0)
    /\ Z = 1 => (FlagZ \in AfterF <=> Peek(regs.HL) = A)
    /\ Z > 1 => (FlagZ \in AfterF <=> B' = 0)

(* What one round does to the counter, the pointers, PC and memory.        *)
RoundDone ==
    /\ IF Z < 2 THEN regs'.BC = Word16(regs.BC - 1) ELSE B' = Byte8(B - 1) /\ Lo(regs'.BC) = Lo(regs.BC)
    /\ regs'.HL = Moved(regs.HL) /\ regs'.DE = IF Z = 0 THEN Moved(regs.DE) ELSE regs.DE
    /\ regs'.IR = regs.IR /\ A' = A
    /\ regs'.PC = IF Goes THEN Word16(regs.PC - 2) ELSE regs.PC
    /\ Z < 2 => (FlagC \in AfterF <=> FlagC \in F)
    /\ ~Goes => RoundFlags
    /\ RoundItem
    /\ stage' = "fetch" /\ subset' = "NONE" /\ mod' = "NONE" /\ UNCHANGED <<irq, load, ret>>

(* The registers behind a round that has left r.                           *)
LEMMA RoundRegs ==
    ASSUME NEW r, RegisterFile(r), NEW f, NEW again \in BOOLEAN, RegisterFile(Rewinded(r)),
           regs' = WithFlags(IF again THEN Rewinded(r) ELSE r, f)
    PROVE  /\ regs'.PC = IF again THEN Word16(r.PC - 2) ELSE r.PC
           /\ \A n \in Pairs \ {"AF", "PC"} : regs'[n] = r[n]
           /\ A' = Hi(r.AF)
           /\ f \in Flags => AfterF = f
<1>1. \A n \in Pairs : n \in DOMAIN r /\ n # "MEMPTR"
  BY SMT DEF RegisterFile, Names, Pairs
<1>2. r.PC + (-2) = r.PC - 2
  BY Values, SMT DEF Pairs, Word
<1> DEFINE pc == Word16(r.PC - 2)
           s == Rewinded(r)
<1>3. s = [[r EXCEPT !.PC = pc] EXCEPT !.MEMPTR = Word16(r.PC - 1)]
  BY <1>2 DEF Rewinded, Ahead
<1> HIDE DEF pc
<1>4. s.PC = pc /\ \A n \in Pairs \ {"PC"} : s[n] = r[n]
  BY <1>1, <1>3 DEF Pairs
<1> HIDE DEF s
<1>5. ASSUME NEW t, RegisterFile(t), t.AF = r.AF, regs' = WithFlags(t, f)
      PROVE  A' = Hi(r.AF) /\ (f \in Flags => AfterF = f)
  <2> DEFINE w == WordOf(Hi(t.AF), NumOf(f))
  <2>1. Hi(w) = Hi(r.AF)
    BY <1>5, NumOfByte, Values, Joined DEF Pairs
  <2>2. regs'.AF = w
    <3>1. "AF" \in DOMAIN t /\ "AF" # "Q"
      BY <1>5, SMT DEF RegisterFile, Names, Pairs
    <3> QED BY <1>5, <3>1 DEF WithFlags
  <2> HIDE DEF w
  <2> QED BY <1>5, <2>1, <2>2, AfterWithFlags DEF AfterF, A
<1>6. CASE again
  <2>1. regs' = WithFlags(s, f) /\ RegisterFile(s)
    BY <1>6 DEF s
  <2>2. \A n \in Pairs \ {"AF"} : regs'[n] = s[n]
    BY <2>1, FlagsKeep
  <2>3. s.AF = r.AF
    BY <1>4 DEF Pairs
  <2> QED BY <1>4, <1>5, <1>6, <2>1, <2>2, <2>3 DEF pc, Pairs
<1>7. CASE ~again
  <2>1. regs' = WithFlags(r, f)
    BY <1>7
  <2>2. \A n \in Pairs \ {"AF"} : regs'[n] = r[n]
    BY <2>1, FlagsKeep
  <2> QED BY <1>5, <1>7, <2>1, <2>2 DEF Pairs
<1> QED BY <1>6, <1>7

(* A cell other than the one written is left as it is.                     *)
LEMMA PokeLeaves ==
    ASSUME NEW a, NEW v, NEW c, c # Word16(a)
    PROVE  Poke(a, v)[c] = mem[c]
BY DEF Poke, PokeIn

(* A round that is not the last changes only the odd bits of its flags.    *)
LEMMA RewoundKeeps ==
    ASSUME IInv, NEW f \in Flags
    PROVE  Rewound(f, RewindPCH) \in Flags /\ (FlagC \in Rewound(f, RewindPCH) <=> FlagC \in f)
<1>1. RewindPCH \in Byte
  <2>1. \A w \in Word : Word16(w - 2) \in Word
    BY SMT DEF Word, Word16
  <2> QED BY <2>1, Facts, HalvesOf DEF RewindPCH, Pairs
<1>2. FlagC # Flag3 /\ FlagC # Flag5
  BY SMT DEF FlagC, Flag3, Flag5
<1>3. Copy(RewindPCH, F53) \in Flags
  BY <1>1, FlagsOf
<1> QED BY <1>2, <1>3 DEF Rewound, Copy, F53, Flags

(* LDI, LDD, LDIR and LDDR.                                                *)
LEMMA BlockLdRound ==
    ASSUME IInv, BlockLd
    PROVE  RoundDone
<1> DEFINE n == Peek(regs.HL)
           r == [regs EXCEPT !.HL = Moved(@), !.DE = Moved(@), !.BC = Word16(@ - 1)]
           f == LdRoundFlags(A, n, r.BC, F)
           again == Repeats /\ FlagPV \in f
           g == IF again THEN Rewound(f, RewindPCH) ELSE f
<1>0. RegisterFile(regs) /\ \A k \in Pairs : regs[k] \in Word
  BY Facts
<1>1. Word16(regs.BC - 1) \in Word
  BY <1>0, Neighbours DEF Pairs
<1>2. RegisterFile(r) /\ RegisterFile(Rewinded(r))
  <2>1. RegisterFile(r)
    BY <1>0, <1>1, BlockFile, SMT DEF RegisterFile, Pairs, Names
  <2> HIDE DEF r
  <2> QED BY <2>1, BlockFile
<1>3. /\ r.BC = Word16(regs.BC - 1) /\ r.DE = Moved(regs.DE) /\ r.HL = Moved(regs.HL)
      /\ r.IR = regs.IR /\ r.PC = regs.PC /\ r.AF = regs.AF
  BY <1>0, SMT DEF RegisterFile, Pairs, Names
<1>4. f \in Flags /\ (FlagPV \in f <=> r.BC # 0) /\ (FlagC \in f <=> FlagC \in F)
  <2>1. FlagPV \notin {FlagC, FlagZ, FlagS} /\ FlagPV # Flag3 /\ FlagPV # Flag5 /\ FlagPV \in 0..7 /\ Flag5 \in 0..7
    BY SMT DEF FlagPV, FlagC, FlagZ, FlagS, Flag3, Flag5
  <2>2. F \in Flags /\ Byte8(n + A) \in Byte
    <3>1. n \in Byte /\ A \in Byte /\ F \in Flags
      BY FlagsBefore, Facts
    <3>2. \A x, y \in Byte : x + y \in Int
      BY SMT DEF Byte
    <3> QED BY <3>1, <3>2, Wraps
  <2> HIDE DEF r, n
  <2>3. f \in Flags
    BY <2>1, <2>2, FlagsOf DEF LdRoundFlags, OddBits, Flags
  <2>4. FlagPV \in f <=> r.BC # 0
    BY <2>1 DEF LdRoundFlags, OddBits, Copy, When
  <2>5. FlagC \in f <=> FlagC \in F
    <3>1. FlagC # FlagPV /\ FlagC # Flag3 /\ FlagC # Flag5
      BY SMT DEF FlagPV, FlagC, Flag3, Flag5
    <3> QED BY <3>1 DEF LdRoundFlags, OddBits, Copy, When
  <2> QED BY <2>3, <2>4, <2>5
<1>5. Flagged(WithFlags(IF again THEN Rewinded(r) ELSE r, g), Poke(regs.DE, n))
  BY Zenon DEF BlockLd
<1> HIDE DEF r, f, g, n
<1>6. regs' = WithFlags(IF again THEN Rewinded(r) ELSE r, g) /\ again \in BOOLEAN
  BY <1>5 DEF Flagged, Retire
<1> HIDE DEF again
<1>7. /\ regs'.PC = IF again THEN Word16(r.PC - 2) ELSE r.PC
      /\ \A k \in Pairs \ {"AF", "PC"} : regs'[k] = r[k]
      /\ A' = A /\ (g \in Flags => AfterF = g)
  BY <1>2, <1>3, <1>6, RoundRegs DEF A
<1>8. regs'.BC = r.BC /\ regs'.DE = r.DE /\ regs'.HL = r.HL /\ regs'.IR = r.IR
  BY <1>7 DEF Pairs
<1>9. Z = 0 /\ Z < 2 /\ ~(Z > 1) /\ Z # 1
  BY SMT DEF BlockLd, Block
<1>10. /\ mem' = Poke(regs.DE, n) /\ io' = io
       /\ stage' = "fetch" /\ subset' = "NONE" /\ mod' = "NONE" /\ UNCHANGED <<irq, load, ret>>
  BY <1>5 DEF Flagged, Retire
<1>11. again <=> Goes
  BY <1>4, <1>8, <1>9 DEF again, Goes
<1>12. ~Goes => RoundFlags
  BY <1>4, <1>7, <1>8, <1>9, <1>11 DEF g, RoundFlags
<1>13. RoundItem
  BY <1>9, <1>10 DEF RoundItem, n
<1>14. FlagC \in AfterF <=> FlagC \in F
  BY <1>4, <1>7, RewoundKeeps DEF g
<1> QED BY <1>3, <1>7, <1>8, <1>9, <1>10, <1>11, <1>12, <1>13, <1>14 DEF RoundDone

(* CPI, CPD, CPIR and CPDR.                                                *)
LEMMA BlockCpRound ==
    ASSUME IInv, BlockCp
    PROVE  RoundDone
<1> DEFINE r == [regs EXCEPT !.HL = Moved(@), !.BC = Word16(@ - 1)]
           s == [r EXCEPT !.MEMPTR = Moved(@)]
           f == CpRoundFlags(A, Peek(regs.HL), r.BC, F)
           again == CpRepeats(f)
<1>0. RegisterFile(regs) /\ \A k \in Pairs : regs[k] \in Word
  BY Facts
<1>1. Word16(regs.BC - 1) \in Word
  BY <1>0, Neighbours DEF Pairs
<1>2. RegisterFile(r)
  BY <1>0, <1>1, BlockFile, SMT DEF RegisterFile, Pairs, Names
<1>3. /\ r.BC = Word16(regs.BC - 1) /\ r.HL = Moved(regs.HL) /\ r.DE = regs.DE
      /\ r.IR = regs.IR /\ r.PC = regs.PC /\ r.AF = regs.AF
  BY <1>0, SMT DEF RegisterFile, Pairs, Names
<1>4. /\ f \in Flags /\ (FlagPV \in f <=> r.BC # 0) /\ (FlagZ \in f <=> Peek(regs.HL) = A)
      /\ FlagC \in f <=> FlagC \in F
  <2> DEFINE n == Peek(regs.HL)
  <2>1. A \in Byte /\ n \in Byte /\ F \in Flags
    BY FlagsBefore, Facts
  <2> HIDE DEF n
  <2> DEFINE cp == Alu(7, A, n, F).f
             v  == Byte8(A - n - (IF FlagH \in cp THEN 1 ELSE 0))
  <2>2. FlagZ \in cp <=> n = A
    <3>1. cp = (SubByte(A, n, 0).f \ F53) \cup Copy(n, F53)
      BY SMT DEF Alu, Result
    <3> HIDE DEF cp
    <3>2. Describes((cp \ F53) \cup (BitsOf[(A - n - 0) % 256] \cap F53), (A - n - 0) % 256)
      BY <2>1, <3>1, ComparedIs
    <3>3. FlagZ \notin F53
      BY SMT DEF FlagZ, F53, Flag3, Flag5
    <3>4. FlagZ \in cp <=> (A - n - 0) % 256 = 0
      BY <3>2, <3>3 DEF Describes
    <3>5. ASSUME NEW x \in Byte, NEW y \in Byte PROVE (x - y - 0) % 256 = 0 <=> y = x
      <4>1. x - y - 0 \in -255..255 /\ (x - y - 0 = 0 <=> y = x)
        BY SMT DEF Byte
      <4>2. \A d \in -255..255 : d % 256 = 0 <=> d = 0
        BY SMT
      <4> QED BY <4>1, <4>2
    <3> QED BY <2>1, <3>4, <3>5
  <2> HIDE DEF cp
  <2>3. v \in Byte
    <3>1. \A x, y \in Byte : \A z \in {0, 1} : Byte8(x - y - z) \in Byte
      BY SMT DEF Byte, Byte8
    <3>2. (IF FlagH \in cp THEN 1 ELSE 0) \in {0, 1}
      OBVIOUS
    <3> QED BY <2>1, <3>1, <3>2
  <2> HIDE DEF v, r
  <2>4. f = (cp \cap {FlagS, FlagN, FlagZ, FlagH}) \cup (F \cap {FlagC}) \cup OddBits(v) \cup When(FlagPV, r.BC # 0)
    BY Zenon DEF CpRoundFlags, cp, v, n
  <2> HIDE DEF f
  <2>5. /\ FlagPV \notin {FlagC} /\ FlagPV \notin {FlagS, FlagN, FlagZ, FlagH} /\ FlagPV # Flag3 /\ FlagPV # Flag5
        /\ FlagZ \notin {FlagC} /\ FlagZ # FlagPV /\ FlagZ # Flag3 /\ FlagZ # Flag5
        /\ {FlagS, FlagN, FlagZ, FlagH} \subseteq 0..7 /\ FlagPV \in 0..7 /\ Flag5 \in 0..7
    BY SMT DEF FlagPV, FlagC, FlagZ, FlagS, FlagN, FlagH, Flag3, Flag5
  <2>6. f \in Flags
    BY <2>1, <2>3, <2>4, <2>5, FlagsOf DEF OddBits, Flags
  <2>7. (FlagPV \in f <=> r.BC # 0) /\ (FlagZ \in f <=> FlagZ \in cp)
    BY <2>4, <2>5 DEF OddBits, Copy, When
  <2>8. FlagC \in f <=> FlagC \in F
    <3>1. FlagC \notin {FlagS, FlagN, FlagZ, FlagH} /\ FlagC # FlagPV /\ FlagC # Flag3 /\ FlagC # Flag5
      BY SMT DEF FlagPV, FlagC, FlagZ, FlagS, FlagN, FlagH, Flag3, Flag5
    <3> QED BY <2>4, <3>1 DEF OddBits, Copy, When
  <2> QED BY <2>2, <2>6, <2>7, <2>8 DEF n
<1>5. IF again THEN Flagged(WithFlags(Rewinded(r), Rewound(f, RewindPCH)), mem) ELSE Flagged(WithFlags(s, f), mem)
  BY Zenon DEF BlockCp
<1> HIDE DEF r, f
<1>6. RegisterFile(Rewinded(r)) /\ RegisterFile(s) /\ RegisterFile(Rewinded(s)) /\ \A k \in Pairs : s[k] = r[k]
  <2>1. r.MEMPTR \in Word
    BY <1>2 DEF RegisterFile
  <2>2. RegisterFile(s)
    BY <1>2, <2>1, BlockFile, SetWord
  <2>3. \A k \in Pairs : k # "MEMPTR" /\ k \in DOMAIN r
    BY <1>2, SMT DEF Pairs, Names, RegisterFile
  <2>4. \A k \in Pairs : s[k] = r[k]
    BY <2>3
  <2> HIDE DEF s
  <2> QED BY <1>2, <2>2, <2>4, BlockFile
<1> HIDE DEF s
<1>7. /\ regs'.PC = IF again THEN Word16(r.PC - 2) ELSE r.PC
      /\ \A k \in Pairs \ {"AF", "PC"} : regs'[k] = r[k]
      /\ A' = A /\ (~again => AfterF = f) /\ (again => AfterF = Rewound(f, RewindPCH))
  <2>1. CASE again
    <3>1. regs' = WithFlags(IF TRUE THEN Rewinded(r) ELSE r, Rewound(f, RewindPCH))
      BY <1>5, <2>1 DEF Flagged, Retire
    <3>2. Rewound(f, RewindPCH) \in Flags
      BY <1>4, RewoundKeeps
    <3> QED BY <1>2, <1>3, <1>6, <2>1, <3>1, <3>2, RoundRegs DEF A
  <2>2. CASE ~again
    <3>1. regs' = WithFlags(IF FALSE THEN Rewinded(s) ELSE s, f)
      BY <1>5, <2>2 DEF Flagged, Retire
    <3>2. s.AF = r.AF /\ s.PC = r.PC
      BY <1>6 DEF Pairs
    <3>3. /\ regs'.PC = s.PC
          /\ \A k \in Pairs \ {"AF", "PC"} : regs'[k] = s[k]
          /\ A' = Hi(s.AF) /\ (f \in Flags => AfterF = f)
      BY <1>6, <3>1, RoundRegs
    <3> QED BY <1>3, <1>4, <1>6, <2>2, <3>2, <3>3 DEF A, Pairs
  <2> QED BY <2>1, <2>2
<1>8. regs'.BC = r.BC /\ regs'.DE = r.DE /\ regs'.HL = r.HL /\ regs'.IR = r.IR
  BY <1>7 DEF Pairs
<1>9. Z = 1 /\ Z < 2 /\ Z # 0 /\ ~(Z > 1)
  BY SMT DEF BlockCp, Block
<1>10. mem' = mem /\ io' = io /\ stage' = "fetch" /\ subset' = "NONE" /\ mod' = "NONE" /\ UNCHANGED <<irq, load, ret>>
  BY <1>5 DEF Flagged, Retire
<1>11. again <=> Goes
  BY <1>4, <1>8, <1>9 DEF CpRepeats, Goes
<1>12. ~Goes => RoundFlags
  BY <1>4, <1>7, <1>8, <1>9, <1>11 DEF RoundFlags
<1>13. FlagC \in AfterF <=> FlagC \in F
  BY <1>4, <1>7, RewoundKeeps
<1> QED BY <1>3, <1>7, <1>8, <1>9, <1>10, <1>11, <1>12, <1>13 DEF RoundDone, RoundItem

(* The counter of the port instructions is B.                              *)
LEMMA CountedB ==
    ASSUME IInv
    PROVE  LET c == Put(regs, Reg8(0), Byte8(B - 1))
           IN  /\ RegisterFile(c) /\ Hi(c.BC) = Byte8(B - 1) /\ Lo(c.BC) = Lo(regs.BC)
               /\ c.BC = WordOf(Byte8(B - 1), Lo(regs.BC))
               /\ \A k \in Pairs \ {"BC"} : c[k] = regs[k]
<1> DEFINE b == Byte8(B - 1)
           bc == WordOf(b, Lo(regs.BC))
<1>1. RegisterFile(regs) /\ b \in Byte /\ Lo(regs.BC) \in Byte
  BY Facts, Neighbours, Values DEF Pairs
<1>2. Reg8(0) = <<"BC", "hi">> /\ Reg8(0)[1] \in Pairs
  BY SMT DEF Reg8, Reg8NoMod, Pairs
<1>3. Put(regs, Reg8(0), b) = [regs EXCEPT !["BC"] = bc]
  <2>1. \A v : Put(regs, <<"BC", "hi">>, v) = [regs EXCEPT !["BC"] = WordOf(v, Lo(regs.BC))]
    BY DEF Put
  <2> QED BY <1>2, <2>1
<1>4. RegisterFile(Put(regs, Reg8(0), b))
  BY <1>1, <1>2, PutFile
<1>5. Hi(bc) = b /\ Lo(bc) = Lo(regs.BC)
  BY <1>1, Joined
<1>6. \A k \in Pairs : k \in DOMAIN regs
  BY <1>1, SMT DEF RegisterFile, Names
<1> HIDE DEF b, bc
<1>7. /\ Hi(Put(regs, Reg8(0), b).BC) = b /\ Lo(Put(regs, Reg8(0), b).BC) = Lo(regs.BC)
      /\ Put(regs, Reg8(0), b).BC = bc
      /\ \A k \in Pairs \ {"BC"} : Put(regs, Reg8(0), b)[k] = regs[k]
  BY <1>3, <1>5, <1>6 DEF Pairs
<1> QED BY <1>4, <1>7 DEF b, bc

(* What INI and OUTI come to: r is what is left of the registers.          *)
LEMMA IoRound ==
    ASSUME IInv, NEW r, RegisterFile(r), NEW n, NEW k, NEW m, NEW dir, NEW port, NEW v,
           LET b == Byte8(B - 1)   f == IoRoundFlags(n, k, b)
           IN  Transfer(WithFlags(IoRegs(r, f), IoFlags(f, b)), m, dir, port, v)
    PROVE  LET b == Byte8(B - 1)   goes == Repeats /\ b # 0
           IN  /\ regs'.PC = IF goes THEN Word16(r.PC - 2) ELSE r.PC
               /\ \A i \in Pairs \ {"AF", "PC"} : regs'[i] = r[i]
               /\ A' = Hi(r.AF) /\ (~goes => (FlagZ \in AfterF <=> b = 0))
               /\ mem' = m /\ io' = [dir |-> dir, port |-> port, v |-> v]
               /\ stage' = "fetch" /\ subset' = "NONE" /\ mod' = "NONE" /\ UNCHANGED <<irq, load, ret>>
<1> DEFINE b == Byte8(B - 1)
           f == IoRoundFlags(n, k, b)
           again == Repeats /\ FlagZ \notin f
<1>1. f \in Flags /\ (FlagZ \in f <=> b = 0)
  <2>1. b \in Byte
    BY Facts, Neighbours, Values DEF Pairs
  <2> HIDE DEF b
  <2>2. ZeroSign(b) \in Flags /\ (FlagZ \in ZeroSign(b) <=> b = 0)
    BY <2>1, ZeroSignIs DEF Describes
  <2>3. /\ FlagZ # FlagN /\ FlagZ # FlagC /\ FlagZ # FlagH /\ FlagZ # FlagPV
        /\ FlagN \in 0..7 /\ FlagC \in 0..7 /\ FlagH \in 0..7 /\ FlagPV \in 0..7
    BY SMT DEF FlagPV, FlagC, FlagZ, FlagN, FlagH
  <2>4. f \in Flags
    BY <2>2, <2>3, Zenon DEF IoRoundFlags, When, Flags
  <2>5. FlagZ \in f <=> FlagZ \in ZeroSign(b)
    BY <2>3, Zenon DEF IoRoundFlags, When
  <2> QED BY <2>2, <2>4, <2>5
<1>2. regs' = WithFlags(IoRegs(r, f), IoFlags(f, b))
  BY DEF Transfer, Retire
<1>3. IoRegs(r, f) = (IF again THEN Rewinded(r) ELSE r) /\ (~again => IoFlags(f, b) = f)
  BY DEF IoRegs, IoFlags
<1>4. /\ mem' = m /\ io' = [dir |-> dir, port |-> port, v |-> v]
      /\ stage' = "fetch" /\ subset' = "NONE" /\ mod' = "NONE" /\ UNCHANGED <<irq, load, ret>>
  BY DEF Transfer, Retire
<1> HIDE DEF f
<1>5. RegisterFile(Rewinded(r)) /\ again \in BOOLEAN /\ (again <=> Repeats /\ b # 0)
  BY <1>1, BlockFile
<1> HIDE DEF again, b
<1>6. regs' = WithFlags(IF again THEN Rewinded(r) ELSE r, IoFlags(f, b))
  BY <1>2, <1>3
<1>7. /\ regs'.PC = IF again THEN Word16(r.PC - 2) ELSE r.PC
      /\ \A i \in Pairs \ {"AF", "PC"} : regs'[i] = r[i]
      /\ A' = Hi(r.AF) /\ (~again => AfterF = f)
  BY <1>1, <1>3, <1>5, <1>6, RoundRegs
<1> QED BY <1>1, <1>4, <1>5, <1>7 DEF b

(* INI, IND, INIR and INDR.                                                *)
LEMMA BlockInRound ==
    ASSUME IInv, BlockIn
    PROVE  RoundDone
<1> DEFINE b == Byte8(B - 1)
           c == Put(regs, Reg8(0), b)
           r == [c EXCEPT !.HL = Moved(@), !.MEMPTR = Moved(regs.BC)]
           f(v) == IoRoundFlags(v, Lo(r.MEMPTR), b)
<1>1. PICK v \in BusBytes : Transfer(WithFlags(IoRegs(r, f(v)), IoFlags(f(v), b)), Poke(regs.HL, v), "in", regs.BC, v)
  BY DEF BlockIn
<1>2. RegisterFile(c) /\ Hi(c.BC) = b /\ Lo(c.BC) = Lo(regs.BC) /\ \A k \in Pairs \ {"BC"} : c[k] = regs[k]
  BY CountedB
<1>3. regs.HL \in Word /\ regs.BC \in Word /\ c.HL = regs.HL
  BY <1>2, Facts DEF Pairs
<1> HIDE DEF c
<1>4. RegisterFile(r)
  BY <1>2, <1>3, BlockFile, SMT DEF RegisterFile, Pairs, Names
<1>5. /\ r.HL = Moved(regs.HL) /\ r.BC = c.BC /\ r.DE = c.DE /\ r.IR = c.IR /\ r.PC = c.PC /\ r.AF = c.AF
  BY <1>2, <1>3, SMT DEF RegisterFile, Pairs, Names
<1> HIDE DEF r
<1>6. LET goes == Repeats /\ b # 0
      IN  /\ regs'.PC = IF goes THEN Word16(r.PC - 2) ELSE r.PC
          /\ \A i \in Pairs \ {"AF", "PC"} : regs'[i] = r[i]
          /\ A' = Hi(r.AF) /\ (~goes => (FlagZ \in AfterF <=> b = 0))
          /\ mem' = Poke(regs.HL, v) /\ io' = [dir |-> "in", port |-> regs.BC, v |-> v]
          /\ stage' = "fetch" /\ subset' = "NONE" /\ mod' = "NONE" /\ UNCHANGED <<irq, load, ret>>
  BY <1>1, <1>4, IoRound
<1> HIDE DEF b
<1>7. /\ regs'.BC = c.BC /\ regs'.HL = Moved(regs.HL) /\ regs'.DE = regs.DE /\ regs'.IR = regs.IR
      /\ r.PC = regs.PC /\ A' = A
  BY <1>2, <1>5, <1>6 DEF Pairs, A
<1>8. B' = b /\ Lo(regs'.BC) = Lo(regs.BC)
  BY <1>2, <1>7 DEF B
<1>9. Z = 2 /\ ~(Z < 2) /\ Z # 0 /\ Z # 1
  BY SMT DEF BlockIn, Block
<1>10. Goes <=> Repeats /\ b # 0
  BY <1>8, <1>9 DEF Goes
<1>11. ~Goes => RoundFlags
  BY <1>6, <1>8, <1>9, <1>10 DEF RoundFlags
<1>12. RoundItem
  BY <1>6, <1>9 DEF RoundItem
<1> QED BY <1>6, <1>7, <1>8, <1>9, <1>10, <1>11, <1>12 DEF RoundDone, b

(* OUTI, OUTD, OTIR and OTDR.                                              *)
LEMMA BlockOutRound ==
    ASSUME IInv, BlockOut
    PROVE  RoundDone
<1> DEFINE n == Peek(regs.HL)
           b == Byte8(B - 1)
           c == Put(regs, Reg8(0), b)
           r == [c EXCEPT !.HL = Moved(@), !.MEMPTR = Moved(c.BC)]
           f == IoRoundFlags(n, Lo(r.HL), b)
<1>1. Transfer(WithFlags(IoRegs(r, f), IoFlags(f, b)), mem, "out", OutPort(regs.BC), n)
  BY DEF BlockOut
<1>2. RegisterFile(c) /\ Hi(c.BC) = b /\ Lo(c.BC) = Lo(regs.BC) /\ \A k \in Pairs \ {"BC"} : c[k] = regs[k]
  BY CountedB
<1>3. regs.HL \in Word /\ c.BC \in Word /\ c.HL = regs.HL
  BY <1>2, Facts, Values DEF Pairs
<1> HIDE DEF c
<1>4. RegisterFile(r)
  BY <1>2, <1>3, BlockFile, SMT DEF RegisterFile, Pairs, Names
<1>5. /\ r.HL = Moved(regs.HL) /\ r.BC = c.BC /\ r.DE = c.DE /\ r.IR = c.IR /\ r.PC = c.PC /\ r.AF = c.AF
  BY <1>2, <1>3, SMT DEF RegisterFile, Pairs, Names
<1> HIDE DEF r
<1>6. LET goes == Repeats /\ b # 0
      IN  /\ regs'.PC = IF goes THEN Word16(r.PC - 2) ELSE r.PC
          /\ \A i \in Pairs \ {"AF", "PC"} : regs'[i] = r[i]
          /\ A' = Hi(r.AF) /\ (~goes => (FlagZ \in AfterF <=> b = 0))
          /\ mem' = mem /\ io' = [dir |-> "out", port |-> OutPort(regs.BC), v |-> n]
          /\ stage' = "fetch" /\ subset' = "NONE" /\ mod' = "NONE" /\ UNCHANGED <<irq, load, ret>>
  BY <1>1, <1>4, IoRound
<1> HIDE DEF b
<1>7. /\ regs'.BC = c.BC /\ regs'.HL = Moved(regs.HL) /\ regs'.DE = regs.DE /\ regs'.IR = regs.IR
      /\ r.PC = regs.PC /\ A' = A
  BY <1>2, <1>5, <1>6 DEF Pairs, A
<1>8. B' = b /\ Lo(regs'.BC) = Lo(regs.BC)
  BY <1>2, <1>7 DEF B
<1>9. Z = 3 /\ ~(Z < 2) /\ Z # 0 /\ Z # 1
  BY SMT DEF BlockOut, Block
<1>10. Goes <=> Repeats /\ b # 0
  BY <1>8, <1>9 DEF Goes
<1>11. ~Goes => RoundFlags
  BY <1>6, <1>8, <1>9, <1>10 DEF RoundFlags
<1>12. RoundItem
  BY <1>6, <1>9 DEF RoundItem
<1> QED BY <1>6, <1>7, <1>8, <1>9, <1>10, <1>11, <1>12 DEF RoundDone, b

(* Whichever it is.                                                        *)
LEMMA BlockRound ==
    ASSUME IInv, Next, Executing("ED"), X = 2, Y > 3, Z < 4
    PROVE  RoundDone
<1>1. SubsetED \/ LdWordAt
  BY PrefixedActs
<1>2. ~LdWordAt
  <2>1. X # 1
    BY SMT
  <2> QED BY <2>1 DEF LdWordAt, Main, Executing
<1>3. BlockLd \/ BlockCp \/ BlockIn \/ BlockOut
  <2>1. Y \in 0..7 /\ ~(Y < 4) /\ X # 0 /\ X # 1 /\ X # 3
    BY Facts, SMT
  <2> QED BY <1>1, <1>2, <2>1 DEF SubsetED, InC, OutC, AdcSbcHl, Neg, Retn, Im, LdIr, RotateDigits, EdNop, Ed
<1> QED BY <1>3, BlockLdRound, BlockCpRound, BlockInRound, BlockOutRound

(* How many rounds it may make, and what they make of a pointer.           *)
Turns == Longest(Op(1), load.regs.BC)

Along(w, k) == Past(Op(1), w, k)

(* A search has not found A in the k items it has seen.                    *)
LoadedAt(a) == IF Word16(a) \in DOMAIN load.mem THEN load.mem[Word16(a)] ELSE Floating
Searched(k) == Op(1) % 8 = 1 => \A j \in 0..k - 1 : LoadedAt(Along(load.regs.HL, j)) # Hi(load.regs.AF)

(* The machine after k rounds.                                             *)
Handled(k) ==
    /\ IF Op(1) % 8 < 2 THEN regs.BC = Word16(load.regs.BC - k)
                        ELSE B = Byte8(Hi(load.regs.BC) - k) /\ Lo(regs.BC) = Lo(load.regs.BC)
    /\ regs.HL = Along(load.regs.HL, k)
    /\ Op(1) % 8 = 0 => regs.DE = Along(load.regs.DE, k)
    /\ Op(1) % 8 = 1 => mem = load.mem
    /\ A = Hi(load.regs.AF) /\ ret = <<>>
    /\ Op(1) % 8 < 2 => (FlagC \in F <=> FlagC \in BitsOf[Lo(load.regs.AF)])

Ready(k) == Handled(k) /\ Searched(k)

(* What the flags say behind the last round.                               *)
Verdict ==
    /\ Op(1) % 8 < 2 => (FlagPV \in F <=> regs.BC # 0)
    /\ Op(1) % 8 = 1 =>
         /\ FlagZ \in F <=> Peek(IF (Op(1) \div 8) % 2 = 1 THEN regs.HL + 1 ELSE regs.HL - 1) = A
         /\ Op(1) < 176 \/ FlagZ \in F \/ regs.BC = 0
    /\ ~(Op(1) % 8 < 2) => (FlagZ \in F <=> B = 0)

(* Where the instruction is in its round behind k others, or behind the    *)
(* last.                                                                   *)
BlockPhase ==
    \/ \E k \in 0..Turns - 1 :
         \/ stage = "fetch" /\ subset = "NONE" /\ regs.PC = Start /\ Ready(k) /\ Ticked(2 * k)
         \/ stage = "start" /\ subset = "NONE" /\ regs.PC = Word16(Start + 1) /\ regs.instr = 237
              /\ Ready(k) /\ Ticked(2 * k + 1)
         \/ stage = "fetch" /\ subset = "ED" /\ regs.PC = Word16(Start + 1) /\ Ready(k) /\ Ticked(2 * k + 1)
         \/ stage = "start" /\ subset = "ED" /\ regs.PC = Word16(Start + 2) /\ regs.instr = Op(1)
              /\ Ready(k) /\ Ticked(2 * k + 2)
    \/ \E k \in 1..Turns : stage = "fetch" /\ regs.PC = Word16(Start + 2) /\ Handled(k) /\ Verdict /\ Ticked(2 * k)

(* The rounds write next to the instruction.                               *)
Aside ==
    Op(1) % 8 \in {0, 2} =>
      \A k \in 0..Turns - 1 :
        Along(IF Op(1) % 8 = 0 THEN load.regs.DE ELSE load.regs.HL, k) \notin {Start, Word16(Start + 1)}

BlockInv ==
    Transfers =>
      /\ Aside
      /\ irq = load.irq =>
           /\ mem[Start] = 237 /\ mem[Word16(Start + 1)] = Op(1)
           /\ mod = "NONE" /\ BlockPhase

(* A counter that is not 0 has rounds left.                                *)
LEMMA ByteNotLast ==
    ASSUME NEW b \in Byte, NEW n, n = IF b # 0 THEN b ELSE 256, NEW k \in 0..n - 1, Byte8(b - (k + 1)) # 0
    PROVE  k + 1 \in 0..n - 1
<1>1. b \in Nat /\ b < 256
  BY SMTT(60) DEF Byte
<1>2. CASE b # 0
  <2>1. n = b
    BY <1>2, SMTT(60)
  <2>2. k \in Nat /\ k < b
    BY <1>1, <2>1, SMTT(60)
  <2>3. b - (k + 1) # 0
    <3>1. 0 % 256 = 0
      BY SMTT(60)
    <3> QED BY <3>1, SMTT(60) DEF Byte8
  <2> QED BY <1>1, <2>1, <2>2, <2>3, SMTT(60)
<1>3. CASE b = 0
  <2>1. n = 256
    BY <1>3, SMTT(60)
  <2>2. k \in Nat /\ k < 256
    BY <2>1, SMTT(60)
  <2>3. k + 1 # 256
    <3> DEFINE z == (0 - 256) % 256
             last == k + 1 = 256
    <3>1. z = 0
      BY SMTT(60)
    <3>2. last => Byte8(b - (k + 1)) = z
      BY <1>3, SMTT(60) DEF Byte8
    <3> HIDE DEF z, last
    <3>3. ~last
      BY <3>1, <3>2, SMTT(60)
    <3> QED BY <3>3 DEF last
  <2> QED BY <2>1, <2>2, <2>3, SMTT(60)
<1> QED BY <1>2, <1>3

(* The same of a counter of 16 bits.                                       *)
LEMMA WordNotLast ==
    ASSUME NEW b \in Word, NEW n, n = IF b # 0 THEN b ELSE 65536, NEW k \in 0..n - 1, Word16(b - (k + 1)) # 0
    PROVE  k + 1 \in 0..n - 1
<1>1. b \in Nat /\ b < 65536
  BY SMTT(60) DEF Word
<1>2. CASE b # 0
  <2>1. n = b
    BY <1>2, SMTT(60)
  <2>2. k \in Nat /\ k < b
    BY <1>1, <2>1, SMTT(60)
  <2>3. b - (k + 1) # 0
    <3>1. 0 % 65536 = 0
      BY SMTT(60)
    <3> QED BY <3>1, SMTT(60) DEF Word16
  <2> QED BY <1>1, <2>1, <2>2, <2>3, SMTT(60)
<1>3. CASE b = 0
  <2>1. n = 65536
    BY <1>3, SMTT(60)
  <2>2. k \in Nat /\ k < 65536
    BY <2>1, SMTT(60)
  <2>3. k + 1 # 65536
    <3> DEFINE z == (0 - 65536) % 65536
             last == k + 1 = 65536
    <3>1. z = 0
      BY SMTT(60)
    <3>2. last => Word16(b - (k + 1)) = z
      BY <1>3, SMTT(60) DEF Word16
    <3> HIDE DEF z, last
    <3>3. ~last
      BY <3>1, <3>2, SMTT(60)
    <3> QED BY <3>3 DEF last
  <2> QED BY <2>1, <2>2, <2>3, SMTT(60)
<1> QED BY <1>2, <1>3, SMTT(60)

(* The rounds, case by case.                                               *)
LEMMA TurnsAre ==
    /\ Op(1) < 176 => Turns = 1
    /\ ~(Op(1) < 176) /\ Op(1) % 8 < 2 => Turns = IF load.regs.BC # 0 THEN load.regs.BC ELSE 65536
    /\ ~(Op(1) < 176) /\ ~(Op(1) % 8 < 2) => Turns = IF Hi(load.regs.BC) # 0 THEN Hi(load.regs.BC) ELSE 256
<1> DEFINE u == IF load.regs.BC # 0 THEN load.regs.BC ELSE 65536
           v == IF Hi(load.regs.BC) # 0 THEN Hi(load.regs.BC) ELSE 256
<1>1. Turns = IF Op(1) < 176 THEN 1 ELSE IF Op(1) % 8 < 2 THEN u ELSE v
  BY SMT DEF Turns, Longest
<1> HIDE DEF u, v
<1>2. /\ Op(1) < 176 => Turns = 1
      /\ ~(Op(1) < 176) /\ Op(1) % 8 < 2 => Turns = u
      /\ ~(Op(1) < 176) /\ ~(Op(1) % 8 < 2) => Turns = v
  BY <1>1, SMT
<1> QED BY <1>2, SMT DEF u, v

(* One more round.                                                         *)
LEMMA HandledMore ==
    ASSUME IInv, LoadOK, Transfers, NEW k \in 0..Turns - 1, regs.instr = Op(1), Ready(k), RoundDone, load' = load
    PROVE  /\ Handled(k + 1)'
           /\ k \in Nat /\ k + 1 \in 1..Turns
           /\ Goes => k + 1 \in 0..Turns - 1 /\ Searched(k + 1)'
           /\ ~Goes => Verdict'
<1> DEFINE op == Op(1)
           bc == load.regs.BC
<1>1. op \in 160..187 /\ op % 8 < 4
  BY DEF Transfers
<1>2. Z = op % 8 /\ (Y % 2 = 1 <=> (op \div 8) % 2 = 1) /\ (Y > 5 <=> ~(op < 176)) /\ Z \in 0..3
  <2> HIDE DEF op
  <2>1. regs.instr = op
    BY DEF op
  <2> QED BY <1>1, <2>1, SMT DEF Z, Y
<1>3. bc \in Word /\ Hi(bc) \in Byte /\ load.regs.DE \in Int /\ load.regs.HL \in Int /\ bc \in Int /\ Hi(bc) \in Int
  <2>1. bc \in Word /\ Hi(bc) \in Byte /\ load.regs.DE \in Word /\ load.regs.HL \in Word
    BY Values DEF LoadOK, Pairs
  <2> QED BY <2>1, SMT DEF Word, Byte
<1>4. Turns \in Nat /\ Turns > 0
  <2>1. Turns \in {1, 256, 65536} \/ (Turns = bc /\ bc # 0) \/ (Turns = Hi(bc) /\ Hi(bc) # 0)
    BY TurnsAre
  <2> HIDE DEF bc, op
  <2> QED BY <1>3, <2>1, SMT DEF Word, Byte
<1>5. k \in Nat /\ k \in Int /\ k + 1 \in 1..Turns
  BY <1>4, SMT
<1>6. Op(1)' = op /\ load'.regs = load.regs /\ load'.mem = load.mem
  BY DEF Op, Start
<1>7. \A w \in Int : Moved(Along(w, k)) = Along(w, k + 1)
  BY <1>2, <1>5, Onwards DEF Moved, Along, Past
<1>8. Handled(k) /\ Searched(k)
  BY DEF Ready
<1>9. IF Z < 2 THEN regs'.BC = Word16(bc - (k + 1))
               ELSE B' = Byte8(Hi(bc) - (k + 1)) /\ Lo(regs'.BC) = Lo(bc)
  <2>1. CASE Z < 2
    <3>1. regs.BC = Word16(bc - k) /\ regs'.BC = Word16(regs.BC - 1)
      BY <1>2, <1>8, <2>1 DEF Handled, RoundDone
    <3> QED BY <1>3, <1>5, <2>1, <3>1, Onwards
  <2>2. CASE ~(Z < 2)
    <3>1. B = Byte8(Hi(bc) - k) /\ B' = Byte8(B - 1) /\ Lo(regs'.BC) = Lo(regs.BC) /\ Lo(regs.BC) = Lo(bc)
      BY <1>2, <1>8, <2>2 DEF Handled, RoundDone
    <3> QED BY <1>3, <1>5, <2>2, <3>1, Onwards
  <2> QED BY <2>1, <2>2
<1>10. Z = 0 => regs'.DE = Along(load.regs.DE, k + 1)
  BY <1>2, <1>3, <1>7, <1>8 DEF Handled, RoundDone
<1>11. regs'.HL = Along(load.regs.HL, k + 1)
  BY <1>3, <1>7, <1>8 DEF Handled, RoundDone
<1>12. /\ Z = 1 => mem' = mem /\ mem = load.mem
       /\ A' = A /\ A = Hi(load.regs.AF) /\ ret' = <<>>
       /\ Z < 2 => (FlagC \in F' <=> FlagC \in BitsOf[Lo(load.regs.AF)])
  <2>1. Z = 1 => Z # 0 /\ Z # 2 /\ Z # 3
    BY SMT
  <2>2. AfterF = F'
    BY DEF AfterF, F
  <2> QED BY <1>2, <1>8, <2>1, <2>2 DEF Handled, RoundDone, RoundItem
<1>13. Handled(k + 1)'
  BY <1>2, <1>6, <1>9, <1>10, <1>11, <1>12 DEF Handled, Along
<1>14. ASSUME Repeats, IF Z < 2 THEN regs'.BC # 0 ELSE B' # 0
       PROVE  k + 1 \in 0..Turns - 1
  <2>1. ~(op < 176)
    BY <1>2, <1>14 DEF Repeats
  <2>2. CASE Z < 2
    <3>1. Turns = IF bc # 0 THEN bc ELSE 65536
      BY <1>2, <2>1, <2>2, TurnsAre, SMT
    <3>2. Word16(bc - (k + 1)) # 0
      BY <1>9, <1>14, <2>2
    <3> HIDE DEF op, bc
    <3> QED BY <1>3, <3>1, <3>2, WordNotLast, SMT
  <2>3. CASE ~(Z < 2)
    <3> DEFINE h == Hi(bc)
    <3>1. Turns = IF h # 0 THEN h ELSE 256
      BY <1>2, <2>1, <2>3, TurnsAre, SMT
    <3>2. Byte8(h - (k + 1)) # 0
      BY <1>9, <1>14, <2>3
    <3>3. h \in Byte
      BY <1>3
    <3> HIDE DEF h, op, bc
    <3> QED BY <3>1, <3>2, <3>3, ByteNotLast, SMT
  <2> QED BY <2>2, <2>3
<1>15. ASSUME Goes PROVE Searched(k + 1)'
  <2> SUFFICES ASSUME op % 8 = 1, NEW j \in 0..(k + 1) - 1
               PROVE  LoadedAt(Along(load.regs.HL, j)) # Hi(load.regs.AF)
    BY <1>6 DEF Searched, LoadedAt, Along
  <2>1. j \in 0..k - 1 \/ j = k
    BY <1>5, SMT
  <2>2. LoadedAt(Along(load.regs.HL, k)) = Peek(regs.HL)
    BY <1>2, <1>8, <1>12 DEF Handled, LoadedAt, Peek
  <2>3. Peek(regs.HL) # A
    BY <1>2, <1>15 DEF Goes
  <2> QED BY <1>8, <1>12, <2>1, <2>2, <2>3 DEF Searched
<1>16. ASSUME ~Goes PROVE Verdict'
  <2>1. RoundFlags /\ AfterF = F'
    BY <1>16 DEF RoundDone, AfterF, F
  <2>2. Z < 2 => (FlagPV \in F' <=> regs'.BC # 0)
    BY <2>1 DEF RoundFlags
  <2>3. ~(Z < 2) => (FlagZ \in F' <=> B' = 0)
    <3>1. ~(Z < 2) => Z > 1
      BY <1>2, SMT
    <3> QED BY <2>1, <3>1 DEF RoundFlags
  <2>4. ASSUME Z = 1
        PROVE  /\ FlagZ \in F' <=> Peek(IF (op \div 8) % 2 = 1 THEN regs.HL + 1 ELSE regs.HL - 1)' = A'
               /\ op < 176 \/ FlagZ \in F' \/ regs'.BC = 0
    <3>1. FlagZ \in F' <=> Peek(regs.HL) = A
      BY <2>1, <2>4 DEF RoundFlags
    <3>2. regs.HL \in Word
      BY Facts DEF Pairs
    <3>3. \A w \in Word : /\ Word16(Word16(w - 1) + 1) = Word16(w)
                          /\ Word16(Word16(w + 1) - 1) = Word16(w)
      BY SMT DEF Word, Word16
    <3>4. Word16(IF (op \div 8) % 2 = 1 THEN regs'.HL + 1 ELSE regs'.HL - 1) = Word16(regs.HL)
      BY <1>2, <3>2, <3>3 DEF RoundDone, Moved
    <3>5. Peek(IF (op \div 8) % 2 = 1 THEN regs.HL + 1 ELSE regs.HL - 1)' = Peek(regs.HL)
      BY <1>6, <1>12, <2>4, <3>4 DEF Peek
    <3>6. Repeats => regs'.BC = 0 \/ Peek(regs.HL) = A
      <4>1. Z < 2
        BY <2>4, SMT
      <4> QED BY <1>16, <4>1 DEF Goes
    <3>7. Repeats \/ op < 176
      BY <1>2 DEF Repeats
    <3> QED BY <1>12, <3>1, <3>5, <3>6, <3>7
  <2> QED BY <1>2, <1>6, <2>2, <2>3, <2>4 DEF Verdict
<1> QED BY <1>5, <1>13, <1>14, <1>15, <1>16 DEF Goes

(* Whether the instruction is not yet done, a step that does nothing about *)
(* it, and one that makes its next round.                                  *)
AtWork == regs.PC # Word16(Start + 2) \/ stage = "start"

Idles ==
    /\ AtWork' = AtWork /\ UNCHANGED <<mem, io, ret>>
    /\ \A n \in {"AF", "BC", "DE", "HL"} : regs'[n] = regs[n]

Turn(k) ==
    /\ stage = "start" /\ regs.PC = Word16(Start + 2) /\ regs.instr = Op(1)
    /\ Ready(k) /\ RoundDone /\ (AtWork' <=> Goes)

(* The instruction goes on as it should.                                   *)
LEMMA BlockStep ==
    ASSUME IInv, LoadOK, BlockInv, Transfers, Next, irq' = load'.irq
    PROVE  BlockInv' /\ (Idles \/ \E k \in 0..Turns - 1 : Turn(k))
<1>1. load' = load /\ irq = load.irq /\ irq' = irq
  BY NotRaised
<1>2. Start \in Word /\ load.regs.IR \in Word /\ load.regs.DE \in Int /\ load.regs.HL \in Int
  <2>1. load.regs.PC \in Word /\ load.regs.IR \in Word /\ load.regs.DE \in Word /\ load.regs.HL \in Word
    BY Values DEF LoadOK, Pairs
  <2> QED BY <2>1, SMT DEF Start, Word
<1>3. DOMAIN mem = DOMAIN load.mem
  BY DEF IInv, TypeOK
<1>4. Op(0) # 255 /\ Op(1) \in Int /\ Op(1) # 255
  BY SMT DEF Transfers
<1>5. Start \in DOMAIN mem /\ Word16(Start + 1) \in DOMAIN mem
  BY <1>2, <1>3, <1>4, Cells DEF Op, Floating
<1>6. /\ Op(0)' = Op(0) /\ Op(1)' = Op(1) /\ Start' = Start /\ Transfers' = Transfers /\ Turns' = Turns
      /\ \A w, k : Along(w, k)' = Along(w, k)
      /\ \A k : Searched(k)' = Searched(k)
  BY <1>1 DEF Op, Start, Transfers, Turns, Along, Searched, LoadedAt
<1>7. Aside /\ Aside'
  BY <1>1, <1>6 DEF BlockInv, Aside
<1>8. mem[Start] = 237 /\ mem[Word16(Start + 1)] = Op(1) /\ mod = "NONE" /\ BlockPhase
  BY <1>1 DEF BlockInv
<1>9. ASSUME mem'[Start] = 237, mem'[Word16(Start + 1)] = Op(1), mod' = "NONE", BlockPhase' PROVE BlockInv'
  BY <1>6, <1>7, <1>9 DEF BlockInv
<1>10. regs.IR \in Word
  BY Facts DEF Pairs
<1>11. Word16(Start + 2) \notin DOMAIN mem /\ Op(0) = 237
  BY <1>3 DEF Transfers
<1>12. /\ \A n : regs'.IR = regs.IR /\ Ticked(n) => Ticked(n)'
       /\ \A n \in Nat : regs'.IR = Refreshed(regs.IR) /\ Ticked(n) => Ticked(n + 1)'
  <2>1. \A n : regs'.IR = regs.IR /\ Ticked(n) => Ticked(n)'
    BY <1>1 DEF Ticked
  <2>2. ASSUME NEW n \in Nat, regs'.IR = Refreshed(regs.IR), Ticked(n) PROVE Ticked(n + 1)'
    BY <1>1, <1>2, <1>10, <2>2, Ticks
  <2> QED BY <2>1, <2>2
<1>13. ASSUME NEW k, UNCHANGED <<mem, ret>>, \A n \in {"AF", "BC", "DE", "HL"} : regs'[n] = regs[n]
       PROVE  (Handled(k) => Handled(k)') /\ (Ready(k) => Ready(k)')
  <2>1. Handled(k) => Handled(k)'
    BY <1>1, <1>6, <1>13 DEF Handled, A, B, F
  <2> QED BY <1>6, <2>1 DEF Ready
<1>14. ASSUME NEW k \in 0..Turns - 1 PROVE k \in Nat /\ 2 * k \in Nat /\ 2 * k + 1 \in Nat /\ 2 * k + 1 + 1 = 2 * k + 2
  BY SMT
<1>20. Start # Word16(Start + 2) /\ Word16(Start + 1) # Word16(Start + 2)
  BY <1>2, SMT DEF Word, Word16
<1>15. ASSUME NEW k \in 0..Turns - 1, stage = "fetch", subset = "NONE", regs.PC = Start, Ready(k), Ticked(2 * k)
       PROVE  BlockInv' /\ Idles
  <2>1. Fetch
    BY <1>1, <1>5, <1>15, TakesFetch
  <2>2. /\ regs'.PC = Word16(Start + 1) /\ regs'.instr = 237 /\ regs'.IR = Refreshed(regs.IR) /\ stage' = "start"
        /\ UNCHANGED <<mem, io, ret, subset, mod>> /\ \A n \in {"AF", "BC", "DE", "HL"} : regs'[n] = regs[n]
    BY <1>8, <1>15, <2>1, AfterFetch DEF Pairs
  <2>3. Ticked(2 * k + 1)' /\ Ready(k)'
    BY <1>12, <1>13, <1>14, <1>15, <2>2
  <2>4. BlockPhase'
    BY <1>6, <1>15, <2>2, <2>3 DEF BlockPhase
  <2>5. Idles
    BY <1>6, <1>15, <1>20, <2>2 DEF AtWork, Idles
  <2> QED BY <1>8, <1>9, <2>2, <2>4, <2>5
<1>16. ASSUME NEW k \in 0..Turns - 1, stage = "start", subset = "NONE", regs.PC = Word16(Start + 1), regs.instr = 237,
              Ready(k), Ticked(2 * k + 1)
       PROVE  BlockInv' /\ Idles
  <2>1. Prefix
    BY <1>16, TakesPrefix DEF PrefixBytes
  <2>2. regs' = regs /\ UNCHANGED <<mem, io, ret>> /\ stage' = "fetch" /\ subset' = "ED" /\ mod' = "NONE"
    BY <1>8, <1>16, <2>1 DEF Prefix
  <2>3. Ticked(2 * k + 1)' /\ Ready(k)'
    BY <1>12, <1>13, <1>16, <2>2
  <2>4. BlockPhase'
    BY <1>6, <1>16, <2>2, <2>3 DEF BlockPhase
  <2>5. Idles
    BY <1>6, <1>16, <1>20, <2>2 DEF AtWork, Idles
  <2> QED BY <1>8, <1>9, <2>2, <2>4, <2>5
<1>17. ASSUME NEW k \in 0..Turns - 1, stage = "fetch", subset = "ED", regs.PC = Word16(Start + 1),
              Ready(k), Ticked(2 * k + 1)
       PROVE  BlockInv' /\ Idles
  <2>1. Fetch
    BY <1>1, <1>5, <1>17, TakesFetch
  <2>2. /\ regs'.PC = Word16(Start + 2) /\ regs'.instr = Op(1) /\ regs'.IR = Refreshed(regs.IR) /\ stage' = "start"
        /\ UNCHANGED <<mem, io, ret, subset, mod>> /\ \A n \in {"AF", "BC", "DE", "HL"} : regs'[n] = regs[n]
    BY <1>2, <1>8, <1>17, <2>1, AfterFetch, Cells DEF Pairs
  <2>3. Ticked(2 * k + 2)' /\ Ready(k)'
    BY <1>12, <1>13, <1>14, <1>17, <2>2
  <2>4. BlockPhase'
    BY <1>6, <1>17, <2>2, <2>3 DEF BlockPhase
  <2>5. Idles
    BY <1>6, <1>17, <1>20, <2>2 DEF AtWork, Idles
  <2> QED BY <1>8, <1>9, <2>2, <2>4, <2>5
<1>18. ASSUME NEW k \in 0..Turns - 1, stage = "start", subset = "ED", regs.PC = Word16(Start + 2), regs.instr = Op(1),
              Ready(k), Ticked(2 * k + 2)
       PROVE  BlockInv' /\ Turn(k)
  <2>1. Op(1) \in 160..187 /\ Op(1) % 8 < 4
    BY DEF Transfers
  <2>2. X = 2 /\ Y > 3 /\ Z < 4 /\ Z = Op(1) % 8
    <3> DEFINE op == Op(1)
    <3>1. op \in 160..187 /\ op % 8 < 4 /\ regs.instr = op
      BY <1>18, <2>1
    <3> HIDE DEF op
    <3>2. X = 2 /\ Y > 3 /\ Z < 4 /\ Z = op % 8
      BY <3>1, SMT DEF X, Y, Z
    <3> QED BY <3>2 DEF op
  <2>3. RoundDone
    BY <1>18, <2>2, BlockRound DEF Executing
  <2>4. /\ Handled(k + 1)' /\ k + 1 \in 1..Turns
        /\ Goes => k + 1 \in 0..Turns - 1 /\ Searched(k + 1)'
        /\ ~Goes => Verdict'
    BY <1>1, <1>18, <2>3, HandledMore
  <2>5. Ticked(2 * k + 2)' /\ 2 * k + 2 = 2 * (k + 1)
    <3>1. regs'.IR = regs.IR
      BY <2>3 DEF RoundDone
    <3> QED BY <1>12, <1>14, <1>18, <3>1, SMT
  <2>6. mem'[Start] = mem[Start] /\ mem'[Word16(Start + 1)] = mem[Word16(Start + 1)]
    <3>1. \A w \in Int : Word16(Along(w, k)) = Along(w, k)
      BY <1>14, SMT DEF Along, Past, Word16
    <3>2. Z = 0 => Word16(regs.DE) \notin {Start, Word16(Start + 1)}
      BY <1>2, <1>7, <1>18, <2>2, <3>1 DEF Ready, Handled, Aside
    <3>3. Z = 2 => Word16(regs.HL) \notin {Start, Word16(Start + 1)}
      BY <1>2, <1>7, <1>18, <2>2, <3>1 DEF Ready, Handled, Aside
    <3>4. \/ mem' = mem
          \/ Z = 0 /\ \E v : mem' = Poke(regs.DE, v)
          \/ Z = 2 /\ \E v : mem' = Poke(regs.HL, v)
      BY <2>3 DEF RoundDone, RoundItem
    <3> QED BY <3>2, <3>3, <3>4, PokeLeaves
  <2>7. stage' = "fetch" /\ subset' = "NONE" /\ mod' = "NONE"
    BY <2>3 DEF RoundDone
  <2>8. Word16(Word16(Start + 2) - 2) = Start
    BY <1>2, SMT DEF Word, Word16
  <2> DEFINE i == k + 1
  <2>9. /\ Handled(i)' /\ Ticked(2 * i)' /\ i \in 1..Turns
        /\ Goes => i \in 0..Turns - 1 /\ Searched(i)'
        /\ ~Goes => Verdict'
    BY <2>4, <2>5
  <2>10. regs'.PC = IF Goes THEN Start ELSE Word16(Start + 2)
    BY <1>18, <2>3, <2>8 DEF RoundDone
  <2> HIDE DEF i
  <2>11. BlockPhase'
    BY <1>6, <2>7, <2>9, <2>10 DEF BlockPhase, Ready
  <2>12. Turn(k)
    BY <1>6, <1>18, <1>20, <2>3, <2>7, <2>10 DEF Turn, AtWork
  <2> QED BY <1>8, <1>9, <2>6, <2>7, <2>11, <2>12
<1>19. ASSUME NEW k \in 1..Turns, stage = "fetch", regs.PC = Word16(Start + 2), Handled(k), Verdict, Ticked(2 * k)
       PROVE  BlockInv' /\ Idles
  <2>1. UNCHANGED vars
    BY <1>1, <1>11, <1>19, HasStopped
  <2>2. regs' = regs /\ stage' = stage /\ UNCHANGED <<mem, io, ret>> /\ mod' = mod
    BY <2>1 DEF vars
  <2>3. Ticked(2 * k)' /\ Handled(k)'
    BY <1>12, <1>13, <1>19, <2>2
  <2>4. Verdict'
    BY <1>6, <1>19, <2>2 DEF Verdict, A, B, F, Peek
  <2>5. BlockPhase'
    BY <1>6, <1>19, <2>2, <2>3, <2>4 DEF BlockPhase
  <2>6. Idles
    BY <1>6, <2>2 DEF Idles, AtWork
  <2> QED BY <1>8, <1>9, <2>2, <2>5, <2>6
<1> QED BY <1>8, <1>15, <1>16, <1>17, <1>18, <1>19 DEF BlockPhase

(* So its invariant is one.                                                *)
LEMMA BlockInductive ==
    ASSUME BlocksAside
    PROVE  Spec => []BlockInv
<1>1. Init => BlockInv
  <2> SUFFICES ASSUME Init, Transfers PROVE BlockInv
    BY DEF BlockInv
  <2>1. PICK p \in Programs : regs \in p.regs /\ mem = p.mem
    BY DEF Init
  <2>2. load.regs = regs /\ load.mem = mem /\ load.irq = irq /\ stage = "fetch" /\ subset = "NONE" /\ mod = "NONE"
    BY DEF Init
  <2>3. RegisterFile(regs)
    BY <2>1, ProgramsTyped DEF ProgramsAssumption
  <2>4. /\ Start = regs.PC /\ Start \in Word /\ Lo(regs.IR) \in Byte /\ B \in Byte
        /\ regs.BC \in Word /\ regs.DE \in Word /\ regs.HL \in Word
    BY <2>2, <2>3, Values DEF Start, Pairs, B
  <2>5. Op(0) = Loaded(p, regs.PC) /\ Op(1) = Loaded(p, regs.PC + 1)
    BY <2>1, <2>2, <2>4, SMT DEF Op, Loaded, Word
  <2>6. Aside
    <3> DEFINE op == Op(1)
               to == IF op % 8 = 0 THEN regs.DE ELSE regs.HL
    <3>1. IsBlock(p, regs) /\ op = Loaded(p, regs.PC + 1)
      BY <2>1, <2>2, <2>4, <2>5 DEF Transfers, IsBlock
    <3>2. op % 8 \in {0, 2} => \A k \in 0..Longest(op, regs.BC) - 1 : Past(op, to, k) \notin {regs.PC, Word16(regs.PC + 1)}
      BY <2>1, <3>1 DEF BlocksAside
    <3> QED BY <2>2, <2>4, <3>2 DEF Aside, Turns, Along
  <2>7. Ready(0) /\ Ticked(2 * 0)
    <3>1. \A w \in Word : Word16(w) = w /\ Word16(w + 0) = w /\ Word16(w - 0) = w
      BY SMT DEF Word, Word16
    <3>2. \A w \in Word : Along(w, 0) = w
      BY <3>1 DEF Along, Past
    <3>3. Byte8(B - 0) = B /\ Hi(load.regs.BC) = B
      BY <2>2, <2>4, SMT DEF Byte8, Byte, B
    <3>4. Handled(0)
      BY <2>2, <2>4, <3>1, <3>2, <3>3 DEF Init, Handled, A, F
    <3>5. Lo(load.regs.IR) + 2 * 0 = Lo(regs.IR)
      BY <2>2, <2>4, SMT DEF Byte
    <3>6. Searched(0)
      <4>1. \A j \in 0..0 - 1 : FALSE
        BY SMT
      <4> QED BY <4>1 DEF Searched
    <3> QED BY <2>2, <3>4, <3>5, <3>6 DEF Ticked, Ready
  <2>8. 0 \in 0..Turns - 1
    <3> DEFINE w == regs.BC
               h == Hi(w)
    <3>1. w \in Word /\ h \in Byte
      BY <2>3, Values DEF Pairs
    <3>2. Turns \in {1, 256, 65536} \/ (Turns = w /\ w # 0) \/ (Turns = h /\ h # 0)
      BY <2>2, TurnsAre, SMT
    <3> HIDE DEF h, w
    <3> QED BY <3>1, <3>2, SMT DEF Word, Byte
  <2>9. mem[Start] = 237 /\ mem[Word16(Start + 1)] = Op(1)
    <3>1. Op(0) # 255 /\ Op(1) # 255
      BY SMT DEF Transfers
    <3> QED BY <2>2, <2>4, <3>1, Cells DEF Op, Floating, Transfers
  <2>10. BlockPhase
    BY <2>2, <2>4, <2>7, <2>8 DEF BlockPhase
  <2> QED BY <2>2, <2>6, <2>9, <2>10 DEF BlockInv
<1>2. IInv /\ LoadOK /\ BlockInv /\ [Next]_vars => BlockInv'
  <2> SUFFICES ASSUME IInv, LoadOK, BlockInv, [Next]_vars PROVE BlockInv'
    OBVIOUS
  <2>0. load' = load
    BY LoadKept
  <2>1. /\ Start' = Start /\ Op(0)' = Op(0) /\ Op(1)' = Op(1) /\ Transfers' = Transfers /\ Turns' = Turns
        /\ \A w, k : Along(w, k)' = Along(w, k)
        /\ \A k : Searched(k)' = Searched(k)
    BY <2>0 DEF Start, Op, Transfers, Turns, Along, Searched, LoadedAt
  <2>2. Aside' = Aside
    BY <2>0, <2>1 DEF Aside
  <2>3. CASE UNCHANGED vars
    <3>1. regs' = regs /\ mem' = mem /\ irq' = irq /\ ret' = ret /\ stage' = stage /\ subset' = subset /\ mod' = mod
      BY <2>3 DEF vars
    <3>2. /\ \A k : Handled(k)' = Handled(k) /\ Ready(k)' = Ready(k)
          /\ \A n : Ticked(n)' = Ticked(n)
      <4>1. (\A k : Handled(k)' = Handled(k)) /\ (\A n : Ticked(n)' = Ticked(n))
        BY <2>0, <2>1, <3>1 DEF Handled, Ticked, A, B, F
      <4> QED BY <2>1, <4>1 DEF Ready
    <3>3. Verdict' = Verdict
      BY <2>1, <3>1 DEF Verdict, A, B, F, Peek
    <3>4. BlockPhase' = BlockPhase
      BY <2>1, <3>1, <3>2, <3>3 DEF BlockPhase
    <3> QED BY <2>0, <2>1, <2>2, <3>1, <3>4 DEF BlockInv
  <2>4. CASE Next /\ Transfers /\ irq' = load'.irq
    BY <2>4, BlockStep
  <2>5. CASE ~(Transfers /\ irq' = load'.irq)
    BY <2>0, <2>1, <2>2, <2>5 DEF BlockInv
  <2> QED BY <2>3, <2>4, <2>5
<1> QED BY <1>1, <1>2, ExecInductive, LoadInductive, PTL DEF Spec

-----------------------------------------------------------------------------
(* The refresh register.                                                   *)

Seven(n) == n % 128

(* The difference of a counter that has wrapped counts as well, as long as *)
(* seven bits are looked at.                                               *)
LEMMA SevenBits ==
    ASSUME NEW l \in Int, NEW k \in Int, NEW a \in Int
    PROVE  /\ Seven(l + 2 * (Word16(a + k) - a)) = Seven(l + 2 * k)
           /\ Seven(l + 2 * Word16(a - Word16(a - k))) = Seven(l + 2 * k)
           /\ Seven(l + 2 * Byte8(a - Byte8(a - k))) = Seven(l + 2 * k)
<1>1. ASSUME NEW x \in Int
      PROVE  (\E q \in Int : Word16(x) = x + 128 * q) /\ (\E q \in Int : Byte8(x) = x + 128 * q)
  <2>1. x % 256 = x - 256 * (x \div 256) /\ x % 65536 = x - 65536 * (x \div 65536)
    BY SMT
  <2>2. x \div 256 \in Int /\ x \div 65536 \in Int
    BY SMT
  <2>3. \A d \in Int : x - 256 * d = x + 128 * (0 - 2 * d) /\ 0 - 2 * d \in Int
    BY SMT
  <2>4. \A d \in Int : x - 65536 * d = x + 128 * (0 - 512 * d) /\ 0 - 512 * d \in Int
    BY SMT
  <2>5. \E q \in Int : Word16(x) = x + 128 * q
    <3>1. WITNESS 0 - 512 * (x \div 65536) \in Int
    <3> QED BY <2>1, <2>2, <2>4 DEF Word16
  <2>6. \E q \in Int : Byte8(x) = x + 128 * q
    <3>1. WITNESS 0 - 2 * (x \div 256) \in Int
    <3> QED BY <2>1, <2>2, <2>3 DEF Byte8
  <2> QED BY <2>5, <2>6
<1>2. ASSUME NEW y \in Int, NEW q \in Int PROVE (y + 128 * q) % 128 = y % 128
  BY SMT
<1>3. ASSUME NEW w, NEW q \in Int, w = a + k + 128 * q
      PROVE  (l + 2 * (w - a)) % 128 = (l + 2 * k) % 128
  <2>1. l + 2 * (w - a) = (l + 2 * k) + 128 * (2 * q)
    BY <1>3, SMT
  <2> QED BY <1>2, <2>1, SMT
<1>4. ASSUME NEW p \in Int, NEW q \in Int, NEW w, NEW v, w = a - k + 128 * q, v = a - w + 128 * p
      PROVE  (l + 2 * v) % 128 = (l + 2 * k) % 128
  <2>1. l + 2 * v = (l + 2 * k) + 128 * (2 * p - 2 * q)
    BY <1>4, SMT
  <2> QED BY <1>2, <2>1, SMT
<1>5. a + k \in Int /\ a - k \in Int /\ Word16(a - k) \in Int /\ Byte8(a - k) \in Int
  BY SMT DEF Word16, Byte8
<1>6. a - Word16(a - k) \in Int /\ a - Byte8(a - k) \in Int
  BY <1>5, SMT
<1>7. (l + 2 * (Word16(a + k) - a)) % 128 = (l + 2 * k) % 128
  BY <1>1, <1>3, <1>5
<1>8. (l + 2 * Word16(a - Word16(a - k))) % 128 = (l + 2 * k) % 128
  <2>1. PICK q \in Int : Word16(a - k) = a - k + 128 * q
    BY <1>1, <1>5
  <2>2. PICK p \in Int : Word16(a - Word16(a - k)) = a - Word16(a - k) + 128 * p
    BY <1>1, <1>6
  <2> QED BY <1>4, <2>1, <2>2
<1>9. (l + 2 * Byte8(a - Byte8(a - k))) % 128 = (l + 2 * k) % 128
  <2>1. PICK q \in Int : Byte8(a - k) = a - k + 128 * q
    BY <1>1, <1>5
  <2>2. PICK p \in Int : Byte8(a - Byte8(a - k)) = a - Byte8(a - k) + 128 * p
    BY <1>1, <1>6
  <2> QED BY <1>4, <2>1, <2>2
<1> QED BY <1>7, <1>8, <1>9 DEF Seven

(* Which programs the job of a block is about, and the width of its        *)
(* counter.                                                                *)
LEMMA JobIs ==
    /\ Job.kind # "none" <=> Transfers
    /\ Transfers => Job.width = IF Op(1) % 8 < 2 THEN 65536 ELSE 256
<1>1. CASE Transfers
  <2> DEFINE op == Op(1)
             i  == (op % 8) + 1
  <2>1. i \in 1..4
    <3>1. op \in 160..187 /\ op % 8 < 4
      BY <1>1 DEF Transfers
    <3> HIDE DEF op
    <3> QED BY <3>1, SMT
  <2>2. Job.kind = <<"LD", "CP", "IN", "OUT">>[i] /\ Job.width = IF op % 8 < 2 THEN 65536 ELSE 256
    BY <1>1, SMT DEF Job, Transfers
  <2>3. \A x \in 1..4 : <<"LD", "CP", "IN", "OUT">>[x] # "none"
    <3> TAKE x \in 1..4
    <3>1. x = 1 \/ x = 2 \/ x = 3 \/ x = 4
      BY SMT
    <3> QED BY <3>1
  <2>4. Job.kind # "none"
    <3> HIDE DEF i
    <3> QED BY <2>1, <2>2, <2>3
  <2> QED BY <1>1, <2>2, <2>4, SMT
<1>2. CASE ~Transfers
  BY <1>2 DEF Job, Transfers
<1> QED BY <1>1, <1>2

(* R counts the opcodes an uninterrupted program has fetched, in its seven *)
(* low bits.                                                               *)
THEOREM ExecRefreshCounts ==
    ASSUME LoopsAlone, IndexedAlone, BlocksAside
    PROVE  Spec => []RefreshCounts
<1> DEFINE Counts == Lo(regs.IR) % 128 = (Lo(load.regs.IR) + Fetches) % 128 /\ Hi(regs.IR) = Hi(load.regs.IR)
<1>1. ASSUME IInv, LoadOK PROVE Lo(regs.IR) \in Byte /\ Lo(load.regs.IR) \in Int
  <2>1. Lo(regs.IR) \in Byte /\ Lo(load.regs.IR) \in Byte
    BY <1>1, Facts, Values DEF LoadOK, Pairs
  <2> QED BY <2>1, SMT DEF Byte
<1>2. ASSUME IInv, LoadOK, LoopInv, HasEnded, Loops PROVE Counts
  <2>1. regs.DE = Word16(load.regs.DE + Passes) /\ Ticked(2 * Passes)
    <3>1. regs.PC # Start /\ regs.PC # Word16(Start + 1) /\ stage # "start"
      BY <1>2 DEF HasEnded, LoopInv
    <3> QED BY <1>2, <3>1 DEF LoopInv, LoopPhase
  <2>2. Hi(load.regs.BC) \in Byte /\ load.regs.DE \in Word
    BY <1>2, Values DEF LoadOK, Pairs
  <2>3. Passes \in Int /\ load.regs.DE \in Int /\ 2 * Passes \in Nat /\ 2 * Passes > 0
    BY <2>2, SMT DEF Passes, Byte, Word
  <2>4. Fetches = 2 * (regs.DE - load.regs.DE)
    <3>1. Op(0) = 19 /\ Op(1) = 16 /\ ~Transfers
      BY <1>2, SMT DEF Loops, Transfers
    <3> QED BY <3>1, SMT DEF Fetches
  <2> HIDE DEF Passes
  <2> DEFINE l == Lo(load.regs.IR)
  <2>5. Seven(l + 2 * (regs.DE - load.regs.DE)) = Seven(l + 2 * Passes)
    <3>1. l \in Int /\ Passes \in Int /\ load.regs.DE \in Int
      BY <1>1, <1>2, <2>3
    <3>2. Seven(l + 2 * (Word16(load.regs.DE + Passes) - load.regs.DE)) = Seven(l + 2 * Passes)
      <4> HIDE DEF l
      <4> QED BY <3>1, SevenBits, Zenon
    <3> QED BY <2>1, <3>2
  <2> QED BY <2>1, <2>4, <2>5 DEF Ticked, Seven
<1>3. ASSUME IInv, LoadOK, IndexedInv, HasEnded, irq = load.irq, CbIndexed PROVE Counts
  <2>1. Ticked(2)
    <3>1. Op(0) # Floating
      BY <1>3 DEF CbIndexed, Floating
    <3>2. Start \in Word /\ DOMAIN mem = DOMAIN load.mem
      BY <1>3, Values DEF LoadOK, Start, Pairs, IInv, TypeOK
    <3>3. regs.PC # Start /\ stage # "start" /\ stage # "displaced" /\ mod = "NONE"
      BY <1>3, <3>1, <3>2, Cells DEF HasEnded, Op
    <3> QED BY <1>3, <3>3 DEF IndexedInv, IndexedPhase
  <2>2. Fetches = 2
    <3>1. (Op(0) = 221 \/ Op(0) = 253) /\ Op(1) = 203 /\ ~Transfers
      BY <1>3, SMT DEF CbIndexed, Transfers
    <3> QED BY <3>1, SMT DEF Fetches
  <2> QED BY <2>1, <2>2 DEF Ticked
<1>4. ASSUME IInv, LoadOK, BlockInv, HasEnded, irq = load.irq, Transfers PROVE Counts
  <2>1. PICK k \in 1..Turns : Handled(k) /\ Ticked(2 * k)
    <3>1. Op(0) # Floating
      BY <1>4 DEF Transfers, Floating
    <3>2. Start \in Word /\ DOMAIN mem = DOMAIN load.mem
      BY <1>4, Values DEF LoadOK, Start, Pairs, IInv, TypeOK
    <3>3. regs.PC # Start /\ stage # "start" /\ subset # "ED"
      BY <1>4, <3>1, <3>2, Cells DEF HasEnded, Op
    <3> QED BY <1>4, <3>3 DEF BlockInv, BlockPhase
  <2>2. k \in Int /\ 2 * k \in Nat /\ 2 * k > 0
    BY SMT
  <2>3. load.regs.BC \in Int /\ Hi(load.regs.BC) \in Int
    <3>1. load.regs.BC \in Word /\ Hi(load.regs.BC) \in Byte
      BY <1>4, Values DEF LoadOK, Pairs
    <3> QED BY <3>1, SMT DEF Word, Byte
  <2>4. Fetches = 2 * Rounds
    <3>1. Op(0) = 237 /\ Transfers
      BY <1>4 DEF Transfers
    <3> QED BY <3>1, SMT DEF Fetches
  <2> DEFINE l == Lo(load.regs.IR)
  <2>5. Seven(l + 2 * Rounds) = Seven(l + 2 * k)
    <3> DEFINE c == load.regs.BC
               h == Hi(c)
    <3>1. l \in Int /\ c \in Int /\ h \in Int
      BY <1>1, <1>4, <2>3
    <3>2. CASE Op(1) % 8 < 2
      <4>1. regs.BC = Word16(c - k)
        BY <2>1, <3>2 DEF Handled
      <4>2. Job.width # 256
        BY <1>4, <3>2, JobIs, SMT
      <4>3. Rounds = Word16(c - Word16(c - k))
        BY <4>1, <4>2 DEF Rounds
      <4> HIDE DEF l, c, h
      <4>4. k \in Int
        BY <2>2
      <4> QED BY <3>1, <4>3, <4>4, SevenBits, Zenon
    <3>3. CASE ~(Op(1) % 8 < 2)
      <4>1. B = Byte8(h - k)
        BY <2>1, <3>3 DEF Handled
      <4>2. Job.width = 256
        BY <1>4, <3>3, JobIs, SMT
      <4>3. Rounds = Byte8(h - Byte8(h - k))
        BY <4>1, <4>2, SMT DEF Rounds
      <4> HIDE DEF l, c, h
      <4>4. k \in Int
        BY <2>2
      <4> QED BY <3>1, <4>3, <4>4, SevenBits, Zenon
    <3> QED BY <3>2, <3>3
  <2> QED BY <2>1, <2>4, <2>5 DEF Ticked, Seven
<1>5. IInv /\ LoadOK /\ LoopInv /\ IndexedInv /\ BlockInv => RefreshCounts
  BY <1>2, <1>3, <1>4, JobIs DEF RefreshCounts, Loops, CbIndexed
<1> QED BY <1>5, ExecInductive, LoadInductive, LoopInductive, IndexedInductive, BlockInductive, PTL

-----------------------------------------------------------------------------
(* What the job of a block is.                                             *)
LEMMA JobHas ==
    ASSUME Transfers
    PROVE  /\ Job.kind = <<"LD", "CP", "IN", "OUT">>[(Op(1) % 8) + 1] /\ Op(1) % 8 \in 0..3
           /\ (Job.kind = "LD" <=> Op(1) % 8 = 0) /\ (Job.kind = "CP" <=> Op(1) % 8 = 1)
           /\ (Job.kind = "IN" <=> Op(1) % 8 = 2) /\ (Job.kind = "OUT" <=> Op(1) % 8 = 3)
           /\ Job.step = (IF (Op(1) \div 8) % 2 = 1 THEN -1 ELSE 1)
           /\ (Job.again <=> ~(Op(1) < 176)) /\ Job.again \in BOOLEAN
           /\ Job.key = Hi(load.regs.AF) /\ Job.c = Lo(load.regs.BC)
<1> DEFINE op == Op(1)
           m  == op % 8
           q  == op \div 16
<1>1. op \in 160..187 /\ op % 8 < 4
  BY DEF Transfers
<1>2. m \in 0..3
  <2> HIDE DEF op
  <2> QED BY <1>1, SMT
<1>3. q = 11 <=> ~(op < 176)
  <2> HIDE DEF op
  <2> QED BY <1>1, SMT
<1>4. /\ Job.kind = <<"LD", "CP", "IN", "OUT">>[m + 1]
      /\ Job.step = (IF (op \div 8) % 2 = 1 THEN -1 ELSE 1)
      /\ Job.again = (q = 11) /\ Job.key = Hi(load.regs.AF) /\ Job.c = Lo(load.regs.BC)
  <2> DEFINE step == IF (op \div 8) % 2 = 1 THEN -1 ELSE 1
  <2>1. Job.kind = <<"LD", "CP", "IN", "OUT">>[m + 1]
    BY SMT DEF Job, Transfers
  <2>2. Job.step = step
    BY SMT DEF Job, Transfers
  <2>3. Job.again = (q = 11)
    BY SMT DEF Job, Transfers
  <2>4. Job.key = Hi(load.regs.AF) /\ Job.c = Lo(load.regs.BC)
    BY SMT DEF Job, Transfers
  <2> HIDE DEF m, q, op
  <2> QED BY <2>1, <2>2, <2>3, <2>4
<1>5. \A x \in 0..3 : LET k == <<"LD", "CP", "IN", "OUT">>[x + 1]
                      IN  /\ (k = "LD" <=> x = 0) /\ (k = "CP" <=> x = 1)
                          /\ (k = "IN" <=> x = 2) /\ (k = "OUT" <=> x = 3)
  <2> TAKE x \in 0..3
  <2>1. x = 0 \/ x = 1 \/ x = 2 \/ x = 3
    BY SMT
  <2> QED BY <2>1, SMT
<1>6. /\ (Job.kind = "LD" <=> m = 0) /\ (Job.kind = "CP" <=> m = 1)
      /\ (Job.kind = "IN" <=> m = 2) /\ (Job.kind = "OUT" <=> m = 3)
  <2> DEFINE kind(x) == <<"LD", "CP", "IN", "OUT">>[x + 1]
  <2>1. /\ \A x \in 0..3 : (kind(x) = "LD" <=> x = 0) /\ (kind(x) = "CP" <=> x = 1)
                             /\ (kind(x) = "IN" <=> x = 2) /\ (kind(x) = "OUT" <=> x = 3)
        /\ Job.kind = kind(m)
    BY <1>4, <1>5
  <2> HIDE DEF kind, m
  <2> QED BY <1>2, <2>1
<1>7. (Job.again <=> q = 11) /\ Job.again \in BOOLEAN
  BY <1>4
<1> QED BY <1>2, <1>3, <1>4, <1>6, <1>7

(* An uninterrupted block that has ended is behind its last round.         *)
LEMMA AtLast ==
    ASSUME IInv, LoadOK, BlockInv, HasEnded, irq = load.irq, Transfers
    PROVE  \E k \in 1..Turns : Handled(k) /\ Verdict /\ Ticked(2 * k)
<1>1. Op(0) # Floating
  BY DEF Transfers, Floating
<1>2. Start \in Word /\ DOMAIN mem = DOMAIN load.mem
  BY Values DEF LoadOK, Start, Pairs, IInv, TypeOK
<1>3. regs.PC # Start /\ stage # "start" /\ subset # "ED"
  BY <1>1, <1>2, Cells DEF HasEnded, Op
<1> QED BY <1>3 DEF BlockInv, BlockPhase

(* The flags of an uninterrupted block say what has come of it.            *)
THEOREM ExecBlockVerdict ==
    ASSUME BlocksAside
    PROVE  Spec => [](irq = load.irq => BlockVerdict)
<1>1. IInv /\ LoadOK /\ BlockInv => (irq = load.irq => BlockVerdict)
  <2> SUFFICES ASSUME IInv, LoadOK, BlockInv, irq = load.irq, Transfers, HasEnded PROVE BlockVerdict
    BY DEF BlockVerdict
  <2>2. /\ Verdict /\ regs.HL \in Word
        /\ Op(1) % 8 < 2 => (FlagC \in F <=> FlagC \in BitsOf[Lo(load.regs.AF)])
    BY AtLast, Facts DEF Pairs, Handled
  <2>3. Op(1) % 8 = 1 => Peek(regs.HL - Job.step) = Peek(IF (Op(1) \div 8) % 2 = 1 THEN regs.HL + 1 ELSE regs.HL - 1)
    <3>1. \A w \in Word : w - (-1) = w + 1
      BY SMT DEF Word
    <3> QED BY <2>2, <3>1, JobHas
  <2>4. CASE Job.kind = "LD"
    <3>1. Op(1) % 8 < 2 /\ Op(1) % 8 # 1
      BY <2>4, JobHas, SMT
    <3> QED BY <2>2, <2>4, <3>1 DEF BlockVerdict, Verdict
  <2>5. CASE Job.kind = "CP"
    <3>1. Op(1) % 8 < 2 /\ Op(1) % 8 = 1 /\ (Job.again <=> ~(Op(1) < 176))
      BY <2>5, JobHas, SMT
    <3> QED BY <2>2, <2>3, <2>5, <3>1 DEF BlockVerdict, Verdict
  <2>6. CASE Job.kind # "LD" /\ Job.kind # "CP"
    <3>1. ~(Op(1) % 8 < 2)
      BY <2>6, JobHas, SMT
    <3> QED BY <2>2, <2>6, <3>1 DEF BlockVerdict, Verdict
  <2> QED BY <2>4, <2>5, <2>6
<1> QED BY <1>1, ExecInductive, LoadInductive, BlockInductive, PTL

(* The rounds keep off the stack of interrupts.                            *)
StackCells == Stack \cap DOMAIN load.mem
OffStack ==
    Transfers =>
      \A k \in 0..Turns - 1 :
        Searched(k) => /\ Along(load.regs.HL, k) \notin StackCells
                       /\ Op(1) % 8 = 0 => Along(load.regs.DE, k) \notin StackCells

(* A block whose text spares the stack cells spares them to the end.       *)
LEMMA OffStackKept ==
    ASSUME BlocksOffStack
    PROVE  Spec => []OffStack
<1>1. Init => OffStack
  <2> SUFFICES ASSUME Init, Transfers, NEW k \in 0..Turns - 1, Searched(k)
               PROVE  /\ Along(load.regs.HL, k) \notin StackCells
                      /\ Op(1) % 8 = 0 => Along(load.regs.DE, k) \notin StackCells
    BY DEF OffStack
  <2>1. PICK p \in Programs : regs \in p.regs /\ mem = p.mem
    BY DEF Init
  <2>2. load.regs = regs /\ load.mem = mem
    BY DEF Init
  <2>3. Start = regs.PC /\ Start \in Word
    <3>1. RegisterFile(regs)
      BY <2>1, ProgramsTyped DEF ProgramsAssumption
    <3> QED BY <2>2, <3>1, Values DEF Start, Pairs
  <2>4. Op(0) = Loaded(p, regs.PC) /\ Op(1) = Loaded(p, regs.PC + 1) /\ \A a : LoadedAt(a) = Loaded(p, a)
    BY <2>1, <2>2, <2>3, SMT DEF Op, Loaded, LoadedAt, Word
  <2> DEFINE op == Loaded(p, regs.PC + 1)
             stack == Below(regs.SP) \cap DOMAIN p.mem
  <2>5. IsBlock(p, regs)
    BY <2>1, <2>2, <2>3, <2>4 DEF Transfers, IsBlock
  <2>6. \A i \in 0..Longest(op, regs.BC) - 1 :
          \/ Past(op, regs.HL, i) \notin stack /\ (op % 8 = 0 => Past(op, regs.DE, i) \notin stack)
          \/ op % 8 = 1 /\ \E j \in 0..i - 1 : Loaded(p, Past(op, regs.HL, j)) = Hi(regs.AF)
    BY <2>1, <2>5 DEF BlocksOffStack
  <2>7. StackCells = stack
    BY <2>1, <2>2 DEF StackCells, Stack
  <2>8. k \in 0..Longest(op, regs.BC) - 1
    BY <2>2, <2>4 DEF Turns
  <2>9. \A w, i : Along(w, i) = Past(op, w, i)
    BY <2>4 DEF Along
  <2> HIDE DEF stack
  <2>10. ~(op % 8 = 1 /\ \E j \in 0..k - 1 : Loaded(p, Past(op, regs.HL, j)) = Hi(regs.AF))
    BY <2>2, <2>4, <2>9 DEF Searched
  <2> QED BY <2>2, <2>4, <2>6, <2>7, <2>8, <2>9, <2>10
<1>2. OffStack /\ [Next]_vars => OffStack'
  <2> SUFFICES ASSUME OffStack, [Next]_vars PROVE OffStack'
    OBVIOUS
  <2>1. load' = load
    BY LoadKept
  <2>2. /\ Op(0)' = Op(0) /\ Op(1)' = Op(1) /\ Transfers' = Transfers /\ Turns' = Turns /\ StackCells' = StackCells
        /\ \A w, k : Along(w, k)' = Along(w, k)
        /\ \A k : Searched(k)' = Searched(k)
    BY <2>1 DEF Start, Op, Transfers, Turns, Along, Searched, LoadedAt, StackCells, Stack
  <2> QED BY <2>1, <2>2 DEF OffStack
<1> QED BY <1>1, <1>2, PTL DEF Spec

-----------------------------------------------------------------------------
(* The items of a block: what Z80Block sees of the machine.                *)
Shown == [a \in DOMAIN mem \ Stack |-> mem[a]]

(* While it is uninterrupted.                                              *)
LEMMA Seen ==
    ASSUME Transfers, ret = <<>>
    PROVE  /\ (Active <=> AtWork) /\ Active \in BOOLEAN
           /\ OfJob(regs.HL) = regs.HL /\ OfJob(regs.DE) = regs.DE /\ OfJob(Count) = Count
           /\ OfJob(io) = io /\ OfJob([a \in DOMAIN mem \ Stack |-> mem[a]]) = Shown
<1>1. Active \in BOOLEAN /\ (Active <=> AtWork)
  BY DEF Active, Home, AtWork
<1> QED BY <1>1 DEF OfJob, Shown

(* What % makes of a number less than once too small or too large.         *)
LEMMA Moduli ==
    /\ \A x \in Int : (0 <= x /\ x < 256) => x % 256 = x
    /\ \A x \in Int : (-256 <= x /\ x < 0) => x % 256 = x + 256
    /\ \A x \in Int : (256 <= x /\ x < 512) => x % 256 = x - 256
    /\ \A x \in Int : (0 <= x /\ x < 65536) => x % 65536 = x
    /\ \A x \in Int : (-65536 <= x /\ x < 0) => x % 65536 = x + 65536
    /\ \A x \in Int : (65536 <= x /\ x < 131072) => x % 65536 = x - 65536
<1>1. \A x \in Int : (0 <= x /\ x < 256) => x % 256 = x
  BY SMT
<1>2. \A x \in Int : (-256 <= x /\ x < 0) => x % 256 = x + 256
  BY SMT
<1>3. \A x \in Int : (256 <= x /\ x < 512) => x % 256 = x - 256
  BY SMT
<1>4. \A x \in Int : (0 <= x /\ x < 65536) => x % 65536 = x
  BY SMT
<1>5. \A x \in Int : (-65536 <= x /\ x < 0) => x % 65536 = x + 65536
  BY SMT
<1>6. \A x \in Int : (65536 <= x /\ x < 131072) => x % 65536 = x - 65536
  BY SMT
<1> QED BY <1>1, <1>2, <1>3, <1>4, <1>5, <1>6, SMT

(* A counter that stands for a number of items.                            *)
Standing(n, w) == IF n = 0 THEN w ELSE n

(* Counting it down by one is what DJNZ and DEC do to the register.        *)
LEMMA Counted ==
    ASSUME NEW w \in Int, w > 1,
           \A x \in Int : (0 <= x /\ x < w) => x % w = x,
           \A x \in Int : (0 - w <= x /\ x < 0) => x % w = x + w,
           \A x \in Int : (w <= x /\ x < w + w) => x % w = x - w,
           NEW n \in Int, 0 <= n, n < w
    PROVE  /\ Standing(n, w) \in 1..w /\ Standing(n, w) % w = n
           /\ Standing(n, w) - 1 = (n - 1) % w
           /\ (n - 1) % w \in Int /\ 0 <= (n - 1) % w /\ (n - 1) % w < w
<1>1. CASE n = 0
  <2>1. Standing(n, w) = w
    BY <1>1 DEF Standing
  <2>2. w \in 1..w /\ w - 1 \in Int /\ 0 <= w - 1 /\ w - 1 < w
    BY SMT
  <2>3. w % w = n
    <3>1. w <= w /\ w < w + w /\ w - w = 0
      BY SMT
    <3> QED BY <1>1, <3>1, Zenon
  <2>4. (n - 1) % w = w - 1
    <3>1. n - 1 \in Int /\ 0 - w <= n - 1 /\ n - 1 < 0 /\ (n - 1) + w = w - 1
      BY <1>1, SMT
    <3> QED BY <3>1, Zenon
  <2> QED BY <2>1, <2>2, <2>3, <2>4
<1>2. CASE n # 0
  <2>1. Standing(n, w) = n
    BY <1>2 DEF Standing
  <2>2. n \in 1..w /\ n - 1 \in Int /\ 0 <= n - 1 /\ n - 1 < w
    BY <1>2, SMT
  <2>3. n % w = n
    BY Zenon
  <2>4. (n - 1) % w = n - 1
    BY <2>2, Zenon
  <2> QED BY <2>1, <2>2, <2>3, <2>4
<1> QED BY <1>1, <1>2

(* The moduli of B and of BC.                                              *)
Full8  == 256
Full16 == 65536

(* B stands for up to 256 items.                                           *)
LEMMA CountedBytes ==
    ASSUME NEW n \in Byte
    PROVE  /\ Standing(n, Full8) \in 1..Full8 /\ Standing(n, Full8) % Full8 = n
           /\ Standing(n, Full8) - 1 = Byte8(n - 1) /\ Byte8(n - 1) % Full8 = Byte8(n - 1)
<1>1. n \in Int /\ 0 <= n /\ n < Full8
  BY SMT DEF Byte, Full8
<1>2. /\ Full8 \in Int /\ Full8 > 1
      /\ \A x \in Int : (0 <= x /\ x < Full8) => x % Full8 = x
      /\ \A x \in Int : (0 - Full8 <= x /\ x < 0) => x % Full8 = x + Full8
      /\ \A x \in Int : (Full8 <= x /\ x < Full8 + Full8) => x % Full8 = x - Full8
  BY Moduli, SMT DEF Full8
<1>3. /\ Standing(n, Full8) \in 1..Full8 /\ Standing(n, Full8) % Full8 = n
      /\ Standing(n, Full8) - 1 = (n - 1) % Full8
      /\ (n - 1) % Full8 \in Int /\ 0 <= (n - 1) % Full8 /\ (n - 1) % Full8 < Full8
  BY <1>1, <1>2, Counted
<1>4. Byte8(n - 1) = (n - 1) % Full8
  BY SMT DEF Byte8, Full8
<1> QED BY <1>2, <1>3, <1>4, Zenon

(* BC stands for up to 65536 items.                                        *)
LEMMA CountedWords ==
    ASSUME NEW n \in Word
    PROVE  Standing(n, Full16) \in 1..Full16 /\ Standing(n, Full16) - 1 = Word16(n - 1)
<1>1. n \in Int /\ 0 <= n /\ n < Full16
  BY SMT DEF Word, Full16
<1>2. /\ Full16 \in Int /\ Full16 > 1
      /\ \A x \in Int : (0 <= x /\ x < Full16) => x % Full16 = x
      /\ \A x \in Int : (0 - Full16 <= x /\ x < 0) => x % Full16 = x + Full16
      /\ \A x \in Int : (Full16 <= x /\ x < Full16 + Full16) => x % Full16 = x - Full16
  BY Moduli, SMT DEF Full16
<1>3. Standing(n, Full16) \in 1..Full16 /\ Standing(n, Full16) - 1 = (n - 1) % Full16
  BY <1>1, <1>2, Counted
<1>4. Word16(n - 1) = (n - 1) % Full16
  BY SMT DEF Word16, Full16
<1> QED BY <1>3, <1>4

(* One item less to go.                                                    *)
LEMMA OneLess ==
    ASSUME IInv, Transfers, Transfers', NEW k, Turn(k), Job' = Job
    PROVE  /\ Active /\ Count \in 1..Job.width /\ Count' = Count - 1 /\ Job.width \in Nat
           /\ Active' <=> Goes
           /\ Goes <=> Job.again /\ Count > 1 /\ ~(Job.kind = "CP" /\ Peek(regs.HL) = A)
           /\ Op(1) % 8 > 1 => B = Count % 256 /\ Byte8(B - 1) = (Count - 1) % 256
<1> DEFINE n == IF Job.width = 256 THEN B ELSE regs.BC
           w == Job.width
           found == Job.kind = "CP" /\ Peek(regs.HL) = A
<1>1. RoundDone /\ ret = <<>> /\ ret' = <<>> /\ regs.instr = Op(1) /\ stage = "start" /\ (AtWork' <=> Goes)
  BY DEF Turn, Ready, Handled, RoundDone
<1>2. Active /\ (Active' <=> Goes)
  <2>1. Active
    BY <1>1, Seen DEF AtWork
  <2>2. Active' <=> AtWork'
    BY <1>1, JobIs DEF Active, Home, AtWork, Job
  <2> QED BY <1>1, <2>1, <2>2
<1>3. /\ Z = Op(1) % 8 /\ Z \in 0..3 /\ (Y > 5 <=> ~(Op(1) < 176))
  <2> DEFINE op == Op(1)
  <2>1. op \in 160..187 /\ op % 8 < 4 /\ regs.instr = op
    BY <1>1 DEF Transfers
  <2> HIDE DEF op
  <2>2. Z = op % 8 /\ Z \in 0..3 /\ (Y > 5 <=> ~(op < 176))
    BY <2>1, SMT DEF Y, Z
  <2> QED BY <2>2 DEF op
<1>4. w = (IF Z < 2 THEN Full16 ELSE Full8) /\ (w = 256 <=> ~(Z < 2)) /\ w \in Nat
  <2>1. w = IF Z < 2 THEN 65536 ELSE 256
    BY <1>3, JobIs, SMT
  <2>2. w = IF Z < 2 THEN Full16 ELSE Full8
    BY <2>1, SMT DEF Full16, Full8
  <2>3. (w = 256 <=> ~(Z < 2)) /\ w \in Nat
    BY <2>1, SMT
  <2> QED BY <2>2, <2>3
<1>5. /\ Standing(n, w) \in 1..w /\ Standing(n, w) - 1 = n'
      /\ ~(Z < 2) => Standing(n, w) % Full8 = n /\ n' % Full8 = n' /\ n' = Byte8(B - 1) /\ n = B
  <2>1. B \in Byte /\ regs.BC \in Word
    BY Facts DEF Pairs
  <2>2. CASE Z < 2
    <3>1. n = regs.BC /\ n' = regs'.BC /\ w = Full16
      BY <1>4, <2>2
    <3>2. regs'.BC = Word16(regs.BC - 1)
      BY <1>1, <2>2 DEF RoundDone
    <3>3. Standing(regs.BC, Full16) \in 1..Full16 /\ Standing(regs.BC, Full16) - 1 = regs'.BC
      BY <2>1, <3>2, CountedWords
    <3> HIDE DEF n, w
    <3> QED BY <2>2, <3>1, <3>3
  <2>3. CASE ~(Z < 2)
    <3>1. n = B /\ n' = B' /\ w = Full8
      BY <1>4, <2>3
    <3>2. B' = Byte8(B - 1)
      BY <1>1, <2>3 DEF RoundDone
    <3>3. /\ Standing(B, Full8) \in 1..Full8 /\ Standing(B, Full8) % Full8 = B
          /\ Standing(B, Full8) - 1 = B' /\ B' % Full8 = B'
      BY <2>1, <3>2, CountedBytes
    <3> HIDE DEF n, w
    <3> QED BY <2>3, <3>1, <3>2, <3>3
  <2> QED BY <2>2, <2>3
<1>6. Count = Standing(n, w)
  BY <1>2 DEF Count, Standing
<1>7. Goes <=> Repeats /\ n' # 0 /\ ~found
  <2>1. (Z < 2 => n' = regs'.BC) /\ (~(Z < 2) => n' = B')
    BY <1>4
  <2>2. Z = 1 <=> Job.kind = "CP"
    BY <1>3, JobHas
  <2> HIDE DEF n
  <2> QED BY <2>1, <2>2 DEF Goes
<1>8. Count' = n'
  <2>1. Count' = IF Active' /\ n' = 0 THEN w ELSE n'
    BY DEF Count
  <2> HIDE DEF n, w
  <2> QED BY <1>2, <1>7, <2>1
<1>9. Repeats <=> Job.again
  BY <1>3, JobHas DEF Repeats
<1> HIDE DEF n, found
<1>10. Count \in 1..w /\ Count' = Count - 1 /\ n' = Count - 1
  BY <1>5, <1>6, <1>8
<1>11. Count > 1 <=> n' # 0
  <2>1. \A i \in Nat \ {0} : i > 1 <=> i - 1 # 0
    BY SMT
  <2>2. 1..w \subseteq Nat \ {0}
    BY <1>4, SMT
  <2> QED BY <1>10, <2>1, <2>2
<1>12. ASSUME Op(1) % 8 > 1 PROVE B = Count % 256 /\ Byte8(B - 1) = (Count - 1) % 256
  <2>1. ~(Z < 2)
    BY <1>3, <1>12, SMT
  <2>2. B = Count % Full8 /\ Byte8(B - 1) = (Count - 1) % Full8
    BY <1>5, <1>6, <1>10, <2>1
  <2> QED BY <2>2, SMT DEF Full8
<1> QED BY <1>2, <1>4, <1>7, <1>9, <1>10, <1>11, <1>12 DEF found

(* A round is the next item of the block.                                  *)
LEMMA ItemStep ==
    ASSUME IInv, IInv', LoadOK, Transfers, OffStack, NEW k \in 0..Turns - 1, Turn(k), load' = load
    PROVE  Items!Copy \/ Items!Compare \/ Items!Input \/ Items!Output
<1> DEFINE hl == regs.HL
           de == regs.DE
           step == Job.step
           n == Count
<1>1. /\ RoundDone /\ Handled(k) /\ Searched(k) /\ ret = <<>> /\ ret' = <<>> /\ regs.instr = Op(1)
      /\ A = Hi(load.regs.AF)
  BY DEF Turn, Ready, Handled, RoundDone
<1>2. /\ Job' = Job /\ Stack' = Stack /\ Transfers' = Transfers /\ Transfers' /\ Job.kind # "none"
      /\ DOMAIN mem = DOMAIN load.mem /\ DOMAIN mem' = DOMAIN mem
  <2>0. load' = load
    OBVIOUS
  <2>1. Op(0)' = Op(0) /\ Op(1)' = Op(1) /\ Start' = Start
    BY <2>0, Zenon DEF Op, Start
  <2>2. Job' = Job /\ Stack' = Stack /\ Transfers' = Transfers
    BY <2>0, <2>1, SMT DEF Job, Stack, Transfers
  <2>3. DOMAIN mem = DOMAIN load.mem /\ DOMAIN mem' = DOMAIN load'.mem
    BY DEF IInv, TypeOK
  <2> QED BY <2>2, <2>3, JobIs
<1>3. /\ Active /\ n \in Nat /\ Count' = n - 1 /\ (Active' <=> Goes)
      /\ Goes <=> Job.again /\ n > 1 /\ ~(Job.kind = "CP" /\ Peek(hl) = A)
      /\ Op(1) % 8 > 1 => B = n % 256 /\ Byte8(B - 1) = (n - 1) % 256
  <2>1. 1..Job.width \subseteq Nat
    BY SMT
  <2>2. /\ Active /\ Count \in 1..Job.width /\ Count' = Count - 1
        /\ Active' <=> Goes
        /\ Goes <=> Job.again /\ Count > 1 /\ ~(Job.kind = "CP" /\ Peek(regs.HL) = A)
        /\ Op(1) % 8 > 1 => B = Count % 256 /\ Byte8(B - 1) = (Count - 1) % 256
    BY <1>2, OneLess, Zenon
  <2> QED BY <2>1, <2>2
<1>4. /\ OfJob(regs.HL) = hl /\ OfJob(regs.DE) = de /\ OfJob(Count) = n /\ OfJob(io) = io
      /\ OfJob([a \in DOMAIN mem \ Stack |-> mem[a]]) = Shown
  BY <1>1, Seen
<1>5. /\ OfJob(regs.HL)' = regs'.HL /\ OfJob(regs.DE)' = regs'.DE /\ OfJob(Count)' = Count' /\ OfJob(io)' = io'
      /\ OfJob([a \in DOMAIN mem \ Stack |-> mem[a]])' = Shown'
  BY <1>2 DEF OfJob, Shown
<1>6. hl \in Word /\ de \in Word
  BY Facts DEF Pairs
<1>7. hl \notin Stack \cap DOMAIN mem /\ (Op(1) % 8 = 0 => de \notin Stack \cap DOMAIN mem)
  BY <1>1, <1>2 DEF OffStack, StackCells, Handled
<1>8. \A w \in Word : Items!Beside(w) = Moved(w)
  <2>1. (Y % 2 = 1 <=> (Op(1) \div 8) % 2 = 1)
    <3> DEFINE op == Op(1)
    <3>1. op \in 160..187 /\ regs.instr = op
      BY <1>1 DEF Transfers
    <3> HIDE DEF op
    <3>2. Y % 2 = 1 <=> (op \div 8) % 2 = 1
      BY <3>1, SMT DEF Y
    <3> QED BY <3>2 DEF op
  <2>2. step = IF Y % 2 = 1 THEN -1 ELSE 1
    BY <2>1, JobHas
  <2>3. \A w \in Word : w + (-1) = w - 1
    BY SMT DEF Word
  <2> QED BY <2>2, <2>3 DEF Items!Beside, Moved, Word16
<1>9. Items!At(hl) = Peek(hl)
  <2>1. Word16(hl) = hl
    BY <1>6, WordKept
  <2> QED BY <1>4, <1>7, <2>1 DEF Items!At, Shown, Peek, Floating
<1>10. ASSUME NEW a \in Word, NEW v, a \notin Stack \cap DOMAIN mem, mem' = Poke(a, v)
       PROVE  Shown' = Items!Write(a, v)
  <2>1. Word16(a) = a
    BY <1>10, WordKept
  <2>2. CASE a \in DOMAIN mem
    <3>1. mem' = [mem EXCEPT ![a] = v]
      BY <1>10, <2>1, <2>2 DEF Poke, PokeIn
    <3>2. a \in DOMAIN Shown /\ Items!Write(a, v) = [Shown EXCEPT ![a] = v]
      BY <1>4, <1>10, <2>2 DEF Items!Write, Shown
    <3> QED BY <1>2, <3>1, <3>2 DEF Shown
  <2>3. CASE a \notin DOMAIN mem
    <3>1. mem' = mem
      BY <1>10, <2>1, <2>3 DEF Poke, PokeIn
    <3>2. Items!Write(a, v) = Shown
      BY <1>4, <2>3 DEF Items!Write, Shown
    <3> QED BY <1>2, <3>1, <3>2 DEF Shown
  <2> QED BY <2>2, <2>3
<1>11. /\ Op(1) % 8 = Z /\ Z \in 0..3
       /\ (Job.kind = "LD" <=> Z = 0) /\ (Job.kind = "CP" <=> Z = 1)
       /\ (Job.kind = "IN" <=> Z = 2) /\ (Job.kind = "OUT" <=> Z = 3)
  BY <1>1, JobHas DEF Z
<1>12. ASSUME NEW found \in BOOLEAN, found <=> Job.kind = "CP" /\ Peek(hl) = A
       PROVE  Items!Item(Job.kind, found)
  <2>1. Active' = (Job.again /\ n > 1 /\ ~found)
    <3>1. Active' \in BOOLEAN
      BY DEF Active
    <3> QED BY <1>3, <1>12, <3>1, JobHas
  <2>2. OfJob(regs.HL)' = Items!Beside(OfJob(regs.HL)) /\ OfJob(Count)' = OfJob(Count) - 1
    BY <1>1, <1>3, <1>4, <1>5, <1>6, <1>8 DEF RoundDone
  <2> HIDE DEF n
  <2> QED BY <1>2, <1>3, <1>4, <2>1, <2>2 DEF Items!Item
<1> HIDE DEF hl, de, n, step
<1>13. CASE Z = 0
  <2>1. mem' = Poke(de, Peek(hl)) /\ io' = io
    <3>1. Z # 1 /\ Z # 2 /\ Z # 3
      BY <1>13, SMT
    <3> QED BY <1>1, <3>1 DEF RoundDone, RoundItem, hl, de
  <2>2. regs'.DE = Moved(de)
    BY <1>1, <1>13 DEF RoundDone, de
  <2>3. Items!Item("LD", FALSE)
    <3>1. Job.kind = "LD"
      BY <1>11, <1>13
    <3> QED BY <1>12, <3>1
  <2>4. Shown' = Items!Write(de, Peek(hl))
    BY <1>6, <1>7, <1>10, <1>11, <1>13, <2>1
  <2> QED BY <1>4, <1>5, <1>6, <1>8, <1>9, <2>1, <2>2, <2>3, <2>4 DEF Items!Copy
<1>14. CASE Z = 1
  <2>1. mem' = mem /\ io' = io /\ regs'.DE = de
    <3>1. Z # 0 /\ Z # 2 /\ Z # 3
      BY <1>14, SMT
    <3> QED BY <1>1, <3>1 DEF RoundDone, RoundItem, hl, de
  <2>2. Job.kind = "CP" /\ Job.key = A
    BY <1>1, <1>11, <1>14, JobHas
  <2>3. Items!Item("CP", Items!At(OfJob(regs.HL)) = Job.key)
    BY <1>4, <1>9, <1>12, <2>2
  <2>4. Shown' = Shown
    BY <1>2, <2>1 DEF Shown
  <2> QED BY <1>4, <1>5, <2>1, <2>3, <2>4 DEF Items!Compare
<1>15. CASE Z = 2
  <2>0. Z # 0 /\ Z # 1 /\ Z # 3 /\ Z > 1 /\ ~(Z < 2)
    BY <1>15, SMT
  <2>1. PICK v \in BusBytes : mem' = Poke(hl, v) /\ io' = [dir |-> "in", port |-> regs.BC, v |-> v]
    BY <1>1, <2>0 DEF RoundDone, RoundItem, hl
  <2>2. regs'.DE = de
    BY <1>1, <2>0 DEF RoundDone, de
  <2>3. Items!Item("IN", FALSE)
    <3>1. Job.kind = "IN"
      BY <1>11, <1>15
    <3> QED BY <1>12, <3>1
  <2>4. Shown' = Items!Write(hl, v)
    BY <1>6, <1>7, <1>10, <2>1
  <2>5. Items!Port(n) = regs.BC
    <3>1. regs.BC = WordOf(B, Lo(load.regs.BC))
      BY <1>1, <1>11, <2>0, Facts, HalvesOf DEF Handled, B, Pairs
    <3> QED BY <1>3, <1>11, <2>0, <3>1, JobHas DEF Items!Port, WordOf
  <2>6. \E x \in BusBytes : /\ OfJob([a \in DOMAIN mem \ Stack |-> mem[a]])' = Items!Write(OfJob(regs.HL), x)
                            /\ OfJob(io)' = [dir |-> "in", port |-> Items!Port(OfJob(Count)), v |-> x]
    BY <1>4, <1>5, <2>1, <2>4, <2>5
  <2> QED BY <1>4, <1>5, <2>2, <2>3, <2>6 DEF Items!Input
<1>16. CASE Z = 3
  <2>0. Z # 0 /\ Z # 1 /\ Z # 2 /\ Z > 1 /\ ~(Z < 2)
    BY <1>16, SMT
  <2>1. mem' = mem /\ io' = [dir |-> "out", port |-> OutPort(regs.BC), v |-> Peek(hl)] /\ regs'.DE = de
    BY <1>1, <2>0 DEF RoundDone, RoundItem, hl, de
  <2>2. Items!Item("OUT", FALSE)
    <3>1. Job.kind = "OUT"
      BY <1>11, <1>16
    <3> QED BY <1>12, <3>1
  <2>3. Shown' = Shown
    BY <1>2, <2>1 DEF Shown
  <2>4. Items!Port(n - 1) = OutPort(regs.BC)
    <3>1. OutPort(regs.BC) = WordOf(Byte8(B - 1), Lo(load.regs.BC))
      BY <1>1, <1>11, <2>0 DEF Handled, B, OutPort
    <3> QED BY <1>3, <1>11, <2>0, <3>1, JobHas DEF Items!Port, WordOf
  <2> QED BY <1>4, <1>5, <1>9, <2>1, <2>2, <2>3, <2>4 DEF Items!Output
<1>17. Z = 0 \/ Z = 1 \/ Z = 2 \/ Z = 3
  BY <1>11, SMT
<1> QED BY <1>13, <1>14, <1>15, <1>16, <1>17

(* Nothing else shows.                                                     *)
LEMMA Unseen ==
    ASSUME load' = load, ~Transfers \/ (Transfers /\ ret = <<>> /\ Idles)
    PROVE  UNCHANGED Items!vars
<1>1. Job' = Job /\ Stack' = Stack /\ Transfers' = Transfers /\ Start' = Start
  <2>0. load' = load
    OBVIOUS
  <2>1. Op(0)' = Op(0) /\ Op(1)' = Op(1) /\ Start' = Start
    BY <2>0, Zenon DEF Op, Start
  <2> QED BY <2>0, <2>1, SMT DEF Job, Stack, Transfers
<1>2. CASE ~Transfers
  <2>1. ~Transfers'
    BY <1>1, <1>2
  <2>2. ~Active /\ ~Active' /\ Active \in BOOLEAN /\ Active' \in BOOLEAN
    BY <1>2, <2>1 DEF Active
  <2> QED BY <1>1, <1>2, <2>1, <2>2 DEF Items!vars, OfJob
<1>3. CASE Transfers /\ ret = <<>> /\ Idles
  <2>1. Transfers'
    BY <1>1, <1>3
  <2>2. /\ ret = <<>> /\ ret' = <<>> /\ mem' = mem /\ io' = io /\ AtWork' = AtWork
        /\ regs'.BC = regs.BC /\ regs'.HL = regs.HL /\ regs'.DE = regs.DE
    BY <1>3 DEF Idles
  <2>3. Active' = Active
    <3>1. Active = AtWork /\ Active' = AtWork'
      BY <1>1, <1>3, <2>1, <2>2 DEF Active, Home, AtWork
    <3> QED BY <2>2, <3>1
  <2>4. Count' = Count
    BY <1>1, <2>2, <2>3 DEF Count, B
  <2> QED BY <1>1, <1>3, <2>1, <2>2, <2>3, <2>4 DEF Items!vars, OfJob
<1> QED BY <1>2, <1>3

(* Before the first round all items are to be transferred.                 *)
LEMMA ItemInit ==
    ASSUME Init, LoadOK
    PROVE  Items!Init
<1>1. Active \in BOOLEAN /\ (Active <=> Transfers) /\ (Transfers <=> Job.kind # "none")
  <2>1. load.regs = regs /\ ret = <<>>
    BY DEF Init
  <2>2. Start = regs.PC /\ Start \in Word
    BY <2>1, Values DEF Start, LoadOK, Pairs
  <2>3. Start # Word16(Start + 2)
    BY <2>2, SMT DEF Word, Word16
  <2>4. Active <=> Transfers
    BY <2>1, <2>2, <2>3 DEF Active, Home
  <2> QED BY <2>4, JobIs DEF Active
<1>2. ASSUME Active PROVE OfJob(Count) \in 1..Job.width
  <2>1. Transfers /\ OfJob(Count) = Count
    BY <1>1, <1>2 DEF OfJob
  <2> DEFINE n == IF Job.width = 256 THEN B ELSE regs.BC
             w == Job.width
  <2>2. Count = Standing(n, w)
    BY <1>2 DEF Count, Standing
  <2>3. B \in Byte /\ regs.BC \in Word
    <3>1. load.regs = regs
      BY DEF Init
    <3> QED BY <3>1, Values DEF LoadOK, Pairs, B
  <2>4. (w = Full16 /\ n = regs.BC) \/ (w = Full8 /\ n = B)
    <3>1. (w = 65536 /\ n = regs.BC) \/ (w = 256 /\ n = B)
      BY <2>1, JobIs, SMT
    <3> HIDE DEF n, w
    <3> QED BY <3>1, SMT DEF Full8, Full16
  <2> HIDE DEF n, w
  <2>5. Count \in 1..w
    BY <2>2, <2>3, <2>4, CountedWords, CountedBytes
  <2> QED BY <2>1, <2>5 DEF w
<1> QED BY <1>1, <1>2 DEF Items!Init

(* An uninterrupted block instruction transfers its items one after the    *)
(* other as Z80Block promises.                                             *)
THEOREM ExecBlockTransfer ==
    ASSUME BlocksAside, BlocksOffStack
    PROVE  Spec /\ [](irq = load.irq) => BlockTransfer
<1> DEFINE Calm == irq = load.irq
           ItemNext == Items!Copy \/ Items!Compare \/ Items!Input \/ Items!Output
<1>1. Init /\ LoadOK => Items!Init
  BY ItemInit
<1>2. IInv /\ IInv' /\ LoadOK /\ BlockInv /\ OffStack /\ [Next]_vars /\ Calm /\ Calm' => [ItemNext]_(Items!vars)
  <2> SUFFICES ASSUME IInv, IInv', LoadOK, BlockInv, OffStack, [Next]_vars, Calm, Calm'
               PROVE  ItemNext \/ UNCHANGED Items!vars
    OBVIOUS
  <2>1. load' = load
    BY LoadKept
  <2>2. CASE ~Transfers
    BY <2>1, <2>2, Unseen
  <2>3. CASE Transfers /\ Next
    <3>1. Idles \/ \E k \in 0..Turns - 1 : Turn(k)
      BY <2>3, BlockStep
    <3>2. ASSUME Idles PROVE UNCHANGED Items!vars
      <4>1. ret = <<>>
        BY <2>3 DEF BlockInv, BlockPhase, Ready, Handled
      <4> QED BY <2>1, <2>3, <3>2, <4>1, Unseen
    <3>3. ASSUME NEW k \in 0..Turns - 1, Turn(k) PROVE ItemNext
      BY <2>1, <2>3, <3>3, ItemStep
    <3> QED BY <3>1, <3>2, <3>3
  <2>4. CASE Transfers /\ UNCHANGED vars
    <3>1. ret = <<>>
      BY <2>4 DEF BlockInv, BlockPhase, Ready, Handled
    <3>2. Idles
      <4>1. Start' = Start
        BY <2>1 DEF Start
      <4> QED BY <2>4, <4>1 DEF vars, Idles, AtWork
    <3> QED BY <2>1, <2>4, <3>1, <3>2, Unseen
  <2> QED BY <2>2, <2>3, <2>4
<1>3. Spec => []IInv /\ []LoadOK /\ []BlockInv /\ []OffStack
  BY ExecInductive, LoadInductive, BlockInductive, OffStackKept, PTL
<1> QED BY <1>1, <1>2, <1>3, PTL DEF Spec, BlockTransfer, Items!Spec

=============================================================================
