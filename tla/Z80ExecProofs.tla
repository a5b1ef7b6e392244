--------------------------- MODULE Z80ExecProofs ----------------------------
(***************************************************************************)
(* Proofs about the executors of Z80Exec: the types of the registers and   *)
(* the memory, and the Q register, over every instruction of the tables,   *)
(* every prefix and every interrupt response.                              *)
(***************************************************************************)
EXTENDS Z80Results, Z80AluProofs

(* A register file in which Q is 0 or the flags: what every handler        *)
(* leaves.                                                                 *)
Good(r) == RegisterFile(r) /\ r.Q \in {0, Lo(r.AF)}

-----------------------------------------------------------------------------
(* Registers.                                                              *)

(* Assigning a pair, or MEMPTR, a word.                                    *)
LEMMA SetWord ==
    ASSUME NEW r, RegisterFile(r), NEW n \in Pairs \cup {"MEMPTR"}, NEW v \in Word
    PROVE  RegisterFile([r EXCEPT ![n] = v])
BY SMT DEF RegisterFile, Pairs, Names

(* Assigning half of a pair a byte.                                        *)
LEMMA PutFile ==
    ASSUME NEW r, RegisterFile(r), NEW n, n[1] \in Pairs, NEW v \in Byte
    PROVE  RegisterFile(Put(r, n, v))
<1> DEFINE w == IF n[2] = "hi" THEN WordOf(v, Lo(r[n[1]])) ELSE WordOf(Hi(r[n[1]]), v)
<1>1. r[n[1]] \in Word
  BY SMT DEF RegisterFile
<1>2. w \in Word
  BY <1>1, HalvesOf, Joined, SMT
<1>3. Put(r, n, v) = [r EXCEPT ![n[1]] = w]
  BY DEF Put
<1> HIDE DEF w
<1>4. RegisterFile([r EXCEPT ![n[1]] = w])
  BY <1>2, SetWord
<1> QED BY <1>3, <1>4

(* Storing flags also stores them in Q.                                    *)
LEMMA WithFlagsGood ==
    ASSUME NEW r, RegisterFile(r), NEW f
    PROVE  Good(WithFlags(r, f)) /\ WithFlags(r, f).Q = Lo(WithFlags(r, f).AF)
<1> DEFINE q == NumOf(f)
           w == WordOf(Hi(r.AF), q)
<1>1. q \in Byte /\ r.AF \in Word
  BY NumOfByte, SMT DEF RegisterFile, Pairs
<1>2. w \in Word /\ Lo(w) = q
  BY <1>1, HalvesOf, Joined, SMT
<1>3. WithFlags(r, f) = [r EXCEPT !.AF = w, !.Q = q]
  BY DEF WithFlags
<1> HIDE DEF w, q
<1> QED BY <1>1, <1>2, <1>3, SMT DEF Good, RegisterFile, Pairs, Names

(* Storing a result and its flags.                                         *)
LEMMA WithResultGood ==
    ASSUME NEW r, RegisterFile(r), NEW n, n[1] \in Pairs, NEW res, res.v \in Byte
    PROVE  Good(WithResult(r, n, res)) /\ WithResult(r, n, res).Q = Lo(WithResult(r, n, res).AF)
BY PutFile, WithFlagsGood, SMT DEF WithResult

(* Moving PC leaves the flags and Q.                                       *)
LEMMA AheadFile ==
    ASSUME NEW r, RegisterFile(r), NEW k \in Int
    PROVE  RegisterFile(Ahead(r, k)) /\ Ahead(r, k).Q = r.Q /\ Ahead(r, k).AF = r.AF
<1>1. r.PC \in Word /\ Word16(r.PC + k) \in Word
  BY Wraps, SMT DEF RegisterFile, Pairs, Word
<1> QED BY <1>1, SMT DEF Ahead, RegisterFile, Pairs, Names

(* Clearing Q, as an instruction that sets no flags does.                  *)
LEMMA ClearQ ==
    ASSUME NEW r, RegisterFile(r)
    PROVE  Good([r EXCEPT !.Q = 0]) /\ [r EXCEPT !.Q = 0].Q = 0
BY SMT DEF Good, RegisterFile, Pairs, Names, Byte

(* The pairs hold words.                                                   *)
LEMMA Values ==
    ASSUME NEW r, RegisterFile(r), NEW n \in Pairs
    PROVE  r[n] \in Word /\ Hi(r[n]) \in Byte /\ Lo(r[n]) \in Byte
BY HalvesOf, SMT DEF RegisterFile
-----------------------------------------------------------------------------
(* Memory. *)

(* A write of a byte keeps the memory a memory of the same cells.          *)
LEMMA PokeInMemory ==
    ASSUME NEW m, IsMemory(m), NEW a, NEW v \in Byte
    PROVE  IsMemory(PokeIn(m, a, v)) /\ DOMAIN PokeIn(m, a, v) = DOMAIN m
BY SMT DEF IsMemory, PokeIn

(* What is read is a byte, where nothing is mapped too.                    *)
LEMMA Peeked ==
    ASSUME IsMemory(mem)
    PROVE  (\A a : Peek(a) \in Byte) /\ (\A a : PeekWord(a) \in Word)
<1>1. \A a : Peek(a) \in Byte
  BY SMT DEF IsMemory, Peek, Floating, Byte
<1> QED BY <1>1, Joined, SMT DEF PeekWord

(* And a push of a word keeps it one.                                      *)
LEMMA PushInMemory ==
    ASSUME IsMemory(mem), NEW sp, NEW w \in Word
    PROVE  IsMemory(PushIn(sp, w)) /\ DOMAIN PushIn(sp, w) = DOMAIN mem
<1>1. Hi(w) \in Byte /\ Lo(w) \in Byte
  BY HalvesOf
<1>2. IsMemory(Poke(sp - 1, Hi(w))) /\ DOMAIN Poke(sp - 1, Hi(w)) = DOMAIN mem
  BY <1>1, PokeInMemory DEF Poke
<1> QED BY <1>1, <1>2, PokeInMemory DEF PushIn
-----------------------------------------------------------------------------
(* Decoding. *)

(* The fields of an opcode.                                                *)
LEMMA Digits ==
    ASSUME RegisterFile(regs)
    PROVE  /\ X \in 0..3 /\ Y \in 0..7 /\ Z \in 0..7
           /\ Y \div 2 \in 0..3
BY SMT DEF RegisterFile, Byte, X, Y, Z

(* The register tables name pairs, and only index 6 of the byte tables     *)
(* does not.                                                               *)
LEMMA Named ==
    ASSUME mod \in {"NONE", "DD", "FD"}
    PROVE  /\ Index \in {"HL", "IX", "IY"}
           /\ \A i \in 0..3 : Reg16(i) \in Pairs /\ Reg16Alt(i) \in Pairs
           /\ \A i \in 0..7 : i # 6 => Reg8(i)[1] \in Pairs /\ Reg8NoMod(i)[1] \in Pairs
<1>1. Index \in {"HL", "IX", "IY"}
  BY DEF Index
<1>2. \A i \in 0..3 : Reg16(i) \in Pairs /\ Reg16Alt(i) \in Pairs
  BY <1>1, SMT DEF Reg16, Reg16Alt, Pairs
<1>3. \A i \in 0..7 : i # 6 => Reg8NoMod(i)[1] \in Pairs
  BY SMT DEF Reg8NoMod, Pairs
<1>4. \A i \in 0..7 : i # 6 => Reg8(i)[1] \in Pairs
  BY <1>1, <1>3, SMT DEF Reg8, Pairs
<1> QED BY <1>1, <1>2, <1>3, <1>4

(* Half of a pair is a byte.                                               *)
LEMMA Gotten ==
    ASSUME RegisterFile(regs), NEW n, n[1] \in Pairs
    PROVE  Get(n) \in Byte
BY HalvesOf, SMT DEF Get, RegisterFile

-----------------------------------------------------------------------------
(* The inductive invariant. *)

(* A prefix before ED is forgotten.                                        *)
EdUnprefixed == subset = "ED" => mod = "NONE"

(* Between the displacement of DD CB d and the operation on it the         *)
(* executor is the CB one with an index, and when the operation starts     *)
(* MEMPTR is the address displaced: this is where that operation reads and *)
(* writes.                                                                 *)
DisplacedAt ==
    /\ stage = "displaced" => subset = "CB" /\ mod # "NONE"
    /\ subset = "CB" /\ mod # "NONE" =>
         \/ stage = "displaced"
         \/ stage = "start" /\ regs.MEMPTR = Word16(regs[Index] + Signed(Peek(regs.PC - 2)))

(* What a state can say of Q: it is 0 or the flags.                        *)
QZeroOrFlags == regs.Q \in {0, Lo(regs.AF)}

(* The inductive invariant. TypeOK and QZeroOrFlags say nothing of the     *)
(* pair an ED instruction works on, nor of the address in MEMPTR that a    *)
(* step before left to DD CB d op: the theorems about what those compute   *)
(* rest on the last two parts.                                             *)
IInv == TypeOK /\ QZeroOrFlags /\ EdUnprefixed /\ DisplacedAt

(* What a step can do to Q: store the flags in it, or clear it.            *)
AsFlags == regs'.Q = Lo(regs'.AF)
AsNone  == regs'.Q = 0

(* A memory of the cells there are now.                                    *)
IsMem(m) == IsMemory(m) /\ DOMAIN m = DOMAIN mem

(* An instruction that ends with registers and a memory of the right types *)
(* keeps the invariant.                                                    *)
LEMMA RetireInv ==
    ASSUME IInv, NEW r, NEW m, Good(r), IsMem(m), Retire(r, m), io'.port \in Word, io'.v \in Byte
    PROVE  IInv' /\ regs' = r
<1> USE DEF Retire
<1>1. TypeOK'
  BY SMT DEF IInv, TypeOK, Good, IsMem, IsMemory, Stages
<1>2. QZeroOrFlags'
  BY DEF Good, QZeroOrFlags
<1>3. EdUnprefixed' /\ DisplacedAt'
  BY DEF EdUnprefixed, DisplacedAt
<1> QED BY <1>1, <1>2, <1>3 DEF IInv

(* So does one that sets flags.                                            *)
LEMMA FlaggedInv ==
    ASSUME IInv, NEW r, NEW m, Good(r), IsMem(m), Flagged(r, m)
    PROVE  IInv' /\ regs' = r
BY RetireInv DEF Flagged, IInv, TypeOK

(* One that stores flags leaves them in Q.                                 *)
LEMMA FlagsInv ==
    ASSUME IInv, NEW r, NEW f, NEW m, RegisterFile(r), IsMem(m), Flagged(WithFlags(r, f), m)
    PROVE  IInv' /\ AsFlags
<1>1. Good(WithFlags(r, f)) /\ WithFlags(r, f).Q = Lo(WithFlags(r, f).AF)
  BY WithFlagsGood
<1> QED BY <1>1, FlaggedInv DEF AsFlags

(* With a result, too.                                                     *)
LEMMA ResultInv ==
    ASSUME IInv, NEW r, NEW n, NEW res, NEW m, RegisterFile(r), n[1] \in Pairs, res.v \in Byte,
           IsMem(m), Flagged(WithResult(r, n, res), m)
    PROVE  IInv' /\ AsFlags
<1>1. Good(WithResult(r, n, res)) /\ WithResult(r, n, res).Q = Lo(WithResult(r, n, res).AF)
  BY WithResultGood
<1> QED BY <1>1, FlaggedInv DEF AsFlags

(* And one that clears Q.                                                  *)
LEMMA QuietInv ==
    ASSUME IInv, NEW r, NEW m, RegisterFile(r), IsMem(m), Quiet(r, m)
    PROVE  IInv' /\ AsNone
BY ClearQ, FlaggedInv DEF Quiet, AsNone

(* And one that uses a port.                                               *)
LEMMA TransferInv ==
    ASSUME IInv, NEW r, NEW m, NEW dir, NEW port \in Word, NEW v \in Byte,
           Good(r), IsMem(m), Transfer(r, m, dir, port, v)
    PROVE  IInv' /\ regs' = r
BY RetireInv DEF Transfer

(* And one that uses a port and stores flags.                              *)
LEMMA TransferFlagsInv ==
    ASSUME IInv, NEW r, NEW f, NEW m, NEW dir, NEW port \in Word, NEW v \in Byte,
           RegisterFile(r), IsMem(m), Transfer(WithFlags(r, f), m, dir, port, v)
    PROVE  IInv' /\ AsFlags
<1>1. Good(WithFlags(r, f)) /\ WithFlags(r, f).Q = Lo(WithFlags(r, f).AF)
  BY WithFlagsGood
<1> QED BY <1>1, TransferInv DEF AsFlags

(* And a return.                                                           *)
LEMMA ReturnInv ==
    ASSUME IInv, NEW r, RegisterFile(r), Return(r)
    PROVE  IInv' /\ AsNone
<1>1. PeekWord(regs.SP) \in Word /\ Word16(r.SP + 2) \in Word
  BY Peeked, Wraps, SMT DEF IInv, TypeOK, RegisterFile, Pairs, Word
<1>2. Good(Popped(r)) /\ Popped(r).Q = 0
  BY <1>1, SMT DEF Popped, Good, RegisterFile, Pairs, Names, Byte
<1> QED BY <1>2, RetireInv DEF Return, IInv, TypeOK, IsMem, AsNone

(* And a branch, taken or not.                                             *)
LEMMA BranchInv ==
    ASSUME IInv, NEW r, RegisterFile(r), NEW taken, Branch(r, taken)
    PROVE  IInv' /\ AsNone
<1> DEFINE next == Ahead(r, 1)
           to   == Word16(next.PC + Signed(Imm8))
<1>1. RegisterFile(next) /\ next.PC \in Word
  BY AheadFile, SMT DEF RegisterFile, Pairs
<1>2. to \in Word
  <2>1. Imm8 \in Byte
    BY Peeked DEF IInv, TypeOK, Imm8
  <2>2. next.PC + Signed(Imm8) \in Int
    BY <1>1, <2>1, SignedInt, SMT DEF Word
  <2> QED BY <2>2, Wraps
<1> HIDE DEF next, to
<1>3. RegisterFile([next EXCEPT !.PC = to, !.MEMPTR = to])
  BY <1>1, <1>2, SMT DEF RegisterFile, Pairs, Names
<1>4. RegisterFile(IF taken THEN [next EXCEPT !.PC = to, !.MEMPTR = to] ELSE next)
  BY <1>1, <1>3
<1>5. Quiet(IF taken THEN [next EXCEPT !.PC = to, !.MEMPTR = to] ELSE next, mem)
  BY DEF Branch, next, to
<1> QED BY <1>4, <1>5, QuietInv DEF IInv, TypeOK, IsMem

-----------------------------------------------------------------------------
(* What the invariant says of everything the handlers read.                *)
LEMMA Facts ==
    ASSUME IInv
    PROVE  /\ RegisterFile(regs) /\ Good(regs) /\ IsMem(mem)
           /\ A \in Byte /\ B \in Byte
           /\ X \in 0..3 /\ Y \in 0..7 /\ Z \in 0..7 /\ Y \div 2 \in 0..3
           /\ Imm8 \in Byte /\ Imm16 \in Word
           /\ \A a : Peek(a) \in Byte /\ PeekWord(a) \in Word
           /\ \A n \in Pairs : regs[n] \in Word
           /\ Index \in {"HL", "IX", "IY"} /\ Index \in Pairs
           /\ \A i \in 0..3 : Reg16(i) \in Pairs /\ Reg16Alt(i) \in Pairs
           /\ \A i \in 0..7 : i # 6 => Reg8(i)[1] \in Pairs /\ Reg8NoMod(i)[1] \in Pairs
           /\ RegA[1] \in Pairs
           /\ io.port \in Word /\ io.v \in Byte
<1>1. RegisterFile(regs) /\ IsMemory(mem) /\ mod \in {"NONE", "DD", "FD"} /\ io.port \in Word /\ io.v \in Byte
  BY DEF IInv, TypeOK
<1>2. Good(regs) /\ IsMem(mem)
  BY <1>1 DEF IInv, QZeroOrFlags, Good, IsMem
<1>3. A \in Byte /\ B \in Byte /\ \A n \in Pairs : regs[n] \in Word
  BY <1>1, Values DEF A, B, Pairs
<1>4. Imm8 \in Byte /\ Imm16 \in Word /\ \A a : Peek(a) \in Byte /\ PeekWord(a) \in Word
  BY <1>1, Peeked DEF Imm8, Imm16
<1>5. RegA[1] \in Pairs
  BY DEF RegA, Reg8NoMod, Pairs
<1>6. Index \in {"HL", "IX", "IY"} /\ Index \in Pairs
  BY <1>1, Named, SMT DEF Pairs
<1> QED BY <1>1, <1>2, <1>3, <1>4, <1>5, <1>6, Digits, Named

(* The memory after a write.                                               *)
LEMMA PokeMem ==
    ASSUME IInv, NEW a, NEW v \in Byte
    PROVE  IsMem(Poke(a, v))
BY PokeInMemory, Facts DEF Poke, IsMem

(* The memory after a push.                                                *)
LEMMA PushMem ==
    ASSUME IInv, NEW sp, NEW w \in Word
    PROVE  IsMem(PushIn(sp, w))
BY PushInMemory, Facts DEF IsMem

(* The operand (HL) or (IX + d): the pointer is a word and the registers   *)
(* after the displacement is fetched are registers.                        *)
LEMMA HlPtrFile ==
    ASSUME IInv
    PROVE  HlPtr \in Word /\ RegisterFile(AtHlPtr)
<1>1. regs.HL \in Word /\ regs[Index] \in Word /\ Imm8 \in Byte
  BY Facts DEF Pairs
<1>2. regs[Index] + Signed(Imm8) \in Int
  BY <1>1, SignedInt, SMT DEF Word
<1>3. HlPtr \in Word
  BY <1>1, <1>2, Wraps DEF HlPtr
<1>4. RegisterFile([Ahead(regs, 1) EXCEPT !.MEMPTR = HlPtr])
  BY <1>3, Facts, AheadFile, SetWord
<1> QED BY <1>3, <1>4, Facts DEF AtHlPtr

(* RLCA to CCF: whichever it is, the accumulator and the flags are set     *)
(* together.                                                               *)
LEMMA AccumulatorByte ==
    ASSUME IInv, Accumulator
    PROVE  \E res : res.v \in Byte /\ Flagged(WithResult(regs, RegA, res), mem)
<1> DEFINE q   == BitsOf[regs.Q]
           res == CASE Y < 4 -> ShiftA(Y, A, F)
                    [] Y = 4 -> Daa(A, F)
                    [] Y = 5 -> Cpl(A, F)
                    [] Y = 6 -> Scf(A, F, q)
                    [] Y = 7 -> Ccf(A, F, q)
<1>1. A \in Byte /\ Y \in 0..7
  BY Facts
<1>2. ShiftA(Y, A, F).v \in Byte /\ Daa(A, F).v \in Byte
  BY <1>1, ShiftAByte, DaaByte
<1>3. Cpl(A, F).v \in Byte /\ Scf(A, F, q).v \in Byte /\ Ccf(A, F, q).v \in Byte
  BY <1>1, LogicBytes DEF Cpl, Scf, Ccf, Result
<1>4. Y < 4 \/ Y = 4 \/ Y = 5 \/ Y = 6 \/ Y = 7
  BY <1>1, SMT
<1>5. res.v \in Byte
  BY <1>2, <1>3, <1>4
<1>6. Flagged(WithResult(regs, RegA, res), mem)
  BY DEF Accumulator
<1> HIDE DEF res
<1> QED BY <1>5, <1>6

(* Quadrant 0 *)

(* The unprefixed table keeps the invariant, quadrant by quadrant.         *)
LEMMA Quadrant0Inv == IInv /\ Quadrant0 => IInv' /\ QIsSet
<1> SUFFICES ASSUME IInv, Quadrant0 PROVE IInv' /\ QIsSet
  OBVIOUS
<1>0. IsMem(mem) /\ RegisterFile(regs)
  BY Facts
<1>1. ASSUME Nop PROVE IInv' /\ AsNone
  BY <1>0, <1>1, QuietInv DEF Nop
<1>2. ASSUME ExAf PROVE IInv' /\ AsNone
  <2>1. RegisterFile([regs EXCEPT !.AF = regs.AFs, !.AFs = regs.AF])
    BY <1>0, SMT DEF RegisterFile, Pairs, Names
  <2> QED BY <1>0, <1>2, <2>1, QuietInv DEF ExAf
<1>3. ASSUME Djnz PROVE IInv' /\ AsNone
  <2>1. Byte8(B - 1) \in Byte /\ Reg8(0)[1] \in Pairs
    BY Facts, Neighbours
  <2>2. RegisterFile(Put(regs, Reg8(0), Byte8(B - 1)))
    BY <1>0, <2>1, PutFile
  <2> QED BY <1>3, <2>2, BranchInv DEF Djnz
<1>4. ASSUME Jr PROVE IInv' /\ AsNone
  BY <1>0, <1>4, BranchInv DEF Jr
<1>5. ASSUME LdWordImm PROVE IInv' /\ AsNone
  <2>1. RegisterFile([Ahead(regs, 2) EXCEPT ![Reg16(Y \div 2)] = Imm16])
    BY Facts, AheadFile, SetWord
  <2> QED BY <1>0, <1>5, <2>1, QuietInv DEF LdWordImm
<1>6. ASSUME AddHl PROVE IInv' /\ AsFlags
  <2> DEFINE sum == AddWord(regs[Index], regs[Reg16(Y \div 2)], F)
             r == [regs EXCEPT ![Index] = sum.v, !.MEMPTR = Word16(regs[Index] + 1)]
  <2>1. sum.v \in Word
    BY Facts, WideWord
  <2>2. Word16(regs[Index] + 1) \in Word
    BY Facts, Wraps, SMT DEF Word
  <2>3. Index \in Pairs
    BY Facts
  <2> HIDE DEF sum
  <2>4. RegisterFile(r)
    BY <1>0, <2>1, <2>2, <2>3, SMT DEF RegisterFile, Pairs, Names
  <2>5. Flagged(WithFlags(r, sum.f), mem)
    BY <1>6 DEF AddHl, sum
  <2> QED BY <1>0, <2>4, <2>5, FlagsInv
<1>7. ASSUME LdA PROVE IInv' /\ AsNone
  <2> DEFINE ptr  == IF Y > 5 THEN Imm16 ELSE regs[Reg16(Y \div 2)]
             r    == Ahead(regs, IF Y > 5 THEN 2 ELSE 0)
             next == Word16(ptr + 1)
  <2>1. ptr \in Word /\ Peek(ptr) \in Byte
    BY Facts
  <2>2. next \in Word /\ WordOf(A, Lo(next)) \in Word
    BY <2>1, Facts, Neighbours, HalvesOf, Joined
  <2>3. RegisterFile(r)
    BY <1>0, AheadFile
  <2>4. /\ Y % 2 = 1 => Quiet([Put(r, RegA, Peek(ptr)) EXCEPT !.MEMPTR = next], mem)
        /\ Y % 2 # 1 => Quiet([r EXCEPT !.MEMPTR = WordOf(A, Lo(next))], Poke(ptr, A))
    BY <1>7 DEF LdA
  <2> HIDE DEF ptr, r, next
  <2>5. /\ RegisterFile([Put(r, RegA, Peek(ptr)) EXCEPT !.MEMPTR = next])
        /\ RegisterFile([r EXCEPT !.MEMPTR = WordOf(A, Lo(next))])
    BY <2>1, <2>2, <2>3, Facts, PutFile, SetWord
  <2>6. IsMem(Poke(ptr, A))
    BY Facts, PokeMem
  <2> QED BY <1>0, <2>4, <2>5, <2>6, QuietInv
<1>8. ASSUME LdWordAt PROVE IInv' /\ AsNone
  <2> DEFINE ptr == Imm16
             r   == [Ahead(regs, 2) EXCEPT !.MEMPTR = Word16(ptr + 1)]
             n   == Reg16(Y \div 2)
  <2>1. ptr \in Word /\ n \in Pairs /\ PeekWord(ptr) \in Word
    BY Facts
  <2>2. RegisterFile(r)
    BY <1>0, <2>1, AheadFile, SetWord, Wraps, SMT DEF Word
  <2>3. RegisterFile([r EXCEPT ![n] = PeekWord(ptr)])
    BY <2>1, <2>2, SetWord
  <2>4. Lo(regs[n]) \in Byte /\ Hi(regs[n]) \in Byte
    BY <1>0, <2>1, Values
  <2>5. IsMem(PokeIn(Poke(ptr, Lo(regs[n])), ptr + 1, Hi(regs[n])))
    BY <2>4, PokeMem, PokeInMemory DEF IsMem
  <2>6. /\ Y % 2 = 1 => Quiet([r EXCEPT ![n] = PeekWord(ptr)], mem)
        /\ Y % 2 # 1 => Quiet(r, PokeIn(Poke(ptr, Lo(regs[n])), ptr + 1, Hi(regs[n])))
    BY <1>8 DEF LdWordAt
  <2> QED BY <1>0, <2>2, <2>3, <2>5, <2>6, QuietInv
<1>9. ASSUME IncDecWord PROVE IInv' /\ AsNone
  <2> DEFINE n == Reg16(Y \div 2)
             w == Word16(IF Y % 2 = 1 THEN regs[n] - 1 ELSE regs[n] + 1)
  <2>1. n \in Pairs /\ regs[n] \in Word
    BY Facts
  <2>2. w \in Word
    BY <2>1, Wraps, SMT DEF Word
  <2>3. Quiet([regs EXCEPT ![n] = w], mem)
    BY <1>9 DEF IncDecWord
  <2> HIDE DEF w, n
  <2>4. RegisterFile([regs EXCEPT ![n] = w])
    BY <1>0, <2>1, <2>2, SetWord
  <2> QED BY <1>0, <2>3, <2>4, QuietInv
<1>10. ASSUME IncDecByte PROVE IInv' /\ AsFlags
  <2> DEFINE n   == IF Y = 6 THEN Peek(HlPtr) ELSE Get(Reg8(Y))
             res == IF Z = 4 THEN IncByte(n, F) ELSE DecByte(n, F)
  <2>1. n \in Byte
    BY Facts, Gotten
  <2>2. res.v \in Byte
    BY <2>1, CountByte
  <2>3. /\ Y = 6 => Flagged(WithFlags(AtHlPtr, res.f), Poke(HlPtr, res.v))
        /\ Y # 6 => Flagged(WithResult(regs, Reg8(Y), res), mem)
    BY <1>10 DEF IncDecByte
  <2> HIDE DEF n, res
  <2>4. CASE Y = 6
    BY <2>2, <2>3, <2>4, HlPtrFile, PokeMem, FlagsInv
  <2>5. CASE Y # 6
    BY <1>0, <2>2, <2>3, <2>5, Facts, ResultInv
  <2> QED BY <2>4, <2>5
<1>11. ASSUME LdByteImm PROVE IInv' /\ AsNone
  <2>1. RegisterFile(Ahead(AtHlPtr, 1)) /\ IsMem(Poke(HlPtr, Peek(AtHlPtr.PC)))
    BY HlPtrFile, AheadFile, PokeMem, Facts
  <2>2. RegisterFile(Ahead(regs, 1)) /\ Imm8 \in Byte /\ (Y # 6 => Reg8(Y)[1] \in Pairs)
    <3>1. RegisterFile(Ahead(regs, 1))
      BY <1>0, AheadFile
    <3> QED BY <3>1, Facts
  <2>3. Y # 6 => RegisterFile(Put(Ahead(regs, 1), Reg8(Y), Imm8))
    BY <2>2, PutFile
  <2> DEFINE r == Ahead(AtHlPtr, 1)
             s == Put(Ahead(regs, 1), Reg8(Y), Imm8)
             m == Poke(HlPtr, Peek(AtHlPtr.PC))
  <2>4. (Y = 6 => Quiet(r, m)) /\ (Y # 6 => Quiet(s, mem))
    BY <1>11 DEF LdByteImm
  <2> HIDE DEF r, s, m
  <2>5. CASE Y = 6
    BY <2>1, <2>4, <2>5, QuietInv DEF r, m
  <2>6. CASE Y # 6
    <3>1. RegisterFile(s)
      BY <2>3, <2>6 DEF s
    <3> QED BY <1>0, <2>4, <2>6, <3>1, QuietInv
  <2> QED BY <2>5, <2>6
<1>12. ASSUME Accumulator PROVE IInv' /\ AsFlags
  BY <1>0, <1>12, AccumulatorByte, Facts, ResultInv
<1>q1. ExAf \/ Nop \/ Djnz \/ Jr => subset = "NONE" /\ X = 0 /\ Z = 0
  BY DEF Main, ExAf, Nop, Djnz, Jr
<1>q2. LdWordImm => subset = "NONE" /\ X = 0 /\ Z = 1 /\ Y % 2 = 0
  BY DEF Main, LdWordImm
<1>q3. AddHl => subset = "NONE" /\ X = 0 /\ Z = 1 /\ Y % 2 = 1
  BY DEF Main, AddHl
<1>q4. LdA \/ IncDecWord \/ LdByteImm => subset = "NONE" /\ X = 0 /\ Z \in {2, 3, 6}
  BY DEF Main, LdA, IncDecWord, LdByteImm
<1>q5. LdWordAt => (subset = "NONE" /\ X = 0 /\ Z = 2) \/ (subset = "ED" /\ X = 1 /\ Z = 3)
  BY DEF Main, LdWordAt
<1>q6. IncDecByte => subset = "NONE" /\ X = 0 /\ Z \in {4, 5}
  BY DEF Main, IncDecByte
<1>q7. Accumulator => subset = "NONE" /\ X = 0 /\ Z = 7
  BY DEF Main, Accumulator
<1> QED BY <1>1, <1>2, <1>3, <1>4, <1>5, <1>6, <1>7, <1>8, <1>9, <1>10, <1>11, <1>12,
           <1>q1, <1>q2, <1>q3, <1>q4, <1>q5, <1>q6, <1>q7, SMT
           DEF Quadrant0, QIsSet, AsFlags, AsNone, AssemblesFlags

(* The eight operations with an operand keep it.                           *)
LEMMA AluWithInv ==
    ASSUME IInv, NEW r, RegisterFile(r), NEW n \in Byte, AluWith(r, n)
    PROVE  IInv' /\ AsFlags
<1>1. Alu(Y, A, n, F).v \in Byte
  BY Facts, AluByte
<1> QED BY <1>1, Facts, ResultInv DEF AluWith

(* LD r, r and the eight operations.                                       *)
LEMMA Quadrant12Inv == IInv /\ Quadrant12 => IInv' /\ QIsSet
<1> SUFFICES ASSUME IInv, Quadrant12 PROVE IInv' /\ QIsSet
  OBVIOUS
<1>0. IsMem(mem) /\ RegisterFile(regs)
  BY Facts
<1>1. ASSUME Halt PROVE IInv' /\ AsNone
  <2>1. Good([regs EXCEPT !.Q = 0]) /\ regs' = [regs EXCEPT !.Q = 0] /\ AsNone
    BY <1>0, <1>1, ClearQ DEF Halt, AsNone
  <2>2. TypeOK'
    BY <1>1, <2>1, SMT DEF Halt, IInv, TypeOK, Good, IsMemory, Stages
  <2>3. QZeroOrFlags'
    BY <2>1 DEF Good, QZeroOrFlags
  <2>4. subset' = "NONE" /\ stage' = "halted"
    BY <1>1 DEF Halt, Main
  <2>5. EdUnprefixed' /\ DisplacedAt'
    BY <2>4 DEF EdUnprefixed, DisplacedAt
  <2> QED BY <2>1, <2>2, <2>3, <2>5 DEF IInv
<1>2. ASSUME PrefixedHalt PROVE IInv' /\ AsNone
  BY <1>0, <1>2, QuietInv DEF PrefixedHalt
<1>3. ASSUME LdReg PROVE IInv' /\ AsNone
  <2>1. Y # 6 /\ Z # 6 /\ Reg8(Y)[1] \in Pairs /\ Reg8(Z)[1] \in Pairs
    BY <1>3, Facts DEF LdReg
  <2>2. RegisterFile(Put(regs, Reg8(Y), Get(Reg8(Z))))
    BY <1>0, <2>1, Gotten, PutFile
  <2> QED BY <1>0, <1>3, <2>2, QuietInv DEF LdReg
<1>4. ASSUME LdRegMem PROVE IInv' /\ AsNone
  <2>1. Reg8NoMod(Y)[1] \in Pairs /\ Peek(HlPtr) \in Byte
    BY <1>4, Facts DEF LdRegMem
  <2>2. RegisterFile(Put(AtHlPtr, Reg8NoMod(Y), Peek(HlPtr)))
    BY <2>1, HlPtrFile, PutFile
  <2> QED BY <1>0, <1>4, <2>2, QuietInv DEF LdRegMem
<1>5. ASSUME LdMemReg PROVE IInv' /\ AsNone
  <2>1. Get(Reg8NoMod(Z)) \in Byte
    BY <1>0, <1>5, Facts, Gotten DEF LdMemReg
  <2>2. IsMem(Poke(HlPtr, Get(Reg8NoMod(Z))))
    BY <2>1, PokeMem
  <2> QED BY <1>5, <2>2, HlPtrFile, QuietInv DEF LdMemReg
<1>6. ASSUME AluReg PROVE IInv' /\ AsFlags
  <2>1. Get(Reg8(Z)) \in Byte
    BY <1>0, <1>6, Facts, Gotten DEF AluReg
  <2> QED BY <1>0, <1>6, <2>1, AluWithInv DEF AluReg
<1>7. ASSUME AluMem PROVE IInv' /\ AsFlags
  BY <1>7, Facts, HlPtrFile, AluWithInv DEF AluMem
<1>q. /\ Halt \/ PrefixedHalt \/ LdReg \/ LdRegMem \/ LdMemReg => subset = "NONE" /\ X = 1
      /\ AluReg \/ AluMem => subset = "NONE" /\ X = 2
  BY DEF Main, Halt, PrefixedHalt, LdReg, LdRegMem, LdMemReg, AluReg, AluMem
<1> QED BY <1>1, <1>2, <1>3, <1>4, <1>5, <1>6, <1>7, <1>q, SMT
           DEF Quadrant12, QIsSet, AsFlags, AsNone, AssemblesFlags

(* Jumps, calls, returns, the stack, ports and exchanges.                  *)
LEMMA Quadrant3Inv == IInv /\ Quadrant3 => IInv' /\ QIsSet
<1> SUFFICES ASSUME IInv, Quadrant3 PROVE IInv' /\ QIsSet
  OBVIOUS
<1>0. IsMem(mem) /\ RegisterFile(regs)
  BY Facts
<1>sp. regs.SP \in Word /\ regs.PC \in Word /\ Word16(regs.SP + 2) \in Word /\ Word16(regs.SP - 2) \in Word
  BY Facts, Neighbours DEF Pairs
<1>a. RegisterFile(Ahead(regs, 1)) /\ RegisterFile(Ahead(regs, 2))
  BY <1>0, AheadFile
<1>1. ASSUME RetCc PROVE IInv' /\ AsNone
  BY <1>0, <1>1, ReturnInv, QuietInv DEF RetCc
<1>2. ASSUME Ret PROVE IInv' /\ AsNone
  BY <1>0, <1>2, ReturnInv DEF Ret
<1>3. ASSUME Pop PROVE IInv' /\ AsNone
  <2> DEFINE n == Reg16Alt(Y \div 2)
             r == [regs EXCEPT ![n] = PeekWord(regs.SP), !.SP = Word16(@ + 2)]
  <2>1. n \in {"BC", "DE", "HL", "IX", "IY", "AF"}
    BY Facts, SMT DEF Reg16Alt
  <2>2. PeekWord(regs.SP) \in Word
    BY Facts
  <2>3. Quiet(r, mem)
    BY <1>3 DEF Pop
  <2> HIDE DEF n
  <2>4. RegisterFile(r)
    BY <1>0, <1>sp, <2>1, <2>2, SMT DEF RegisterFile, Pairs, Names
  <2> QED BY <1>0, <2>3, <2>4, QuietInv
<1>4. ASSUME Push PROVE IInv' /\ AsNone
  <2>1. RegisterFile([regs EXCEPT !.SP = Word16(@ - 2)])
    BY <1>0, <1>sp, SMT DEF RegisterFile, Pairs, Names
  <2>2. IsMem(PushIn(regs.SP, regs[Reg16Alt(Y \div 2)]))
    BY Facts, PushMem
  <2> QED BY <1>4, <2>1, <2>2, QuietInv DEF Push
<1>5. ASSUME Exx PROVE IInv' /\ AsNone
  <2>1. RegisterFile([regs EXCEPT !.BC = regs.BCs, !.DE = regs.DEs, !.HL = regs.HLs,
                                  !.BCs = regs.BC, !.DEs = regs.DE, !.HLs = regs.HL])
    BY <1>0, SMT DEF RegisterFile, Pairs, Names
  <2> QED BY <1>0, <1>5, <2>1, QuietInv DEF Exx
<1>6. ASSUME JpHl \/ LdSpHl PROVE IInv' /\ AsNone
  <2>1. RegisterFile([regs EXCEPT !.PC = regs[Index]]) /\ RegisterFile([regs EXCEPT !.SP = regs[Index]])
    BY <1>0, Facts, SetWord DEF Pairs
  <2> QED BY <1>0, <1>6, <2>1, QuietInv DEF JpHl, LdSpHl
<1>7. ASSUME Jp PROVE IInv' /\ AsNone
  <2> DEFINE r == [Ahead(regs, 2) EXCEPT !.MEMPTR = Imm16]
  <2>1. RegisterFile(r)
    BY <1>a, Facts, SetWord
  <2>2. RegisterFile([r EXCEPT !.PC = Imm16])
    BY <2>1, Facts, SetWord DEF Pairs
  <2>3. Quiet(r, mem) \/ Quiet([r EXCEPT !.PC = Imm16], mem)
    BY <1>7 DEF Jp
  <2> QED BY <1>0, <2>1, <2>2, <2>3, QuietInv
<1>8. ASSUME OutA PROVE IInv' /\ AsNone
  <2> DEFINE w == WordOf(A, Byte8(Imm8 + 1))
             r == [Ahead(regs, 1) EXCEPT !.MEMPTR = w, !.Q = 0]
  <2>1. w \in Word /\ WordOf(A, Imm8) \in Word /\ A \in Byte
    BY Facts, Joined, Neighbours
  <2>2. Transfer(r, mem, "out", WordOf(A, Imm8), A)
    BY <1>8 DEF OutA
  <2> HIDE DEF w
  <2>3. Good(r) /\ r.Q = 0
    BY <1>a, <2>1, SMT DEF Good, RegisterFile, Pairs, Names, Byte
  <2> QED BY <1>0, <2>1, <2>2, <2>3, TransferInv DEF AsNone
<1>9. ASSUME InA PROVE IInv' /\ AsNone
  <2> DEFINE port == WordOf(A, Imm8)
             w    == Word16(port + 1)
             r(v) == [Put(Ahead(regs, 1), RegA, v) EXCEPT !.MEMPTR = w, !.Q = 0]
  <2>1. PICK v \in BusBytes : Transfer(r(v), mem, "in", port, v)
    BY <1>9 DEF InA
  <2>2. v \in Byte /\ port \in Word
    BY BusBytesTyped, Facts, Joined
  <2>3. w \in Word
    BY <2>2, Neighbours
  <2>4. RegisterFile(Put(Ahead(regs, 1), RegA, v))
    BY <1>a, <2>2, Facts, PutFile
  <2> HIDE DEF w, port
  <2>5. Good(r(v)) /\ r(v).Q = 0
    BY <2>3, <2>4, SMT DEF Good, RegisterFile, Pairs, Names, Byte
  <2> QED BY <1>0, <2>1, <2>2, <2>5, TransferInv DEF AsNone
<1>10. ASSUME ExSpHl PROVE IInv' /\ AsNone
  <2> DEFINE w == PeekWord(regs.SP)
             r == [regs EXCEPT ![Index] = w, !.MEMPTR = w]
  <2>1. w \in Word /\ Index \in {"HL", "IX", "IY"} /\ regs[Index] \in Word
    BY Facts
  <2>2. Quiet(r, PushIn(regs.SP + 2, regs[Index]))
    BY <1>10 DEF ExSpHl
  <2> HIDE DEF w
  <2>3. RegisterFile(r)
    BY <1>0, <2>1, SMT DEF RegisterFile, Pairs, Names
  <2> QED BY <2>1, <2>2, <2>3, PushMem, QuietInv
<1>11. ASSUME ExDeHl PROVE IInv' /\ AsNone
  <2>1. RegisterFile([regs EXCEPT !.DE = regs.HL, !.HL = regs.DE])
    BY <1>0, SMT DEF RegisterFile, Pairs, Names
  <2> QED BY <1>0, <1>11, <2>1, QuietInv DEF ExDeHl
<1>12. ASSUME Di PROVE IInv' /\ AsNone
  <2>1. RegisterFile([regs EXCEPT !.iff1 = FALSE, !.iff2 = FALSE])
    BY <1>0, SMT DEF RegisterFile, Pairs, Names
  <2> QED BY <1>0, <1>12, <2>1, QuietInv DEF Di
<1>13. ASSUME Ei PROVE IInv' /\ AsNone
  <2> DEFINE r == [regs EXCEPT !.iff1 = TRUE, !.iff2 = TRUE, !.Q = 0]
  <2>1. Good(r) /\ r.Q = 0
    BY <1>0, SMT DEF Good, RegisterFile, Pairs, Names, Byte
  <2>2. Retire(r, mem) /\ io' = io
    BY <1>13 DEF Ei
  <2> HIDE DEF r
  <2> QED BY <1>0, <2>1, <2>2, RetireInv, Facts DEF AsNone
<1>14. ASSUME Call PROVE IInv' /\ AsNone
  <2> DEFINE r == [Ahead(regs, 2) EXCEPT !.MEMPTR = Imm16]
             s == [r EXCEPT !.PC = Imm16, !.SP = Word16(@ - 2)]
  <2>1. RegisterFile(r) /\ Imm16 \in Word
    BY <1>a, Facts, SetWord
  <2>2. Quiet(r, mem) \/ Quiet(s, PushIn(regs.SP, r.PC))
    BY <1>14 DEF Call
  <2> HIDE DEF r
  <2>3. r.PC \in Word /\ Word16(r.SP - 2) \in Word
    BY <2>1, Values, Neighbours DEF Pairs
  <2>4. RegisterFile(s)
    BY <2>1, <2>3, SMT DEF RegisterFile, Pairs, Names
  <2>5. IsMem(PushIn(regs.SP, r.PC))
    BY <2>3, PushMem
  <2> QED BY <1>0, <2>1, <2>2, <2>4, <2>5, QuietInv
<1>15. ASSUME Rst PROVE IInv' /\ AsNone
  <2>1. 8 * Y \in Word
    BY Facts, SMT DEF Word
  <2>2. RegisterFile([regs EXCEPT !.PC = 8 * Y, !.MEMPTR = 8 * Y, !.SP = Word16(@ - 2)])
    BY <1>0, <1>sp, <2>1, SMT DEF RegisterFile, Pairs, Names
  <2> QED BY <1>15, <1>sp, <2>2, PushMem, QuietInv DEF Rst
<1>16. ASSUME AluImm PROVE IInv' /\ AsFlags
  BY <1>a, <1>16, Facts, AluWithInv DEF AluImm
<1>q1. RetCc \/ Ret \/ Pop \/ Push \/ Exx => subset = "NONE" /\ X = 3 /\ Z \in {0, 1, 2, 3, 4, 5, 7}
  BY DEF Main, RetCc, Ret, Pop, Push, Exx
<1>q2. JpHl \/ LdSpHl \/ Jp \/ OutA \/ InA => subset = "NONE" /\ X = 3 /\ Z \in {0, 1, 2, 3, 4, 5, 7}
  BY DEF Main, JpHl, LdSpHl, Jp, OutA, InA
<1>q3. ExSpHl \/ ExDeHl \/ Di \/ Ei \/ Call \/ Rst => subset = "NONE" /\ X = 3 /\ Z \in {0, 1, 2, 3, 4, 5, 7}
  BY DEF Main, ExSpHl, ExDeHl, Di, Ei, Call, Rst
<1>q4. AluImm => subset = "NONE" /\ X = 3 /\ Z = 6
  BY DEF Main, AluImm
<1> QED BY <1>1, <1>2, <1>3, <1>4, <1>5, <1>6, <1>7, <1>8, <1>9, <1>10, <1>11, <1>12, <1>13,
           <1>14, <1>15, <1>16, <1>q1, <1>q2, <1>q3, <1>q4, SMT
           DEF Quadrant3, QIsSet, AsFlags, AsNone, AssemblesFlags

(* What the CB instructions read and write back.                           *)
LEMMA CbFile ==
    ASSUME IInv, NEW v \in Byte
    PROVE  /\ CbOperand \in Byte
           /\ RegisterFile(CbRegs(v)) /\ IsMem(CbMem(v))
<1>1. InMemory \/ Z # 6
  BY DEF InMemory
<1>2. CbOperand \in Byte
  BY <1>1, Facts, Gotten DEF CbOperand
<1>3. Z # 6 => RegisterFile(Put(regs, Reg8NoMod(Z), v))
  BY Facts, PutFile
<1>4. IsMem(Poke(CbPtr, v)) /\ IsMem(mem) /\ RegisterFile(regs)
  BY PokeMem, Facts
<1> QED BY <1>2, <1>3, <1>4 DEF CbRegs, CbMem

(* Shifts, BIT, RES and SET.                                               *)
LEMMA SubsetCBInv == IInv /\ SubsetCB => IInv' /\ QIsSet
<1> SUFFICES ASSUME IInv, SubsetCB PROVE IInv' /\ QIsSet
  OBVIOUS
<1>0. IsMem(mem) /\ RegisterFile(regs) /\ Y \in 0..7 /\ CbOperand \in Byte
  BY Facts, CbFile, NumOfByte
<1>1. ASSUME ShiftRotate PROVE IInv' /\ AsFlags
  <2> DEFINE res == ShiftRot(Y, CbOperand, F)
  <2>1. res.v \in Byte
    BY <1>0, ShiftedByte, CarryIs DEF ShiftRot, Result
  <2>2. Flagged(WithFlags(CbRegs(res.v), res.f), CbMem(res.v))
    BY <1>1 DEF ShiftRotate
  <2> HIDE DEF res
  <2> QED BY <2>1, <2>2, CbFile, FlagsInv
<1>2. ASSUME BitTest PROVE IInv' /\ AsFlags
  BY <1>0, <1>2, FlagsInv DEF BitTest
<1>3. ASSUME Res \/ Set PROVE IInv' /\ AsNone
  <2>1. ResBit(Y, CbOperand) \in Byte /\ SetBit(Y, CbOperand) \in Byte
    BY NumOfByte DEF ResBit, SetBit
  <2> QED BY <1>3, <2>1, CbFile, QuietInv DEF Res, Set
<1>q. /\ ShiftRotate \/ BitTest => subset = "CB" /\ X \in 0..1
      /\ Res \/ Set => subset = "CB" /\ X \in 2..3
  BY DEF Cb, ShiftRotate, BitTest, Res, Set
<1> QED BY <1>1, <1>2, <1>3, <1>q, SMT DEF SubsetCB, QIsSet, AsFlags, AsNone, AssemblesFlags

(* What the block instructions step and rewind.                            *)
LEMMA BlockFile ==
    ASSUME IInv
    PROVE  /\ \A w \in Word : Moved(w) \in Word
           /\ \A r : RegisterFile(r) => RegisterFile(Rewinded(r))
<1>1. \A w \in Word : Moved(w) \in Word
  BY Neighbours DEF Moved
<1>2. ASSUME NEW r, RegisterFile(r) PROVE RegisterFile(Rewinded(r))
  <2>1. Word16(r.PC - 1) \in Word
    BY <1>2, Values, Neighbours DEF Pairs
  <2>2. RegisterFile(Ahead(r, -2))
    BY <1>2, AheadFile
  <2> QED BY <2>1, <2>2, SetWord DEF Rewinded
<1> QED BY <1>1, <1>2

(* The ED table.                                                           *)
LEMMA SubsetEDInv == IInv /\ SubsetED => IInv' /\ (~Unassigned => QIsSet)
<1> SUFFICES ASSUME IInv, SubsetED PROVE IInv' /\ (~Unassigned => QIsSet)
  OBVIOUS
<1>0. IsMem(mem) /\ RegisterFile(regs)
  BY Facts
<1>w. /\ regs.BC \in Word /\ regs.HL \in Word /\ regs.DE \in Word
      /\ Word16(regs.BC + 1) \in Word /\ Word16(regs.HL + 1) \in Word /\ Word16(regs.BC - 1) \in Word
  BY Facts, Neighbours DEF Pairs
<1>1. ASSUME InC PROVE IInv' /\ AsFlags
  <2> DEFINE r(v) == WithFlags([regs EXCEPT !.MEMPTR = Word16(regs.BC + 1)], ByteFlags(v, F))
             s(v) == IF Y = 6 THEN r(v) ELSE Put(r(v), Reg8(Y), v)
  <2>1. PICK v \in BusBytes : Transfer(s(v), mem, "in", regs.BC, v)
    BY <1>1 DEF InC
  <2>2. v \in Byte
    BY BusBytesTyped
  <2>3. Good(r(v)) /\ r(v).Q = Lo(r(v).AF)
    BY <1>0, <1>w, SetWord, WithFlagsGood
  <2> HIDE DEF r
  <2>4. Y # 6 => Good(Put(r(v), Reg8(Y), v)) /\ Put(r(v), Reg8(Y), v).Q = Lo(Put(r(v), Reg8(Y), v).AF)
    <3> DEFINE n == Reg8(Y)
    <3>1. SUFFICES ASSUME Y # 6 PROVE Good(Put(r(v), n, v)) /\ Put(r(v), n, v).Q = Lo(Put(r(v), n, v).AF)
      OBVIOUS
    <3>2. n[1] \in Pairs /\ (n[1] = "AF" => n[2] = "hi")
      <4>1. Y \in 0..7 /\ Index \in {"HL", "IX", "IY"}
        BY Facts
      <4> QED BY <3>1, <4>1, SMT DEF Reg8, Reg8NoMod, Pairs
    <3> HIDE DEF n
    <3>3. RegisterFile(Put(r(v), n, v))
      BY <2>2, <2>3, <3>2, PutFile DEF Good
    <3>4. r(v).AF \in Word /\ Lo(WordOf(v, Lo(r(v).AF))) = Lo(r(v).AF)
      BY <2>2, <2>3, Values, Joined DEF Good, Pairs
    <3>5. Put(r(v), n, v).Q = r(v).Q
      BY <2>3, <3>2, SMT DEF Put, Good, RegisterFile, Pairs, Names
    <3>6. Lo(Put(r(v), n, v).AF) = Lo(r(v).AF)
      BY <2>3, <3>2, <3>4, SMT DEF Put, Good, RegisterFile, Pairs, Names
    <3> QED BY <2>3, <3>3, <3>5, <3>6 DEF Good
  <2>5. Good(s(v)) /\ s(v).Q = Lo(s(v).AF)
    BY <2>3, <2>4
  <2> HIDE DEF s
  <2> QED BY <1>0, <1>w, <2>1, <2>2, <2>5, TransferInv DEF AsFlags
<1>2. ASSUME OutC PROVE IInv' /\ AsNone
  <2> DEFINE n == IF Y = 6 THEN 0 ELSE Get(Reg8(Y))
             r == [regs EXCEPT !.MEMPTR = Word16(regs.BC + 1), !.Q = 0]
  <2>1. n \in Byte
    BY <1>0, Facts, Gotten, SMT DEF Byte
  <2>2. Transfer(r, mem, "out", regs.BC, n)
    BY <1>2 DEF OutC
  <2>3. Good(r) /\ r.Q = 0
    BY <1>0, <1>w, SMT DEF Good, RegisterFile, Pairs, Names, Byte
  <2> HIDE DEF n, r
  <2> QED BY <1>0, <1>w, <2>1, <2>2, <2>3, TransferInv DEF AsNone
<1>3. ASSUME AdcSbcHl PROVE IInv' /\ AsFlags
  <2> DEFINE n   == regs[Reg16(Y \div 2)]
             res == IF Y % 2 = 1 THEN AdcWord(regs.HL, n, F) ELSE SbcWord(regs.HL, n, F)
             r   == [regs EXCEPT !.HL = res.v, !.MEMPTR = Word16(regs.HL + 1)]
  <2>1. res.v \in Word
    BY <1>w, Facts, WideWord
  <2>2. Flagged(WithFlags(r, res.f), mem)
    BY <1>3 DEF AdcSbcHl
  <2> HIDE DEF res
  <2>3. RegisterFile(r)
    BY <1>0, <1>w, <2>1, SMT DEF RegisterFile, Pairs, Names
  <2> QED BY <1>0, <2>2, <2>3, FlagsInv
<1>4. ASSUME Neg PROVE IInv' /\ AsFlags
  <2>1. 0 \in Byte
    BY SMT DEF Byte
  <2>2. SubByte(0, A, 0).v \in Byte
    BY <2>1, Facts, SumByte
  <2> QED BY <1>0, <1>4, <2>2, Facts, ResultInv DEF Neg
<1>5. ASSUME Retn PROVE IInv' /\ AsNone
  <2>1. RegisterFile([regs EXCEPT !.iff1 = regs.iff2])
    BY <1>0, SMT DEF RegisterFile, Pairs, Names
  <2> QED BY <1>5, <2>1, ReturnInv DEF Retn
<1>6. ASSUME Im PROVE IInv' /\ AsNone
  <2> DEFINE k == <<0, 0, 1, 2>>[(Y % 4) + 1]
  <2>1. k \in 0..2
    BY Facts, SMT
  <2> HIDE DEF k
  <2>2. RegisterFile([regs EXCEPT !.int_mode = k])
    BY <1>0, <2>1, SMT DEF RegisterFile, Pairs, Names
  <2> QED BY <1>0, <1>6, <2>2, QuietInv DEF Im, k
<1>7. ASSUME LdIr PROVE IInv' /\ (IF Y < 2 THEN AsNone ELSE AsFlags)
  <2> DEFINE n == <<"IR", IF Y % 2 = 1 THEN "lo" ELSE "hi">>
             res == Result(Get(n), LdIrFlags(Get(n), regs.iff2, F))
  <2>1. n[1] \in Pairs
    BY DEF Pairs
  <2>2. IF Y < 2 THEN Quiet(Put(regs, n, A), mem) ELSE Flagged(WithResult(regs, RegA, res), mem)
    BY <1>7 DEF LdIr
  <2> HIDE DEF n
  <2>3. RegisterFile(Put(regs, n, A))
    BY <2>1, Facts, PutFile
  <2>4. res.v \in Byte
    BY <1>0, <2>1, Gotten DEF Result
  <2> HIDE DEF res
  <2>5. CASE Y < 2
    BY <1>0, <2>2, <2>3, <2>5, QuietInv
  <2>6. CASE ~(Y < 2)
    BY <1>0, <2>2, <2>4, <2>6, Facts, ResultInv
  <2> QED BY <2>5, <2>6
<1>8. ASSUME RotateDigits PROVE IInv' /\ AsFlags
  <2> DEFINE res == DigitRotate(Y, A, Peek(regs.HL))
             r   == [regs EXCEPT !.MEMPTR = Word16(regs.HL + 1)]
             s   == Result(res.a, ByteFlags(res.a, F))
  <2>1. res.a \in Byte /\ res.m \in Byte
    BY Facts, DigitBytes
  <2>2. Flagged(WithResult(r, RegA, s), Poke(regs.HL, res.m))
    BY <1>8 DEF RotateDigits
  <2> HIDE DEF res
  <2>3. RegisterFile(r)
    BY <1>0, <1>w, SetWord
  <2>4. s.v \in Byte
    BY <2>1 DEF Result
  <2> HIDE DEF r, s
  <2> QED BY <2>1, <2>2, <2>3, <2>4, Facts, PokeMem, ResultInv
<1>9. ASSUME EdNop PROVE IInv' /\ (X \in {1, 2} => AsNone)
  BY <1>9, Facts, QuietInv, FlaggedInv DEF EdNop, Ed
<1>10. ASSUME BlockLd PROVE IInv' /\ AsFlags
  <2> DEFINE n == Peek(regs.HL)
             r == [regs EXCEPT !.HL = Moved(@), !.DE = Moved(@), !.BC = Word16(@ - 1)]
  <2>1. RegisterFile(r)
    BY <1>0, <1>w, BlockFile, SMT DEF RegisterFile, Pairs, Names
  <2>2. IsMem(Poke(regs.DE, n))
    BY Facts, PokeMem
  <2>3. \E f : \/ Flagged(WithFlags(Rewinded(r), Rewound(f, RewindPCH)), Poke(regs.DE, n))
               \/ Flagged(WithFlags(r, f), Poke(regs.DE, n))
    BY <1>10, Zenon DEF BlockLd
  <2> HIDE DEF r
  <2> QED BY <2>1, <2>2, <2>3, BlockFile, FlagsInv
<1>11. ASSUME BlockCp PROVE IInv' /\ AsFlags
  <2> DEFINE r == [regs EXCEPT !.HL = Moved(@), !.BC = Word16(@ - 1)]
             s == [r EXCEPT !.MEMPTR = Moved(@)]
  <2>1. RegisterFile(r)
    BY <1>0, <1>w, BlockFile, SMT DEF RegisterFile, Pairs, Names
  <2>2. \E f : \/ Flagged(WithFlags(Rewinded(r), Rewound(f, RewindPCH)), mem)
               \/ Flagged(WithFlags(s, f), mem)
    BY <1>11, Zenon DEF BlockCp
  <2> HIDE DEF r
  <2>3. r.MEMPTR \in Word
    BY <2>1 DEF RegisterFile
  <2>4. RegisterFile(s)
    BY <2>1, <2>3, BlockFile, SetWord
  <2> HIDE DEF s
  <2> QED BY <1>0, <2>1, <2>2, <2>4, BlockFile, FlagsInv
<1>b. RegisterFile(Put(regs, Reg8(0), Byte8(B - 1)))
  <2>1. Byte8(B - 1) \in Byte /\ Reg8(0)[1] \in Pairs
    BY Facts, Neighbours
  <2> QED BY <1>0, <2>1, PutFile
<1>c. \A r : RegisterFile(r) => \A f : RegisterFile(IoRegs(r, f))
  BY BlockFile DEF IoRegs
<1>12. ASSUME BlockIn PROVE IInv' /\ AsFlags
  <2> DEFINE b == Byte8(B - 1)
             c == Put(regs, Reg8(0), b)
             r == [c EXCEPT !.HL = Moved(@), !.MEMPTR = Moved(regs.BC)]
             f(v) == IoRoundFlags(v, Lo(r.MEMPTR), b)
  <2>1. PICK v \in BusBytes : Transfer(WithFlags(IoRegs(r, f(v)), IoFlags(f(v), b)), Poke(regs.HL, v),
                                       "in", regs.BC, v)
    BY <1>12 DEF BlockIn
  <2>2. v \in Byte /\ RegisterFile(c)
    BY <1>b, BusBytesTyped
  <2> HIDE DEF c
  <2>3. RegisterFile(r)
    BY <1>w, <2>2, BlockFile, SMT DEF RegisterFile, Pairs, Names
  <2> HIDE DEF r, f
  <2> QED BY <1>w, <1>c, <2>1, <2>2, <2>3, PokeMem, TransferFlagsInv
<1>13. ASSUME BlockOut PROVE IInv' /\ AsFlags
  <2> DEFINE n == Peek(regs.HL)
             b == Byte8(B - 1)
             c == Put(regs, Reg8(0), b)
             r == [c EXCEPT !.HL = Moved(@), !.MEMPTR = Moved(c.BC)]
             f == IoRoundFlags(n, Lo(r.HL), b)
  <2>1. Transfer(WithFlags(IoRegs(r, f), IoFlags(f, b)), mem, "out", OutPort(regs.BC), n)
    BY <1>13 DEF BlockOut
  <2>2. n \in Byte /\ RegisterFile(c) /\ OutPort(regs.BC) \in Word
    <3>1. Hi(regs.BC) \in Byte /\ Lo(regs.BC) \in Byte
      BY <1>w, HalvesOf
    <3> QED BY <1>b, <3>1, Facts, Neighbours, Joined DEF OutPort
  <2> HIDE DEF c, n
  <2>3. c.BC \in Word
    BY <2>2, Values DEF Pairs
  <2>4. RegisterFile(r)
    BY <2>2, <2>3, BlockFile, SMT DEF RegisterFile, Pairs, Names
  <2> HIDE DEF r, f
  <2> QED BY <1>0, <1>c, <2>1, <2>2, <2>4, TransferFlagsInv
<1>q1. InC \/ AdcSbcHl \/ Neg => subset = "ED" /\ X = 1 /\ Z \in {0, 2, 4}
  BY DEF Ed, InC, AdcSbcHl, Neg
<1>q2. OutC \/ Retn \/ Im => subset = "ED" /\ X = 1 /\ Z \in {1, 5, 6}
  BY DEF Ed, OutC, Retn, Im
<1>q3. LdIr => subset = "ED" /\ X = 1 /\ Z = 7 /\ Y < 4
  BY DEF Ed, LdIr
<1>q4. RotateDigits => subset = "ED" /\ X = 1 /\ Z = 7 /\ Y \in {4, 5}
  BY DEF Ed, RotateDigits
<1>q5. EdNop => subset = "ED" /\ ((X = 1 /\ Z = 7 /\ Y > 5) \/ (X = 2 /\ Y < 4) \/ X \in {0, 3})
  BY DEF Ed, EdNop
<1>q6. BlockLd \/ BlockCp => subset = "ED" /\ X = 2 /\ Y > 3 /\ Z \in 0..1
  BY DEF Ed, Block, BlockLd, BlockCp
<1>q7. BlockIn \/ BlockOut => subset = "ED" /\ X = 2 /\ Y > 3 /\ Z \in 2..3
  BY DEF Ed, Block, BlockIn, BlockOut
<1>d. Y \in 0..7
  BY Facts
<1> QED BY <1>1, <1>2, <1>3, <1>4, <1>5, <1>6, <1>7, <1>8, <1>9, <1>10, <1>11, <1>12, <1>13,
           <1>q1, <1>q2, <1>q3, <1>q4, <1>q5, <1>q6, <1>q7, <1>d, SMT
           DEF SubsetED, QIsSet, AsFlags, AsNone, AssemblesFlags, Unassigned
-----------------------------------------------------------------------------
(* A refresh of R leaves a word.                                           *)
LEMMA RefreshedWord == \A w \in Word : Refreshed(w) \in Word
<1> TAKE w \in Word
<1>1. Hi(w) \in Byte
  BY HalvesOf
<1>2. (w + 1) % 128 \in Byte
  BY SMT DEF Word, Byte
<1> QED BY <1>1, <1>2, Joined DEF Refreshed

(* A fetch keeps the invariant, halted or not.                             *)
LEMMA FetchInv == IInv /\ (Fetch \/ HaltedFetch) => IInv'
<1> SUFFICES ASSUME IInv, Fetch \/ HaltedFetch PROVE IInv'
  OBVIOUS
<1>0. RegisterFile(regs) /\ regs.Q \in {0, Lo(regs.AF)} /\ IsMemory(mem) /\ Imm8 \in Byte
  BY Facts DEF Good, IsMem
<1>1. Refreshed(regs.IR) \in Word
  BY Facts, RefreshedWord DEF Pairs
<1>2. CASE Fetch
  <2> DEFINE r == Ahead(regs, 1)
  <2>1. RegisterFile(r) /\ r.Q = regs.Q /\ r.AF = regs.AF /\ r.IR = regs.IR
    BY <1>0, AheadFile, SMT DEF Ahead, RegisterFile, Names, Pairs
  <2>2. regs' = [r EXCEPT !.IR = Refreshed(@), !.instr = Imm8]
    BY <1>2 DEF Fetch
  <2> HIDE DEF r
  <2>3. RegisterFile(regs') /\ regs'.Q = regs.Q /\ regs'.AF = regs.AF
    BY <1>0, <1>1, <2>1, <2>2, SMT DEF RegisterFile, Pairs, Names
  <2>4. TypeOK'
    BY <1>2, <2>3, SMT DEF Fetch, IInv, TypeOK, IsMemory, Stages
  <2>5. QZeroOrFlags'
    BY <1>0, <2>3 DEF QZeroOrFlags
  <2>6. EdUnprefixed' /\ DisplacedAt'
    BY <1>2 DEF Fetch, IInv, EdUnprefixed, DisplacedAt
  <2> QED BY <2>4, <2>5, <2>6 DEF IInv
<1>3. CASE HaltedFetch
  <2>2. regs' = [regs EXCEPT !.IR = Refreshed(@), !.instr = 0, !.Q = 0]
    BY <1>3 DEF HaltedFetch
  <2>3. RegisterFile(regs') /\ regs'.Q = 0
    BY <1>0, <1>1, <2>2, SMT DEF RegisterFile, Pairs, Names, Byte
  <2>4. TypeOK'
    BY <1>3, <2>3, SMT DEF HaltedFetch, IInv, TypeOK, IsMemory, Stages
  <2>5. QZeroOrFlags'
    BY <2>3 DEF QZeroOrFlags
  <2>6. EdUnprefixed' /\ DisplacedAt'
    BY <1>3 DEF HaltedFetch, IInv, EdUnprefixed, DisplacedAt
  <2> QED BY <2>4, <2>5, <2>6 DEF IInv
<1> QED BY <1>2, <1>3

(* So does a prefix.                                                       *)
LEMMA PrefixInv == IInv /\ Prefix => IInv'
<1> SUFFICES ASSUME IInv, Prefix PROVE IInv'
  OBVIOUS
<1>1. regs' = regs /\ mem' = mem /\ io' = io /\ load' = load
  BY DEF Prefix
<1>2. /\ stage' \in {"displaced", "fetch"} /\ subset' \in {"NONE", "CB", "ED"}
      /\ mod' \in {"NONE", "DD", "FD"}
  BY DEF Prefix, IInv, TypeOK
<1>3. TypeOK'
  BY <1>1, <1>2 DEF IInv, TypeOK, IsMemory, Stages
<1>4. QZeroOrFlags'
  BY <1>1 DEF IInv, QZeroOrFlags
<1>5. regs.instr = 203 \/ regs.instr = 237 \/ regs.instr = 221 \/ regs.instr = 253
  BY DEF Prefix, PrefixBytes
<1>6. EdUnprefixed' /\ DisplacedAt'
  BY <1>5 DEF Prefix, EdUnprefixed, DisplacedAt
<1> QED BY <1>3, <1>4, <1>6 DEF IInv

(* PC has moved past the displacement and the opcode when the operation on *)
(* (IX + d) starts: the displacement is two bytes back.                    *)
LEMMA PeekWraps ==
    ASSUME NEW w \in Word
    PROVE  Peek(Word16(w + 2) - 2) = Peek(w)
<1>1. Word16(Word16(w + 2) - 2) = Word16(w)
  BY SMT DEF Word, Word16
<1> QED BY <1>1 DEF Peek

(* The displacement of DD CB d is added to the index into MEMPTR.          *)
LEMMA DisplacedInv == IInv /\ Displaced => IInv'
<1> SUFFICES ASSUME IInv, Displaced PROVE IInv'
  OBVIOUS
<1> DEFINE n == Peek(regs.PC + 1)
<1>1. regs' = [Ahead(regs, 2) EXCEPT !.MEMPTR = HlPtr, !.instr = n]
  BY DEF Displaced
<1>2. RegisterFile(regs) /\ regs.Q \in {0, Lo(regs.AF)} /\ IsMemory(mem) /\ n \in Byte
  BY Facts DEF Good, IsMem
<1>3. mod # "NONE" /\ subset = "CB" /\ Index \in {"IX", "IY"}
  BY DEF Displaced, IInv, DisplacedAt, TypeOK, Index
<1> HIDE DEF n
<1>4. RegisterFile(Ahead(regs, 2)) /\ Ahead(regs, 2).AF = regs.AF /\ Ahead(regs, 2).Q = regs.Q
  BY <1>2, AheadFile
<1>5. RegisterFile(regs') /\ regs'.Q = regs.Q /\ regs'.AF = regs.AF
  BY <1>1, <1>2, <1>4, HlPtrFile, SMT DEF RegisterFile, Pairs, Names
<1>6. TypeOK'
  BY <1>5, SMT DEF Displaced, IInv, TypeOK, IsMemory, Stages
<1>7. QZeroOrFlags'
  BY <1>2, <1>5 DEF QZeroOrFlags
<1>8. regs'.MEMPTR = HlPtr /\ regs'[Index] = regs[Index] /\ regs'.PC = Word16(regs.PC + 2)
  <2> DEFINE pc == Word16(regs.PC + 2)
  <2>1. regs' = [[regs EXCEPT !.PC = pc] EXCEPT !.MEMPTR = HlPtr, !.instr = n]
    BY <1>1 DEF Ahead
  <2> HIDE DEF pc
  <2>2. regs'.MEMPTR = HlPtr /\ regs'.PC = pc
    BY <1>2, <2>1, SMT DEF RegisterFile, Pairs, Names
  <2>3. regs'.IX = regs.IX /\ regs'.IY = regs.IY
    BY <1>2, <2>1, SMT DEF RegisterFile, Pairs, Names
  <2> QED BY <1>3, <2>2, <2>3 DEF pc
<1>9. HlPtr = Word16(regs[Index] + Signed(Peek(regs.PC)))
  BY <1>3 DEF HlPtr, Imm8
<1>10. Peek(regs'.PC - 2) = Peek(regs.PC)
  BY <1>8, Facts, PeekWraps DEF Pairs
<1>11. mem' = mem /\ mod' = mod /\ subset' = subset /\ stage' = "start"
  BY DEF Displaced
<1>12. Index' = Index /\ Peek(regs.PC - 2)' = Peek(regs'.PC - 2)
  BY <1>11 DEF Index, Peek
<1>13. regs'.MEMPTR = Word16(regs'[Index'] + Signed(Peek(regs.PC - 2)'))
  BY <1>8, <1>9, <1>10, <1>12
<1>14. DisplacedAt'
  BY <1>11, <1>13 DEF DisplacedAt
<1>15. EdUnprefixed'
  BY <1>3, <1>11 DEF EdUnprefixed
<1> QED BY <1>6, <1>7, <1>14, <1>15 DEF IInv

(* The three responses to INT.                                             *)
LEMMA IntResponseInv == IInv /\ IntResponse => IInv'
<1> SUFFICES ASSUME IInv, IntResponse PROVE IInv'
  OBVIOUS
<1> DEFINE from(a) == IF a \in DOMAIN mem THEN mem'[a] ELSE Floating
<1>1. PICK v \in BusBytes :
        LET table == WordOf(Hi(regs.IR), v)
            to    == IF regs.int_mode = 1 THEN 56
                                          ELSE WordOf(from(Word16(table + 1)), from(table))
        IN  regs' = [regs EXCEPT !.PC = to, !.MEMPTR = to, !.SP = Word16(@ - 2)]
  BY DEF IntResponse
<1>2. IsMemory(mem') /\ DOMAIN mem' = DOMAIN mem
  BY Facts, PushMem DEF IntResponse, IsMem, Pairs
<1>3. \A a : from(a) \in Byte
  BY <1>2, SMT DEF IsMemory, Floating, Byte
<1> HIDE DEF from
<1>4. 56 \in Word
  BY SMT DEF Word
<1>5. PICK to \in Word : regs' = [regs EXCEPT !.PC = to, !.MEMPTR = to, !.SP = Word16(@ - 2)]
  BY <1>1, <1>3, <1>4, Joined
<1>6. Word16(regs.SP - 2) \in Word /\ RegisterFile(regs)
  BY Facts, Neighbours DEF Pairs
<1>7. RegisterFile(regs') /\ regs'.Q = regs.Q /\ regs'.AF = regs.AF
  BY <1>5, <1>6, SMT DEF RegisterFile, Pairs, Names
<1>8. TypeOK'
  BY <1>2, <1>7, SMT DEF IntResponse, IInv, TypeOK, IsMemory, Stages
<1>9. QZeroOrFlags'
  BY <1>7 DEF IInv, QZeroOrFlags
<1>10. EdUnprefixed' /\ DisplacedAt'
  BY DEF IntResponse, IInv, EdUnprefixed, DisplacedAt
<1> QED BY <1>8, <1>9, <1>10 DEF IInv

(* The response to NMI.                                                    *)
LEMMA ServeNmiInv == IInv /\ ServeNmi => IInv'
<1> SUFFICES ASSUME IInv, ServeNmi PROVE IInv'
  OBVIOUS
<1> DEFINE back == IF stage = "halted" THEN Ahead(regs, -1) ELSE regs
           n    == IF stage = "halted" THEN 0 ELSE Imm8
<1>1. /\ regs' = [back EXCEPT !.IR = Refreshed(@), !.instr = n, !.iff2 = regs.iff1, !.iff1 = FALSE,
                              !.SP = Word16(@ - 2), !.PC = 102, !.MEMPTR = 102]
      /\ mem' = PushIn(regs.SP, back.PC)
  BY DEF ServeNmi
<1>2. RegisterFile(back) /\ back.Q = regs.Q /\ back.AF = regs.AF /\ regs.iff1 \in BOOLEAN
  BY Facts, AheadFile DEF RegisterFile
<1>3. n \in Byte /\ 102 \in Word
  BY Facts, SMT DEF Byte, Word
<1> HIDE DEF back, n
<1>4. back.PC \in Word /\ Refreshed(back.IR) \in Word /\ Word16(back.SP - 2) \in Word
  BY <1>2, Values, RefreshedWord, Neighbours DEF Pairs
<1>5. RegisterFile(regs') /\ regs'.Q = regs.Q /\ regs'.AF = regs.AF
  BY <1>1, <1>2, <1>3, <1>4, SMT DEF RegisterFile, Pairs, Names
<1>6. IsMemory(mem') /\ DOMAIN mem' = DOMAIN mem
  BY <1>1, <1>4, PushMem DEF IsMem
<1>7. TypeOK'
  BY <1>5, <1>6, SMT DEF ServeNmi, Between, IInv, TypeOK, IsMemory, Stages
<1>8. QZeroOrFlags'
  BY <1>5 DEF IInv, QZeroOrFlags
<1>9. EdUnprefixed' /\ DisplacedAt'
  BY DEF ServeNmi, Between, EdUnprefixed, DisplacedAt
<1> QED BY <1>7, <1>8, <1>9 DEF IInv

(* The acceptance of INT.                                                  *)
LEMMA AcceptIntInv == IInv /\ AcceptInt => IInv'
<1> SUFFICES ASSUME IInv, AcceptInt PROVE IInv'
  OBVIOUS
<1> DEFINE r == [regs EXCEPT !.IR = Refreshed(@), !.iff1 = FALSE]
<1>1. Refreshed(regs.IR) \in Word /\ RegisterFile(regs)
  BY Facts, RefreshedWord DEF Pairs
<1>2. RegisterFile(r) /\ r.Q = regs.Q /\ r.AF = regs.AF
  BY <1>1, SMT DEF RegisterFile, Pairs, Names
<1>3. \/ \E v \in BusBytes : regs' = [r EXCEPT !.instr = v]
      \/ regs' = r
      \/ regs' = Ahead(r, 1)
  BY Zenon DEF AcceptInt
<1> HIDE DEF r
<1>4. RegisterFile(Ahead(r, 1)) /\ Ahead(r, 1).Q = r.Q /\ Ahead(r, 1).AF = r.AF
  BY <1>2, AheadFile
<1>5. RegisterFile(regs') /\ regs'.Q = regs.Q /\ regs'.AF = regs.AF
  BY <1>2, <1>3, <1>4, BusBytesTyped, SMT DEF RegisterFile, Pairs, Names
<1>6. stage' \in {"start", "vector"} /\ UNCHANGED <<mem, io, subset, mod, load>> /\ subset = "NONE"
  BY DEF AcceptInt, Between
<1>7. TypeOK'
  BY <1>5, <1>6, SMT DEF IInv, TypeOK, IsMemory, Stages
<1>8. QZeroOrFlags'
  BY <1>5 DEF IInv, QZeroOrFlags
<1>9. EdUnprefixed' /\ DisplacedAt'
  BY <1>6 DEF EdUnprefixed, DisplacedAt
<1> QED BY <1>7, <1>8, <1>9 DEF IInv

-----------------------------------------------------------------------------
(* The invariant holds of every reachable state, whatever the programs in  *)
(* memory and the bytes the devices put on the bus.                        *)
THEOREM ExecInductive == Spec => []IInv
<1>1. Init => IInv
  <2> SUFFICES ASSUME Init PROVE IInv
    OBVIOUS
  <2>1. PICK p \in Programs : regs \in p.regs /\ mem = p.mem
    BY DEF Init
  <2>2. RegisterFile(regs) /\ regs.Q \in {0, Lo(regs.AF)} /\ IsMemory(mem)
    BY <2>1, ProgramsTyped DEF ProgramsAssumption
  <2>3. /\ io.port = 0 /\ io.v = 0 /\ stage = "fetch" /\ subset = "NONE" /\ mod = "NONE"
        /\ load.mem = mem
    BY DEF Init
  <2>4. 0 \in Word /\ 0 \in Byte
    BY SMT DEF Word, Byte
  <2> QED BY <2>2, <2>3, <2>4 DEF IInv, TypeOK, QZeroOrFlags, EdUnprefixed, DisplacedAt, Stages
<1>2. IInv /\ [Next]_vars => IInv'
  <2>1. IInv /\ UNCHANGED vars => IInv'
    BY DEF vars, IInv, TypeOK, QZeroOrFlags, EdUnprefixed, DisplacedAt, IsMemory, Index, Peek
  <2>2. IInv /\ Cpu => IInv'
    BY FetchInv, PrefixInv, DisplacedInv, IntResponseInv, Quadrant0Inv, Quadrant12Inv,
       Quadrant3Inv, SubsetCBInv, SubsetEDInv DEF Cpu
  <2> QED BY <2>1, <2>2, ServeNmiInv, AcceptIntInv DEF Next, Ended
<1> QED BY <1>1, <1>2, PTL DEF Spec

(* The register file, the memory and the executor keep their types: every  *)
(* register stays within its width.                                        *)
THEOREM ExecTyped == Spec => []TypeOK
<1>1. IInv => TypeOK
  BY DEF IInv
<1> QED BY <1>1, ExecInductive, PTL

(* Each instruction leaves its flags in Q, or 0, whatever was there: SCF   *)
(* and CCF, which copy bits 5 and 3 from it, never see an older F.         *)
THEOREM ExecQIsLastFlags == Spec => QIsLastFlags
<1>1. IInv /\ [Next]_vars => [QStep]_vars
  <2> SUFFICES ASSUME IInv, Next, stage = "start", subset = "NONE" => regs.instr \notin PrefixBytes
               PROVE  ~Unassigned => QIsSet
    BY DEF QStep, Executing
  <2>1. ~(Fetch \/ HaltedFetch \/ Displaced \/ IntResponse)
    BY DEF Fetch, HaltedFetch, Displaced, IntResponse
  <2>2. ~(ServeNmi \/ AcceptInt \/ Ended)
    BY DEF ServeNmi, AcceptInt, Between, Ended, Stopped
  <2>3. ~Prefix
    BY DEF Prefix
  <2> QED BY <2>1, <2>2, <2>3, Quadrant0Inv, Quadrant12Inv, Quadrant3Inv, SubsetCBInv, SubsetEDInv
          DEF Next, Cpu
<1> QED BY <1>1, ExecInductive, PTL DEF Spec, QIsLastFlags
=============================================================================
