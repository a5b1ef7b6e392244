--------------------------- MODULE Z80ApartProofs ---------------------------
(***************************************************************************)
(* Proofs about what an instruction leaves alone: one with a prefix works  *)
(* on the index register the prefix names and on neither other pair, and   *)
(* an instruction and its inverse cancel as a whole program, which is shown*)
(* byte by byte of the program, for all fourteen pairs.                    *)
(***************************************************************************)
EXTENDS Z80ResultProofs

(* The pairs a prefix chooses among.                                       *)
IndexNames == {"HL", "IX", "IY"}

(* Registers r still hold the pairs of IndexNames other than those in s.   *)
Kept(r, s) == RegisterFile(r) /\ \A k \in IndexNames \ s : r[k] = regs[k]

(* The step leaves the index pairs the prefix does not name.               *)
Apart == \A k \in IndexNames \ {Index} : regs'[k] = regs[k]

(* The step leaves both index registers, and of the memory all but the     *)
(* byte at (IX + d).                                                       *)
OverMemory ==
    /\ \A k \in {"IX", "IY"} : regs'[k] = regs[k]
    /\ \A a \in DOMAIN mem : mem'[a] # mem[a] => a = Word16(HlPtr)

(* A pair assigned that is not among the kept ones.                        *)
LEMMA KeptBySet ==
    ASSUME NEW s, NEW r, Kept(r, s), NEW n \in Pairs \cup {"MEMPTR"}, n \in IndexNames => n \in s, NEW v \in Word
    PROVE  Kept([r EXCEPT ![n] = v], s)
<1>1. RegisterFile([r EXCEPT ![n] = v])
  BY SetWord DEF Kept
<1>2. \A k \in IndexNames \ s : k \in DOMAIN r /\ k # n
  BY SMT DEF Kept, IndexNames, RegisterFile, Names, Pairs
<1>3. \A k \in IndexNames \ s : [r EXCEPT ![n] = v][k] = r[k]
  BY <1>2
<1> QED BY <1>1, <1>3 DEF Kept

(* Half of such a pair.                                                    *)
LEMMA KeptByPut ==
    ASSUME NEW s, NEW r, Kept(r, s), NEW n, n[1] \in Pairs, n[1] \in IndexNames => n[1] \in s, NEW v \in Byte
    PROVE  Kept(Put(r, n, v), s)
<1>1. RegisterFile(Put(r, n, v))
  BY PutFile DEF Kept
<1>2. \A k \in IndexNames \ s : k \in DOMAIN r /\ k # n[1]
  BY SMT DEF Kept, IndexNames, RegisterFile, Names, Pairs
<1>3. \A k \in IndexNames \ s : Put(r, n, v)[k] = r[k]
  BY <1>2 DEF Put
<1> QED BY <1>1, <1>3 DEF Kept

(* PC.                                                                     *)
LEMMA KeptByAhead ==
    ASSUME NEW s, NEW r, Kept(r, s), NEW n \in Int
    PROVE  Kept(Ahead(r, n), s)
<1>1. RegisterFile(Ahead(r, n))
  BY AheadFile DEF Kept
<1>2. \A k \in IndexNames \ s : k \in DOMAIN r /\ k # "PC"
  BY SMT DEF Kept, IndexNames, RegisterFile, Names, Pairs
<1>3. \A k \in IndexNames \ s : Ahead(r, n)[k] = r[k]
  BY <1>2 DEF Ahead
<1> QED BY <1>1, <1>3 DEF Kept

(* The registers an instruction retires with are the ones it kept.         *)
LEMMA KeptByEnd ==
    ASSUME NEW s, NEW r, NEW m, Kept(r, s), Quiet(r, m) \/ \E f : Flagged(WithFlags(r, f), m)
    PROVE  (\A k \in IndexNames \ s : regs'[k] = regs[k]) /\ mem' = m
<1>1. \A k \in IndexNames \ s : k \in DOMAIN r /\ k # "AF" /\ k # "Q"
  BY SMT DEF Kept, IndexNames, RegisterFile, Names, Pairs
<1>2. ASSUME Quiet(r, m) PROVE (\A k \in IndexNames \ s : regs'[k] = r[k]) /\ mem' = m
  BY <1>1, <1>2 DEF Quiet, Flagged, Retire
<1>3. ASSUME NEW f, Flagged(WithFlags(r, f), m)
      PROVE  (\A k \in IndexNames \ s : regs'[k] = r[k]) /\ mem' = m
  BY <1>1, <1>3 DEF WithFlags, Flagged, Retire
<1> QED BY <1>2, <1>3 DEF Kept

(* A branch.                                                               *)
LEMMA KeptByBranch ==
    ASSUME IInv, NEW s, NEW r, Kept(r, s), NEW taken, Branch(r, taken)
    PROVE  \A k \in IndexNames \ s : regs'[k] = regs[k]
<1> DEFINE next == Ahead(r, 1)
           to   == Word16(next.PC + Signed(Imm8))
           t    == IF taken THEN [next EXCEPT !.PC = to, !.MEMPTR = to] ELSE next
<1>1. Kept(next, s) /\ next.PC \in Word
  <2>1. Kept(next, s)
    BY KeptByAhead
  <2> HIDE DEF next
  <2> QED BY <2>1, Values DEF Kept, Pairs
<1>2. to \in Word
  <2>1. next.PC + Signed(Imm8) \in Int
    BY <1>1, Facts, SignedInt, SMT DEF Word
  <2> QED BY <2>1, Wraps
<1>3. Quiet(t, mem)
  BY DEF Branch
<1> HIDE DEF next, to
<1>4. RegisterFile([next EXCEPT !.PC = to, !.MEMPTR = to])
  BY <1>1, <1>2, SMT DEF Kept, RegisterFile, Pairs, Names
<1>5. \A k \in IndexNames \ s : k \in DOMAIN next /\ k # "PC" /\ k # "MEMPTR"
  BY <1>1, SMT DEF Kept, IndexNames, RegisterFile, Names, Pairs
<1>6. \A k \in IndexNames \ s : [next EXCEPT !.PC = to, !.MEMPTR = to][k] = next[k]
  BY <1>5
<1>7. Kept(t, s)
  BY <1>1, <1>4, <1>6 DEF Kept
<1> QED BY <1>3, <1>7, KeptByEnd

(* A write changes one cell.                                               *)
LEMMA PokedAt ==
    \A p, v : \A a \in DOMAIN mem : Poke(p, v)[a] # mem[a] => a = Word16(p)
BY DEF Poke, PokeIn

(* What the prefix makes of the register tables: H and L become halves of  *)
(* the index register unless the instruction has a memory operand, and HL  *)
(* itself is named by neither Reg16 nor Reg8.                              *)
LEMMA Prefixed ==
    ASSUME IInv, mod # "NONE"
    PROVE  /\ Index \in {"IX", "IY"} /\ Kept(regs, {Index}) /\ Kept(regs, {"HL"})
           /\ \A i \in 0..7 : i # 6 => Reg8(i)[1] \in Pairs /\ (Reg8(i)[1] \in IndexNames => Reg8(i)[1] \in {Index})
           /\ \A i \in 0..7 : i # 6 => Reg8NoMod(i)[1] \in Pairs /\ (Reg8NoMod(i)[1] \in IndexNames => Reg8NoMod(i)[1] \in {"HL"})
           /\ \A i \in 0..3 : /\ Reg16(i) \in Pairs /\ (Reg16(i) \in IndexNames => Reg16(i) \in {Index})
                              /\ Reg16Alt(i) \in Pairs /\ (Reg16Alt(i) \in IndexNames => Reg16Alt(i) \in {Index})
           /\ RegA[1] \in Pairs /\ RegA[1] \notin IndexNames
<1>1. Index \in {"IX", "IY"}
  BY DEF IInv, TypeOK, Index
<1>2. \A i \in 0..7 : i # 6 => Reg8NoMod(i)[1] \in {"BC", "DE", "HL", "AF"}
  BY SMT DEF Reg8NoMod
<1>3. \A i \in 0..7 : i # 6 => Reg8(i)[1] \in {"BC", "DE", Index, "AF"}
  BY <1>2 DEF Reg8
<1>4. \A i \in 0..3 : Reg16(i) \in {"BC", "DE", Index, "SP"} /\ Reg16Alt(i) \in {"BC", "DE", Index, "AF"}
  BY SMT DEF Reg16, Reg16Alt
<1>5. RegA[1] = "AF"
  BY SMT DEF RegA, Reg8NoMod
<1>6. {"BC", "DE", "SP", "AF", "HL", "IX", "IY"} \subseteq Pairs /\ {"BC", "DE", "SP", "AF"} \cap IndexNames = {}
  BY DEF Pairs, IndexNames
<1> QED BY <1>1, <1>2, <1>3, <1>4, <1>5, <1>6, Facts DEF Kept

(* An instruction that only writes (IX + d).                               *)
LEMMA OverMemoryEnd ==
    ASSUME NEW r, NEW v, Kept(r, {"HL"}),
           Quiet(r, Poke(HlPtr, v)) \/ \E f : Flagged(WithFlags(r, f), Poke(HlPtr, v))
    PROVE  OverMemory
<1>1. (\A k \in IndexNames \ {"HL"} : regs'[k] = regs[k]) /\ mem' = Poke(HlPtr, v)
  BY KeptByEnd
<1>2. {"IX", "IY"} \subseteq IndexNames \ {"HL"}
  BY DEF IndexNames
<1> QED BY <1>1, <1>2, PokedAt DEF OverMemory

(* Fetching the displacement keeps the pairs.                              *)
LEMMA AtHlPtrKept ==
    ASSUME IInv, NEW s, Kept(regs, s)
    PROVE  Kept(AtHlPtr, s)
<1>1. "MEMPTR" \notin IndexNames
  BY DEF IndexNames
<1> QED BY <1>1, KeptByAhead, KeptBySet, HlPtrFile DEF AtHlPtr

(* Quadrant 0 behind a prefix.                                             *)
LEMMA Quadrant0Apart ==
    ASSUME IInv, subset = "NONE", mod # "NONE", Quadrant0
    PROVE  IF Y = 6 /\ Z \in 4..6 THEN OverMemory ELSE Apart
<1>0. IsMem(mem) /\ RegisterFile(regs) /\ Index \in {"IX", "IY"} /\ Kept(regs, {Index})
  BY Facts, Prefixed
<1>i. /\ "AF" \notin IndexNames /\ "MEMPTR" \notin IndexNames /\ "PC" \notin IndexNames /\ "AFs" \notin IndexNames
      /\ "AF" \in Pairs /\ "AFs" \in Pairs
  BY DEF IndexNames, Pairs
<1>1. ASSUME Nop PROVE Apart /\ Z = 0
  BY <1>0, <1>1, KeptByEnd DEF Nop, Apart
<1>2. ASSUME ExAf PROVE Apart /\ Z = 0
  <2>1. RegisterFile([regs EXCEPT !.AF = regs.AFs, !.AFs = regs.AF])
    BY <1>0, SMT DEF RegisterFile, Pairs, Names
  <2>2. \A k \in IndexNames : k \in DOMAIN regs /\ k # "AF" /\ k # "AFs"
    BY <1>0, SMT DEF IndexNames, RegisterFile, Names, Pairs
  <2>3. Kept([regs EXCEPT !.AF = regs.AFs, !.AFs = regs.AF], {Index})
    BY <2>1, <2>2 DEF Kept
  <2> QED BY <1>2, <2>3, KeptByEnd DEF ExAf, Apart
<1>3. ASSUME Djnz PROVE Apart /\ Z = 0
  <2> DEFINE r == Put(regs, Reg8(0), Byte8(B - 1))
  <2>1. Byte8(B - 1) \in Byte
    BY Facts, Neighbours
  <2>2. Kept(r, {Index})
    BY <1>0, <2>1, Prefixed, KeptByPut
  <2>3. Branch(r, Hi(r.BC) # 0) /\ Z = 0
    BY <1>3 DEF Djnz
  <2> HIDE DEF r
  <2> QED BY <2>2, <2>3, KeptByBranch DEF Apart
<1>4. ASSUME Jr PROVE Apart /\ Z = 0
  BY <1>0, <1>4, KeptByBranch DEF Jr, Apart
<1>5. ASSUME LdWordImm PROVE Apart /\ Z = 1
  <2>1. Kept([Ahead(regs, 2) EXCEPT ![Reg16(Y \div 2)] = Imm16], {Index})
    BY <1>0, Facts, Prefixed, KeptByAhead, KeptBySet
  <2> QED BY <1>5, <2>1, KeptByEnd DEF LdWordImm, Apart
<1>6. ASSUME AddHl PROVE Apart /\ Z = 1
  <2> DEFINE sum == AddWord(regs[Index], regs[Reg16(Y \div 2)], F)
             m == Word16(regs[Index] + 1)
             r == [regs EXCEPT ![Index] = sum.v, !.MEMPTR = m]
  <2>1. sum.v \in Word /\ m \in Word
    BY Facts, WideWord, Neighbours
  <2>2. Flagged(WithFlags(r, sum.f), mem) /\ Z = 1
    BY <1>6 DEF AddHl
  <2> HIDE DEF sum, m
  <2>3. RegisterFile(r)
    BY <1>0, <2>1, SMT DEF RegisterFile, Pairs, Names
  <2>4. \A k \in IndexNames \ {Index} : k \in DOMAIN regs /\ k # Index /\ k # "MEMPTR"
    BY <1>0, SMT DEF IndexNames, RegisterFile, Names, Pairs
  <2>5. Kept(r, {Index})
    BY <2>3, <2>4 DEF Kept
  <2> HIDE DEF r
  <2> QED BY <2>2, <2>5, KeptByEnd DEF Apart
<1>7. ASSUME LdA PROVE Apart /\ Z = 2
  <2> DEFINE ptr  == IF Y > 5 THEN Imm16 ELSE regs[Reg16(Y \div 2)]
             r    == Ahead(regs, IF Y > 5 THEN 2 ELSE 0)
             next == Word16(ptr + 1)
  <2>1. ptr \in Word /\ Peek(ptr) \in Byte
    BY Facts
  <2>2. next \in Word /\ WordOf(A, Lo(next)) \in Word
    BY <2>1, Facts, Neighbours, HalvesOf, Joined
  <2>3. Kept(r, {Index})
    BY <1>0, KeptByAhead
  <2>4. /\ Y % 2 = 1 => Quiet([Put(r, RegA, Peek(ptr)) EXCEPT !.MEMPTR = next], mem)
        /\ Y % 2 # 1 => Quiet([r EXCEPT !.MEMPTR = WordOf(A, Lo(next))], Poke(ptr, A))
        /\ Z = 2
    BY <1>7 DEF LdA
  <2> HIDE DEF ptr, r, next
  <2>5. Kept(Put(r, RegA, Peek(ptr)), {Index})
    BY <2>1, <2>3, Prefixed, KeptByPut
  <2>6. /\ Kept([Put(r, RegA, Peek(ptr)) EXCEPT !.MEMPTR = next], {Index})
        /\ Kept([r EXCEPT !.MEMPTR = WordOf(A, Lo(next))], {Index})
    BY <1>i, <2>2, <2>3, <2>5, KeptBySet
  <2> QED BY <2>4, <2>6, KeptByEnd DEF Apart
<1>8. ASSUME LdWordAt PROVE Apart /\ Z = 2
  <2> DEFINE r   == [Ahead(regs, 2) EXCEPT !.MEMPTR = Word16(Imm16 + 1)]
             n   == Reg16(Y \div 2)
             m   == PokeIn(Poke(Imm16, Lo(regs[n])), Imm16 + 1, Hi(regs[n]))
  <2>1. Kept(r, {Index})
    BY <1>0, <1>i, Facts, Neighbours, KeptByAhead, KeptBySet
  <2>2. /\ Y % 2 = 1 => Quiet([r EXCEPT ![n] = PeekWord(Imm16)], mem)
        /\ Y % 2 # 1 => Quiet(r, m)
        /\ Z = 2
    BY <1>8 DEF LdWordAt
  <2> HIDE DEF r, m
  <2>3. Kept([r EXCEPT ![n] = PeekWord(Imm16)], {Index})
    BY <2>1, Facts, Prefixed, KeptBySet
  <2> QED BY <2>1, <2>2, <2>3, KeptByEnd DEF Apart
<1>9. ASSUME IncDecWord PROVE Apart /\ Z = 3
  <2> DEFINE n == Reg16(Y \div 2)
             w == Word16(IF Y % 2 = 1 THEN regs[n] - 1 ELSE regs[n] + 1)
  <2>1. n \in Pairs /\ w \in Word
    BY Facts, Neighbours
  <2>2. Quiet([regs EXCEPT ![n] = w], mem) /\ Z = 3
    BY <1>9 DEF IncDecWord
  <2> HIDE DEF w
  <2>3. Kept([regs EXCEPT ![n] = w], {Index})
    BY <1>0, <2>1, Facts, Prefixed, KeptBySet
  <2> QED BY <2>2, <2>3, KeptByEnd DEF Apart
<1>10. ASSUME IncDecByte PROVE Z \in 4..6 /\ IF Y = 6 THEN OverMemory ELSE Apart
  <2> DEFINE n   == IF Y = 6 THEN Peek(HlPtr) ELSE Get(Reg8(Y))
             res == IF Z = 4 THEN IncByte(n, F) ELSE DecByte(n, F)
  <2>1. n \in Byte
    BY Facts, Gotten
  <2>2. res.v \in Byte
    BY <2>1, CountByte
  <2>3. /\ Y = 6 => Flagged(WithFlags(AtHlPtr, res.f), Poke(HlPtr, res.v))
        /\ Y # 6 => Flagged(WithFlags(Put(regs, Reg8(Y), res.v), res.f), mem)
    BY <1>10 DEF IncDecByte, WithResult
  <2> HIDE DEF res, n
  <2>4. Y # 6 => Kept(Put(regs, Reg8(Y), res.v), {Index})
    BY <1>0, <2>2, Facts, Prefixed, KeptByPut
  <2>5. ASSUME Y = 6 PROVE OverMemory
    <3>1. Kept(AtHlPtr, {"HL"})
      BY Prefixed, AtHlPtrKept
    <3> QED BY <2>3, <2>5, <3>1, OverMemoryEnd
  <2>6. Y # 6 => Apart
    BY <2>3, <2>4, KeptByEnd DEF Apart
  <2>7. Z \in 4..6
    BY <1>10, SMT DEF IncDecByte
  <2> QED BY <2>5, <2>6, <2>7
<1>11. ASSUME LdByteImm PROVE Z \in 4..6 /\ IF Y = 6 THEN OverMemory ELSE Apart
  <2>1. ASSUME Y = 6 PROVE OverMemory
    <3>1. Kept(Ahead(AtHlPtr, 1), {"HL"})
      BY Prefixed, AtHlPtrKept, KeptByAhead
    <3>2. Quiet(Ahead(AtHlPtr, 1), Poke(HlPtr, Peek(AtHlPtr.PC)))
      BY <1>11, <2>1 DEF LdByteImm
    <3> QED BY <3>1, <3>2, OverMemoryEnd
  <2>2. ASSUME Y # 6 PROVE Apart
    <3>0. Kept(Ahead(regs, 1), {Index})
      BY <1>0, KeptByAhead
    <3>1. Kept(Put(Ahead(regs, 1), Reg8(Y), Imm8), {Index})
      BY <2>2, <3>0, Facts, Prefixed, KeptByPut
    <3>2. Quiet(Put(Ahead(regs, 1), Reg8(Y), Imm8), mem)
      BY <1>11, <2>2 DEF LdByteImm
    <3> QED BY <3>1, <3>2, KeptByEnd DEF Apart
  <2>3. Z \in 4..6
    BY <1>11, SMT DEF LdByteImm
  <2> QED BY <2>1, <2>2, <2>3
<1>12. ASSUME Accumulator PROVE Apart /\ Z = 7
  <2>1. PICK res : res.v \in Byte /\ Flagged(WithFlags(Put(regs, RegA, res.v), res.f), mem)
    BY <1>12, AccumulatorByte DEF WithResult
  <2>2. Kept(Put(regs, RegA, res.v), {Index})
    BY <1>0, <2>1, Prefixed, KeptByPut
  <2> QED BY <1>12, <2>1, <2>2, KeptByEnd DEF Apart, Accumulator
<1>13. 0 \notin 4..6 /\ 1 \notin 4..6 /\ 2 \notin 4..6 /\ 3 \notin 4..6 /\ 7 \notin 4..6
  BY SMT
<1> DEFINE Touches == Y = 6 /\ Z \in 4..6
<1>14. (Touches => OverMemory) /\ (~Touches => Apart)
  BY <1>1, <1>2, <1>3, <1>4, <1>5, <1>6, <1>7, <1>8, <1>9, <1>10, <1>11, <1>12, <1>13 DEF Quadrant0
<1> QED BY <1>14

(* The eight operations only set A and F.                                  *)
LEMMA AluWithKept ==
    ASSUME IInv, mod # "NONE", NEW s, NEW r, Kept(r, s), NEW n \in Byte, AluWith(r, n)
    PROVE  (\A k \in IndexNames \ s : regs'[k] = regs[k]) /\ mem' = mem
<1>1. Alu(Y, A, n, F).v \in Byte
  BY Facts, AluByte
<1>2. RegA[1] \in Pairs /\ RegA[1] \notin IndexNames
  BY Prefixed
<1>3. Kept(Put(r, RegA, Alu(Y, A, n, F).v), s)
  BY <1>1, <1>2, KeptByPut
<1>4. Flagged(WithFlags(Put(r, RegA, Alu(Y, A, n, F).v), Alu(Y, A, n, F).f), mem)
  BY DEF AluWith, WithResult
<1> QED BY <1>3, <1>4, KeptByEnd

(* Quadrants 1 and 2 behind a prefix.                                      *)
LEMMA Quadrant12Apart ==
    ASSUME IInv, subset = "NONE", mod # "NONE", Quadrant12
    PROVE  LET touches == (X = 1 /\ (Y = 6) # (Z = 6)) \/ (X = 2 /\ Z = 6)
           IN  (touches => OverMemory) /\ (~touches => Apart)
<1> DEFINE touches == (X = 1 /\ (Y = 6) # (Z = 6)) \/ (X = 2 /\ Z = 6)
<1>0. Kept(regs, {Index}) /\ Kept(AtHlPtr, {"HL"}) /\ RegisterFile(regs)
  BY Prefixed, AtHlPtrKept, Facts
<1>1. ~Halt
  BY DEF Halt
<1>2. ASSUME PrefixedHalt PROVE ~touches /\ Apart
  BY <1>0, <1>2, KeptByEnd DEF PrefixedHalt, Main, Apart
<1>3. ASSUME LdReg PROVE ~touches /\ Apart
  <2>1. Get(Reg8(Z)) \in Byte
    BY <1>0, <1>3, Facts, Gotten DEF LdReg
  <2>2. Kept(Put(regs, Reg8(Y), Get(Reg8(Z))), {Index})
    BY <1>0, <1>3, <2>1, Facts, Prefixed, KeptByPut DEF LdReg
  <2> QED BY <1>3, <2>2, KeptByEnd DEF LdReg, Main, Apart
<1>4. ASSUME LdRegMem PROVE touches /\ OverMemory
  <2>1. Kept(Put(AtHlPtr, Reg8NoMod(Y), Peek(HlPtr)), {"HL"})
    BY <1>0, <1>4, Facts, Prefixed, KeptByPut DEF LdRegMem
  <2>2. (\A k \in IndexNames \ {"HL"} : regs'[k] = regs[k]) /\ mem' = mem
    BY <1>4, <2>1, KeptByEnd DEF LdRegMem
  <2> QED BY <1>4, <2>2 DEF LdRegMem, Main, OverMemory, IndexNames
<1>5. ASSUME LdMemReg PROVE touches /\ OverMemory
  BY <1>0, <1>5, OverMemoryEnd DEF LdMemReg, Main
<1>6. ASSUME AluReg PROVE ~touches /\ Apart
  <2>1. Get(Reg8(Z)) \in Byte
    BY <1>0, <1>6, Facts, Gotten DEF AluReg
  <2>2. \A k \in IndexNames \ {Index} : regs'[k] = regs[k]
    BY <1>0, <1>6, <2>1, AluWithKept DEF AluReg
  <2>3. X = 2 /\ Z # 6
    BY <1>6 DEF AluReg, Main
  <2>4. ~touches
    BY <2>3, SMT
  <2> QED BY <2>2, <2>4 DEF Apart
<1>7. ASSUME AluMem PROVE touches /\ OverMemory
  <2>1. (\A k \in IndexNames \ {"HL"} : regs'[k] = regs[k]) /\ mem' = mem
    BY <1>0, <1>7, Facts, AluWithKept DEF AluMem
  <2> QED BY <1>7, <2>1 DEF AluMem, Main, OverMemory, IndexNames
<1> QED BY <1>1, <1>2, <1>3, <1>4, <1>5, <1>6, <1>7 DEF Quadrant12

(* Quadrant 3 behind a prefix: EXX and EX DE, HL are the two that ignore   *)
(* it and exchange HL.                                                     *)
LEMMA Quadrant3Apart ==
    ASSUME IInv, subset = "NONE", mod # "NONE", Quadrant3
    PROVE  /\ regs'[IF mod = "DD" THEN "IY" ELSE "IX"] = regs[IF mod = "DD" THEN "IY" ELSE "IX"]
           /\ regs.instr \in {217, 235} \/ Apart
<1> DEFINE other == IF mod = "DD" THEN "IY" ELSE "IX"
<1>0. RegisterFile(regs) /\ Kept(regs, {Index})
  BY Facts, Prefixed
<1>o. other \in IndexNames \ {Index}
  BY DEF IInv, TypeOK, Index, IndexNames
<1>k. \A k \in IndexNames \ {Index} :
        /\ k \in DOMAIN regs
        /\ k # "AF" /\ k # "Q" /\ k # "PC" /\ k # "MEMPTR" /\ k # "SP" /\ k # Index /\ k # "iff1" /\ k # "iff2"
  BY <1>0, SMT DEF IndexNames, RegisterFile, Names, Pairs
<1>e. ASSUME NEW r, NEW m, Quiet(r, m) PROVE regs' = [r EXCEPT !.Q = 0]
  BY <1>e DEF Quiet, Flagged, Retire
<1>1. ASSUME RetCc \/ Ret PROVE Apart
  BY <1>1, <1>k DEF RetCc, Ret, Return, Popped, Quiet, Flagged, Retire, Apart
<1>2. ASSUME Pop PROVE Apart
  <2> DEFINE n == Reg16Alt(Y \div 2)
  <2>1. n \in IndexNames => n = Index
    BY Facts, Prefixed
  <2>2. regs' = [[regs EXCEPT ![n] = PeekWord(regs.SP), !.SP = Word16(@ + 2)] EXCEPT !.Q = 0]
    BY <1>2 DEF Pop, Quiet, Flagged, Retire
  <2> HIDE DEF n
  <2> QED BY <1>k, <2>1, <2>2 DEF Apart
<1>3. ASSUME Push PROVE Apart
  BY <1>3, <1>k DEF Push, Quiet, Flagged, Retire, Apart
<1>4. ASSUME Exx \/ ExDeHl PROVE regs.instr \in {217, 235} /\ regs'[other] = regs[other]
  <2>1. regs.instr \in Byte /\ ((X = 3 /\ Z = 1 /\ Y = 3) \/ (X = 3 /\ Z = 3 /\ Y = 5))
    BY <1>0, <1>4 DEF Exx, ExDeHl, Main, RegisterFile
  <2>2. regs.instr \in {217, 235}
    BY <2>1, SMT DEF X, Y, Z, Byte
  <2>3. \A k \in {"IX", "IY"} : /\ k \in DOMAIN regs
        /\ k # "DE" /\ k # "HL" /\ k # "BC" /\ k # "DEs" /\ k # "BCs" /\ k # "HLs" /\ k # "Q"
    BY <1>0, SMT DEF RegisterFile, Names, Pairs
  <2>4. \A k \in {"IX", "IY"} : regs'[k] = regs[k]
    BY <1>4, <2>3 DEF Exx, ExDeHl, Quiet, Flagged, Retire
  <2> QED BY <2>2, <2>4
<1>5. ASSUME JpHl \/ LdSpHl \/ Jp PROVE Apart
  BY <1>5, <1>k DEF JpHl, LdSpHl, Jp, Ahead, Quiet, Flagged, Retire, Apart
<1>6. ASSUME OutA PROVE Apart
  BY <1>6, <1>k DEF OutA, Ahead, Transfer, Retire, Apart
<1>7. ASSUME InA PROVE Apart
  <2> DEFINE w == Word16(WordOf(A, Imm8) + 1)
  <2>1. PICK v \in BusBytes : regs' = [Put(Ahead(regs, 1), RegA, v) EXCEPT !.MEMPTR = w, !.Q = 0]
    BY <1>7 DEF InA, Transfer, Retire
  <2>2. Kept(Put(Ahead(regs, 1), RegA, v), {Index})
    BY <1>0, BusBytesTyped, Prefixed, KeptByAhead, KeptByPut
  <2>3. \A k \in IndexNames \ {Index} : k \in DOMAIN Put(Ahead(regs, 1), RegA, v)
    BY <2>2, SMT DEF Kept, IndexNames, RegisterFile, Names, Pairs
  <2> HIDE DEF w
  <2> QED BY <1>k, <2>1, <2>2, <2>3 DEF Kept, Apart
<1>8. ASSUME ExSpHl PROVE Apart
  BY <1>8, <1>k DEF ExSpHl, Quiet, Flagged, Retire, Apart
<1>9. ASSUME Di \/ Ei PROVE Apart
  BY <1>9, <1>k DEF Di, Ei, Quiet, Flagged, Retire, Apart
<1>10. ASSUME Call \/ Rst PROVE Apart
  BY <1>10, <1>k DEF Call, Rst, Ahead, Quiet, Flagged, Retire, Apart
<1>11. ASSUME AluImm PROVE Apart
  <2>1. Kept(Ahead(regs, 1), {Index})
    BY <1>0, KeptByAhead
  <2> QED BY <1>11, <2>1, Facts, AluWithKept DEF AluImm, Apart
<1>12. Apart => regs'[other] = regs[other]
  BY <1>o DEF Apart
<1> QED BY <1>1, <1>2, <1>3, <1>4, <1>5, <1>6, <1>7, <1>8, <1>9, <1>10, <1>11, <1>12 DEF Quadrant3

(* DD CB d op leaves the index registers and writes at IX + d only.        *)
LEMMA SubsetCBApart ==
    ASSUME IInv, subset = "CB", mod # "NONE", stage = "start", SubsetCB
    PROVE  /\ \A k \in {"IX", "IY"} : regs'[k] = regs[k]
           /\ \A a \in DOMAIN mem : mem'[a] # mem[a] => a = Word16(regs.MEMPTR)
<1>0. Kept(regs, {"HL"})
  BY Prefixed
<1>1. ASSUME NEW v \in Byte PROVE Kept(CbRegs(v), {"HL"}) /\ CbMem(v) = Poke(regs.MEMPTR, v)
  <2>1. Kept(CbRegs(v), {"HL"})
    BY <1>0, Facts, Prefixed, KeptByPut DEF CbRegs
  <2> QED BY <2>1 DEF CbMem, InMemory, CbPtr
<1>2. ASSUME NEW r, NEW v, Kept(r, {"HL"}),
             \/ Quiet(r, Poke(regs.MEMPTR, v)) \/ Quiet(r, mem)
             \/ \E f : Flagged(WithFlags(r, f), Poke(regs.MEMPTR, v)) \/ Flagged(WithFlags(r, f), mem)
      PROVE  /\ \A k \in {"IX", "IY"} : regs'[k] = regs[k]
             /\ \A a \in DOMAIN mem : mem'[a] # mem[a] => a = Word16(regs.MEMPTR)
  <2>1. (\A k \in IndexNames \ {"HL"} : regs'[k] = regs[k]) /\ mem' \in {Poke(regs.MEMPTR, v), mem}
    BY <1>2, KeptByEnd
  <2>2. {"IX", "IY"} \subseteq IndexNames \ {"HL"}
    BY DEF IndexNames
  <2> QED BY <2>1, <2>2, PokedAt
<1>3. CASE ShiftRotate
  <2> DEFINE res == ShiftRot(Y, CbOperand, F)
  <2>1. res.v \in Byte
    BY Facts, CbFile, NumOfByte, ShiftedByte, CarryIs DEF ShiftRot, Result
  <2>2. Flagged(WithFlags(CbRegs(res.v), res.f), CbMem(res.v))
    BY <1>3 DEF ShiftRotate
  <2> HIDE DEF res
  <2> QED BY <1>1, <1>2, <2>1, <2>2
<1>4. CASE BitTest
  BY <1>0, <1>2, <1>4 DEF BitTest
<1>5. CASE Res \/ Set
  <2>1. ResBit(Y, CbOperand) \in Byte /\ SetBit(Y, CbOperand) \in Byte
    BY NumOfByte DEF ResBit, SetBit
  <2>2. PICK v \in Byte : Quiet(CbRegs(v), CbMem(v))
    BY <1>5, <2>1 DEF Res, Set
  <2> QED BY <1>1, <1>2, <2>2
<1> QED BY <1>3, <1>4, <1>5 DEF SubsetCB

(* A word cast twice.                                                      *)
LEMMA WordWraps == ASSUME NEW n \in Int PROVE Word16(Word16(n)) = Word16(n)
BY SMT DEF Word16

(* A DD or FD instruction leaves the other index registers, and one with a *)
(* memory operand leaves its own and writes at its displaced address only. *)
THEOREM ExecIndexedApart == Spec => IndexedApart
<1>1. ASSUME IInv, Next PROVE ApartStep
  <2> SUFFICES ASSUME mod # "NONE", Executing("NONE") \/ Executing("CB") PROVE ApartStep
    BY DEF ApartStep
  <2> DEFINE other == IF mod = "DD" THEN "IY" ELSE "IX"
             at    == Word16(regs[Index] + Signed(Displacement))
  <2>0. other \in IndexNames \ {Index} /\ "HL" \in IndexNames \ {Index} /\ Index \in {"IX", "IY"}
        /\ other \in {"IX", "IY"}
    BY <1>1 DEF IInv, TypeOK, Index, IndexNames
  <2>1. Word16(at) = at
    <3>1. Displacement \in Byte /\ regs[Index] \in Word
      BY <1>1, Facts DEF Displacement
    <3>2. regs[Index] + Signed(Displacement) \in Int
      BY <3>1, SignedInt, SMT DEF Word
    <3> QED BY <3>2, WordWraps
  <2>2. ASSUME OverMemory, subset = "NONE", Indexed PROVE ApartStep
    <3>1. HlPtr = at
      BY <2>2 DEF HlPtr, Displacement, Imm8
    <3> QED BY <2>0, <2>1, <2>2, <3>1 DEF OverMemory, ApartStep
  <2>3. ASSUME Apart, ~Indexed PROVE ApartStep
    BY <2>0, <2>3 DEF Apart, ApartStep
  <2>4. CASE Executing("NONE")
    <3>0. subset = "NONE"
      BY <2>4 DEF Executing
    <3>x. X \in 0..3 /\ Y \in 0..7 /\ Z \in 0..7
      BY <1>1, Facts
    <3>1. CASE X = 0
      <4>1. Quadrant0
        BY <1>1, <2>4, <3>1, MainActs
      <4>2. Indexed <=> Y = 6 /\ Z \in 4..6
        BY <3>0, <3>1 DEF Indexed
      <4> QED BY <1>1, <2>2, <2>3, <3>0, <4>1, <4>2, Quadrant0Apart
    <3>2. CASE X = 1 \/ X = 2
      <4>1. Quadrant12
        BY <1>1, <2>4, <3>2, MainActs
      <4>2. Indexed <=> (X = 1 /\ (Y = 6) # (Z = 6)) \/ (X = 2 /\ Z = 6)
        BY <3>0, <3>2, SMT DEF Indexed
      <4> QED BY <1>1, <2>2, <2>3, <3>0, <4>1, <4>2, Quadrant12Apart
    <3>3. CASE X = 3
      <4>1. Quadrant3
        BY <1>1, <2>4, <3>3, MainActs
      <4>2. ~Indexed
        BY <3>0, <3>3, SMT DEF Indexed
      <4>3. regs'[other] = regs[other] /\ (regs.instr \in {217, 235} \/ Apart)
        BY <1>1, <3>0, <4>1, Quadrant3Apart
      <4> QED BY <2>0, <4>2, <4>3 DEF Apart, ApartStep
    <3> QED BY <3>1, <3>2, <3>3, <3>x, SMT
  <2>5. CASE Executing("CB")
    <3>1. SubsetCB /\ subset = "CB" /\ stage = "start"
      BY <1>1, <2>5, PrefixedActs DEF Executing
    <3>2. regs.MEMPTR = at
      BY <1>1, <3>1 DEF IInv, DisplacedAt, Displacement
    <3>3. Indexed
      BY <3>1 DEF Indexed
    <3>4. /\ \A k \in {"IX", "IY"} : regs'[k] = regs[k]
          /\ \A a \in DOMAIN mem : mem'[a] # mem[a] => a = Word16(regs.MEMPTR)
      BY <1>1, <3>1, SubsetCBApart
    <3> QED BY <2>0, <2>1, <3>2, <3>3, <3>4 DEF ApartStep
  <2> QED BY <2>4, <2>5
<1>2. IInv /\ [Next]_vars => [ApartStep]_vars
  BY <1>1
<1> QED BY <1>2, ExecInductive, PTL DEF Spec, IndexedApart

-----------------------------------------------------------------------------
(* Instructions and their inverses.                                        *)

(* A program is known by its first bytes.                                  *)
Begins(s) == \A i \in 1..Len(s) : Op(i - 1) = s[i]
Cancels == \E s \in Inverses : Begins(s)

(* Both instructions have the same prefix, or none.                        *)
Wide == Op(0) \in PrefixBytes
Size == IF Wide THEN 2 ELSE 1
First == IF Wide THEN Op(1) ELSE Op(0)

(* The pair of registers pushed or exchanged, and the cells in use.        *)
Held == CASE First = 245 -> "AF" [] First = 197 -> "BC" [] Op(0) = 221 -> "IX" [] Op(0) = 253 -> "IY" [] OTHER -> "HL"
Touched == CellsUsed(First, load.regs)

Room ==
    /\ Word16(Start + 2 * Size) \notin DOMAIN load.mem
    /\ Touched \subseteq DOMAIN load.mem
    /\ \A i \in 0..2 * Size - 1 : Word16(Start + i) \notin Touched

-----------------------------------------------------------------------------
(* What has been done.                                                     *)

(* All pairs but these are as they were loaded.                            *)
Alike(ns) == \A n \in Pairs \ (ns \cup {"PC", "IR"}) : regs[n] = load.regs[n]

SameA == A = Hi(load.regs.AF)

(* The second instruction finds what the first has left.                   *)
Pushed ==
    /\ Alike({"SP"}) /\ regs.SP = Word16(load.regs.SP - 2)
    /\ mem[Word16(load.regs.SP - 1)] = Hi(load.regs[Held])
    /\ mem[Word16(load.regs.SP - 2)] = Lo(load.regs[Held])

Swapped ==
    LET sp == load.regs.SP
    IN  /\ Alike({Held})
        /\ load.mem[sp] \in Byte /\ load.mem[Word16(sp + 1)] \in Byte
        /\ regs[Held] = WordOf(load.mem[Word16(sp + 1)], load.mem[sp])
        /\ mem[sp] = Lo(load.regs[Held]) /\ mem[Word16(sp + 1)] = Hi(load.regs[Held])

Changed(n, m) == Alike({n, m}) /\ regs[n] = load.regs[m] /\ regs[m] = load.regs[n]

Banked ==
    /\ Alike({"BC", "DE", "HL", "BCs", "DEs", "HLs"})
    /\ \A q \in {<<"BC", "BCs">>, <<"DE", "DEs">>, <<"HL", "HLs">>} :
         regs[q[1]] = load.regs[q[2]] /\ regs[q[2]] = load.regs[q[1]]

RotatedB ==
    /\ SameA /\ Alike({"AF", "BC"}) /\ Lo(regs.BC) = Lo(load.regs.BC)
    /\ \E c \in {0, 1} : B = Shifted(0, Hi(load.regs.BC), c)

RotatedCell ==
    LET n == load.mem[load.regs.HL]
    IN  /\ SameA /\ Alike({"AF"}) /\ n \in Byte
        /\ Carry(F) = Out(2, n)
        /\ \E c \in {0, 1} : mem[load.regs.HL] = Shifted(2, n, c)

RotatedDigits(y) ==
    LET n == load.mem[load.regs.HL]
    IN  /\ Alike({"AF"}) /\ n \in Byte
        /\ DigitRotate(y, Hi(load.regs.AF), n) = [a |-> A, m |-> mem[load.regs.HL]]

Counted1 == Alike({"HL"}) /\ regs.HL = Word16(load.regs.HL + 1)

Halfway ==
    CASE First \in {197, 229, 245} -> Pushed
      [] First = 227 -> Swapped
      [] First = 8 -> Changed("AF", "AFs")
      [] First = 235 -> Changed("DE", "HL")
      [] First = 217 -> Banked
      [] First = 0 -> RotatedB
      [] First = 22 -> RotatedCell
      [] First = 111 -> RotatedDigits(5)
      [] First = 103 -> RotatedDigits(4)
      [] First = 35 -> Counted1

Back ==
    /\ SameA /\ Alike({"AF"})
    /\ \A a \in DOMAIN mem \ Stack : mem[a] = load.mem[a]

Done(h) ==
    CASE h = 0 -> Alike({}) /\ mem = load.mem
      [] h = 1 -> Halfway
      [] h = 2 -> Back

-----------------------------------------------------------------------------
(* Where the program is: behind b bytes and h instructions.                *)

(* Behind the prefix, and not.                                             *)
Inside ==
    /\ subset = CASE Op(0) = 203 -> "CB" [] Op(0) = 237 -> "ED" [] OTHER -> "NONE"
    /\ mod = CASE Op(0) = 221 -> "DD" [] Op(0) = 253 -> "FD" [] OTHER -> "NONE"
Outside == subset = "NONE" /\ mod = "NONE"

Fetching(b, h) == stage = "fetch" /\ regs.PC = Word16(Start + b) /\ Done(h)
Starting(b, h) == stage = "start" /\ regs.PC = Word16(Start + b) /\ regs.instr = Op(b - 1) /\ Done(h)

CancelPhase ==
    IF Wide
    THEN \/ Outside /\ (Fetching(0, 0) \/ Starting(1, 0) \/ Fetching(2, 1) \/ Starting(3, 1) \/ Fetching(4, 2))
         \/ Inside /\ (Fetching(1, 0) \/ Starting(2, 0) \/ Fetching(3, 1) \/ Starting(4, 1))
    ELSE Outside /\ (Fetching(0, 0) \/ Starting(1, 0) \/ Fetching(1, 1) \/ Starting(2, 1) \/ Fetching(2, 2))

Elsewhere == \A a \in DOMAIN mem \ Touched : mem[a] = load.mem[a]

CancelInv == Cancels => irq = {} /\ Room /\ Elsewhere /\ CancelPhase

-----------------------------------------------------------------------------
(* What the instructions do.                                               *)
Over == stage' = "fetch" /\ subset' = "NONE" /\ mod' = "NONE" /\ UNCHANGED <<irq, load>>

(* One that clears Q keeps the pairs it is given.                          *)
LEMMA QuietKeeps ==
    ASSUME NEW r, RegisterFile(r), NEW m, Quiet(r, m)
    PROVE  (\A n \in Pairs : regs'[n] = r[n]) /\ mem' = m /\ Over
<1>1. \A n \in Pairs : n \in DOMAIN r /\ n # "Q"
  BY SMT DEF RegisterFile, Names, Pairs
<1>2. regs' = [r EXCEPT !.Q = 0]
  BY DEF Quiet, Flagged, Retire
<1> QED BY <1>1, <1>2 DEF Quiet, Flagged, Retire, Over

(* The pair an opcode of PUSH or POP names.                                *)
Named16(op) == CASE op > 239 -> "AF" [] op < 200 -> "BC" [] OTHER -> Index

(* PUSH.                                                                   *)
LEMMA PushIs ==
    ASSUME IInv, Next, Executing("NONE"), regs.instr \in {197, 229, 245}
    PROVE  LET q == Named16(regs.instr)
           IN  /\ regs'.SP = Word16(regs.SP - 2) /\ \A n \in Pairs \ {"SP"} : regs'[n] = regs[n]
               /\ mem' = PushIn(regs.SP, regs[q]) /\ Over
<1> DEFINE q == Named16(regs.instr)
           w == Word16(regs.SP - 2)
           r == [regs EXCEPT !.SP = w]
<1>1. X = 3 /\ Z = 5 /\ Y % 2 = 0 /\ Y # 1 /\ (Y \div 2 = 3 <=> regs.instr = 245)
      /\ (Y \div 2 = 0 <=> regs.instr = 197) /\ (Y \div 2 = 2 <=> regs.instr = 229)
  BY SMT DEF X, Y, Z
<1>2. Push
  BY <1>1, MainActs, SMT DEF Quadrant3, RetCc, Ret, Pop, Exx, JpHl, LdSpHl, Jp, OutA, InA,
     ExSpHl, ExDeHl, Di, Ei, Call, Rst, AluImm, Main
<1>3. Reg16Alt(Y \div 2) = q
  BY <1>1, SMT DEF Reg16Alt, Named16
<1>4. RegisterFile(regs) /\ regs.SP \in Word
  BY Facts DEF Pairs
<1>5. w \in Word
  BY <1>4, Neighbours
<1>6. RegisterFile(r)
  BY <1>4, <1>5, SetWord DEF Pairs
<1>7. Quiet(r, PushIn(regs.SP, regs[q]))
  BY <1>2, <1>3 DEF Push
<1> HIDE DEF w, q
<1>8. r.SP = w /\ \A n \in Pairs \ {"SP"} : r[n] = regs[n]
  BY <1>4, SMT DEF RegisterFile, Names, Pairs
<1> HIDE DEF r
<1>9. (\A n \in Pairs : regs'[n] = r[n]) /\ mem' = PushIn(regs.SP, regs[q]) /\ Over
  BY <1>6, <1>7, QuietKeeps
<1> QED BY <1>8, <1>9 DEF w, q, Pairs

(* POP.                                                                    *)
LEMMA PopIs ==
    ASSUME IInv, Next, Executing("NONE"), regs.instr \in {193, 225, 241}
    PROVE  LET q == Named16(regs.instr)
           IN  /\ q \in Pairs \ {"SP"} /\ regs'[q] = PeekWord(regs.SP) /\ regs'.SP = Word16(regs.SP + 2)
               /\ \A n \in Pairs \ {q, "SP"} : regs'[n] = regs[n]
               /\ mem' = mem /\ Over
<1> DEFINE q == Named16(regs.instr)
           w == Word16(regs.SP + 2)
           v == PeekWord(regs.SP)
           s == [regs EXCEPT ![q] = v]
           r == [regs EXCEPT ![q] = v, !.SP = w]
<1>1. X = 3 /\ Z = 1 /\ Y % 2 = 0 /\ (Y \div 2 = 3 <=> regs.instr = 241)
      /\ (Y \div 2 = 0 <=> regs.instr = 193) /\ (Y \div 2 = 2 <=> regs.instr = 225)
  BY SMT DEF X, Y, Z
<1>2. Pop
  BY <1>1, MainActs, SMT DEF Quadrant3, RetCc, Ret, Push, Exx, JpHl, LdSpHl, Jp, OutA, InA,
     ExSpHl, ExDeHl, Di, Ei, Call, Rst, AluImm, Main
<1>3. Reg16Alt(Y \div 2) = q
  BY <1>1, SMT DEF Reg16Alt, Named16
<1>4. RegisterFile(regs) /\ regs.SP \in Word /\ v \in Word /\ Index \in {"HL", "IX", "IY"}
  BY Facts DEF Pairs
<1>5. w \in Word /\ q \in Pairs \ {"SP"}
  BY <1>4, Neighbours DEF Named16, Pairs
<1>6. Quiet([regs EXCEPT ![q] = v, !.SP = Word16(@ + 2)], mem)
  BY <1>2, <1>3 DEF Pop
<1> HIDE DEF q, v
<1>7. s.SP = regs.SP /\ s[q] = v /\ RegisterFile(s) /\ \A n \in Pairs \ {q} : s[n] = regs[n]
  <2>1. RegisterFile(s)
    BY <1>4, <1>5, SetWord
  <2>2. DOMAIN regs = Names /\ \A n \in Pairs : n \in Names
    BY <1>4, SMT DEF RegisterFile, Names
  <2> QED BY <1>5, <2>1, <2>2 DEF Pairs
<1>8. [regs EXCEPT ![q] = v, !.SP = Word16(@ + 2)] = [s EXCEPT !.SP = w]
  BY <1>7
<1> HIDE DEF w, s
<1> DEFINE t == [s EXCEPT !.SP = w]
<1>9. RegisterFile(t)
  BY <1>5, <1>7, SetWord DEF Pairs
<1>10. t.SP = w /\ \A n \in Pairs \ {"SP"} : t[n] = s[n]
  BY <1>7, SMT DEF RegisterFile, Names, Pairs
<1>11. Quiet(t, mem)
  BY <1>6, <1>8
<1> HIDE DEF t
<1>12. (\A n \in Pairs : regs'[n] = t[n]) /\ mem' = mem /\ Over
  BY <1>9, <1>11, QuietKeeps
<1> QED BY <1>5, <1>7, <1>10, <1>12 DEF w, q, v, Pairs

(* EX (SP),HL.                                                             *)
LEMMA ExSpIs ==
    ASSUME IInv, Next, Executing("NONE"), regs.instr = 227
    PROVE  /\ regs'[Index] = PeekWord(regs.SP)
           /\ \A n \in Pairs \ {Index} : regs'[n] = regs[n]
           /\ mem' = PushIn(regs.SP + 2, regs[Index]) /\ Over
<1> DEFINE v == PeekWord(regs.SP)
           m == PushIn(regs.SP + 2, regs[Index])
           s == [regs EXCEPT ![Index] = v]
           r == [s EXCEPT !.MEMPTR = v]
<1>1. X = 3 /\ Z = 3 /\ Y = 4
  BY SMT DEF X, Y, Z
<1>2. ExSpHl
  BY <1>1, MainActs, SMT DEF Quadrant3, RetCc, Ret, Pop, Push, Exx, JpHl, LdSpHl, Jp, OutA, InA,
     ExDeHl, Di, Ei, Call, Rst, AluImm, Main
<1>3. Quiet(r, m)
  BY <1>2 DEF ExSpHl
<1>4. RegisterFile(regs) /\ v \in Word /\ Index \in Pairs
  BY Facts
<1> HIDE DEF v, m
<1>5. RegisterFile(s) /\ s[Index] = v /\ \A n \in Pairs \ {Index} : s[n] = regs[n]
  <2>1. RegisterFile(s)
    BY <1>4, SetWord
  <2>2. \A n \in Pairs : n \in DOMAIN regs
    BY <1>4, SMT DEF RegisterFile, Names
  <2> QED BY <1>4, <2>1, <2>2
<1> HIDE DEF s
<1>6. RegisterFile(r)
  BY <1>4, <1>5, SetWord
<1>7. \A n \in Pairs : r[n] = s[n]
  BY <1>5, SMT DEF RegisterFile, Names, Pairs
<1> HIDE DEF r
<1>8. (\A n \in Pairs : regs'[n] = r[n]) /\ mem' = m /\ Over
  BY <1>3, <1>6, QuietKeeps
<1> QED BY <1>4, <1>5, <1>7, <1>8 DEF v, m

(* EX AF,AF' and EX DE,HL.                                                 *)
LEMMA ExchangeIs ==
    ASSUME IInv, Next, Executing("NONE"), NEW n, NEW m,
           \/ regs.instr = 8 /\ n = "AF" /\ m = "AFs"
           \/ regs.instr = 235 /\ n = "DE" /\ m = "HL"
    PROVE  /\ regs'[n] = regs[m] /\ regs'[m] = regs[n]
           /\ \A k \in Pairs \ {n, m} : regs'[k] = regs[k]
           /\ mem' = mem /\ Over
<1> DEFINE s == [regs EXCEPT ![n] = regs[m]]
           r == [s EXCEPT ![m] = regs[n]]
<1>1. Quiet([regs EXCEPT ![n] = regs[m], ![m] = regs[n]], mem)
  <2>1. CASE regs.instr = 8
    <3>1. X = 0 /\ Z = 0 /\ Y = 1
      BY <2>1, SMT DEF X, Y, Z
    <3>2. ExAf
      BY <3>1, MainActs, SMT DEF Quadrant0, Nop, Djnz, Jr, LdWordImm, AddHl, LdA, LdWordAt,
         IncDecWord, IncDecByte, LdByteImm, Accumulator, Main
    <3>3. n = "AF" /\ m = "AFs"
      BY <2>1, SMT
    <3> QED BY <3>2, <3>3 DEF ExAf
  <2>2. CASE regs.instr = 235
    <3>1. X = 3 /\ Z = 3 /\ Y = 5
      BY <2>2, SMT DEF X, Y, Z
    <3>2. ExDeHl
      BY <3>1, MainActs, SMT DEF Quadrant3, RetCc, Ret, Pop, Push, Exx, JpHl, LdSpHl, Jp, OutA, InA,
         ExSpHl, Di, Ei, Call, Rst, AluImm, Main
    <3>3. n = "DE" /\ m = "HL"
      BY <2>2, SMT
    <3> QED BY <3>2, <3>3 DEF ExDeHl
  <2> QED BY <2>1, <2>2
<1>2. RegisterFile(regs) /\ n \in Pairs /\ m \in Pairs /\ n # m
  BY Facts DEF Pairs
<1>3. regs[n] \in Word /\ regs[m] \in Word /\ \A k \in Pairs : k \in DOMAIN regs
  BY <1>2, Values, SMT DEF RegisterFile, Names
<1>4. RegisterFile(s) /\ s[n] = regs[m] /\ \A k \in Pairs \ {n} : s[k] = regs[k]
  BY <1>2, <1>3, SetWord
<1>5. RegisterFile(r)
  <2> HIDE DEF s
  <2> QED BY <1>2, <1>3, <1>4, SetWord
<1>6. r[m] = regs[n] /\ \A k \in Pairs \ {m} : r[k] = s[k]
  <2>1. \A k \in Pairs : k \in DOMAIN s
    BY <1>3
  <2> QED BY <1>2, <2>1
<1>7. (\A k \in Pairs : regs'[k] = r[k]) /\ mem' = mem /\ Over
  BY <1>1, <1>5, QuietKeeps
<1> HIDE DEF r, s
<1> QED BY <1>2, <1>4, <1>6, <1>7

(* EXX.                                                                    *)
LEMMA ExxIs ==
    ASSUME IInv, Next, Executing("NONE"), regs.instr = 217
    PROVE  /\ \A q \in {<<"BC", "BCs">>, <<"DE", "DEs">>, <<"HL", "HLs">>} :
                regs'[q[1]] = regs[q[2]] /\ regs'[q[2]] = regs[q[1]]
           /\ \A n \in Pairs \ {"BC", "DE", "HL", "BCs", "DEs", "HLs"} : regs'[n] = regs[n]
           /\ mem' = mem /\ Over
<1> DEFINE r == [regs EXCEPT !.BC = regs.BCs, !.DE = regs.DEs, !.HL = regs.HLs,
                             !.BCs = regs.BC, !.DEs = regs.DE, !.HLs = regs.HL]
<1>1. X = 3 /\ Z = 1 /\ Y = 3
  BY SMT DEF X, Y, Z
<1>2. Exx
  BY <1>1, MainActs, SMT DEF Quadrant3, RetCc, Ret, Pop, Push, JpHl, LdSpHl, Jp, OutA, InA,
     ExSpHl, ExDeHl, Di, Ei, Call, Rst, AluImm, Main
<1>3. Quiet(r, mem)
  BY <1>2 DEF Exx
<1>4. RegisterFile(regs)
  BY Facts
<1>5. /\ r.BC = regs.BCs /\ r.DE = regs.DEs /\ r.HL = regs.HLs
      /\ r.BCs = regs.BC /\ r.DEs = regs.DE /\ r.HLs = regs.HL
      /\ \A n \in Names \ {"BC", "DE", "HL", "BCs", "DEs", "HLs"} : r[n] = regs[n]
      /\ DOMAIN r = Names
  <2> DEFINE six == {"BC", "DE", "HL", "BCs", "DEs", "HLs"}
  <2>1. DOMAIN regs = Names /\ six \subseteq Names
    BY <1>4, SMT DEF RegisterFile, Names, Pairs
  <2>2. DOMAIN r = Names /\ \A n \in Names \ six : r[n] = regs[n]
    BY <2>1
  <2>3. /\ r.BC = regs.BCs /\ r.DE = regs.DEs /\ r.HL = regs.HLs
        /\ r.BCs = regs.BC /\ r.DEs = regs.DE /\ r.HLs = regs.HL
    BY <2>1
  <2> QED BY <2>2, <2>3
<1>6. RegisterFile(r)
  <2>1. \A n \in Pairs \cup {"MEMPTR"} : r[n] \in Word
    <3>1. \A n \in Pairs \cup {"MEMPTR"} : regs[n] \in Word /\ n \in Names
      BY <1>4 DEF RegisterFile, Names
    <3> HIDE DEF r
    <3> QED BY <1>5, <3>1 DEF Pairs
  <2>2. /\ r.Q = regs.Q /\ r.instr = regs.instr /\ r.iff1 = regs.iff1 /\ r.iff2 = regs.iff2
        /\ r.int_mode = regs.int_mode
    <3> HIDE DEF r
    <3> QED BY <1>5, SMT DEF Names
  <2> HIDE DEF r
  <2> QED BY <1>4, <1>5, <2>1, <2>2 DEF RegisterFile
<1> HIDE DEF r
<1>7. (\A n \in Pairs : regs'[n] = r[n]) /\ mem' = mem /\ Over
  BY <1>3, <1>6, QuietKeeps
<1>8. \A n \in Pairs \ {"BC", "DE", "HL", "BCs", "DEs", "HLs"} : regs'[n] = regs[n]
  BY <1>5, <1>7 DEF Names
<1>9. /\ regs'.BC = regs.BCs /\ regs'.DE = regs.DEs /\ regs'.HL = regs.HLs
      /\ regs'.BCs = regs.BC /\ regs'.DEs = regs.DE /\ regs'.HLs = regs.HL
  BY <1>5, <1>7 DEF Pairs
<1>10. \A q \in {<<"BC", "BCs">>, <<"DE", "DEs">>, <<"HL", "HLs">>} :
         regs'[q[1]] = regs[q[2]] /\ regs'[q[2]] = regs[q[1]]
  BY <1>9
<1> QED BY <1>7, <1>8, <1>10

(* INC HL and DEC HL.                                                      *)
LEMMA CountIs ==
    ASSUME IInv, Next, Executing("NONE"), mod = "NONE", regs.instr \in {35, 43}
    PROVE  /\ regs'.HL = Word16(IF regs.instr = 43 THEN regs.HL - 1 ELSE regs.HL + 1)
           /\ \A n \in Pairs \ {"HL"} : regs'[n] = regs[n]
           /\ mem' = mem /\ Over
<1> DEFINE w == Word16(IF regs.instr = 43 THEN regs.HL - 1 ELSE regs.HL + 1)
           r == [regs EXCEPT !["HL"] = w]
<1>1. X = 0 /\ Z = 3 /\ Y \div 2 = 2 /\ (Y % 2 = 1 <=> regs.instr = 43)
  BY SMT DEF X, Y, Z
<1>2. IncDecWord
  BY <1>1, MainActs, SMT DEF Executing, Quadrant0, Nop, ExAf, Djnz, Jr, LdWordImm, AddHl, LdA, LdWordAt,
     IncDecByte, LdByteImm, Accumulator, Main
<1>3. Reg16(Y \div 2) = "HL"
  BY <1>1, SMT DEF Reg16, Index
<1>4. Quiet(r, mem)
  BY <1>1, <1>2, <1>3 DEF IncDecWord
<1>5. RegisterFile(regs) /\ w \in Word
  BY Facts, Neighbours DEF Pairs
<1> HIDE DEF w
<1>6. RegisterFile(r) /\ r.HL = w /\ \A n \in Pairs \ {"HL"} : r[n] = regs[n]
  <2>1. RegisterFile(r)
    BY <1>5, SetWord DEF Pairs
  <2> QED BY <1>5, <2>1, SMT DEF RegisterFile, Names, Pairs
<1> HIDE DEF r
<1>7. (\A n \in Pairs : regs'[n] = r[n]) /\ mem' = mem /\ Over
  BY <1>4, <1>6, QuietKeeps
<1> QED BY <1>6, <1>7 DEF w, Pairs

(* A rotation of B or of (HL).                                             *)
LEMMA RotationIs ==
    ASSUME IInv, Next, Executing("CB"), mod = "NONE", regs.instr \in {0, 8, 22, 30}
    PROVE  LET y == regs.instr \div 8
               res == ShiftRot(y, CbOperand, F)
           IN  /\ y \in {0, 1, 2, 3} /\ (y < 2 => Z = 0) /\ (~(y < 2) => Z = 6)
               /\ res.v = Shifted(y, CbOperand, Carry(F)) /\ res.v \in Byte /\ CbOperand \in Byte
               /\ Carry(AfterF) = Out(y, CbOperand) /\ A' = Hi(CbRegs(res.v).AF)
               /\ \A n \in Pairs \ {"AF"} : regs'[n] = CbRegs(res.v)[n]
               /\ mem' = CbMem(res.v) /\ Over
<1> DEFINE y == regs.instr \div 8
           n == CbOperand
           res == ShiftRot(y, n, F)
<1>1. X = 0 /\ Y = y /\ y \in {0, 1, 2, 3} /\ y \in 0..7 /\ (y < 2 => Z = 0) /\ (~(y < 2) => Z = 6)
  BY SMT DEF X, Y, Z
<1>2. ShiftRotate
  BY <1>1, PrefixedActs DEF SubsetCB, BitTest, Res, Set, Cb
<1>3. n \in Byte
  BY Facts, CbFile, NumOfByte
<1>4. /\ res.v \in Byte /\ res.f \in Flags /\ res.v = Shifted(y, n, Carry(F))
      /\ FlagC \in res.f <=> Out(y, n) = 1
  BY <1>1, <1>3, ShiftRotIs
<1>5. regs' = WithFlags(CbRegs(res.v), res.f) /\ mem' = CbMem(res.v) /\ Over
  BY <1>1, <1>2 DEF ShiftRotate, Flagged, Retire, Over
<1>6. Out(y, n) \in {0, 1}
  BY <1>3, SMT DEF Out, Byte
<1> HIDE DEF y, n, res
<1>7. RegisterFile(CbRegs(res.v))
  BY <1>4, CbFile
<1>8. AfterF = res.f /\ A' = Hi(CbRegs(res.v).AF) /\ \A k \in Pairs \ {"AF"} : regs'[k] = CbRegs(res.v)[k]
  BY <1>4, <1>5, <1>7, AfterWithFlags DEF AfterF, A
<1>9. Carry(AfterF) = Out(y, n)
  BY <1>4, <1>6, <1>8 DEF Carry
<1> QED BY <1>1, <1>3, <1>4, <1>5, <1>8, <1>9 DEF y, n, res

(* RLC B and RRC B.                                                        *)
LEMMA RotateBIs ==
    ASSUME IInv, Next, Executing("CB"), mod = "NONE", regs.instr \in {0, 8}
    PROVE  /\ B' = Shifted(regs.instr \div 8, B, Carry(F)) /\ B \in Byte
           /\ Lo(regs'.BC) = Lo(regs.BC) /\ regs'.BC \in Word /\ A' = A
           /\ \A n \in Pairs \ {"AF", "BC"} : regs'[n] = regs[n]
           /\ mem' = mem /\ Over
<1> DEFINE y == regs.instr \div 8
           res == ShiftRot(y, CbOperand, F)
           v == res.v
           bc == WordOf(v, Lo(regs.BC))
<1>1. /\ y < 2 /\ Z = 0
      /\ v = Shifted(y, CbOperand, Carry(F)) /\ v \in Byte /\ CbOperand \in Byte
      /\ A' = Hi(CbRegs(v).AF)
      /\ \A n \in Pairs \ {"AF"} : regs'[n] = CbRegs(v)[n]
      /\ mem' = CbMem(v) /\ Over
  <2>1. y < 2
    BY SMT
  <2> HIDE DEF y
  <2> QED BY <2>1, RotationIs DEF y
<1> HIDE DEF y, v
<1>2. Reg8NoMod(Z) = <<"BC", "hi">>
  BY <1>1, SMT DEF Reg8NoMod
<1>3. CbOperand = B /\ CbRegs(v) = [regs EXCEPT !["BC"] = bc] /\ CbMem(v) = mem
  <2>1. Z # 6
    BY <1>1
  <2>2. \A u : Put(regs, <<"BC", "hi">>, u) = [regs EXCEPT !["BC"] = WordOf(u, Lo(regs.BC))]
    BY DEF Put
  <2>3. Get(<<"BC", "hi">>) = B
    BY DEF Get, B
  <2> QED BY <1>2, <2>1, <2>2, <2>3 DEF CbOperand, CbRegs, CbMem, InMemory
<1>4. RegisterFile(regs) /\ Lo(regs.BC) \in Byte
  BY Facts, Values DEF Pairs
<1>5. Hi(bc) = v /\ Lo(bc) = Lo(regs.BC) /\ bc \in Word
  BY <1>1, <1>4, Joined
<1> HIDE DEF bc
<1>6. CbRegs(v).BC = bc /\ \A n \in Pairs \ {"BC"} : CbRegs(v)[n] = regs[n]
  <2>1. \A n \in Pairs : n \in DOMAIN regs
    BY <1>4, SMT DEF RegisterFile, Names
  <2> QED BY <1>3, <2>1 DEF Pairs
<1>7. B' = v /\ Lo(regs'.BC) = Lo(regs.BC) /\ regs'.BC \in Word
  BY <1>1, <1>5, <1>6 DEF B, Pairs
<1>8. A' = A
  BY <1>1, <1>6 DEF A, Pairs
<1> QED BY <1>1, <1>3, <1>6, <1>7, <1>8 DEF y

(* RL (HL) and RR (HL).                                                    *)
LEMMA RotateCellIs ==
    ASSUME IInv, Next, Executing("CB"), mod = "NONE", regs.instr \in {22, 30}
    PROVE  LET y == regs.instr \div 8
               n == Peek(regs.HL)
           IN  /\ mem' = Poke(regs.HL, Shifted(y, n, Carry(F))) /\ Carry(AfterF) = Out(y, n) /\ n \in Byte
               /\ A' = A /\ (\A k \in Pairs \ {"AF"} : regs'[k] = regs[k]) /\ Over
<1> DEFINE y == regs.instr \div 8
           n == Peek(regs.HL)
           res == ShiftRot(y, CbOperand, F)
           v == res.v
<1>1. /\ Z = 6
      /\ v = Shifted(y, CbOperand, Carry(F)) /\ CbOperand \in Byte
      /\ Carry(AfterF) = Out(y, CbOperand) /\ A' = Hi(CbRegs(v).AF)
      /\ \A k \in Pairs \ {"AF"} : regs'[k] = CbRegs(v)[k]
      /\ mem' = CbMem(v) /\ Over
  <2>1. ~(y < 2)
    BY SMT
  <2> HIDE DEF y
  <2> QED BY <2>1, RotationIs DEF y
<1> HIDE DEF y, v
<1>2. CbOperand = n /\ CbRegs(v) = regs /\ CbMem(v) = Poke(regs.HL, v)
  BY <1>1 DEF CbOperand, CbRegs, CbMem, CbPtr, InMemory
<1> QED BY <1>1, <1>2 DEF y, A

(* RLD and RRD.                                                            *)
LEMMA DigitsIs ==
    ASSUME IInv, Next, Executing("ED"), regs.instr \in {103, 111}
    PROVE  LET res == DigitRotate(IF regs.instr = 111 THEN 5 ELSE 4, A, Peek(regs.HL))
           IN  /\ A' = res.a /\ mem' = Poke(regs.HL, res.m) /\ A \in Byte /\ Peek(regs.HL) \in Byte
               /\ (\A n \in Pairs \ {"AF"} : regs'[n] = regs[n]) /\ Over
<1> DEFINE y == IF regs.instr = 111 THEN 5 ELSE 4
           res == DigitRotate(y, A, Peek(regs.HL))
           w == Word16(regs.HL + 1)
           r == [regs EXCEPT !.MEMPTR = w]
           last == Result(res.a, ByteFlags(res.a, F))
<1>1. X = 1 /\ Z = 7 /\ Y = y /\ y \in {4, 5}
  BY SMT DEF X, Y, Z
<1>2. RotateDigits
  BY <1>1, PrefixedActs, SMT DEF SubsetED, LdWordAt, InC, OutC, AdcSbcHl, Neg, Retn, Im, LdIr, EdNop,
     BlockLd, BlockCp, BlockIn, BlockOut, Block, Ed, Main
<1>3. RegisterFile(regs) /\ A \in Byte /\ Peek(regs.HL) \in Byte /\ regs.HL \in Word /\ F \in Flags
  BY Facts, FlagsBefore DEF Pairs
<1>4. Flagged(WithResult(r, RegA, last), Poke(regs.HL, res.m))
  BY <1>1, <1>2 DEF RotateDigits
<1>5. res.a \in Byte
  BY <1>3, DigitBytes
<1> HIDE DEF y, res
<1>6. last.v = res.a /\ last.v \in Byte /\ last.f \in Flags
  <2>1. ZeroSign(res.a) \in Flags
    BY <1>5, ZeroSignIs
  <2>2. When(FlagPV, Parity(res.a)) \in Flags /\ F \cap {FlagC} \in Flags
    BY SMT DEF Flags, When, FlagPV, FlagC
  <2> QED BY <1>5, <2>1, <2>2 DEF Result, ByteFlags, Flags
<1>7. w \in Word
  BY <1>3, Neighbours
<1>8. RegisterFile(r) /\ \A n \in Pairs : r[n] = regs[n]
  <2>1. RegisterFile(r)
    BY <1>3, <1>7, SetWord
  <2> QED BY <1>3, <2>1, SMT DEF RegisterFile, Names, Pairs
<1>9. regs' = WithResult(r, RegA, last) /\ mem' = Poke(regs.HL, res.m) /\ Over
  BY <1>4 DEF Flagged, Retire, Over
<1> HIDE DEF r, last
<1>10. A' = last.v /\ \A n \in Pairs \ {"AF"} : regs'[n] = r[n]
  BY <1>6, <1>8, <1>9, AfterWithResult, ResultKeeps DEF AfterA, A
<1> QED BY <1>3, <1>6, <1>8, <1>9, <1>10 DEF res, y

-----------------------------------------------------------------------------
(* The first instruction of each kind leaves what the second needs, and the*)
(* second undoes it.                                                       *)

(* What a push stores, and what it leaves.                                 *)
LEMMA PushStores ==
    ASSUME NEW sp \in Int, NEW w, Word16(sp - 1) \in DOMAIN mem, Word16(sp - 2) \in DOMAIN mem
    PROVE  /\ DOMAIN PushIn(sp, w) = DOMAIN mem
           /\ PushIn(sp, w)[Word16(sp - 1)] = Hi(w) /\ PushIn(sp, w)[Word16(sp - 2)] = Lo(w)
           /\ \A a \in DOMAIN mem \ {Word16(sp - 1), Word16(sp - 2)} : PushIn(sp, w)[a] = mem[a]
<1>1. Word16(sp - 1) # Word16(sp - 2)
  BY SMT DEF Word16
<1>2. PushIn(sp, w) = [[mem EXCEPT ![Word16(sp - 1)] = Hi(w)] EXCEPT ![Word16(sp - 2)] = Lo(w)]
  BY DEF PushIn, Poke, PokeIn
<1> QED BY <1>1, <1>2

(* And a poke.                                                             *)
LEMMA PokeStores ==
    ASSUME NEW a \in Word, a \in DOMAIN mem, NEW v
    PROVE  /\ DOMAIN Poke(a, v) = DOMAIN mem /\ Poke(a, v)[a] = v /\ Peek(a) = mem[a]
           /\ \A b \in DOMAIN mem \ {a} : Poke(a, v)[b] = mem[b]
BY WordKept DEF Poke, PokeIn, Peek

(* The cells below a stack pointer and above it.                           *)
LEMMA StackCellsAre ==
    ASSUME NEW sp \in Word
    PROVE  /\ Word16(Word16(sp - 2) + 1) = Word16(sp - 1) /\ Word16(Word16(sp - 2)) = Word16(sp - 2)
           /\ Word16(Word16(sp - 2) + 2) = sp
           /\ Word16((sp + 2) - 1) = Word16(sp + 1) /\ Word16((sp + 2) - 2) = sp /\ Word16(sp) = sp
           /\ sp + 2 \in Int /\ sp \in Int
           /\ Word16(sp - 1) \in Below(sp) /\ Word16(sp - 2) \in Below(sp)
<1>1. /\ Word16(Word16(sp - 2) + 1) = Word16(sp - 1) /\ Word16(Word16(sp - 2)) = Word16(sp - 2)
      /\ Word16(Word16(sp - 2) + 2) = sp
      /\ Word16((sp + 2) - 1) = Word16(sp + 1) /\ Word16((sp + 2) - 2) = sp /\ Word16(sp) = sp
      /\ sp + 2 \in Int /\ sp \in Int
  BY SMT DEF Word, Word16
<1>2. 1 \in 1..8 /\ 2 \in 1..8
  BY SMT
<1>3. Word16(sp - 1) \in Below(sp) /\ Word16(sp - 2) \in Below(sp)
  BY <1>2 DEF Below
<1> QED BY <1>1, <1>3

(* What was loaded has the widths of registers.                            *)
LEMMA LoadedAre ==
    ASSUME IInv, LoadOK
    PROVE  /\ \A n \in Pairs : load.regs[n] \in Word /\ Hi(load.regs[n]) \in Byte /\ Lo(load.regs[n]) \in Byte
           /\ DOMAIN mem = DOMAIN load.mem /\ \A a \in DOMAIN mem : mem[a] \in Byte
  BY Values DEF LoadOK, IInv, TypeOK, IsMemory

(* PUSH.                                                                   *)
LEMMA FirstPush ==
    ASSUME IInv, LoadOK, Room, Done(0), Next, Executing("NONE"), regs.instr = First,
           First \in {197, 229, 245}, Named16(First) = Held
    PROVE  Over /\ Pushed' /\ Elsewhere' /\ regs'.PC = regs.PC
<1> DEFINE sp == load.regs.SP
           w == load.regs[Held]
<1>1. /\ regs'.SP = Word16(regs.SP - 2) /\ \A n \in Pairs \ {"SP"} : regs'[n] = regs[n]
      /\ mem' = PushIn(regs.SP, regs[Held]) /\ Over
  BY PushIs
<1>2. Alike({}) /\ mem = load.mem
  BY SMT DEF Done
<1>3. Held \in Pairs \ {"PC", "IR"} /\ "SP" \in Pairs \ {"PC", "IR"} /\ "PC" \in Pairs \ {"SP"}
  BY DEF Held, Pairs
<1>4. regs.SP = sp /\ regs[Held] = w
  BY <1>2, <1>3 DEF Alike
<1>5. Touched = {Word16(sp - 1), Word16(sp - 2)} /\ Touched \subseteq DOMAIN mem
  BY <1>2 DEF Room, Touched, CellsUsed
<1>6. sp \in Int
  BY <1>3, LoadedAre, StackCellsAre
<1>7. /\ mem'[Word16(sp - 1)] = Hi(w) /\ mem'[Word16(sp - 2)] = Lo(w) /\ DOMAIN mem' = DOMAIN mem
      /\ \A a \in DOMAIN mem \ Touched : mem'[a] = mem[a]
  BY <1>1, <1>4, <1>5, <1>6, PushStores, SMTT(60)
<1>8. load' = load /\ Held' = Held /\ Touched' = Touched
  BY <1>1, ZenonT(60) DEF Over, Held, First, Wide, Touched, Op, Start
<1>9. Alike({"SP"})'
  BY <1>1, <1>2, <1>8 DEF Alike
<1>10. Pushed' /\ Elsewhere'
  BY <1>1, <1>2, <1>4, <1>7, <1>8, <1>9 DEF Pushed, Elsewhere
<1> QED BY <1>1, <1>3, <1>10

(* POP.                                                                    *)
LEMMA SecondPop ==
    ASSUME IInv, LoadOK, Room, Pushed, Elsewhere, Next, Executing("NONE"), regs.instr \in {193, 225, 241},
           First \in {197, 229, 245}, Named16(regs.instr) = Held
    PROVE  Over /\ Back' /\ Elsewhere' /\ regs'.PC = regs.PC
<1> DEFINE sp == load.regs.SP
           w == load.regs[Held]
<1>1. /\ Held \in Pairs \ {"SP"} /\ regs'[Held] = PeekWord(regs.SP) /\ regs'.SP = Word16(regs.SP + 2)
      /\ \A n \in Pairs \ {Held, "SP"} : regs'[n] = regs[n]
      /\ mem' = mem /\ Over
  BY PopIs
<1>2. /\ regs.SP = Word16(sp - 2) /\ mem[Word16(sp - 1)] = Hi(w) /\ mem[Word16(sp - 2)] = Lo(w) /\ Alike({"SP"})
  BY DEF Pushed
<1>3. sp \in Word /\ w \in Word /\ DOMAIN mem = DOMAIN load.mem
  BY <1>1, LoadedAre DEF Pairs
<1>4. Touched = {Word16(sp - 1), Word16(sp - 2)} /\ Touched \subseteq DOMAIN mem
  BY <1>3 DEF Room, Touched, CellsUsed
<1>5. PeekWord(regs.SP) = w
  <2>1. Peek(regs.SP + 1) = Hi(w) /\ Peek(regs.SP) = Lo(w)
    BY <1>2, <1>3, <1>4, StackCellsAre DEF Peek
  <2> QED BY <1>3, <2>1, HalvesOf DEF PeekWord
<1>6. regs'.SP = sp
  BY <1>1, <1>2, <1>3, StackCellsAre
<1>7. \A n \in Pairs \ {"PC", "IR"} : regs'[n] = load.regs[n]
  BY <1>1, <1>2, <1>5, <1>6 DEF Alike
<1>8. load' = load /\ Touched' = Touched /\ Stack' = Stack
  BY <1>1 DEF Over, First, Wide, Touched, Op, Start, Stack
<1>9. Touched \subseteq Stack
  BY <1>3, <1>4, StackCellsAre DEF Stack
<1>10. Back' /\ Elsewhere'
  <2>1. SameA' /\ Alike({"AF"})'
    BY <1>7, <1>8 DEF SameA, A, Alike, Pairs
  <2> QED BY <1>1, <1>8, <1>9, <2>1 DEF Back, Elsewhere
<1>11. regs'.PC = regs.PC
  BY <1>1 DEF Held, Pairs
<1> QED BY <1>1, <1>10, <1>11

(* EX (SP),HL.                                                             *)
LEMMA FirstSwap ==
    ASSUME IInv, LoadOK, Room, Done(0), Next, Executing("NONE"), regs.instr = 227, First = 227, Index = Held
    PROVE  Over /\ Swapped' /\ Elsewhere' /\ regs'.PC = regs.PC
<1> DEFINE sp == load.regs.SP
           w == load.regs[Held]
           up == Word16(sp + 1)
<1>1. /\ regs'[Held] = PeekWord(regs.SP) /\ \A n \in Pairs \ {Held} : regs'[n] = regs[n]
      /\ mem' = PushIn(regs.SP + 2, regs[Held]) /\ Over
  BY ExSpIs
<1>2. Alike({}) /\ mem = load.mem
  BY SMT DEF Done
<1>3. Held \in Pairs \ {"PC", "IR", "SP"} /\ "SP" \in Pairs \ {"PC", "IR"} /\ "PC" \in Pairs \ {Held}
  BY DEF Held, Pairs
<1>4. regs.SP = sp /\ regs[Held] = w
  BY <1>2, <1>3 DEF Alike
<1>5. sp \in Word /\ w \in Word /\ \A a \in DOMAIN mem : mem[a] \in Byte
  BY <1>3, LoadedAre
<1>6. Touched = {sp, up} /\ Touched \subseteq DOMAIN mem
  BY <1>2 DEF Room, Touched, CellsUsed
<1>7. /\ mem'[up] = Hi(w) /\ mem'[sp] = Lo(w) /\ DOMAIN mem' = DOMAIN mem
      /\ \A a \in DOMAIN mem \ Touched : mem'[a] = mem[a]
  <2>1. Word16((sp + 2) - 1) = up /\ Word16((sp + 2) - 2) = sp /\ sp + 2 \in Int
    BY <1>5, StackCellsAre
  <2> HIDE DEF sp, up
  <2> QED BY <1>1, <1>4, <1>6, <2>1, PushStores, SMTT(60)
<1>8. PeekWord(regs.SP) = WordOf(mem[up], mem[sp])
  BY <1>4, <1>5, <1>6, StackCellsAre, SMTT(60) DEF PeekWord, Peek
<1>9. load' = load /\ Held' = Held /\ Touched' = Touched
  BY <1>1, ZenonT(60) DEF Over, Held, First, Wide, Touched, Op, Start
<1>10. Alike({Held})'
  BY <1>1, <1>2, <1>9 DEF Alike
<1>11. Swapped' /\ Elsewhere'
  BY <1>1, <1>2, <1>5, <1>6, <1>7, <1>8, <1>9, <1>10 DEF Swapped, Elsewhere
<1> QED BY <1>1, <1>3, <1>11

(* And back.                                                               *)
LEMMA SecondSwap ==
    ASSUME IInv, LoadOK, Room, Swapped, Elsewhere, Next, Executing("NONE"), regs.instr = 227, First = 227, Index = Held
    PROVE  Over /\ Back' /\ Elsewhere' /\ regs'.PC = regs.PC
<1> DEFINE sp == load.regs.SP
           w == load.regs[Held]
           up == Word16(sp + 1)
           v == regs[Held]
<1>1. /\ regs'[Held] = PeekWord(regs.SP) /\ \A n \in Pairs \ {Held} : regs'[n] = regs[n]
      /\ mem' = PushIn(regs.SP + 2, v) /\ Over
  BY ExSpIs
<1>2. /\ Alike({Held}) /\ load.mem[sp] \in Byte /\ load.mem[up] \in Byte
      /\ v = WordOf(load.mem[up], load.mem[sp]) /\ mem[sp] = Lo(w) /\ mem[up] = Hi(w)
  BY DEF Swapped
<1>3. Held \in Pairs \ {"PC", "IR", "SP", "AF"} /\ "SP" \in Pairs \ {Held, "PC", "IR"} /\ "PC" \in Pairs \ {Held}
  BY DEF Held, Pairs
<1>4. regs.SP = sp
  BY <1>2, <1>3 DEF Alike
<1>5. sp \in Word /\ w \in Word /\ DOMAIN mem = DOMAIN load.mem
  BY <1>3, LoadedAre
<1>6. Touched = {sp, up} /\ Touched \subseteq DOMAIN mem
  BY <1>5 DEF Room, Touched, CellsUsed
<1>7. Hi(v) = load.mem[up] /\ Lo(v) = load.mem[sp]
  BY <1>2, Joined
<1>8. /\ mem'[up] = Hi(v) /\ mem'[sp] = Lo(v) /\ DOMAIN mem' = DOMAIN mem
      /\ \A a \in DOMAIN mem \ Touched : mem'[a] = mem[a]
  <2>1. Word16((sp + 2) - 1) = up /\ Word16((sp + 2) - 2) = sp /\ sp + 2 \in Int
    BY <1>5, StackCellsAre
  <2> HIDE DEF sp, up, v
  <2> QED BY <1>1, <1>4, <1>6, <2>1, PushStores, SMTT(60)
<1>9. PeekWord(regs.SP) = w
  <2>1. Peek(regs.SP + 1) = Hi(w) /\ Peek(regs.SP) = Lo(w)
    BY <1>2, <1>4, <1>5, <1>6, StackCellsAre DEF Peek
  <2> QED BY <1>5, <2>1, HalvesOf DEF PeekWord
<1>10. \A n \in Pairs \ {"PC", "IR"} : regs'[n] = load.regs[n]
  BY <1>1, <1>2, <1>9 DEF Alike
<1>11. load' = load /\ Touched' = Touched
  BY <1>1 DEF Over, First, Wide, Touched, Op, Start
<1>12. \A a \in DOMAIN mem' : mem'[a] = load.mem[a]
  BY <1>6, <1>7, <1>8 DEF Elsewhere
<1>13. SameA' /\ Alike({"AF"})'
  BY <1>10, <1>11 DEF SameA, A, Alike, Pairs
<1> QED BY <1>1, <1>3, <1>11, <1>12, <1>13 DEF Back, Elsewhere

(* What is all as it was loaded, but flags, is back.                       *)
LEMMA AllBack ==
    ASSUME Over, \A n \in Pairs \ {"AF", "PC", "IR"} : regs'[n] = load.regs[n], A' = Hi(load.regs.AF),
           \A a \in DOMAIN mem' : mem'[a] = load.mem[a]
    PROVE  Back' /\ Elsewhere'
<1>1. load' = load
  BY DEF Over
<1> QED BY <1>1 DEF Back, Elsewhere, SameA, Alike

(* Most pairs leave memory alone.                                          *)
LEMMA NoCells ==
    ASSUME First \in {0, 8, 35, 217, 235}
    PROVE  Touched = {}
<1>1. First # 227
  BY SMT
<1>2. First \notin {197, 229, 245} /\ First \notin {22, 103, 111}
  BY SMT
<1>3. Touched = {}
  BY <1>1, <1>2 DEF Touched, CellsUsed
<1> QED BY <1>3

(* And these have one cell.                                                *)
LEMMA CellTouched ==
    ASSUME First \in {22, 103, 111}
    PROVE  Touched = {load.regs.HL}
<1>1. First \notin {197, 229, 245} /\ First # 227
  BY SMT
<1>2. Touched = {load.regs.HL}
  BY <1>1 DEF Touched, CellsUsed
<1> QED BY <1>2

(* EX AF,AF' and EX DE,HL.                                                 *)
LEMMA FirstExchange ==
    ASSUME IInv, Done(0), Next, Executing("NONE"), NEW n, NEW m,
           \/ regs.instr = 8 /\ n = "AF" /\ m = "AFs"
           \/ regs.instr = 235 /\ n = "DE" /\ m = "HL"
    PROVE  Over /\ Changed(n, m)' /\ Elsewhere' /\ regs'.PC = regs.PC
<1>1. /\ regs'[n] = regs[m] /\ regs'[m] = regs[n]
      /\ \A k \in Pairs \ {n, m} : regs'[k] = regs[k]
      /\ mem' = mem /\ Over
  BY ExchangeIs
<1>2. Alike({}) /\ mem = load.mem
  BY SMT DEF Done
<1>3. n \in Pairs \ {"PC", "IR"} /\ m \in Pairs \ {"PC", "IR"} /\ "PC" \in Pairs \ {n, m}
  BY DEF Pairs
<1>4. load' = load
  BY <1>1 DEF Over
<1> QED BY <1>1, <1>2, <1>3, <1>4 DEF Alike, Changed, Elsewhere

(* And back.                                                               *)
LEMMA SecondExchange ==
    ASSUME IInv, Elsewhere, Next, Executing("NONE"), NEW n, NEW m, Changed(n, m), Touched = {},
           \/ regs.instr = 8 /\ n = "AF" /\ m = "AFs"
           \/ regs.instr = 235 /\ n = "DE" /\ m = "HL"
    PROVE  Over /\ Back' /\ Elsewhere' /\ regs'.PC = regs.PC
<1>1. /\ regs'[n] = regs[m] /\ regs'[m] = regs[n]
      /\ \A k \in Pairs \ {n, m} : regs'[k] = regs[k]
      /\ mem' = mem /\ Over
  BY ExchangeIs
<1>2. Alike({n, m}) /\ regs[n] = load.regs[m] /\ regs[m] = load.regs[n]
  BY DEF Changed
<1>3. n \in Pairs \ {"PC", "IR"} /\ m \in Pairs \ {"PC", "IR"} /\ "PC" \in Pairs \ {n, m}
  BY DEF Pairs
<1>4. \A k \in Pairs \ {"PC", "IR"} : regs'[k] = load.regs[k]
  BY <1>1, <1>2 DEF Alike
<1>5. A' = Hi(load.regs.AF)
  BY <1>4 DEF A, Pairs
<1>6. \A a \in DOMAIN mem' : mem'[a] = load.mem[a]
  BY <1>1 DEF Elsewhere
<1> QED BY <1>1, <1>3, <1>4, <1>5, <1>6, AllBack

(* EXX.                                                                    *)
LEMMA FirstExx ==
    ASSUME IInv, Done(0), Next, Executing("NONE"), regs.instr = 217
    PROVE  Over /\ Banked' /\ Elsewhere' /\ regs'.PC = regs.PC
<1> DEFINE six == {"BC", "DE", "HL", "BCs", "DEs", "HLs"}
           both == {<<"BC", "BCs">>, <<"DE", "DEs">>, <<"HL", "HLs">>}
<1>1. /\ \A q \in both : regs'[q[1]] = regs[q[2]] /\ regs'[q[2]] = regs[q[1]]
      /\ \A n \in Pairs \ six : regs'[n] = regs[n]
      /\ mem' = mem /\ Over
  BY ExxIs
<1>2. Alike({}) /\ mem = load.mem
  BY SMT DEF Done
<1>3. load' = load
  BY <1>1 DEF Over
<1>4. Alike(six)' /\ Elsewhere'
  BY <1>1, <1>2, <1>3 DEF Alike, Elsewhere
<1>5. \A q \in both : regs'[q[1]] = load'.regs[q[2]] /\ regs'[q[2]] = load'.regs[q[1]]
  <2>1. \A q \in both : q[1] \in Pairs \ {"PC", "IR"} /\ q[2] \in Pairs \ {"PC", "IR"}
    BY DEF Pairs
  <2> QED BY <1>1, <1>2, <1>3, <2>1 DEF Alike
<1>6. Banked'
  BY <1>4, <1>5 DEF Banked
<1>7. "PC" \in Pairs \ six
  BY DEF Pairs
<1> QED BY <1>1, <1>4, <1>6, <1>7

(* And back.                                                               *)
LEMMA SecondExx ==
    ASSUME IInv, Elsewhere, Next, Executing("NONE"), regs.instr = 217, Banked, Touched = {}
    PROVE  Over /\ Back' /\ Elsewhere' /\ regs'.PC = regs.PC
<1> DEFINE six == {"BC", "DE", "HL", "BCs", "DEs", "HLs"}
           both == {<<"BC", "BCs">>, <<"DE", "DEs">>, <<"HL", "HLs">>}
<1>1. /\ \A q \in both : regs'[q[1]] = regs[q[2]] /\ regs'[q[2]] = regs[q[1]]
      /\ \A n \in Pairs \ six : regs'[n] = regs[n]
      /\ mem' = mem /\ Over
  BY ExxIs
<1>2. Alike(six) /\ \A q \in both : regs[q[1]] = load.regs[q[2]] /\ regs[q[2]] = load.regs[q[1]]
  BY DEF Banked
<1>3. \A q \in both : regs'[q[1]] = load.regs[q[1]] /\ regs'[q[2]] = load.regs[q[2]]
  BY <1>1, <1>2
<1>4. /\ regs'.BC = load.regs.BC /\ regs'.DE = load.regs.DE /\ regs'.HL = load.regs.HL
      /\ regs'.BCs = load.regs.BCs /\ regs'.DEs = load.regs.DEs /\ regs'.HLs = load.regs.HLs
  BY <1>3
<1>5. \A n \in Pairs \ {"PC", "IR"} : regs'[n] = load.regs[n]
  BY <1>1, <1>2, <1>4 DEF Alike
<1>6. A' = Hi(load.regs.AF)
  BY <1>5 DEF A, Pairs
<1>7. \A a \in DOMAIN mem' : mem'[a] = load.mem[a]
  BY <1>1 DEF Elsewhere
<1>8. "PC" \in Pairs \ six
  BY DEF Pairs
<1> QED BY <1>1, <1>5, <1>6, <1>7, <1>8, AllBack

(* INC HL.                                                                 *)
LEMMA FirstCount ==
    ASSUME IInv, Done(0), Next, Executing("NONE"), mod = "NONE", regs.instr = 35
    PROVE  Over /\ Counted1' /\ Elsewhere' /\ regs'.PC = regs.PC
<1>1. /\ regs'.HL = Word16(regs.HL + 1)
      /\ \A n \in Pairs \ {"HL"} : regs'[n] = regs[n]
      /\ mem' = mem /\ Over
  <2>1. regs.instr # 43
    BY SMT
  <2> QED BY <2>1, CountIs
<1>2. Alike({}) /\ mem = load.mem
  BY SMT DEF Done
<1>3. load' = load
  BY <1>1 DEF Over
<1>4. regs.HL = load.regs.HL /\ "PC" \in Pairs \ {"HL"}
  BY <1>2 DEF Alike, Pairs
<1> QED BY <1>1, <1>2, <1>3, <1>4 DEF Alike, Counted1, Elsewhere

(* DEC HL.                                                                 *)
LEMMA SecondCount ==
    ASSUME IInv, LoadOK, Elsewhere, Next, Executing("NONE"), mod = "NONE", regs.instr = 43, Counted1, Touched = {}
    PROVE  Over /\ Back' /\ Elsewhere' /\ regs'.PC = regs.PC
<1>1. /\ regs'.HL = Word16(regs.HL - 1)
      /\ \A n \in Pairs \ {"HL"} : regs'[n] = regs[n]
      /\ mem' = mem /\ Over
  BY CountIs
<1>2. Alike({"HL"}) /\ regs.HL = Word16(load.regs.HL + 1)
  BY DEF Counted1
<1>3. load.regs.HL \in Word
  BY LoadedAre DEF Pairs
<1>4. \A w \in Word : Word16(Word16(w + 1) - 1) = w
  BY SMT DEF Word, Word16
<1>5. \A n \in Pairs \ {"PC", "IR"} : regs'[n] = load.regs[n]
  BY <1>1, <1>2, <1>3, <1>4 DEF Alike
<1>6. A' = Hi(load.regs.AF) /\ "PC" \in Pairs \ {"HL"}
  BY <1>5 DEF A, Pairs
<1>7. \A a \in DOMAIN mem' : mem'[a] = load.mem[a]
  BY <1>1 DEF Elsewhere
<1> QED BY <1>1, <1>5, <1>6, <1>7, AllBack

(* RLC B.                                                                  *)
LEMMA FirstRotateB ==
    ASSUME IInv, Done(0), Next, Executing("CB"), mod = "NONE", regs.instr = 0
    PROVE  Over /\ RotatedB' /\ Elsewhere' /\ regs'.PC = regs.PC
<1>1. /\ B' = Shifted(0, B, Carry(F)) /\ Lo(regs'.BC) = Lo(regs.BC) /\ A' = A
      /\ \A n \in Pairs \ {"AF", "BC"} : regs'[n] = regs[n]
      /\ mem' = mem /\ Over
  <2>1. regs.instr \div 8 = 0
    BY SMT
  <2> QED BY <2>1, RotateBIs
<1>2. Alike({}) /\ mem = load.mem
  BY SMT DEF Done
<1>3. load' = load
  BY <1>1 DEF Over
<1>4. regs.AF = load.regs.AF /\ regs.BC = load.regs.BC /\ "PC" \in Pairs \ {"AF", "BC"}
  BY <1>2 DEF Alike, Pairs
<1>5. SameA' /\ Alike({"AF", "BC"})' /\ Lo(regs'.BC) = Lo(load'.regs.BC)
  BY <1>1, <1>2, <1>3, <1>4 DEF Alike, SameA, A
<1>6. Carry(F) \in {0, 1} /\ B' = Shifted(0, Hi(load'.regs.BC), Carry(F))
  BY <1>1, <1>3, <1>4 DEF Carry, B
<1>7. RotatedB'
  BY <1>5, <1>6 DEF RotatedB
<1> QED BY <1>1, <1>2, <1>3, <1>4, <1>7 DEF Elsewhere

(* RRC B.                                                                  *)
LEMMA SecondRotateB ==
    ASSUME IInv, LoadOK, Elsewhere, Next, Executing("CB"), mod = "NONE", regs.instr = 8, RotatedB, Touched = {}
    PROVE  Over /\ Back' /\ Elsewhere' /\ regs'.PC = regs.PC
<1>1. /\ B' = Shifted(1, B, Carry(F)) /\ Lo(regs'.BC) = Lo(regs.BC) /\ regs'.BC \in Word /\ A' = A
      /\ \A n \in Pairs \ {"AF", "BC"} : regs'[n] = regs[n]
      /\ mem' = mem /\ Over
  <2>1. regs.instr \div 8 = 1
    BY SMT
  <2> QED BY <2>1, RotateBIs
<1>2. PICK c \in {0, 1} : B = Shifted(0, Hi(load.regs.BC), c)
  BY DEF RotatedB
<1>3. Hi(load.regs.BC) \in Byte /\ load.regs.BC \in Word /\ Carry(F) \in {0, 1}
  BY LoadedAre DEF Pairs, Carry
<1>4. Shifted(1, Shifted(0, Hi(load.regs.BC), c), Carry(F)) = Hi(load.regs.BC)
  BY <1>3, RotationsReturn
<1>5. Hi(regs'.BC) = Hi(load.regs.BC) /\ Lo(regs'.BC) = Lo(load.regs.BC)
  BY <1>1, <1>2, <1>4 DEF RotatedB, B
<1>6. regs'.BC = load.regs.BC
  BY <1>1, <1>3, <1>5, HalvesOf
<1>7. \A n \in Pairs \ {"AF", "PC", "IR"} : regs'[n] = load.regs[n]
  BY <1>1, <1>6 DEF RotatedB, Alike
<1>8. A' = Hi(load.regs.AF) /\ "PC" \in Pairs \ {"AF", "BC"}
  BY <1>1 DEF RotatedB, SameA, Pairs
<1>9. \A a \in DOMAIN mem' : mem'[a] = load.mem[a]
  BY <1>1 DEF Elsewhere
<1> QED BY <1>1, <1>7, <1>8, <1>9, AllBack
(* RL (HL).                                                                *)
LEMMA FirstRotateCell ==
    ASSUME IInv, LoadOK, Room, Done(0), Next, Executing("CB"), mod = "NONE", regs.instr = 22,
           Touched = {load.regs.HL}
    PROVE  Over /\ RotatedCell' /\ Elsewhere' /\ regs'.PC = regs.PC
<1> DEFINE hl == load.regs.HL
           n == load.mem[hl]
           c == Carry(F)
           v == Shifted(2, n, c)
<1>1. Alike({}) /\ mem = load.mem
  BY SMT DEF Done
<1>2. hl \in Word /\ hl \in DOMAIN mem /\ n \in Byte
  BY <1>1, LoadedAre DEF Room, Pairs
<1>3. regs.HL = hl /\ regs.AF = load.regs.AF
  BY <1>1 DEF Alike, Pairs
<1>4. Peek(hl) = n
  BY <1>1, <1>2, PokeStores
<1>5. regs.instr \div 8 = 2
  BY SMT
<1>6. /\ mem' = Poke(hl, v) /\ Carry(AfterF) = Out(2, n) /\ A' = A
      /\ (\A k \in Pairs \ {"AF"} : regs'[k] = regs[k]) /\ Over
  BY <1>3, <1>4, <1>5, RotateCellIs
<1>7. load' = load /\ Touched' = Touched
  BY <1>6 DEF Over, First, Wide, Touched, Op, Start
<1>8. SameA' /\ Alike({"AF"})'
  BY <1>1, <1>3, <1>6, <1>7 DEF Alike, SameA, A
<1>9. Carry(F)' = Out(2, n) /\ c \in {0, 1}
  BY <1>6 DEF AfterF, F, Carry
<1> HIDE DEF v
<1>10. mem'[hl] = v /\ DOMAIN mem' = DOMAIN mem /\ \A a \in DOMAIN mem \ {hl} : mem'[a] = mem[a]
  BY <1>2, <1>6, PokeStores
<1>11. \E e \in {0, 1} : mem'[hl] = Shifted(2, n, e)
  BY <1>9, <1>10 DEF v
<1>12. RotatedCell'
  BY <1>2, <1>7, <1>8, <1>9, <1>11 DEF RotatedCell
<1>13. Elsewhere'
  BY <1>1, <1>7, <1>10 DEF Elsewhere
<1> QED BY <1>6, <1>12, <1>13 DEF Pairs

(* RR (HL).                                                                *)
LEMMA SecondRotateCell ==
    ASSUME IInv, LoadOK, Room, Elsewhere, Next, Executing("CB"), mod = "NONE", regs.instr = 30, RotatedCell,
           Touched = {load.regs.HL}
    PROVE  Over /\ Back' /\ Elsewhere' /\ regs'.PC = regs.PC
<1> DEFINE hl == load.regs.HL
           n == load.mem[hl]
           m == mem[hl]
<1>1. hl \in Word /\ hl \in DOMAIN mem
  BY LoadedAre DEF Room, Pairs
<1>2. SameA /\ Alike({"AF"}) /\ n \in Byte /\ Carry(F) = Out(2, n)
  BY DEF RotatedCell
<1>3. regs.HL = hl
  BY <1>2 DEF Alike, Pairs
<1>4. PICK c \in {0, 1} : m = Shifted(2, n, c)
  BY DEF RotatedCell
<1>5. Peek(hl) = m
  BY <1>1, PokeStores
<1>6. regs.instr \div 8 = 3
  BY SMT
<1>7. /\ mem' = Poke(hl, Shifted(3, m, Carry(F))) /\ A' = A
      /\ (\A k \in Pairs \ {"AF"} : regs'[k] = regs[k]) /\ Over
  BY <1>3, <1>5, <1>6, RotateCellIs
<1>8. Shifted(3, m, Carry(F)) = n
  BY <1>2, <1>4, RotationsReturn
<1> HIDE DEF n
<1>9. mem'[hl] = n /\ DOMAIN mem' = DOMAIN mem /\ \A a \in DOMAIN mem \ {hl} : mem'[a] = mem[a]
  BY <1>1, <1>7, <1>8, PokeStores
<1>10. \A a \in DOMAIN mem' : mem'[a] = load.mem[a]
  BY <1>9 DEF n, Elsewhere
<1>11. A' = Hi(load.regs.AF) /\ \A k \in Pairs \ {"AF", "PC", "IR"} : regs'[k] = load.regs[k]
  BY <1>2, <1>7 DEF SameA, Alike
<1> QED BY <1>7, <1>10, <1>11, AllBack DEF Pairs

(* RLD and RRD.                                                            *)
LEMMA FirstDigits ==
    ASSUME IInv, LoadOK, Room, Done(0), Next, Executing("ED"), NEW y,
           (regs.instr = 111 /\ y = 5) \/ (regs.instr = 103 /\ y = 4),
           Touched = {load.regs.HL}
    PROVE  Over /\ RotatedDigits(y)' /\ Elsewhere' /\ regs'.PC = regs.PC
<1> DEFINE hl == load.regs.HL
           n == load.mem[hl]
           res == DigitRotate(y, A, n)
<1>1. Alike({}) /\ mem = load.mem
  BY SMT DEF Done
<1>2. hl \in Word /\ hl \in DOMAIN mem /\ n \in Byte
  BY <1>1, LoadedAre DEF Room, Pairs
<1>3. regs.HL = hl /\ regs.AF = load.regs.AF
  BY <1>1 DEF Alike, Pairs
<1>4. Peek(hl) = n
  BY <1>1, <1>2, PokeStores
<1>5. y = IF regs.instr = 111 THEN 5 ELSE 4
  BY SMT
<1>6. /\ A' = res.a /\ mem' = Poke(hl, res.m)
      /\ (\A k \in Pairs \ {"AF"} : regs'[k] = regs[k]) /\ Over
  BY <1>3, <1>4, <1>5, DigitsIs
<1>7. load' = load /\ Touched' = Touched
  BY <1>6 DEF Over, First, Wide, Touched, Op, Start
<1>8. Alike({"AF"})'
  BY <1>1, <1>6, <1>7 DEF Alike
<1>9. res = [a |-> res.a, m |-> res.m]
  BY DEF DigitRotate
<1>10. A = Hi(load.regs.AF)
  BY <1>3 DEF A
<1> HIDE DEF res
<1>11. mem'[hl] = res.m /\ DOMAIN mem' = DOMAIN mem /\ \A a \in DOMAIN mem \ {hl} : mem'[a] = mem[a]
  BY <1>2, <1>6, PokeStores, SMTT(60)
<1>12. DigitRotate(y, Hi(load.regs.AF), n) = [a |-> A', m |-> mem'[hl]]
  BY <1>6, <1>9, <1>10, <1>11, Zenon DEF res
<1>13. RotatedDigits(y)'
  BY <1>2, <1>7, <1>8, <1>12 DEF RotatedDigits
<1>14. Elsewhere'
  BY <1>1, <1>7, <1>11 DEF Elsewhere
<1> QED BY <1>6, <1>13, <1>14 DEF Pairs

(* And back.                                                               *)
LEMMA SecondDigits ==
    ASSUME IInv, LoadOK, Room, Elsewhere, Next, Executing("ED"), NEW y, RotatedDigits(y),
           (regs.instr = 103 /\ y = 5) \/ (regs.instr = 111 /\ y = 4),
           Touched = {load.regs.HL}
    PROVE  Over /\ Back' /\ Elsewhere' /\ regs'.PC = regs.PC
<1> DEFINE hl == load.regs.HL
           n == load.mem[hl]
           m == mem[hl]
           a == Hi(load.regs.AF)
           once == DigitRotate(y, a, n)
           res == DigitRotate(9 - y, A, m)
<1>1. hl \in Word /\ hl \in DOMAIN mem /\ a \in Byte
  BY LoadedAre DEF Room, Pairs
<1>2. Alike({"AF"}) /\ n \in Byte /\ once = [a |-> A, m |-> m]
  BY DEF RotatedDigits
<1>3. regs.HL = hl
  BY <1>2 DEF Alike, Pairs
<1>4. Peek(hl) = m
  BY <1>1, PokeStores
<1>5. y \in {4, 5} /\ 9 - y = IF regs.instr = 111 THEN 5 ELSE 4
  BY SMT
<1>6. /\ A' = res.a /\ mem' = Poke(hl, res.m)
      /\ (\A k \in Pairs \ {"AF"} : regs'[k] = regs[k]) /\ Over
  BY <1>3, <1>4, <1>5, DigitsIs
<1>7. DigitRotate(9 - y, once.a, once.m) = [a |-> a, m |-> n]
  BY <1>1, <1>2, <1>5, DigitsReturn
<1>8. once.a = A /\ once.m = m
  BY <1>2
<1>9. res.a = a /\ res.m = n
  BY <1>7, <1>8
<1> HIDE DEF res, n
<1>10. mem'[hl] = n /\ DOMAIN mem' = DOMAIN mem /\ \A b \in DOMAIN mem \ {hl} : mem'[b] = mem[b]
  BY <1>1, <1>6, <1>9, PokeStores
<1>11. \A b \in DOMAIN mem' : mem'[b] = load.mem[b]
  BY <1>10 DEF n, Elsewhere
<1>12. A' = a /\ \A k \in Pairs \ {"AF", "PC", "IR"} : regs'[k] = load.regs[k]
  BY <1>2, <1>6, <1>9 DEF Alike
<1> QED BY <1>6, <1>11, <1>12, AllBack DEF Pairs
-----------------------------------------------------------------------------
(* The bytes of the program.                                               *)

(* All fourteen, by their bytes.                                           *)
Twins ==
    IF Wide
    THEN /\ Op(2) = Op(0)
         /\ \/ Op(0) = 203 /\ First = 0 /\ Op(3) = 8
            \/ Op(0) = 203 /\ First = 22 /\ Op(3) = 30
            \/ Op(0) = 237 /\ First = 111 /\ Op(3) = 103
            \/ Op(0) = 237 /\ First = 103 /\ Op(3) = 111
            \/ Op(0) = 221 /\ First = 227 /\ Op(3) = 227
            \/ Op(0) = 253 /\ First = 229 /\ Op(3) = 225
    ELSE \/ First = 245 /\ Op(1) = 241
         \/ First = 197 /\ Op(1) = 193
         \/ First = 229 /\ Op(1) = 225
         \/ First = 227 /\ Op(1) = 227
         \/ First = 8 /\ Op(1) = 8
         \/ First = 217 /\ Op(1) = 217
         \/ First = 235 /\ Op(1) = 235
         \/ First = 35 /\ Op(1) = 43

(* Two bytes, and four.                                                    *)
LEMMA TwoBytes ==
    ASSUME NEW a, NEW b, Begins(<<a, b>>), a \notin PrefixBytes
    PROVE  ~Wide /\ Size = 1 /\ First = a /\ Op(1) = b /\ Len(<<a, b>>) = 2 /\ <<a, b>>[2 \div 2] = a
<1>1. Len(<<a, b>>) = 2 /\ <<a, b>>[1] = a /\ <<a, b>>[2] = b /\ 2 \div 2 = 1
  BY SMT
<1>2. 1 \in 1..2 /\ 2 \in 1..2 /\ 1 - 1 = 0 /\ 2 - 1 = 1
  BY SMT
<1>3. Op(0) = a /\ Op(1) = b
  BY <1>1, <1>2 DEF Begins
<1> QED BY <1>1, <1>3 DEF Wide, Size, First

(* Four.                                                                   *)
LEMMA FourBytes ==
    ASSUME NEW a, NEW b, NEW c, NEW d, Begins(<<a, b, c, d>>), a \in PrefixBytes
    PROVE  /\ Wide /\ Size = 2 /\ Op(0) = a /\ First = b /\ Op(2) = c /\ Op(3) = d
           /\ Len(<<a, b, c, d>>) = 4 /\ <<a, b, c, d>>[4 \div 2] = b
<1> DEFINE s == <<a, b, c, d>>
<1>1. Len(s) = 4 /\ s[1] = a /\ s[2] = b /\ s[3] = c /\ s[4] = d /\ 4 \div 2 = 2
  BY SMT
<1>2. 1 \in 1..4 /\ 2 \in 1..4 /\ 3 \in 1..4 /\ 4 \in 1..4 /\ 1 - 1 = 0 /\ 2 - 1 = 1 /\ 3 - 1 = 2 /\ 4 - 1 = 3
  BY SMT
<1>3. Op(0) = a /\ Op(1) = b /\ Op(2) = c /\ Op(3) = d
  <2>1. \A i \in 1..4 : Op(i - 1) = s[i]
    BY <1>1 DEF Begins
  <2>2. Op(1 - 1) = s[1] /\ Op(2 - 1) = s[2] /\ Op(3 - 1) = s[3] /\ Op(4 - 1) = s[4]
    BY <1>2, <2>1
  <2> QED BY <1>1, <1>2, <2>2
<1> QED BY <1>1, <1>3 DEF Wide, Size, First

(* So a program that begins with a pair is one of them.                    *)
LEMMA TwinsAre ==
    ASSUME NEW s \in Inverses, Begins(s)
    PROVE  Twins /\ Len(s) = 2 * Size /\ s[Len(s) \div 2] = First
<1>1. ASSUME NEW a, NEW b, s = <<a, b>>, a \notin PrefixBytes
      PROVE  Len(s) = 2 * Size /\ s[Len(s) \div 2] = First /\ ~Wide /\ First = a /\ Op(1) = b
  BY <1>1, TwoBytes
<1>2. ASSUME NEW a, NEW b, NEW d, s = <<a, b, a, d>>, a \in PrefixBytes
      PROVE  /\ Len(s) = 2 * Size /\ s[Len(s) \div 2] = First /\ Wide
             /\ Op(0) = a /\ First = b /\ Op(2) = a /\ Op(3) = d
  <2>1. 2 * 2 = 4
    BY SMT
  <2> QED BY <1>2, <2>1, FourBytes
<1>3. CASE s \in {<<245, 241>>, <<197, 193>>, <<229, 225>>, <<227, 227>>, <<8, 8>>, <<217, 217>>,
                  <<235, 235>>, <<35, 43>>}
  <2>1. /\ 245 \notin PrefixBytes /\ 197 \notin PrefixBytes /\ 229 \notin PrefixBytes /\ 227 \notin PrefixBytes
        /\ 8 \notin PrefixBytes /\ 217 \notin PrefixBytes /\ 235 \notin PrefixBytes /\ 35 \notin PrefixBytes
    BY SMT DEF PrefixBytes
  <2> QED BY <1>1, <1>3, <2>1 DEF Twins
<1>4. CASE s \in {<<203, 0, 203, 8>>, <<203, 22, 203, 30>>, <<237, 111, 237, 103>>,
                  <<237, 103, 237, 111>>, <<221, 227, 221, 227>>, <<253, 229, 253, 225>>}
  BY <1>2, <1>4 DEF Twins, PrefixBytes
<1> QED BY <1>3, <1>4 DEF Inverses

(* Memory still holds each byte of the code.                               *)
LEMMA CodeThere ==
    ASSUME IInv, LoadOK, Twins, Room, Elsewhere, NEW i \in 0..2 * Size - 1
    PROVE  Word16(Start + i) \in DOMAIN mem /\ mem[Word16(Start + i)] = Op(i)
<1>1. Op(i) # 255
  <2>1. CASE Wide
    <3>1. i \in {0, 1, 2, 3}
      BY <2>1, SMT DEF Size
    <3>2. Op(0) # 255 /\ Op(1) # 255 /\ Op(2) # 255 /\ Op(3) # 255
      BY <2>1, SMT DEF Twins, First
    <3> QED BY <3>1, <3>2
  <2>2. CASE ~Wide
    <3>1. i \in {0, 1}
      BY <2>2, SMT DEF Size
    <3>2. Op(0) # 255 /\ Op(1) # 255
      BY <2>2, SMT DEF Twins, First
    <3> QED BY <3>1, <3>2
  <2> QED BY <2>1, <2>2
<1>2. Word16(Start + i) \in DOMAIN load.mem /\ load.mem[Word16(Start + i)] = Op(i)
  BY <1>1 DEF Op, Floating
<1> QED BY <1>2, LoadedAre DEF Room, Elsewhere
-----------------------------------------------------------------------------
(* The steps of the program.                                               *)

(* The decoder is where the prefix, if any, has left it.                   *)
Selected == IF Wide THEN Inside ELSE Outside

(* What an instruction without a prefix works on.                          *)
LEMMA NarrowIs ==
    ASSUME IInv, Next, Outside, stage = "start", regs.instr \notin PrefixBytes
    PROVE  Executing("NONE") /\ Index = "HL" /\ mod = "NONE"
BY DEF Outside, Executing, Index

(* And one with.                                                           *)
LEMMA WideIs ==
    ASSUME Wide, Inside, stage = "start"
    PROVE  /\ Op(0) = 203 => Executing("CB") /\ mod = "NONE"
           /\ Op(0) = 237 => Executing("ED") /\ mod = "NONE"
           /\ Op(0) = 221 /\ regs.instr \notin PrefixBytes => Executing("NONE") /\ Index = "IX"
           /\ Op(0) = 253 /\ regs.instr \notin PrefixBytes => Executing("NONE") /\ Index = "IY"
<1>1. Op(0) = 203 => subset = "CB" /\ mod = "NONE"
  BY SMT DEF Inside
<1>2. Op(0) = 237 => subset = "ED" /\ mod = "NONE"
  BY SMT DEF Inside
<1>3. Op(0) = 221 => subset = "NONE" /\ mod = "DD"
  BY SMT DEF Inside
<1>4. Op(0) = 253 => subset = "NONE" /\ mod = "FD"
  BY SMT DEF Inside
<1> QED BY <1>1, <1>2, <1>3, <1>4, SMT DEF Executing, Index

(* PUSH and POP use the same pair.                                         *)
LEMMA SamePair ==
    ASSUME Twins, NEW op, op \in {193, 225, 241, 197, 229, 245},
           \/ ~Wide /\ Index = "HL" /\ (op = First \/ op = Op(1)) /\ First \in {197, 229, 245}
           \/ Op(0) = 253 /\ Index = "IY" /\ op \in {225, 229} /\ First = 229
    PROVE  Named16(op) = Held
<1>1. CASE ~Wide
  <2>1. Op(0) = First /\ (op = First \/ op = Op(1))
    BY <1>1 DEF Wide, First, PrefixBytes
  <2>2. \/ First = 245 /\ op \in {245, 241}
        \/ First = 197 /\ op \in {197, 193}
        \/ First = 229 /\ op \in {229, 225} /\ Op(0) # 221 /\ Op(0) # 253
    BY <1>1, <2>1, SMT DEF Twins
  <2>3. Index = "HL"
    BY <1>1, SMT DEF Wide, PrefixBytes
  <2>4. CASE First = 245 /\ op \in {245, 241}
    <3>1. Named16(op) = "AF"
      BY <2>4, SMT DEF Named16
    <3>2. Held = "AF"
      BY <2>1, <2>4, SMT DEF Held
    <3> QED BY <3>1, <3>2
  <2>5. CASE First = 197 /\ op \in {197, 193}
    <3>1. Named16(op) = "BC"
      BY <2>5, SMT DEF Named16
    <3>2. Held = "BC"
      BY <2>1, <2>5, SMT DEF Held
    <3> QED BY <3>1, <3>2
  <2>6. CASE First = 229 /\ op \in {229, 225} /\ Op(0) # 221 /\ Op(0) # 253
    <3>1. Named16(op) = "HL"
      BY <2>3, <2>6, SMT DEF Named16
    <3>2. Held = "HL"
      BY <2>6, SMT DEF Held
    <3> QED BY <3>1, <3>2
  <2> QED BY <2>2, <2>4, <2>5, <2>6
<1>2. CASE Wide
  BY <1>2, SMT DEF Named16, Held
<1> QED BY <1>1, <1>2

(* The first instruction.                                                  *)
LEMMA ExecuteFirst ==
    ASSUME IInv, LoadOK, Twins, Room, Elsewhere, Next, Done(0), stage = "start", Selected, regs.instr = First
    PROVE  Over /\ Halfway' /\ Elsewhere' /\ regs'.PC = regs.PC
<1> DEFINE Goal == Over /\ Halfway' /\ Elsewhere' /\ regs'.PC = regs.PC
<1>1. Over => First' = First
  BY DEF Over, First, Wide, Op, Start
<1>2. ASSUME ~Wide
      PROVE  Executing("NONE") /\ Index = "HL" /\ mod = "NONE"
  <2>1. regs.instr \notin PrefixBytes
    BY <1>2 DEF Wide, First
  <2> QED BY <1>2, <2>1, NarrowIs DEF Selected
<1>3. CASE First \in {197, 229, 245}
  <2>1. Executing("NONE") /\ Named16(First) = Held
    <3>1. CASE ~Wide
      BY <1>2, <1>3, <3>1, SamePair, SMT
    <3>2. CASE Wide
      <4>1. Op(0) = 253 /\ First = 229
        BY <1>3, <3>2, SMT DEF Twins
      <4>2. regs.instr \notin PrefixBytes
        BY <4>1, SMT DEF PrefixBytes
      <4> QED BY <3>2, <4>1, <4>2, WideIs, SamePair, SMT DEF Selected
    <3> QED BY <3>1, <3>2
  <2>2. Over /\ Pushed' /\ Elsewhere' /\ regs'.PC = regs.PC
    BY <1>3, <2>1, FirstPush
  <2>3. CASE First = 197
    BY <1>1, <2>2, <2>3, SMT DEF Halfway
  <2>4. CASE First = 229
    BY <1>1, <2>2, <2>4, SMT DEF Halfway
  <2>5. CASE First = 245
    BY <1>1, <2>2, <2>5, SMT DEF Halfway
  <2> QED BY <1>3, <2>3, <2>4, <2>5
<1>4. CASE First = 227
  <2>1. Executing("NONE") /\ Index = Held
    <3>1. CASE ~Wide
      <4>1. Op(0) = 227
        BY <1>4, <3>1 DEF First
      <4>2. Held = "HL"
        BY <1>4, <4>1, SMT DEF Held
      <4> QED BY <1>2, <3>1, <4>2
    <3>2. CASE Wide
      <4>1. Op(0) = 221
        BY <1>4, <3>2, SMT DEF Twins
      <4>2. regs.instr \notin PrefixBytes
        BY <1>4, SMT DEF PrefixBytes
      <4>3. Held = "IX"
        BY <1>4, <4>1, SMT DEF Held
      <4> QED BY <3>2, <4>1, <4>2, <4>3, WideIs DEF Selected
    <3> QED BY <3>1, <3>2
  <2>2. Over /\ Swapped' /\ Elsewhere' /\ regs'.PC = regs.PC
    BY <1>4, <2>1, FirstSwap
  <2>3. First \notin {197, 229, 245}
    BY <1>4, SMT
  <2> QED BY <1>1, <1>4, <2>2, <2>3 DEF Halfway
<1>5. CASE ~Wide /\ First \in {8, 35, 217, 235}
  <2>1. Executing("NONE") /\ mod = "NONE"
    BY <1>2, <1>5
  <2>2. CASE First = 8
    <3>1. Over /\ Changed("AF", "AFs")' /\ Elsewhere' /\ regs'.PC = regs.PC
      BY <2>1, <2>2, FirstExchange
    <3> QED BY <1>1, <2>2, <3>1, SMT DEF Halfway
  <2>3. CASE First = 235
    <3>1. Over /\ Changed("DE", "HL")' /\ Elsewhere' /\ regs'.PC = regs.PC
      BY <2>1, <2>3, FirstExchange
    <3> QED BY <1>1, <2>3, <3>1, SMT DEF Halfway
  <2>4. CASE First = 217
    <3>1. Over /\ Banked' /\ Elsewhere' /\ regs'.PC = regs.PC
      BY <2>1, <2>4, FirstExx
    <3> QED BY <1>1, <2>4, <3>1, SMT DEF Halfway
  <2>5. CASE First = 35
    <3>1. Over /\ Counted1' /\ Elsewhere' /\ regs'.PC = regs.PC
      BY <2>1, <2>5, FirstCount
    <3> QED BY <1>1, <2>5, <3>1, SMT DEF Halfway
  <2> QED BY <1>5, <2>2, <2>3, <2>4, <2>5
<1>6. CASE Wide /\ Op(0) = 203
  <2>1. Executing("CB") /\ mod = "NONE"
    BY <1>6, WideIs DEF Selected
  <2>2. CASE First = 0
    <3>1. Over /\ RotatedB' /\ Elsewhere' /\ regs'.PC = regs.PC
      BY <2>1, <2>2, FirstRotateB
    <3> QED BY <1>1, <2>2, <3>1, SMT DEF Halfway
  <2>3. CASE First = 22
    <3>1. Touched = {load.regs.HL}
      BY <2>3, CellTouched
    <3>2. Over /\ RotatedCell' /\ Elsewhere' /\ regs'.PC = regs.PC
      BY <2>1, <2>3, <3>1, FirstRotateCell
    <3> QED BY <1>1, <2>3, <3>2, SMT DEF Halfway
  <2>4. First = 0 \/ First = 22
    BY <1>6, SMT DEF Twins
  <2> QED BY <2>2, <2>3, <2>4
<1>7. CASE Wide /\ Op(0) = 237
  <2>1. Executing("ED")
    BY <1>7, WideIs DEF Selected
  <2>2. First = 111 \/ First = 103
    BY <1>7, SMT DEF Twins
  <2>3. Touched = {load.regs.HL}
    BY <2>2, CellTouched
  <2>4. CASE First = 111
    <3>1. Over /\ RotatedDigits(5)' /\ Elsewhere' /\ regs'.PC = regs.PC
      BY <2>1, <2>3, <2>4, FirstDigits
    <3> QED BY <1>1, <2>4, <3>1, SMT DEF Halfway
  <2>5. CASE First = 103
    <3>1. Over /\ RotatedDigits(4)' /\ Elsewhere' /\ regs'.PC = regs.PC
      BY <2>1, <2>3, <2>5, FirstDigits
    <3> QED BY <1>1, <2>5, <3>1, SMT DEF Halfway
  <2> QED BY <2>2, <2>4, <2>5
<1> QED BY <1>3, <1>4, <1>5, <1>6, <1>7, SMT DEF Twins
(* The second.                                                             *)
LEMMA ExecuteSecond ==
    ASSUME IInv, LoadOK, Twins, Room, Elsewhere, Next, Done(1), stage = "start", Selected,
           regs.instr = IF Wide THEN Op(3) ELSE Op(1)
    PROVE  Over /\ Back' /\ Elsewhere' /\ regs'.PC = regs.PC
<1>1. Halfway
  BY SMT DEF Done
<1>2. ASSUME ~Wide
      PROVE  Executing("NONE") /\ Index = "HL" /\ mod = "NONE" /\ regs.instr = Op(1)
  <2>1. regs.instr = Op(1)
    BY <1>2
  <2>2. regs.instr \notin PrefixBytes
    BY <1>2, <2>1, SMT DEF Twins, PrefixBytes
  <2> QED BY <1>2, <2>1, <2>2, NarrowIs DEF Selected
<1>3. CASE First \in {197, 229, 245}
  <2>1. Executing("NONE") /\ Named16(regs.instr) = Held /\ regs.instr \in {193, 225, 241}
    <3>1. CASE ~Wide
      <4>1. Op(1) \in {193, 225, 241}
        BY <1>3, <3>1, SMT DEF Twins
      <4>2. Op(1) \in {193, 225, 241, 197, 229, 245}
        BY <4>1
      <4> QED BY <1>2, <1>3, <3>1, <4>1, <4>2, SamePair
    <3>2. CASE Wide
      <4>1. Op(0) = 253 /\ First = 229 /\ regs.instr = 225
        BY <1>3, <3>2, SMT DEF Twins
      <4>2. regs.instr \notin PrefixBytes
        BY <4>1, SMT DEF PrefixBytes
      <4> QED BY <3>2, <4>1, <4>2, WideIs, SamePair DEF Selected
    <3> QED BY <3>1, <3>2
  <2>2. Pushed
    <3>1. CASE First = 197
      BY <1>1, <3>1, SMT DEF Halfway
    <3>2. CASE First = 229
      BY <1>1, <3>2, SMT DEF Halfway
    <3>3. CASE First = 245
      BY <1>1, <3>3, SMT DEF Halfway
    <3> QED BY <1>3, <3>1, <3>2, <3>3
  <2> QED BY <1>3, <2>1, <2>2, SecondPop
<1>4. CASE First = 227
  <2>1. Executing("NONE") /\ Index = Held /\ regs.instr = 227
    <3>1. CASE ~Wide
      <4>1. Op(0) = 227
        BY <1>4, <3>1 DEF First
      <4>2. Held = "HL" /\ Op(1) = 227
        BY <1>4, <3>1, <4>1, SMT DEF Held, Twins
      <4> QED BY <1>2, <3>1, <4>2
    <3>2. CASE Wide
      <4>1. Op(0) = 221 /\ regs.instr = 227
        BY <1>4, <3>2, SMT DEF Twins
      <4>2. regs.instr \notin PrefixBytes
        BY <4>1, SMT DEF PrefixBytes
      <4>3. Held = "IX"
        BY <1>4, <4>1, SMT DEF Held
      <4> QED BY <3>2, <4>1, <4>2, <4>3, WideIs DEF Selected
    <3> QED BY <3>1, <3>2
  <2>2. Swapped
    BY <1>1, <1>4, SMT DEF Halfway
  <2> QED BY <1>4, <2>1, <2>2, SecondSwap
<1>5. CASE ~Wide /\ First \in {8, 35, 217, 235}
  <2>1. Executing("NONE") /\ mod = "NONE" /\ regs.instr = Op(1)
    BY <1>2, <1>5
  <2>2. Touched = {}
    <3>1. First \in {0, 8, 35, 217, 235}
      BY <1>5
    <3> QED BY <3>1, NoCells
  <2>3. CASE First = 8
    <3>1. regs.instr = 8 /\ Changed("AF", "AFs")
      BY <1>1, <1>5, <2>1, <2>3, SMT DEF Halfway, Twins
    <3> QED BY <2>1, <2>2, <3>1, SecondExchange
  <2>4. CASE First = 235
    <3>1. regs.instr = 235 /\ Changed("DE", "HL")
      BY <1>1, <1>5, <2>1, <2>4, SMT DEF Halfway, Twins
    <3> QED BY <2>1, <2>2, <3>1, SecondExchange
  <2>5. CASE First = 217
    <3>1. regs.instr = 217 /\ Banked
      BY <1>1, <1>5, <2>1, <2>5, SMT DEF Halfway, Twins
    <3> QED BY <2>1, <2>2, <3>1, SecondExx
  <2>6. CASE First = 35
    <3>1. regs.instr = 43 /\ Counted1
      BY <1>1, <1>5, <2>1, <2>6, SMT DEF Halfway, Twins
    <3> QED BY <2>1, <2>2, <3>1, SecondCount
  <2> QED BY <1>5, <2>3, <2>4, <2>5, <2>6
<1>6. CASE Wide /\ Op(0) = 203
  <2>1. Executing("CB") /\ mod = "NONE" /\ regs.instr = Op(3)
    BY <1>6, WideIs DEF Selected
  <2>2. CASE First = 0
    <3>1. regs.instr = 8 /\ RotatedB
      BY <1>1, <1>6, <2>1, <2>2, SMT DEF Halfway, Twins
    <3>2. Touched = {}
      BY <2>2, NoCells
    <3> QED BY <2>1, <3>1, <3>2, SecondRotateB
  <2>3. CASE First = 22
    <3>1. regs.instr = 30 /\ RotatedCell
      BY <1>1, <1>6, <2>1, <2>3, SMT DEF Halfway, Twins
    <3>2. Touched = {load.regs.HL}
      BY <2>3, CellTouched
    <3> QED BY <2>1, <3>1, <3>2, SecondRotateCell
  <2>4. First = 0 \/ First = 22
    BY <1>6, SMT DEF Twins
  <2> QED BY <2>2, <2>3, <2>4
<1>7. CASE Wide /\ Op(0) = 237
  <2>1. Executing("ED") /\ regs.instr = Op(3)
    BY <1>7, WideIs DEF Selected
  <2>2. First = 111 \/ First = 103
    BY <1>7, SMT DEF Twins
  <2>3. Touched = {load.regs.HL}
    BY <2>2, CellTouched
  <2>4. CASE First = 111
    <3>1. regs.instr = 103 /\ RotatedDigits(5)
      BY <1>1, <1>7, <2>1, <2>4, SMT DEF Halfway, Twins
    <3> QED BY <2>1, <2>3, <3>1, SecondDigits
  <2>5. CASE First = 103
    <3>1. regs.instr = 111 /\ RotatedDigits(4)
      BY <1>1, <1>7, <2>1, <2>5, SMT DEF Halfway, Twins
    <3> QED BY <2>1, <2>3, <3>1, SecondDigits
  <2> QED BY <2>2, <2>4, <2>5
<1> QED BY <1>3, <1>4, <1>5, <1>6, <1>7, SMT DEF Twins

(* Fetches and prefixes keep what has been done.                           *)
LEMMA DoneKept ==
    ASSUME NEW h \in 0..2, Done(h), \A n \in Pairs \ {"PC", "IR"} : regs'[n] = regs[n], UNCHANGED <<mem, load>>
    PROVE  Done(h)'
<1>1. "AF" \in Pairs \ {"PC", "IR"} /\ "BC" \in Pairs \ {"PC", "IR"}
  BY DEF Pairs
<1>2. A' = A /\ B' = B /\ F' = F /\ SameA' = SameA /\ First' = First /\ Held' = Held /\ Stack' = Stack
  BY <1>1 DEF A, B, F, SameA, First, Held, Wide, Op, Start, Stack
<1>3. \A ns : Alike(ns)' = Alike(ns)
  BY DEF Alike
<1>4. \A n \in {"SP", "DE", "HL", "AFs", "BCs", "DEs", "HLs", "AF", "BC", "IX", "IY"} : regs'[n] = regs[n]
  BY DEF Pairs
<1>5. Pushed' = Pushed /\ Swapped' = Swapped
  <2>1. Held \in {"AF", "BC", "IX", "IY", "HL"}
    BY DEF Held
  <2> QED BY <1>2, <1>3, <1>4, <2>1 DEF Pushed, Swapped
<1>6. /\ Changed("AF", "AFs")' = Changed("AF", "AFs") /\ Changed("DE", "HL")' = Changed("DE", "HL")
      /\ Counted1' = Counted1
  BY <1>3, <1>4 DEF Changed, Counted1
<1>7. Banked' = Banked
  BY <1>3, <1>4 DEF Banked
<1>8. RotatedB' = RotatedB /\ RotatedCell' = RotatedCell
  BY <1>2, <1>3, <1>4 DEF RotatedB, RotatedCell, Carry
<1>9. \A y : RotatedDigits(y)' = RotatedDigits(y)
  BY <1>2, <1>3 DEF RotatedDigits
<1>10. Halfway' = Halfway
  BY <1>2, <1>5, <1>6, <1>7, <1>8, <1>9 DEF Halfway
<1>11. Back' = Back
  BY <1>2, <1>3 DEF Back
<1> QED BY <1>3, <1>10, <1>11 DEF Done
(* The next byte is fetched.                                               *)
LEMMA TakesByte ==
    ASSUME IInv, LoadOK, Twins, irq = {}, Room, Elsewhere, Next,
           NEW b \in 0..2 * Size - 1, NEW h \in 0..1, Fetching(b, h)
    PROVE  Starting(b + 1, h)' /\ Elsewhere' /\ UNCHANGED <<subset, mod, irq, load>>
<1>1. stage = "fetch" /\ regs.PC = Word16(Start + b) /\ Done(h)
  BY DEF Fetching
<1>2. regs.PC \in DOMAIN mem /\ mem[regs.PC] = Op(b)
  BY <1>1, CodeThere
<1>3. Fetch
  BY <1>1, <1>2, TakesFetch
<1>4. /\ regs'.PC = Word16(regs.PC + 1) /\ regs'.instr = mem[regs.PC]
      /\ \A n \in Pairs \ {"PC", "IR"} : regs'[n] = regs[n]
      /\ stage' = "start" /\ UNCHANGED <<mem, subset, mod, irq, load>>
  BY <1>1, <1>3, AfterFetch
<1>5. b \in Int /\ b = (b + 1) - 1 /\ h \in 0..2
  BY SMT DEF Size
<1>6. Start \in Int
  <2>1. Start \in Word
    BY LoadedAre DEF Start, Pairs
  <2> QED BY <2>1, SMT DEF Word
<1>7. regs'.PC = Word16(Start + (b + 1))
  BY <1>1, <1>4, <1>5, <1>6, Onwards
<1>8. Start' = Start /\ Op((b + 1) - 1)' = Op(b) /\ Touched' = Touched
  BY <1>4, <1>5 DEF Start, Op, Touched, First, Wide
<1>9. Done(h)'
  BY <1>1, <1>4, <1>5, DoneKept
<1>10. Starting(b + 1, h)'
  BY <1>2, <1>4, <1>7, <1>8, <1>9 DEF Starting
<1>11. Elsewhere'
  BY <1>4, <1>8 DEF Elsewhere
<1> QED BY <1>4, <1>10, <1>11

(* A prefix is one.                                                        *)
LEMMA TakesMark ==
    ASSUME Wide, Outside, Elsewhere, Next, NEW b \in {1, 3}, NEW h \in 0..1, Starting(b, h), Op(b - 1) = Op(0)
    PROVE  Fetching(b, h)' /\ Inside' /\ Elsewhere' /\ UNCHANGED <<irq, load>>
<1>1. stage = "start" /\ regs.PC = Word16(Start + b) /\ regs.instr = Op(0) /\ Done(h)
  BY DEF Starting
<1>2. Prefix
  BY <1>1, TakesPrefix DEF Outside, Wide
<1>3. /\ stage' = "fetch" /\ UNCHANGED <<regs, mem, irq, load>>
      /\ subset' = CASE Op(0) = 203 -> "CB" [] Op(0) = 237 -> "ED" [] OTHER -> "NONE"
      /\ mod' = CASE Op(0) = 221 -> "DD" [] Op(0) = 253 -> "FD" [] Op(0) = 237 -> "NONE" [] OTHER -> "NONE"
  BY <1>1, <1>2 DEF Prefix, Outside
<1>4. mod' = CASE Op(0) = 221 -> "DD" [] Op(0) = 253 -> "FD" [] OTHER -> "NONE"
  <2>1. Op(0) \in {203, 221, 237, 253}
    BY DEF Wide, PrefixBytes
  <2> QED BY <1>3, <2>1, SMT
<1>5. Op(0)' = Op(0) /\ Start' = Start /\ Touched' = Touched
  BY <1>3 DEF Start, Op, Touched, First, Wide
<1>6. Inside'
  BY <1>3, <1>4, <1>5 DEF Inside
<1>7. h \in 0..2
  BY SMT
<1>8. Done(h)'
  BY <1>1, <1>3, <1>7, DoneKept
<1>9. Fetching(b, h)' /\ Elsewhere'
  BY <1>1, <1>3, <1>5, <1>8 DEF Fetching, Elsewhere
<1> QED BY <1>3, <1>6, <1>9

(* The program goes on as it should.                                       *)
LEMMA CancelStep ==
    ASSUME IInv, LoadOK, CancelInv, Cancels, Next
    PROVE  CancelInv'
<1>1. load' = load /\ irq = {} /\ irq' = {} /\ Room /\ Elsewhere /\ CancelPhase
  BY LoadKept DEF CancelInv
<1>2. Twins
  BY TwinsAre DEF Cancels
<1>3. /\ Start' = Start /\ First' = First /\ Wide' = Wide /\ Room' = Room /\ Cancels' = Cancels
      /\ \A i : Op(i)' = Op(i)
  BY <1>1 DEF Start, Op, First, Wide, Size, Touched, Room, Cancels, Begins
<1>4. ASSUME Elsewhere', CancelPhase' PROVE CancelInv'
  BY <1>1, <1>3, <1>4 DEF CancelInv
<1>5. /\ Wide => Size = 2 /\ 2 * Size - 1 = 3
      /\ ~Wide => Size = 1 /\ 2 * Size - 1 = 1
  BY SMT DEF Size
<1>6. ASSUME NEW b \in 0..2 * Size - 1, NEW h \in 0..1, Fetching(b, h)
      PROVE  Starting(b + 1, h)' /\ Elsewhere' /\ (Outside => Outside') /\ (Inside => Inside')
  <2>1. Starting(b + 1, h)' /\ Elsewhere' /\ subset' = subset /\ mod' = mod
    BY <1>1, <1>2, <1>6, TakesByte
  <2>2. Op(0)' = Op(0)
    BY <1>3
  <2> QED BY <2>1, <2>2 DEF Outside, Inside
<1>7. ASSUME NEW b \in {1, 3}, NEW h \in 0..1, Wide, Outside, Starting(b, h)
      PROVE  Fetching(b, h)' /\ Inside' /\ Elsewhere'
  <2>1. Op(b - 1) = Op(0)
    <3>1. b - 1 = 0 \/ b - 1 = 2
      BY SMT
    <3> QED BY <1>2, <1>7, <3>1 DEF Twins
  <2> QED BY <1>1, <1>7, <2>1, TakesMark
<1>8. ASSUME Selected, NEW k \in Int, k = Size, Starting(k, 0)
      PROVE  Fetching(k, 1)' /\ Outside' /\ Elsewhere'
  <2>1. regs.instr = First
    <3>1. CASE Wide
      <4>1. k - 1 = 1
        BY <1>5, <1>8, <3>1, SMT
      <4> QED BY <1>8, <3>1, <4>1 DEF Starting, First
    <3>2. CASE ~Wide
      <4>1. k - 1 = 0
        BY <1>5, <1>8, <3>2, SMT
      <4> QED BY <1>8, <3>2, <4>1 DEF Starting, First
    <3> QED BY <3>1, <3>2
  <2>2. stage = "start" /\ Done(0) /\ regs.PC = Word16(Start + k)
    BY <1>8 DEF Starting
  <2>3. Over /\ Halfway' /\ Elsewhere' /\ regs'.PC = regs.PC
    BY <1>1, <1>2, <1>8, <2>1, <2>2, ExecuteFirst
  <2>4. Done(1)'
    BY <2>3, SMT DEF Done
  <2> QED BY <1>3, <2>2, <2>3, <2>4 DEF Over, Fetching, Outside
<1>9. ASSUME Selected, NEW k \in Int, k = 2 * Size, Starting(k, 1)
      PROVE  Fetching(k, 2)' /\ Outside' /\ Elsewhere'
  <2>1. regs.instr = IF Wide THEN Op(3) ELSE Op(1)
    <3>1. CASE Wide
      <4>1. k - 1 = 3
        BY <1>5, <1>9, <3>1
      <4> QED BY <1>9, <3>1, <4>1 DEF Starting
    <3>2. CASE ~Wide
      <4>1. k - 1 = 1
        BY <1>5, <1>9, <3>2
      <4> QED BY <1>9, <3>2, <4>1 DEF Starting
    <3> QED BY <3>1, <3>2
  <2>2. stage = "start" /\ Done(1) /\ regs.PC = Word16(Start + k)
    BY <1>9 DEF Starting
  <2>3. Over /\ Back' /\ Elsewhere' /\ regs'.PC = regs.PC
    BY <1>1, <1>2, <1>9, <2>1, <2>2, ExecuteSecond
  <2>4. Done(2)'
    BY <2>3, SMT DEF Done
  <2> QED BY <1>3, <2>2, <2>3, <2>4 DEF Over, Fetching, Outside
<1>10. ASSUME Outside, NEW k \in Int, k = 2 * Size, Fetching(k, 2)
       PROVE  CancelPhase' /\ Elsewhere'
  <2>1. stage = "fetch" /\ regs.PC \notin DOMAIN mem
    BY <1>1, <1>10, LoadedAre DEF Fetching, Room
  <2>2. UNCHANGED vars
    BY <1>1, <2>1, HasStopped
  <2>3. UNCHANGED <<regs, mem, stage, subset, mod, load>>
    BY <2>2 DEF vars
  <2>4. Done(2)'
    <3>1. 2 \in 0..2
      BY SMT
    <3>2. Done(2)
      BY <1>10 DEF Fetching
    <3> QED BY <2>3, <3>1, <3>2, DoneKept
  <2>5. Fetching(k, 2)' /\ Outside' /\ Elsewhere'
    <3>1. Touched' = Touched
      BY <1>1, <1>3 DEF Touched
    <3> QED BY <1>1, <1>3, <1>10, <2>3, <2>4, <3>1 DEF Fetching, Outside, Elsewhere
  <2>6. /\ Wide => k = 4
        /\ ~Wide => k = 2
    BY <1>5, <1>10, SMTT(30)
  <2> QED BY <1>3, <2>5, <2>6 DEF CancelPhase
<1>11. 0 \in 0..1 /\ 1 \in 0..1 /\ 0 + 1 = 1 /\ 1 + 1 = 2 /\ 2 + 1 = 3 /\ 3 + 1 = 4 /\ 2 * 1 = 2 /\ 2 * 2 = 4
  BY SMT
<1>12. CASE Wide
  <2>1. 0 \in 0..2 * Size - 1 /\ 1 \in 0..2 * Size - 1 /\ 2 \in 0..2 * Size - 1 /\ 3 \in 0..2 * Size - 1
    BY <1>5, <1>12, SMT
  <2>2. CASE Outside /\ Fetching(0, 0)
    BY <1>3, <1>4, <1>6, <1>11, <1>12, <2>1, <2>2 DEF CancelPhase
  <2>3. CASE Outside /\ Starting(1, 0)
    BY <1>3, <1>4, <1>7, <1>11, <1>12, <2>3 DEF CancelPhase
  <2>4. CASE Inside /\ Fetching(1, 0)
    BY <1>3, <1>4, <1>6, <1>11, <1>12, <2>1, <2>4 DEF CancelPhase
  <2>5. CASE Inside /\ Starting(2, 0)
    <3>1. Fetching(2, 1)' /\ Outside' /\ Elsewhere'
      BY <1>5, <1>8, <1>12, <2>5 DEF Selected
    <3> QED BY <1>3, <1>4, <1>12, <3>1 DEF CancelPhase
  <2>6. CASE Outside /\ Fetching(2, 1)
    BY <1>3, <1>4, <1>6, <1>11, <1>12, <2>1, <2>6 DEF CancelPhase
  <2>7. CASE Outside /\ Starting(3, 1)
    BY <1>3, <1>4, <1>7, <1>11, <1>12, <2>7 DEF CancelPhase
  <2>8. CASE Inside /\ Fetching(3, 1)
    BY <1>3, <1>4, <1>6, <1>11, <1>12, <2>1, <2>8 DEF CancelPhase
  <2>9. CASE Inside /\ Starting(4, 1)
    <3>1. Fetching(4, 2)' /\ Outside' /\ Elsewhere'
      BY <1>5, <1>9, <1>11, <1>12, <2>9 DEF Selected
    <3> QED BY <1>3, <1>4, <1>12, <3>1 DEF CancelPhase
  <2>10. CASE Outside /\ Fetching(4, 2)
    BY <1>4, <1>5, <1>10, <1>11, <1>12, <2>10
  <2> QED BY <1>1, <1>12, <2>2, <2>3, <2>4, <2>5, <2>6, <2>7, <2>8, <2>9, <2>10 DEF CancelPhase
<1>13. CASE ~Wide
  <2>1. 0 \in 0..2 * Size - 1 /\ 1 \in 0..2 * Size - 1
    BY <1>5, <1>13, SMT
  <2>2. CASE Outside /\ Fetching(0, 0)
    BY <1>3, <1>4, <1>6, <1>11, <1>13, <2>1, <2>2 DEF CancelPhase
  <2>3. CASE Outside /\ Starting(1, 0)
    <3>1. Fetching(1, 1)' /\ Outside' /\ Elsewhere'
      BY <1>5, <1>8, <1>13, <2>3 DEF Selected
    <3> QED BY <1>3, <1>4, <1>13, <3>1 DEF CancelPhase
  <2>4. CASE Outside /\ Fetching(1, 1)
    BY <1>3, <1>4, <1>6, <1>11, <1>13, <2>1, <2>4 DEF CancelPhase
  <2>5. CASE Outside /\ Starting(2, 1)
    <3>1. Fetching(2, 2)' /\ Outside' /\ Elsewhere'
      BY <1>5, <1>9, <1>11, <1>13, <2>5 DEF Selected
    <3> QED BY <1>3, <1>4, <1>13, <3>1 DEF CancelPhase
  <2>6. CASE Outside /\ Fetching(2, 2)
    BY <1>4, <1>5, <1>10, <1>11, <1>13, <2>6
  <2> QED BY <1>1, <1>13, <2>2, <2>3, <2>4, <2>5, <2>6 DEF CancelPhase
<1> QED BY <1>12, <1>13
(* So its invariant is one.                                                *)
LEMMA CancelInductive ==
    ASSUME InversesApart
    PROVE  Spec => []CancelInv
<1>1. Init => CancelInv
  <2> SUFFICES ASSUME Init, Cancels PROVE CancelInv
    BY DEF CancelInv
  <2>1. PICK p \in Programs : regs \in p.regs /\ mem = p.mem /\ irq = p.irq
    BY DEF Init
  <2>2. load.regs = regs /\ load.mem = mem /\ load.irq = irq /\ stage = "fetch" /\ subset = "NONE" /\ mod = "NONE"
    BY DEF Init
  <2>3. RegisterFile(regs)
    BY <2>1, ProgramsTyped DEF ProgramsAssumption
  <2>4. Start = regs.PC /\ Start \in Word /\ Start = Word16(Start + 0)
    BY <2>2, <2>3, Values, Cells DEF Start, Pairs
  <2>5. PICK s \in Inverses : Begins(s)
    BY DEF Cancels
  <2>6. Twins /\ Len(s) = 2 * Size /\ s[Len(s) \div 2] = First
    BY <2>5, TwinsAre
  <2>7. \A i \in 1..Len(s) : Loaded(p, regs.PC + (i - 1)) = s[i]
    BY <2>1, <2>2, <2>4, <2>5 DEF Begins, Op, Loaded
  <2>8. /\ irq = {} /\ Word16(Start + 2 * Size) \notin DOMAIN load.mem
        /\ Touched \subseteq DOMAIN load.mem \ {Word16(Start + i) : i \in 0..2 * Size - 1}
    <3> DEFINE l == Len(s)
    <3>1. /\ p.irq = {} /\ Word16(regs.PC + l) \notin DOMAIN p.mem
          /\ CellsUsed(s[l \div 2], regs) \subseteq DOMAIN p.mem \ {Word16(regs.PC + i) : i \in 0..l - 1}
      BY <2>1, <2>5, <2>7 DEF InversesApart
    <3>2. l = 2 * Size /\ s[l \div 2] = First
      BY <2>6
    <3> HIDE DEF l
    <3>3. Touched = CellsUsed(s[l \div 2], regs) /\ Start = regs.PC
      BY <2>2, <2>4, <3>2 DEF Touched
    <3> QED BY <2>1, <2>2, <3>1, <3>2, <3>3
  <2>9. Room
    BY <2>8 DEF Room
  <2>10. Elsewhere /\ Done(0)
    BY <2>2, SMT DEF Elsewhere, Done, Alike
  <2>11. CancelPhase
    BY <2>2, <2>4, <2>10 DEF CancelPhase, Outside, Fetching
  <2> QED BY <2>8, <2>9, <2>10, <2>11 DEF CancelInv
<1>2. IInv /\ LoadOK /\ CancelInv /\ [Next]_vars => CancelInv'
  <2> SUFFICES ASSUME IInv, LoadOK, CancelInv, [Next]_vars PROVE CancelInv'
    OBVIOUS
  <2>1. CASE UNCHANGED vars
    <3>1. UNCHANGED <<regs, mem, stage, subset, mod, irq, load>>
      BY <2>1 DEF vars
    <3>2. /\ Start' = Start /\ First' = First /\ Wide' = Wide /\ Room' = Room /\ Cancels' = Cancels
          /\ Elsewhere' = Elsewhere /\ Outside' = Outside /\ Inside' = Inside /\ \A i : Op(i)' = Op(i)
      BY <3>1 DEF Start, Op, First, Wide, Size, Touched, Room, Cancels, Begins, Elsewhere, Outside, Inside
    <3>3. \A h \in 0..2 : Done(h) => Done(h)'
      BY <3>1, DoneKept
    <3>4. \A b, h \in 0..4 : h \in 0..2 => /\ Fetching(b, h) => Fetching(b, h)'
                                           /\ Starting(b, h) => Starting(b, h)'
      BY <3>1, <3>2, <3>3 DEF Fetching, Starting
    <3>5. CancelPhase => CancelPhase'
      <4>1. 0 \in 0..4 /\ 1 \in 0..4 /\ 2 \in 0..4 /\ 3 \in 0..4 /\ 4 \in 0..4 /\ 0 \in 0..2 /\ 1 \in 0..2 /\ 2 \in 0..2
        BY SMT
      <4>2. CASE Wide
        BY <3>2, <3>4, <4>1, <4>2 DEF CancelPhase
      <4>3. CASE ~Wide
        BY <3>2, <3>4, <4>1, <4>3 DEF CancelPhase
      <4> QED BY <4>2, <4>3
    <3> QED BY <3>1, <3>2, <3>5 DEF CancelInv
  <2>2. CASE Next /\ Cancels
    BY <2>2, CancelStep
  <2>3. CASE ~Cancels
    BY <2>3, LoadKept DEF CancelInv, Cancels, Begins, Op, Start
  <2> QED BY <2>1, <2>2, <2>3
<1> QED BY <1>1, <1>2, ExecInductive, LoadInductive, PTL DEF Spec

(* An instruction and its inverse leave everything but flags and the cells *)
(* below SP as it was loaded (instr_main_q3.cpp:96, instr_ed_q1.cpp:110).  *)
THEOREM ExecInversesCancel ==
    ASSUME InversesApart
    PROVE  Spec => []InversesCancel
<1>1. IInv /\ LoadOK /\ CancelInv => InversesCancel
  <2> SUFFICES ASSUME IInv, LoadOK, CancelInv, Cancels, HasEnded
               PROVE  /\ A = Hi(load.regs.AF)
                      /\ \A n \in Pairs \ {"AF", "PC", "IR"} : regs[n] = load.regs[n]
                      /\ \A a \in DOMAIN mem \ Stack : mem[a] = load.mem[a]
    BY DEF InversesCancel, Cancels, Begins
  <2>1. Twins
    BY TwinsAre DEF Cancels
  <2>2. stage # "start" /\ subset = "NONE" /\ mod = "NONE" /\ regs.PC \notin DOMAIN mem
    BY DEF HasEnded
  <2>3. \A b \in 0..2 * Size - 1 : regs.PC # Word16(Start + b)
    BY <2>1, <2>2, CodeThere DEF CancelInv
  <2>4. \A b, h : ~Starting(b, h) /\ (b \in 0..2 * Size - 1 => ~Fetching(b, h))
    BY <2>2, <2>3 DEF Starting, Fetching
  <2>5. Done(2)
    <3>1. CASE Wide
      <4>1. 0 \in 0..2 * Size - 1 /\ 1 \in 0..2 * Size - 1 /\ 2 \in 0..2 * Size - 1 /\ 3 \in 0..2 * Size - 1
        BY <3>1, SMT DEF Size
      <4>2. Fetching(4, 2)
        BY <2>4, <3>1, <4>1 DEF CancelInv, CancelPhase
      <4> QED BY <4>2 DEF Fetching
    <3>2. CASE ~Wide
      <4>1. 0 \in 0..2 * Size - 1 /\ 1 \in 0..2 * Size - 1
        BY <3>2, SMT DEF Size
      <4>2. Fetching(2, 2)
        BY <2>4, <3>2, <4>1 DEF CancelInv, CancelPhase
      <4> QED BY <4>2 DEF Fetching
    <3> QED BY <3>1, <3>2
  <2>6. Back
    BY <2>5, SMT DEF Done
  <2> QED BY <2>6 DEF Back, SameA, Alike
<1> QED BY <1>1, CancelInductive, ExecInductive, LoadInductive, PTL
=============================================================================
