------------------------------ MODULE Z80Exec ------------------------------
(***************************************************************************)
(* The executors on their data: registers, flags, memory and ports, one    *)
(* step per opcode byte fetched and one per instruction executed.  How the *)
(* steps of an instruction are spread over machine cycles is in Z80Decode  *)
(* and Z80Control; here only their order counts.  Memory and the devices   *)
(* belong to the host.  A program runs until it leaves its memory, and the *)
(* host raises each interrupt of irq at most once, at any time: between two*)
(* instructions the CPU finds it raised or not.  ED A4 and the other opcode*)
(* bytes that throw have no action.                                        *)
(***************************************************************************)
EXTENDS Z80Alu, SequencesExt

CONSTANTS Programs,  \* [regs : set of register files, mem, irq], see Init
          BusBytes   \* what a device or an interrupt acknowledge may return

VARIABLES regs,      \* _regs, with the pairs as words; WZ is scratch and left out
          mem,       \* the memory of the host
          io,        \* the last transfer to or from a port
          stage,     \* what comes next, see Stages
          subset,    \* _subset
          mod,       \* _mod
          skip,      \* _int_skip
          irq,       \* interrupts the host may still raise
          load,      \* history: registers, memory and irq at the start
          ret        \* history: registers of the programs interrupted

vars == <<regs, mem, io, stage, subset, mod, skip, irq, load, ret>>

Pairs == {"AF", "BC", "DE", "HL", "AFs", "BCs", "DEs", "HLs", "IX", "IY", "SP", "PC", "IR"}

Names == Pairs \cup {"MEMPTR", "Q", "instr", "iff1", "iff2", "int_mode"}

RegisterFile(r) ==
    /\ DOMAIN r = Names
    /\ \A n \in Pairs \cup {"MEMPTR"} : r[n] \in Word
    /\ r.Q \in Byte /\ r.instr \in Byte
    /\ r.iff1 \in BOOLEAN /\ r.iff2 \in BOOLEAN /\ r.int_mode \in 0..2

IsMemory(m) == \A a \in DOMAIN m : m[a] \in Byte

(* A program is started with Q as an instruction leaves it.                *)
ProgramsAssumption ==
    \A p \in Programs : /\ IsMemory(p.mem)
                        /\ \A r \in p.regs : RegisterFile(r) /\ r.Q \in {0, Lo(r.AF)}

ASSUME ProgramsTyped == ProgramsAssumption
ASSUME BusBytesTyped == BusBytes \subseteq Byte

PrefixBytes == {203, 221, 237, 253}

(* A fetch; the halted fetch behind HALT; a fetch with HALT still low;     *)
(* start() or an executor; start() behind an acknowledge of mode 1 or 2;   *)
(* displacement and opcode behind DD CB and FD CB.                         *)
Stages == {"fetch", "halted", "woken", "start", "vector", "displaced"}

-----------------------------------------------------------------------------
(* The opcode in octal digits, and the registers its digits name.          *)
X == regs.instr \div 64
Y == (regs.instr \div 8) % 8
Z == regs.instr % 8

Index == CASE mod = "NONE" -> "HL" [] mod = "DD" -> "IX" [] mod = "FD" -> "IY"

Reg8NoMod(i) == <<<<"BC", "hi">>, <<"BC", "lo">>, <<"DE", "hi">>, <<"DE", "lo">>,
                  <<"HL", "hi">>, <<"HL", "lo">>, <<"none", "none">>, <<"AF", "hi">>>>[i + 1]
Reg8(i)  == LET n == Reg8NoMod(i) IN IF n[1] = "HL" THEN <<Index, n[2]>> ELSE n
Reg16(i)    == <<"BC", "DE", Index, "SP">>[i + 1]
Reg16Alt(i) == <<"BC", "DE", Index, "AF">>[i + 1]
RegA == Reg8NoMod(7)

Get(n) == IF n[2] = "hi" THEN Hi(regs[n[1]]) ELSE Lo(regs[n[1]])
Put(r, n, v) == [r EXCEPT ![n[1]] = IF n[2] = "hi" THEN WordOf(v, Lo(@)) ELSE WordOf(Hi(@), v)]

A == Hi(regs.AF)
B == Hi(regs.BC)
F == BitsOf[Lo(regs.AF)]

WithFlags(r, f)      == [r EXCEPT !.AF = WordOf(Hi(@), NumOf(f)), !.Q = NumOf(f)]
WithResult(r, n, res) == WithFlags(Put(r, n, res.v), res.f)

(* Memory has the cells of the program; others float and ignore writes.    *)
Floating == 255
Peek(a) == IF Word16(a) \in DOMAIN mem THEN mem[Word16(a)] ELSE Floating
PokeIn(m, a, v) == IF Word16(a) \in DOMAIN m THEN [m EXCEPT ![Word16(a)] = v] ELSE m
Poke(a, v) == PokeIn(mem, a, v)
PeekWord(a) == WordOf(Peek(a + 1), Peek(a))

Imm8  == Peek(regs.PC)
Imm16 == PeekWord(regs.PC)

(* A wrong variant used by a mutant: PC does not wrap around.              *)
AheadUnwrapped(r, n) == [r EXCEPT !.PC = @ + n]

Ahead(r, n) == [r EXCEPT !.PC = Word16(@ + n)]

(* process_hlptr(): where (HL), (IX+d) or (IY+d) is, and the registers     *)
(* after d has been read.                                                  *)
HlPtr  == IF mod = "NONE" THEN regs.HL ELSE Word16(regs[Index] + Signed(Imm8))
AtHlPtr == IF mod = "NONE" THEN regs ELSE [Ahead(regs, 1) EXCEPT !.MEMPTR = HlPtr]

PushIn(sp, w) == PokeIn(Poke(sp - 1, Hi(w)), sp - 2, Lo(w))

(* check_branch_condition().                                               *)
Condition(i) == (<<FlagZ, FlagC, FlagPV, FlagS>>[(i \div 2) + 1] \in F) <=> (i % 2 = 1)

-----------------------------------------------------------------------------
(* Ends of an instruction: reset(), for one that sets Q itself, one that   *)
(* clears Q, and for returns, which may leave an interrupt handler.        *)
Retire(r, m) ==
    /\ regs' = r
    /\ mem' = m
    /\ stage' = "fetch"
    /\ subset' = "NONE"
    /\ mod' = "NONE"
    /\ UNCHANGED <<irq, load>>

Flagged(r, m) == Retire(r, m) /\ UNCHANGED <<io, skip, ret>>
Quiet(r, m)   == Flagged([r EXCEPT !.Q = 0], m)

Transfer(r, m, dir, port, v) ==
    /\ Retire(r, m)
    /\ io' = [dir |-> dir, port |-> port, v |-> v]
    /\ UNCHANGED <<skip, ret>>

Popped(r) == [r EXCEPT !.PC = PeekWord(regs.SP), !.MEMPTR = PeekWord(regs.SP),
                       !.SP = Word16(@ + 2), !.Q = 0]

Return(r) ==
    /\ Retire(Popped(r), mem)
    /\ ret' = IF ret # <<>> /\ Word16(regs.SP + 2) = Last(ret).SP THEN Front(ret) ELSE ret
    /\ UNCHANGED <<io, skip>>

Branch(r, taken) ==
    LET next == Ahead(r, 1)
        to   == Word16(next.PC + Signed(Imm8))
    IN  Quiet(IF taken THEN [next EXCEPT !.PC = to, !.MEMPTR = to] ELSE next, mem)

-----------------------------------------------------------------------------
(* Fetch cycles, and what start() does before an executor runs.            *)
Refreshed(ir) == WordOf(Hi(ir), (ir + 1) % 128)

Fetch ==
    /\ stage \in {"fetch", "woken"}
    /\ regs.PC \in DOMAIN mem
    /\ regs' = [Ahead(regs, 1) EXCEPT !.IR = Refreshed(@), !.instr = Imm8]
    /\ stage' = "start"
    /\ skip' = FALSE
    /\ UNCHANGED <<mem, io, subset, mod, irq, load, ret>>

(* The halted fetch and the NOP it stands for.                             *)
HaltedFetch ==
    /\ stage = "halted"
    /\ regs' = [regs EXCEPT !.IR = Refreshed(@), !.instr = 0, !.Q = 0]
    /\ stage' = "woken"
    /\ skip' = FALSE
    /\ UNCHANGED <<mem, io, subset, mod, irq, load, ret>>

Prefix ==
    /\ stage \in {"start", "vector"}
    /\ subset = "NONE"
    /\ regs.instr \in PrefixBytes
    /\ stage' = IF regs.instr = 203 /\ mod # "NONE" THEN "displaced" ELSE "fetch"
    /\ subset' = CASE regs.instr = 203 -> "CB" [] regs.instr = 237 -> "ED" [] OTHER -> "NONE"
    /\ mod' = CASE regs.instr = 221 -> "DD" [] regs.instr = 253 -> "FD"
                [] regs.instr = 237 -> "NONE" [] OTHER -> mod
    /\ UNCHANGED <<regs, mem, io, skip, irq, load, ret>>

(* A wrong variant used by a mutant: the opcode is fetched with a refresh. *)
DisplacedRefreshed ==
    /\ stage = "displaced"
    /\ regs' = [Ahead(regs, 2) EXCEPT !.MEMPTR = HlPtr, !.instr = Peek(regs.PC + 1), !.IR = Refreshed(@)]
    /\ stage' = "start"
    /\ UNCHANGED <<mem, io, subset, mod, skip, irq, load, ret>>

(* DD CB d and the opcode, which are read without refresh.                 *)
Displaced ==
    /\ stage = "displaced"
    /\ regs' = [Ahead(regs, 2) EXCEPT !.MEMPTR = HlPtr, !.instr = Peek(regs.PC + 1)]
    /\ stage' = "start"
    /\ UNCHANGED <<mem, io, subset, mod, skip, irq, load, ret>>

Main(q) == stage = "start" /\ subset = "NONE" /\ regs.instr \notin PrefixBytes /\ X = q

-----------------------------------------------------------------------------
(* Main quadrant 0.                                                        *)
Nop == Main(0) /\ Z = 0 /\ Y = 0 /\ Quiet(regs, mem)

ExAf ==
    /\ Main(0) /\ Z = 0 /\ Y = 1
    /\ Quiet([regs EXCEPT !.AF = regs.AFs, !.AFs = regs.AF], mem)

(* A wrong variant used by a mutant: B is tested before it is decremented. *)
DjnzTestsBefore ==
    /\ Main(0) /\ Z = 0 /\ Y = 2
    /\ Branch(Put(regs, Reg8(0), Byte8(B - 1)), B # 0)

Djnz ==
    /\ Main(0) /\ Z = 0 /\ Y = 2
    /\ LET r == Put(regs, Reg8(0), Byte8(B - 1))
       IN  Branch(r, Hi(r.BC) # 0)

Jr == Main(0) /\ Z = 0 /\ Y > 2 /\ Branch(regs, Y = 3 \/ Condition(Y - 4))

LdWordImm ==
    /\ Main(0) /\ Z = 1 /\ Y % 2 = 0
    /\ Quiet([Ahead(regs, 2) EXCEPT ![Reg16(Y \div 2)] = Imm16], mem)

AddHl ==
    /\ Main(0) /\ Z = 1 /\ Y % 2 = 1
    /\ LET sum == AddWord(regs[Index], regs[Reg16(Y \div 2)], F)
       IN  Flagged(WithFlags([regs EXCEPT ![Index] = sum.v, !.MEMPTR = Word16(regs[Index] + 1)],
                             sum.f), mem)

(* LD A and (BC), (DE), (nn).                                              *)
LdA ==
    /\ Main(0) /\ Z = 2 /\ Y \notin {4, 5}
    /\ LET ptr  == IF Y > 5 THEN Imm16 ELSE regs[Reg16(Y \div 2)]
           r    == Ahead(regs, IF Y > 5 THEN 2 ELSE 0)
           next == Word16(ptr + 1)
       IN  IF Y % 2 = 1
           THEN Quiet([Put(r, RegA, Peek(ptr)) EXCEPT !.MEMPTR = next], mem)
           ELSE Quiet([r EXCEPT !.MEMPTR = WordOf(A, Lo(next))], Poke(ptr, A))

(* exec_ld16_p16(), of the main subset and of ED.                          *)
LdWordAt ==
    /\ \/ Main(0) /\ Z = 2 /\ Y \in {4, 5}
       \/ stage = "start" /\ subset = "ED" /\ X = 1 /\ Z = 3
    /\ LET ptr == Imm16
           r   == [Ahead(regs, 2) EXCEPT !.MEMPTR = Word16(ptr + 1)]
           n   == Reg16(Y \div 2)
       IN  IF Y % 2 = 1
           THEN Quiet([r EXCEPT ![n] = PeekWord(ptr)], mem)
           ELSE Quiet(r, PokeIn(Poke(ptr, Lo(regs[n])), ptr + 1, Hi(regs[n])))

IncDecWord ==
    /\ Main(0) /\ Z = 3
    /\ Quiet([regs EXCEPT ![Reg16(Y \div 2)] = Word16(IF Y % 2 = 1 THEN @ - 1 ELSE @ + 1)], mem)

IncDecByte ==
    /\ Main(0) /\ Z \in {4, 5}
    /\ LET n   == IF Y = 6 THEN Peek(HlPtr) ELSE Get(Reg8(Y))
           res == IF Z = 4 THEN IncByte(n, F) ELSE DecByte(n, F)
       IN  IF Y = 6 THEN Flagged(WithFlags(AtHlPtr, res.f), Poke(HlPtr, res.v))
                    ELSE Flagged(WithResult(regs, Reg8(Y), res), mem)

LdByteImm ==
    /\ Main(0) /\ Z = 6
    /\ IF Y = 6 THEN Quiet(Ahead(AtHlPtr, 1), Poke(HlPtr, Peek(AtHlPtr.PC)))
                ELSE Quiet(Put(Ahead(regs, 1), Reg8(Y), Imm8), mem)

Accumulator ==
    /\ Main(0) /\ Z = 7
    /\ LET q   == BitsOf[regs.Q]
           res == CASE Y < 4 -> ShiftA(Y, A, F)
                    [] Y = 4 -> Daa(A, F)
                    [] Y = 5 -> Cpl(A, F)
                    [] Y = 6 -> Scf(A, F, q)
                    [] Y = 7 -> Ccf(A, F, q)
       IN  Flagged(WithResult(regs, RegA, res), mem)

-----------------------------------------------------------------------------
(* Main quadrants 1 and 2.                                                 *)
Halt ==
    /\ Main(1) /\ Y = 6 /\ Z = 6 /\ mod = "NONE"
    /\ regs' = [regs EXCEPT !.Q = 0]
    /\ stage' = "halted"
    /\ UNCHANGED <<mem, io, subset, mod, skip, irq, load, ret>>

PrefixedHalt == Main(1) /\ Y = 6 /\ Z = 6 /\ mod # "NONE" /\ Quiet(regs, mem)

LdReg == Main(1) /\ Y # 6 /\ Z # 6 /\ Quiet(Put(regs, Reg8(Y), Get(Reg8(Z))), mem)

(* A wrong variant used by a mutant: LD H,(IX+d) taken for LD IXH,(IX+d).  *)
LdRegMemAtIndex == Main(1) /\ Y # 6 /\ Z = 6 /\ Quiet(Put(AtHlPtr, Reg8(Y), Peek(HlPtr)), mem)

LdRegMem == Main(1) /\ Y # 6 /\ Z = 6 /\ Quiet(Put(AtHlPtr, Reg8NoMod(Y), Peek(HlPtr)), mem)
LdMemReg == Main(1) /\ Y = 6 /\ Z # 6 /\ Quiet(AtHlPtr, Poke(HlPtr, Get(Reg8NoMod(Z))))

AluWith(r, n) == Flagged(WithResult(r, RegA, Alu(Y, A, n, F)), mem)

AluReg == Main(2) /\ Z # 6 /\ AluWith(regs, Get(Reg8(Z)))
AluMem == Main(2) /\ Z = 6 /\ AluWith(AtHlPtr, Peek(HlPtr))

-----------------------------------------------------------------------------
(* Main quadrant 3.                                                        *)
RetCc == Main(3) /\ Z = 0 /\ IF Condition(Y) THEN Return(regs) ELSE Quiet(regs, mem)
Ret   == Main(3) /\ Z = 1 /\ Y = 1 /\ Return(regs)

(* A wrong variant used by a mutant: Q is not cleared.                     *)
PopKeepsQ ==
    /\ Main(3) /\ Z = 1 /\ Y % 2 = 0
    /\ Flagged([regs EXCEPT ![Reg16Alt(Y \div 2)] = PeekWord(regs.SP), !.SP = Word16(@ + 2)], mem)

Pop ==
    /\ Main(3) /\ Z = 1 /\ Y % 2 = 0
    /\ Quiet([regs EXCEPT ![Reg16Alt(Y \div 2)] = PeekWord(regs.SP), !.SP = Word16(@ + 2)], mem)

(* A wrong variant used by a mutant: the low byte is pushed first.         *)
PushLowFirst ==
    /\ Main(3) /\ Z = 5 /\ Y % 2 = 0
    /\ LET w == regs[Reg16Alt(Y \div 2)]
       IN  Quiet([regs EXCEPT !.SP = Word16(@ - 2)],
                 PokeIn(Poke(regs.SP - 1, Lo(w)), regs.SP - 2, Hi(w)))

Push ==
    /\ Main(3) /\ Z = 5 /\ Y % 2 = 0
    /\ Quiet([regs EXCEPT !.SP = Word16(@ - 2)], PushIn(regs.SP, regs[Reg16Alt(Y \div 2)]))

Exx ==
    /\ Main(3) /\ Z = 1 /\ Y = 3
    /\ Quiet([regs EXCEPT !.BC = regs.BCs, !.DE = regs.DEs, !.HL = regs.HLs,
                          !.BCs = regs.BC, !.DEs = regs.DE, !.HLs = regs.HL], mem)

JpHl   == Main(3) /\ Z = 1 /\ Y = 5 /\ Quiet([regs EXCEPT !.PC = regs[Index]], mem)
LdSpHl == Main(3) /\ Z = 1 /\ Y = 7 /\ Quiet([regs EXCEPT !.SP = regs[Index]], mem)

Jp ==
    /\ Main(3) /\ (Z = 2 \/ (Z = 3 /\ Y = 0))
    /\ LET r == [Ahead(regs, 2) EXCEPT !.MEMPTR = Imm16]
       IN  Quiet(IF Z = 3 \/ Condition(Y) THEN [r EXCEPT !.PC = Imm16] ELSE r, mem)

OutA ==
    /\ Main(3) /\ Z = 3 /\ Y = 2
    /\ Transfer([Ahead(regs, 1) EXCEPT !.MEMPTR = WordOf(A, Byte8(Imm8 + 1)), !.Q = 0],
                mem, "out", WordOf(A, Imm8), A)

InA ==
    /\ Main(3) /\ Z = 3 /\ Y = 3
    /\ \E v \in BusBytes :
         LET port == WordOf(A, Imm8)
         IN  Transfer([Put(Ahead(regs, 1), RegA, v) EXCEPT !.MEMPTR = Word16(port + 1), !.Q = 0],
                      mem, "in", port, v)

ExSpHl ==
    /\ Main(3) /\ Z = 3 /\ Y = 4
    /\ LET w == PeekWord(regs.SP)
       IN  Quiet([regs EXCEPT ![Index] = w, !.MEMPTR = w], PushIn(regs.SP + 2, regs[Index]))

ExDeHl == Main(3) /\ Z = 3 /\ Y = 5 /\ Quiet([regs EXCEPT !.DE = regs.HL, !.HL = regs.DE], mem)

Di == Main(3) /\ Z = 3 /\ Y = 6 /\ Quiet([regs EXCEPT !.iff1 = FALSE, !.iff2 = FALSE], mem)

Ei ==
    /\ Main(3) /\ Z = 3 /\ Y = 7
    /\ Retire([regs EXCEPT !.iff1 = TRUE, !.iff2 = TRUE, !.Q = 0], mem)
    /\ skip' = TRUE
    /\ UNCHANGED <<io, ret>>

Call ==
    /\ Main(3) /\ (Z = 4 \/ (Z = 5 /\ Y = 1))
    /\ LET r == [Ahead(regs, 2) EXCEPT !.MEMPTR = Imm16]
       IN  IF Z = 5 \/ Condition(Y)
           THEN Quiet([r EXCEPT !.PC = Imm16, !.SP = Word16(@ - 2)], PushIn(regs.SP, r.PC))
           ELSE Quiet(r, mem)

Rst ==
    /\ Main(3) /\ Z = 7
    /\ Quiet([regs EXCEPT !.PC = 8 * Y, !.MEMPTR = 8 * Y, !.SP = Word16(@ - 2)],
             PushIn(regs.SP, regs.PC))

AluImm == Main(3) /\ Z = 6 /\ AluWith(Ahead(regs, 1), Imm8)

-----------------------------------------------------------------------------
(* CB: the operand is a register, (HL), or behind DD and FD always (IX+d), *)
(* whose address Displaced has left in MEMPTR; then a register named by the*)
(* opcode gets a copy of the result.                                       *)
InMemory == Z = 6 \/ mod # "NONE"
CbPtr    == IF mod = "NONE" THEN regs.HL ELSE regs.MEMPTR
CbOperand == IF InMemory THEN Peek(CbPtr) ELSE Get(Reg8NoMod(Z))

CbRegs(v) == IF Z = 6 THEN regs ELSE Put(regs, Reg8NoMod(Z), v)
CbMem(v)  == IF InMemory THEN Poke(CbPtr, v) ELSE mem

Cb(q) == stage = "start" /\ subset = "CB" /\ X = q

ShiftRotate ==
    /\ Cb(0)
    /\ LET res == ShiftRot(Y, CbOperand, F)
       IN  Flagged(WithFlags(CbRegs(res.v), res.f), CbMem(res.v))

BitTest ==
    /\ Cb(1)
    /\ LET src == IF InMemory THEN Hi(regs.MEMPTR) ELSE CbOperand
       IN  Flagged(WithFlags(regs, BitFlags(Y, CbOperand, src, F)), mem)

Res == Cb(2) /\ LET v == ResBit(Y, CbOperand) IN Quiet(CbRegs(v), CbMem(v))
Set == Cb(3) /\ LET v == SetBit(Y, CbOperand) IN Quiet(CbRegs(v), CbMem(v))

-----------------------------------------------------------------------------
(* ED quadrant 1.                                                          *)
Ed(q) == stage = "start" /\ subset = "ED" /\ X = q

InC ==
    /\ Ed(1) /\ Z = 0
    /\ \E v \in BusBytes :
         LET r == WithFlags([regs EXCEPT !.MEMPTR = Word16(regs.BC + 1)], ByteFlags(v, F))
         IN  Transfer(IF Y = 6 THEN r ELSE Put(r, Reg8(Y), v), mem, "in", regs.BC, v)

OutC ==
    /\ Ed(1) /\ Z = 1
    /\ Transfer([regs EXCEPT !.MEMPTR = Word16(regs.BC + 1), !.Q = 0],
                mem, "out", regs.BC, IF Y = 6 THEN 0 ELSE Get(Reg8(Y)))

AdcSbcHl ==
    /\ Ed(1) /\ Z = 2
    /\ LET n   == regs[Reg16(Y \div 2)]
           res == IF Y % 2 = 1 THEN AdcWord(regs.HL, n, F) ELSE SbcWord(regs.HL, n, F)
       IN  Flagged(WithFlags([regs EXCEPT !.HL = res.v, !.MEMPTR = Word16(regs.HL + 1)], res.f), mem)

Neg == Ed(1) /\ Z = 4 /\ Flagged(WithResult(regs, RegA, SubByte(0, A, 0)), mem)

Retn == Ed(1) /\ Z = 5 /\ Return([regs EXCEPT !.iff1 = regs.iff2])

Im == Ed(1) /\ Z = 6 /\ Quiet([regs EXCEPT !.int_mode = <<0, 0, 1, 2>>[(Y % 4) + 1]], mem)

(* LD I,A and LD R,A, then LD A,I and LD A,R.                              *)
LdIr ==
    /\ Ed(1) /\ Z = 7 /\ Y < 4
    /\ LET n == <<"IR", IF Y % 2 = 1 THEN "lo" ELSE "hi">>
       IN  IF Y < 2 THEN Quiet(Put(regs, n, A), mem)
           ELSE Flagged(WithResult(regs, RegA, Result(Get(n), LdIrFlags(Get(n), regs.iff2, F))), mem)

RotateDigits ==
    /\ Ed(1) /\ Z = 7 /\ Y \in {4, 5}
    /\ LET res == DigitRotate(Y, A, Peek(regs.HL))
           r   == [regs EXCEPT !.MEMPTR = Word16(regs.HL + 1)]
       IN  Flagged(WithResult(r, RegA, Result(res.a, ByteFlags(res.a, F))), Poke(regs.HL, res.m))

(* Opcodes of ED without function; in quadrants 0 and 3 Q is left alone.   *)
EdNop ==
    \/ (Ed(1) /\ Z = 7 /\ Y > 5) /\ Quiet(regs, mem)
    \/ (Ed(2) /\ Y < 4) /\ Quiet(regs, mem)
    \/ (Ed(0) \/ Ed(3)) /\ Flagged(regs, mem)

-----------------------------------------------------------------------------
(* ED quadrant 2: one round of a block instruction.  Y bit 0 is the        *)
(* direction, bit 1 repeats by going back to the first byte.               *)
Block(i) == Ed(2) /\ Y > 3 /\ Z = i
Moved(w) == Word16(IF Y % 2 = 1 THEN w - 1 ELSE w + 1)
Repeats == Y > 5

(* A wrong variant used by a mutant: what the round has counted is lost.   *)
RewindedStale(r) == [Ahead(regs, -2) EXCEPT !.MEMPTR = Word16(r.PC - 1)]

Rewinded(r) == [Ahead(r, -2) EXCEPT !.MEMPTR = Word16(r.PC - 1)]
RewindPCH   == Hi(Word16(regs.PC - 2))

BlockLd ==
    /\ Block(0)
    /\ LET n  == Peek(regs.HL)
           r  == [regs EXCEPT !.HL = Moved(@), !.DE = Moved(@), !.BC = Word16(@ - 1)]
           f  == LdRoundFlags(A, n, r.BC, F)
       IN  IF Repeats /\ FlagPV \in f
           THEN Flagged(WithFlags(Rewinded(r), Rewound(f, RewindPCH)), Poke(regs.DE, n))
           ELSE Flagged(WithFlags(r, f), Poke(regs.DE, n))

CpRepeats(f) == Repeats /\ FlagPV \in f /\ FlagZ \notin f

BlockCp ==
    /\ Block(1)
    /\ LET r == [regs EXCEPT !.HL = Moved(@), !.BC = Word16(@ - 1)]
           f == CpRoundFlags(A, Peek(regs.HL), r.BC, F)
       IN  IF CpRepeats(f)
           THEN Flagged(WithFlags(Rewinded(r), Rewound(f, RewindPCH)), mem)
           ELSE Flagged(WithFlags([r EXCEPT !.MEMPTR = Moved(@)], f), mem)

IoFlags(f, b) == IF Repeats /\ FlagZ \notin f THEN IoRewound(f, b, RewindPCH) ELSE f
IoRegs(r, f)  == IF Repeats /\ FlagZ \notin f THEN Rewinded(r) ELSE r

(* INI uses B before it is decremented for the port, OUTI after.           *)
BlockIn ==
    /\ Block(2)
    /\ \E v \in BusBytes :
         LET b == Byte8(B - 1)
             r == [Put(regs, Reg8(0), b) EXCEPT !.HL = Moved(@), !.MEMPTR = Moved(regs.BC)]
             f == IoRoundFlags(v, Lo(r.MEMPTR), b)
         IN  Transfer(WithFlags(IoRegs(r, f), IoFlags(f, b)), Poke(regs.HL, v), "in", regs.BC, v)

(* A wrong variant used by a mutant: OUTI addresses the port as INI does.  *)
OutPortBefore(bc) == bc
OutPort(bc) == WordOf(Byte8(Hi(bc) - 1), Lo(bc))

BlockOut ==
    /\ Block(3)
    /\ LET n == Peek(regs.HL)
           b == Byte8(B - 1)
           c == Put(regs, Reg8(0), b)
           r == [c EXCEPT !.HL = Moved(@), !.MEMPTR = Moved(c.BC)]
           f == IoRoundFlags(n, Lo(r.HL), b)
       IN  Transfer(WithFlags(IoRegs(r, f), IoFlags(f, b)), mem, "out", OutPort(regs.BC), n)

-----------------------------------------------------------------------------
(* Interrupts, accepted between instructions.  The HALT pin that is still  *)
(* low when an INT is accepted counts PC up once more; an NMI ignores one  *)
(* fetch and takes its increment back, also when that fetch was halted.    *)
Between(kind) ==
    /\ stage \in {"fetch", "halted", "woken"}
    /\ subset = "NONE" /\ mod = "NONE"
    /\ kind \in irq
    /\ irq' = irq \ {kind}

ServeNmi ==
    /\ Between("NMI")
    /\ LET back == IF stage = "halted" THEN Ahead(regs, -1) ELSE regs
       IN  /\ regs' = [back EXCEPT !.IR = Refreshed(@), !.instr = IF stage = "halted" THEN 0 ELSE Imm8,
                                   !.iff2 = regs.iff1, !.iff1 = FALSE,
                                   !.SP = Word16(@ - 2), !.PC = 102, !.MEMPTR = 102]
           /\ mem' = PushIn(regs.SP, back.PC)
           /\ ret' = Append(ret, back)
    /\ stage' = "fetch"
    /\ UNCHANGED <<io, subset, mod, skip, load>>

AcceptInt ==
    /\ Between("INT")
    /\ regs.iff1 /\ ~skip
    /\ LET r == [regs EXCEPT !.IR = Refreshed(@), !.iff1 = FALSE]
       IN  IF regs.int_mode = 0
           THEN /\ \E v \in BusBytes : regs' = [r EXCEPT !.instr = v]
                /\ stage' = "start"
                /\ ret' = Append(ret, regs)
           ELSE /\ regs' = IF stage = "woken" THEN Ahead(r, 1) ELSE r
                /\ stage' = "vector"
                /\ ret' = Append(ret, [regs EXCEPT !.PC = regs'.PC])
    /\ UNCHANGED <<mem, io, subset, mod, skip, load>>

IntResponse ==
    /\ stage = "vector"
    /\ regs.instr \notin PrefixBytes
    /\ mem' = PushIn(regs.SP, regs.PC)
    /\ \E v \in BusBytes :
         LET table == WordOf(Hi(regs.IR), v)
             from(a) == IF a \in DOMAIN mem THEN mem'[a] ELSE Floating
             to    == IF regs.int_mode = 1 THEN 56
                                           ELSE WordOf(from(Word16(table + 1)), from(table))
         IN  regs' = [regs EXCEPT !.PC = to, !.MEMPTR = to, !.SP = Word16(@ - 2)]
    /\ stage' = "fetch"
    /\ UNCHANGED <<io, subset, mod, skip, irq, load, ret>>

-----------------------------------------------------------------------------
Stopped == stage \in {"fetch", "woken"} /\ regs.PC \notin DOMAIN mem
Ended   == Stopped /\ UNCHANGED vars

Quadrant0 == Nop \/ ExAf \/ Djnz \/ Jr \/ LdWordImm \/ AddHl \/ LdA \/ LdWordAt
               \/ IncDecWord \/ IncDecByte \/ LdByteImm \/ Accumulator
Quadrant12 == Halt \/ PrefixedHalt \/ LdReg \/ LdRegMem \/ LdMemReg \/ AluReg \/ AluMem
Quadrant3 == RetCc \/ Ret \/ Pop \/ Push \/ Exx \/ JpHl \/ LdSpHl \/ Jp \/ OutA \/ InA
               \/ ExSpHl \/ ExDeHl \/ Di \/ Ei \/ Call \/ Rst \/ AluImm
SubsetCB == ShiftRotate \/ BitTest \/ Res \/ Set
SubsetED == InC \/ OutC \/ AdcSbcHl \/ Neg \/ Retn \/ Im \/ LdIr \/ RotateDigits \/ EdNop
              \/ BlockLd \/ BlockCp \/ BlockIn \/ BlockOut

Cpu == \/ Fetch \/ HaltedFetch \/ Prefix \/ Displaced \/ IntResponse
       \/ Quadrant0 \/ Quadrant12 \/ Quadrant3 \/ SubsetCB \/ SubsetED

Init ==
    /\ \E p \in Programs : regs \in p.regs /\ mem = p.mem /\ irq = p.irq
    /\ io = [dir |-> "none", port |-> 0, v |-> 0]
    /\ stage = "fetch" /\ subset = "NONE" /\ mod = "NONE" /\ skip = FALSE
    /\ load = [regs |-> regs, mem |-> mem, irq |-> irq]
    /\ ret = <<>>

Next == Cpu \/ ServeNmi \/ AcceptInt \/ Ended

(* Weak fairness of Next with its ENABLED written out: the host goes on    *)
(* calling clock() until the program has left its memory.                  *)
Clocked == []<>Stopped \/ []<><<Next>>_vars

Spec == Init /\ [][Next]_vars /\ Clocked

(* Registers, memory and ports keep to their widths, the memory to the     *)
(* cells it was loaded with (registers.h:17).                              *)
TypeOK ==
    /\ RegisterFile(regs)
    /\ IsMemory(mem) /\ DOMAIN mem = DOMAIN load.mem
    /\ io.port \in Word /\ io.v \in Byte
    /\ stage \in Stages /\ subset \in {"NONE", "CB", "ED"} /\ mod \in {"NONE", "DD", "FD"}
=============================================================================
