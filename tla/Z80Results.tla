---------------------------- MODULE Z80Results -----------------------------
(***************************************************************************)
(* What programs run by Z80Exec must compute.  The references are written  *)
(* from the meaning of the operations: sums as integers, overflow as a     *)
(* range, half carries as the parity of three bits, decimal numbers, blocks*)
(* of items; none of them uses the operators of Z80Alu.                    *)
(***************************************************************************)
EXTENDS Z80Exec

AfterA == Hi(regs'.AF)
AfterF == BitsOf[Lo(regs'.AF)]
Bit(i, n) == IF i \in BitsOf[n] THEN 1 ELSE 0
Even(v) == (Bit(0, v) + Bit(1, v) + Bit(2, v) + Bit(3, v)
              + Bit(4, v) + Bit(5, v) + Bit(6, v) + Bit(7, v)) % 2 = 0

Executing(sub) == stage = "start" /\ subset = sub /\ (sub = "NONE" => regs.instr \notin PrefixBytes)

(* Value v, taken as signed and as bits, described by the flags f.         *)
Describes(f, v) ==
    /\ FlagS \in f <=> v > 127
    /\ FlagZ \in f <=> v = 0
    /\ f \cap F53 = BitsOf[v] \cap F53

(* p + q + c = s: the carries between the bits are what f says of a sum,   *)
(* and the borrows of the difference s - q - c = p.                        *)
Carries(p, q, c, s, f) ==
    /\ s = (p + q + c) % 256
    /\ FlagC \in f <=> p + q + c # s
    /\ FlagH \in f <=> (Bit(4, p) + Bit(4, q) + Bit(4, s)) % 2 = 1

IsSum(a, n, c, v, f) ==
    /\ Carries(a, n, c, v, f) /\ FlagN \notin f
    /\ FlagPV \in f <=> Signed(a) + Signed(n) + c \notin -128..127

IsDifference(a, n, c, v, f) ==
    /\ Carries(v, n, c, a, f) /\ FlagN \in f
    /\ FlagPV \in f <=> Signed(a) - Signed(n) - c \notin -128..127

IsLogic(v, f, bits, half) ==
    /\ BitsOf[v] = bits
    /\ Describes(f, v)
    /\ FlagPV \in f <=> Even(v)
    /\ f \cap {FlagC, FlagN, FlagH} = half

AluOperand == CASE X = 3 -> Imm8 [] X = 2 /\ Z = 6 -> Peek(HlPtr) [] OTHER -> Get(Reg8(Z))

AluIs(n, v, f) ==
    LET c == Bit(0, Lo(regs.AF))
    IN  CASE Y = 0 -> IsSum(A, n, 0, v, f) /\ Describes(f, v)
          [] Y = 1 -> IsSum(A, n, c, v, f) /\ Describes(f, v)
          [] Y = 2 -> IsDifference(A, n, 0, v, f) /\ Describes(f, v)
          [] Y = 3 -> IsDifference(A, n, c, v, f) /\ Describes(f, v)
          [] Y = 4 -> IsLogic(v, f, BitsOf[A] \cap BitsOf[n], {FlagH})
          [] Y = 5 -> IsLogic(v, f, {i \in 0..7 : i \in BitsOf[A] <=> i \notin BitsOf[n]}, {})
          [] Y = 6 -> IsLogic(v, f, BitsOf[A] \cup BitsOf[n], {})
          [] Y = 7 -> /\ v = A
                      /\ IsDifference(A, n, 0, (A - n) % 256, f)
                      /\ Describes((f \ F53) \cup (BitsOf[(A - n) % 256] \cap F53), (A - n) % 256)
                      /\ f \cap F53 = BitsOf[n] \cap F53

(* ADD to CP on A with any operand, NEG, INC A and DEC A.                  *)
ByteStep ==
    /\ Executing("NONE") /\ (X = 2 \/ (X = 3 /\ Z = 6)) => AluIs(AluOperand, AfterA, AfterF)
    /\ Executing("ED") /\ X = 1 /\ Z = 4 => IsDifference(0, A, 0, AfterA, AfterF) /\ Describes(AfterF, AfterA)
    /\ Executing("NONE") /\ X = 0 /\ Z \in {4, 5} /\ Y = 7 =>
         /\ IF Z = 4 THEN AfterA = (A + 1) % 256 /\ (FlagPV \in AfterF <=> A = 127)
                     ELSE A = (AfterA + 1) % 256 /\ (FlagPV \in AfterF <=> A = 128)
         /\ Describes(AfterF, AfterA)
         /\ FlagH \in AfterF <=> A \div 16 # AfterA \div 16
         /\ FlagC \in AfterF <=> FlagC \in F

(* An operation of the ALU on A gives the integer result and the flags that*)
(* describe it: carry and borrow, signed overflow, half carry, parity      *)
(* (exec_alu_stub() and NEG, instr_main_q2.cpp:6).                         *)
ByteArithmetic == [][ByteStep]_vars

Signed16(w) == IF w > 32767 THEN w - 65536 ELSE w
Bit12(w) == (w \div 4096) % 2

IsWideSum(p, q, c, s, f) ==
    /\ s = (p + q + c) % 65536
    /\ FlagC \in f <=> p + q + c # s
    /\ FlagH \in f <=> (Bit12(p) + Bit12(q) + Bit12(s)) % 2 = 1

WideFlags(f, w, exact) ==
    /\ FlagS \in f <=> Signed16(w) < 0
    /\ FlagZ \in f <=> w = 0
    /\ FlagPV \in f <=> exact < -32768 \/ exact > 32767

(* ADD, ADC and SBC on HL, or on the index register a prefix names.        *)
WideStep ==
    LET p == regs[Index]   q == regs[Reg16(Y \div 2)]   c == Bit(0, Lo(regs.AF))
        s == regs'[Index]
        kept == {FlagS, FlagZ, FlagPV}
    IN  /\ Executing("NONE") /\ X = 0 /\ Z = 1 /\ Y % 2 = 1 =>
             /\ IsWideSum(p, q, 0, s, AfterF)
             /\ AfterF \cap kept = F \cap kept
        /\ Executing("ED") /\ X = 1 /\ Z = 2 =>
             IF Y % 2 = 1
             THEN /\ IsWideSum(p, q, c, s, AfterF)
                  /\ WideFlags(AfterF, s, Signed16(p) + Signed16(q) + c)
             ELSE /\ IsWideSum(s, q, c, p, AfterF)
                  /\ WideFlags(AfterF, s, Signed16(p) - Signed16(q) - c)

(* The 16-bit sums and differences, with carry in, and which flags ADD     *)
(* keeps (instr_main_q0.cpp:158, instr_ed_q1.cpp:29).                      *)
WideArithmetic == [][WideStep]_vars

-----------------------------------------------------------------------------
(* Programs are known by their first bytes.                                *)
Start   == load.regs.PC
Op(i)   == IF Word16(Start + i) \in DOMAIN load.mem THEN load.mem[Word16(Start + i)] ELSE Floating
HasEnded == stage \in {"fetch", "woken"} /\ subset = "NONE" /\ mod = "NONE" /\ regs.PC \notin DOMAIN mem

(* Byte a of the memory a program is loaded with.                          *)
Loaded(p, a) == IF Word16(a) \in DOMAIN p.mem THEN p.mem[Word16(a)] ELSE Floating

(* A program that adjusts or loops consists of that alone, and the host    *)
(* leaves it alone: behind it, or when it is interrupted, anything may be  *)
(* executed.                                                               *)
AdjustsAlone ==
    \A p \in Programs : \A r \in p.regs :
      (Loaded(p, r.PC) \in {128, 136, 144, 152} /\ Loaded(p, r.PC + 1) = 39) =>
        p.irq = {} /\ DOMAIN p.mem = {r.PC, Word16(r.PC + 1)}

LoopsAlone ==
    \A p \in Programs : \A r \in p.regs :
      (Loaded(p, r.PC) = 19 /\ Loaded(p, r.PC + 1) = 16) =>
        /\ p.irq = {}
        /\ DOMAIN p.mem = {Word16(r.PC + i) : i \in 0..2} /\ Loaded(p, r.PC + 2) = 253

(* Nor does anything follow a prefixed CB instruction, and a block does not*)
(* overwrite the instruction that transfers it.                            *)
IndexedAlone ==
    \A p \in Programs : \A r \in p.regs :
      (Loaded(p, r.PC) \in {221, 253} /\ Loaded(p, r.PC + 1) = 203) => Word16(r.PC + 4) \notin DOMAIN p.mem

Past(op, w, k) == Word16(IF (op \div 8) % 2 = 1 THEN w - k ELSE w + k)

Longest(op, bc) ==
    IF op < 176 THEN 1
    ELSE IF op % 8 < 2 THEN IF bc # 0 THEN bc ELSE 65536
    ELSE IF Hi(bc) # 0 THEN Hi(bc) ELSE 256

IsBlock(p, r) ==
    LET op == Loaded(p, r.PC + 1)
    IN  Loaded(p, r.PC) = 237 /\ op \in 160..187 /\ op % 8 < 4 /\ Word16(r.PC + 2) \notin DOMAIN p.mem

BlocksAside ==
    \A p \in Programs : \A r \in p.regs :
      LET op == Loaded(p, r.PC + 1)
          to == IF op % 8 = 0 THEN r.DE ELSE r.HL
      IN  IsBlock(p, r) /\ op % 8 \in {0, 2} =>
            \A k \in 0..Longest(op, r.BC) - 1 : Past(op, to, k) \notin {r.PC, Word16(r.PC + 1)}

(* The cells interrupts may push to, and blocks that do not reach them; one*)
(* that is searched ends with the item found.                              *)
Below(sp) == {Word16(sp - i) : i \in 1..8}

BlocksOffStack ==
    \A p \in Programs : \A r \in p.regs :
      LET op == Loaded(p, r.PC + 1)
          stack == Below(r.SP) \cap DOMAIN p.mem
      IN  IsBlock(p, r) =>
            \A k \in 0..Longest(op, r.BC) - 1 :
              \/ Past(op, r.HL, k) \notin stack /\ (op % 8 = 0 => Past(op, r.DE, k) \notin stack)
              \/ op % 8 = 1 /\ \E j \in 0..k - 1 : Loaded(p, Past(op, r.HL, j)) = Hi(r.AF)

IsBcd(n) == n % 16 < 10 /\ n \div 16 < 10
Decimal(n) == 10 * (n \div 16) + (n % 16)

(* Behind ADD, ADC, SUB or SBC of two decimal numbers DAA leaves their     *)
(* decimal sum or difference, and in the carry whether it needs a third    *)
(* digit (instr_main_q0.cpp:316).                                          *)
DecimalAdjust ==
    LET a == Hi(load.regs.AF)   b == Hi(load.regs.BC)   y == (Op(0) \div 8) % 8
        c == IF y \in {1, 3} THEN Bit(0, Lo(load.regs.AF)) ELSE 0
        exact == IF y < 2 THEN Decimal(a) + Decimal(b) + c ELSE Decimal(a) - Decimal(b) - c
    IN  (Op(0) \in {128, 136, 144, 152} /\ Op(1) = 39 /\ IsBcd(a) /\ IsBcd(b) /\ HasEnded) =>
          /\ IsBcd(A) /\ Decimal(A) = exact % 100
          /\ FlagC \in F <=> exact \notin 0..99

(* n and the carry c before, v and the carry d after.                      *)
Shifts(y, n, c, v, d) ==
    CASE y = 0 -> (v - 2 * n) % 255 = 0 /\ (v = 0 <=> n = 0) /\ d = n \div 128
      [] y = 1 -> (2 * v - n) % 255 = 0 /\ (v = 0 <=> n = 0) /\ d = n % 2
      [] y = 2 -> 256 * d + v = 2 * n + c
      [] y = 3 -> 2 * v + d = 256 * c + n
      [] y = 4 -> 256 * d + v = 2 * n
      [] y = 5 -> 2 * Signed(v) + d = Signed(n)
      [] y = 6 -> 256 * d + v = 2 * n + 1
      [] y = 7 -> 2 * v + d = n

(* The CB shifts, on a register or on memory, and the four rotations of A. *)
ShiftStep ==
    LET c == Bit(0, Lo(regs.AF))   d == Bit(0, Lo(regs'.AF))
        v == IF InMemory THEN mem'[CbPtr]
                         ELSE LET n == Reg8NoMod(Z)
                              IN  IF n[2] = "hi" THEN Hi(regs'[n[1]]) ELSE Lo(regs'[n[1]])
    IN  /\ Executing("CB") /\ X = 0 /\ (InMemory => CbPtr \in DOMAIN mem) =>
             /\ Shifts(Y, CbOperand, c, v, d)
             /\ Describes(AfterF, v)
             /\ FlagPV \in AfterF <=> Even(v)
        /\ Executing("NONE") /\ X = 0 /\ Z = 7 /\ Y < 4 => Shifts(Y, A, c, AfterA, d)

(* A shift or rotate loses no bit: the operand and the carry after it are  *)
(* the operand and the carry before it, multiplied or divided by two       *)
(* (instr_cb.cpp:23, instr_main_q0.cpp:241).                               *)
ShiftsMoveBits == [][ShiftStep]_vars

(* The instructions that assemble flags: the arithmetic and logic ones,    *)
(* those on A, shifts, rotations and BIT, IN r,(C), LD A,I and LD A,R and  *)
(* the block instructions.  POP AF and EX AF,AF' load F and assemble none. *)
AssemblesFlags ==
    CASE subset = "CB" -> X < 2
      [] subset = "ED" -> \/ X = 2 /\ Y > 3 /\ Z < 4
                          \/ X = 1 /\ (Z \in {0, 2, 4} \/ (Z = 7 /\ Y \in 2..5))
      [] OTHER -> \/ X = 2
                  \/ X = 3 /\ Z = 6
                  \/ X = 0 /\ (Z \in {4, 5, 7} \/ (Z = 1 /\ Y % 2 = 1))

QIsSet == regs'.Q = IF AssemblesFlags THEN Lo(regs'.AF) ELSE 0

(* The opcodes exec_ed() has no quadrant for.                              *)
Unassigned == subset = "ED" /\ X \in {0, 3}

QStep == Executing(subset) /\ ~Unassigned => QIsSet

(* SCF and CCF mix Q into bits 3 and 5: each instruction that assembles    *)
(* flags leaves them in Q, each that does not leaves 0 there, taken or not,*)
(* repeating or not, with every prefix (registers.h:100).                  *)
QIsLastFlags == [][QStep]_vars

QStepOfAll == Executing(subset) => QIsSet

(* The same of the opcodes of ED without a quadrant, too: those within the *)
(* other two clear Q, "not setting flags" (instr_ed_q1.cpp:202,            *)
(* instr_ed_q2.cpp:227), but the default of exec_ed() does not             *)
(* (instr_decoder.cpp:192).                                                *)
QIsLastFlagsOfAll == [][QStepOfAll]_vars

(* The opcodes with a memory operand (IX+d), and where its displacement is.*)
Indexed == \/ subset = "CB"
           \/ X = 1 /\ (Y = 6) # (Z = 6)
           \/ X = 2 /\ Z = 6
           \/ X = 0 /\ Z \in 4..6 /\ Y = 6

Displacement == Peek(IF subset = "CB" THEN regs.PC - 2 ELSE regs.PC)

(* A step behind DD or FD.                                                 *)
ApartStep ==
    mod # "NONE" /\ (Executing("NONE") \/ Executing("CB")) =>
      /\ LET other == IF mod = "DD" THEN "IY" ELSE "IX" IN regs'[other] = regs[other]
      /\ IF Indexed
         THEN /\ regs'[Index] = regs[Index]
              /\ \A a \in DOMAIN mem :
                   mem'[a] # mem[a] => a = Word16(regs[Index] + Signed(Displacement))
         ELSE regs.instr \in {217, 235} \/ regs'.HL = regs.HL

(* DD and FD replace HL or point at memory, never both: an access to       *)
(* (IX+d) changes that cell alone and may load H and L but no index        *)
(* register, any other instruction leaves HL alone, EX DE,HL and EXX       *)
(* excepted, and the other index register has no part in it                *)
(* (instr_decoder.h:65, instr_main_q1.cpp:31, instr_cb.cpp:24).            *)
IndexedApart == [][ApartStep]_vars

-----------------------------------------------------------------------------
(* The program is one block instruction; what it is, and where it stands   *)
(* while it may be interrupted.                                            *)
Transfers ==
    Op(0) = 237 /\ Op(1) \in 160..187 /\ Op(1) % 8 < 4 /\ Word16(Start + 2) \notin DOMAIN load.mem

Job ==
    LET op == Op(1)
    IN  IF Transfers
        THEN [kind  |-> <<"LD", "CP", "IN", "OUT">>[(op % 8) + 1],
              step  |-> IF (op \div 8) % 2 = 1 THEN -1 ELSE 1,
              again |-> op \div 16 = 11,
              key   |-> Hi(load.regs.AF),
              width |-> IF op % 8 < 2 THEN 65536 ELSE 256,
              c     |-> Lo(load.regs.BC)]
        ELSE [kind |-> "none"]

Home   == IF ret # <<>> THEN ret[1].PC ELSE regs.PC
Active == Transfers /\ (Home # Word16(Start + 2) \/ (ret = <<>> /\ stage = "start"))

Count == LET n == IF Job.width = 256 THEN B ELSE regs.BC IN IF n = 0 /\ Active THEN Job.width ELSE n

(* The cells interrupts may push to are not part of a block.               *)
Stack == Below(load.regs.SP)

OfJob(value) == IF Transfers THEN value ELSE 0

Items == INSTANCE Z80Block WITH
    Values <- BusBytes,
    job    <- Job,
    active <- Active,
    pos    <- OfJob(regs.HL),
    dest   <- OfJob(regs.DE),
    left   <- OfJob(Count),
    cells  <- OfJob([a \in DOMAIN mem \ Stack |-> mem[a]]),
    last   <- OfJob(io)

(* A block instruction, interrupted and resumed at any round, transfers its*)
(* items as Z80Block promises, whatever the counter starts with            *)
(* (instr_ed_q2.cpp:6, 54, 95, 159).                                       *)
BlockTransfer == Items!Spec

(* It comes to an end.                                                     *)
BlockEnds == Items!Ends

(* What its flags say in the end: PV that the counter of LD and CP is not  *)
(* used up, Z that CP has found A or that B is 0; and however often CP has *)
(* compared, the carry is the one from before it (instr_ed_q2.cpp:64).     *)
BlockVerdict ==
    Transfers /\ HasEnded =>
        /\ Job.kind \in {"LD", "CP"} => (FlagC \in F <=> FlagC \in BitsOf[Lo(load.regs.AF)])
        /\ CASE Job.kind = "LD" -> FlagPV \in F <=> regs.BC # 0
             [] Job.kind = "CP" ->
                  /\ FlagPV \in F <=> regs.BC # 0
                  /\ FlagZ \in F <=> Peek(regs.HL - Job.step) = A
                  /\ Job.again => (FlagZ \in F \/ regs.BC = 0)
             [] OTHER -> FlagZ \in F <=> B = 0

-----------------------------------------------------------------------------
(* A handler that returns leaves the registers as the interrupt found them,*)
(* and goes on where the program was (instr_main_q3.cpp:96, 113,           *)
(* instr_decoder.cpp:79, 101).                                             *)
HandlerReturns ==
    [][Len(ret') < Len(ret) =>
         \A n \in {"PC", "AF", "BC", "DE", "HL", "IX", "IY", "SP"} : regs'[n] = Last(ret)[n]]_vars

(* An instruction and its inverse: PUSH and POP, EX (SP),HL, EX AF,AF',    *)
(* EXX, EX DE,HL, RLC and RRC, RL and RR, RLD and RRD, INC HL and DEC HL.  *)
Inverses == {<<245, 241>>, <<197, 193>>, <<229, 225>>, <<227, 227>>, <<8, 8>>, <<217, 217>>,
             <<235, 235>>, <<203, 0, 203, 8>>, <<203, 22, 203, 30>>, <<237, 111, 237, 103>>,
             <<237, 103, 237, 111>>, <<35, 43>>, <<221, 227, 221, 227>>, <<253, 229, 253, 225>>}

(* The cells in which the first leaves something for the second, by its    *)
(* opcode; and pairs that find them in memory, apart from their own code,  *)
(* that nothing follows and nobody interrupts.                             *)
CellsUsed(op, r) ==
    CASE op \in {197, 229, 245} -> {Word16(r.SP - 1), Word16(r.SP - 2)}
      [] op = 227 -> {r.SP, Word16(r.SP + 1)}
      [] op \in {22, 103, 111} -> {r.HL}
      [] OTHER -> {}

InversesApart ==
    \A p \in Programs : \A r \in p.regs : \A s \in Inverses :
      (\A i \in 1..Len(s) : Loaded(p, r.PC + (i - 1)) = s[i]) =>
        /\ p.irq = {} /\ Word16(r.PC + Len(s)) \notin DOMAIN p.mem
        /\ CellsUsed(s[Len(s) \div 2], r) \subseteq DOMAIN p.mem \ {Word16(r.PC + i) : i \in 0..Len(s) - 1}

(* Together they change nothing but flags and the cells below SP, wherever *)
(* the stack is (instr_main_q3.cpp:96, instr_ed_q1.cpp:110).               *)
InversesCancel ==
    (\E s \in Inverses : \A i \in 1..Len(s) : Op(i - 1) = s[i]) /\ HasEnded =>
        /\ A = Hi(load.regs.AF)
        /\ \A n \in Pairs \ {"AF", "PC", "IR"} : regs[n] = load.regs[n]
        /\ \A a \in DOMAIN mem \ Stack : mem[a] = load.mem[a]

(* INC DE; DJNZ to it: B rounds, 256 for 0, also across the top of memory  *)
(* (instr_main_q0.cpp:222, 269).                                           *)
LoopRounds ==
    Op(0) = 19 /\ Op(1) = 16 /\ HasEnded =>
        regs.DE = Word16(load.regs.DE + (IF Hi(load.regs.BC) = 0 THEN 256 ELSE Hi(load.regs.BC)))

(* Opcode fetches of an uninterrupted program: two for each round of a loop*)
(* or of a block, two for DD CB d and its opcode, which is no fetch.       *)
Rounds == IF Job.width = 256 THEN Byte8(Hi(load.regs.BC) - B) ELSE Word16(load.regs.BC - regs.BC)

Fetches ==
    CASE Op(0) = 19 /\ Op(1) = 16 -> 2 * (regs.DE - load.regs.DE)
      [] Op(0) \in {221, 253} /\ Op(1) = 203 -> 2
      [] Transfers -> 2 * Rounds

(* R counts them in its seven low bits (fetch_cycle.cpp:50,                *)
(* instr_decoder.cpp:55).                                                  *)
RefreshCounts ==
    /\ HasEnded /\ irq = load.irq
    /\ \/ Op(0) = 19 /\ Op(1) = 16
       \/ Op(0) \in {221, 253} /\ Op(1) = 203
       \/ Transfers
    => Lo(regs.IR) % 128 = (Lo(load.regs.IR) + Fetches) % 128 /\ Hi(regs.IR) = Hi(load.regs.IR)

(* LD R,A; LD A,R brings bit 7 of A back: README.md:13 promises the        *)
(* instructions of a real Z80, whose refresh counter has seven bits, but   *)
(* every fetch clears the eighth (fetch_cycle.cpp:50).                     *)
RefreshKeepsBit7 ==
    <<Op(0), Op(1), Op(2), Op(3)>> = <<237, 79, 237, 95>> /\ HasEnded =>
        A \div 128 = Hi(load.regs.AF) \div 128
=============================================================================
