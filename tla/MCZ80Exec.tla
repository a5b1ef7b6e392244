----------------------------- MODULE MCZ80Exec -----------------------------
(***************************************************************************)
(* The programs TLC runs.                                                  *)
(***************************************************************************)
EXTENDS Z80Results

(* The registers after reset, and a memory holding a sequence of bytes.    *)
Cleared == [n \in Pairs |-> IF n \in {"AF", "SP"} THEN 65535 ELSE 0]
             @@ [MEMPTR |-> 0, Q |-> 0, instr |-> 0, iff1 |-> FALSE, iff2 |-> FALSE, int_mode |-> 0]

Bytes(a, s) == [b \in {Word16(a + i) : i \in 0..Len(s) - 1} |-> s[Word16(b - a) + 1]]

Program(rs, m, ints) == [regs |-> rs, mem |-> m, irq |-> ints]

Words(hs, ls) == {WordOf(h, l) : h \in hs, l \in ls}

(* One byte operation on A and B, or on B alone, for all values of the     *)
(* first and either carry.                                                 *)
OnBytes(code, as, bs) ==
    Program({[Cleared EXCEPT !.AF = a, !.BC = b, !.PC = 16384] : a \in as, b \in bs},
            Bytes(16384, code), {})

Edges == {0, 1, 15, 16, 127, 128, 153, 255}
Bcds  == {n \in Byte : IsBcd(n)}

AluPrograms == {OnBytes(<<128 + 8 * y>>, Words(Byte, {0, 1}), Words(Edges, {0})) : y \in 0..7}
DaaPrograms == {OnBytes(<<128 + 8 * y, 39>>, Words(Bcds, {0, 1}), Words({0, 1, 9, 16, 69, 80, 153}, {0})) : y \in 0..3}
OnA == {OnBytes(code, Words(Byte, {0, 1}), {0}) :
          code \in {<<237, 68>>, <<60>>, <<61>>, <<7>>, <<15>>, <<23>>, <<31>>}}
OnB == {OnBytes(<<203, 8 * y>>, {0, 1}, Words(Byte, {0})) : y \in 0..7}

WideEdges == {0, 1, 4095, 4096, 32767, 32768, 65535}
WidePrograms ==
    {Program({[Cleared EXCEPT !.AF = f, !.HL = h, !.DE = d, !.PC = 16384] :
                f \in {0, 213}, h \in WideEdges, d \in WideEdges},
             Bytes(16384, code), {}) : code \in {<<25>>, <<237, 90>>, <<237, 82>>}}

(* Every opcode with every prefix, except the empty slots of ED, twice:    *)
(* with the stack and the index registers around the end of memory.        *)
Data == Bytes(8192, <<18, 150, 77, 201>>)
Machine == [Cleared EXCEPT !.PC = 16384, !.AF = 4608, !.BC = 258, !.DE = 8193, !.HL = 8194,
                           !.IX = 8193, !.IY = 8188, !.SP = 65535, !.HLs = 4660, !.MEMPTR = 10280]
Machines == {Machine, [Machine EXCEPT !.AF = 65535, !.Q = 255, !.IR = 32969, !.SP = 1, !.IX = 8188, !.IY = 8192,
                                      !.iff1 = TRUE, !.iff2 = TRUE, !.int_mode = 1]}
Around == Bytes(65532, <<1, 2, 3, 4, 5, 6, 7>>)

Sweep(code) == Program(Machines, Bytes(16384, code) @@ Data @@ Around, {})
Opcodes == {<<op, 1, 32>> : op \in Byte \ PrefixBytes}
Slots == {op \in Byte : op \div 64 = 2 /\ (op \div 8) % 8 > 3 /\ op % 8 > 3}
SweepPrograms ==
    {Sweep(p \o code) : p \in {<<>>, <<221>>, <<253>>}, code \in Opcodes}
      \cup {Sweep(<<203, op>>) : op \in Byte}
      \cup {Sweep(<<p, 203, 1, op>>) : p \in {221, 253}, op \in Byte}
      \cup {Sweep(<<237, op, 1, 32>>) : op \in (Byte \ Slots) \ (176..187)}
      \cup {Sweep(code) : code \in {<<237, 0, 55>>, <<175, 63>>, <<8, 55>>, <<241, 63>>}}

-----------------------------------------------------------------------------
(* PUSH AF; XOR A; POP AF; RETN for an NMI; EI and RETI for an INT, whose  *)
(* table of vectors ends behind the page.                                  *)
Handlers == Bytes(102, <<245, 175, 241, 237, 69>>) @@ Bytes(56, <<245, 175, 241, 251, 237, 77>>)
              @@ Bytes(767, <<56, 0>>) @@ Bytes(512, <<56, 0>>)

Interrupted(mode) == [Cleared EXCEPT !.PC = 65534, !.iff1 = TRUE, !.iff2 = TRUE, !.int_mode = mode,
                                     !.IR = 767, !.SP = 20480, !.AF = 7169]

Blocks(code, rs, cells, ints) ==
    Program(rs, Bytes(65534, code) @@ Handlers @@ cells @@ Bytes(20472, <<0, 0, 0, 0, 0, 0, 0, 0>>), ints)

Buffer == Bytes(8192, <<10, 28, 201, 140, 28>>)

BlockPrograms ==
    {Blocks(<<237, op>>,
            {[Interrupted(mode) EXCEPT !.BC = bc, !.HL = hl, !.DE = 8194] :
               mode \in {1, 2}, bc \in {1, 259, 770}, hl \in {8193, 8194, 8195}},
            Buffer, {"NMI", "INT"}) : op \in {160 + 8 * y + z : y \in 0..1, z \in 0..3}}
    \cup
    {Blocks(<<237, op>>,
            {[Interrupted(mode) EXCEPT !.BC = bc, !.HL = hl, !.DE = 8194] :
               mode \in {1, 2}, bc \in {1, 3}, hl \in {8192, 8193, 8195}},
            Buffer, {"NMI", "INT"}) : op \in {176, 177, 184, 185}}
    \cup
    {Blocks(<<237, op>>,
            {[Interrupted(2) EXCEPT !.BC = bc, !.HL = hl] : bc \in {256, 770}, hl \in {8192, 8194}},
            Buffer, {"NMI", "INT"}) : op \in {178, 179, 186, 187}}
    \cup
    {Blocks(<<237, op>>, {[Interrupted(1) EXCEPT !.HL = 8193, !.BC = 3]}, Bytes(8192, <<10, 28>>),
            IF op < 184 THEN {"INT"} ELSE {}) : op \in {178, 179, 186, 187}}

(* Interrupts of every mode at EI, DI and HALT, and the rest.              *)
Quick == {<<251, 0, 0>>, <<251, 243, 0>>, <<243, 0>>, <<118, 0>>, <<237, 94, 8>>, <<221, 33, 1, 2>>,
          <<203, 203, 0>>, <<199, 0>>}
QuickPrograms == {Blocks(code, {Interrupted(mode) : mode \in 0..2}, Buffer, {"INT"}) : code \in Quick}

CancelPrograms ==
    {Program({[Machine EXCEPT !.SP = sp, !.HL = 8192, !.IX = 513, !.PC = 16384] : sp \in {65534, 65535, 0, 1}},
             Bytes(16384, s) @@ Data @@ Around, {}) : s \in Inverses}

LoopPrograms ==
    {Program({[Cleared EXCEPT !.PC = 65534, !.BC = b * 256, !.DE = 65534] : b \in {0, 1, 2, 129}},
             Bytes(65534, <<19, 16, 253>>), {})}

(* CPIR from a counter of 0, for a byte that is not there: the whole range.*)
FullRange ==
    {Program({[Cleared EXCEPT !.PC = 65534, !.AF = 19200, !.SP = 20480]},
             Bytes(65534, <<237, 177>>) @@ Bytes(8192, <<10, 28>>), {})}

MCPrograms == AluPrograms \cup DaaPrograms \cup OnA \cup OnB \cup WidePrograms \cup SweepPrograms
                \cup BlockPrograms \cup FullRange \cup QuickPrograms \cup CancelPrograms
                \cup LoopPrograms

(* An opcode without function and SCF; LD R,A and LD A,R.                  *)
StaleQ   == {Sweep(<<237, 0, 55>>)}
RThrough == {OnBytes(<<237, 79, 237, 95>>, Words({0, 127, 128, 255}, {0}), {0})}

(* The programs that adjust, loop, index or transfer do nothing else, as   *)
(* the theorems on whole programs assume.                                  *)
ASSUME ProgramsAlone ==
    AdjustsAlone /\ LoopsAlone /\ IndexedAlone /\ BlocksAside /\ BlocksOffStack /\ InversesApart
=============================================================================
