----------------------------- MODULE Z80Control -----------------------------
(***************************************************************************)
(* The control side of the emulator, one step per machine cycle: the call  *)
(* of z80emu::clock() in which a cycle finishes, with all it does then.    *)
(* That is the cycle's last effects, z80_instr_decoder::start() or         *)
(* next_step(), the instruction step those run, and the polling of NMI and *)
(* INT.  RESET may cut any cycle, trigger_nmi() may come between any two   *)
(* steps, and INT may have been sampled low or high.  How a cycle runs on  *)
(* the pins is Z80Bus.                                                     *)
(*                                                                         *)
(* Data is left out: what an instruction computes, and with it whether a   *)
(* condition holds and where a jump through data leads, is any value.      *)
(***************************************************************************)
EXTENDS Z80Decode, Z80Timing

CONSTANTS
    Opcodes,      \* bytes found in memory or put on the bus where an opcode is read
    PCMod,        \* PC is kept modulo PCMod
    Interrupts,   \* the host raises NMI and INT
    CutAnywhere   \* RESET may also cut an instruction that is under way

ASSUME OpcodesAssumption == Opcodes \subseteq Bytes /\ Opcodes # {}
ASSUME PCModAssumption   == PCMod \in Nat \ {0}
ASSUME HostAssumption    == Interrupts \in BOOLEAN /\ CutAnywhere \in BOOLEAN

VARIABLES
    cyc,       \* _cycle and what the cycle object was reset() with
    dec,       \* z80_instr_decoder: _started, _step, _subset, _mod and the ready flags
    instr,     \* regs.instr
    op,        \* _x, _y and _z: the opcode last decoded
    cbInstr,   \* _mod_cb_instr, 0 once it has been used
    taken,     \* the condition the flags decide for the instruction under way
    pc,        \* regs.PC
    iff1, iff2, im,      \* regs.iff1, iff2 and int_mode
    nmiff,     \* _nmiff
    nmiSkip, intSkip,    \* _nmi_skip and _int_skip
    nmiPend, intPend,    \* _nmi_pending and _int_pending
    special,   \* RESET was low for a single edge, in T2 of a fetch
    fault,     \* a cycle threw "Invalid T cycle"
    resume,    \* history: PC when the interrupt under way was accepted
    saved,     \* history: IFF1 at the NMI whose handler has not touched it since
    elapsed,   \* history: T states of the finished cycles of this instruction
    acked      \* history: its opcode came from an interrupt acknowledge

vars == <<cyc, dec, instr, op, cbInstr, taken, pc, iff1, iff2, im, nmiff, nmiSkip,
          intSkip, nmiPend, intPend, special, fault, resume, saved, elapsed, acked>>

-----------------------------------------------------------------------------
(* A wrong variant used by a mutant: PC does not wrap around.              *)
AddrUnwrapped(n) == n

Addr(n) == n % PCMod
PCs == 0..PCMod - 1
NmiVector == Addr(102)     \* 0x66
IntVector == Addr(56)      \* 0x38

Prefixes == {221, 253, 203, 237}     \* DD, FD, CB, ED

(* The decoder between two instructions, as reset() leaves it.             *)
IdleDecoder == [started |-> FALSE, step |-> 0, subset |-> "none", mod |-> "none",
                dReady |-> FALSE, hlReady |-> FALSE, cbFetched |-> FALSE]

InReset == Cycle(NoCycle, "reset", 0)

-----------------------------------------------------------------------------
(* What the cycle itself has done by the time it finishes.                 *)

(* Bytes regs.instr may now hold: a fetch and a mode 0 acknowledge latch   *)
(* the opcode, a halted fetch a NOP, anything else leaves the last one.    *)
LatchedOpcodes ==
    CASE cyc.use = "opcode" -> Opcodes
      [] cyc.use = "halted" -> {0}
      [] OTHER              -> {instr}

(* Bytes _mod_cb_instr may now hold.                                       *)
LatchedCbOpcodes == IF cyc.use = "cbop" THEN Opcodes ELSE {cbInstr}

(* PC after T4 of a fetch that does not halt.                              *)
PCAfterCycle == IF cyc.kind = "fetch" /\ cyc.use = "opcode" THEN Addr(pc + 1) ELSE pc

(* T states of the instruction so far, the cycle finishing now included.   *)
Elapsed == elapsed + TStates(cyc)
Acked   == acked \/ cyc.kind = "intack"

-----------------------------------------------------------------------------
(* start_fetch_cycle() takes back both pending flags, no other cycle does. *)
PendingAfter(pend, c) == pend /\ c.kind # "fetch"

(* INT is acted upon.                                                      *)
PollsInt(int, enabled, skip) == int /\ enabled /\ ~skip

(* NMI is acted upon.                                                      *)
PollsNmi(skip) == nmiff /\ ~skip

(* A wrong variant used by a mutant: a non-maskable interrupt forgets the  *)
(* interrupt flip-flop it must save.                                       *)
SavedIFF1Lost(i1, i2) == i2

(* IFF2 on acceptance of an NMI.                                           *)
SavedIFF1(i1, i2) == i1

(* A wrong variant used by a mutant: a skip flag once set stays set.       *)
SkipKept(skip) == skip

(* _nmi_skip and _int_skip when an instruction ended uninterrupted.        *)
SkipAfter(skip) == FALSE

(* Second half of clock() when the decoder is not executing: c has been    *)
(* staged, i1, i2, p are the flip-flops and PC the instruction left, skipN *)
(* and skipI the two skip flags.  in.int says that INT was low when it was *)
(* sampled last, in.halted that the HALT pin is low now.                   *)
AcceptNMI(c, i1, i2, p, skipN, skipI) ==
    /\ PollsNmi(skipN)
    /\ cyc' = c /\ pc' = p
    /\ iff1' = FALSE /\ iff2' = SavedIFF1(i1, i2)
    /\ nmiff' = FALSE /\ nmiPend' = TRUE /\ intPend' = PendingAfter(intPend, c)
    /\ nmiSkip' = skipN /\ intSkip' = skipI
    /\ resume' = p /\ saved' = {i1}

AcceptINT(c, i1, i2, p, skipN, skipI, in) ==
    /\ ~PollsNmi(skipN) /\ PollsInt(in.int, i1, skipI)
    /\ cyc' = Intack(im')
    /\ pc' = IF im' # 0 /\ in.halted THEN Addr(p + 1) ELSE p
    /\ iff1' = FALSE /\ iff2' = i2
    /\ nmiPend' = PendingAfter(nmiPend, c)
    /\ intPend' = (im' # 0 \/ PendingAfter(intPend, c))
    /\ nmiSkip' = skipN /\ intSkip' = skipI
    /\ resume' = IF im' = 0 THEN resume ELSE p
    /\ saved' = {}
    /\ UNCHANGED nmiff

NoInterrupt(c, i1, i2, p, skipN, skipI, in) ==
    /\ ~PollsNmi(skipN) /\ ~PollsInt(in.int, i1, skipI)
    /\ cyc' = c /\ pc' = p
    /\ iff1' = i1 /\ iff2' = i2
    /\ nmiPend' = PendingAfter(nmiPend, c) /\ intPend' = PendingAfter(intPend, c)
    /\ nmiSkip' = SkipAfter(skipN) /\ intSkip' = SkipAfter(skipI)
    /\ resume' = IF nmiPend' \/ intPend' THEN resume ELSE 0
    /\ saved' = IF i1 = iff1 /\ i2 = iff2 THEN saved ELSE {}
    /\ UNCHANGED nmiff

Poll(c, i1, i2, p, skipN, skipI, in) ==
    \/ AcceptNMI(c, i1, i2, p, skipN, skipI)
    \/ AcceptINT(c, i1, i2, p, skipN, skipI, in)
    \/ NoInterrupt(c, i1, i2, p, skipN, skipI, in)

-----------------------------------------------------------------------------
(* A step that starts a further cycle c and leaves decoder state d.        *)
Stay(c, d, i1, p) ==
    /\ cyc' = c /\ dec' = d /\ pc' = p /\ iff1' = i1
    /\ elapsed' = Elapsed /\ acked' = Acked
    /\ saved' = IF i1 = iff1 THEN saved ELSE {}
    /\ UNCHANGED <<iff2, nmiff, nmiSkip, intSkip, nmiPend, intPend, resume>>

(* A wrong variant used by a mutant: the ready flag of the displacement    *)
(* byte survives into the next instruction.                                *)
ResetKeepsDReady(d) == [IdleDecoder EXCEPT !.dReady = d.dReady]

(* A wrong variant used by a mutant: reset() leaves _started set.          *)
ResetKeepsStarted(d) == [IdleDecoder EXCEPT !.started = d.started]

(* reset(): the decoder state it leaves.                                   *)
ResetDecoder(d) == IdleDecoder

(* A step that calls reset(): the instruction has ended, a fetch is staged *)
(* and the interrupts are polled.                                          *)
End(d, hlt, i1, i2, p, skipI, in) ==
    /\ dec' = ResetDecoder(d)
    /\ elapsed' = 0 /\ acked' = FALSE
    /\ Poll(Fetch(hlt), i1, i2, p, nmiSkip, skipI, in)

-----------------------------------------------------------------------------
(* start() on a prefix byte: the subset or the modifier is noted and the   *)
(* next byte is asked for, with both kinds of interrupt held off.          *)
Prefixed(b) ==
    CASE b = 221 -> [dec EXCEPT !.mod = "DD"]
      [] b = 253 -> [dec EXCEPT !.mod = "FD"]
      [] b = 203 -> [dec EXCEPT !.subset = "CB", !.dReady = dec.mod # "none"]
      [] OTHER   -> [dec EXCEPT !.subset = "ED", !.mod = "none"]

(* A wrong variant used by a mutant: a prefix leaves NMI enabled.          *)
PrefixOpenToNmi == FALSE

(* start() calls both skip functions before it returns for a prefix.       *)
PrefixSkipsNmi == TRUE

(* A wrong variant used by a mutant: the opcode an NMI makes start() ignore*)
(* is looked at all the same.                                              *)
AtPrefixDespiteNmi(b) == ~dec.started /\ dec.subset = "none" /\ b \in Prefixes

(* start() has a prefix byte in regs.instr; an NMI makes it look no further.*)
AtPrefix(b) == ~dec.started /\ ~nmiPend /\ dec.subset = "none" /\ b \in Prefixes

Prefix(b, in) ==
    LET p    == PCAfterCycle
        disp == b = 203 /\ dec.mod # "none"     \* DDCB and FDCB: d comes first
    IN  /\ AtPrefix(b)
        /\ instr' = b /\ UNCHANGED <<op, cbInstr, taken, im>>
        /\ dec' = Prefixed(b)
        /\ elapsed' = (IF b = 203 THEN Elapsed ELSE TStates(cyc))
        /\ acked' = (IF b = 203 THEN Acked ELSE cyc.kind = "intack")
        /\ Poll(IF disp THEN Cycle("memRead", "d", 0) ELSE Fetch(FALSE), iff1, iff2,
                IF disp THEN Addr(p + 1) ELSE p, PrefixSkipsNmi, TRUE, in)

(* start() after DDCB or FDCB: the opcode is read as data, then two more T *)
(* states pass while the pointer is calculated.                            *)
InDdCb == dec.subset = "CB" /\ dec.mod # "none"
AtDdCb == ~dec.started /\ ~nmiPend /\ InDdCb /\ ~(dec.cbFetched /\ dec.hlReady)

DdCb(b, cb, in) ==
    LET p == PCAfterCycle
    IN  /\ AtDdCb
        /\ instr' = b /\ cbInstr' = cb /\ UNCHANGED <<op, taken, im>>
        /\ elapsed' = Elapsed /\ acked' = Acked
        /\ IF dec.cbFetched
             THEN /\ dec' = [dec EXCEPT !.hlReady = TRUE]
                  /\ Poll(Idle(2), iff1, iff2, p, PrefixSkipsNmi, TRUE, in)
             ELSE /\ dec' = [dec EXCEPT !.cbFetched = TRUE]
                  /\ Poll(Cycle("memRead", "cbop", 0), iff1, iff2, Addr(p + 1),
                          PrefixSkipsNmi, TRUE, in)

-----------------------------------------------------------------------------
(* next_step() for an interrupt: d is the decoder, p is PC.  The first step*)
(* of an NMI takes back what its fetch added to PC.                        *)
Stepped(d) == [d EXCEPT !.step = @ + 1]

(* A wrong variant used by a mutant: an NMI returns behind the instruction.*)
NmiRewindMissing(p) == p

NmiRewind(p) == Addr(p + PCMod - 1)

NmiStep(d, p, in) ==
    /\ UNCHANGED im
    /\ \/ d.step = 0 /\ Stay(Idle(1), Stepped(d), iff1, NmiRewind(p))
       \/ d.step \in 1..2 /\ Stay(Push, Stepped(d), iff1, p)
       \/ d.step > 2 /\ End(d, FALSE, iff1, iff2, NmiVector, intSkip, in)

IntStep(d, p, in) ==
    /\ UNCHANGED im
    /\ \/ d.step = 0 /\ Stay(Idle(1), Stepped(d), iff1, p)
       \/ d.step \in 1..2 /\ Stay(Push, Stepped(d), iff1, p)
       \/ d.step = 3 /\ im = 1 /\ End(d, FALSE, iff1, iff2, IntVector, intSkip, in)
       \/ d.step = 3 /\ im # 1 /\ Stay(Read, Stepped(d), iff1, p)
       \/ d.step = 4 /\ Stay(Read, Stepped(d), iff1, p)
       \/ d.step > 4 /\ \E q \in PCs : End(d, FALSE, iff1, iff2, q, intSkip, in)

-----------------------------------------------------------------------------
(* next_step() for opcode o: either process_hlptr() asks for the pointer   *)
(* first, and the step is taken again, or the step's cycle of the plan is  *)
(* started, or the plan is at its end.                                     *)
NeedsD(d, o) ==
    d.subset = "none" /\ d.mod # "none" /\ d.step = 0 /\ UsesPtr(o) /\ ~d.dReady

NeedsPtr(d, o) ==
    /\ d.subset = "none" /\ d.mod # "none" /\ UsesPtr(o) /\ ~d.hlReady
    /\ IF LdPtrImm(o) THEN d.step = 1 ELSE d.step = 0 /\ d.dReady

(* PC as cycle c is started, and the PCs an instruction may end with.      *)
PCAtStart(c, p) ==
    CASE c.use = "imm"    -> {Addr(p + 1)}
      [] c.use = "jump"   -> PCs
      [] c.use = "rewind" -> {Addr(p + 2 * PCMod - 2)}
      [] OTHER            -> {p}

PCAtEnd(d, o, tk, p) ==
    IF IsRST(d.subset, o) THEN {Addr(8 * Y(o))}
    ELSE IF LoadsPC(d.subset, o, tk) THEN PCs
    ELSE {p}

(* The flip-flops: RETN restores IFF1 in its first step, DI and EI write   *)
(* both.                                                                   *)
IFF1AtStart(d, o) == IF IsRETN(d.subset, o) /\ d.step = 0 THEN iff2 ELSE iff1
IFFAtEnd(d, o, iff) == (iff \/ IsEI(d.subset, o)) /\ ~IsDI(d.subset, o)

(* A wrong variant used by a mutant: INT may be taken right after EI.      *)
EIShadowMissing(d, o) == FALSE

(* EI calls skip_int_handling().                                           *)
EIShadow(d, o) == IsEI(d.subset, o)

ReadDisplacement(d, p) ==
    Stay(Cycle("memRead", "d", 0), [d EXCEPT !.dReady = TRUE], iff1, Addr(p + 1))

CalculatePtr(d, o, p) ==
    Stay(Idle(IF LdPtrImm(o) THEN 2 ELSE 5), [d EXCEPT !.hlReady = TRUE], iff1, p)

StartCycle(d, o, c, p) ==
    \E q \in PCAtStart(c, p) : Stay(c, Stepped(d), IFF1AtStart(d, o), q)

EndInstruction(d, o, tk, p, in) ==
    /\ im' = IF IsIM(d.subset, o) THEN IntMode(o) ELSE im
    /\ \E q \in PCAtEnd(d, o, tk, p) :
          End(d, IsHALT(d.subset, d.mod, o), IFFAtEnd(d, o, iff1), IFFAtEnd(d, o, iff2),
              q, intSkip \/ EIShadow(d, o), in)

(* The switch of exec_ed_q2() has no case: the finished cycle stays.       *)
StartNothing(d, p) ==
    Stay([cyc EXCEPT !.use = "expired"], Stepped(d), iff1, p)

ExecStep(d, o, tk, p, in) ==
    LET plan == Plan(d.subset, d.mod, o, tk)
    IN  \/ UNCHANGED im /\ NeedsD(d, o)   /\ ReadDisplacement(d, p)
        \/ UNCHANGED im /\ NeedsPtr(d, o) /\ CalculatePtr(d, o, p)
        \/ /\ UNCHANGED im
           /\ ~NeedsD(d, o) /\ ~NeedsPtr(d, o)
           /\ d.step < Len(plan) /\ StartCycle(d, o, plan[d.step + 1], p)
        \/ UNCHANGED im /\ Hole(d.subset, o) /\ StartNothing(d, p)
        \/ /\ ~Hole(d.subset, o)
           /\ d.step >= Len(plan) /\ EndInstruction(d, o, tk, p, in)

NextStep(d, o, tk, p, in) ==
    IF nmiPend THEN NmiStep(d, p, in)
    ELSE IF intPend THEN IntStep(d, p, in)
    ELSE ExecStep(d, o, tk, p, in)

(* Values the condition of an instruction about to begin may take.         *)
Conditional(d, o) ==
    /\ ~nmiPend /\ ~intPend
    /\ \/ Plan(d.subset, d.mod, o, TRUE) # Plan(d.subset, d.mod, o, FALSE)
       \/ LoadsPC(d.subset, o, TRUE) # LoadsPC(d.subset, o, FALSE)
Conditions(d, o) == IF Conditional(d, o) THEN BOOLEAN ELSE {FALSE}

(* start() goes on to decode, unless for an NMI, and runs the first step.  *)
Begin(b, in) ==
    LET o == IF InDdCb THEN cbInstr ELSE b
        d == [dec EXCEPT !.started = TRUE, !.step = 0]
    IN  /\ ~dec.started /\ ~AtPrefix(b) /\ ~AtDdCb
        /\ IF nmiPend THEN instr' = b /\ UNCHANGED <<op, cbInstr>>
                      ELSE instr' = o /\ op' = o /\ cbInstr' = 0
        /\ \E tk \in Conditions(d, o) :
              /\ NextStep(d, o, tk, PCAfterCycle, in)
              /\ taken' = (dec'.started /\ tk)

(* next_step() of an instruction under way.  exec_main_q1() looks for HALT *)
(* in regs.instr, not in the decoded opcode.                               *)
Continue(b, in) ==
    LET o == IF dec.subset = "none" /\ X(op) = 1 /\ b = 118 THEN b ELSE op
    IN  /\ dec.started
        /\ instr' = b /\ UNCHANGED <<op, cbInstr>>
        /\ NextStep(dec, o, taken, PCAfterCycle, in)
        /\ taken' = (dec'.started /\ taken)

(* The call of clock() in which the current cycle finishes, with opcode    *)
(* bytes b and cb now in their places and the pins as in in.               *)
FinishWith(b, cb, in) ==
    /\ cyc.kind # NoCycle /\ cyc.use # "expired"
    /\ UNCHANGED <<special, fault>>
    /\ Prefix(b, in) \/ DdCb(b, cb, in) \/ Begin(b, in) \/ Continue(b, in)

(* The HALT pin stays low after a halted fetch, unless the bus was released*)
(* at its end: the released pins drive it high.                            *)
HaltPins == IF cyc.use = "halted" THEN BOOLEAN ELSE {FALSE}

PinsSeen == [int : IF Interrupts THEN BOOLEAN ELSE {FALSE}, halted : HaltPins]

FinishCycle ==
    \E in \in PinsSeen,
       b \in LatchedOpcodes, cb \in LatchedCbOpcodes : FinishWith(b, cb, in)

(* A cycle that finished without a successor is clocked once more; a host  *)
(* that catches the exception meets it again on every further T state.     *)
Throw ==
    /\ cyc.use = "expired"
    /\ fault' = TRUE
    /\ UNCHANGED <<cyc, dec, instr, op, cbInstr, taken, pc, iff1, iff2, im, nmiff,
                   nmiSkip, intSkip, nmiPend, intPend, special, resume, saved,
                   elapsed, acked>>

(* trigger_nmi(): the flip-flop remembers one edge of NMI.                 *)
TriggerNMI ==
    /\ Interrupts /\ ~nmiff
    /\ nmiff' = TRUE
    /\ UNCHANGED <<cyc, dec, instr, op, cbInstr, taken, pc, iff1, iff2, im,
                   nmiSkip, intSkip, nmiPend, intPend, special, fault, resume,
                   saved, elapsed, acked>>

(* RESET low at a rising edge: the cycle is gone, all else stays.  A fetch *)
(* may have been about to begin T2; RESET may then stay low.  A read may   *)
(* have been past its latch, the bus released.                             *)
ResetLow ==
    /\ CutAnywhere \/ dec = IdleDecoder
    /\ cyc' = InReset
    /\ special' \in (IF cyc.kind = "fetch" /\ cyc.use # "expired" THEN BOOLEAN ELSE {FALSE})
    /\ cbInstr' \in {cbInstr} \cup LatchedCbOpcodes
    /\ UNCHANGED <<dec, instr, op, taken, pc, iff1, iff2, im, nmiff,
                   nmiSkip, intSkip, nmiPend, intPend, fault, resume, saved,
                   elapsed, acked>>

(* RESET high again: PC is cleared, or all registers are, and a fetch is   *)
(* started.  The flags may decide a pending condition differently now.     *)
ResetExit ==
    /\ cyc = InReset
    /\ cyc' = Fetch(FALSE) /\ nmiPend' = FALSE /\ intPend' = FALSE
    /\ pc' = 0
    /\ IF special THEN UNCHANGED <<instr, iff1, iff2, im>>
                  ELSE instr' = 0 /\ iff1' = FALSE /\ iff2' = FALSE /\ im' = 0
    /\ taken' \in (IF dec.started /\ ~special THEN BOOLEAN ELSE {taken})
    /\ special' = FALSE
    /\ resume' = 0 /\ saved' = {} /\ elapsed' = 0 /\ acked' = FALSE
    /\ UNCHANGED <<dec, op, cbInstr, nmiff, nmiSkip, intSkip, fault>>

(* RESET has been pulled after power-on; no register has a value that      *)
(* anything reads before the exit writes it.                               *)
Init ==
    /\ cyc = InReset /\ dec = IdleDecoder
    /\ instr = 0 /\ op = 0 /\ cbInstr = 0 /\ taken = FALSE
    /\ pc = 0 /\ iff1 = FALSE /\ iff2 = FALSE /\ im = 0
    /\ nmiff = FALSE /\ nmiSkip = FALSE /\ intSkip = FALSE
    /\ nmiPend = FALSE /\ intPend = FALSE
    /\ special = FALSE /\ fault = FALSE
    /\ resume = 0 /\ saved = {} /\ elapsed = 0 /\ acked = FALSE

Next == FinishCycle \/ Throw \/ TriggerNMI \/ ResetLow \/ ResetExit

Spec == Init /\ [][Next]_vars

-----------------------------------------------------------------------------
DecoderType ==
    [started : BOOLEAN, step : Nat, subset : {"none", "CB", "ED"},
     mod : {"none", "DD", "FD"}, dReady : BOOLEAN, hlReady : BOOLEAN,
     cbFetched : BOOLEAN]

(* Every variable keeps to its range; in particular PC wraps around and no *)
(* instruction runs past the steps its executor has (instr_decoder.h), but *)
(* for the empty slots, which RESET alone can stop from counting.          *)
TypeOK ==
    /\ cyc \in [kind : Kinds \cup {NoCycle}, use : Uses, n : 0..7]
    /\ dec \in DecoderType /\ (dec.step > 6 => Hole(dec.subset, op))
    /\ instr \in Bytes /\ op \in Bytes /\ cbInstr \in Bytes
    /\ taken \in BOOLEAN
    /\ pc \in PCs /\ resume \in PCs
    /\ iff1 \in BOOLEAN /\ iff2 \in BOOLEAN /\ im \in 0..2
    /\ nmiff \in BOOLEAN /\ nmiSkip \in BOOLEAN /\ intSkip \in BOOLEAN
    /\ nmiPend \in BOOLEAN /\ intPend \in BOOLEAN
    /\ special \in BOOLEAN /\ fault \in BOOLEAN
    /\ saved \in {{}, {FALSE}, {TRUE}}
    /\ elapsed \in Nat /\ acked \in BOOLEAN

(* Every opcode has a next cycle when one finishes, so that no cycle is    *)
(* clocked past its end and throws.                                        *)
NoThrow == ~fault

(* A byte fetched as an opcode or given by an interrupt acknowledge always *)
(* meets a decoder that has not started: it is decoded (z80emu.cpp,        *)
(* "exiting fetch/interrupt acknowledgment cycle - start decoding").       *)
FetchStartsDecode ==
    cyc.kind \in {"fetch", "intack"} /\ cyc.use # "expired" => ~dec.started

(* The cycles the decoder starts follow each other as Z80Bus assumes.      *)
CycleOrder ==
    [][(cyc.kind # NoCycle /\ cyc' # cyc /\ cyc'.kind # NoCycle
          /\ cyc'.use # "expired")
          => cyc'.kind \in Follows[cyc.kind]]_vars

(* A call of clock() in which an instruction, or the response to an        *)
(* interrupt, ends.                                                        *)
Ends == cyc.kind # NoCycle /\ cyc'.kind # NoCycle /\ elapsed' = 0 /\ (nmiff' => nmiff)

OpcodeEnding == IF dec.started THEN op ELSE instr'

(* Every instruction, prefixes included, and every interrupt response takes*)
(* the T states of a real Z80 (README.md, "the same number of cycles").    *)
InstrTiming ==
    [][Ends => Elapsed =
          IF nmiPend THEN NmiT
          ELSE IF intPend THEN IntT(im)
          ELSE InstructionT(dec.subset, dec.mod, OpcodeEnding, taken)
                 + (IF Acked THEN AckT ELSE 0)]_vars

-----------------------------------------------------------------------------
NmiAccepted == nmiPend' /\ ~nmiPend
IntAccepted == cyc'.kind = "intack" /\ cyc.kind # "intack"

(* An interrupt is accepted between instructions only: never between a     *)
(* prefix and what it modifies, with a displacement read or a pseudo opcode*)
(* outstanding, or between the steps of another interrupt's response.      *)
NoInterruptInside ==
    [][NmiAccepted \/ IntAccepted
          => dec' = IdleDecoder /\ ~(NmiAccepted /\ IntAccepted)]_vars

(* INT is accepted only if IFF1 was set before the instruction that ends   *)
(* now began to end, and never right behind EI: the instruction following  *)
(* EI is always executed (z80emu.cpp:66, instr_main_q3.cpp:261).           *)
EIDefersINT ==
    [][IntAccepted => iff1 /\ ~(IsEI(dec.subset, OpcodeEnding) /\ ~nmiPend /\ ~intPend)]_vars

(* What an NMI or an INT in mode 1 or 2 pushes is the address of the first *)
(* instruction not executed (z80emu.cpp:73, instr_decoder.cpp:83).         *)
ReturnAddress ==
    [][((nmiPend \/ intPend) /\ cyc'.use = "push") => pc' = resume]_vars

(* The same of INT alone, HALT included: the return address is that of the *)
(* instruction behind HALT (z80emu.cpp:73, "bring ourselves out of the HALT*)
(* instruction").                                                          *)
IntReturnAddress ==
    [][(intPend /\ ~nmiPend /\ cyc'.use = "push") => pc' = resume]_vars

(* An accepted interrupt is dropped before its return address is pushed.   *)
Dropped ==
    /\ (nmiPend /\ ~nmiPend') \/ (intPend /\ ~intPend')
    /\ cyc # InReset
    /\ ~(dec.started /\ dec.step >= 3)

(* An accepted interrupt is always served to the end, except INT behind an *)
(* instruction whose last opcode byte has the value of a prefix.           *)
InterruptServed == [][Dropped => ~nmiPend /\ instr \in Prefixes]_vars

(* An accepted interrupt is always served to the end (z80emu.cpp:72, "mark *)
(* as handling INT so instr_decoder can work on the rest").                *)
InterruptNeverDropped == [][~Dropped]_vars

(* RETN gives IFF1 the value it had when the NMI was accepted, as long as  *)
(* the handler has written neither flip-flop (z80emu.cpp:60).              *)
RetnRestores ==
    [][(/\ dec'.started /\ dec'.step = 1 /\ ~dec.started
        /\ IsRETN(dec.subset, op') /\ ~nmiPend /\ ~intPend /\ saved # {})
          => iff1' \in saved]_vars

(* HALT is left by an interrupt or RESET only: a halted fetch is followed  *)
(* by another one (fetch_cycle.cpp:42, "continue halting").                *)
HaltHolds ==
    [][(cyc.use = "halted" /\ cyc'.kind # NoCycle)
          => cyc'.use = "halted" \/ nmiPend' \/ IntAccepted]_vars

-----------------------------------------------------------------------------
(* The host keeps clocking, and memory does not hold prefixes only.        *)
BeginInstruction ==
    \E in \in PinsSeen,
       b \in LatchedOpcodes, cb \in LatchedCbOpcodes :
          ~AtPrefix(b) /\ FinishWith(b, cb, in)

FairSpec ==
    /\ Spec
    /\ WF_vars(FinishCycle)
    /\ WF_vars(ResetExit)
    /\ SF_vars(BeginInstruction)

(* An edge on NMI is accepted in the end, whatever instructions, prefixes  *)
(* and other interrupts are under way, unless RESET keeps coming.          *)
NmiTaken == <>[][~ResetLow]_vars => (nmiff ~> nmiPend)
=============================================================================
