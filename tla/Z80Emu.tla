------------------------------- MODULE Z80Emu -------------------------------
(***************************************************************************)
(* The whole of z80emu::clock(), one step per edge of CLK: the cycles run  *)
(* on the pins as in Z80Bus, and the falling edge that finishes one runs   *)
(* the decoder and polls the interrupts as in Z80Control.  What the layers *)
(* assume of each other is a choice in either of them and a fact here: the *)
(* next cycle is the one the decoder has staged, INT has the level of the  *)
(* last rising edge, HALT is read from the pins the cycle left behind, and *)
(* RESET cuts where the edge finds the cycle.                              *)
(***************************************************************************)
EXTENDS Z80Cycles

CONSTANTS
    Opcodes, PCMod, CutAnywhere,    \* as in Z80Control
    Hosts                           \* for each host, the lines it pulls after power-on

ASSUME HostsAssumption ==
    Hosts \subseteq SUBSET {"reset", "wait", "busreq", "int", "nmi"}
ASSUME ProgramAssumption ==
    /\ Opcodes \subseteq 0..255 /\ Opcodes # {}
    /\ PCMod \in Nat \ {0} /\ CutAnywhere \in BOOLEAN

VARIABLES
    clk, t, left, halt, busrel, pins, por, resetCycles, resetM1T2,  \* see Z80Bus
    eff, seen, cut, regs,
    cyc, dec, instr, op, cbInstr, taken, pc, iff1, iff2, im, nmiff, \* see Z80Control
    nmiSkip, intSkip, nmiPend, intPend, resume, saved, elapsed, acked,
    fault,     \* a cycle threw
    intpin,    \* _intpin: INT was low on the last rising edge of a cycle
    host,      \* which of the hosts this is
    ticks      \* history: T states clocked in this cycle, neither waited nor released

lineVars    == <<clk, t, left, halt, busrel, pins, por, resetCycles, resetM1T2,
                 eff, seen, cut, regs, intpin, host, ticks>>
decoderVars == <<cyc, dec, instr, op, cbInstr, taken, pc, iff1, iff2, im, nmiff,
                 nmiSkip, intSkip, nmiPend, intPend, resume, saved, elapsed, acked>>
vars        == <<lineVars, decoderVars, fault>>

(* The special reset is still possible.                                    *)
Special == resetCycles = 1 /\ resetM1T2

Bus     == INSTANCE Z80Bus WITH cyc <- cyc.kind, BogusLengths <- 1..7
Control == INSTANCE Z80Control WITH special <- Special, Interrupts <- TRUE

(* Every host has to pull RESET once, to start the CPU.                    *)
Inputs == {in \in [reset : BOOLEAN, wait : BOOLEAN, busreq : BOOLEAN, int : BOOLEAN] :
              \A line \in DOMAIN in :
                 in[line] => line \in host \/ (line = "reset" /\ ~por)}

-----------------------------------------------------------------------------
(* A rising edge that goes on with a cycle samples INT whichever it is, but*)
(* only the timed ones look at WAIT and BUSREQ.                            *)
Rise(in) ==
    /\ UNCHANGED decoderVars
    /\ Bus!RaiseClk(in) \/ (Bus!RaiseBogus(in) /\ UNCHANGED fault)
    /\ intpin' = in.int
    /\ ticks' = IF cyc.kind \in Timed /\ (t' = t \/ t' > LastT[cyc.kind])
                THEN ticks ELSE ticks + 1

(* RESET: what the decoder was doing stays as it is.  If an opcode behind  *)
(* DD CB d was being read, the byte there is the new one or, before the    *)
(* latch, one of an earlier instruction.                                   *)
ResetLow(in) ==
    /\ CutAnywhere \/ dec = Control!IdleDecoder
    /\ cyc' = Control!InReset
    /\ cbInstr' \in {cbInstr} \cup Control!LatchedCbOpcodes
    /\ Bus!ResetLow(in)
    /\ ticks' = 0
    /\ UNCHANGED <<dec, instr, op, taken, pc, iff1, iff2, im, nmiff, nmiSkip, intSkip,
                   nmiPend, intPend, resume, saved, elapsed, acked, intpin>>

ResetExit(in) ==
    /\ cyc' = Control!Fetch(FALSE)
    /\ Bus!ResetExit(in)
    /\ Control!ResetExit
    /\ intpin' = in.int
    /\ ticks' = IF t' = 0 THEN 1 ELSE 0

Idle(in) ==
    /\ UNCHANGED <<decoderVars, intpin, ticks>>
    /\ Bus!Idle(in)

-----------------------------------------------------------------------------
(* (_pins.state & Z80_HALT) when an INT is accepted.                       *)
HaltSeen == "HALT" \in pins'.low

(* A wrong variant used by a mutant: z80_fetch_cycle::reset() does not     *)
(* clear _halt.                                                            *)
HaltFlagKept(c) == IF c.kind = "fetch" THEN halt \/ c.use = "halted" ELSE halt

(* _halt once cycle c has been started.                                    *)
HaltFlag(c) == IF c.kind = "fetch" THEN c.use = "halted" ELSE halt

(* start_*_cycle(): the cycle staged last, c, is the one that runs next; a *)
(* step that has staged none leaves the finished one where it is.          *)
Staged(c, l) ==
    /\ t'     = IF c.use = "expired" THEN t ELSE -1
    /\ halt'  = HaltFlag(c)
    /\ left'  = IF c.kind = "bogus" THEN c.n ELSE l
    /\ ticks' = 0

(* The rest of the call in which a cycle has finished, l being what is left*)
(* of its count: the decoder takes its step and the interrupts are polled. *)
Finish(l) ==
    /\ \E b \in Control!LatchedOpcodes, cb \in Control!LatchedCbOpcodes :
          Control!FinishWith(b, cb, [int |-> intpin, halted |-> HaltSeen])
    /\ Staged(cyc', l)

(* Falling edge inside a cycle that follows the T states.                  *)
Fall ==
    /\ clk /\ cyc.kind \in Timed
    /\ clk' = FALSE
    /\ LET past == t > LastT[cyc.kind]
           h    == 2 * t + 1
       IN  /\ pins' = IF past THEN pins ELSE Bus!PinsAt(cyc.kind, h, halt, pins)
           /\ eff'  = IF past THEN eff
                      ELSE Bus!Count(eff, Bus!EffectsAt(cyc.kind, h, halt, pins))
    /\ UNCHANGED <<busrel, por, resetCycles, resetM1T2, seen, cut, regs, intpin, fault>>
    /\ IF Bus!Finished(cyc.kind, t, busrel[cyc.kind])
         THEN Finish(left)
         ELSE UNCHANGED <<decoderVars, t, halt, left, ticks>>

FallBogus ==
    /\ clk /\ cyc.kind = "bogus"
    /\ clk' = FALSE
    /\ UNCHANGED <<busrel, pins, por, resetCycles, resetM1T2, eff, seen, cut, regs,
                   intpin, fault>>
    /\ IF Bus!BogusOver(left - 1)
         THEN Finish(left - 1)
         ELSE left' = left - 1 /\ UNCHANGED <<decoderVars, t, halt, ticks>>

(* One call of clock(), and trigger_nmi() between two calls.               *)
Clock(in) == Rise(in) \/ ResetLow(in) \/ ResetExit(in) \/ Idle(in) \/ Fall \/ FallBogus

TriggerNMI == "nmi" \in host /\ UNCHANGED lineVars /\ Control!TriggerNMI

Init ==
    /\ cyc = Control!InReset
    /\ Bus!Init /\ Control!Init
    /\ host \in Hosts
    /\ intpin = FALSE /\ ticks = 0

Next ==
    /\ ~fault /\ UNCHANGED host
    /\ TriggerNMI \/ \E in \in Inputs : Clock(in)

Spec == Init /\ [][Next]_vars

-----------------------------------------------------------------------------
(* Seen from the pins this is Z80Bus: the decoder starts, in every state   *)
(* RESET and the interrupts can bring it to, only cycles the bus layer     *)
(* allows for, and a halted fetch only where it may.                       *)
ImplementsBus == Bus!Spec

(* Seen from the decoder this is Z80Control, which takes one step for many *)
(* edges: HALT is never found low but behind a halted fetch, RESET keeps   *)
(* the registers only if it cut a fetch, a read byte is there in time.     *)
ImplementsControl == Control!Spec

(* However WAIT and BUSREQ stretch it, a cycle that finishes has clocked   *)
(* the T states that InstrTiming counts for it (README.md, "the same number*)
(* of cycles").                                                            *)
TStatesClocked ==
    [][(clk /\ ~clk' /\ ticks # 0 /\ ticks' = 0) => ticks = Control!TStates(cyc)]_vars
=============================================================================
