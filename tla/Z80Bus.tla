------------------------------- MODULE Z80Bus -------------------------------
(***************************************************************************)
(* The pin side of the emulator: z80emu::clock() and the seven machine     *)
(* cycles it drives, one step per call, that is per edge of CLK.  What the *)
(* decoder does when a cycle finishes is a choice of the next cycle within *)
(* Z80Cycles!Follows; Z80Control models that choice.                       *)
(*                                                                         *)
(* A line is in pins.low while the CPU drives it low; pins.out says which  *)
(* groups of lines it drives: the address bus "A", the data bus "D", and   *)
(* "C", the strobes MREQ, IORQ, RD, WR and RFSH.  M1, HALT and BUSACK are  *)
(* always driven.                                                          *)
(***************************************************************************)
EXTENDS Z80Cycles

CONSTANT BogusLengths   \* lengths the decoder passes to start_bogus_cycle

ASSUME BogusLengthsAssumption == BogusLengths \subseteq Nat \ {0}

VARIABLES
    clk,          \* _clkpin: level of CLK
    cyc,          \* _cycle: kind of the current cycle, or NoCycle
    t,            \* _t of the current cycle, LastT + 1 once it is past its end
    left,         \* z80_bogus_cycle::_cycles
    halt,         \* z80_fetch_cycle::_halt
    busrel,       \* _bus_release, one flag in each cycle object
    pins,         \* _pins
    por,          \* _por
    resetCycles,  \* _reset_cycles, counted up to 2
    resetM1T2,    \* _reset_m1t2
    fault,        \* a cycle threw "Invalid T cycle"
    eff,          \* history: how often the current cycle has done each effect
    seen,         \* history: WAIT and BUSREQ at the last rising edge
    cut,          \* history: cycle and T state RESET first cut, edges it was held
    regs          \* history: what the last exit from reset did to the registers

vars == <<clk, cyc, t, left, halt, busrel, pins, por, resetCycles, resetM1T2,
          fault, eff, seen, cut, regs>>

-----------------------------------------------------------------------------
(* Input pins, TRUE when the line is low.                                  *)
Inputs == [reset : BOOLEAN, wait : BOOLEAN, busreq : BOOLEAN]

Lines  == {"M1", "MREQ", "IORQ", "RD", "WR", "RFSH", "HALT", "BUSACK"}
Groups == {"A", "D", "C"}
Addrs  == {"floating", "cycle", "refresh"}

PinsType == [low : SUBSET Lines, out : SUBSET Groups, addr : Addrs]

PinsInit    == [low |-> {},         out |-> {},         addr |-> "floating"]
PinsNominal == [low |-> {},         out |-> {"A", "C"}, addr |-> "cycle"]
PinsBusRel  == [low |-> {"BUSACK"}, out |-> {},         addr |-> "floating"]

Pull(p, ls)  == [p EXCEPT !.low = @ \cup ls]
Raise(p, ls) == [p EXCEPT !.low = @ \ ls]
Drive(p)     == [p EXCEPT !.out = @ \cup {"D"}]

-----------------------------------------------------------------------------
(* The switch of each cycle's clock(): the pins after half T state h, where*)
(* h = 2 * t on a rising edge and 2 * t + 1 on a falling one.              *)

(* A wrong variant used by a mutant: the strobes of the fetch are still low*)
(* when the refresh address comes out.                                     *)
FetchPinsStrobesHeld(h, hlt, p) ==
    CASE h = 0 -> Pull(PinsNominal, {"M1"} \cup (IF hlt THEN {"HALT"} ELSE {}))
      [] h = 1 -> Pull(p, {"MREQ", "RD"})
      [] h = 4 -> [Pull(Raise(p, {"M1"}), {"RFSH"}) EXCEPT !.addr = "refresh"]
      [] h = 5 -> Raise(p, {"RD"})
      [] h = 7 -> Raise(p, {"MREQ"})
      [] OTHER -> p

(* A wrong variant used by a mutant: HALT once low stays low.              *)
FetchPinsHaltKept(h, hlt, p) ==
    CASE h = 0 -> Pull(PinsNominal,
                       {"M1"} \cup (IF hlt THEN {"HALT"} ELSE p.low \cap {"HALT"}))
      [] h = 1 -> Pull(p, {"MREQ", "RD"})
      [] h = 4 -> [Pull(Raise(p, {"MREQ", "RD", "M1"}), {"RFSH"})
                     EXCEPT !.addr = "refresh"]
      [] h = 5 -> Pull(p, {"MREQ"})
      [] h = 7 -> Raise(p, {"MREQ"})
      [] OTHER -> p

FetchPins(h, hlt, p) ==
    CASE h = 0 -> Pull(PinsNominal, {"M1"} \cup (IF hlt THEN {"HALT"} ELSE {}))
      [] h = 1 -> Pull(p, {"MREQ", "RD"})
      [] h = 4 -> [Pull(Raise(p, {"MREQ", "RD", "M1"}), {"RFSH"})
                     EXCEPT !.addr = "refresh"]
      [] h = 5 -> Pull(p, {"MREQ"})
      [] h = 7 -> Raise(p, {"MREQ"})
      [] OTHER -> p

MemReadPins(h, p) ==
    CASE h = 0 -> PinsNominal
      [] h = 1 -> Pull(p, {"MREQ", "RD"})
      [] h = 5 -> Raise(p, {"MREQ", "RD"})
      [] OTHER -> p

(* A wrong variant used by a mutant: the data bus is never driven.         *)
MemWritePinsNoData(h, p) ==
    CASE h = 0 -> PinsNominal
      [] h = 1 -> Pull(p, {"MREQ"})
      [] h = 3 -> Pull(p, {"WR"})
      [] h = 5 -> Raise(p, {"MREQ", "WR"})
      [] OTHER -> p

MemWritePins(h, p) ==
    CASE h = 0 -> PinsNominal
      [] h = 1 -> Drive(Pull(p, {"MREQ"}))
      [] h = 3 -> Pull(p, {"WR"})
      [] h = 5 -> Raise(p, {"MREQ", "WR"})
      [] OTHER -> p

IoReadPins(h, p) ==
    CASE h = 0 -> PinsNominal
      [] h = 2 -> Pull(p, {"IORQ", "RD"})
      [] h = 7 -> Raise(p, {"IORQ", "RD"})
      [] OTHER -> p

IoWritePins(h, p) ==
    CASE h = 0 -> PinsNominal
      [] h = 1 -> Drive(p)
      [] h = 2 -> Pull(p, {"IORQ", "WR"})
      [] h = 7 -> Raise(p, {"IORQ", "WR"})
      [] OTHER -> p

IntackPins(h, p) ==
    CASE h = 0  -> Pull(PinsNominal, {"M1"})
      [] h = 5  -> Pull(p, {"IORQ"})
      [] h = 8  -> [Pull(Raise(p, {"IORQ"}), {"RFSH"}) EXCEPT !.addr = "refresh"]
      [] h = 9  -> Pull(p, {"MREQ"})
      [] h = 11 -> Raise(p, {"MREQ"})
      [] OTHER  -> p

PinsAt(k, h, hlt, p) ==
    CASE k = "fetch"    -> FetchPins(h, hlt, p)
      [] k = "memRead"  -> MemReadPins(h, p)
      [] k = "memWrite" -> MemWritePins(h, p)
      [] k = "ioRead"   -> IoReadPins(h, p)
      [] k = "ioWrite"  -> IoWritePins(h, p)
      [] OTHER          -> IntackPins(h, p)

-----------------------------------------------------------------------------
(* What a half cycle does outside the pins: the data bus or the opcode is  *)
(* latched, R is incremented, PC is incremented, a write is strobed.       *)
Effects == {"latch", "refresh", "advance", "write"}

EffectsAt(k, h, hlt, p) ==
    {e \in Effects :
        \/ e = "latch"   /\ \/ k = "fetch"   /\ h = 4
                            \/ k = "memRead" /\ h = 5
                            \/ k = "ioRead"  /\ h = 7
                            \/ k = "intack"  /\ h = 8
        \/ e = "refresh" /\ \/ k = "fetch"   /\ h = 5
                            \/ k = "intack"  /\ h = 9
        \/ e = "advance" /\ k = "fetch" /\ h = 7 /\ ~hlt
        \/ e = "write"   /\ "WR" \notin p.low
                         /\ "WR" \in PinsAt(k, h, hlt, p).low}

(* Counts saturate at 2: once and more than once is all that is told apart.*)
NoEffects == [e \in Effects |-> 0]
Count(f, es) == [e \in Effects |-> IF e \in es /\ f[e] < 2 THEN f[e] + 1 ELSE f[e]]

(* Effects a finished cycle must have had.                                 *)
Due(k, hlt) ==
    {e \in Effects :
        \/ e = "latch"   /\ k \in {"fetch", "memRead", "ioRead", "intack"}
        \/ e = "refresh" /\ k \in {"fetch", "intack"}
        \/ e = "advance" /\ k = "fetch" /\ ~hlt
        \/ e = "write"   /\ k \in {"memWrite", "ioWrite"}}

-----------------------------------------------------------------------------
(* start_*_cycle(): the next cycle is staged, its pins untouched.          *)
Start(k, hlt, n, l) ==
    /\ cyc'  = k
    /\ t'    = -1
    /\ halt' = IF k = "fetch" THEN hlt ELSE halt
    /\ left' = IF k = "bogus" THEN n ELSE l

(* The decoder's choice when a cycle of kind k has finished, with l left in*)
(* the count of bogus cycles.                                              *)
StartNext(k, l) ==
    \E k2 \in Follows[k], hlt \in BOOLEAN, n \in BogusLengths :
        /\ hlt => k2 = "fetch" /\ k \in MayHalt
        /\ Start(k2, hlt, n, l)

(* A wrong variant used by a mutant: the end of a released bus is missed.  *)
FinishedAtLastT(k, tt, rel) == tt = LastT[k] /\ ~rel

(* clock() returns true on a falling edge: at the end of the last T state, *)
(* or after it when no further T state is to be released.                  *)
Finished(k, tt, rel) == tt >= LastT[k] /\ ~rel

(* A wrong variant used by a mutant: not resampled while released.         *)
SamplesBusreqOnce(k, t1) == t1 = LastT[k]

(* sample_busreq() runs on the rising edge of the last T state, and of     *)
(* every later one.                                                        *)
SamplesBusreq(k, t1) == t1 >= LastT[k]

(* A rising edge of a timed cycle whose counter stands at t0.  WAIT low at *)
(* its sampling point steps the counter back; past the last T state the bus*)
(* is released if that was staged, otherwise the cycle throws.             *)
RaiseTimed(k, t0, hlt, f, in) ==
    LET t1        == IF t0 > LastT[k] THEN t0 ELSE t0 + 1
        stretched == t1 = WaitT[k] /\ in.wait
        past      == t1 > LastT[k]
    IN  /\ t' = IF stretched THEN t1 - 1 ELSE t1
        /\ busrel' = IF SamplesBusreq(k, t1) THEN [busrel EXCEPT ![k] = in.busreq]
                                             ELSE busrel
        /\ pins' = IF stretched THEN pins
                   ELSE IF past THEN PinsBusRel
                   ELSE PinsAt(k, 2 * t1, hlt, pins)
        /\ eff' = IF stretched \/ past THEN eff
                  ELSE Count(IF t1 = 0 THEN NoEffects ELSE f,
                             EffectsAt(k, 2 * t1, hlt, pins))
        /\ fault' = (past /\ ~busrel[k])
        /\ seen' = [wait |-> in.wait, busreq |-> in.busreq]

-----------------------------------------------------------------------------
NotCut == [kind |-> NoCycle, t |-> -1, held |-> 0]

Init ==
    /\ clk \in BOOLEAN
    /\ cyc = NoCycle /\ t = -1 /\ left = 0 /\ halt = FALSE
    /\ busrel = [k \in Timed |-> FALSE]
    /\ pins = PinsInit
    /\ por = FALSE /\ resetCycles = 0 /\ resetM1T2 = FALSE
    /\ fault = FALSE
    /\ eff = NoEffects
    /\ seen = [wait |-> FALSE, busreq |-> FALSE]
    /\ cut = NotCut
    /\ regs = "uninit"

(* set_clkpin(): the host sets the level of CLK before the CPU runs.       *)
SetClkpin(level) ==
    /\ cyc = NoCycle /\ ~por
    /\ clk' = level
    /\ UNCHANGED <<cyc, t, left, halt, busrel, pins, por, resetCycles,
                   resetM1T2, fault, eff, seen, cut, regs>>

(* RESET cuts a fetch on the rising edge that would have begun its T2.     *)
CutInM1T2 == cyc = "fetch" /\ t = 0

(* Rising edge with RESET low: the cycle is abandoned and the pins float.  *)
ResetLow(in) ==
    /\ ~clk /\ in.reset
    /\ clk' = TRUE
    /\ por' = TRUE
    /\ pins' = PinsInit
    /\ resetM1T2' = CutInM1T2
    /\ resetCycles' = IF resetCycles < 2 THEN resetCycles + 1 ELSE 2
    /\ cyc' = NoCycle /\ t' = -1
    /\ cut' = IF cyc = NoCycle
                THEN [cut EXCEPT !.held = IF @ < 2 THEN @ + 1 ELSE 2]
                ELSE [kind |-> cyc, t |-> t, held |-> 1]
    /\ UNCHANGED <<left, halt, busrel, fault, eff, seen, regs>>

(* A wrong variant used by a mutant: the count survives the exit.          *)
ResetCyclesKept == resetCycles

(* _reset_cycles after the exit from reset.                                *)
ResetCyclesAfterExit == 0

(* Rising edge with RESET high again: the registers are cleared, or only PC*)
(* is, a fetch is started, and its first half cycle runs in the same call. *)
ResetExit(in) ==
    /\ ~clk /\ ~in.reset /\ cyc = NoCycle /\ por
    /\ clk' = TRUE
    /\ regs' = IF resetCycles = 1 /\ resetM1T2 THEN "pcOnly" ELSE "cleared"
    /\ resetCycles' = ResetCyclesAfterExit
    /\ cyc' = "fetch" /\ halt' = FALSE
    /\ RaiseTimed("fetch", -1, FALSE, eff, in)
    /\ cut' = NotCut
    /\ UNCHANGED <<left, por, resetM1T2>>

(* Rising edge inside a cycle that follows the T states.                   *)
RaiseClk(in) ==
    /\ ~clk /\ ~in.reset /\ cyc \in Timed
    /\ clk' = TRUE
    /\ RaiseTimed(cyc, t, halt, eff, in)
    /\ UNCHANGED <<cyc, left, halt, por, resetCycles, resetM1T2, cut, regs>>

(* Falling edge inside such a cycle; the last one lets the decoder go on.  *)
FallClk ==
    /\ clk /\ cyc \in Timed
    /\ clk' = FALSE
    /\ IF t <= LastT[cyc]
         THEN /\ pins' = PinsAt(cyc, 2 * t + 1, halt, pins)
              /\ eff' = Count(eff, EffectsAt(cyc, 2 * t + 1, halt, pins))
         ELSE UNCHANGED <<pins, eff>>
    /\ IF Finished(cyc, t, busrel[cyc])
         THEN StartNext(cyc, left)
         ELSE UNCHANGED <<cyc, t, left, halt>>
    /\ UNCHANGED <<busrel, por, resetCycles, resetM1T2, fault, seen, cut, regs>>

(* Rising edge of a bogus cycle: no pin is sampled or driven.              *)
RaiseBogus(in) ==
    /\ ~clk /\ ~in.reset /\ cyc = "bogus"
    /\ clk' = TRUE
    /\ seen' = [wait |-> in.wait, busreq |-> in.busreq]
    /\ UNCHANGED <<cyc, t, left, halt, busrel, pins, por, resetCycles,
                   resetM1T2, fault, eff, cut, regs>>

(* A wrong variant used by a mutant: one cycle too many.                   *)
BogusOverrun(n) == n = -1

(* The count that ends a bogus cycle, after its decrement.                 *)
BogusOver(n) == n = 0

FallBogus ==
    /\ clk /\ cyc = "bogus"
    /\ clk' = FALSE
    /\ IF BogusOver(left - 1)
         THEN StartNext("bogus", left - 1)
         ELSE /\ left' = left - 1
              /\ UNCHANGED <<cyc, t, halt>>
    /\ UNCHANGED <<busrel, pins, por, resetCycles, resetM1T2, fault, eff, seen,
                   cut, regs>>

(* An edge without a cycle: before the first reset, or while held in it.   *)
Idle(in) ==
    /\ cyc = NoCycle
    /\ clk \/ (~in.reset /\ ~por)
    /\ clk' = ~clk
    /\ UNCHANGED <<cyc, t, left, halt, busrel, pins, por, resetCycles,
                   resetM1T2, fault, eff, seen, cut, regs>>

(* One call of z80emu::clock(), with every level of the input pins.        *)
Clock(in) ==
    \/ ResetLow(in)  \/ ResetExit(in)
    \/ RaiseClk(in)  \/ FallClk
    \/ RaiseBogus(in) \/ FallBogus
    \/ Idle(in)

(* A cycle that threw leaves nothing to continue with.                     *)
Next ==
    /\ ~fault
    /\ \/ \E in \in Inputs : Clock(in)
       \/ \E level \in BOOLEAN : SetClkpin(level)

Spec == Init /\ [][Next]_vars

-----------------------------------------------------------------------------
(* Every variable keeps to its range; the count of a running bogus cycle is*)
(* positive, so that its decrement meets 0, and T stays within one past the*)
(* end (cycle.h, bogus_cycle.cpp).                                         *)
TypeOK ==
    /\ clk \in BOOLEAN
    /\ cyc \in Kinds \cup {NoCycle}
    /\ t \in -1..6
    /\ cyc \in Timed => t <= LastT[cyc] + 1
    /\ left \in Nat
    /\ cyc = "bogus" => left > 0
    /\ halt \in BOOLEAN
    /\ busrel \in [Timed -> BOOLEAN]
    /\ pins \in PinsType
    /\ por \in BOOLEAN
    /\ resetCycles \in 0..2
    /\ resetM1T2 \in BOOLEAN
    /\ fault \in BOOLEAN
    /\ eff \in [Effects -> 0..2]
    /\ seen \in [wait : BOOLEAN, busreq : BOOLEAN]
    /\ cut \in [kind : Kinds \cup {NoCycle}, t : -1..6, held : 0..2]
    /\ regs \in {"uninit", "pcOnly", "cleared"}

(* No cycle is ever clocked past its end without a bus release staged: the *)
(* "Invalid T cycle" exceptions of the six clock() functions cannot occur  *)
(* as long as a next cycle is started whenever one finishes.               *)
NoThrow == ~fault

(* Rules of the bus that memory and devices rely on: never two directions  *)
(* or two address spaces at once, strobes only on a driven bus, data driven*)
(* for the whole of WR and never against RD, and nothing at all driven once*)
(* BUSACK has handed the bus over or RESET has cut a cycle.                *)
BusProtocol ==
    /\ ~({"RD", "WR"} \subseteq pins.low)
    /\ ~({"MREQ", "IORQ"} \subseteq pins.low)
    /\ pins.low \cap {"MREQ", "IORQ", "RD", "WR", "RFSH"} # {}
          => {"A", "C"} \subseteq pins.out /\ pins.addr # "floating"
    /\ "WR" \in pins.low => "D" \in pins.out
    /\ "RD" \in pins.low => "D" \notin pins.out
    /\ "BUSACK" \in pins.low => pins.out = {}
    /\ cyc = NoCycle => pins = PinsInit

(* While a strobe stays low the address and the lines driven with it do not*)
(* change, however long WAIT stretches the cycle.                          *)
AddressStable ==
    [][\A s \in {"MREQ", "IORQ", "RD", "WR"} :
          s \in pins.low /\ s \in pins'.low
             => pins'.addr = pins.addr /\ pins'.out = pins.out]_vars

(* From the end of the last T state on, BUSREQ as sampled one rising edge  *)
(* earlier in this very cycle decides: the bus is handed over for the next *)
(* T state exactly if it was low, otherwise the cycle finishes.  A flag    *)
(* left over in a cycle object by an earlier, abandoned use never decides. *)
BusGrant ==
    [][(/\ cyc \in Timed /\ t >= LastT[cyc]
        /\ clk' # clk /\ cyc' # NoCycle)
          => IF clk' THEN seen.busreq /\ "BUSACK" \in pins'.low
                     ELSE t' = -1 <=> ~seen.busreq]_vars

(* However WAIT and BUSREQ stretch it, a cycle that finishes has latched   *)
(* its byte, refreshed, advanced PC and strobed its write exactly as often *)
(* as its kind demands: once or never.                                     *)
EffectsOnce ==
    [][(cyc \in Timed /\ t # -1 /\ t' = -1 /\ cyc' # NoCycle)
          => \A e \in Effects :
                eff'[e] = (IF e \in Due(cyc, halt) THEN 1 ELSE 0)]_vars

(* A byte is taken from the data bus only after WAIT was seen high at the  *)
(* last rising edge, and while the strobe that asked for it is still low.  *)
LatchWhenReady ==
    [][eff'["latch"] > eff["latch"]
          => /\ ~seen'.wait
             /\ "RD" \in pins.low \/ {"M1", "IORQ"} \subseteq pins.low]_vars

(* RESET preserves the registers but PC exactly if it was low at a single  *)
(* rising edge and that edge was the one beginning T2 of an opcode fetch,  *)
(* whatever resets came before (z80emu.cpp, "special reset").              *)
SpecialReset ==
    [][(cyc = NoCycle /\ cyc' # NoCycle)
          => (regs' = "pcOnly" <=>
                cut = [kind |-> "fetch", t |-> 0, held |-> 1])]_vars

-----------------------------------------------------------------------------
(* The host keeps clocking, and the devices let go: WAIT is high at some   *)
(* point where it is sampled again and again, and so is BUSREQ.            *)
WaitReleased(in)   == cyc \in Timed /\ t + 1 = WaitT[cyc] /\ ~in.wait /\ RaiseClk(in)
BusreqReleased(in) == cyc \in Timed /\ t + 1 >= LastT[cyc] /\ ~in.busreq /\ RaiseClk(in)

FairSpec ==
    /\ Spec
    /\ WF_vars(\E in \in Inputs : Clock(in))
    /\ SF_vars(\E in \in Inputs : WaitReleased(in))
    /\ SF_vars(\E in \in Inputs : BusreqReleased(in))

(* Once RESET has been given and is no longer pulled, cycles keep finishing*)
(* for ever: the CPU cannot hang on the bus.                               *)
FinishesCycle ==
    /\ cyc # NoCycle /\ cyc' # NoCycle
    /\ clk /\ ~clk' /\ t' = -1
    /\ ~(cyc = "bogus" /\ cyc' = "bogus" /\ left' = left - 1)
CyclesComplete ==
    (<>por /\ <>[][~(\E in \in Inputs : ResetLow(in))]_vars) => []<><<FinishesCycle>>_vars
=============================================================================
