------------------------------ MODULE Z80Waves ------------------------------
(***************************************************************************)
(* The waveforms of the machine cycles.  The clock() switches of Z80Bus    *)
(* change the pins by steps, each from what the step before has left; here *)
(* the pins and the effects after every half T state are written down as a *)
(* whole, and PinsFollow says that the steps add up to them.               *)
(***************************************************************************)
EXTENDS Z80Bus

Last(k) == 2 * LastT[k] + 1      \* the last half T state of a cycle

(* The waveforms: which lines are low, which groups are driven and what is *)
(* on the address bus after half T state h.                                *)
HaltLow(hlt) == IF hlt THEN {"HALT"} ELSE {}

LowIn(k, h, hlt) ==
    CASE k = "fetch"    -> HaltLow(hlt) \cup
                           (CASE h = 0      -> {"M1"}
                              [] h \in 1..3 -> {"M1", "MREQ", "RD"}
                              [] h \in 5..6 -> {"RFSH", "MREQ"}
                              [] OTHER      -> {"RFSH"})
      [] k = "memRead"  -> IF h \in 1..4 THEN {"MREQ", "RD"} ELSE {}
      [] k = "memWrite" -> CASE h \in 1..2 -> {"MREQ"}
                             [] h \in 3..4 -> {"MREQ", "WR"}
                             [] OTHER      -> {}
      [] k = "ioRead"   -> IF h \in 2..6 THEN {"IORQ", "RD"} ELSE {}
      [] k = "ioWrite"  -> IF h \in 2..6 THEN {"IORQ", "WR"} ELSE {}
      [] k = "intack"   -> CASE h \in 5..7      -> {"M1", "IORQ"}
                             [] h \in {8, 11}   -> {"M1", "RFSH"}
                             [] h \in 9..10     -> {"M1", "RFSH", "MREQ"}
                             [] OTHER           -> {"M1"}

Refreshing(k, h) == (k = "fetch" /\ h >= 4) \/ (k = "intack" /\ h >= 8)

OutIn(k, h) ==
    IF k \in {"memWrite", "ioWrite"} /\ h >= 1 THEN {"A", "C", "D"} ELSE {"A", "C"}

Wave(k, h, hlt) ==
    [low  |-> LowIn(k, h, hlt),
     out  |-> OutIn(k, h),
     addr |-> IF Refreshing(k, h) THEN "refresh" ELSE "cycle"]

(* The half T state in which a cycle does an effect due in it, and the     *)
(* count of effects after half T state h.                                  *)
DoneAt(e, k) ==
    CASE e = "latch"   -> (CASE k = "fetch"   -> 4
                             [] k = "memRead" -> 5
                             [] k = "ioRead"  -> 7
                             [] OTHER         -> 8)
      [] e = "refresh" -> IF k = "fetch" THEN 5 ELSE 9
      [] e = "write"   -> IF k = "memWrite" THEN 3 ELSE 2
      [] OTHER         -> 7

Done(k, h, hlt) ==
    [e \in Effects |-> IF e \in Due(k, hlt) /\ DoneAt(e, k) <= h THEN 1 ELSE 0]

(* Pins between two cycles: what the last half of one has left, or those of*)
(* a released bus.                                                         *)
Resting == {PinsBusRel} \cup {Wave(k, Last(k), hlt) : k \in Timed, hlt \in BOOLEAN}

(* The half T state that CLK and T show.                                   *)
Half == IF clk THEN 2 * t ELSE 2 * t + 1

(* CLK is high in a T state that WAIT has stretched: its second half has   *)
(* been run already, and is about to be run again.                         *)
Stretched == clk /\ t + 1 = WaitT[cyc] /\ seen.wait

At(h) == pins = Wave(cyc, h, halt) /\ eff = Done(cyc, h, halt)

(* The pins and the effects of a cycle are those of its waveform at the    *)
(* half T state it is in, whatever cycle came before and however often WAIT*)
(* and BUSREQ have held it: nothing set in one half T state is left over in*)
(* a later one, and a stretched T state is run again without effect (the   *)
(* clock() functions of the six cycles that follow the T states).          *)
PinsFollow ==
    /\ cyc = NoCycle => pins = PinsInit
    /\ cyc = "bogus" => pins \in Resting
    /\ cyc \in Timed /\ t = -1 => pins \in Resting
    /\ cyc \in Timed /\ t \in 0..LastT[cyc] =>
          At(Half) \/ (Stretched /\ At(2 * t + 1))
    /\ cyc \in Timed /\ t > LastT[cyc] =>
          pins = PinsBusRel /\ eff = Done(cyc, Last(cyc), halt)

(* Past the sampling point, WAIT was high there.                           *)
WaitSeen == cyc \in Timed /\ clk /\ t = WaitT[cyc] => ~seen.wait
=============================================================================
