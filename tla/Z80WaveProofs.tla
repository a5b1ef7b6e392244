---------------------------- MODULE Z80WaveProofs ----------------------------
(***************************************************************************)
(* Proofs about the pins of Z80Bus: they follow the waveforms of Z80Waves  *)
(* however WAIT stretches a cycle, and from the waveforms are read off the *)
(* rules of the bus, the stable address, when a byte is latched and what a *)
(* finished cycle has done.                                                *)
(***************************************************************************)
EXTENDS Z80Waves, Z80BusProofs

-----------------------------------------------------------------------------
(* The three groups of lines as one value, and the operations on pins,     *)
(* group by group.                                                         *)
Pins(low, out, addr) == [low |-> low, out |-> out, addr |-> addr]

(* Pulling and raising lines, driving data, the refresh address.           *)
LEMMA PinFields ==
    /\ \A low, out, addr, ls :
          Pull(Pins(low, out, addr), ls) = Pins(low \cup ls, out, addr)
    /\ \A low, out, addr, ls :
          Raise(Pins(low, out, addr), ls) = Pins(low \ ls, out, addr)
    /\ \A low, out, addr :
          Drive(Pins(low, out, addr)) = Pins(low, out \cup {"D"}, addr)
    /\ \A low, out, addr :
          [Pins(low, out, addr) EXCEPT !.addr = "refresh"] = Pins(low, out, "refresh")
<1>1. \A low, out, addr, ls :
          Pull(Pins(low, out, addr), ls) = Pins(low \cup ls, out, addr)
  BY DEF Pull, Pins
<1>2. \A low, out, addr, ls :
          Raise(Pins(low, out, addr), ls) = Pins(low \ ls, out, addr)
  BY DEF Raise, Pins
<1>3. \A low, out, addr :
          Drive(Pins(low, out, addr)) = Pins(low, out \cup {"D"}, addr)
  BY DEF Drive, Pins
<1>4. \A low, out, addr :
          [Pins(low, out, addr) EXCEPT !.addr = "refresh"] = Pins(low, out, "refresh")
  BY DEF Pins
<1> QED BY <1>1, <1>2, <1>3, <1>4

(* The switch of the fetch follows its waveform; in T3 the strobes go and  *)
(* the refresh address comes in one step.                                  *)
LEMMA FetchWave ==
    ASSUME NEW h \in 1..7, NEW hlt \in BOOLEAN
    PROVE  FetchPins(h, hlt, Wave("fetch", h - 1, hlt)) = Wave("fetch", h, hlt)
<1>1. CASE h = 4
  <2> DEFINE w    == Wave("fetch", 3, hlt)
             read == HaltLow(hlt) \cup {"M1", "MREQ", "RD"}
             low  == read \ {"MREQ", "RD", "M1"}
  <2>1. /\ w = Pins(read, {"A", "C"}, "cycle")
        /\ Wave("fetch", 4, hlt) = Pins(HaltLow(hlt) \cup {"RFSH"}, {"A", "C"}, "refresh")
    BY DEF Wave, LowIn, Refreshing, OutIn, Pins
  <2>2. FetchPins(4, hlt, w)
          = [Pull(Raise(w, {"MREQ", "RD", "M1"}), {"RFSH"}) EXCEPT !.addr = "refresh"]
    BY DEF FetchPins
  <2>3. low \cup {"RFSH"} = HaltLow(hlt) \cup {"RFSH"}
    BY DEF HaltLow
  <2> HIDE DEF w
  <2>4. Raise(w, {"MREQ", "RD", "M1"}) = Pins(low, {"A", "C"}, "cycle")
    BY <2>1, PinFields
  <2> HIDE DEF low
  <2>5. Pull(Pins(low, {"A", "C"}, "cycle"), {"RFSH"})
          = Pins(low \cup {"RFSH"}, {"A", "C"}, "cycle")
    BY PinFields
  <2>6. [Pins(low \cup {"RFSH"}, {"A", "C"}, "cycle") EXCEPT !.addr = "refresh"]
          = Pins(low \cup {"RFSH"}, {"A", "C"}, "refresh")
    BY PinFields
  <2>7. FetchPins(4, hlt, w) = Wave("fetch", 4, hlt)
    BY <2>1, <2>2, <2>3, <2>4, <2>5, <2>6
  <2> QED BY <1>1, <2>7 DEF w
<1>2. CASE h \in {1, 2, 3}
  BY <1>2 DEF FetchPins, Wave, LowIn, Refreshing, OutIn, Pull, HaltLow
<1>3. CASE h = 5
  BY <1>3 DEF FetchPins, Wave, LowIn, Refreshing, OutIn, Pull, HaltLow
<1>4. CASE h = 6
  BY <1>4 DEF FetchPins, Wave, LowIn, Refreshing, OutIn, Raise, HaltLow
<1>6. CASE h = 7
  BY <1>6 DEF FetchPins, Wave, LowIn, Refreshing, OutIn, Raise, HaltLow
<1>5. h \in {1, 2, 3} \/ h = 4 \/ h = 5 \/ h = 6 \/ h = 7
  BY SMT
<1> QED BY <1>1, <1>2, <1>3, <1>4, <1>5, <1>6

(* The switch of a memory write: data out a T state before WR.             *)
LEMMA MemWriteWave ==
    ASSUME NEW h \in 1..5, NEW hlt \in BOOLEAN
    PROVE  MemWritePins(h, Wave("memWrite", h - 1, hlt)) = Wave("memWrite", h, hlt)
<1>1. CASE h = 1
  <2> DEFINE w   == Wave("memWrite", 0, hlt)
             low == {} \cup {"MREQ"}
             out == {"A", "C"} \cup {"D"}
  <2>1. /\ w = Pins({}, {"A", "C"}, "cycle")
        /\ Wave("memWrite", 1, hlt) = Pins({"MREQ"}, {"A", "C", "D"}, "cycle")
    BY DEF Wave, LowIn, Refreshing, OutIn, Pins
  <2>2. MemWritePins(1, w) = Drive(Pull(w, {"MREQ"}))
    BY DEF MemWritePins
  <2>3. low = {"MREQ"} /\ out = {"A", "C", "D"}
    OBVIOUS
  <2> HIDE DEF w
  <2>4. Pull(w, {"MREQ"}) = Pins(low, {"A", "C"}, "cycle")
    BY <2>1, PinFields
  <2>5. Drive(Pins(low, {"A", "C"}, "cycle")) = Pins(low, out, "cycle")
    BY PinFields
  <2>6. MemWritePins(1, w) = Wave("memWrite", 1, hlt)
    BY <2>1, <2>2, <2>3, <2>4, <2>5
  <2> QED BY <1>1, <2>6 DEF w
<1>2. CASE h \in {2, 4}
  BY <1>2 DEF MemWritePins, Wave, LowIn, Refreshing, OutIn
<1>3. CASE h = 3
  BY <1>3 DEF MemWritePins, Wave, LowIn, Refreshing, OutIn, Pull
<1>4. CASE h = 5
  BY <1>4 DEF MemWritePins, Wave, LowIn, Refreshing, OutIn, Raise
<1> QED BY <1>1, <1>2, <1>3, <1>4

(* The switch of the acknowledge, with its two wait states built in.       *)
LEMMA IntackWave ==
    ASSUME NEW h \in 1..11, NEW hlt \in BOOLEAN
    PROVE  IntackPins(h, Wave("intack", h - 1, hlt)) = Wave("intack", h, hlt)
<1>1. CASE h = 8
  <2> DEFINE w   == Wave("intack", 7, hlt)
             low == {"M1", "IORQ"} \ {"IORQ"}
  <2>1. /\ w = Pins({"M1", "IORQ"}, {"A", "C"}, "cycle")
        /\ Wave("intack", 8, hlt) = Pins({"M1", "RFSH"}, {"A", "C"}, "refresh")
    BY DEF Wave, LowIn, Refreshing, OutIn, Pins
  <2>2. IntackPins(8, w) = [Pull(Raise(w, {"IORQ"}), {"RFSH"}) EXCEPT !.addr = "refresh"]
    BY DEF IntackPins
  <2>3. low \cup {"RFSH"} = {"M1", "RFSH"}
    OBVIOUS
  <2> HIDE DEF w
  <2>4. Raise(w, {"IORQ"}) = Pins(low, {"A", "C"}, "cycle")
    BY <2>1, PinFields
  <2> HIDE DEF low
  <2>5. Pull(Pins(low, {"A", "C"}, "cycle"), {"RFSH"})
          = Pins(low \cup {"RFSH"}, {"A", "C"}, "cycle")
    BY PinFields
  <2>6. [Pins(low \cup {"RFSH"}, {"A", "C"}, "cycle") EXCEPT !.addr = "refresh"]
          = Pins(low \cup {"RFSH"}, {"A", "C"}, "refresh")
    BY PinFields
  <2>7. IntackPins(8, w) = Wave("intack", 8, hlt)
    BY <2>1, <2>2, <2>3, <2>4, <2>5, <2>6
  <2> QED BY <1>1, <2>7 DEF w
<1>2. CASE h \in {1, 2, 3, 4, 6, 7, 10}
  <2>1. Wave("intack", h - 1, hlt) = Wave("intack", h, hlt)
    <3>1. CASE h \in 1..4
      BY <3>1 DEF Wave, LowIn, Refreshing, OutIn
    <3>2. CASE h \in 6..7
      BY <3>2 DEF Wave, LowIn, Refreshing, OutIn
    <3>3. CASE h = 10
      BY <3>3 DEF Wave, LowIn, Refreshing, OutIn
    <3> QED BY <1>2, <3>1, <3>2, <3>3
  <2>2. IntackPins(h, Wave("intack", h - 1, hlt)) = Wave("intack", h - 1, hlt)
    BY <1>2 DEF IntackPins
  <2> QED BY <2>1, <2>2
<1>3. CASE h = 5
  BY <1>3 DEF IntackPins, Wave, LowIn, Refreshing, OutIn, Pull
<1>4. CASE h = 9
  BY <1>4 DEF IntackPins, Wave, LowIn, Refreshing, OutIn, Pull
<1>5. CASE h = 11
  BY <1>5 DEF IntackPins, Wave, LowIn, Refreshing, OutIn, Raise
<1> QED BY <1>1, <1>2, <1>3, <1>4, <1>5

(* Every switch follows the waveform of its kind.                          *)
LEMMA WaveSteps ==
    ASSUME NEW k \in Timed, NEW h \in 1..Last(k), NEW hlt \in BOOLEAN
    PROVE  PinsAt(k, h, hlt, Wave(k, h - 1, hlt)) = Wave(k, h, hlt)
<1>1. CASE k = "fetch"
  <2>1. h \in 1..7
    BY <1>1 DEF Last, LastT, Timed, Kinds
  <2> QED BY <1>1, <2>1, FetchWave DEF PinsAt
<1>2. CASE k = "memRead"
  <2>1. h \in 1..5
    BY <1>2 DEF Last, LastT, Timed, Kinds
  <2>2. MemReadPins(h, Wave("memRead", h - 1, hlt)) = Wave("memRead", h, hlt)
    BY <2>1 DEF MemReadPins, Wave, LowIn, Refreshing, OutIn, Pull, Raise
  <2> QED BY <1>2, <2>2 DEF PinsAt
<1>3. CASE k = "memWrite"
  <2>1. h \in 1..5
    BY <1>3 DEF Last, LastT, Timed, Kinds
  <2> QED BY <1>3, <2>1, MemWriteWave DEF PinsAt
<1>4. CASE k = "ioRead"
  <2>1. h \in 1..7
    BY <1>4 DEF Last, LastT, Timed, Kinds
  <2>2. IoReadPins(h, Wave("ioRead", h - 1, hlt)) = Wave("ioRead", h, hlt)
    BY <2>1 DEF IoReadPins, Wave, LowIn, Refreshing, OutIn, Pull, Raise
  <2> QED BY <1>4, <2>2 DEF PinsAt
<1>5. CASE k = "ioWrite"
  <2>1. h \in 1..7
    BY <1>5 DEF Last, LastT, Timed, Kinds
  <2>2. CASE h = 1
    BY <1>5, <2>2 DEF PinsAt, IoWritePins, Wave, LowIn, Refreshing, OutIn, Drive
  <2>3. CASE h = 2
    BY <1>5, <2>3 DEF PinsAt, IoWritePins, Wave, LowIn, Refreshing, OutIn, Pull
  <2>4. CASE h \in 3..6
    <3>1. Wave("ioWrite", h - 1, hlt) = Wave("ioWrite", h, hlt)
      BY <2>4 DEF Wave, LowIn, Refreshing, OutIn
    <3>2. IoWritePins(h, Wave("ioWrite", h - 1, hlt)) = Wave("ioWrite", h - 1, hlt)
      BY <2>4 DEF IoWritePins
    <3> QED BY <1>5, <3>1, <3>2 DEF PinsAt
  <2>5. CASE h = 7
    <3>1. /\ Wave("ioWrite", 6, hlt) = Pins({"IORQ", "WR"}, {"A", "C", "D"}, "cycle")
          /\ Wave("ioWrite", 7, hlt) = Pins({}, {"A", "C", "D"}, "cycle")
      BY DEF Wave, LowIn, Refreshing, OutIn, Pins
    <3>2. Raise(Wave("ioWrite", 6, hlt), {"IORQ", "WR"}) = Wave("ioWrite", 7, hlt)
      BY <3>1, PinFields
    <3>3. IoWritePins(7, Wave("ioWrite", 6, hlt)) = Wave("ioWrite", 7, hlt)
      BY <3>2 DEF IoWritePins
    <3> QED BY <1>5, <2>5, <3>3 DEF PinsAt
  <2> QED BY <2>1, <2>2, <2>3, <2>4, <2>5
<1>6. CASE k = "intack"
  <2>1. h \in 1..11
    BY <1>6 DEF Last, LastT, Timed, Kinds
  <2> QED BY <1>6, <2>1, IntackWave DEF PinsAt
<1> QED BY <1>1, <1>2, <1>3, <1>4, <1>5, <1>6 DEF Timed, Kinds

(* The first half T state sets the pins afresh, whatever they were.        *)
LEMMA WaveBegins ==
    ASSUME NEW k \in Timed, NEW hlt \in BOOLEAN, NEW p
    PROVE  PinsAt(k, 0, hlt, p) = Wave(k, 0, hlt)
<1> DEFINE low == {} \cup ({"M1"} \cup HaltLow(hlt))
<1>0. PinsNominal = Pins({}, {"A", "C"}, "cycle")
  BY DEF PinsNominal, Pins
<1>1. CASE k = "fetch"
  <2>1. Wave("fetch", 0, hlt) = Pins(HaltLow(hlt) \cup {"M1"}, {"A", "C"}, "cycle")
    BY DEF Wave, LowIn, Refreshing, OutIn, Pins
  <2>2. FetchPins(0, hlt, p) = Pull(PinsNominal, {"M1"} \cup HaltLow(hlt))
    BY DEF FetchPins, HaltLow
  <2>3. low = HaltLow(hlt) \cup {"M1"}
    OBVIOUS
  <2>4. Pull(PinsNominal, {"M1"} \cup HaltLow(hlt)) = Pins(low, {"A", "C"}, "cycle")
    BY <1>0, PinFields
  <2> HIDE DEF low
  <2> QED BY <1>1, <2>1, <2>2, <2>3, <2>4 DEF PinsAt
<1>2. CASE k = "intack"
  <2>1. Wave("intack", 0, hlt) = Pins({"M1"}, {"A", "C"}, "cycle")
    BY DEF Wave, LowIn, Refreshing, OutIn, Pins
  <2>2. Pull(PinsNominal, {"M1"}) = Pins({} \cup {"M1"}, {"A", "C"}, "cycle")
    BY <1>0, PinFields
  <2> QED BY <1>2, <2>1, <2>2 DEF PinsAt, IntackPins
<1>3. CASE k \in {"memRead", "memWrite", "ioRead", "ioWrite"}
  <2>1. Wave(k, 0, hlt) = PinsNominal
    BY <1>3 DEF Wave, LowIn, Refreshing, OutIn, PinsNominal
  <2>2. PinsAt(k, 0, hlt, p) = PinsNominal
    BY <1>3 DEF PinsAt, MemReadPins, MemWritePins, IoReadPins, IoWritePins
  <2> QED BY <2>1, <2>2
<1> QED BY <1>1, <1>2, <1>3 DEF Timed, Kinds

(* The half T state that WAIT repeats changes no pin the second time.      *)
LEMMA WaveAgain ==
    ASSUME NEW k \in Timed, NEW hlt \in BOOLEAN
    PROVE  PinsAt(k, 2 * WaitT[k] - 1, hlt, Wave(k, 2 * WaitT[k] - 1, hlt))
             = Wave(k, 2 * WaitT[k] - 1, hlt)
<1>1. CASE k = "memWrite"
  <2>1. WaitT[k] = 2 /\ Wave(k, 3, hlt) = Pins({"MREQ", "WR"}, {"A", "C", "D"}, "cycle")
    BY <1>1 DEF WaitT, Timed, Kinds, Wave, LowIn, Refreshing, OutIn, Pins
  <2>2. {"MREQ", "WR"} \cup {"WR"} = {"MREQ", "WR"}
    OBVIOUS
  <2>3. Pull(Wave(k, 3, hlt), {"WR"}) = Wave(k, 3, hlt)
    BY <2>1, <2>2, PinFields
  <2>4. PinsAt(k, 3, hlt, Wave(k, 3, hlt)) = Pull(Wave(k, 3, hlt), {"WR"})
    BY <1>1 DEF PinsAt, MemWritePins
  <2> QED BY <2>1, <2>3, <2>4
<1>2. CASE k = "fetch"
  <2>1. WaitT[k] = 2 /\ Wave(k, 3, hlt)
                          = Pins(HaltLow(hlt) \cup {"M1", "MREQ", "RD"}, {"A", "C"}, "cycle")
    BY <1>2 DEF WaitT, Timed, Kinds, Wave, LowIn, Refreshing, OutIn, Pins
  <2>2. PinsAt(k, 3, hlt, Wave(k, 3, hlt)) = Wave(k, 3, hlt)
    BY <1>2 DEF PinsAt, FetchPins
  <2> QED BY <2>1, <2>2
<1>3. CASE k = "memRead"
  <2>1. WaitT[k] = 2
    BY <1>3 DEF WaitT, Timed, Kinds
  <2>2. PinsAt(k, 3, hlt, Wave(k, 3, hlt)) = Wave(k, 3, hlt)
    BY <1>3 DEF PinsAt, MemReadPins
  <2> QED BY <2>1, <2>2
<1>4. CASE k \in {"ioRead", "ioWrite"}
  <2>1. WaitT[k] = 3
    BY <1>4 DEF WaitT, Timed, Kinds
  <2>2. PinsAt(k, 5, hlt, Wave(k, 5, hlt)) = Wave(k, 5, hlt)
    BY <1>4 DEF PinsAt, IoReadPins, IoWritePins
  <2> QED BY <2>1, <2>2
<1>5. CASE k = "intack"
  <2>1. WaitT[k] = 4
    BY <1>5 DEF WaitT, Timed, Kinds
  <2>2. PinsAt(k, 7, hlt, Wave(k, 7, hlt)) = Wave(k, 7, hlt)
    BY <1>5 DEF PinsAt, IntackPins
  <2> QED BY <2>1, <2>2
<1> QED BY <1>1, <1>2, <1>3, <1>4, <1>5 DEF Timed, Kinds

-----------------------------------------------------------------------------
(* Where each strobe is low.                                               *)
LEMMA StrobesIn ==
    ASSUME NEW k \in Timed, NEW h \in Nat, NEW hlt \in BOOLEAN
    PROVE  /\ "WR" \in LowIn(k, h, hlt) <=>
                 (k = "memWrite" /\ h \in 3..4) \/ (k = "ioWrite" /\ h \in 2..6)
           /\ "RD" \in LowIn(k, h, hlt) <=>
                 \/ k = "fetch" /\ h \in 1..3
                 \/ k = "memRead" /\ h \in 1..4
                 \/ k = "ioRead" /\ h \in 2..6
           /\ "IORQ" \in LowIn(k, h, hlt) <=>
                 \/ k \in {"ioRead", "ioWrite"} /\ h \in 2..6
                 \/ k = "intack" /\ h \in 5..7
           /\ "MREQ" \in LowIn(k, h, hlt) <=>
                 \/ k = "fetch" /\ (h \in 1..3 \/ h \in 5..6)
                 \/ k \in {"memRead", "memWrite"} /\ h \in 1..4
                 \/ k = "intack" /\ h \in 9..10
           /\ k = "intack" => "M1" \in LowIn(k, h, hlt)
           /\ "BUSACK" \notin LowIn(k, h, hlt)
<1>1. CASE k = "fetch"
  BY <1>1 DEF LowIn, HaltLow
<1>2. CASE k \in {"memRead", "memWrite"}
  BY <1>2 DEF LowIn
<1>3. CASE k \in {"ioRead", "ioWrite"}
  BY <1>3 DEF LowIn
<1>4. CASE k = "intack"
  BY <1>4 DEF LowIn
<1> QED BY <1>1, <1>2, <1>3, <1>4 DEF Timed, Kinds

(* A half T state does the effects that fall due in it, nothing in the     *)
(* first, and nothing when WAIT repeats it.                                *)
LEMMA EffectSteps ==
    ASSUME NEW k \in Timed, NEW h \in 1..Last(k), NEW hlt \in BOOLEAN
    PROVE  EffectsAt(k, h, hlt, Wave(k, h - 1, hlt))
             = {e \in Due(k, hlt) : DoneAt(e, k) = h}
<1> DEFINE p == Wave(k, h - 1, hlt)
           Does(e) == e \in EffectsAt(k, h, hlt, p)
           IsDue(e) == e \in Due(k, hlt) /\ DoneAt(e, k) = h
<1>0. h \in Nat /\ h - 1 \in Nat /\ LastT[k] \in {2, 3, 5}
  BY CycleFacts DEF Last
<1>1. /\ p.low = LowIn(k, h - 1, hlt)
      /\ PinsAt(k, h, hlt, p).low = LowIn(k, h, hlt)
  <2>1. PinsAt(k, h, hlt, p) = Wave(k, h, hlt)
    BY WaveSteps
  <2>2. Wave(k, h, hlt).low = LowIn(k, h, hlt) /\ p.low = LowIn(k, h - 1, hlt)
    BY DEF Wave
  <2> QED BY <2>1, <2>2
<1>2. "WR" \notin p.low /\ "WR" \in PinsAt(k, h, hlt, p).low
        <=> (k = "memWrite" /\ h = 3) \/ (k = "ioWrite" /\ h = 2)
  BY <1>0, <1>1, StrobesIn
<1> HIDE DEF p
<1>3. Does("write") <=> IsDue("write")
  BY <1>0, <1>2 DEF EffectsAt, Due, DoneAt, Effects
<1>4. Does("latch") <=> IsDue("latch")
  <2>1. Does("latch") <=> \/ k = "fetch" /\ h = 4
                          \/ k = "memRead" /\ h = 5
                          \/ k = "ioRead" /\ h = 7
                          \/ k = "intack" /\ h = 8
    BY DEF EffectsAt, Effects
  <2> QED BY <2>1 DEF Due, DoneAt, Effects
<1>5. Does("refresh") <=> IsDue("refresh")
  BY DEF EffectsAt, Due, DoneAt, Effects
<1>6. Does("advance") <=> IsDue("advance")
  BY DEF EffectsAt, Due, DoneAt, Effects
<1>7. \A e : Does(e) \/ IsDue(e) => e \in {"latch", "refresh", "advance", "write"}
  BY DEF EffectsAt, Due, Effects
<1>8. \A e : Does(e) <=> IsDue(e)
  BY <1>3, <1>4, <1>5, <1>6, <1>7
<1> QED BY <1>8 DEF p

(* The half T state a cycle begins in has no effect.                       *)
LEMMA EffectBegins ==
    ASSUME NEW k \in Timed, NEW hlt \in BOOLEAN, NEW p
    PROVE  EffectsAt(k, 0, hlt, p) = {}
<1>1. PinsAt(k, 0, hlt, p).low = LowIn(k, 0, hlt)
  BY WaveBegins DEF Wave
<1>2. "WR" \notin PinsAt(k, 0, hlt, p).low
  BY <1>1, StrobesIn
<1> QED BY <1>2 DEF EffectsAt, Effects

(* Nor has the rising half that a WAIT state repeats.                      *)
LEMMA EffectAgain ==
    ASSUME NEW k \in Timed, NEW hlt \in BOOLEAN
    PROVE  EffectsAt(k, 2 * WaitT[k] - 1, hlt, Wave(k, 2 * WaitT[k] - 1, hlt)) = {}
<1> DEFINE h == 2 * WaitT[k] - 1
           p == Wave(k, h, hlt)
<1>1. PinsAt(k, h, hlt, p) = p
  BY WaveAgain
<1>2. /\ k \in {"fetch", "memRead"} => h = 3
      /\ k = "ioRead" => h = 5
      /\ k = "intack" => h = 7
  BY DEF WaitT
<1> HIDE DEF h, p
<1>3. \A e \in EffectsAt(k, h, hlt, p) : FALSE
  BY <1>1, <1>2 DEF EffectsAt, Effects
<1> QED BY <1>3 DEF h, p

(* Counting them gives the count of the next half T state.                 *)
LEMMA DoneSteps ==
    ASSUME NEW k \in Timed, NEW h \in 1..Last(k), NEW hlt \in BOOLEAN
    PROVE  Count(Done(k, h - 1, hlt), {e \in Due(k, hlt) : DoneAt(e, k) = h}) = Done(k, h, hlt)
<1>1. h \in Int
  BY CycleFacts DEF Last
<1>2. \A e \in Effects : DoneAt(e, k) \in Int
  BY DEF DoneAt
<1>3. \A e \in Effects :
         Count(Done(k, h - 1, hlt), {d \in Due(k, hlt) : DoneAt(d, k) = h})[e] = Done(k, h, hlt)[e]
  BY <1>1, <1>2 DEF Count, Done
<1> QED BY <1>3 DEF Count, Done

(* So a cycle begins with nothing done,                                    *)
LEMMA DoneBegins ==
    ASSUME NEW k \in Timed, NEW hlt \in BOOLEAN
    PROVE  Count(NoEffects, {}) = Done(k, 0, hlt)
<1>1. \A e \in Effects : DoneAt(e, k) \in Int /\ DoneAt(e, k) > 0
  BY DEF DoneAt
<1>2. \A e \in Effects : Count(NoEffects, {})[e] = Done(k, 0, hlt)[e]
  BY <1>1 DEF Count, NoEffects, Done
<1> QED BY <1>2 DEF Count, Done

(* and repeating a half without effect does nothing more.                  *)
LEMMA DoneAgain ==
    \A k \in Timed, h \in Nat, hlt \in BOOLEAN : Count(Done(k, h, hlt), {}) = Done(k, h, hlt)
BY DEF Count, Done

(* At the end of a cycle every effect due has been done.                   *)
LEMMA DoneAtEnd ==
    ASSUME NEW k \in Timed, NEW hlt \in BOOLEAN
    PROVE  \A e \in Effects :
              Done(k, Last(k), hlt)[e] = IF e \in Due(k, hlt) THEN 1 ELSE 0
<1>1. \A e \in Due(k, hlt) : DoneAt(e, k) <= Last(k)
  BY DEF Due, DoneAt, Last, LastT, Timed, Kinds, Effects
<1> QED BY <1>1 DEF Done

-----------------------------------------------------------------------------
(* What a rising edge of a cycle may start from.                           *)
Ready(k, t0, hlt) ==
    /\ t0 \in 0..LastT[k] => /\ pins = Wave(k, 2 * t0 + 1, hlt)
                             /\ eff = Done(k, 2 * t0 + 1, hlt)
    /\ t0 > LastT[k] => pins = PinsBusRel /\ eff = Done(k, Last(k), hlt)

(* A step from half T state h - 1 to h.                                    *)
Turn(k, h, hlt) ==
    /\ pins  = Wave(k, h - 1, hlt) /\ eff  = Done(k, h - 1, hlt)
    /\ pins' = Wave(k, h, hlt)     /\ eff' = Done(k, h, hlt)

(* A rising edge begins the cycle, goes on to the next half T state, stays *)
(* in the one it is in when WAIT is low, or releases the bus.              *)
LEMMA RaiseMoves ==
    ASSUME NEW k \in Timed, NEW t0 \in -1..LastT[k] + 1, NEW hlt \in BOOLEAN,
           NEW in \in Inputs, Ready(k, t0, hlt), RaiseTimed(k, t0, hlt, eff, in)
    PROVE  \/ t' = 0 /\ pins' = Wave(k, 0, hlt) /\ eff' = Done(k, 0, hlt)
           \/ /\ t' \in 1..LastT[k] /\ Turn(k, 2 * t', hlt)
              /\ t' = WaitT[k] => ~seen'.wait
           \/ /\ t' \in 0..LastT[k] /\ t' + 1 = WaitT[k] /\ seen'.wait
              /\ pins' = Wave(k, 2 * t' + 1, hlt) /\ eff' = Done(k, 2 * t' + 1, hlt)
              /\ UNCHANGED <<pins, eff>>
           \/ /\ t' = LastT[k] + 1 /\ pins' = PinsBusRel
              /\ eff' = Done(k, Last(k), hlt) /\ UNCHANGED eff
<1> DEFINE t1 == IF t0 > LastT[k] THEN t0 ELSE t0 + 1
           stretched == t1 = WaitT[k] /\ in.wait
<1>1. /\ LastT[k] \in {2, 3, 5} /\ WaitT[k] \in {2, 3, 4} /\ WaitT[k] <= LastT[k]
      /\ t1 \in 0..LastT[k] + 1 /\ Last(k) = 2 * LastT[k] + 1
  BY CycleFacts DEF Last
<1>2. /\ t' = IF stretched THEN t1 - 1 ELSE t1
      /\ seen'.wait = in.wait
  BY DEF RaiseTimed
<1>3. CASE t1 = 0
  <2>1. t' = 0 /\ pins' = PinsAt(k, 0, hlt, pins)
        /\ eff' = Count(NoEffects, EffectsAt(k, 0, hlt, pins))
    BY <1>1, <1>3 DEF RaiseTimed
  <2>2. pins' = Wave(k, 0, hlt) /\ eff' = Done(k, 0, hlt)
    BY <2>1, WaveBegins, EffectBegins, DoneBegins
  <2> QED BY <2>1, <2>2
<1>4. CASE t1 \in 1..LastT[k] /\ ~stretched
  <2>1. t0 \in 0..LastT[k] /\ t1 = t0 + 1 /\ 2 * t1 - 1 = 2 * t0 + 1 /\ 2 * t1 \in 1..Last(k)
    BY <1>1, <1>4
  <2>2. pins = Wave(k, 2 * t1 - 1, hlt) /\ eff = Done(k, 2 * t1 - 1, hlt)
    BY <2>1 DEF Ready
  <2>3. /\ t' = t1 /\ pins' = PinsAt(k, 2 * t1, hlt, pins)
        /\ eff' = Count(eff, EffectsAt(k, 2 * t1, hlt, pins))
    BY <1>1, <1>4 DEF RaiseTimed
  <2>4. t' = WaitT[k] => ~seen'.wait
    BY <1>2, <1>4, <2>3
  <2> HIDE DEF t1
  <2>5. pins' = Wave(k, 2 * t1, hlt)
    BY <2>1, <2>2, <2>3, WaveSteps
  <2>6. EffectsAt(k, 2 * t1, hlt, pins) = {e \in Due(k, hlt) : DoneAt(e, k) = 2 * t1}
    BY <2>1, <2>2, EffectSteps
  <2>7. eff' = Done(k, 2 * t1, hlt)
    BY <2>1, <2>2, <2>3, <2>6, DoneSteps
  <2>8. Turn(k, 2 * t1, hlt)
    BY <2>2, <2>5, <2>7 DEF Turn
  <2> QED BY <1>4, <2>3, <2>4, <2>8
<1>5. CASE stretched
  <2>1. t0 \in 0..LastT[k] /\ t' = t0 /\ t0 + 1 = WaitT[k] /\ pins' = pins /\ eff' = eff
        /\ seen'.wait
    BY <1>1, <1>2, <1>5 DEF RaiseTimed
  <2>2. pins' = Wave(k, 2 * t0 + 1, hlt) /\ eff' = Done(k, 2 * t0 + 1, hlt)
    BY <2>1 DEF Ready
  <2> QED BY <2>1, <2>2
<1>6. CASE t1 > LastT[k]
  <2>1. t' = LastT[k] + 1 /\ pins' = PinsBusRel /\ eff' = eff
    BY <1>1, <1>6 DEF RaiseTimed
  <2>2. eff = Done(k, Last(k), hlt)
    BY <1>1, <1>6 DEF Ready
  <2> QED BY <2>1, <2>2
<1> QED BY <1>1, <1>3, <1>4, <1>5, <1>6

(* A rising edge keeps the pins and the effects on the waveform.           *)
LEMMA RaiseFollows ==
    ASSUME NEW k \in Timed, NEW t0 \in -1..LastT[k] + 1, NEW hlt \in BOOLEAN,
           NEW in \in Inputs, Ready(k, t0, hlt), RaiseTimed(k, t0, hlt, eff, in),
           cyc' = k, halt' = hlt, clk' = TRUE
    PROVE  PinsFollow' /\ WaitSeen'
<1>1. /\ LastT[k] \in {2, 3, 5} /\ WaitT[k] \in {2, 3, 4} /\ WaitT[k] <= LastT[k]
      /\ k # NoCycle /\ k # "bogus"
  BY CycleFacts, KindFacts
<1>2. CASE t' = 0 /\ pins' = Wave(k, 0, hlt) /\ eff' = Done(k, 0, hlt)
  BY <1>1, <1>2 DEF PinsFollow, WaitSeen, At, Half
<1>3. CASE /\ t' \in 1..LastT[k] /\ Turn(k, 2 * t', hlt)
           /\ t' = WaitT[k] => ~seen'.wait
  BY <1>1, <1>3 DEF PinsFollow, WaitSeen, At, Half, Turn
<1>4. CASE /\ t' \in 0..LastT[k] /\ t' + 1 = WaitT[k] /\ seen'.wait
           /\ pins' = Wave(k, 2 * t' + 1, hlt) /\ eff' = Done(k, 2 * t' + 1, hlt)
  BY <1>1, <1>4 DEF PinsFollow, WaitSeen, At, Half, Stretched
<1>5. CASE t' = LastT[k] + 1 /\ pins' = PinsBusRel /\ eff' = Done(k, Last(k), hlt)
  BY <1>1, <1>5 DEF PinsFollow, WaitSeen
<1> QED BY <1>2, <1>3, <1>4, <1>5, RaiseMoves

(* The falling edge within a cycle runs the second half of the T state,    *)
(* for the second time if WAIT repeats it.                                 *)
LEMMA FallMoves ==
    ASSUME IInv, PinsFollow, FallClk
    PROVE  \/ t \in 0..LastT[cyc] /\ Turn(cyc, 2 * t + 1, halt)
           \/ /\ t \in 0..LastT[cyc] /\ t + 1 = WaitT[cyc]
              /\ pins' = Wave(cyc, 2 * t + 1, halt) /\ eff' = Done(cyc, 2 * t + 1, halt)
              /\ UNCHANGED <<pins, eff>>
           \/ /\ t = LastT[cyc] + 1 /\ pins' = PinsBusRel
              /\ eff' = Done(cyc, Last(cyc), halt) /\ UNCHANGED <<pins, eff>>
<1>1. /\ cyc \in Timed /\ clk /\ t \in 0..LastT[cyc] + 1 /\ halt \in BOOLEAN
      /\ LastT[cyc] \in {2, 3, 5} /\ WaitT[cyc] \in {2, 3, 4}
      /\ Last(cyc) = 2 * LastT[cyc] + 1
  BY CycleFacts DEF FallClk, IInv, TypeOK, Begun, Last
<1>2. CASE t > LastT[cyc]
  <2>1. t = LastT[cyc] + 1
    BY <1>1, <1>2
  <2> QED BY <1>1, <1>2, <2>1 DEF FallClk, PinsFollow
<1>3. CASE t <= LastT[cyc]
  <2> DEFINE h == 2 * t + 1
  <2>1. /\ pins' = PinsAt(cyc, h, halt, pins)
        /\ eff' = Count(eff, EffectsAt(cyc, h, halt, pins))
    BY <1>3 DEF FallClk
  <2>2. h \in 1..Last(cyc) /\ h - 1 = 2 * t /\ t \in 0..LastT[cyc]
    BY <1>1, <1>3
  <2>3. At(h - 1) \/ (t + 1 = WaitT[cyc] /\ At(h))
    BY <1>1, <1>3, <2>2 DEF PinsFollow, Half, Stretched
  <2>4. CASE At(h - 1)
    <3>1. pins = Wave(cyc, h - 1, halt) /\ eff = Done(cyc, h - 1, halt)
      BY <2>4 DEF At
    <3> HIDE DEF h
    <3>2. pins' = Wave(cyc, h, halt)
      BY <1>1, <2>1, <2>2, <3>1, WaveSteps
    <3>3. EffectsAt(cyc, h, halt, pins) = {e \in Due(cyc, halt) : DoneAt(e, cyc) = h}
      BY <1>1, <2>2, <3>1, EffectSteps
    <3>4. eff' = Done(cyc, h, halt)
      BY <1>1, <2>1, <2>2, <3>1, <3>3, DoneSteps
    <3>5. Turn(cyc, h, halt)
      BY <3>1, <3>2, <3>4 DEF Turn
    <3> QED BY <2>2, <3>5 DEF h
  <2>5. CASE t + 1 = WaitT[cyc] /\ At(h)
    <3>1. h = 2 * WaitT[cyc] - 1 /\ h \in Nat
      BY <1>1, <2>5
    <3>2. pins = Wave(cyc, h, halt) /\ eff = Done(cyc, h, halt)
      BY <2>5 DEF At
    <3> HIDE DEF h
    <3>3. pins' = Wave(cyc, h, halt)
      BY <1>1, <2>1, <3>1, <3>2, WaveAgain
    <3>4. EffectsAt(cyc, h, halt, pins) = {}
      BY <1>1, <3>1, <3>2, EffectAgain
    <3>5. eff' = Done(cyc, h, halt)
      BY <1>1, <2>1, <3>1, <3>2, <3>4, DoneAgain
    <3> QED BY <2>2, <2>5, <3>2, <3>3, <3>5 DEF h
  <2> QED BY <2>3, <2>4, <2>5
<1> QED BY <1>1, <1>2, <1>3

(* Which leaves the pins where the falling edge should.                    *)
LEMMA FallFollows ==
    ASSUME IInv, PinsFollow, FallClk
    PROVE  /\ t <= LastT[cyc] => /\ pins' = Wave(cyc, 2 * t + 1, halt)
                                 /\ eff' = Done(cyc, 2 * t + 1, halt)
           /\ t > LastT[cyc] => /\ pins' = PinsBusRel
                                /\ eff' = Done(cyc, Last(cyc), halt)
<1>1. cyc \in Timed /\ LastT[cyc] \in {2, 3, 5}
  BY CycleFacts DEF FallClk
<1> QED BY <1>1, FallMoves DEF Turn

(* Power-on has no cycle to follow.                                        *)
LEMMA WavesInit == Init => PinsFollow /\ WaitSeen
<1> SUFFICES ASSUME Init PROVE PinsFollow /\ WaitSeen
  OBVIOUS
<1>1. cyc = NoCycle /\ pins = PinsInit /\ cyc \notin Timed /\ cyc # "bogus"
  BY KindFacts DEF Init
<1> QED BY <1>1 DEF PinsFollow, WaitSeen

(* The pins follow the waveforms: one step for each action of Next.        *)
LEMMA WavesStep == IInv /\ PinsFollow /\ WaitSeen /\ [Next]_vars => PinsFollow' /\ WaitSeen'
<1> SUFFICES ASSUME IInv, PinsFollow, WaitSeen, [Next]_vars PROVE PinsFollow' /\ WaitSeen'
  OBVIOUS
<1>0. TypeOK /\ Begun
  BY DEF IInv
<1>1. ASSUME NEW in \in Inputs, ResetLow(in) PROVE PinsFollow' /\ WaitSeen'
  <2>1. cyc' = NoCycle /\ pins' = PinsInit /\ cyc' \notin Timed /\ cyc' # "bogus"
    BY <1>1, KindFacts DEF ResetLow
  <2> QED BY <2>1 DEF PinsFollow, WaitSeen
<1>2. ASSUME NEW in \in Inputs, ResetExit(in) PROVE PinsFollow' /\ WaitSeen'
  <2> DEFINE hlt == FALSE
  <2>1. /\ cyc' = "fetch" /\ halt' = hlt /\ clk' = TRUE /\ "fetch" \in Timed
        /\ RaiseTimed("fetch", -1, hlt, eff, in) /\ hlt \in BOOLEAN
    BY <1>2, KindFacts DEF ResetExit
  <2> HIDE DEF hlt
  <2>2. LastT["fetch"] \in {2, 3, 5}
    BY <2>1, CycleFacts
  <2>3. -1 \in -1..LastT["fetch"] + 1 /\ Ready("fetch", -1, hlt)
    BY <2>2 DEF Ready
  <2> QED BY <2>1, <2>3, RaiseFollows
<1>3. ASSUME NEW in \in Inputs, RaiseClk(in) PROVE PinsFollow' /\ WaitSeen'
  <2>1. /\ cyc \in Timed /\ cyc' = cyc /\ halt' = halt /\ clk' = TRUE /\ ~clk
        /\ RaiseTimed(cyc, t, halt, eff, in)
    BY <1>3 DEF RaiseClk
  <2>2. t \in -1..LastT[cyc] + 1 /\ halt \in BOOLEAN
    BY <1>0, <2>1, CycleFacts DEF TypeOK
  <2>3. Ready(cyc, t, halt)
    BY <2>1 DEF Ready, PinsFollow, At, Half, Stretched
  <2> QED BY <2>1, <2>2, <2>3, RaiseFollows
<1>4. CASE FallClk
  <2>1. /\ cyc \in Timed /\ clk' = FALSE /\ t \in 0..LastT[cyc] + 1
        /\ LastT[cyc] \in {2, 3, 5} /\ halt \in BOOLEAN
    BY <1>0, <1>4, CycleFacts DEF FallClk, TypeOK, Begun
  <2>2. CASE Finished(cyc, t, busrel[cyc])
    <3>1. StartNext(cyc, left)
      BY <1>4, <2>2 DEF FallClk
    <3>2. cyc' \in Kinds /\ t' = -1 /\ cyc' # NoCycle
      BY <1>0, <2>1, <3>1, KindFacts, StartNextKeeps DEF TypeOK
    <3>3. pins' \in Resting
      <4>1. t >= LastT[cyc]
        BY <2>2 DEF Finished
      <4>2. t = LastT[cyc] \/ t > LastT[cyc]
        BY <2>1, <4>1
      <4>3. pins' = Wave(cyc, Last(cyc), halt) \/ pins' = PinsBusRel
        BY <1>4, <2>1, <4>2, FallFollows DEF Last
      <4> QED BY <2>1, <4>3 DEF Resting
    <3>4. cyc' \in Timed => -1 \notin 0..LastT[cyc'] /\ ~(-1 > LastT[cyc'])
      BY CycleFacts
    <3> QED BY <2>1, <3>2, <3>3, <3>4 DEF PinsFollow, WaitSeen
  <2>3. CASE ~Finished(cyc, t, busrel[cyc])
    <3>1. cyc' = cyc /\ t' = t /\ halt' = halt
      BY <1>4, <2>3 DEF FallClk
    <3>2. cyc # NoCycle /\ cyc # "bogus"
      BY <2>1, KindFacts
    <3>3. t <= LastT[cyc] => pins' = Wave(cyc, Half', halt) /\ eff' = Done(cyc, Half', halt)
      BY <1>4, <2>1, <3>1, FallFollows DEF Half
    <3>4. t > LastT[cyc] => pins' = PinsBusRel /\ eff' = Done(cyc, Last(cyc), halt)
      BY <1>4, FallFollows
    <3>5. t' \in 0..LastT[cyc'] => At(Half)'
      BY <2>1, <3>1, <3>3 DEF At
    <3>6. t' # -1 /\ WaitSeen'
      BY <2>1, <3>1 DEF WaitSeen
    <3> QED BY <3>1, <3>2, <3>4, <3>5, <3>6 DEF PinsFollow
  <2> QED BY <2>2, <2>3
<1>5. ASSUME NEW in \in Inputs, RaiseBogus(in) PROVE PinsFollow' /\ WaitSeen'
  <2>1. /\ cyc = "bogus" /\ cyc' = "bogus" /\ pins' = pins
        /\ "bogus" \notin Timed /\ NoCycle # "bogus"
    BY <1>5, KindFacts DEF RaiseBogus
  <2> QED BY <2>1 DEF PinsFollow, WaitSeen
<1>6. CASE FallBogus
  <2>1. /\ cyc = "bogus" /\ left \in Nat /\ left > 0 /\ clk' = FALSE /\ pins' = pins
        /\ halt \in BOOLEAN /\ pins \in Resting
    BY <1>0, <1>6 DEF FallBogus, TypeOK, PinsFollow
  <2>2. CASE BogusOver(left - 1)
    <3>1. StartNext("bogus", left - 1) /\ left - 1 \in Nat /\ "bogus" \in Kinds
      BY <1>6, <2>1, <2>2 DEF FallBogus, BogusOver, Kinds
    <3>2. cyc' \in Kinds /\ t' = -1 /\ cyc' # NoCycle
      BY <2>1, <3>1, StartNextKeeps, KindFacts
    <3>3. cyc' \in Timed => -1 \notin 0..LastT[cyc'] /\ ~(-1 > LastT[cyc'])
      BY CycleFacts
    <3> QED BY <2>1, <3>2, <3>3 DEF PinsFollow, WaitSeen
  <2>3. CASE ~BogusOver(left - 1)
    <3>1. cyc' = "bogus" /\ "bogus" \notin Timed /\ NoCycle # "bogus"
      BY <1>6, <2>1, <2>3, KindFacts DEF FallBogus
    <3> QED BY <2>1, <3>1 DEF PinsFollow, WaitSeen
  <2> QED BY <2>2, <2>3
<1>7. ASSUME cyc = NoCycle, UNCHANGED <<cyc, pins>> PROVE PinsFollow' /\ WaitSeen'
  BY <1>7, KindFacts DEF PinsFollow, WaitSeen
<1>8. ASSUME NEW in \in Inputs, Idle(in) PROVE PinsFollow' /\ WaitSeen'
  BY <1>7, <1>8 DEF Idle
<1>9. ASSUME NEW level \in BOOLEAN, SetClkpin(level) PROVE PinsFollow' /\ WaitSeen'
  BY <1>7, <1>9 DEF SetClkpin
<1>10. CASE UNCHANGED vars
  BY <1>10 DEF vars, PinsFollow, WaitSeen, At, Half, Stretched
<1> QED BY <1>1, <1>2, <1>3, <1>4, <1>5, <1>6, <1>8, <1>9, <1>10 DEF Next, Clock

(* Together with the invariant of Z80BusProofs the two are inductive.      *)
LEMMA WavesAlways == Spec => [](IInv /\ PinsFollow /\ WaitSeen)
<1>1. Init => IInv /\ PinsFollow /\ WaitSeen
  BY InitIInv, WavesInit
<1>2. IInv /\ PinsFollow /\ WaitSeen /\ [Next]_vars => IInv' /\ PinsFollow' /\ WaitSeen'
  BY IInvStep, WavesStep
<1> QED BY <1>1, <1>2, PTL DEF Spec

-----------------------------------------------------------------------------
(* The pins and effects follow the waveforms at every edge (PinsFollow).   *)
THEOREM PinsFollowWaves == Spec => []PinsFollow
BY WavesAlways, PTL

(* The rules of the bus hold of every waveform, and between cycles.        *)
Lawful(p) ==
    /\ ~({"RD", "WR"} \subseteq p.low)
    /\ ~({"MREQ", "IORQ"} \subseteq p.low)
    /\ p.low \cap {"MREQ", "IORQ", "RD", "WR", "RFSH"} # {}
          => {"A", "C"} \subseteq p.out /\ p.addr # "floating"
    /\ "WR" \in p.low => "D" \in p.out
    /\ "RD" \in p.low => "D" \notin p.out
    /\ "BUSACK" \in p.low => p.out = {}

(* Every half T state of every waveform is lawful,                         *)
LEMMA WaveLawful ==
    ASSUME NEW k \in Timed, NEW h \in Nat, NEW hlt \in BOOLEAN
    PROVE  Lawful(Wave(k, h, hlt))
<1> DEFINE low == LowIn(k, h, hlt)
           out == OutIn(k, h)
<1>1. ~({"RD", "WR"} \subseteq low) /\ ~({"MREQ", "IORQ"} \subseteq low) /\ "BUSACK" \notin low
  BY StrobesIn DEF Timed, Kinds
<1>2. "WR" \in low => "D" \in out
  BY StrobesIn DEF OutIn
<1>3. "RD" \in low => "D" \notin out
  BY StrobesIn DEF OutIn
<1>4. {"A", "C"} \subseteq out
  BY DEF OutIn
<1>5. /\ Wave(k, h, hlt).low = low /\ Wave(k, h, hlt).out = out
      /\ Wave(k, h, hlt).addr # "floating"
  BY DEF Wave
<1> HIDE DEF low, out
<1> QED BY <1>1, <1>2, <1>3, <1>4, <1>5 DEF Lawful

(* and so is what the pins rest in between two cycles.                     *)
LEMMA RestingLawful == \A p \in Resting : Lawful(p)
<1>1. Lawful(PinsBusRel)
  BY DEF Lawful, PinsBusRel
<1>2. \A k \in Timed : Last(k) \in Nat
  BY CycleFacts DEF Last
<1> QED BY <1>1, <1>2, WaveLawful DEF Resting

(* At no edge, whatever WAIT, BUSREQ and RESET do, are two directions or   *)
(* two address spaces asked for at once, is a strobe low on a bus that is  *)
(* not driven, or a bus driven that has been handed over (BusProtocol).    *)
THEOREM BusIsLawful == Spec => []BusProtocol
<1>1. ASSUME IInv, PinsFollow PROVE BusProtocol
  <2>1. Lawful(pins)
    <3>1. CASE cyc = NoCycle
      BY <1>1, <3>1 DEF PinsFollow, PinsInit, Lawful
    <3>2. CASE cyc = "bogus" \/ (cyc \in Timed /\ t = -1)
      BY <1>1, <3>2, RestingLawful DEF PinsFollow
    <3>3. CASE cyc \in Timed /\ t \in 0..LastT[cyc]
      <4>1. At(Half) \/ At(2 * t + 1)
        BY <1>1, <3>3 DEF PinsFollow
      <4>2. Half \in Nat /\ 2 * t + 1 \in Nat /\ halt \in BOOLEAN
        BY <1>1, <3>3, CycleFacts DEF Half, IInv, TypeOK
      <4> QED BY <3>3, <4>1, <4>2, WaveLawful DEF At
    <3>4. CASE cyc \in Timed /\ t > LastT[cyc]
      BY <1>1, <3>4, RestingLawful DEF PinsFollow, Resting
    <3>5. cyc \in Timed => LastT[cyc] \in {2, 3, 5} /\ t \in -1..6
      BY <1>1, CycleFacts DEF IInv, TypeOK
    <3>6. cyc \in Timed \cup {"bogus", NoCycle}
      BY <1>1, KindFacts DEF IInv, TypeOK
    <3> QED BY <3>1, <3>2, <3>3, <3>4, <3>5, <3>6
  <2> QED BY <1>1, <2>1 DEF PinsFollow, Lawful, BusProtocol
<1> QED BY <1>1, WavesAlways, PTL

-----------------------------------------------------------------------------
(* What an edge does to the pins: nothing, floats or releases them, begins *)
(* a waveform, or goes on by one half T state in one, where a byte is taken*)
(* only after WAIT was sampled high.                                       *)
LEMMA PinsMove ==
    ASSUME IInv, PinsFollow, WaitSeen, Next
    PROVE  \/ UNCHANGED <<pins, eff>>
           \/ pins' \in {PinsInit, PinsBusRel} /\ UNCHANGED eff
           \/ \E k \in Timed, hlt \in BOOLEAN :
                 pins' = Wave(k, 0, hlt) /\ eff' = Done(k, 0, hlt)
           \/ \E k \in Timed, hlt \in BOOLEAN : \E h \in 1..Last(k) :
                 /\ Turn(k, h, hlt)
                 /\ h \in {2 * WaitT[k], 2 * WaitT[k] + 1} => ~seen'.wait
<1> DEFINE Moves ==
             \/ UNCHANGED <<pins, eff>>
             \/ pins' \in {PinsInit, PinsBusRel} /\ UNCHANGED eff
             \/ \E k \in Timed, hlt \in BOOLEAN :
                   pins' = Wave(k, 0, hlt) /\ eff' = Done(k, 0, hlt)
             \/ \E k \in Timed, hlt \in BOOLEAN : \E h \in 1..Last(k) :
                   /\ Turn(k, h, hlt)
                   /\ h \in {2 * WaitT[k], 2 * WaitT[k] + 1} => ~seen'.wait
<1>1. ASSUME NEW in \in Inputs, ResetLow(in) PROVE Moves
  BY <1>1 DEF ResetLow
<1>2. ASSUME NEW k \in Timed, NEW t0 \in -1..LastT[k] + 1, NEW hlt \in BOOLEAN,
             NEW in \in Inputs, Ready(k, t0, hlt), RaiseTimed(k, t0, hlt, eff, in)
      PROVE  Moves
  <2>1. /\ LastT[k] \in {2, 3, 5} /\ WaitT[k] \in {2, 3, 4}
        /\ Last(k) = 2 * LastT[k] + 1
    BY CycleFacts DEF Last
  <2>2. CASE t' = 0 /\ pins' = Wave(k, 0, hlt) /\ eff' = Done(k, 0, hlt)
    BY <2>2
  <2>3. CASE /\ t' \in 1..LastT[k] /\ Turn(k, 2 * t', hlt)
             /\ t' = WaitT[k] => ~seen'.wait
    <3>1. 2 * t' \in 1..Last(k) /\ t' \in Int
      BY <2>1, <2>3
    <3>2. 2 * t' \in {2 * WaitT[k], 2 * WaitT[k] + 1} => t' = WaitT[k]
      BY <2>1, <3>1
    <3> QED BY <2>3, <3>1, <3>2
  <2> QED BY <1>2, <2>2, <2>3, RaiseMoves
<1>3. ASSUME NEW in \in Inputs, ResetExit(in) PROVE Moves
  <2> DEFINE hlt == FALSE
  <2>1. RaiseTimed("fetch", -1, hlt, eff, in) /\ hlt \in BOOLEAN /\ "fetch" \in Timed
    BY <1>3, KindFacts DEF ResetExit
  <2> HIDE DEF hlt
  <2>2. LastT["fetch"] \in {2, 3, 5}
    BY <2>1, CycleFacts
  <2>3. -1 \in -1..LastT["fetch"] + 1 /\ Ready("fetch", -1, hlt)
    BY <2>2 DEF Ready
  <2> HIDE DEF Moves
  <2> QED BY <1>2, <2>1, <2>3
<1>4. ASSUME NEW in \in Inputs, RaiseClk(in) PROVE Moves
  <2>1. cyc \in Timed /\ ~clk /\ RaiseTimed(cyc, t, halt, eff, in)
    BY <1>4 DEF RaiseClk
  <2>2. t \in -1..LastT[cyc] + 1 /\ halt \in BOOLEAN
    BY <2>1, CycleFacts DEF IInv, TypeOK
  <2>3. Ready(cyc, t, halt)
    BY <2>1 DEF Ready, PinsFollow, At, Half, Stretched
  <2> HIDE DEF Moves
  <2> QED BY <1>2, <2>1, <2>2, <2>3
<1>5. ASSUME FallClk PROVE Moves
  <2>1. /\ cyc \in Timed /\ clk /\ seen' = seen /\ halt \in BOOLEAN
        /\ LastT[cyc] \in {2, 3, 5} /\ WaitT[cyc] \in {2, 3, 4}
        /\ Last(cyc) = 2 * LastT[cyc] + 1
    BY <1>5, CycleFacts DEF FallClk, IInv, TypeOK, Last
  <2>2. CASE t \in 0..LastT[cyc] /\ Turn(cyc, 2 * t + 1, halt)
    <3>1. 2 * t + 1 \in 1..Last(cyc)
      BY <2>1, <2>2
    <3>2. 2 * t + 1 \in {2 * WaitT[cyc], 2 * WaitT[cyc] + 1} => t = WaitT[cyc]
      BY <2>1, <2>2
    <3>3. t = WaitT[cyc] => ~seen'.wait
      BY <2>1 DEF WaitSeen
    <3> QED BY <2>1, <2>2, <3>1, <3>2, <3>3
  <2> QED BY <1>5, <2>2, FallMoves
<1>6. ASSUME NEW in \in Inputs, RaiseBogus(in) \/ Idle(in) PROVE Moves
  BY <1>6 DEF RaiseBogus, Idle
<1>7. ASSUME FallBogus PROVE Moves
  BY <1>7 DEF FallBogus
<1>8. ASSUME NEW level \in BOOLEAN, SetClkpin(level) PROVE Moves
  BY <1>8 DEF SetClkpin
<1> HIDE DEF Moves
<1>9. Moves
  <2>1. ASSUME NEW in \in Inputs, Clock(in) PROVE Moves
    BY <1>1, <1>3, <1>4, <1>5, <1>6, <1>7, <2>1 DEF Clock
  <2> QED BY <1>8, <2>1 DEF Next
<1> QED BY <1>9 DEF Moves

(* A strobe that stays low keeps its address and the lines driven with it. *)
Strobes == {"MREQ", "IORQ", "RD", "WR"}
Held(p, q) == \A s \in Strobes : s \in p.low /\ s \in q.low => q.addr = p.addr /\ q.out = p.out

(* From one half T state to the next a strobe held low keeps its address.  *)
LEMMA WaveHeld ==
    ASSUME NEW k \in Timed, NEW h \in 1..Last(k), NEW hlt \in BOOLEAN
    PROVE  Held(Wave(k, h - 1, hlt), Wave(k, h, hlt))
<1> DEFINE p == Wave(k, h - 1, hlt)
           q == Wave(k, h, hlt)
<1>1. h \in Nat /\ h - 1 \in Nat
  BY CycleFacts DEF Last
<1>2. SUFFICES ASSUME NEW s \in Strobes, s \in LowIn(k, h - 1, hlt), s \in LowIn(k, h, hlt)
               PROVE  q.addr = p.addr /\ q.out = p.out
  BY DEF Held, Wave
<1>3. OutIn(k, h) = OutIn(k, h - 1)
  BY <1>1, <1>2, StrobesIn DEF Strobes, OutIn
<1>4. Refreshing(k, h) <=> Refreshing(k, h - 1)
  <2>1. k = "fetch" => h # 4
    BY <1>1, <1>2, StrobesIn DEF Strobes
  <2>2. k = "intack" => h # 8
    BY <1>1, <1>2, StrobesIn DEF Strobes
  <2> QED BY <1>1, <2>1, <2>2 DEF Refreshing
<1> QED BY <1>3, <1>4 DEF Wave

(* While a strobe stays low the address and what is driven with it do not  *)
(* change, however long WAIT stretches the cycle (AddressStable).          *)
THEOREM AddressIsStable == Spec => AddressStable
<1> DEFINE Stable == \A s \in {"MREQ", "IORQ", "RD", "WR"} :
                        s \in pins.low /\ s \in pins'.low
                           => pins'.addr = pins.addr /\ pins'.out = pins.out
<1>1. ASSUME IInv, PinsFollow, WaitSeen, Next PROVE Stable
  <2>1. CASE UNCHANGED pins
    BY <2>1
  <2>2. CASE pins' \in {PinsInit, PinsBusRel}
    BY <2>2 DEF PinsInit, PinsBusRel
  <2>3. CASE \E k \in Timed, hlt \in BOOLEAN : pins' = Wave(k, 0, hlt)
    <3>1. PICK k \in Timed, hlt \in BOOLEAN : pins' = Wave(k, 0, hlt)
      BY <2>3
    <3>2. \A s \in {"MREQ", "IORQ", "RD", "WR"} : s \notin LowIn(k, 0, hlt)
      BY StrobesIn
    <3> QED BY <3>1, <3>2 DEF Wave
  <2>4. CASE \E k \in Timed, hlt \in BOOLEAN : \E h \in 1..Last(k) : Turn(k, h, hlt)
    <3>1. Held(pins, pins')
      BY <2>4, WaveHeld DEF Turn
    <3> QED BY <3>1 DEF Held, Strobes
  <2> HIDE DEF Stable
  <2> QED BY <1>1, <2>1, <2>2, <2>3, <2>4, PinsMove
<1>2. IInv /\ PinsFollow /\ WaitSeen /\ [Next]_vars => [Stable]_vars
  BY <1>1
<1>3. [][Stable]_vars => AddressStable
  BY PTL DEF AddressStable
<1> QED BY <1>2, <1>3, WavesAlways, PTL DEF Spec

(* A byte is taken only after WAIT was seen high at the last rising edge,  *)
(* and while the strobe that asked for it is low (LatchWhenReady).         *)
THEOREM LatchesWhenReady == Spec => LatchWhenReady
<1> DEFINE Latches == eff'["latch"] > eff["latch"]
           Fits == /\ ~seen'.wait
                   /\ "RD" \in pins.low \/ {"M1", "IORQ"} \subseteq pins.low
<1>1. ASSUME IInv, PinsFollow, WaitSeen, Next, Latches PROVE Fits
  <2>1. eff["latch"] \in 0..2 /\ "latch" \in Effects
    BY <1>1 DEF IInv, TypeOK, Effects
  <2>2. ~UNCHANGED eff
    BY <1>1, <2>1
  <2>3. ASSUME NEW k \in Timed, NEW hlt \in BOOLEAN, eff' = Done(k, 0, hlt) PROVE FALSE
    <3>1. DoneAt("latch", k) \in 4..8
      BY DEF DoneAt
    <3>2. Done(k, 0, hlt)["latch"] = 0
      BY <2>1, <3>1 DEF Done
    <3> QED BY <1>1, <2>1, <2>3, <3>2
  <2>4. PICK k \in Timed, hlt \in BOOLEAN, h \in Int :
           /\ h \in 1..Last(k) /\ Turn(k, h, hlt)
           /\ h \in {2 * WaitT[k], 2 * WaitT[k] + 1} => ~seen'.wait
    BY <1>1, <2>2, <2>3, PinsMove
  <2>5. "latch" \in Due(k, hlt) /\ h = DoneAt("latch", k)
    <3>1. Done(k, h - 1, hlt)["latch"] < Done(k, h, hlt)["latch"]
      BY <1>1, <2>1, <2>4 DEF Turn, Done
    <3>2. DoneAt("latch", k) \in Int
      BY DEF DoneAt
    <3> QED BY <2>1, <2>4, <3>1, <3>2 DEF Done
  <2>6. /\ \/ k = "fetch" /\ h = 4
           \/ k = "memRead" /\ h = 5
           \/ k = "ioRead" /\ h = 7
           \/ k = "intack" /\ h = 8
        /\ h \in {2 * WaitT[k], 2 * WaitT[k] + 1}
    BY <2>5 DEF Due, DoneAt, WaitT
  <2>7. pins.low = LowIn(k, h - 1, hlt) /\ h - 1 \in Nat
    BY <2>4, <2>6 DEF Turn, Wave
  <2> QED BY <2>4, <2>6, <2>7, StrobesIn
<1>2. IInv /\ PinsFollow /\ WaitSeen /\ [Next]_vars => [Latches => Fits]_vars
  BY <1>1
<1>3. [][Latches => Fits]_vars => LatchWhenReady
  BY PTL DEF LatchWhenReady
<1> QED BY <1>2, <1>3, WavesAlways, PTL DEF Spec

(* A cycle that finishes has latched, refreshed, advanced PC and strobed   *)
(* its write once or never, as its kind demands (EffectsOnce).             *)
THEOREM EffectsAreOnce == Spec => EffectsOnce
<1> DEFINE Finishes == cyc \in Timed /\ t # -1 /\ t' = -1 /\ cyc' # NoCycle
           Once == \A e \in Effects : eff'[e] = (IF e \in Due(cyc, halt) THEN 1 ELSE 0)
<1>1. ASSUME IInv, PinsFollow, Next, Finishes PROVE Once
  <2>1. LastT[cyc] \in {2, 3, 5} /\ WaitT[cyc] \in {2, 3, 4} /\ t \in -1..LastT[cyc] + 1
        /\ halt \in BOOLEAN /\ cyc \in Timed
    BY <1>1, CycleFacts DEF IInv, TypeOK
  <2>2. ~(\E in \in Inputs : ResetLow(in) \/ ResetExit(in) \/ RaiseBogus(in) \/ Idle(in))
    BY <1>1, KindFacts DEF ResetLow, ResetExit, RaiseBogus, Idle
  <2>3. ~FallBogus /\ ~(\E level \in BOOLEAN : SetClkpin(level))
    BY <1>1, KindFacts DEF FallBogus, SetClkpin
  <2>4. ASSUME NEW in \in Inputs, RaiseClk(in) PROVE FALSE
    BY <1>1, <2>1, <2>4 DEF RaiseClk, RaiseTimed
  <2>5. FallClk
    BY <1>1, <2>2, <2>3, <2>4 DEF Next, Clock
  <2>6. t >= LastT[cyc]
    BY <1>1, <2>5 DEF FallClk, Finished
  <2>7. eff' = Done(cyc, Last(cyc), halt)
    <3>1. t = LastT[cyc] \/ t > LastT[cyc]
      BY <2>1, <2>6
    <3> QED BY <1>1, <2>1, <2>5, <3>1, FallFollows DEF Last
  <2> QED BY <2>1, <2>7, DoneAtEnd
<1>2. IInv /\ PinsFollow /\ WaitSeen /\ [Next]_vars => [Finishes => Once]_vars
  BY <1>1
<1>3. [][Finishes => Once]_vars => EffectsOnce
  BY PTL DEF EffectsOnce
<1> QED BY <1>2, <1>3, WavesAlways, PTL DEF Spec
=============================================================================
