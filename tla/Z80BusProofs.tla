---------------------------- MODULE Z80BusProofs ----------------------------
(***************************************************************************)
(* Proofs about Z80Bus for every set of bogus lengths: its type invariant, *)
(* that no cycle throws, and that BUSREQ decides as BusGrant says.         *)
(***************************************************************************)
EXTENDS Z80Bus, TLAPS

(* A cycle has begun its first T state by the time CLK is high.            *)
Begun == cyc \in Timed /\ clk => t >= 0

(* With CLK low a cycle at or past its last T state has the bus staged for *)
(* release: otherwise the falling edge would have finished it.             *)
ReleaseStaged == cyc \in Timed /\ ~clk /\ t >= LastT[cyc] => busrel[cyc]

(* From the last T state on, the flag of the cycle object is the level of  *)
(* BUSREQ at the last rising edge, not one left there by an earlier use.   *)
ReleaseFresh == cyc \in Timed /\ t >= LastT[cyc] => busrel[cyc] = seen.busreq

IInv == TypeOK /\ NoThrow /\ Begun /\ ReleaseStaged /\ ReleaseFresh

-----------------------------------------------------------------------------
(* The lengths of the timed cycles, and that WAIT is sampled within them.  *)
LEMMA CycleFacts ==
    \A k \in Timed : /\ LastT[k] \in {2, 3, 5}
                     /\ WaitT[k] \in {2, 3, 4}
                     /\ WaitT[k] <= LastT[k]
BY DEF Timed, Kinds, LastT, WaitT

(* The kinds, and that every cycle is followed by a kind of cycle.         *)
LEMMA KindFacts ==
    /\ "fetch" \in Timed /\ "bogus" \notin Timed /\ NoCycle \notin Timed
    /\ NoCycle # "bogus" /\ Timed \subseteq Kinds /\ NoCycle \notin Kinds
    /\ \A k \in Kinds : k # "bogus" => k \in Timed
    /\ \A k \in Kinds : Follows[k] \subseteq Kinds
BY DEF Timed, Kinds, NoCycle, Follows

(* The constant pin states, and the operations on pins.                    *)
LEMMA PinStates ==
    PinsInit \in PinsType /\ PinsNominal \in PinsType /\ PinsBusRel \in PinsType
BY DEF PinsInit, PinsNominal, PinsBusRel, PinsType, Lines, Groups, Addrs

(* Pulling, raising and driving lines keeps pins well typed,               *)
LEMMA PinOps ==
    ASSUME NEW p \in PinsType, NEW ls \in SUBSET Lines
    PROVE  /\ Pull(p, ls) \in PinsType
           /\ Raise(p, ls) \in PinsType
           /\ Drive(p) \in PinsType
           /\ [p EXCEPT !.addr = "refresh"] \in PinsType
BY DEF PinsType, Pull, Raise, Drive, Groups, Addrs

(* and so does the switch of every kind, in any half T state.              *)
LEMMA PinsAtType ==
    ASSUME NEW k \in Timed, NEW h \in Int, NEW hlt \in BOOLEAN, NEW p \in PinsType
    PROVE  PinsAt(k, h, hlt, p) \in PinsType
<1>0. /\ \A q \in PinsType, ls \in SUBSET Lines : Pull(q, ls) \in PinsType
      /\ \A q \in PinsType, ls \in SUBSET Lines : Raise(q, ls) \in PinsType
      /\ \A q \in PinsType : Drive(q) \in PinsType
      /\ \A q \in PinsType : [q EXCEPT !.addr = "refresh"] \in PinsType
  BY PinOps
<1>1. FetchPins(h, hlt, p) \in PinsType
  <2>1. /\ {"M1"} \cup (IF hlt THEN {"HALT"} ELSE {}) \in SUBSET Lines
        /\ {"MREQ", "RD"} \in SUBSET Lines /\ {"MREQ", "RD", "M1"} \in SUBSET Lines
        /\ {"RFSH"} \in SUBSET Lines /\ {"MREQ"} \in SUBSET Lines
    BY DEF Lines
  <2> QED BY <1>0, <2>1, PinStates DEF FetchPins
<1>2. MemReadPins(h, p) \in PinsType
  <2>1. {"MREQ", "RD"} \in SUBSET Lines
    BY DEF Lines
  <2> QED BY <1>0, <2>1, PinStates DEF MemReadPins
<1>3. MemWritePins(h, p) \in PinsType
  <2>1. {"MREQ"} \in SUBSET Lines /\ {"WR"} \in SUBSET Lines /\ {"MREQ", "WR"} \in SUBSET Lines
    BY DEF Lines
  <2> QED BY <1>0, <2>1, PinStates DEF MemWritePins
<1>4. IoReadPins(h, p) \in PinsType
  <2>1. {"IORQ", "RD"} \in SUBSET Lines
    BY DEF Lines
  <2> QED BY <1>0, <2>1, PinStates DEF IoReadPins
<1>5. IoWritePins(h, p) \in PinsType
  <2>1. {"IORQ", "WR"} \in SUBSET Lines
    BY DEF Lines
  <2> QED BY <1>0, <2>1, PinStates DEF IoWritePins
<1>6. IntackPins(h, p) \in PinsType
  <2>1. /\ {"M1"} \in SUBSET Lines /\ {"IORQ"} \in SUBSET Lines
        /\ {"RFSH"} \in SUBSET Lines /\ {"MREQ"} \in SUBSET Lines
    BY DEF Lines
  <2> QED BY <1>0, <2>1, PinStates DEF IntackPins
<1> QED BY <1>1, <1>2, <1>3, <1>4, <1>5, <1>6 DEF PinsAt

(* Counting effects keeps to 0..2.                                         *)
LEMMA CountType ==
    /\ NoEffects \in [Effects -> 0..2]
    /\ \A f \in [Effects -> 0..2] : \A es : Count(f, es) \in [Effects -> 0..2]
BY DEF NoEffects, Count

-----------------------------------------------------------------------------
(* A rising edge of a timed cycle keeps the invariant: WAIT steps T back by*)
(* one at most, and a cycle at its end has its release staged.             *)
LEMMA RaiseTimedKeeps ==
    ASSUME NEW k \in Timed, NEW t0 \in -1..LastT[k] + 1, NEW hlt \in BOOLEAN,
           NEW in \in Inputs, IInv, t0 >= LastT[k] => busrel[k],
           RaiseTimed(k, t0, hlt, eff, in), cyc' = k, clk' = TRUE
    PROVE  /\ t' \in -1..6 /\ t' <= LastT[k] + 1
           /\ busrel' \in [Timed -> BOOLEAN] /\ pins' \in PinsType
           /\ fault' = FALSE /\ eff' \in [Effects -> 0..2]
           /\ seen' \in [wait : BOOLEAN, busreq : BOOLEAN]
           /\ Begun' /\ ReleaseStaged' /\ ReleaseFresh'
<1> DEFINE t1 == IF t0 > LastT[k] THEN t0 ELSE t0 + 1
           stretched == t1 = WaitT[k] /\ in.wait
           past == t1 > LastT[k]
<1>1. /\ LastT[k] \in {2, 3, 5} /\ WaitT[k] \in {2, 3, 4} /\ WaitT[k] <= LastT[k]
      /\ t1 \in 0..LastT[k] + 1
  BY CycleFacts
<1>2. /\ t' = IF stretched THEN t1 - 1 ELSE t1
      /\ busrel' = IF t1 >= LastT[k] THEN [busrel EXCEPT ![k] = in.busreq] ELSE busrel
      /\ fault' = (past /\ ~busrel[k])
      /\ seen' = [wait |-> in.wait, busreq |-> in.busreq]
  BY DEF RaiseTimed, SamplesBusreq
<1>3. t' \in 0..6 /\ t' <= LastT[k] + 1
  BY <1>1, <1>2
<1>4. /\ in.wait \in BOOLEAN /\ in.busreq \in BOOLEAN
      /\ seen' \in [wait : BOOLEAN, busreq : BOOLEAN] /\ seen'.busreq = in.busreq
  BY <1>2 DEF Inputs
<1>5. busrel \in [Timed -> BOOLEAN] /\ pins \in PinsType /\ eff \in [Effects -> 0..2]
  BY DEF IInv, TypeOK
<1>6. busrel' \in [Timed -> BOOLEAN]
  BY <1>2, <1>4, <1>5
<1>7. pins' \in PinsType
  <2>1. 2 * t1 \in Int
    BY <1>1
  <2>2. PinsAt(k, 2 * t1, hlt, pins) \in PinsType
    <3> HIDE DEF t1
    <3> QED BY <2>1, <1>5, PinsAtType
  <2> QED BY <2>2, <1>5, PinStates DEF RaiseTimed
<1>8. eff' \in [Effects -> 0..2]
  BY <1>5, CountType DEF RaiseTimed
<1>9. fault' = FALSE
  <2>1. past => busrel[k]
    BY <1>1
  <2> HIDE DEF past
  <2> QED BY <1>2, <2>1
<1>10. t' >= LastT[k] => busrel'[k] = seen'.busreq
  BY <1>1, <1>2, <1>4, <1>5
<1> QED BY <1>3, <1>4, <1>6, <1>7, <1>8, <1>9, <1>10 DEF Begun, ReleaseStaged, ReleaseFresh

(* What the decoder starts next is a cycle that has not begun.             *)
LEMMA StartNextKeeps ==
    ASSUME NEW k \in Kinds, NEW l \in Nat, halt \in BOOLEAN, StartNext(k, l)
    PROVE  /\ cyc' \in Kinds /\ t' = -1 /\ halt' \in BOOLEAN
           /\ left' \in Nat /\ (cyc' = "bogus" => left' > 0)
<1>1. PICK k2 \in Follows[k], hlt \in BOOLEAN, n \in BogusLengths : Start(k2, hlt, n, l)
  BY DEF StartNext
<1>2. k2 \in Kinds /\ n \in Nat /\ n > 0
  BY KindFacts, BogusLengthsAssumption
<1> QED BY <1>1, <1>2 DEF Start

-----------------------------------------------------------------------------
(* Power-on satisfies the invariant.                                       *)
LEMMA InitIInv == Init => IInv
<1> SUFFICES ASSUME Init PROVE IInv
  OBVIOUS
<1>1. cyc = NoCycle /\ NoCycle \notin Timed /\ NoCycle # "bogus"
  BY KindFacts DEF Init
<1>2. pins \in PinsType /\ eff \in [Effects -> 0..2]
  BY PinStates, CountType DEF Init
<1>3. cut \in [kind : Kinds \cup {NoCycle}, t : -1..6, held : 0..2]
  BY DEF Init, NotCut
<1>4. busrel \in [Timed -> BOOLEAN] /\ seen \in [wait : BOOLEAN, busreq : BOOLEAN]
  BY DEF Init
<1>5. TypeOK
  <2>1. t \in -1..6 /\ left \in Nat /\ resetCycles \in 0..2
    BY DEF Init
  <2>2. cyc \in Kinds \cup {NoCycle} /\ regs \in {"uninit", "pcOnly", "cleared"}
    BY <1>1 DEF Init
  <2> QED BY <1>1, <1>2, <1>3, <1>4, <2>1, <2>2 DEF Init, TypeOK
<1> QED BY <1>1, <1>5 DEF Init, IInv, NoThrow, Begun, ReleaseStaged, ReleaseFresh

(* The invariant is inductive: one step for each action of Next.           *)
LEMMA IInvStep == IInv /\ [Next]_vars => IInv'
<1> SUFFICES ASSUME IInv, [Next]_vars PROVE IInv'
  OBVIOUS
<1>0. TypeOK /\ NoThrow /\ Begun /\ ReleaseStaged /\ ReleaseFresh
  BY DEF IInv
<1>1. ASSUME NEW in \in Inputs, ResetLow(in) PROVE IInv'
  <2>1. TypeOK' /\ NoThrow'
    BY <1>0, <1>1, PinStates, KindFacts DEF ResetLow, TypeOK, NoThrow, CutInM1T2
  <2>2. cyc' \notin Timed
    BY <1>1, KindFacts DEF ResetLow
  <2> QED BY <2>1, <2>2 DEF IInv, Begun, ReleaseStaged, ReleaseFresh
<1>2. ASSUME NEW in \in Inputs, ResetExit(in) PROVE IInv'
  <2>1. /\ cyc' = "fetch" /\ clk' = TRUE /\ "fetch" \in Timed
        /\ RaiseTimed("fetch", -1, FALSE, eff, in)
    BY <1>2, KindFacts DEF ResetExit
  <2>2. LastT["fetch"] \in {2, 3, 5}
    BY <2>1, CycleFacts
  <2>3. /\ t' \in -1..6 /\ t' <= LastT["fetch"] + 1
        /\ busrel' \in [Timed -> BOOLEAN] /\ pins' \in PinsType
        /\ fault' = FALSE /\ eff' \in [Effects -> 0..2]
        /\ seen' \in [wait : BOOLEAN, busreq : BOOLEAN]
        /\ Begun' /\ ReleaseStaged' /\ ReleaseFresh'
    <3>1. -1 \in -1..LastT["fetch"] + 1 /\ ~(-1 >= LastT["fetch"])
      BY <2>2
    <3> QED BY <2>1, <3>1, RaiseTimedKeeps
  <2>4. /\ resetCycles' = 0 /\ halt' = FALSE /\ cut' = NotCut
        /\ regs' \in {"uninit", "pcOnly", "cleared"}
        /\ UNCHANGED <<left, por, resetM1T2>>
    BY <1>2 DEF ResetExit, ResetCyclesAfterExit
  <2>5. cut' \in [kind : Kinds \cup {NoCycle}, t : -1..6, held : 0..2]
    BY <2>4 DEF NotCut
  <2>6. cyc' \in Kinds /\ cyc' # "bogus"
    BY <2>1, KindFacts
  <2>7. TypeOK'
    <3>1. left' \in Nat /\ resetCycles' \in 0..2 /\ por' \in BOOLEAN /\ resetM1T2' \in BOOLEAN
      BY <1>0, <2>4 DEF TypeOK
    <3>2. cyc' \in Timed => t' <= LastT[cyc'] + 1
      BY <2>1, <2>3
    <3> QED BY <2>1, <2>3, <2>4, <2>5, <2>6, <3>1, <3>2 DEF TypeOK
  <2> QED BY <2>3, <2>7 DEF IInv, NoThrow
<1>3. ASSUME NEW in \in Inputs, RaiseClk(in) PROVE IInv'
  <2>1. /\ cyc \in Timed /\ cyc' = cyc /\ clk' = TRUE /\ ~clk
        /\ RaiseTimed(cyc, t, halt, eff, in)
    BY <1>3 DEF RaiseClk
  <2>2. t \in -1..LastT[cyc] + 1 /\ halt \in BOOLEAN
    BY <1>0, <2>1, CycleFacts DEF TypeOK
  <2>3. t >= LastT[cyc] => busrel[cyc]
    BY <1>0, <2>1 DEF ReleaseStaged
  <2>4. /\ t' \in -1..6 /\ t' <= LastT[cyc] + 1
        /\ busrel' \in [Timed -> BOOLEAN] /\ pins' \in PinsType
        /\ fault' = FALSE /\ eff' \in [Effects -> 0..2]
        /\ seen' \in [wait : BOOLEAN, busreq : BOOLEAN]
        /\ Begun' /\ ReleaseStaged' /\ ReleaseFresh'
    BY <2>1, <2>2, <2>3, RaiseTimedKeeps
  <2>5. TypeOK'
    BY <1>0, <1>3, <2>4 DEF RaiseClk, TypeOK
  <2> QED BY <2>4, <2>5 DEF IInv, NoThrow
<1>4. CASE FallClk
  <2>1. /\ cyc \in Timed /\ clk /\ clk' = FALSE
        /\ t \in 0..LastT[cyc] + 1 /\ LastT[cyc] \in {2, 3, 5}
    BY <1>0, <1>4, CycleFacts DEF FallClk, TypeOK, Begun
  <2>2. pins' \in PinsType /\ eff' \in [Effects -> 0..2]
    <3>1. pins \in PinsType /\ eff \in [Effects -> 0..2] /\ halt \in BOOLEAN
      BY <1>0 DEF TypeOK
    <3>2. 2 * t + 1 \in Int
      BY <2>1
    <3>3. PinsAt(cyc, 2 * t + 1, halt, pins) \in PinsType
      BY <2>1, <3>1, <3>2, PinsAtType
    <3> QED BY <1>4, <3>1, <3>3, CountType DEF FallClk
  <2>3. CASE Finished(cyc, t, busrel[cyc])
    <3>1. StartNext(cyc, left)
      BY <1>4, <2>3 DEF FallClk
    <3>2. /\ cyc' \in Kinds /\ t' = -1 /\ halt' \in BOOLEAN
          /\ left' \in Nat /\ (cyc' = "bogus" => left' > 0)
      BY <1>0, <2>1, <3>1, KindFacts, StartNextKeeps DEF TypeOK
    <3>3. cyc' \in Timed => LastT[cyc'] \in {2, 3, 5}
      BY CycleFacts
    <3>4. UNCHANGED <<busrel, por, resetCycles, resetM1T2, fault, seen, cut, regs>>
      BY <1>4 DEF FallClk
    <3>5. TypeOK' /\ NoThrow'
      <4>1. t' \in -1..6 /\ (cyc' \in Timed => t' <= LastT[cyc'] + 1)
        BY <3>2, <3>3
      <4> QED BY <1>0, <2>1, <2>2, <3>2, <3>4, <4>1 DEF TypeOK, NoThrow
    <3> QED BY <2>1, <3>2, <3>3, <3>5 DEF IInv, Begun, ReleaseStaged, ReleaseFresh
  <2>4. CASE ~Finished(cyc, t, busrel[cyc])
    <3>1. UNCHANGED <<cyc, t, left, halt, busrel, por, resetCycles, resetM1T2, fault,
                      seen, cut, regs>>
      BY <1>4, <2>4 DEF FallClk
    <3>2. TypeOK' /\ NoThrow'
      BY <1>0, <2>1, <2>2, <3>1 DEF TypeOK, NoThrow
    <3>3. ReleaseStaged' /\ Begun' /\ ReleaseFresh'
      BY <1>0, <2>1, <2>4, <3>1 DEF Finished, Begun, ReleaseStaged, ReleaseFresh
    <3> QED BY <3>2, <3>3 DEF IInv
  <2> QED BY <2>3, <2>4
<1>5. ASSUME NEW in \in Inputs, RaiseBogus(in) PROVE IInv'
  <2>1. TypeOK' /\ NoThrow'
    BY <1>0, <1>5, KindFacts DEF RaiseBogus, TypeOK, NoThrow, Inputs
  <2>2. cyc' \notin Timed
    BY <1>5, KindFacts DEF RaiseBogus
  <2> QED BY <2>1, <2>2 DEF IInv, Begun, ReleaseStaged, ReleaseFresh
<1>6. CASE FallBogus
  <2>1. /\ cyc = "bogus" /\ left \in Nat /\ left > 0 /\ clk' = FALSE
        /\ halt \in BOOLEAN
    BY <1>0, <1>6 DEF FallBogus, TypeOK
  <2>2. CASE BogusOver(left - 1)
    <3>1. StartNext("bogus", left - 1) /\ left - 1 \in Nat /\ "bogus" \in Kinds
      BY <1>6, <2>1, <2>2 DEF FallBogus, BogusOver, Kinds
    <3>2. /\ cyc' \in Kinds /\ t' = -1 /\ halt' \in BOOLEAN
          /\ left' \in Nat /\ (cyc' = "bogus" => left' > 0)
      BY <2>1, <3>1, StartNextKeeps
    <3>3. cyc' \in Timed => LastT[cyc'] \in {2, 3, 5}
      BY CycleFacts
    <3>4. UNCHANGED <<busrel, pins, por, resetCycles, resetM1T2, fault, eff, seen,
                      cut, regs>>
      BY <1>6 DEF FallBogus
    <3>5. TypeOK' /\ NoThrow'
      <4>1. t' \in -1..6 /\ (cyc' \in Timed => t' <= LastT[cyc'] + 1)
        BY <3>2, <3>3
      <4> QED BY <1>0, <2>1, <3>2, <3>4, <4>1 DEF TypeOK, NoThrow
    <3> QED BY <2>1, <3>2, <3>3, <3>5 DEF IInv, Begun, ReleaseStaged, ReleaseFresh
  <2>3. CASE ~BogusOver(left - 1)
    <3>1. left' = left - 1 /\ left' \in Nat /\ left' > 0
      BY <1>6, <2>1, <2>3 DEF FallBogus, BogusOver
    <3>2. TypeOK' /\ NoThrow' /\ cyc' \notin Timed
      BY <1>0, <1>6, <2>1, <2>3, <3>1, KindFacts DEF FallBogus, TypeOK, NoThrow
    <3> QED BY <3>2 DEF IInv, Begun, ReleaseStaged, ReleaseFresh
  <2> QED BY <2>2, <2>3
<1>7. ASSUME NEW in \in Inputs, Idle(in) PROVE IInv'
  <2>1. TypeOK' /\ NoThrow' /\ cyc' \notin Timed
    BY <1>0, <1>7, KindFacts DEF Idle, TypeOK, NoThrow
  <2> QED BY <2>1 DEF IInv, Begun, ReleaseStaged, ReleaseFresh
<1>8. ASSUME NEW level \in BOOLEAN, SetClkpin(level) PROVE IInv'
  <2>1. TypeOK' /\ NoThrow' /\ cyc' \notin Timed
    BY <1>0, <1>8, KindFacts DEF SetClkpin, TypeOK, NoThrow
  <2> QED BY <2>1 DEF IInv, Begun, ReleaseStaged, ReleaseFresh
<1>9. CASE UNCHANGED vars
  BY <1>0, <1>9 DEF vars, IInv, TypeOK, NoThrow, Begun, ReleaseStaged, ReleaseFresh
<1> QED BY <1>1, <1>2, <1>3, <1>4, <1>5, <1>6, <1>7, <1>8, <1>9 DEF Next, Clock

(* The invariant holds of every reachable state.                           *)
LEMMA IInvAlways == Spec => []IInv
BY InitIInv, IInvStep, PTL DEF Spec

(* Every variable keeps to its range (Z80Bus!TypeOK).                      *)
THEOREM TypeCorrect == Spec => []TypeOK
<1>1. IInv => TypeOK
  BY DEF IInv
<1> QED BY <1>1, IInvAlways, PTL

(* No cycle is clocked past its end without a release staged, whatever WAIT*)
(* and BUSREQ do: "Invalid T cycle" is never thrown (Z80Bus!NoThrow).      *)
THEOREM NeverThrows == Spec => []NoThrow
<1>1. IInv => NoThrow
  BY DEF IInv
<1> QED BY <1>1, IInvAlways, PTL

-----------------------------------------------------------------------------
(* A step out of a cycle that has reached its last T state hands the bus   *)
(* over or finishes the cycle as the last sample of BUSREQ demands, not as *)
(* a flag some earlier use of the cycle object left (Z80Bus!BusGrant).     *)
THEOREM BusIsGranted == Spec => BusGrant
<1> DEFINE AtEnd == /\ cyc \in Timed /\ t >= LastT[cyc]
                    /\ clk' # clk /\ cyc' # NoCycle
           Decides == IF clk' THEN seen.busreq /\ "BUSACK" \in pins'.low
                              ELSE t' = -1 <=> ~seen.busreq
<1>1. ASSUME IInv, Next, AtEnd PROVE Decides
  <2>0. /\ LastT[cyc] \in {2, 3, 5} /\ WaitT[cyc] <= LastT[cyc]
        /\ t \in -1..6 /\ t >= LastT[cyc] /\ cyc \in Timed
    BY <1>1, CycleFacts DEF IInv, TypeOK
  <2>1. CASE \E in \in Inputs : RaiseClk(in)
    <3>1. PICK in \in Inputs : RaiseClk(in)
      BY <2>1
    <3>2. clk' = TRUE /\ ~clk /\ RaiseTimed(cyc, t, halt, eff, in)
      BY <3>1 DEF RaiseClk
    <3>3. busrel[cyc] /\ busrel[cyc] = seen.busreq
      BY <1>1, <2>0, <3>2 DEF IInv, ReleaseStaged, ReleaseFresh
    <3>4. pins' = PinsBusRel
      BY <2>0, <3>2 DEF RaiseTimed
    <3> QED BY <3>2, <3>3, <3>4 DEF PinsBusRel
  <2>2. CASE FallClk
    <3>1. clk' = FALSE /\ busrel[cyc] = seen.busreq
      BY <1>1, <2>0, <2>2 DEF FallClk, IInv, ReleaseFresh
    <3>2. CASE seen.busreq
      BY <2>0, <2>2, <3>1, <3>2 DEF FallClk, Finished
    <3>3. CASE ~seen.busreq
      <4>1. StartNext(cyc, left)
        BY <2>0, <2>2, <3>1, <3>3 DEF FallClk, Finished
      <4>2. t' = -1
        BY <4>1 DEF StartNext, Start
      <4> QED BY <3>1, <3>3, <4>2
    <3> QED BY <3>2, <3>3
  <2>3. ~(\E in \in Inputs : ResetLow(in) \/ ResetExit(in) \/ RaiseBogus(in) \/ Idle(in))
    BY <1>1, <2>0, KindFacts DEF ResetLow, ResetExit, RaiseBogus, Idle
  <2>4. ~FallBogus /\ ~(\E level \in BOOLEAN : SetClkpin(level))
    BY <2>0, KindFacts DEF FallBogus, SetClkpin
  <2> QED BY <1>1, <2>1, <2>2, <2>3, <2>4 DEF Next, Clock
<1>2. IInv /\ [Next]_vars => [AtEnd => Decides]_vars
  BY <1>1
<1>3. [][AtEnd => Decides]_vars => BusGrant
  BY PTL DEF BusGrant
<1> QED BY <1>2, <1>3, IInvAlways, PTL DEF Spec

-----------------------------------------------------------------------------
(* The two fields that decide between the resets, in terms of the history: *)
(* outside a cycle they tell what RESET cut and for how many edges, inside *)
(* one the count starts from nothing.                                      *)
ResetCounted ==
    /\ cyc # NoCycle => resetCycles = 0
    /\ cyc = NoCycle =>
          /\ resetCycles = cut.held
          /\ cut.held = 0 => cut.kind = NoCycle
          /\ cut.held = 1 => (resetM1T2 <=> cut.kind = "fetch" /\ cut.t = 0)

(* Power-on has counted no reset.                                          *)
LEMMA ResetCountedInit == Init => ResetCounted
BY DEF Init, ResetCounted, NotCut

(* Every edge keeps the count of low edges that of the reset in progress.  *)
LEMMA ResetCountedStep == TypeOK /\ ResetCounted /\ [Next]_vars => ResetCounted'
<1> SUFFICES ASSUME TypeOK, ResetCounted, [Next]_vars PROVE ResetCounted'
  OBVIOUS
<1>1. ASSUME NEW in \in Inputs, ResetLow(in) PROVE ResetCounted'
  <2>1. cyc' = NoCycle /\ (resetM1T2' <=> cyc = "fetch" /\ t = 0)
        /\ resetCycles' = IF resetCycles < 2 THEN resetCycles + 1 ELSE 2
    BY <1>1 DEF ResetLow, CutInM1T2
  <2>2. CASE cyc = NoCycle
    <3>1. cut' = [cut EXCEPT !.held = IF @ < 2 THEN @ + 1 ELSE 2] /\ cyc # "fetch"
      BY <1>1, <2>2, KindFacts DEF ResetLow
    <3>2. cut.held \in 0..2 /\ cut'.held = (IF cut.held < 2 THEN cut.held + 1 ELSE 2)
          /\ cut'.kind = cut.kind
      BY <3>1 DEF TypeOK
    <3>3. resetCycles = cut.held /\ (cut.held = 0 => cut.kind = NoCycle)
      BY <2>2 DEF ResetCounted
    <3>4. resetCycles' = cut'.held /\ cut'.held # 0
      BY <2>1, <3>2, <3>3
    <3>5. ASSUME cut'.held = 1 PROVE ~resetM1T2' /\ cut'.kind # "fetch"
      BY <2>1, <3>1, <3>2, <3>3, <3>5, KindFacts
    <3> QED BY <2>1, <3>4, <3>5 DEF ResetCounted
  <2>3. CASE cyc # NoCycle
    <3>1. cut' = [kind |-> cyc, t |-> t, held |-> 1] /\ resetCycles = 0
      BY <1>1, <2>3 DEF ResetLow, ResetCounted
    <3>2. cut'.kind = cyc /\ cut'.t = t /\ cut'.held = 1 /\ resetCycles' = 1
      BY <2>1, <3>1
    <3> QED BY <2>1, <3>2 DEF ResetCounted
  <2> QED BY <2>2, <2>3
<1>2. ASSUME NEW in \in Inputs, ResetExit(in) PROVE ResetCounted'
  BY <1>2, KindFacts DEF ResetExit, ResetCyclesAfterExit, ResetCounted
<1>3. ASSUME cyc' = cyc \/ (cyc # NoCycle /\ cyc' # NoCycle),
             UNCHANGED <<resetCycles, resetM1T2, cut>>
      PROVE  ResetCounted'
  BY <1>3 DEF ResetCounted
<1>4. ASSUME NEW in \in Inputs, RaiseClk(in) \/ RaiseBogus(in) \/ Idle(in) PROVE ResetCounted'
  BY <1>3, <1>4 DEF RaiseClk, RaiseBogus, Idle
<1>5. ASSUME FallClk \/ FallBogus PROVE ResetCounted'
  <2>1. cyc \in Kinds /\ cyc # NoCycle
    BY <1>5, KindFacts DEF FallClk, FallBogus, Kinds
  <2>2. UNCHANGED <<resetCycles, resetM1T2, cut>>
    BY <1>5 DEF FallClk, FallBogus
  <2>3. cyc' = cyc \/ StartNext(cyc, left) \/ StartNext(cyc, left - 1)
    BY <1>5 DEF FallClk, FallBogus
  <2>4. ASSUME NEW l, StartNext(cyc, l) PROVE cyc' # NoCycle
    BY <2>1, <2>4, KindFacts DEF StartNext, Start
  <2> QED BY <1>3, <2>1, <2>2, <2>3, <2>4
<1>6. ASSUME NEW level \in BOOLEAN, SetClkpin(level) PROVE ResetCounted'
  BY <1>3, <1>6 DEF SetClkpin
<1>7. CASE UNCHANGED vars
  BY <1>3, <1>7 DEF vars
<1> QED BY <1>1, <1>2, <1>4, <1>5, <1>6, <1>7 DEF Next, Clock

(* The registers survive a reset exactly if RESET was low at one rising    *)
(* edge, the one beginning T2 of a fetch (Z80Bus!SpecialReset).            *)
THEOREM ResetIsSpecial == Spec => SpecialReset
<1> DEFINE Leaves == cyc = NoCycle /\ cyc' # NoCycle
           Rule == regs' = "pcOnly" <=> cut = [kind |-> "fetch", t |-> 0, held |-> 1]
<1>1. ASSUME TypeOK, ResetCounted, Next, Leaves PROVE Rule
  <2>1. ~FallClk /\ ~FallBogus /\ ~(\E level \in BOOLEAN : SetClkpin(level))
    BY <1>1, KindFacts DEF FallClk, FallBogus, SetClkpin
  <2>2. ~(\E in \in Inputs : ResetLow(in) \/ RaiseClk(in) \/ RaiseBogus(in) \/ Idle(in))
    BY <1>1, KindFacts DEF ResetLow, RaiseClk, RaiseBogus, Idle
  <2>3. PICK in \in Inputs : ResetExit(in)
    BY <1>1, <2>1, <2>2 DEF Next, Clock
  <2>4. regs' = "pcOnly" <=> resetCycles = 1 /\ resetM1T2
    BY <2>3 DEF ResetExit
  <2>5. cut = [kind |-> "fetch", t |-> 0, held |-> 1]
          <=> cut.kind = "fetch" /\ cut.t = 0 /\ cut.held = 1
    BY <1>1 DEF TypeOK
  <2> QED BY <1>1, <2>4, <2>5 DEF ResetCounted
<1>2. TypeOK /\ ResetCounted /\ [Next]_vars => [Leaves => Rule]_vars
  BY <1>1
<1>3. [][Leaves => Rule]_vars => SpecialReset
  BY DEF SpecialReset
<1>4. Spec => []ResetCounted
  BY ResetCountedInit, ResetCountedStep, TypeCorrect, PTL DEF Spec
<1> QED BY <1>2, <1>3, <1>4, TypeCorrect, PTL DEF Spec
=============================================================================
