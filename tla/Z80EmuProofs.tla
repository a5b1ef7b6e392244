---------------------------- MODULE Z80EmuProofs ----------------------------
(***************************************************************************)
(* What clock() does edge by edge, in Z80Emu, is what Z80Control says of   *)
(* the decoder and what Z80Bus says of the pins.  The invariant, EmuInv,   *)
(* joins the decoder's own (Decoder) with the state of the cycle on the    *)
(* pins (Lines): a cycle that can finish has the decoder's step to take,   *)
(* HALT is low only where Z80Control lets an interrupt see it, and the     *)
(* T states counted are those the cycle is made of.                        *)
(***************************************************************************)
EXTENDS Z80Emu, TLAPS

(* The proofs about the layer of the decoder, and about the pins.          *)
ControlP == INSTANCE Z80ControlProofs WITH special <- Special, Interrupts <- TRUE
BusP     == INSTANCE Z80BusProofs WITH cyc <- cyc.kind, BogusLengths <- 1..7

(* What they assume of the constants holds here.                           *)
LEMMA Assumed ==
    /\ ControlP!OpcodesAssumption /\ ControlP!PCModAssumption /\ ControlP!HostAssumption
    /\ BusP!BogusLengthsAssumption
BY ProgramAssumption
DEF ControlP!OpcodesAssumption, ControlP!PCModAssumption, ControlP!HostAssumption,
    ControlP!Bytes, BusP!BogusLengthsAssumption

(* ControlP is Control: the definitions of both, expanded, are the same.   *)
LEMMA SameVars == UNCHANGED ControlP!vars <=> UNCHANGED Control!vars
BY DEF ControlP!vars, Control!vars

(* So do the initial states.                                              *)
LEMMA SameInit == ControlP!Init <=> Control!Init
BY DEF
    ControlP!NoCycle, ControlP!Cycle, ControlP!IdleDecoder,
    ControlP!InReset, ControlP!Init,
    Control!NoCycle, Control!Cycle, Control!IdleDecoder, Control!InReset,
    Control!Init

(* And the step in which a cycle finishes.                                 *)
LEMMA SameFinish == ControlP!FinishCycle <=> Control!FinishCycle
BY DEF
    ControlP!Kinds, ControlP!Timed, ControlP!NoCycle, ControlP!LastT,
    ControlP!X, ControlP!Y, ControlP!Z, ControlP!Cycle, ControlP!Fetch,
    ControlP!Intack, ControlP!Imm, ControlP!Read, ControlP!Write,
    ControlP!Pop, ControlP!Push, ControlP!In, ControlP!Out, ControlP!Idle,
    ControlP!Jump, ControlP!Rewind, ControlP!TStates, ControlP!When,
    ControlP!ReadOrWrite, ControlP!PlanQ0, ControlP!PlanQ1, ControlP!PlanQ2,
    ControlP!PlanQ3, ControlP!PlanED1, ControlP!PlanED2, ControlP!PlanCB,
    ControlP!Plan, ControlP!Hole, ControlP!LdPtrImm, ControlP!UsesPtr,
    ControlP!IsHALT, ControlP!IsDI, ControlP!IsEI, ControlP!IsRETN,
    ControlP!IsIM, ControlP!IntMode, ControlP!LoadsPC, ControlP!IsRST,
    ControlP!Addr, ControlP!PCs, ControlP!NmiVector, ControlP!IntVector,
    ControlP!Prefixes, ControlP!IdleDecoder, ControlP!LatchedOpcodes,
    ControlP!LatchedCbOpcodes, ControlP!PCAfterCycle, ControlP!Elapsed,
    ControlP!Acked, ControlP!PendingAfter, ControlP!PollsInt,
    ControlP!PollsNmi, ControlP!SavedIFF1, ControlP!SkipAfter,
    ControlP!AcceptNMI, ControlP!AcceptINT, ControlP!NoInterrupt,
    ControlP!Poll, ControlP!Stay, ControlP!ResetDecoder, ControlP!End,
    ControlP!Prefixed, ControlP!PrefixSkipsNmi, ControlP!AtPrefix,
    ControlP!Prefix, ControlP!InDdCb, ControlP!AtDdCb, ControlP!DdCb,
    ControlP!Stepped, ControlP!NmiRewind, ControlP!NmiStep,
    ControlP!IntStep, ControlP!NeedsD, ControlP!NeedsPtr,
    ControlP!PCAtStart, ControlP!PCAtEnd, ControlP!IFF1AtStart,
    ControlP!IFFAtEnd, ControlP!EIShadow, ControlP!ReadDisplacement,
    ControlP!CalculatePtr, ControlP!StartCycle, ControlP!EndInstruction,
    ControlP!StartNothing, ControlP!ExecStep, ControlP!NextStep,
    ControlP!Conditional, ControlP!Conditions, ControlP!Begin,
    ControlP!Continue, ControlP!FinishWith, ControlP!HaltPins,
    ControlP!PinsSeen, ControlP!FinishCycle,
    Control!Kinds, Control!Timed, Control!NoCycle, Control!LastT, Control!X,
    Control!Y, Control!Z, Control!Cycle, Control!Fetch, Control!Intack,
    Control!Imm, Control!Read, Control!Write, Control!Pop, Control!Push,
    Control!In, Control!Out, Control!Idle, Control!Jump, Control!Rewind,
    Control!TStates, Control!When, Control!ReadOrWrite, Control!PlanQ0,
    Control!PlanQ1, Control!PlanQ2, Control!PlanQ3, Control!PlanED1,
    Control!PlanED2, Control!PlanCB, Control!Plan, Control!Hole,
    Control!LdPtrImm, Control!UsesPtr, Control!IsHALT, Control!IsDI,
    Control!IsEI, Control!IsRETN, Control!IsIM, Control!IntMode,
    Control!LoadsPC, Control!IsRST, Control!Addr, Control!PCs,
    Control!NmiVector, Control!IntVector, Control!Prefixes,
    Control!IdleDecoder, Control!LatchedOpcodes, Control!LatchedCbOpcodes,
    Control!PCAfterCycle, Control!Elapsed, Control!Acked,
    Control!PendingAfter, Control!PollsInt, Control!PollsNmi,
    Control!SavedIFF1, Control!SkipAfter, Control!AcceptNMI,
    Control!AcceptINT, Control!NoInterrupt, Control!Poll, Control!Stay,
    Control!ResetDecoder, Control!End, Control!Prefixed,
    Control!PrefixSkipsNmi, Control!AtPrefix, Control!Prefix,
    Control!InDdCb, Control!AtDdCb, Control!DdCb, Control!Stepped,
    Control!NmiRewind, Control!NmiStep, Control!IntStep, Control!NeedsD,
    Control!NeedsPtr, Control!PCAtStart, Control!PCAtEnd,
    Control!IFF1AtStart, Control!IFFAtEnd, Control!EIShadow,
    Control!ReadDisplacement, Control!CalculatePtr, Control!StartCycle,
    Control!EndInstruction, Control!StartNothing, Control!ExecStep,
    Control!NextStep, Control!Conditional, Control!Conditions,
    Control!Begin, Control!Continue, Control!FinishWith, Control!HaltPins,
    Control!PinsSeen, Control!FinishCycle

(* And every step.                                                         *)
LEMMA SameNext == ControlP!Next <=> Control!Next
BY SameFinish DEF
    ControlP!NoCycle, ControlP!Cycle, ControlP!Fetch, ControlP!IdleDecoder,
    ControlP!InReset, ControlP!LatchedCbOpcodes, ControlP!Throw,
    ControlP!TriggerNMI, ControlP!ResetLow, ControlP!ResetExit,
    ControlP!Next,
    Control!NoCycle, Control!Cycle, Control!Fetch, Control!IdleDecoder,
    Control!InReset, Control!LatchedCbOpcodes, Control!Throw,
    Control!TriggerNMI, Control!ResetLow, Control!ResetExit, Control!Next

-----------------------------------------------------------------------------
(* The decoder's own invariants, of the state it has here.                 *)
Decoder == ControlP!TypeOK /\ ControlP!Coherent /\ ControlP!NotHalting /\ ControlP!OpcodeAlone

(* They hold at first.                                                     *)
LEMMA DecoderInit == Control!Init => Decoder
<1> SUFFICES ASSUME Control!Init PROVE Decoder
  OBVIOUS
<1>1. ControlP!Init
  BY SameInit
<1>2. ControlP!TypeOK /\ ControlP!Coherent
  BY <1>1, Assumed, ControlP!InitType, ControlP!InitCoherent
<1>3. cyc.kind = "none" /\ cyc.use = "reset"
  BY DEF Control!Init, Control!InReset, Control!Cycle, Control!NoCycle
<1> QED BY <1>2, <1>3 DEF Decoder, ControlP!NotHalting, ControlP!OpcodeAlone, ControlP!Kinds

(* And every step of the decoder's layer keeps them.                       *)
LEMMA DecoderStep == Decoder /\ [Control!Next]_(Control!vars) => Decoder'
<1> SUFFICES ASSUME Decoder, [Control!Next]_(Control!vars) PROVE Decoder'
  OBVIOUS
<1>1. [ControlP!Next]_(ControlP!vars)
  BY SameNext, SameVars
<1>2. ControlP!TypeOK /\ ControlP!Coherent /\ ControlP!NotHalting /\ ControlP!OpcodeAlone
  BY DEF Decoder
<1>3. ControlP!TypeOK' /\ ControlP!Coherent'
  BY <1>1, <1>2, Assumed, ControlP!TypeStep, ControlP!StepCoherent
<1>4. ControlP!NotHalting' /\ ControlP!OpcodeAlone'
  BY <1>1, <1>2, Assumed, ControlP!StepNotHalting
<1> QED BY <1>3, <1>4 DEF Decoder

-----------------------------------------------------------------------------
(* The layers share the words of Z80Cycles.                                *)
LEMMA Words ==
    /\ Bus!Kinds = Kinds /\ Bus!Timed = Timed /\ Bus!NoCycle = NoCycle /\ Bus!LastT = LastT
    /\ Bus!WaitT = WaitT /\ Bus!Follows = Follows /\ Bus!MayHalt = MayHalt
    /\ ControlP!Kinds = Kinds /\ ControlP!NoCycle = NoCycle /\ Control!NoCycle = NoCycle
    /\ ControlP!Follows = Follows /\ ControlP!MayHalt = MayHalt
BY DEF Kinds, Timed, NoCycle, LastT, WaitT, Follows, MayHalt,
       Bus!Kinds, Bus!Timed, Bus!NoCycle, Bus!LastT, Bus!WaitT, Bus!Follows, Bus!MayHalt,
       ControlP!Kinds, ControlP!NoCycle, Control!NoCycle, ControlP!Follows, ControlP!MayHalt

(* The lengths of the timed cycles, and that WAIT is sampled within them.  *)
LEMMA CycleFacts ==
    /\ \A k \in Timed : /\ LastT[k] \in {2, 3, 5} /\ WaitT[k] \in {2, 3, 4}
                        /\ WaitT[k] <= LastT[k]
    /\ "fetch" \in Timed /\ "bogus" \notin Timed /\ NoCycle \notin Timed /\ NoCycle # "bogus"
    /\ "intack" \in Timed /\ LastT["fetch"] = 3
    /\ \A k \in Kinds \cup {NoCycle} : k \in Timed \/ k = "bogus" \/ k = NoCycle
BY DEF Timed, Kinds, NoCycle, LastT, WaitT

(* The switch of a cycle keeps the pins typed, and pulls HALT in the first *)
(* half T state of a halted fetch only; the same half T state of any cycle *)
(* takes back what an earlier one pulled.                                  *)
LEMMA PinsFacts ==
    ASSUME NEW k \in Timed, NEW h \in Int, NEW hlt \in BOOLEAN, NEW p \in Bus!PinsType
    PROVE  /\ Bus!PinsAt(k, h, hlt, p) \in Bus!PinsType
           /\ "HALT" \in Bus!PinsAt(k, h, hlt, p).low
                => IF h = 0 THEN k = "fetch" /\ hlt ELSE "HALT" \in p.low
<1>1. Bus!PinsType = BusP!PinsType /\ Timed = BusP!Timed
  BY DEF Bus!PinsType, BusP!PinsType, Bus!Lines, BusP!Lines, Bus!Groups, BusP!Groups,
         Bus!Addrs, BusP!Addrs, Timed, BusP!Timed, Kinds, BusP!Kinds
<1>2. Bus!PinsAt(k, h, hlt, p) = BusP!PinsAt(k, h, hlt, p)
  BY DEF Bus!PinsAt, Bus!FetchPins, Bus!MemReadPins, Bus!MemWritePins, Bus!IoReadPins,
         Bus!IoWritePins, Bus!IntackPins, Bus!Pull, Bus!Raise, Bus!Drive, Bus!PinsNominal,
         BusP!PinsAt, BusP!FetchPins, BusP!MemReadPins, BusP!MemWritePins, BusP!IoReadPins,
         BusP!IoWritePins, BusP!IntackPins, BusP!Pull, BusP!Raise, BusP!Drive, BusP!PinsNominal
<1>3. Bus!PinsAt(k, h, hlt, p) \in Bus!PinsType
  BY <1>1, <1>2, Assumed, BusP!PinsAtType
<1>4. p.low \in SUBSET Bus!Lines /\ p \in [low : SUBSET Bus!Lines, out : SUBSET Bus!Groups,
                                            addr : Bus!Addrs]
  BY DEF Bus!PinsType
<1>5. ASSUME h # 0, "HALT" \in Bus!PinsAt(k, h, hlt, p).low
      PROVE  "HALT" \in p.low
  <2>1. "HALT" \in Bus!FetchPins(h, hlt, p).low => "HALT" \in p.low
    BY <1>4, <1>5 DEF Bus!FetchPins, Bus!Pull, Bus!Raise, Bus!Drive
  <2>2. "HALT" \in Bus!MemReadPins(h, p).low => "HALT" \in p.low
    BY <1>4, <1>5 DEF Bus!MemReadPins, Bus!Pull, Bus!Raise, Bus!Drive
  <2>3. "HALT" \in Bus!MemWritePins(h, p).low => "HALT" \in p.low
    BY <1>4, <1>5 DEF Bus!MemWritePins, Bus!Pull, Bus!Raise, Bus!Drive
  <2>4. "HALT" \in Bus!IoReadPins(h, p).low => "HALT" \in p.low
    BY <1>4, <1>5 DEF Bus!IoReadPins, Bus!Pull, Bus!Raise, Bus!Drive
  <2>5. "HALT" \in Bus!IoWritePins(h, p).low => "HALT" \in p.low
    BY <1>4, <1>5 DEF Bus!IoWritePins, Bus!Pull, Bus!Raise, Bus!Drive
  <2>6. "HALT" \in Bus!IntackPins(h, p).low => "HALT" \in p.low
    BY <1>4, <1>5 DEF Bus!IntackPins, Bus!Pull, Bus!Raise, Bus!Drive
  <2> QED BY <1>5, <2>1, <2>2, <2>3, <2>4, <2>5, <2>6 DEF Bus!PinsAt
<1>6. ASSUME h = 0, "HALT" \in Bus!PinsAt(k, h, hlt, p).low
      PROVE  k = "fetch" /\ hlt
  BY <1>6 DEF Bus!PinsAt, Bus!FetchPins, Bus!MemReadPins, Bus!MemWritePins, Bus!IoReadPins,
         Bus!IoWritePins, Bus!IntackPins, Bus!Pull, Bus!PinsNominal
<1> QED BY <1>3, <1>5, <1>6

-----------------------------------------------------------------------------
(* The state of the cycle on the pins.                                     *)
LinesType ==
    /\ clk \in BOOLEAN /\ intpin \in BOOLEAN /\ halt \in BOOLEAN
    /\ t \in -1..6 /\ (cyc.kind \in Timed => t <= LastT[cyc.kind] + 1)
    /\ left \in Int /\ ticks \in Int
    /\ busrel \in [Timed -> BOOLEAN] /\ pins \in Bus!PinsType

(* A cycle has begun its first T state by the time CLK is high.            *)
Begun == cyc.kind \in Timed /\ clk => t >= 0

(* With CLK low a cycle at or past its last T state has the bus staged for *)
(* release, unless it has finished without a successor.                    *)
ReleaseStaged ==
    cyc.kind \in Timed /\ ~clk /\ t >= LastT[cyc.kind] /\ cyc.use # "expired"
        => busrel[cyc.kind]
ExpiredPast == cyc.kind \in Timed /\ cyc.use = "expired" => t >= LastT[cyc.kind]

(* _halt of a fetch is what it was started with.                           *)
HaltOfFetch == cyc.kind = "fetch" => halt = (cyc.use = "halted")

(* HALT is low in a halted fetch, before the first half T state of the     *)
(* cycle behind it, and in the bogus cycle that begins an NMI out of HALT. *)
HaltPin ==
    "HALT" \in pins.low =>
        \/ cyc.use = "halted"
        \/ cyc.kind \in Timed /\ t = -1
        \/ cyc.kind = "bogus" /\ nmiPend /\ dec.started /\ dec.step = 1

(* The T states clocked are those that t, or what is left of a bogus cycle,*)
(* has counted.                                                            *)
Ticked ==
    cyc.use # "expired" =>
        /\ cyc.kind \in Timed
              => ticks = IF t >= LastT[cyc.kind] THEN LastT[cyc.kind] + 1 ELSE t + 1
        /\ cyc.kind = "bogus" => ticks + left = cyc.n + (IF clk THEN 1 ELSE 0)

Lines == LinesType /\ Begun /\ ReleaseStaged /\ ExpiredPast /\ HaltOfFetch /\ HaltPin /\ Ticked

EmuInv == Decoder /\ Lines

-----------------------------------------------------------------------------
(* The cycles as the decoder's invariants have them.                       *)
LEMMA DecoderFacts ==
    Decoder => /\ cyc.kind \in Kinds \cup {NoCycle} /\ cyc.n \in 0..7
               /\ cyc \in [kind : Kinds \cup {NoCycle}, use : ControlP!Uses, n : 0..7]
               /\ nmiPend \in BOOLEAN /\ fault \in BOOLEAN
               /\ cyc.use = "halted" => cyc.kind = "fetch"
               /\ cyc.kind = "intack" => ~nmiPend
<1> SUFFICES ASSUME Decoder
             PROVE  /\ cyc.kind \in Kinds \cup {NoCycle} /\ cyc.n \in 0..7
                    /\ cyc \in [kind : Kinds \cup {NoCycle}, use : ControlP!Uses, n : 0..7]
                    /\ nmiPend \in BOOLEAN /\ fault \in BOOLEAN
                    /\ cyc.use = "halted" => cyc.kind = "fetch"
                    /\ cyc.kind = "intack" => ~nmiPend
  OBVIOUS
<1>1. /\ cyc \in [kind : Kinds \cup {NoCycle}, use : ControlP!Uses, n : 0..7]
      /\ nmiPend \in BOOLEAN /\ fault \in BOOLEAN
  BY Words DEF Decoder, ControlP!TypeOK
<1>2. cyc.use = "halted" => cyc.kind = "fetch"
  BY DEF Decoder, ControlP!Coherent, ControlP!HaltAlone, ControlP!InReset, ControlP!Cycle
<1>3. cyc.kind = "intack" => ~nmiPend
  BY DEF Decoder, ControlP!Coherent, ControlP!AckAlone, ControlP!NoCycle
<1> QED BY <1>1, <1>2, <1>3

(* A rising edge of a timed cycle, whose counter stands at t0.             *)
LEMMA RaiseFacts ==
    ASSUME NEW k \in Timed, NEW t0 \in -1..LastT[k] + 1, NEW hlt \in BOOLEAN, NEW in \in Inputs,
           busrel \in [Timed -> BOOLEAN], pins \in Bus!PinsType,
           Bus!RaiseTimed(k, t0, hlt, eff, in)
    PROVE  /\ t' = IF t0 > LastT[k] \/ (t0 + 1 = WaitT[k] /\ in.wait) THEN t0 ELSE t0 + 1
           /\ t' \in 0..LastT[k] + 1
           /\ busrel' \in [Timed -> BOOLEAN] /\ pins' \in Bus!PinsType
           /\ fault' = (t0 >= LastT[k] /\ ~busrel[k])
           /\ "HALT" \in pins'.low
                => IF t0 = -1 THEN k = "fetch" /\ hlt ELSE "HALT" \in pins.low
<1> DEFINE t1        == IF t0 > LastT[k] THEN t0 ELSE t0 + 1
           stretched == t1 = WaitT[k] /\ in.wait
           past      == t1 > LastT[k]
<1>1. /\ LastT[k] \in {2, 3, 5} /\ WaitT[k] \in {2, 3, 4} /\ WaitT[k] <= LastT[k]
      /\ t1 \in 0..LastT[k] + 1 /\ in.busreq \in BOOLEAN /\ in.wait \in BOOLEAN
  BY CycleFacts DEF Inputs
<1>2. /\ t' = IF stretched THEN t1 - 1 ELSE t1
      /\ busrel' = IF t1 >= LastT[k] THEN [busrel EXCEPT ![k] = in.busreq] ELSE busrel
      /\ pins' = IF stretched THEN pins
                 ELSE IF past THEN Bus!PinsBusRel ELSE Bus!PinsAt(k, 2 * t1, hlt, pins)
      /\ fault' = (past /\ ~busrel[k])
  BY Words DEF Bus!RaiseTimed, Bus!SamplesBusreq
<1>3. t' = IF t0 > LastT[k] \/ (t0 + 1 = WaitT[k] /\ in.wait) THEN t0 ELSE t0 + 1
  BY <1>1, <1>2
<1>4. t' \in 0..LastT[k] + 1 /\ (past <=> t0 >= LastT[k])
  BY <1>1, <1>2
<1>5. busrel' \in [Timed -> BOOLEAN]
  BY <1>1, <1>2
<1>6. Bus!PinsBusRel \in Bus!PinsType /\ "HALT" \notin Bus!PinsBusRel.low
  BY DEF Bus!PinsBusRel, Bus!PinsType, Bus!Lines, Bus!Groups, Bus!Addrs
<1>7. 2 * t1 \in Int /\ (2 * t1 = 0 <=> t0 = -1) /\ (stretched => t0 # -1)
  BY <1>1
<1> HIDE DEF t1, stretched, past
<1> QED BY <1>2, <1>3, <1>4, <1>5, <1>6, <1>7, PinsFacts

-----------------------------------------------------------------------------
(* A rising edge goes on with the cycle.                                   *)
LEMMA RiseStep ==
    ASSUME EmuInv, ~fault, NEW in \in Inputs, Rise(in)
    PROVE  [Control!Next]_(Control!vars) /\ Lines'
<1>0. Decoder /\ LinesType /\ Begun /\ ReleaseStaged /\ ExpiredPast /\ HaltOfFetch /\ HaltPin
        /\ Ticked
  BY DEF EmuInv, Lines
<1>1. UNCHANGED decoderVars /\ in.int \in BOOLEAN /\ intpin' = in.int
  BY DEF Rise, Inputs
<1>2. cyc' = cyc /\ dec' = dec /\ nmiPend' = nmiPend
  BY <1>1 DEF decoderVars
<1>3. CASE Bus!RaiseClk(in)
  <2> DEFINE k == cyc.kind
  <2>1. /\ ~clk /\ clk' = TRUE /\ k \in Timed /\ left' = left /\ halt' = halt
        /\ Bus!RaiseTimed(k, t, halt, eff, in) /\ UNCHANGED <<resetCycles, resetM1T2>>
    BY <1>3, Words DEF Bus!RaiseClk
  <2>2. /\ LastT[k] \in {2, 3, 5} /\ WaitT[k] <= LastT[k] /\ WaitT[k] \in {2, 3, 4}
        /\ k # "bogus"
    BY <2>1, CycleFacts
  <2>3. t \in -1..LastT[k] + 1 /\ halt \in BOOLEAN /\ ticks \in Int
    BY <1>0, <2>1, <2>2 DEF LinesType
  <2>4. /\ t' = IF t > LastT[k] \/ (t + 1 = WaitT[k] /\ in.wait) THEN t ELSE t + 1
        /\ t' \in 0..LastT[k] + 1
        /\ busrel' \in [Timed -> BOOLEAN] /\ pins' \in Bus!PinsType
        /\ fault' = (t >= LastT[k] /\ ~busrel[k])
        /\ "HALT" \in pins'.low => IF t = -1 THEN k = "fetch" /\ halt ELSE "HALT" \in pins.low
    BY <1>0, <2>1, <2>3, RaiseFacts DEF LinesType
  <2>5. ticks' = IF t' = t \/ t' > LastT[k] THEN ticks ELSE ticks + 1
    BY <2>1 DEF Rise
  <2> HIDE DEF k
  <2>6. LinesType'
    BY <1>0, <1>1, <1>2, <2>1, <2>2, <2>3, <2>4, <2>5 DEF LinesType, k
  <2>7. Begun' /\ ReleaseStaged'
    BY <1>2, <2>1, <2>4 DEF Begun, ReleaseStaged, k
  <2>8. ExpiredPast' /\ HaltOfFetch'
    BY <1>0, <1>2, <2>1, <2>2, <2>3, <2>4 DEF ExpiredPast, HaltOfFetch, k
  <2>9. HaltPin'
    BY <1>0, <1>2, <2>1, <2>2, <2>4 DEF HaltPin, HaltOfFetch, k
  <2>10. Ticked'
    BY <1>0, <1>2, <2>1, <2>2, <2>3, <2>4, <2>5 DEF Ticked, k
  <2>11. [Control!Next]_(Control!vars)
    <3>1. UNCHANGED <<Special>>
      BY <2>1 DEF Special
    <3>2. CASE fault'
      <4>1. cyc.use = "expired"
        BY <1>0, <2>1, <2>4, <3>2 DEF ReleaseStaged, k
      <4>2. Control!Throw
        BY <1>1, <3>1, <3>2, <4>1, <2>4 DEF Control!Throw, decoderVars
      <4> QED BY <4>2 DEF Control!Next
    <3>3. CASE ~fault'
      <4>1. fault' = fault
        BY <3>3, <2>4, <1>0, DecoderFacts
      <4> QED BY <1>1, <3>1, <4>1 DEF Control!vars, decoderVars
    <3> QED BY <3>2, <3>3
  <2> QED BY <2>6, <2>7, <2>8, <2>9, <2>10, <2>11 DEF Lines
<1>4. CASE Bus!RaiseBogus(in) /\ UNCHANGED fault
  <2>1. /\ ~clk /\ clk' = TRUE /\ cyc.kind = "bogus" /\ ticks' = ticks + 1
        /\ UNCHANGED <<t, left, halt, busrel, pins, resetCycles, resetM1T2, fault>>
    BY <1>4, CycleFacts DEF Bus!RaiseBogus, Rise
  <2>2. LinesType'
    BY <1>0, <1>1, <1>2, <2>1 DEF LinesType
  <2>3. Begun' /\ ReleaseStaged' /\ ExpiredPast' /\ HaltOfFetch' /\ HaltPin'
    BY <1>0, <1>2, <2>1, CycleFacts DEF Begun, ReleaseStaged, ExpiredPast, HaltOfFetch, HaltPin
  <2>4. Ticked'
    <3>1. cyc.n \in Int /\ ticks \in Int /\ left \in Int
      BY <1>0, DecoderFacts DEF LinesType
    <3>2. cyc.kind \notin Timed
      BY <2>1, CycleFacts
    <3>3. cyc.use # "expired" => ticks + left = cyc.n
      BY <1>0, <2>1, <3>1 DEF Ticked
    <3>4. cyc.use # "expired" => ticks' + left' = cyc.n + 1
      BY <2>1, <3>1, <3>3
    <3> QED BY <1>2, <2>1, <3>2, <3>4 DEF Ticked
  <2>5. UNCHANGED Control!vars
    BY <1>1, <2>1 DEF Control!vars, decoderVars, Special
  <2> QED BY <2>2, <2>3, <2>4, <2>5 DEF Lines
<1> QED BY <1>3, <1>4 DEF Rise

(* RESET cuts the cycle.                                                   *)
LEMMA ResetLowStep ==
    ASSUME EmuInv, NEW in \in Inputs, ResetLow(in)
    PROVE  [Control!Next]_(Control!vars) /\ Lines'
<1>0. LinesType /\ ExpiredPast
  BY DEF EmuInv, Lines
<1>1. /\ CutAnywhere \/ dec = Control!IdleDecoder
      /\ cyc' = Control!InReset /\ ticks' = 0
      /\ cbInstr' \in {cbInstr} \cup Control!LatchedCbOpcodes
      /\ UNCHANGED <<dec, instr, op, taken, pc, iff1, iff2, im, nmiff, nmiSkip, intSkip,
                     nmiPend, intPend, resume, saved, elapsed, acked, intpin>>
  BY DEF ResetLow
<1>2. /\ clk' = TRUE /\ pins' = Bus!PinsInit /\ t' = -1
      /\ resetM1T2' = (cyc.kind = "fetch" /\ t = 0)
      /\ UNCHANGED <<left, halt, busrel, fault>>
  BY DEF ResetLow, Bus!ResetLow, Bus!CutInM1T2
<1>3. cyc'.kind = NoCycle /\ cyc'.use = "reset"
  BY <1>1, Words DEF Control!InReset, Control!Cycle
<1>4. Bus!PinsInit \in Bus!PinsType /\ "HALT" \notin Bus!PinsInit.low
  BY DEF Bus!PinsInit, Bus!PinsType, Bus!Lines, Bus!Groups, Bus!Addrs
<1>5. LinesType'
  BY <1>0, <1>1, <1>2, <1>3, <1>4, CycleFacts DEF LinesType
<1>6. Begun' /\ ReleaseStaged' /\ ExpiredPast' /\ HaltOfFetch' /\ HaltPin' /\ Ticked'
  BY <1>2, <1>3, <1>4, CycleFacts
     DEF Begun, ReleaseStaged, ExpiredPast, HaltOfFetch, HaltPin, Ticked
<1>7. Special' \in (IF cyc.kind = "fetch" /\ cyc.use # "expired" THEN BOOLEAN ELSE {FALSE})
  <2>1. Special' => cyc.kind = "fetch" /\ t = 0
    BY <1>2 DEF Special
  <2>2. Special' => cyc.use # "expired"
    BY <1>0, <2>1, CycleFacts DEF ExpiredPast
  <2>3. Special' \in BOOLEAN
    BY <1>2 DEF Special
  <2> QED BY <2>1, <2>2, <2>3
<1>8. Control!ResetLow
  BY <1>1, <1>2, <1>7 DEF Control!ResetLow
<1> QED BY <1>5, <1>6, <1>8 DEF Lines, Control!Next

(* RESET is let go.                                                        *)
LEMMA ResetExitStep ==
    ASSUME EmuInv, NEW in \in Inputs, ResetExit(in)
    PROVE  [Control!Next]_(Control!vars) /\ Lines'
<1>0. LinesType
  BY DEF EmuInv, Lines
<1>1. /\ Control!ResetExit /\ cyc' = Control!Fetch(FALSE) /\ intpin' = in.int
      /\ in.int \in BOOLEAN /\ ticks' = IF t' = 0 THEN 1 ELSE 0
  BY DEF ResetExit, Inputs
<1>2. /\ clk' = TRUE /\ halt' = FALSE /\ left' = left
      /\ Bus!RaiseTimed("fetch", -1, FALSE, eff, in)
  BY DEF ResetExit, Bus!ResetExit
<1>3. cyc'.kind = "fetch" /\ cyc'.use = "opcode"
  BY <1>1 DEF Control!Fetch, Control!Cycle
<1>4. /\ -1 \in -1..LastT["fetch"] + 1 /\ LastT["fetch"] = 3 /\ "fetch" \in Timed
      /\ WaitT["fetch"] \in {2, 3, 4}
  BY CycleFacts
<1>5. /\ t' = IF -1 > LastT["fetch"] \/ (-1 + 1 = WaitT["fetch"] /\ in.wait) THEN -1 ELSE -1 + 1
      /\ busrel' \in [Timed -> BOOLEAN] /\ pins' \in Bus!PinsType
      /\ "HALT" \in pins'.low
           => IF -1 = -1 THEN "fetch" = "fetch" /\ FALSE ELSE "HALT" \in pins.low
  BY <1>0, <1>2, <1>4, RaiseFacts DEF LinesType
<1>6. t' = 0 /\ "HALT" \notin pins'.low
  BY <1>4, <1>5
<1>9. ticks' = 1 /\ 0 \in -1..6 /\ 0 <= LastT["fetch"] + 1
  BY <1>1, <1>4, <1>6
<1>7. LinesType'
  <2>1. intpin' \in BOOLEAN
    <3>1. in.int \in BOOLEAN /\ intpin' = in.int
      BY <1>1
    <3> QED BY <3>1, Zenon
  <2>2. clk' \in BOOLEAN /\ halt' \in BOOLEAN /\ left' \in Int /\ ticks' \in Int
    <3>1. left' = left /\ left \in Int /\ ticks' \in Int
      BY <1>0, <1>2, <1>9 DEF LinesType
    <3>2. clk' \in BOOLEAN /\ halt' \in BOOLEAN
      BY <1>2, Zenon
    <3> QED BY <3>1, <3>2
  <2>3. t' \in -1..6 /\ (cyc'.kind \in Timed => t' <= LastT[cyc'.kind] + 1)
    BY <1>3, <1>6, <1>9
  <2> QED BY <1>5, <2>1, <2>2, <2>3 DEF LinesType
<1>8. Begun' /\ ReleaseStaged' /\ ExpiredPast' /\ HaltOfFetch' /\ HaltPin' /\ Ticked'
  <2>1. ~(0 >= LastT["fetch"])
    BY <1>4
  <2>2. Begun' /\ ReleaseStaged' /\ ExpiredPast'
    BY <1>2, <1>3, <1>6 DEF Begun, ReleaseStaged, ExpiredPast
  <2>3. HaltOfFetch' /\ HaltPin'
    BY <1>2, <1>3, <1>6 DEF HaltOfFetch, HaltPin
  <2>4. Ticked'
    BY <1>3, <1>6, <1>9, <2>1 DEF Ticked
  <2> QED BY <2>2, <2>3, <2>4
<1> QED BY <1>1, <1>7, <1>8 DEF Lines, Control!Next

(* trigger_nmi() between two edges.                                        *)
LEMMA NmiEdgeStep ==
    ASSUME EmuInv, TriggerNMI
    PROVE  [Control!Next]_(Control!vars) /\ Lines'
<1>1. Lines /\ UNCHANGED lineVars /\ Control!TriggerNMI
  BY DEF EmuInv, TriggerNMI
<1>2. cyc' = cyc /\ nmiPend' = nmiPend /\ dec' = dec
  BY <1>1 DEF Control!TriggerNMI
<1>3. Lines'
  BY <1>1, <1>2
     DEF lineVars, Lines, LinesType, Begun, ReleaseStaged, ExpiredPast, HaltOfFetch, HaltPin, Ticked
<1> QED BY <1>1, <1>3 DEF Control!Next

(* An edge without a cycle.                                                *)
LEMMA IdleStep ==
    ASSUME EmuInv, NEW in \in Inputs, Idle(in)
    PROVE  [Control!Next]_(Control!vars) /\ Lines'
<1>0. Lines /\ Decoder
  BY DEF EmuInv
<1>1. /\ cyc.kind = NoCycle /\ clk' = ~clk /\ UNCHANGED <<decoderVars, intpin, ticks>>
      /\ UNCHANGED <<t, left, halt, busrel, pins, resetCycles, resetM1T2, fault>>
  BY Words DEF Idle, Bus!Idle
<1>2. cyc' = cyc /\ nmiPend' = nmiPend /\ dec' = dec
  BY <1>1 DEF decoderVars
<1>3. LinesType'
  BY <1>0, <1>1, <1>2 DEF Lines, LinesType
<1>4. Begun' /\ ReleaseStaged' /\ ExpiredPast' /\ HaltOfFetch' /\ HaltPin' /\ Ticked'
  BY <1>0, <1>1, <1>2, CycleFacts
     DEF Lines, Begun, ReleaseStaged, ExpiredPast, HaltOfFetch, HaltPin, Ticked
<1>5. UNCHANGED Control!vars
  BY <1>1 DEF Control!vars, decoderVars, Special
<1> QED BY <1>3, <1>4, <1>5 DEF Lines

-----------------------------------------------------------------------------
(* The second step of an NMI pushes, whatever the pins say.                *)
LEMMA NmiPushes ==
    ASSUME nmiPend, dec.started, dec.step = 1, NEW b, NEW cb, NEW in,
           Control!FinishWith(b, cb, in)
    PROVE  cyc' = Control!Push /\ \A in2 : Control!FinishWith(b, cb, in2)
<1>1. ~Control!Prefix(b, in) /\ ~Control!DdCb(b, cb, in) /\ ~Control!Begin(b, in)
  BY DEF Control!Prefix, Control!AtPrefix, Control!DdCb, Control!AtDdCb, Control!Begin
<1>2. Control!Continue(b, in)
  BY <1>1 DEF Control!FinishWith
<1>3. ASSUME NEW d, d.step = 1, NEW p, Control!NmiStep(d, p, in)
      PROVE  cyc' = Control!Push /\ \A in2 : Control!NmiStep(d, p, in2)
  <2>1. UNCHANGED im /\ Control!Stay(Control!Push, Control!Stepped(d), iff1, p)
    BY <1>3 DEF Control!NmiStep
  <2>2. cyc' = Control!Push
    BY <2>1 DEF Control!Stay
  <2>3. d.step \in 1..2
    BY <1>3
  <2> QED BY <2>1, <2>2, <2>3 DEF Control!NmiStep
<1>4. cyc' = Control!Push /\ \A in2 : Control!Continue(b, in2)
  BY <1>2, <1>3 DEF Control!Continue, Control!NextStep
<1> QED BY <1>4 DEF Control!FinishWith

(* What may follow a cycle that has finished: only a bogus cycle has a     *)
(* length, one that stays is expired, a halted fetch begins where it may.  *)
Finishing ==
    \/ /\ cyc'.use \notin {"expired", "halted"}
       /\ cyc'.kind = "bogus" => cyc'.n \in 1..7
    \/ cyc'.use = "expired" /\ cyc'.kind = cyc.kind /\ cyc.use # "halted"
    \/ cyc'.use = "halted" /\ cyc'.kind = "fetch" /\ cyc.kind \in MayHalt

(* The step the decoder takes when a cycle has finished is one of          *)
(* Z80Control, and leaves the next cycle as the invariant has it.          *)
LEMMA FinishStep ==
    ASSUME EmuInv, clk, clk' = FALSE, cyc.kind # NoCycle,
           cyc.kind \in Timed => t >= LastT[cyc.kind],
           pins' \in Bus!PinsType, "HALT" \in pins'.low => "HALT" \in pins.low,
           UNCHANGED <<busrel, resetCycles, resetM1T2, intpin, fault>>,
           NEW l \in Int, Finish(l)
    PROVE  Control!FinishCycle /\ Finishing /\ Decoder' /\ Lines'
<1>0. /\ Decoder /\ LinesType /\ Begun /\ HaltPin /\ cyc.kind \in Kinds
      /\ cyc.kind \in Timed => t # -1
  BY DecoderFacts, CycleFacts DEF EmuInv, Lines, Begun
<1>1. PICK b \in Control!LatchedOpcodes, cb \in Control!LatchedCbOpcodes :
          Control!FinishWith(b, cb, [int |-> intpin, halted |-> HaltSeen])
  BY DEF Finish
<1>2. Staged(cyc', l)
  BY DEF Finish
<1>3. HaltSeen => cyc.use = "halted" \/ (nmiPend /\ dec.started /\ dec.step = 1)
  BY <1>0 DEF HaltSeen, HaltPin
<1>4. intpin \in BOOLEAN /\ HaltSeen \in BOOLEAN
  BY <1>0 DEF LinesType, HaltSeen
<1>5. \E in \in Control!PinsSeen : Control!FinishWith(b, cb, in)
  <2>1. \A h \in Control!HaltPins : [int |-> intpin, halted |-> h] \in Control!PinsSeen
    BY <1>4 DEF Control!PinsSeen
  <2>2. CASE cyc.use = "halted" \/ ~HaltSeen
    <3>1. HaltSeen \in Control!HaltPins
      BY <1>4, <2>2 DEF Control!HaltPins
    <3> QED BY <1>1, <2>1, <3>1
  <2>3. CASE nmiPend /\ dec.started /\ dec.step = 1
    <3>1. FALSE \in Control!HaltPins
      BY DEF Control!HaltPins
    <3>2. Control!FinishWith(b, cb, [int |-> intpin, halted |-> FALSE])
      BY <1>1, <2>3, NmiPushes
    <3> QED BY <2>1, <3>1, <3>2
  <2> QED BY <1>3, <2>2, <2>3
<1>6. Control!FinishCycle
  BY <1>1, <1>5 DEF Control!FinishCycle
<1>7. ControlP!Finishes /\ Decoder'
  <2>1. ControlP!FinishCycle
    BY <1>6, SameFinish
  <2>2. ControlP!Finishes
    BY <1>0, <2>1, Assumed, ControlP!FinishStages DEF Decoder
  <2> QED BY <1>0, <1>6, <2>2, DecoderStep DEF Control!Next
<1>8. Finishing
  <2>1. cyc \in [kind : Kinds \cup {NoCycle}, use : ControlP!Uses, n : 0..7]
    BY <1>0, DecoderFacts
  <2>2. cyc' = [cyc EXCEPT !.use = "expired"] => cyc'.use = "expired" /\ cyc'.kind = cyc.kind
    BY <2>1
  <2>3. ControlP!Fetch(TRUE).use = "halted" /\ ControlP!Fetch(TRUE).kind = "fetch"
    BY DEF ControlP!Fetch, ControlP!Cycle
  <2> QED BY <1>7, <2>2, <2>3, Words DEF ControlP!Finishes, ControlP!Staging, Finishing
<1>9. cyc'.kind \in Kinds \cup {NoCycle} /\ cyc'.n \in Int
  BY <1>7, Words DEF Decoder, ControlP!TypeOK
<1>10. /\ t' = IF cyc'.use = "expired" THEN t ELSE -1
       /\ halt' = IF cyc'.kind = "fetch" THEN cyc'.use = "halted" ELSE halt
       /\ left' = IF cyc'.kind = "bogus" THEN cyc'.n ELSE l
       /\ ticks' = 0
  BY <1>2 DEF Staged, HaltFlag
<1>11. cyc'.use = "expired" => cyc'.kind = cyc.kind
  BY <1>8 DEF Finishing
<1>12. LinesType'
  <2>1. t' \in -1..6 /\ (cyc'.kind \in Timed => t' <= LastT[cyc'.kind] + 1)
    BY <1>0, <1>10, <1>11, CycleFacts DEF LinesType
  <2>2. halt' \in BOOLEAN
    BY <1>0, <1>10 DEF LinesType
  <2>3. clk' \in BOOLEAN /\ intpin' \in BOOLEAN
    BY <1>4, Zenon
  <2>4. left' \in Int /\ ticks' \in Int
    BY <1>9, <1>10
  <2> QED BY <1>0, <2>1, <2>2, <2>3, <2>4 DEF LinesType
<1>13. Begun' /\ ReleaseStaged' /\ ExpiredPast' /\ HaltOfFetch'
  <2>1. Begun' /\ HaltOfFetch'
    BY <1>10 DEF Begun, HaltOfFetch
  <2>2. ReleaseStaged' /\ ExpiredPast'
    BY <1>10, <1>11, CycleFacts DEF ReleaseStaged, ExpiredPast
  <2> QED BY <2>1, <2>2
<1>14. HaltPin'
  <2> SUFFICES ASSUME "HALT" \in pins'.low PROVE HaltPin'
    BY DEF HaltPin
  <2>1. CASE cyc.use = "halted"
    <3>1. cyc'.kind \in {"fetch", "intack"}
            \/ (cyc'.kind = "bogus" /\ dec'.started /\ dec'.step = 1 /\ nmiPend')
      BY <1>0, <1>6, <2>1, SameFinish, Assumed, ControlP!HaltFollowed
         DEF Decoder, ControlP!Idle, ControlP!Cycle
    <3>2. cyc'.use # "expired"
      BY <1>8, <2>1 DEF Finishing
    <3> QED BY <1>10, <3>1, <3>2, CycleFacts DEF HaltPin
  <2>2. CASE nmiPend /\ dec.started /\ dec.step = 1
    <3>1. cyc'.kind = "memWrite" /\ cyc'.use # "expired"
      BY <1>1, <2>2, NmiPushes DEF Control!Push, Control!Cycle
    <3> QED BY <1>10, <3>1 DEF HaltPin, Timed, Kinds
  <2> QED BY <1>3, <2>1, <2>2 DEF HaltSeen
<1>15. Ticked'
  BY <1>9, <1>10, CycleFacts DEF Ticked
<1> QED BY <1>6, <1>7, <1>8, <1>12, <1>13, <1>14, <1>15 DEF Lines

(* A falling edge of a cycle that follows the T states.                    *)
LEMMA FallStep ==
    ASSUME EmuInv, Fall
    PROVE  [Control!Next]_(Control!vars) /\ Decoder' /\ Lines'
<1>0. Decoder /\ LinesType /\ Begun /\ ReleaseStaged /\ ExpiredPast /\ HaltOfFetch /\ HaltPin
        /\ Ticked
  BY DEF EmuInv, Lines
<1>1. /\ clk /\ cyc.kind \in Timed /\ clk' = FALSE
      /\ pins' = IF t > LastT[cyc.kind] THEN pins
                 ELSE Bus!PinsAt(cyc.kind, 2 * t + 1, halt, pins)
      /\ UNCHANGED <<busrel, resetCycles, resetM1T2, intpin, fault>>
      /\ IF Bus!Finished(cyc.kind, t, busrel[cyc.kind])
           THEN Finish(left)
           ELSE UNCHANGED <<decoderVars, t, halt, left, ticks>>
  BY DEF Fall
<1>2. /\ cyc.kind # NoCycle /\ cyc.kind # "bogus" /\ LastT[cyc.kind] \in Int
      /\ t \in Int /\ t # -1 /\ left \in Int /\ ticks \in Int
  BY <1>0, <1>1, CycleFacts DEF LinesType, Begun
<1>3. pins' \in Bus!PinsType /\ ("HALT" \in pins'.low => "HALT" \in pins.low)
  <2>1. 2 * t + 1 \in Int /\ 2 * t + 1 # 0
    BY <1>2
  <2>2. halt \in BOOLEAN /\ pins \in Bus!PinsType
    BY <1>0 DEF LinesType
  <2> QED BY <1>1, <2>1, <2>2, PinsFacts
<1>4. CASE Bus!Finished(cyc.kind, t, busrel[cyc.kind])
  <2>1. t >= LastT[cyc.kind] /\ Finish(left)
    BY <1>1, <1>4, Words DEF Bus!Finished
  <2>2. Control!FinishCycle /\ Decoder' /\ Lines'
    BY <1>1, <1>2, <1>3, <2>1, FinishStep
  <2> QED BY <2>2 DEF Control!Next
<1>5. CASE ~Bus!Finished(cyc.kind, t, busrel[cyc.kind])
  <2>1. UNCHANGED <<decoderVars, t, halt, left, ticks>>
    BY <1>1, <1>5
  <2>2. cyc' = cyc /\ dec' = dec /\ nmiPend' = nmiPend
    BY <2>1 DEF decoderVars
  <2>3. t >= LastT[cyc.kind] => busrel[cyc.kind]
    BY <1>5, Words DEF Bus!Finished
  <2>4. LinesType'
    <3>1. /\ intpin' = intpin /\ busrel' = busrel /\ t' = t /\ halt' = halt
          /\ left' = left /\ ticks' = ticks /\ clk' \in BOOLEAN
      BY <1>1, <2>1
    <3> QED BY <1>0, <1>3, <2>2, <3>1 DEF LinesType
  <2>5. Begun' /\ ReleaseStaged' /\ ExpiredPast' /\ HaltOfFetch'
    BY <1>0, <1>1, <2>1, <2>2, <2>3 DEF Begun, ReleaseStaged, ExpiredPast, HaltOfFetch
  <2>6. HaltPin' /\ Ticked'
    BY <1>0, <1>1, <1>2, <1>3, <2>1, <2>2 DEF HaltPin, Ticked
  <2>7. UNCHANGED Control!vars
    BY <1>1, <2>1 DEF Control!vars, decoderVars, Special
  <2> QED BY <1>0, <2>4, <2>5, <2>6, <2>7, DecoderStep DEF Lines
<1> QED BY <1>4, <1>5

(* A falling edge of a bogus cycle.                                        *)
LEMMA FallBogusStep ==
    ASSUME EmuInv, FallBogus
    PROVE  [Control!Next]_(Control!vars) /\ Decoder' /\ Lines'
<1>0. Decoder /\ LinesType /\ HaltPin /\ Ticked
  BY DEF EmuInv, Lines
<1>1. /\ clk /\ cyc.kind = "bogus" /\ clk' = FALSE
      /\ UNCHANGED <<busrel, pins, resetCycles, resetM1T2, intpin, fault>>
      /\ IF Bus!BogusOver(left - 1)
           THEN Finish(left - 1)
           ELSE left' = left - 1 /\ UNCHANGED <<decoderVars, t, halt, ticks>>
  BY DEF FallBogus
<1>2. /\ cyc.kind # NoCycle /\ cyc.kind \notin Timed /\ left \in Int /\ left - 1 \in Int
      /\ ticks \in Int /\ cyc.n \in Int /\ pins' \in Bus!PinsType
  BY <1>0, <1>1, CycleFacts, DecoderFacts DEF LinesType
<1>3. CASE Bus!BogusOver(left - 1)
  <2>1. Control!FinishCycle /\ Decoder' /\ Lines'
    BY <1>1, <1>2, <1>3, FinishStep
  <2> QED BY <2>1 DEF Control!Next
<1>4. CASE ~Bus!BogusOver(left - 1)
  <2>1. left' = left - 1 /\ UNCHANGED <<decoderVars, t, halt, ticks>>
    BY <1>1, <1>4
  <2>2. cyc' = cyc /\ dec' = dec /\ nmiPend' = nmiPend
    BY <2>1 DEF decoderVars
  <2>3. LinesType'
    <3>1. /\ intpin' = intpin /\ busrel' = busrel /\ t' = t /\ halt' = halt
          /\ left' \in Int /\ ticks' = ticks /\ clk' \in BOOLEAN /\ pins' = pins
      BY <1>1, <1>2, <2>1
    <3> QED BY <1>0, <2>2, <3>1 DEF LinesType
  <2>4. Begun' /\ ReleaseStaged' /\ ExpiredPast' /\ HaltOfFetch'
    BY <1>1, <1>2, <2>1, <2>2 DEF Begun, ReleaseStaged, ExpiredPast, HaltOfFetch
  <2>5. HaltPin'
    BY <1>0, <1>1, <2>1, <2>2 DEF HaltPin
  <2>6. Ticked'
    <3>1. cyc.use # "expired" => ticks + left = cyc.n + 1
      BY <1>0, <1>1, <1>2 DEF Ticked
    <3>2. ticks' = ticks /\ left' = left - 1
      BY <2>1
    <3>3. \A a, b, n \in Int : a + b = n + 1 => a + (b - 1) = n + 0
      OBVIOUS
    <3>4. cyc.use # "expired" => ticks + (left - 1) = cyc.n + 0
      BY <1>2, <3>1, <3>3
    <3>5. cyc.use # "expired" => ticks' + left' = cyc.n + 0
      BY <3>2, <3>4
    <3> QED BY <1>1, <1>2, <2>2, <3>5 DEF Ticked
  <2>7. UNCHANGED Control!vars
    BY <1>1, <2>1 DEF Control!vars, decoderVars, Special
  <2> QED BY <1>0, <2>3, <2>4, <2>5, <2>6, <2>7, DecoderStep DEF Lines
<1> QED BY <1>3, <1>4

-----------------------------------------------------------------------------
(* The invariant holds, and every edge is a step of the decoder's layer or *)
(* leaves it where it is.                                                  *)
LEMMA InvInit == Init => EmuInv /\ Control!Init
<1> SUFFICES ASSUME Init PROVE EmuInv /\ Control!Init
  OBVIOUS
<1>1. Control!Init /\ Bus!Init /\ intpin = FALSE /\ ticks = 0 /\ cyc = Control!InReset
  BY DEF Init
<1>2. cyc.kind = NoCycle /\ cyc.use = "reset"
  BY <1>1, Words DEF Control!InReset, Control!Cycle
<1>3. clk \in BOOLEAN /\ t = -1 /\ left = 0 /\ halt = FALSE /\ pins = Bus!PinsInit
        /\ busrel = [k \in Timed |-> FALSE]
  BY <1>1, Words DEF Bus!Init
<1>4. Bus!PinsInit \in Bus!PinsType /\ "HALT" \notin Bus!PinsInit.low
  BY DEF Bus!PinsInit, Bus!PinsType, Bus!Lines, Bus!Groups, Bus!Addrs
<1>5. LinesType
  <2>1. clk \in BOOLEAN /\ intpin \in BOOLEAN /\ halt \in BOOLEAN
    BY <1>1, <1>3, Zenon
  <2>2. t \in -1..6 /\ left \in Int /\ ticks \in Int /\ cyc.kind \notin Timed
    BY <1>1, <1>2, <1>3, CycleFacts
  <2> QED BY <1>3, <1>4, <2>1, <2>2 DEF LinesType
<1>6. Begun /\ ReleaseStaged /\ ExpiredPast /\ HaltOfFetch /\ HaltPin /\ Ticked
  BY <1>2, <1>3, <1>4, CycleFacts
     DEF Begun, ReleaseStaged, ExpiredPast, HaltOfFetch, HaltPin, Ticked
<1> QED BY <1>1, <1>5, <1>6, DecoderInit DEF EmuInv, Lines

(* Every step keeps the invariant.                                         *)
LEMMA InvStep == EmuInv /\ [Next]_vars => EmuInv' /\ [Control!Next]_(Control!vars)
<1> SUFFICES ASSUME EmuInv, [Next]_vars PROVE EmuInv' /\ [Control!Next]_(Control!vars)
  OBVIOUS
<1>1. Decoder
  BY DEF EmuInv
<1> SUFFICES [Control!Next]_(Control!vars) /\ Lines'
  BY <1>1, DecoderStep DEF EmuInv
<1>2. CASE UNCHANGED vars
  <2>1. UNCHANGED <<lineVars, decoderVars, fault>>
    BY <1>2 DEF vars
  <2>2. UNCHANGED Control!vars
    BY <2>1 DEF lineVars, decoderVars, Control!vars, Special
  <2>3. Lines'
    BY <2>1 DEF EmuInv, lineVars, decoderVars, Lines, LinesType, Begun, ReleaseStaged,
                ExpiredPast, HaltOfFetch, HaltPin, Ticked
  <2> QED BY <2>2, <2>3
<1>3. CASE Next
  <2>1. CASE TriggerNMI
    BY <2>1, NmiEdgeStep
  <2>2. ASSUME NEW in \in Inputs, Clock(in)
        PROVE  [Control!Next]_(Control!vars) /\ Lines'
    BY <1>3, <2>2, RiseStep, ResetLowStep, ResetExitStep, IdleStep, FallStep, FallBogusStep
       DEF Clock, Next
  <2> QED BY <1>3, <2>1, <2>2 DEF Next
<1> QED BY <1>2, <1>3

(* For every program, counter and host: what the decoder does at the edges *)
(* of CLK is what Z80Control says of it.  HALT is low when an interrupt is *)
(* accepted only behind a halted fetch, RESET keeps the registers only if  *)
(* it cut a fetch, a cycle throws only if nothing followed it              *)
(* (z80emu::clock, start_*_cycle).                                         *)
THEOREM ControlImplemented == Spec => ImplementsControl
<1>1. Init => EmuInv /\ Control!Init
  BY InvInit
<1>2. EmuInv /\ [Next]_vars => EmuInv' /\ [Control!Next]_(Control!vars)
  BY InvStep
<1> QED BY <1>1, <1>2, PTL DEF Spec, ImplementsControl, Control!Spec

-----------------------------------------------------------------------------
(* T states.                                                               *)

(* Only a finished cycle sets the count back on a falling edge, and it has *)
(* counted its length by then.                                             *)
LEMMA TicksAtEnd ==
    ASSUME EmuInv, [Next]_vars, clk, ~clk', ticks # 0, ticks' = 0
    PROVE  ticks = Control!TStates(cyc)
<1>0. /\ Decoder /\ LinesType /\ Ticked
  BY DEF EmuInv, Lines
<1>1. ticks' # ticks
  OBVIOUS
<1>2. PICK in \in Inputs : Clock(in)
  <2>1. ~UNCHANGED vars /\ ~TriggerNMI
    BY <1>1 DEF vars, lineVars, TriggerNMI
  <2> QED BY <2>1 DEF Next
<1>3. Fall \/ FallBogus
  <2>1. ~Rise(in)
    BY DEF Rise, Bus!RaiseClk, Bus!RaiseBogus
  <2>2. ~ResetLow(in) /\ ~ResetExit(in)
    BY DEF ResetLow, Bus!ResetLow, ResetExit, Bus!ResetExit
  <2>3. ~Idle(in)
    BY <1>1 DEF Idle
  <2> QED BY <1>2, <2>1, <2>2, <2>3 DEF Clock
<1>4. CASE Fall
  <2>1. /\ cyc.kind \in Timed /\ cyc.kind # "bogus"
        /\ Bus!Finished(cyc.kind, t, busrel[cyc.kind]) /\ Finish(left)
    BY <1>1, <1>4, CycleFacts DEF Fall
  <2>2. t >= LastT[cyc.kind] /\ cyc.use # "expired"
    BY <2>1, Words DEF Bus!Finished, Finish, Control!FinishWith
  <2>3. ticks = LastT[cyc.kind] + 1
    BY <1>0, <2>1, <2>2 DEF Ticked
  <2>4. Control!LastT = LastT
    BY DEF Control!LastT, LastT, Control!Timed, Timed, Control!Kinds, Kinds
  <2> QED BY <2>1, <2>3, <2>4 DEF Control!TStates
<1>5. CASE FallBogus
  <2>1. cyc.kind = "bogus" /\ Bus!BogusOver(left - 1) /\ Finish(left - 1)
    BY <1>1, <1>5 DEF FallBogus
  <2>2. left - 1 = 0 /\ cyc.use # "expired"
    BY <2>1 DEF Bus!BogusOver, Finish, Control!FinishWith
  <2>3. ticks + left = cyc.n + 1
    BY <1>0, <2>1, <2>2 DEF Ticked
  <2>4. ticks \in Int /\ left \in Int /\ cyc.n \in Int
    BY <1>0, DecoderFacts DEF LinesType
  <2>5. ticks = cyc.n
    BY <2>2, <2>3, <2>4
  <2> QED BY <2>1, <2>5 DEF Control!TStates
<1> QED BY <1>3, <1>4, <1>5

(* For every program and host, however WAIT and BUSREQ stretch it, a cycle *)
(* that finishes has clocked as many T states as the timing of the         *)
(* instruction counts for it (z80_cycle::_t, z80_bogus_cycle::_cycles).    *)
THEOREM TStatesAreClocked == Spec => TStatesClocked
<1>1. EmuInv /\ [Next]_vars
        => (clk /\ ~clk' /\ ticks # 0 /\ ticks' = 0 => ticks = Control!TStates(cyc))
  BY TicksAtEnd
<1>2. UNCHANGED vars => UNCHANGED <<clk, ticks>>
  BY DEF vars, lineVars
<1>3. Init => EmuInv
  BY InvInit
<1>4. EmuInv /\ [Next]_vars => EmuInv'
  BY InvStep
<1> QED BY <1>1, <1>3, <1>4, PTL DEF Spec, TStatesClocked

-----------------------------------------------------------------------------
(* The layer of the pins.                                                  *)

(* Of the lines a host pulls the cycles look at these.                     *)
LEMMA SameLines ==
    ASSUME NEW in \in Inputs
    PROVE  \E in2 \in Bus!Inputs :
              in2.reset = in.reset /\ in2.wait = in.wait /\ in2.busreq = in.busreq
<1>1. in.reset \in BOOLEAN /\ in.wait \in BOOLEAN /\ in.busreq \in BOOLEAN
  BY DEF Inputs
<1> DEFINE in2 == [reset |-> in.reset, wait |-> in.wait, busreq |-> in.busreq]
<1>2. in2 \in Bus!Inputs
  BY <1>1 DEF Bus!Inputs
<1>3. in2.reset = in.reset /\ in2.wait = in.wait /\ in2.busreq = in.busreq
  OBVIOUS
<1> QED BY <1>2, <1>3

(* An edge that sees these lines alike does alike.                         *)
LEMMA LinesDecide ==
    ASSUME NEW in, NEW in2,
           in2.reset = in.reset, in2.wait = in.wait, in2.busreq = in.busreq
    PROVE  /\ Bus!RaiseClk(in) => Bus!RaiseClk(in2)
           /\ Bus!RaiseBogus(in) => Bus!RaiseBogus(in2)
           /\ Bus!ResetLow(in) => Bus!ResetLow(in2)
           /\ Bus!ResetExit(in) => Bus!ResetExit(in2)
           /\ Bus!Idle(in) => Bus!Idle(in2)
<1>1. ASSUME NEW k, NEW t0, NEW hlt, NEW f, Bus!RaiseTimed(k, t0, hlt, f, in)
      PROVE  Bus!RaiseTimed(k, t0, hlt, f, in2)
  BY <1>1 DEF Bus!RaiseTimed
<1>2. Bus!RaiseClk(in) => Bus!RaiseClk(in2)
  BY <1>1 DEF Bus!RaiseClk
<1>3. Bus!ResetExit(in) => Bus!ResetExit(in2)
  BY <1>1 DEF Bus!ResetExit
<1>4. Bus!RaiseBogus(in) => Bus!RaiseBogus(in2)
  BY DEF Bus!RaiseBogus
<1>5. (Bus!ResetLow(in) => Bus!ResetLow(in2)) /\ (Bus!Idle(in) => Bus!Idle(in2))
  BY DEF Bus!ResetLow, Bus!Idle
<1> QED BY <1>2, <1>3, <1>4, <1>5

(* No cycle of this program is left without a successor.                   *)
Lively == ControlP!FromMemory /\ ControlP!NeverExpired

(* That stays so.                                                          *)
LEMMA LivelyStep ==
    ASSUME ControlP!NoHoles, Decoder, Lively, [Control!Next]_(Control!vars)
    PROVE  Lively'
<1>1. [ControlP!Next]_(ControlP!vars)
  BY SameNext, SameVars
<1>2. ControlP!FromMemory'
  BY <1>1, Assumed, ControlP!StepFromMemory DEF Lively
<1>3. ControlP!NeverExpired'
  BY <1>1, <1>2, Assumed, ControlP!StepLives DEF Lively, Decoder
<1> QED BY <1>2, <1>3 DEF Lively

(* The cycle the decoder stages is one the pins allow for.                 *)
LEMMA StagedFollows ==
    ASSUME Decoder, cyc.kind \in Kinds, Control!FinishCycle, Finishing, cyc'.use # "expired",
           NEW l, Staged(cyc', l)
    PROVE  Bus!StartNext(cyc.kind, l)
<1>1. cyc'.kind \in Bus!Follows[cyc.kind]
  <2>1. ControlP!FinishCycle
    BY SameFinish
  <2>2. ControlP!Ordered
    BY <2>1, Assumed, ControlP!FinishOrdered DEF Decoder
  <2> QED BY <2>2, Words DEF ControlP!Ordered
<1> DEFINE hlt == cyc'.use = "halted"
           n   == IF cyc'.kind = "bogus" THEN cyc'.n ELSE 1
<1>2. n \in 1..7
  BY DEF Finishing
<1>3. hlt \in BOOLEAN /\ (hlt => cyc'.kind = "fetch" /\ cyc.kind \in Bus!MayHalt)
  BY Words DEF Finishing
<1>4. Bus!Start(cyc'.kind, hlt, n, l)
  BY DEF Staged, HaltFlag, Bus!Start
<1> HIDE DEF hlt, n
<1> QED BY <1>1, <1>2, <1>3, <1>4 DEF Bus!StartNext

(* A falling edge on the pins.                                             *)
LEMMA FallOnPins ==
    ASSUME EmuInv, Fall \/ FallBogus, cyc'.use # "expired"
    PROVE  Bus!FallClk \/ Bus!FallBogus
<1>0. Decoder /\ LinesType /\ Begun
  BY DEF EmuInv, Lines
<1>1. CASE Fall
  <2>1. /\ clk /\ cyc.kind \in Timed /\ clk' = FALSE
        /\ pins' = IF t > LastT[cyc.kind] THEN pins
                   ELSE Bus!PinsAt(cyc.kind, 2 * t + 1, halt, pins)
        /\ eff'  = IF t > LastT[cyc.kind] THEN eff
                   ELSE Bus!Count(eff, Bus!EffectsAt(cyc.kind, 2 * t + 1, halt, pins))
        /\ UNCHANGED <<busrel, por, resetCycles, resetM1T2, seen, cut, regs, intpin, fault>>
        /\ IF Bus!Finished(cyc.kind, t, busrel[cyc.kind])
             THEN Finish(left)
             ELSE UNCHANGED <<decoderVars, t, halt, left, ticks>>
    BY <1>1 DEF Fall
  <2>2. /\ cyc.kind # NoCycle /\ cyc.kind # "bogus" /\ LastT[cyc.kind] \in Int
        /\ t \in Int /\ t # -1 /\ left \in Int /\ cyc.kind \in Kinds
    BY <1>0, <2>1, CycleFacts DEF LinesType, Begun, Timed
  <2>3. pins' \in Bus!PinsType /\ ("HALT" \in pins'.low => "HALT" \in pins.low)
    <3>1. 2 * t + 1 \in Int /\ 2 * t + 1 # 0
      BY <2>2
    <3>2. halt \in BOOLEAN /\ pins \in Bus!PinsType
      BY <1>0 DEF LinesType
    <3> QED BY <2>1, <3>1, <3>2, PinsFacts
  <2>4. IF Bus!Finished(cyc.kind, t, busrel[cyc.kind])
          THEN Bus!StartNext(cyc.kind, left)
          ELSE UNCHANGED <<cyc.kind, t, left, halt>>
    <3>1. CASE Bus!Finished(cyc.kind, t, busrel[cyc.kind])
      <4>1. t >= LastT[cyc.kind] /\ Finish(left) /\ Staged(cyc', left)
        BY <2>1, <3>1, Words DEF Bus!Finished, Finish
      <4>2. Control!FinishCycle /\ Finishing
        BY <2>1, <2>2, <2>3, <4>1, FinishStep
      <4> QED BY <1>0, <2>2, <3>1, <4>1, <4>2, StagedFollows
    <3>2. CASE ~Bus!Finished(cyc.kind, t, busrel[cyc.kind])
      BY <2>1, <3>2 DEF decoderVars
    <3> QED BY <3>1, <3>2
  <2>5. IF t <= Bus!LastT[cyc.kind]
          THEN /\ pins' = Bus!PinsAt(cyc.kind, 2 * t + 1, halt, pins)
               /\ eff' = Bus!Count(eff, Bus!EffectsAt(cyc.kind, 2 * t + 1, halt, pins))
          ELSE UNCHANGED <<pins, eff>>
    BY <2>1, <2>2, Words
  <2> QED BY <2>1, <2>4, <2>5, Words DEF Bus!FallClk
<1>2. CASE FallBogus
  <2>1. /\ clk /\ cyc.kind = "bogus" /\ clk' = FALSE
        /\ UNCHANGED <<busrel, pins, por, resetCycles, resetM1T2, eff, seen, cut, regs,
                       intpin, fault>>
        /\ IF Bus!BogusOver(left - 1)
             THEN Finish(left - 1)
             ELSE left' = left - 1 /\ UNCHANGED <<decoderVars, t, halt, ticks>>
    BY <1>2 DEF FallBogus
  <2>2. /\ cyc.kind # NoCycle /\ cyc.kind \notin Timed /\ left - 1 \in Int
        /\ pins' \in Bus!PinsType /\ cyc.kind \in Kinds
    BY <1>0, <2>1, CycleFacts DEF LinesType, Kinds
  <2>3. IF Bus!BogusOver(left - 1)
          THEN Bus!StartNext("bogus", left - 1)
          ELSE left' = left - 1 /\ UNCHANGED <<cyc.kind, t, halt>>
    <3>1. CASE Bus!BogusOver(left - 1)
      <4>1. Finish(left - 1) /\ Staged(cyc', left - 1)
        BY <2>1, <3>1 DEF Finish
      <4>2. Control!FinishCycle /\ Finishing
        BY <2>1, <2>2, <4>1, FinishStep
      <4> QED BY <1>0, <2>1, <2>2, <3>1, <4>1, <4>2, StagedFollows
    <3>2. CASE ~Bus!BogusOver(left - 1)
      BY <2>1, <3>2 DEF decoderVars
    <3> QED BY <3>1, <3>2
  <2> QED BY <2>1, <2>3 DEF Bus!FallBogus
<1> QED BY <1>1, <1>2

(* An edge on the pins is one of Z80Bus.                                   *)
LEMMA PinsStep ==
    ASSUME EmuInv, [Next]_vars, cyc'.use # "expired"
    PROVE  [Bus!Next]_(Bus!vars)
<1>1. CASE UNCHANGED vars \/ (TriggerNMI /\ Next)
  <2>1. UNCHANGED lineVars /\ cyc' = cyc /\ fault' = fault
    BY <1>1 DEF vars, TriggerNMI, Control!TriggerNMI, decoderVars
  <2> QED BY <2>1 DEF lineVars, Bus!vars
<1>2. ASSUME Next, NEW in \in Inputs, Clock(in)
      PROVE  Bus!Next
  <2>1. PICK in2 \in Bus!Inputs :
            in2.reset = in.reset /\ in2.wait = in.wait /\ in2.busreq = in.busreq
    BY SameLines
  <2>2. Rise(in) => Bus!RaiseClk(in2) \/ Bus!RaiseBogus(in2)
    BY <2>1, LinesDecide DEF Rise
  <2>3. ResetLow(in) => Bus!ResetLow(in2)
    BY <2>1, LinesDecide DEF ResetLow
  <2>4. ResetExit(in) => Bus!ResetExit(in2)
    BY <2>1, LinesDecide DEF ResetExit
  <2>5. Idle(in) => Bus!Idle(in2)
    BY <2>1, LinesDecide DEF Idle
  <2>6. Bus!Clock(in2)
    BY <1>2, <2>2, <2>3, <2>4, <2>5, FallOnPins DEF Clock, Bus!Clock
  <2> QED BY <1>2, <2>1, <2>6 DEF Next, Bus!Next
<1> QED BY <1>1, <1>2 DEF Next

(* For every program without an opcode that execution has no case for, and *)
(* every host: what the CPU does on the pins is what Z80Bus says of it.    *)
(* Each cycle is followed by one that Follows names, a halted fetch only   *)
(* behind a fetch or an acknowledge, and every bogus cycle has a length    *)
(* its count can reach (z80_instr_decoder::exec_*, z80emu::clock).         *)
THEOREM BusImplemented ==
    ASSUME \A o \in Opcodes : ~Control!Hole("ED", o)
    PROVE  Spec => ImplementsBus
<1>1. ControlP!NoHoles
  BY DEF ControlP!NoHoles, ControlP!Hole, Control!Hole, ControlP!X, ControlP!Y, ControlP!Z,
         Control!X, Control!Y, Control!Z
<1>2. Init => EmuInv /\ Lively /\ Bus!Init
  <2>1. Init => ControlP!Init /\ Bus!Init
    BY InvInit, SameInit DEF Init
  <2> QED BY <2>1, InvInit, Assumed, ControlP!InitFromMemory DEF Lively
<1>3. EmuInv /\ Lively /\ [Next]_vars => EmuInv' /\ Lively' /\ [Bus!Next]_(Bus!vars)
  <2> SUFFICES ASSUME EmuInv, Lively, [Next]_vars
               PROVE  EmuInv' /\ Lively' /\ [Bus!Next]_(Bus!vars)
    OBVIOUS
  <2>1. EmuInv' /\ [Control!Next]_(Control!vars) /\ Decoder
    BY InvStep DEF EmuInv
  <2>2. Lively'
    BY <1>1, <2>1, LivelyStep
  <2>3. cyc'.use # "expired"
    BY <2>2 DEF Lively, ControlP!NeverExpired
  <2> QED BY <2>1, <2>2, <2>3, PinsStep
<1> QED BY <1>2, <1>3, PTL DEF Spec, ImplementsBus, Bus!Spec
=============================================================================
