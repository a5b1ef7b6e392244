-------------------------- MODULE Z80ControlProofs --------------------------
(***************************************************************************)
(* Proofs about Z80Control for every set of opcodes, every size of PC and  *)
(* every host: its type invariant, how the cycle, the decoder and the      *)
(* pending interrupts belong together, in which order cycles follow each   *)
(* other, when an interrupt is accepted, that it is served and returns     *)
(* where it came from, and that nothing throws.                            *)
(***************************************************************************)
EXTENDS Z80Control, TLAPS

(* Cycles an instruction may start: fetches and acknowledges come from     *)
(* reset() and from clock() only.                                          *)
CycleType  == [kind : Kinds \cup {NoCycle}, use : Uses, n : 0..7]
PlanUses   == {"imm", "d", "cbop", "data", "push", "pop", "idle", "jump", "rewind"}
PlanCycles ==
    {c \in [kind : Kinds \ {"fetch", "intack"}, use : PlanUses, n : 0..7] :
        c.kind = "bogus" => c.n # 0}

(* A plan as next_step() needs it: cycles of an instruction, six at most.  *)
Plans == {p \in Seq(PlanCycles) : Len(p) <= 6}

-----------------------------------------------------------------------------
(* Fetches, acknowledges and the reset state are cycles, and so is a cycle *)
(* that has run out.                                                       *)
LEMMA CycleTypes ==
    /\ PlanCycles \subseteq CycleType
    /\ \A hlt \in BOOLEAN : Fetch(hlt) \in CycleType /\ Fetch(hlt).kind = "fetch"
    /\ \A m : Intack(m) \in CycleType
    /\ InReset \in CycleType /\ InReset.kind = NoCycle
    /\ \A c \in CycleType : [c EXCEPT !.use = "expired"] \in CycleType
BY DEF CycleType, PlanCycles, PlanUses, Fetch, Intack, InReset, Cycle, Kinds, Uses, NoCycle

(* Every cycle a plan is written with is one an instruction may start.     *)
LEMMA PlanCycleTypes ==
    /\ Imm \in PlanCycles /\ Read \in PlanCycles /\ Write \in PlanCycles
    /\ Pop \in PlanCycles /\ Push \in PlanCycles /\ In \in PlanCycles /\ Out \in PlanCycles
    /\ Jump \in PlanCycles /\ Rewind \in PlanCycles
    /\ \A n \in 1..7 : Idle(n) \in PlanCycles
    /\ Cycle("memRead", "d", 0) \in PlanCycles /\ Cycle("memRead", "cbop", 0) \in PlanCycles
BY DEF PlanCycles, PlanUses, Imm, Read, Write, Pop, Push, In, Out, Jump, Rewind, Idle, Cycle, Kinds

(* The cycle of IN and OUT, of LD r,(HL) and LD (HL),r.                    *)
LEMMA ReadOrWriteType == \A y : ReadOrWrite(y) \in PlanCycles
BY PlanCycleTypes DEF ReadOrWrite

(* A cycle that finishes has a length.                                     *)
LEMMA TStatesType == \A c \in CycleType : c.kind # NoCycle => TStates(c) \in Nat
<1>1. \A k \in Timed : LastT[k] \in Nat
  BY DEF Timed, Kinds, LastT
<1>2. \A c \in CycleType : c.kind # NoCycle => c.n \in Nat /\ (c.kind = "bogus" \/ c.kind \in Timed)
  BY DEF CycleType, Timed
<1> QED BY <1>1, <1>2 DEF TStates

(* The plans of every opcode, prefixed or not, whatever its condition:     *)
(* quadrant 0.                                                             *)
LEMMA PlanQ0Type == \A y, z, tk : PlanQ0(y, z, tk) \in Plans
BY PlanCycleTypes, ReadOrWriteType DEF PlanQ0, When, Plans

(* Quadrant 3.                                                             *)
LEMMA PlanQ3Type == \A y, z, tk : PlanQ3(y, z, tk) \in Plans
BY PlanCycleTypes DEF PlanQ3, When, Plans

(* The ED table, main part.                                                *)
LEMMA PlanED1Type == \A y, z : PlanED1(y, z) \in Plans
BY PlanCycleTypes, ReadOrWriteType DEF PlanED1, Plans

(* The block instructions.                                                 *)
LEMMA PlanED2Type == \A y, z, tk : PlanED2(y, z, tk) \in Plans
BY PlanCycleTypes DEF PlanED2, When, Plans

(* The loads, and HALT.                                                    *)
LEMMA PlanQ1Type == \A y, z : PlanQ1(y, z) \in Plans
BY PlanCycleTypes DEF PlanQ1, Plans

(* The eight operations.                                                   *)
LEMMA PlanQ2Type == \A z : PlanQ2(z) \in Plans
BY PlanCycleTypes DEF PlanQ2, When, Plans

(* The CB table, displaced or not.                                         *)
LEMMA PlanCBType == \A mod, x, z : PlanCB(mod, x, z) \in Plans
BY PlanCycleTypes DEF PlanCB, When, Plans

(* So next_step() has a cycle in every step of the plan, and no seventh.   *)
LEMMA PlanType == \A subset, mod, o, tk : Plan(subset, mod, o, tk) \in Plans
<1>1. <<>> \in Plans
  BY DEF Plans
<1> QED BY <1>1, PlanQ0Type, PlanQ3Type, PlanED1Type, PlanED2Type, PlanQ1Type, PlanQ2Type,
           PlanCBType DEF Plan

(* PC wraps around.                                                        *)
LEMMA AddrType == \A n \in Int : Addr(n) \in PCs
BY PCModAssumption DEF Addr, PCs

(* What is decoded from an opcode byte.                                    *)
LEMMA OpcodeTypes ==
    /\ \A o \in Bytes : Y(o) \in Nat
    /\ \A o : IntMode(o) \in 0..2
    /\ 0 \in Bytes /\ 118 \in Bytes /\ Prefixes \subseteq Bytes
BY DEF Bytes, Y, IntMode, Prefixes

(* reset() and ++_step keep the decoder in range.                          *)
LEMMA DecoderTypes ==
    /\ IdleDecoder \in DecoderType /\ IdleDecoder.step = 0
    /\ \A d \in DecoderType :
          /\ d.step \in Nat
          /\ Stepped(d) \in DecoderType /\ Stepped(d).step = d.step + 1
          /\ Stepped(d).subset = d.subset
<1>1. IdleDecoder \in DecoderType /\ IdleDecoder.step = 0
  BY DEF IdleDecoder, DecoderType
<1>2. ASSUME NEW d \in DecoderType PROVE d.step \in Nat /\ d.step + 1 \in Nat
  BY DEF DecoderType
<1>3. ASSUME NEW d \in DecoderType
      PROVE  Stepped(d) \in DecoderType /\ Stepped(d).step = d.step + 1
               /\ Stepped(d).subset = d.subset
  BY <1>2 DEF DecoderType, Stepped
<1> QED BY <1>1, <1>2, <1>3

(* So do the ready flags and start().                                      *)
LEMMA DecoderFlags ==
    ASSUME NEW d \in DecoderType
    PROVE  /\ [d EXCEPT !.dReady = TRUE] \in DecoderType
           /\ [d EXCEPT !.hlReady = TRUE] \in DecoderType
           /\ [d EXCEPT !.cbFetched = TRUE] \in DecoderType
           /\ [d EXCEPT !.started = TRUE, !.step = 0] \in DecoderType
<1>1. [d EXCEPT !.dReady = TRUE] \in DecoderType
  BY DEF DecoderType
<1>2. [d EXCEPT !.hlReady = TRUE] \in DecoderType
  BY DEF DecoderType
<1>3. [d EXCEPT !.cbFetched = TRUE] \in DecoderType
  BY DEF DecoderType
<1>4. [d EXCEPT !.started = TRUE, !.step = 0] \in DecoderType
  BY DEF DecoderType
<1> QED BY <1>1, <1>2, <1>3, <1>4

-----------------------------------------------------------------------------
(* What the polling of the interrupts writes, and keeps in range.          *)
SawInts == {{}, {FALSE}, {TRUE}}
Polled ==
    /\ cyc \in CycleType /\ pc \in PCs /\ resume \in PCs /\ saved \in SawInts
    /\ iff1 \in BOOLEAN /\ iff2 \in BOOLEAN /\ nmiff \in BOOLEAN
    /\ nmiSkip \in BOOLEAN /\ intSkip \in BOOLEAN
    /\ nmiPend \in BOOLEAN /\ intPend \in BOOLEAN

PinsType == [int : BOOLEAN, halted : BOOLEAN]

(* The polling of NMI and INT keeps its variables in range.                *)
LEMMA PollKeeps ==
    ASSUME TypeOK, NEW c \in CycleType, NEW i1 \in BOOLEAN, NEW i2 \in BOOLEAN,
           NEW p \in PCs, NEW skipN \in BOOLEAN, NEW skipI \in BOOLEAN, NEW in \in PinsType,
           Poll(c, i1, i2, p, skipN, skipI, in)
    PROVE  Polled'
<1>0. Polled
  BY DEF TypeOK, Polled, CycleType, SawInts
<1>1. PendingAfter(nmiPend, c) \in BOOLEAN /\ PendingAfter(intPend, c) \in BOOLEAN
  BY DEF PendingAfter
<1>2. Addr(p + 1) \in PCs /\ 0 \in PCs
  BY AddrType, PCModAssumption DEF PCs
<1>3. CASE AcceptNMI(c, i1, i2, p, skipN, skipI)
  BY <1>0, <1>1, <1>3 DEF AcceptNMI, SavedIFF1, Polled, SawInts
<1>4. CASE AcceptINT(c, i1, i2, p, skipN, skipI, in)
  BY <1>0, <1>1, <1>2, <1>4, CycleTypes DEF AcceptINT, Polled, SawInts
<1>5. CASE NoInterrupt(c, i1, i2, p, skipN, skipI, in)
  BY <1>0, <1>1, <1>2, <1>5 DEF NoInterrupt, SkipAfter, Polled, SawInts
<1> QED BY <1>3, <1>4, <1>5 DEF Poll

(* So does a step that starts a further cycle.                             *)
LEMMA StayKeeps ==
    ASSUME TypeOK, cyc.kind # NoCycle, NEW c \in CycleType, NEW d \in DecoderType,
           NEW i1 \in BOOLEAN, NEW p \in PCs, Stay(c, d, i1, p)
    PROVE  Polled' /\ dec' = d /\ elapsed' \in Nat /\ acked' \in BOOLEAN
<1>1. elapsed \in Nat /\ TStates(cyc) \in Nat /\ acked \in BOOLEAN
  BY TStatesType DEF TypeOK, CycleType
<1>2. elapsed' \in Nat /\ acked' \in BOOLEAN
  BY <1>1 DEF Stay, Elapsed, Acked
<1> QED BY <1>2 DEF Stay, Polled, TypeOK, CycleType, SawInts

(* So does a step that calls reset().                                      *)
LEMMA EndKeeps ==
    ASSUME TypeOK, NEW d, NEW hlt \in BOOLEAN, NEW i1 \in BOOLEAN, NEW i2 \in BOOLEAN,
           NEW p \in PCs, NEW skipI \in BOOLEAN, NEW in \in PinsType,
           End(d, hlt, i1, i2, p, skipI, in)
    PROVE  Polled' /\ dec' = IdleDecoder /\ elapsed' \in Nat /\ acked' \in BOOLEAN
<1>1. Fetch(hlt) \in CycleType /\ nmiSkip \in BOOLEAN
  BY CycleTypes DEF TypeOK
<1>2. Poll(Fetch(hlt), i1, i2, p, nmiSkip, skipI, in)
  BY DEF End
<1>3. Polled'
  BY <1>1, <1>2, PollKeeps
<1> QED BY <1>3 DEF End, ResetDecoder

-----------------------------------------------------------------------------
(* What next_step() leaves when it runs for decoder state d and opcode o,  *)
(* the steps counted within the plan unless the slot of o is empty.        *)
Taken(o) ==
    /\ Polled' /\ im' \in 0..2
    /\ dec' \in DecoderType /\ elapsed' \in Nat /\ acked' \in BOOLEAN
    /\ dec'.step > 6 => ~nmiPend /\ ~intPend /\ Hole(dec'.subset, o)

(* Every PC a step computes wraps around.                                  *)
LEMMA PCTypes ==
    ASSUME NEW p \in PCs, NEW c, NEW d, NEW o \in Bytes, NEW tk
    PROVE  /\ PCAtStart(c, p) \subseteq PCs /\ PCAtEnd(d, o, tk, p) \subseteq PCs
           /\ Addr(p + 1) \in PCs /\ NmiRewind(p) \in PCs
           /\ NmiVector \in PCs /\ IntVector \in PCs
<1>1. p \in Int /\ PCMod \in Int
  BY PCModAssumption DEF PCs
<1>2. Addr(p + 1) \in PCs /\ Addr(p + 2 * PCMod - 2) \in PCs /\ Addr(p + PCMod - 1) \in PCs
        /\ Addr(102) \in PCs /\ Addr(56) \in PCs
  BY <1>1, AddrType
<1>3. Addr(8 * Y(o)) \in PCs
  BY AddrType, OpcodeTypes
<1>4. PCAtStart(c, p) \subseteq PCs
  BY <1>2 DEF PCAtStart
<1>5. PCAtEnd(d, o, tk, p) \subseteq PCs
  BY <1>3 DEF PCAtEnd
<1> QED BY <1>2, <1>4, <1>5 DEF NmiRewind, NmiVector, IntVector

(* The steps of the response to an NMI.                                    *)
LEMMA NmiKeeps ==
    ASSUME TypeOK, cyc.kind # NoCycle, NEW d \in DecoderType, NEW o \in Bytes, NEW p \in PCs,
           NEW in \in PinsType, NmiStep(d, p, in)
    PROVE  Taken(o)
<1>0. /\ im' = im /\ im \in 0..2 /\ iff1 \in BOOLEAN /\ iff2 \in BOOLEAN /\ intSkip \in BOOLEAN
      /\ Idle(1) \in CycleType /\ Push \in CycleType /\ FALSE \in BOOLEAN
  BY CycleTypes, PlanCycleTypes DEF NmiStep, TypeOK
<1>1. Stepped(d) \in DecoderType /\ Stepped(d).step = d.step + 1 /\ d.step \in Nat
  BY DecoderTypes
<1>2. NmiRewind(p) \in PCs /\ NmiVector \in PCs
  BY PCTypes
<1>3. CASE d.step = 0 /\ Stay(Idle(1), Stepped(d), iff1, NmiRewind(p))
  <2>1. Polled' /\ dec' = Stepped(d) /\ elapsed' \in Nat /\ acked' \in BOOLEAN
    BY <1>0, <1>1, <1>2, <1>3, StayKeeps
  <2> QED BY <1>0, <1>1, <1>3, <2>1 DEF Taken
<1>4. CASE d.step \in 1..2 /\ Stay(Push, Stepped(d), iff1, p)
  <2>1. Polled' /\ dec' = Stepped(d) /\ elapsed' \in Nat /\ acked' \in BOOLEAN
    BY <1>0, <1>1, <1>4, StayKeeps
  <2> QED BY <1>0, <1>1, <1>4, <2>1 DEF Taken
<1>5. CASE d.step > 2 /\ End(d, FALSE, iff1, iff2, NmiVector, intSkip, in)
  <2>1. Polled' /\ dec' = IdleDecoder /\ elapsed' \in Nat /\ acked' \in BOOLEAN
    BY <1>0, <1>2, <1>5, EndKeeps, ZenonT(60)
  <2> QED BY <1>0, <2>1, DecoderTypes DEF Taken
<1> QED BY <1>3, <1>4, <1>5 DEF NmiStep

(* The steps of the response to INT, in every mode.                        *)
LEMMA IntKeeps ==
    ASSUME TypeOK, cyc.kind # NoCycle, NEW d \in DecoderType, NEW o \in Bytes, NEW p \in PCs,
           NEW in \in PinsType, IntStep(d, p, in)
    PROVE  Taken(o)
<1>0. /\ im' = im /\ im \in 0..2 /\ iff1 \in BOOLEAN /\ iff2 \in BOOLEAN /\ intSkip \in BOOLEAN
      /\ Idle(1) \in CycleType /\ Push \in CycleType /\ Read \in CycleType /\ FALSE \in BOOLEAN
  BY CycleTypes, PlanCycleTypes DEF IntStep, TypeOK
<1>1. Stepped(d) \in DecoderType /\ Stepped(d).step = d.step + 1 /\ d.step \in Nat
  BY DecoderTypes
<1>2. ASSUME d.step \in 0..4, NEW c \in {Idle(1), Push, Read}, Stay(c, Stepped(d), iff1, p)
      PROVE  Taken(o)
  <2>1. Polled' /\ dec' = Stepped(d) /\ elapsed' \in Nat /\ acked' \in BOOLEAN
    BY <1>0, <1>1, <1>2, StayKeeps
  <2> QED BY <1>0, <1>1, <1>2, <2>1 DEF Taken
<1>3. ASSUME NEW q \in PCs, End(d, FALSE, iff1, iff2, q, intSkip, in)
      PROVE  Taken(o)
  <2>1. Polled' /\ dec' = IdleDecoder /\ elapsed' \in Nat /\ acked' \in BOOLEAN
    BY <1>0, <1>3, EndKeeps, ZenonT(60)
  <2> QED BY <1>0, <2>1, DecoderTypes DEF Taken
<1>4. IntVector \in PCs
  BY PCTypes
<1>5. d.step \in 0..4 /\ Stay(Idle(1), Stepped(d), iff1, p) => Taken(o)
  BY <1>2
<1>6. d.step \in 0..4 /\ Stay(Push, Stepped(d), iff1, p) => Taken(o)
  BY <1>2
<1>7. d.step \in 0..4 /\ Stay(Read, Stepped(d), iff1, p) => Taken(o)
  BY <1>2
<1>8. End(d, FALSE, iff1, iff2, IntVector, intSkip, in) => Taken(o)
  BY <1>3, <1>4
<1>9. (\E q \in PCs : End(d, FALSE, iff1, iff2, q, intSkip, in)) => Taken(o)
  BY <1>3
<1>10. d.step \in 0..4 \/ ~(d.step = 0 \/ d.step \in 1..2 \/ d.step = 3 \/ d.step = 4)
  BY <1>1
<1> QED BY <1>5, <1>6, <1>7, <1>8, <1>9, <1>10, Zenon DEF IntStep

(* The steps of an instruction: by process_hlptr(), along the plan, at the *)
(* end of it, or in an empty slot.                                         *)
LEMMA ExecKeeps ==
    ASSUME TypeOK, cyc.kind # NoCycle, ~nmiPend, ~intPend,
           NEW d \in DecoderType, NEW o \in Bytes, NEW tk \in BOOLEAN, NEW p \in PCs,
           NEW in \in PinsType, d.step > 6 => Hole(d.subset, o), ExecStep(d, o, tk, p, in)
    PROVE  Taken(o)
<1> DEFINE plan == Plan(d.subset, d.mod, o, tk)
<1>0. /\ im \in 0..2 /\ iff1 \in BOOLEAN /\ iff2 \in BOOLEAN /\ intSkip \in BOOLEAN
      /\ cyc \in CycleType
  BY DEF TypeOK, CycleType
<1>1. /\ Stepped(d) \in DecoderType /\ Stepped(d).step = d.step + 1 /\ d.step \in Nat
      /\ Stepped(d).subset = d.subset
  BY DecoderTypes
<1>2. plan \in Seq(PlanCycles) /\ Len(plan) <= 6 /\ Len(plan) \in Nat
  <2>1. plan \in Plans
    BY PlanType
  <2> HIDE DEF plan
  <2> QED BY <2>1 DEF Plans
<1>3. CASE im' = im /\ NeedsD(d, o) /\ ReadDisplacement(d, p)
  <2>1. [d EXCEPT !.dReady = TRUE] \in DecoderType /\ [d EXCEPT !.dReady = TRUE].step = d.step
    BY DecoderFlags DEF DecoderType
  <2>2. Cycle("memRead", "d", 0) \in CycleType /\ Addr(p + 1) \in PCs /\ d.step = 0
    BY <1>3, CycleTypes, PlanCycleTypes, PCTypes DEF NeedsD
  <2>3. Stay(Cycle("memRead", "d", 0), [d EXCEPT !.dReady = TRUE], iff1, Addr(p + 1))
    BY <1>3 DEF ReadDisplacement
  <2>4. Polled' /\ dec' = [d EXCEPT !.dReady = TRUE] /\ elapsed' \in Nat /\ acked' \in BOOLEAN
    BY <1>0, <2>1, <2>2, <2>3, StayKeeps
  <2> QED BY <1>0, <1>3, <2>1, <2>2, <2>4 DEF Taken
<1>4. CASE im' = im /\ NeedsPtr(d, o) /\ CalculatePtr(d, o, p)
  <2>1. [d EXCEPT !.hlReady = TRUE] \in DecoderType /\ [d EXCEPT !.hlReady = TRUE].step = d.step
    BY DecoderFlags DEF DecoderType
  <2>2. Idle(2) \in CycleType /\ Idle(5) \in CycleType /\ d.step \in 0..1
    BY <1>4, CycleTypes, PlanCycleTypes DEF NeedsPtr
  <2>3. PICK c \in {Idle(2), Idle(5)} : Stay(c, [d EXCEPT !.hlReady = TRUE], iff1, p)
    BY <1>4 DEF CalculatePtr
  <2>4. Polled' /\ dec' = [d EXCEPT !.hlReady = TRUE] /\ elapsed' \in Nat /\ acked' \in BOOLEAN
    BY <1>0, <2>1, <2>2, <2>3, StayKeeps
  <2> QED BY <1>0, <1>4, <2>1, <2>2, <2>4 DEF Taken
<1>5. CASE im' = im /\ d.step < Len(plan) /\ StartCycle(d, o, plan[d.step + 1], p)
  <2>1. plan[d.step + 1] \in CycleType
    BY <1>1, <1>2, <1>5, CycleTypes
  <2>2. IFF1AtStart(d, o) \in BOOLEAN
    BY <1>0 DEF IFF1AtStart
  <2>3. PICK q \in PCs : Stay(plan[d.step + 1], Stepped(d), IFF1AtStart(d, o), q)
    BY <1>5, PCTypes DEF StartCycle
  <2>4. Polled' /\ dec' = Stepped(d) /\ elapsed' \in Nat /\ acked' \in BOOLEAN
    <3> HIDE DEF plan
    <3> QED BY <1>1, <2>1, <2>2, <2>3, StayKeeps
  <2>5. Stepped(d).step <= 6
    BY <1>1, <1>2, <1>5
  <2> QED BY <1>0, <1>1, <1>5, <2>4, <2>5 DEF Taken
<1>6. CASE im' = im /\ Hole(d.subset, o) /\ StartNothing(d, p)
  <2>1. [cyc EXCEPT !.use = "expired"] \in CycleType
    BY <1>0, CycleTypes
  <2>2. Stay([cyc EXCEPT !.use = "expired"], Stepped(d), iff1, p)
    BY <1>6 DEF StartNothing
  <2>3. Polled' /\ dec' = Stepped(d) /\ elapsed' \in Nat /\ acked' \in BOOLEAN
    BY <1>0, <1>1, <2>1, <2>2, StayKeeps
  <2> QED BY <1>0, <1>1, <1>6, <2>3 DEF Taken
<1>7. CASE EndInstruction(d, o, tk, p, in)
  <2>1. im' \in 0..2
    BY <1>0, <1>7, OpcodeTypes DEF EndInstruction
  <2>2. /\ IsHALT(d.subset, d.mod, o) \in BOOLEAN
        /\ IFFAtEnd(d, o, iff1) \in BOOLEAN /\ IFFAtEnd(d, o, iff2) \in BOOLEAN
        /\ (intSkip \/ EIShadow(d, o)) \in BOOLEAN
    BY <1>0 DEF IFFAtEnd, EIShadow, IsEI, IsDI, IsHALT
  <2>3. PICK q \in PCs : End(d, IsHALT(d.subset, d.mod, o), IFFAtEnd(d, o, iff1),
                             IFFAtEnd(d, o, iff2), q, intSkip \/ EIShadow(d, o), in)
    BY <1>7, PCTypes DEF EndInstruction
  <2>4. Polled' /\ dec' = IdleDecoder /\ elapsed' \in Nat /\ acked' \in BOOLEAN
    BY <2>2, <2>3, EndKeeps, ZenonT(60)
  <2> QED BY <2>1, <2>4, DecoderTypes DEF Taken
<1> QED BY <1>3, <1>4, <1>5, <1>6, <1>7 DEF ExecStep

(* next_step() as a whole.                                                 *)
LEMMA NextStepKeeps ==
    ASSUME TypeOK, cyc.kind # NoCycle, NEW d \in DecoderType, NEW o \in Bytes,
           NEW tk \in BOOLEAN, NEW p \in PCs, NEW in \in PinsType,
           d.step > 6 => Hole(d.subset, o), NextStep(d, o, tk, p, in)
    PROVE  Taken(o)
<1>1. CASE nmiPend
  BY <1>1, NmiKeeps DEF NextStep
<1>2. CASE ~nmiPend /\ intPend
  BY <1>2, IntKeeps DEF NextStep
<1>3. CASE ~nmiPend /\ ~intPend
  BY <1>3, ExecKeeps DEF NextStep
<1> QED BY <1>1, <1>2, <1>3

-----------------------------------------------------------------------------
(* Power-on.                                                               *)
LEMMA InitType == Init => TypeOK
<1> SUFFICES ASSUME Init PROVE TypeOK
  OBVIOUS
<1>1. cyc \in [kind : Kinds \cup {NoCycle}, use : Uses, n : 0..7]
  BY CycleTypes DEF Init, CycleType
<1>2. 0 \in PCs /\ 0 \in Bytes /\ 0 \in 0..2 /\ 0 \in Nat
  BY PCModAssumption DEF PCs, Bytes
<1>3. dec \in DecoderType /\ (dec.step > 6 => Hole(dec.subset, op))
  BY DecoderTypes DEF Init
<1>4. saved \in {{}, {FALSE}, {TRUE}}
  BY DEF Init
<1>5. instr \in Bytes /\ op \in Bytes /\ cbInstr \in Bytes /\ pc \in PCs /\ resume \in PCs
        /\ im \in 0..2 /\ elapsed \in Nat
  BY <1>2 DEF Init
<1>6. /\ taken \in BOOLEAN /\ iff1 \in BOOLEAN /\ iff2 \in BOOLEAN
      /\ nmiff \in BOOLEAN /\ nmiSkip \in BOOLEAN /\ intSkip \in BOOLEAN
      /\ nmiPend \in BOOLEAN /\ intPend \in BOOLEAN
      /\ special \in BOOLEAN /\ fault \in BOOLEAN /\ acked \in BOOLEAN
  BY DEF Init
<1> QED BY <1>1, <1>3, <1>4, <1>5, <1>6 DEF TypeOK

(* What the bytes latched and PC may be when a cycle finishes.             *)
LEMMA LatchTypes ==
    ASSUME TypeOK
    PROVE  /\ LatchedOpcodes \subseteq Bytes /\ LatchedCbOpcodes \subseteq Bytes
           /\ PCAfterCycle \in PCs /\ PinsSeen \subseteq PinsType
<1>1. LatchedOpcodes \subseteq Bytes /\ LatchedCbOpcodes \subseteq Bytes
  BY OpcodesAssumption, OpcodeTypes DEF TypeOK, LatchedOpcodes, LatchedCbOpcodes
<1>2. pc \in PCs /\ pc + 1 \in Int
  BY DEF TypeOK, PCs
<1>3. PCAfterCycle \in PCs
  BY <1>2, AddrType DEF PCAfterCycle
<1>4. PinsSeen \subseteq PinsType
  BY DEF PinsSeen, HaltPins, PinsType
<1> QED BY <1>1, <1>3, <1>4

(* TypeOK put together from what one call of clock() leaves.               *)
LEMMA Assemble ==
    ASSUME TypeOK, Polled', dec' \in DecoderType, dec'.step > 6 => Hole(dec'.subset, op'),
           instr' \in Bytes, op' \in Bytes, cbInstr' \in Bytes, taken' \in BOOLEAN,
           im' \in 0..2, elapsed' \in Nat, acked' \in BOOLEAN,
           special' \in BOOLEAN, fault' \in BOOLEAN
    PROVE  TypeOK'
BY DEF TypeOK, Polled, CycleType, SawInts

(* start() on a prefix byte.                                               *)
LEMMA PrefixType ==
    ASSUME TypeOK, cyc.kind # NoCycle, UNCHANGED <<special, fault>>,
           NEW b \in Bytes, NEW in \in PinsType, Prefix(b, in)
    PROVE  TypeOK'
<1> DEFINE disp == b = 203 /\ dec.mod # "none"
           c    == IF disp THEN Cycle("memRead", "d", 0) ELSE Fetch(FALSE)
           p    == IF disp THEN Addr(PCAfterCycle + 1) ELSE PCAfterCycle
<1>1. c \in CycleType /\ p \in PCs
  BY CycleTypes, PlanCycleTypes, LatchTypes, PCTypes
<1>2. Poll(c, iff1, iff2, p, PrefixSkipsNmi, TRUE, in)
  BY DEF Prefix
<1>3. Polled'
  <2> HIDE DEF c, p
  <2>1. PrefixSkipsNmi \in BOOLEAN /\ TRUE \in BOOLEAN /\ iff1 \in BOOLEAN /\ iff2 \in BOOLEAN
    BY DEF PrefixSkipsNmi, TypeOK
  <2> QED BY <1>1, <1>2, <2>1, PollKeeps, ZenonT(30)
<1>4. dec' \in DecoderType /\ dec'.step = dec.step /\ ~dec.started /\ dec.subset = "none"
  <2>1. dec \in DecoderType /\ dec' = Prefixed(b) /\ AtPrefix(b)
    BY DEF TypeOK, Prefix
  <2> DEFINE ddcb == dec.mod # "none"
             Kept(e) == e \in DecoderType /\ e.step = dec.step
  <2>2. Kept([dec EXCEPT !.mod = "DD"]) /\ Kept([dec EXCEPT !.mod = "FD"])
    BY <2>1 DEF DecoderType
  <2>3. Kept([dec EXCEPT !.subset = "CB", !.dReady = ddcb])
    <3>1. ddcb \in BOOLEAN
      OBVIOUS
    <3> HIDE DEF ddcb
    <3> QED BY <2>1, <3>1 DEF DecoderType
  <2>4. Kept([dec EXCEPT !.subset = "ED", !.mod = "none"])
    BY <2>1 DEF DecoderType
  <2>5. Kept(Prefixed(b))
    <3> HIDE DEF Kept
    <3> QED BY <2>2, <2>3, <2>4, Zenon DEF Prefixed
  <2> QED BY <2>1, <2>5 DEF AtPrefix
<1>5. dec.step <= 6
  <2>1. dec.step \in Nat /\ (dec.step > 6 => Hole(dec.subset, op))
    BY DecoderTypes DEF TypeOK
  <2> QED BY <1>4, <2>1 DEF Hole
<1>6. elapsed' \in Nat /\ acked' \in BOOLEAN
  <2>1. elapsed \in Nat /\ TStates(cyc) \in Nat /\ acked \in BOOLEAN
    BY TStatesType DEF TypeOK, CycleType
  <2>2. elapsed' \in {Elapsed, TStates(cyc)} /\ acked' \in {Acked, cyc.kind = "intack"}
    BY DEF Prefix
  <2>3. Elapsed \in Nat /\ Acked \in BOOLEAN /\ (cyc.kind = "intack") \in BOOLEAN
    BY <2>1 DEF Elapsed, Acked
  <2> QED BY <2>1, <2>2, <2>3
<1>7. instr' \in Bytes /\ op' \in Bytes /\ cbInstr' \in Bytes /\ taken' \in BOOLEAN /\ im' \in 0..2
  BY DEF Prefix, TypeOK
<1>8. special' \in BOOLEAN /\ fault' \in BOOLEAN /\ dec.step \in Nat
  BY DecoderTypes DEF TypeOK
<1> QED BY <1>3, <1>4, <1>5, <1>6, <1>7, <1>8, Assemble

(* start() between DDCB or FDCB and its opcode.                            *)
LEMMA DdCbType ==
    ASSUME TypeOK, cyc.kind # NoCycle, UNCHANGED <<special, fault>>,
           NEW b \in Bytes, NEW cb \in Bytes, NEW in \in PinsType, DdCb(b, cb, in)
    PROVE  TypeOK'
<1>1. /\ Idle(2) \in CycleType /\ Cycle("memRead", "cbop", 0) \in CycleType
      /\ PCAfterCycle \in PCs /\ Addr(PCAfterCycle + 1) \in PCs
      /\ PrefixSkipsNmi \in BOOLEAN /\ TRUE \in BOOLEAN /\ iff1 \in BOOLEAN /\ iff2 \in BOOLEAN
  <2>1. Idle(2) \in CycleType /\ Cycle("memRead", "cbop", 0) \in CycleType
    BY CycleTypes, PlanCycleTypes
  <2>2. PCAfterCycle \in PCs
    BY LatchTypes
  <2>3. Addr(PCAfterCycle + 1) \in PCs
    <3> HIDE DEF PCAfterCycle
    <3> QED BY <2>2, PCTypes
  <2>4. PrefixSkipsNmi \in BOOLEAN /\ TRUE \in BOOLEAN /\ iff1 \in BOOLEAN /\ iff2 \in BOOLEAN
    BY DEF PrefixSkipsNmi, TypeOK
  <2> QED BY <2>1, <2>2, <2>3, <2>4
<1>2. Polled'
  <2>1. CASE dec.cbFetched
    <3>1. Poll(Idle(2), iff1, iff2, PCAfterCycle, PrefixSkipsNmi, TRUE, in)
      BY <2>1 DEF DdCb
    <3> QED BY <1>1, <3>1, PollKeeps, ZenonT(60)
  <2>2. CASE ~dec.cbFetched
    <3>1. Poll(Cycle("memRead", "cbop", 0), iff1, iff2, Addr(PCAfterCycle + 1),
               PrefixSkipsNmi, TRUE, in)
      BY <2>2 DEF DdCb
    <3> QED BY <1>1, <3>1, PollKeeps, ZenonT(60)
  <2> QED BY <2>1, <2>2
<1>3. /\ dec' = [dec EXCEPT !.hlReady = TRUE] \/ dec' = [dec EXCEPT !.cbFetched = TRUE]
      /\ op' = op /\ dec \in DecoderType
  BY DEF DdCb, TypeOK
<1>4. dec' \in DecoderType /\ dec'.step = dec.step /\ dec'.subset = dec.subset
  BY <1>3 DEF DecoderType
<1>5. elapsed' \in Nat /\ acked' \in BOOLEAN
  <2>1. elapsed \in Nat /\ TStates(cyc) \in Nat /\ acked \in BOOLEAN
    BY TStatesType DEF TypeOK, CycleType
  <2> QED BY <2>1 DEF DdCb, Elapsed, Acked
<1>6. instr' \in Bytes /\ op' \in Bytes /\ cbInstr' \in Bytes /\ taken' \in BOOLEAN /\ im' \in 0..2
  BY DEF DdCb, TypeOK
<1>7. dec'.step > 6 => Hole(dec'.subset, op')
  BY <1>3, <1>4 DEF TypeOK
<1>8. special' \in BOOLEAN /\ fault' \in BOOLEAN
  BY DEF TypeOK
<1> QED BY <1>2, <1>4, <1>5, <1>6, <1>7, <1>8, Assemble

(* start() on an opcode: the step counter begins at 0.                     *)
LEMMA BeginType ==
    ASSUME TypeOK, cyc.kind # NoCycle, UNCHANGED <<special, fault>>,
           NEW b \in Bytes, NEW in \in PinsType, Begin(b, in)
    PROVE  TypeOK'
<1> DEFINE o == IF InDdCb THEN cbInstr ELSE b
           d == [dec EXCEPT !.started = TRUE, !.step = 0]
<1>1. o \in Bytes /\ dec \in DecoderType
  BY DEF TypeOK
<1>2. d \in DecoderType /\ d.step = 0
  BY <1>1, DecoderFlags DEF DecoderType
<1>3. /\ IF nmiPend THEN instr' = b /\ UNCHANGED <<op, cbInstr>>
                    ELSE instr' = o /\ op' = o /\ cbInstr' = 0
      /\ \E tk \in Conditions(d, o) :
            NextStep(d, o, tk, PCAfterCycle, in) /\ taken' = (dec'.started /\ tk)
  BY DEF Begin
<1> HIDE DEF o, d
<1>4. PICK tk \in BOOLEAN :
         NextStep(d, o, tk, PCAfterCycle, in) /\ taken' = (dec'.started /\ tk)
  BY <1>3 DEF Conditions
<1>5. Taken(o)
  <2>1. ~(d.step > 6) /\ PCAfterCycle \in PCs
    BY <1>2, LatchTypes
  <2> QED BY <1>1, <1>2, <1>4, <2>1, NextStepKeeps
<1>6. instr' \in Bytes /\ op' \in Bytes /\ cbInstr' \in Bytes
  BY <1>1, <1>3, OpcodeTypes DEF TypeOK
<1>7. dec'.step > 6 => Hole(dec'.subset, op')
  BY <1>3, <1>5 DEF Taken
<1>8. taken' \in BOOLEAN
  BY <1>4, <1>5 DEF Taken, DecoderType
<1>9. special' \in BOOLEAN /\ fault' \in BOOLEAN
  BY DEF TypeOK
<1> QED BY <1>5, <1>6, <1>7, <1>8, <1>9, Assemble DEF Taken

(* next_step(): a HALT in regs.instr stands in no empty slot.              *)
LEMMA ContinueType ==
    ASSUME TypeOK, cyc.kind # NoCycle, UNCHANGED <<special, fault>>,
           NEW b \in Bytes, NEW in \in PinsType, Continue(b, in)
    PROVE  TypeOK'
<1> DEFINE o == IF dec.subset = "none" /\ X(op) = 1 /\ b = 118 THEN b ELSE op
<1>1. o \in Bytes /\ dec \in DecoderType /\ taken \in BOOLEAN /\ PCAfterCycle \in PCs
  BY LatchTypes DEF TypeOK
<1>2. dec.step > 6 => Hole(dec.subset, o)
  BY DEF TypeOK, Hole
<1>3. /\ instr' = b /\ UNCHANGED <<op, cbInstr>>
      /\ NextStep(dec, o, taken, PCAfterCycle, in) /\ taken' = (dec'.started /\ taken)
  BY DEF Continue
<1>4. \A s : Hole(s, o) => Hole(s, op)
  BY DEF Hole, X, Y, Z
<1> HIDE DEF o
<1>5. Taken(o)
  BY <1>1, <1>2, <1>3, NextStepKeeps
<1>6. instr' \in Bytes /\ op' \in Bytes /\ cbInstr' \in Bytes
  BY <1>3 DEF TypeOK
<1>7. dec'.step > 6 => Hole(dec'.subset, op')
  BY <1>3, <1>4, <1>5 DEF Taken
<1>8. taken' \in BOOLEAN
  BY <1>1, <1>3, <1>5 DEF Taken, DecoderType
<1>9. special' \in BOOLEAN /\ fault' \in BOOLEAN
  BY DEF TypeOK
<1> QED BY <1>5, <1>6, <1>7, <1>8, <1>9, Assemble DEF Taken

(* The call of clock() in which a cycle finishes.                          *)
LEMMA FinishType ==
    ASSUME TypeOK, FinishCycle
    PROVE  TypeOK'
<1>1. PICK in \in PinsSeen, b \in LatchedOpcodes, cb \in LatchedCbOpcodes : FinishWith(b, cb, in)
  BY DEF FinishCycle
<1>2. in \in PinsType /\ b \in Bytes /\ cb \in Bytes
  BY <1>1, LatchTypes
<1>3. cyc.kind # NoCycle /\ UNCHANGED <<special, fault>>
  BY <1>1 DEF FinishWith
<1>4. CASE Prefix(b, in)
  BY <1>2, <1>3, <1>4, PrefixType
<1>5. CASE DdCb(b, cb, in)
  BY <1>2, <1>3, <1>5, DdCbType
<1>6. CASE Begin(b, in)
  BY <1>2, <1>3, <1>6, BeginType
<1>7. CASE Continue(b, in)
  BY <1>2, <1>3, <1>7, ContinueType
<1> QED BY <1>1, <1>4, <1>5, <1>6, <1>7 DEF FinishWith

(* TypeOK gives the part of it that the polling writes.                    *)
LEMMA PolledType == TypeOK => Polled
BY DEF TypeOK, Polled, CycleType, SawInts

(* The exception of a cycle that has run out.                              *)
LEMMA ThrowType == TypeOK /\ Throw => TypeOK'
<1> SUFFICES ASSUME TypeOK, Throw PROVE TypeOK'
  OBVIOUS
<1>1. Polled'
  BY PolledType DEF Throw, Polled
<1>2. fault' \in BOOLEAN
  BY DEF Throw
<1> QED BY <1>1, <1>2, Assemble DEF Throw, TypeOK

(* trigger_nmi().                                                          *)
LEMMA TriggerType == TypeOK /\ TriggerNMI => TypeOK'
<1> SUFFICES ASSUME TypeOK, TriggerNMI PROVE TypeOK'
  OBVIOUS
<1>1. nmiff' \in BOOLEAN
  BY DEF TriggerNMI
<1>2. Polled'
  BY <1>1, PolledType DEF TriggerNMI, Polled
<1> QED BY <1>2, Assemble DEF TriggerNMI, TypeOK

(* RESET going low, whatever it cuts.                                      *)
LEMMA ResetLowType == TypeOK /\ ResetLow => TypeOK'
<1> SUFFICES ASSUME TypeOK, ResetLow PROVE TypeOK'
  OBVIOUS
<1>1. cyc' \in CycleType
  BY CycleTypes DEF ResetLow
<1>2. cbInstr' \in Bytes
  BY LatchTypes DEF ResetLow, TypeOK
<1>3. special' \in BOOLEAN
  BY DEF ResetLow
<1>4. Polled'
  BY <1>1, PolledType DEF ResetLow, Polled
<1> QED BY <1>2, <1>3, <1>4, Assemble DEF ResetLow, TypeOK

(* RESET going high.                                                       *)
LEMMA ResetExitType == TypeOK /\ ResetExit => TypeOK'
<1> SUFFICES ASSUME TypeOK, ResetExit PROVE TypeOK'
  OBVIOUS
<1>1. cyc' \in CycleType
  BY CycleTypes DEF ResetExit
<1>2. pc' \in PCs /\ resume' \in PCs /\ elapsed' \in Nat
  BY PCModAssumption DEF ResetExit, PCs
<1>3. acked' \in BOOLEAN /\ special' \in BOOLEAN /\ nmiPend' \in BOOLEAN /\ intPend' \in BOOLEAN
  BY DEF ResetExit
<1>4. saved' \in SawInts
  BY DEF ResetExit, SawInts
<1>5. iff1' \in BOOLEAN /\ iff2' \in BOOLEAN
  BY DEF ResetExit, TypeOK
<1>6. instr' \in Bytes /\ im' \in 0..2
  BY OpcodeTypes DEF ResetExit, TypeOK
<1>7. taken' \in BOOLEAN
  BY DEF ResetExit, TypeOK
<1>8. Polled'
  BY <1>1, <1>2, <1>3, <1>4, <1>5, PolledType DEF ResetExit, Polled
<1> QED BY <1>2, <1>3, <1>6, <1>7, <1>8, Assemble DEF ResetExit, TypeOK

(* Nothing happens.                                                        *)
LEMMA StutterType == TypeOK /\ UNCHANGED vars => TypeOK'
<1> SUFFICES ASSUME TypeOK, UNCHANGED vars PROVE TypeOK'
  OBVIOUS
<1>1. Polled'
  BY PolledType DEF vars, Polled
<1> QED BY <1>1, Assemble DEF vars, TypeOK

(* Every step keeps TypeOK, which is inductive as it stands: the bound on  *)
(* the steps comes from the plans, and the empty slots are exempt from it. *)
LEMMA TypeStep == TypeOK /\ [Next]_vars => TypeOK'
BY FinishType, ThrowType, TriggerType, ResetLowType, ResetExitType, StutterType DEF Next

(* Every variable keeps to its range in every run, whatever bytes memory   *)
(* holds and wherever RESET cuts an instruction: PC wraps around, and no   *)
(* instruction but an empty slot runs past the steps of its executor.      *)
THEOREM ControlTypeCorrect == Spec => []TypeOK
<1>1. Init => TypeOK
  BY InitType
<1>2. TypeOK /\ [Next]_vars => TypeOK'
  BY TypeStep
<1> QED BY <1>1, <1>2, PTL DEF Spec

-----------------------------------------------------------------------------
(* A call that starts a further cycle, or holds both interrupts off,       *)
(* accepts none.                                                           *)
Quiet == ~NmiAccepted /\ ~IntAccepted

(* Both skip flags set, clock() stages the cycle start() asked for.        *)
LEMMA SkippedQuiet ==
    ASSUME NEW c, NEW i1, NEW i2, NEW p, NEW in, c.kind # "intack",
           Poll(c, i1, i2, p, TRUE, TRUE, in)
    PROVE  Quiet /\ cyc' = c
BY DEF Poll, AcceptNMI, AcceptINT, NoInterrupt, PollsNmi, PollsInt, PendingAfter, Quiet,
       NmiAccepted, IntAccepted

(* A step that starts a further cycle polls nothing.                       *)
LEMMA StayQuiet ==
    ASSUME NEW c, NEW d, NEW i1, NEW p, c.kind # "intack" \/ c.kind = cyc.kind,
           Stay(c, d, i1, p)
    PROVE  Quiet
BY DEF Stay, Quiet, NmiAccepted, IntAccepted

(* A call that ends an instruction accepts at most one, INT only with the  *)
(* flip-flop set and nothing to hold it off.                               *)
LEMMA EndAccepts ==
    ASSUME NEW d, NEW hlt \in BOOLEAN, NEW i1 \in BOOLEAN, NEW i2, NEW p,
           NEW skipI \in BOOLEAN, NEW in, End(d, hlt, i1, i2, p, skipI, in)
    PROVE  /\ dec' = IdleDecoder /\ ~(NmiAccepted /\ IntAccepted)
           /\ IntAccepted => i1 /\ ~skipI
<1>1. Fetch(hlt).kind = "fetch"
  BY CycleTypes
<1>2. dec' = IdleDecoder /\ Poll(Fetch(hlt), i1, i2, p, nmiSkip, skipI, in)
  BY DEF End, ResetDecoder
<1>3. CASE AcceptNMI(Fetch(hlt), i1, i2, p, nmiSkip, skipI)
  BY <1>1, <1>2, <1>3 DEF AcceptNMI, IntAccepted
<1>4. CASE AcceptINT(Fetch(hlt), i1, i2, p, nmiSkip, skipI, in)
  BY <1>1, <1>2, <1>4 DEF AcceptINT, PollsInt, PendingAfter, NmiAccepted
<1>5. CASE NoInterrupt(Fetch(hlt), i1, i2, p, nmiSkip, skipI, in)
  BY <1>1, <1>2, <1>5 DEF NoInterrupt, IntAccepted
<1> QED BY <1>2, <1>3, <1>4, <1>5 DEF Poll

(* What next_step() accepts when it runs for decoder state d and opcode o. *)
Inside    == (NmiAccepted \/ IntAccepted) /\ ~(dec' = IdleDecoder /\ ~(NmiAccepted /\ IntAccepted))
BehindEI(d, o) == IsEI(d.subset, o) /\ ~nmiPend /\ ~intPend
Accepts(d, o)  == ~Inside /\ (IntAccepted => iff1 /\ ~BehindEI(d, o))

(* A call that accepts nothing breaks neither rule.                        *)
LEMMA QuietAccepts == ASSUME NEW d, NEW o, Quiet PROVE Accepts(d, o)
BY DEF Quiet, Accepts, Inside

(* The response to an NMI may be followed by INT, not cut by it.           *)
LEMMA NmiAccepts ==
    ASSUME TypeOK, nmiPend, NEW d \in DecoderType, NEW o, NEW p, NEW in, NmiStep(d, p, in)
    PROVE  Accepts(d, o)
<1>1. Idle(1).kind # "intack" /\ Push.kind # "intack"
  BY DEF Idle, Push, Cycle
<1>2. iff1 \in BOOLEAN /\ intSkip \in BOOLEAN /\ FALSE \in BOOLEAN
  BY DEF TypeOK
<1>3. CASE End(d, FALSE, iff1, iff2, NmiVector, intSkip, in)
  BY <1>2, <1>3, EndAccepts DEF Accepts, Inside, BehindEI
<1>4. ASSUME NEW c \in {Idle(1), Push}, NEW q, Stay(c, Stepped(d), iff1, q)
      PROVE  Accepts(d, o)
  BY <1>1, <1>4, StayQuiet, QuietAccepts
<1> QED BY <1>3, <1>4 DEF NmiStep

(* The response to INT likewise.                                           *)
LEMMA IntAccepts ==
    ASSUME TypeOK, intPend, NEW d \in DecoderType, NEW o, NEW p, NEW in, IntStep(d, p, in)
    PROVE  Accepts(d, o)
<1>1. Idle(1).kind # "intack" /\ Push.kind # "intack" /\ Read.kind # "intack"
  BY DEF Idle, Push, Read, Cycle
<1>2. iff1 \in BOOLEAN /\ intSkip \in BOOLEAN /\ FALSE \in BOOLEAN
  BY DEF TypeOK
<1>3. ASSUME NEW q, End(d, FALSE, iff1, iff2, q, intSkip, in)
      PROVE  Accepts(d, o)
  BY <1>2, <1>3, EndAccepts DEF Accepts, Inside, BehindEI
<1>4. ASSUME NEW c \in {Idle(1), Push, Read}, Stay(c, Stepped(d), iff1, p)
      PROVE  Accepts(d, o)
  BY <1>1, <1>4, StayQuiet, QuietAccepts
<1> QED BY <1>3, <1>4 DEF IntStep

(* An instruction: only its last step polls, and EI holds INT off there.   *)
LEMMA ExecAccepts ==
    ASSUME TypeOK, NEW d \in DecoderType, NEW o, NEW tk, NEW p, NEW in, ExecStep(d, o, tk, p, in)
    PROVE  Accepts(d, o)
<1> DEFINE plan == Plan(d.subset, d.mod, o, tk)
<1>1. iff1 \in BOOLEAN /\ intSkip \in BOOLEAN /\ cyc \in CycleType
  BY DEF TypeOK, CycleType
<1>2. CASE ReadDisplacement(d, p)
  <2>1. Cycle("memRead", "d", 0).kind # "intack"
    BY DEF Cycle
  <2> QED BY <1>2, <2>1, StayQuiet, QuietAccepts DEF ReadDisplacement
<1>3. CASE CalculatePtr(d, o, p)
  <2>1. \A n : Idle(n).kind # "intack"
    BY DEF Idle, Cycle
  <2> QED BY <1>3, <2>1, StayQuiet, QuietAccepts DEF CalculatePtr
<1>4. CASE d.step < Len(plan) /\ StartCycle(d, o, plan[d.step + 1], p)
  <2>1. plan \in Seq(PlanCycles) /\ d.step \in Nat /\ Len(plan) \in Nat
    <3>1. plan \in Plans
      BY PlanType
    <3> HIDE DEF plan
    <3> QED BY <3>1, DecoderTypes DEF Plans
  <2> HIDE DEF plan
  <2>2. plan[d.step + 1] \in PlanCycles
    BY <1>4, <2>1
  <2>3. plan[d.step + 1].kind # "intack"
    BY <2>2 DEF PlanCycles
  <2> QED BY <1>4, <2>3, StayQuiet, QuietAccepts DEF StartCycle
<1>5. CASE StartNothing(d, p)
  <2>1. [cyc EXCEPT !.use = "expired"].kind = cyc.kind
    BY <1>1 DEF CycleType
  <2> QED BY <1>5, <2>1, StayQuiet, QuietAccepts DEF StartNothing
<1>6. CASE EndInstruction(d, o, tk, p, in)
  <2>1. /\ IsHALT(d.subset, d.mod, o) \in BOOLEAN /\ IFFAtEnd(d, o, iff1) \in BOOLEAN
        /\ (intSkip \/ EIShadow(d, o)) \in BOOLEAN
    BY <1>1 DEF IFFAtEnd, EIShadow, IsEI, IsDI, IsHALT
  <2>2. PICK q : End(d, IsHALT(d.subset, d.mod, o), IFFAtEnd(d, o, iff1),
                     IFFAtEnd(d, o, iff2), q, intSkip \/ EIShadow(d, o), in)
    BY <1>6 DEF EndInstruction
  <2>3. /\ dec' = IdleDecoder /\ ~(NmiAccepted /\ IntAccepted)
        /\ IntAccepted => IFFAtEnd(d, o, iff1) /\ ~(intSkip \/ EIShadow(d, o))
    BY <2>1, <2>2, EndAccepts
  <2> QED BY <2>3 DEF Accepts, Inside, BehindEI, IFFAtEnd, EIShadow
<1> QED BY <1>2, <1>3, <1>4, <1>5, <1>6 DEF ExecStep

(* next_step() as a whole.                                                 *)
LEMMA NextStepAccepts ==
    ASSUME TypeOK, NEW d \in DecoderType, NEW o, NEW tk, NEW p, NEW in,
           NextStep(d, o, tk, p, in)
    PROVE  Accepts(d, o)
BY NmiAccepts, IntAccepts, ExecAccepts DEF NextStep

(* The call of clock() in which a cycle finishes: the opcode that ends is  *)
(* the one decoded, or decoded in this very call.                          *)
LEMMA FinishAccepts ==
    ASSUME TypeOK, FinishCycle
    PROVE  Accepts(dec, OpcodeEnding)
<1>1. PICK in \in PinsSeen, b \in LatchedOpcodes, cb \in LatchedCbOpcodes : FinishWith(b, cb, in)
  BY DEF FinishCycle
<1>2. dec \in DecoderType
  BY DEF TypeOK
<1>3. CASE Prefix(b, in)
  <2>1. PICK c \in {Cycle("memRead", "d", 0), Fetch(FALSE)},
                p \in {PCAfterCycle, Addr(PCAfterCycle + 1)} :
           Poll(c, iff1, iff2, p, TRUE, TRUE, in)
    BY <1>3 DEF Prefix, PrefixSkipsNmi
  <2>2. c.kind # "intack"
    BY DEF Cycle, Fetch
  <2> QED BY <2>1, <2>2, SkippedQuiet, QuietAccepts
<1>4. CASE DdCb(b, cb, in)
  <2>1. Idle(2).kind # "intack" /\ Cycle("memRead", "cbop", 0).kind # "intack"
    BY DEF Cycle, Idle
  <2>2. \/ Poll(Idle(2), iff1, iff2, PCAfterCycle, TRUE, TRUE, in)
        \/ Poll(Cycle("memRead", "cbop", 0), iff1, iff2, Addr(PCAfterCycle + 1), TRUE, TRUE, in)
    BY <1>4 DEF DdCb, PrefixSkipsNmi
  <2> QED BY <2>1, <2>2, SkippedQuiet, QuietAccepts
<1>5. CASE Begin(b, in)
  <2> DEFINE o == IF InDdCb THEN cbInstr ELSE b
             d == [dec EXCEPT !.started = TRUE, !.step = 0]
  <2>1. d \in DecoderType /\ d.subset = dec.subset
    BY <1>2, DecoderFlags DEF DecoderType
  <2>2. /\ ~dec.started /\ (~nmiPend => instr' = o)
        /\ \E tk \in Conditions(d, o) : NextStep(d, o, tk, PCAfterCycle, in)
    BY <1>5 DEF Begin
  <2> HIDE DEF o, d
  <2>3. Accepts(d, o)
    BY <2>1, <2>2, NextStepAccepts
  <2>4. ~nmiPend => OpcodeEnding = o
    BY <2>2 DEF OpcodeEnding
  <2> QED BY <2>1, <2>3, <2>4 DEF Accepts, BehindEI
<1>6. CASE Continue(b, in)
  <2> DEFINE o == IF dec.subset = "none" /\ X(op) = 1 /\ b = 118 THEN b ELSE op
  <2>1. dec.started /\ NextStep(dec, o, taken, PCAfterCycle, in)
    BY <1>6 DEF Continue
  <2>2. IsEI(dec.subset, op) => IsEI(dec.subset, o)
    BY DEF IsEI, X
  <2> HIDE DEF o
  <2>3. Accepts(dec, o) /\ OpcodeEnding = op
    BY <1>2, <2>1, NextStepAccepts DEF OpcodeEnding
  <2> QED BY <2>2, <2>3 DEF Accepts, BehindEI
<1> QED BY <1>1, <1>3, <1>4, <1>5, <1>6 DEF FinishWith

(* Every step; RESET and trigger_nmi() accept nothing.                     *)
LEMMA StepAccepts == TypeOK /\ [Next]_vars => Accepts(dec, OpcodeEnding)
<1> SUFFICES ASSUME TypeOK, [Next]_vars PROVE Accepts(dec, OpcodeEnding)
  OBVIOUS
<1>1. CASE FinishCycle
  BY <1>1, FinishAccepts
<1>2. CASE Throw \/ TriggerNMI \/ UNCHANGED vars
  <2>1. Quiet
    BY <1>2 DEF Throw, TriggerNMI, vars, Quiet, NmiAccepted, IntAccepted
  <2> QED BY <2>1, QuietAccepts
<1>3. CASE ResetLow \/ ResetExit
  <2>1. cyc'.kind # "intack" /\ (nmiPend' = nmiPend \/ nmiPend' = FALSE)
    BY <1>3, CycleTypes DEF ResetLow, ResetExit, NoCycle
  <2>2. Quiet
    BY <2>1 DEF Quiet, NmiAccepted, IntAccepted
  <2> QED BY <2>2, QuietAccepts
<1> QED BY <1>1, <1>2, <1>3 DEF Next

(* In every run an interrupt is accepted between two instructions only,    *)
(* never behind a prefix or between the steps of another response, and     *)
(* never two at once (z80emu.cpp:53-85).                                   *)
THEOREM InterruptsBetweenInstructions == Spec => NoInterruptInside
<1>1. TypeOK /\ [Next]_vars
        => (NmiAccepted \/ IntAccepted
              => dec' = IdleDecoder /\ ~(NmiAccepted /\ IntAccepted))
  BY StepAccepts DEF Accepts, Inside
<1> QED BY <1>1, ControlTypeCorrect, PTL DEF Spec, NoInterruptInside

(* In every run INT is accepted only with IFF1 set before the call, and    *)
(* never in the call that ends EI (z80emu.cpp:66, instr_main_q3.cpp:261).  *)
THEOREM EIDefersIntAlways == Spec => EIDefersINT
<1>1. TypeOK /\ [Next]_vars
        => (IntAccepted
              => iff1 /\ ~(IsEI(dec.subset, OpcodeEnding) /\ ~nmiPend /\ ~intPend))
  BY StepAccepts DEF Accepts, BehindEI
<1> QED BY <1>1, ControlTypeCorrect, PTL DEF Spec, EIDefersINT

-----------------------------------------------------------------------------
(* FetchStartsDecode strengthened: RESET finds and leaves an idle decoder. *)
Awaiting == cyc.kind \in {"fetch", "intack", NoCycle} /\ cyc.use # "expired"
IdleWhenAwaiting == Awaiting => ~dec.started

(* A further cycle is no fetch and no acknowledge.                         *)
LEMMA StayAwaits ==
    ASSUME NEW c, NEW d, NEW i1, NEW p, Stay(c, d, i1, p),
           c \in PlanCycles \/ c.use = "expired"
    PROVE  IdleWhenAwaiting'
BY DEF Stay, IdleWhenAwaiting, Awaiting, PlanCycles, Kinds, NoCycle

(* reset() leaves an idle decoder to the fetch it stages.                  *)
LEMMA EndAwaits ==
    ASSUME NEW d, NEW hlt, NEW i1, NEW i2, NEW p, NEW skipI, NEW in,
           End(d, hlt, i1, i2, p, skipI, in)
    PROVE  IdleWhenAwaiting'
BY DEF End, ResetDecoder, IdleDecoder, IdleWhenAwaiting

(* next_step() as a whole.                                                 *)
LEMMA NextStepAwaits ==
    ASSUME TypeOK, NEW d \in DecoderType, NEW o, NEW tk, NEW p, NEW in,
           NextStep(d, o, tk, p, in)
    PROVE  IdleWhenAwaiting'
<1> DEFINE plan == Plan(d.subset, d.mod, o, tk)
<1>0. Idle(1) \in PlanCycles /\ Push \in PlanCycles /\ Read \in PlanCycles
  BY PlanCycleTypes
<1>1. CASE NmiStep(d, p, in)
  BY <1>0, <1>1, StayAwaits, EndAwaits DEF NmiStep
<1>2. CASE IntStep(d, p, in)
  BY <1>0, <1>2, StayAwaits, EndAwaits DEF IntStep
<1>3. CASE ReadDisplacement(d, p)
  <2>1. Cycle("memRead", "d", 0) \in PlanCycles
    BY PlanCycleTypes
  <2> QED BY <1>3, <2>1, StayAwaits DEF ReadDisplacement
<1>4. CASE CalculatePtr(d, o, p)
  <2>1. PICK c \in {Idle(2), Idle(5)} : Stay(c, [d EXCEPT !.hlReady = TRUE], iff1, p)
    BY <1>4 DEF CalculatePtr
  <2>2. c \in PlanCycles
    BY PlanCycleTypes
  <2> QED BY <2>1, <2>2, StayAwaits
<1>5. CASE d.step < Len(plan) /\ StartCycle(d, o, plan[d.step + 1], p)
  <2>1. plan \in Seq(PlanCycles) /\ d.step \in Nat /\ Len(plan) \in Nat
    <3>1. plan \in Plans
      BY PlanType
    <3> HIDE DEF plan
    <3> QED BY <3>1, DecoderTypes DEF Plans
  <2> HIDE DEF plan
  <2>2. plan[d.step + 1] \in PlanCycles
    BY <1>5, <2>1
  <2> QED BY <1>5, <2>2, StayAwaits DEF StartCycle
<1>6. CASE StartNothing(d, p)
  <2>1. [cyc EXCEPT !.use = "expired"].use = "expired"
    BY DEF TypeOK
  <2> QED BY <1>6, <2>1, StayAwaits DEF StartNothing
<1>7. CASE EndInstruction(d, o, tk, p, in)
  BY <1>7, EndAwaits DEF EndInstruction
<1> QED BY <1>1, <1>2, <1>3, <1>4, <1>5, <1>6, <1>7 DEF NextStep, ExecStep

(* The call of clock() in which a cycle finishes: start() leaves _started  *)
(* as it is on a prefix.                                                   *)
LEMMA FinishAwaits ==
    ASSUME TypeOK, FinishCycle
    PROVE  IdleWhenAwaiting'
<1>1. PICK in \in PinsSeen, b \in LatchedOpcodes, cb \in LatchedCbOpcodes : FinishWith(b, cb, in)
  BY DEF FinishCycle
<1>2. dec \in DecoderType
  BY DEF TypeOK
<1>3. CASE Prefix(b, in)
  <2>1. ~dec.started /\ dec' = Prefixed(b)
    BY <1>3 DEF Prefix, AtPrefix
  <2>2. ~dec'.started
    BY <1>2, <2>1 DEF Prefixed, DecoderType
  <2> QED BY <2>2 DEF IdleWhenAwaiting
<1>4. CASE DdCb(b, cb, in)
  <2>1. /\ ~dec.started
        /\ dec' = [dec EXCEPT !.hlReady = TRUE] \/ dec' = [dec EXCEPT !.cbFetched = TRUE]
    BY <1>4 DEF DdCb, AtDdCb
  <2>2. ~dec'.started
    BY <1>2, <2>1 DEF DecoderType
  <2> QED BY <2>2 DEF IdleWhenAwaiting
<1>5. CASE Begin(b, in)
  <2> DEFINE o == IF InDdCb THEN cbInstr ELSE b
             d == [dec EXCEPT !.started = TRUE, !.step = 0]
  <2>1. \E tk \in Conditions(d, o) : NextStep(d, o, tk, PCAfterCycle, in)
    BY <1>5 DEF Begin
  <2>2. d \in DecoderType
    BY <1>2, DecoderFlags
  <2> HIDE DEF o, d
  <2> QED BY <2>1, <2>2, NextStepAwaits
<1>6. CASE Continue(b, in)
  BY <1>2, <1>6, NextStepAwaits DEF Continue
<1> QED BY <1>1, <1>3, <1>4, <1>5, <1>6 DEF FinishWith

(* Every step, as long as RESET cuts no instruction.                       *)
LEMMA StepAwaits ==
    ~CutAnywhere /\ TypeOK /\ IdleWhenAwaiting /\ [Next]_vars => IdleWhenAwaiting'
<1> SUFFICES ASSUME ~CutAnywhere, TypeOK, IdleWhenAwaiting, [Next]_vars
             PROVE  IdleWhenAwaiting'
  OBVIOUS
<1>1. CASE FinishCycle
  BY <1>1, FinishAwaits
<1>2. CASE Throw \/ TriggerNMI \/ UNCHANGED vars
  BY <1>2 DEF Throw, TriggerNMI, vars, IdleWhenAwaiting, Awaiting
<1>3. CASE ResetLow
  BY <1>3 DEF ResetLow, IdleDecoder, IdleWhenAwaiting
<1>4. CASE ResetExit
  BY <1>4 DEF ResetExit, InReset, Cycle, IdleWhenAwaiting, Awaiting
<1> QED BY <1>1, <1>2, <1>3, <1>4 DEF Next

(* As long as RESET never cuts an instruction, every fetched opcode and    *)
(* every acknowledge meets a decoder that has not started.  The condition  *)
(* is needed: with CutAnywhere the property fails (see the run that        *)
(* expects it to).                                                         *)
THEOREM FetchDecodesUnlessCut == ASSUME ~CutAnywhere PROVE Spec => []FetchStartsDecode
<1>1. Init => IdleWhenAwaiting
  BY DEF Init, IdleDecoder, IdleWhenAwaiting
<1>2. TypeOK /\ IdleWhenAwaiting /\ [Next]_vars => IdleWhenAwaiting'
  BY StepAwaits
<1>3. IdleWhenAwaiting => FetchStartsDecode
  BY DEF IdleWhenAwaiting, Awaiting, FetchStartsDecode
<1> QED BY <1>1, <1>2, <1>3, ControlTypeCorrect, PTL DEF Spec

-----------------------------------------------------------------------------
(* What kind of cycle each of those a plan is written with is.             *)
KindOf ==
    /\ Imm.kind = "memRead" /\ Read.kind = "memRead" /\ Pop.kind = "memRead"
    /\ Write.kind = "memWrite" /\ Push.kind = "memWrite"
    /\ In.kind = "ioRead" /\ Out.kind = "ioWrite"
    /\ Jump.kind = "bogus" /\ Rewind.kind = "bogus" /\ \A n : Idle(n).kind = "bogus"

(* As Z80Decode defines them.                                              *)
LEMMA KindsOfCycles == KindOf
BY DEF KindOf, Imm, Read, Pop, Write, Push, In, Out, Jump, Rewind, Idle, Cycle

(* Cycles that may stand next to each other in any order.                  *)
Memory == {"memRead", "memWrite", "bogus"}

(* What Follows allows, as far as the decoder makes use of it.             *)
LEMMA FollowsMemory ==
    /\ \A k \in Kinds : Follows["memRead"] = Kinds /\ Follows["fetch"] = Kinds
    /\ \A k, l \in Memory : l \in Follows[k]
    /\ "ioRead" \in Follows["bogus"] /\ "memWrite" \in Follows["ioRead"]
    /\ "bogus" \in Follows["ioWrite"] /\ "ioWrite" \in Follows["memRead"]
    /\ \A k \in Kinds : "fetch" \in Follows[k] /\ (k # "intack" => "intack" \in Follows[k])
    /\ \A k \in {"memRead", "memWrite", "bogus", "fetch"} : k \in Follows["intack"]
BY DEF Follows, Kinds, Memory

(* A plan of such cycles only, and one whose cycles follow each other as   *)
(* Follows allows.                                                         *)
InMemory(p) == \A i \in 1..Len(p) : p[i].kind \in Memory
WellOrdered(p) == \A i \in 1..Len(p) - 1 : p[i + 1].kind \in Follows[p[i].kind]

(* The first implies the second.                                           *)
LEMMA InMemoryOrdered == \A p \in Plans : InMemory(p) => WellOrdered(p)
BY FollowsMemory DEF InMemory, WellOrdered, Plans

(* LD A,(nn) and its kin.                                                  *)
LEMMA ReadOrWriteMemory == \A y : ReadOrWrite(y).kind \in Memory
BY KindsOfCycles DEF ReadOrWrite, KindOf, Memory

(* The plans without input and output: quadrant 0.                         *)
LEMMA Q0Memory == \A y, z, tk : InMemory(PlanQ0(y, z, tk))
BY KindsOfCycles, ReadOrWriteMemory DEF PlanQ0, When, KindOf, InMemory, Memory

(* The loads, and HALT.                                                    *)
LEMMA Q1Memory == \A y, z : InMemory(PlanQ1(y, z))
BY KindsOfCycles DEF PlanQ1, When, KindOf, InMemory, Memory

(* The eight operations.                                                   *)
LEMMA Q2Memory == \A z : InMemory(PlanQ2(z))
BY KindsOfCycles DEF PlanQ2, When, KindOf, InMemory, Memory

(* The CB table, displaced or not.                                         *)
LEMMA CBMemory == \A mod, x, z : InMemory(PlanCB(mod, x, z))
BY KindsOfCycles DEF PlanCB, When, KindOf, InMemory, Memory

(* Quadrant 3, but for OUT (n),A and IN A,(n).                             *)
LEMMA Q3Memory ==
    \A y, z, tk : \/ PlanQ3(y, z, tk) \in {<<Imm, Out>>, <<Imm, In>>}
                  \/ InMemory(PlanQ3(y, z, tk))
<1>1. \A tk : InMemory(<<Idle(1)>> \o When(tk, <<Pop, Pop>>))
  BY KindsOfCycles DEF When, KindOf, InMemory, Memory
<1>2. \A tk : InMemory(<<Imm, Imm>> \o When(tk, <<Idle(1), Push, Push>>))
  BY KindsOfCycles DEF When, KindOf, InMemory, Memory
<1>3. InMemory(<<Read, Read, Idle(1), Write, Write, Idle(2)>>)
  BY KindsOfCycles DEF KindOf, InMemory, Memory
<1>4. InMemory(<<Imm, Imm, Idle(1), Push, Push>>) /\ InMemory(<<Idle(1), Push, Push>>)
  BY KindsOfCycles DEF KindOf, InMemory, Memory
<1>5. InMemory(<<Pop, Pop>>) /\ InMemory(<<Idle(2)>>) /\ InMemory(<<Imm, Imm>>)
        /\ InMemory(<<Imm>>) /\ InMemory(<<>>)
  BY KindsOfCycles DEF KindOf, InMemory, Memory
<1> QED BY <1>1, <1>2, <1>3, <1>4, <1>5 DEF PlanQ3

(* The ED table, main part, but for IN r,(C) and OUT (C),r.                *)
LEMMA ED1Memory ==
    \A y, z : PlanED1(y, z) \in {<<In>>, <<Out>>} \/ InMemory(PlanED1(y, z))
<1>1. \A y : InMemory(<<Imm, Imm, ReadOrWrite(y), ReadOrWrite(y)>>)
  BY KindsOfCycles, ReadOrWriteMemory DEF KindOf, InMemory, Memory
<1>2. InMemory(<<Pop, Pop>>) /\ InMemory(<<Idle(7)>>) /\ InMemory(<<Idle(1)>>)
        /\ InMemory(<<Read, Idle(4), Write>>) /\ InMemory(<<>>)
  BY KindsOfCycles DEF KindOf, InMemory, Memory
<1> QED BY <1>1, <1>2 DEF PlanED1

(* Three cycles in order, and perhaps a fourth behind them.                *)
LEMMA ThreeOrdered ==
    ASSUME NEW a, NEW b, NEW c, NEW e, NEW tk,
           b.kind \in Follows[a.kind], c.kind \in Follows[b.kind], e.kind \in Follows[c.kind]
    PROVE  WellOrdered(<<a, b, c>> \o When(tk, <<e>>))
<1>1. CASE tk
  <2> DEFINE p == <<a, b, c>> \o <<e>>
  <2>1. Len(p) = 4 /\ p[1] = a /\ p[2] = b /\ p[3] = c /\ p[4] = e
    OBVIOUS
  <2> HIDE DEF p
  <2>2. \A i \in 1..Len(p) - 1 : i \in {1, 2, 3}
    BY <2>1
  <2>3. WellOrdered(p)
    BY <2>1, <2>2 DEF WellOrdered
  <2> QED BY <1>1, <2>3 DEF When, p
<1>2. CASE ~tk
  <2> DEFINE p == <<a, b, c>> \o <<>>
  <2>1. Len(p) = 3 /\ p[1] = a /\ p[2] = b /\ p[3] = c
    OBVIOUS
  <2> HIDE DEF p
  <2>2. \A i \in 1..Len(p) - 1 : i \in {1, 2}
    BY <2>1
  <2>3. WellOrdered(p)
    BY <2>1, <2>2 DEF WellOrdered
  <2> QED BY <1>2, <2>3 DEF When, p
<1> QED BY <1>1, <1>2

(* The block instructions: an input is followed by a write, an output by   *)
(* PC being rewound.                                                       *)
LEMMA ED2Ordered == \A y, z, tk : WellOrdered(PlanED2(y, z, tk))
<1> SUFFICES ASSUME NEW y, NEW z, NEW tk
             PROVE  WellOrdered(PlanED2(y, z, tk))
  OBVIOUS
<1> DEFINE again == When(y \in 6..7 /\ tk, <<Rewind>>)
<1>1. InMemory(<<Read, Write, Idle(2)>> \o again) /\ InMemory(<<Read, Idle(5)>> \o again)
        /\ InMemory(<<>>)
  BY KindsOfCycles DEF When, KindOf, InMemory, Memory
<1>6. /\ <<Read, Write, Idle(2)>> \o again \in Plans /\ <<Read, Idle(5)>> \o again \in Plans
      /\ <<>> \in Plans
  BY PlanCycleTypes DEF When, Plans
<1>2. WellOrdered(<<Idle(1), In, Write>> \o again)
  BY KindsOfCycles, FollowsMemory, ThreeOrdered DEF KindOf, Memory
<1>3. WellOrdered(<<Idle(1), Read, Out>> \o again)
  BY KindsOfCycles, FollowsMemory, ThreeOrdered DEF KindOf, Memory
<1>4. \A p \in {<<Read, Write, Idle(2)>> \o again, <<Read, Idle(5)>> \o again, <<>>} :
         WellOrdered(p)
  BY <1>1, <1>6, InMemoryOrdered
<1> HIDE DEF again
<1>5. PlanED2(y, z, tk) \in {<<>>, <<Read, Write, Idle(2)>> \o again, <<Read, Idle(5)>> \o again,
                             <<Idle(1), In, Write>> \o again, <<Idle(1), Read, Out>> \o again}
  BY DEF PlanED2, again
<1> QED BY <1>2, <1>3, <1>4, <1>5

(* The four other plans with input and output.                             *)
LEMMA InputOutput ==
    \A p \in {<<Imm, Out>>, <<Imm, In>>, <<In>>, <<Out>>} : WellOrdered(p)
<1>1. WellOrdered(<<Imm, Out>>) /\ WellOrdered(<<Imm, In>>)
  <2>1. ASSUME NEW a, NEW b, b.kind \in Follows[a.kind] PROVE WellOrdered(<<a, b>>)
    <3>1. \A i \in 1..1 : i = 1
      OBVIOUS
    <3> QED BY <2>1, <3>1 DEF WellOrdered
  <2>2. Out.kind \in Follows[Imm.kind] /\ In.kind \in Follows[Imm.kind]
    BY KindsOfCycles, FollowsMemory DEF KindOf, Kinds
  <2> QED BY <2>1, <2>2
<1>2. WellOrdered(<<In>>) /\ WellOrdered(<<Out>>)
  BY DEF WellOrdered
<1> QED BY <1>1, <1>2

(* Along every plan the cycles are in the order Z80Bus assumes.            *)
LEMMA PlanOrder == \A subset, mod, o, tk : WellOrdered(Plan(subset, mod, o, tk))
<1> SUFFICES ASSUME NEW subset, NEW mod, NEW o, NEW tk
             PROVE  WellOrdered(Plan(subset, mod, o, tk))
  OBVIOUS
<1>0. Plan(subset, mod, o, tk) \in Plans
  BY PlanType
<1>1. \/ Plan(subset, mod, o, tk) \in {<<Imm, Out>>, <<Imm, In>>, <<In>>, <<Out>>}
      \/ InMemory(Plan(subset, mod, o, tk)) \/ WellOrdered(Plan(subset, mod, o, tk))
  <2>1. InMemory(<<>>)
    BY DEF InMemory
  <2> QED BY <2>1, Q0Memory, Q1Memory, Q2Memory, Q3Memory, CBMemory, ED1Memory, ED2Ordered DEF Plan
<1> QED BY <1>0, <1>1, InputOutput, InMemoryOrdered

(* No plan but one of the ED table begins with input or output: what       *)
(* Follows allows behind an acknowledge and behind the pause of DDCB.      *)
LEMMA PlanBegins ==
    \A subset, mod, o, tk :
       subset # "ED" /\ Len(Plan(subset, mod, o, tk)) > 0
          => Plan(subset, mod, o, tk)[1].kind \in Memory
<1> SUFFICES ASSUME NEW subset, NEW mod, NEW o, NEW tk, subset # "ED",
                    Len(Plan(subset, mod, o, tk)) > 0
             PROVE  Plan(subset, mod, o, tk)[1].kind \in Memory
  OBVIOUS
<1>0. Plan(subset, mod, o, tk) \in Plans
  BY PlanType
<1>1. Plan(subset, mod, o, tk) \in {<<Imm, Out>>, <<Imm, In>>} \/ InMemory(Plan(subset, mod, o, tk))
  BY Q0Memory, Q1Memory, Q2Memory, Q3Memory, CBMemory DEF Plan
<1>2. <<Imm, Out>>[1].kind \in Memory /\ <<Imm, In>>[1].kind \in Memory
  BY KindsOfCycles DEF KindOf, Memory
<1>3. InMemory(Plan(subset, mod, o, tk)) => Plan(subset, mod, o, tk)[1].kind \in Memory
  BY <1>0 DEF InMemory, Plans
<1> QED BY <1>1, <1>2, <1>3

(* Nor does an instruction whose pointer is calculated first do any.       *)
LEMMA PtrPlans ==
    \A mod, o, tk : UsesPtr(o) => InMemory(Plan("none", mod, o, tk))
<1>1. \A mod, o, tk : X(o) \in 0..2 => InMemory(Plan("none", mod, o, tk))
  BY Q0Memory, Q1Memory, Q2Memory DEF Plan
<1> QED BY <1>1 DEF UsesPtr

-----------------------------------------------------------------------------
(* What the decoder waits for before it has an opcode.                     *)
Waiting ==
    ~dec.started => \/ cyc.kind \in {"fetch", "memRead", "intack"}
                    \/ cyc.kind = "bogus" /\ dec.subset = "CB"

(* An acknowledge and a halted fetch find the decoder idle.                *)
AckAlone  == cyc.kind = "intack" => dec = IdleDecoder /\ ~iff1 /\ ~nmiPend
HaltAlone == cyc.use = "halted" => cyc.kind = "fetch" /\ dec = IdleDecoder /\ ~intPend

(* Cycle c is one that decoder state d may be waiting for behind opcode o. *)
AtPlan(c, d, o, tk) ==
    \/ c.kind \in {"fetch", "memRead"} \/ c.use = "expired"
    \/ c.kind = "bogus" /\ d.subset = "none" /\ UsesPtr(o)
    \/ /\ d.step \in 1..Len(Plan(d.subset, d.mod, o, tk))
       /\ c = Plan(d.subset, d.mod, o, tk)[d.step]
OnPlan == dec.started /\ ~nmiPend /\ ~intPend => AtPlan(cyc, dec, op, taken)

(* The response to an interrupt under way.                                 *)
Responding ==
    /\ ~(nmiPend /\ intPend)
    /\ dec.started /\ (nmiPend \/ intPend) => dec.step > 0 /\ cyc.kind \in Memory
    /\ ~dec.started /\ nmiPend => dec = IdleDecoder /\ cyc.kind = "fetch"
    /\ ~dec.started /\ intPend => cyc.kind = "intack" /\ cyc.use = "vector"

(* How the cycle that runs, the decoder and the pending interrupts belong  *)
(* together, wherever RESET has cut.                                       *)
Coherent ==
    IF cyc.kind = NoCycle THEN cyc = InReset
    ELSE Waiting /\ AckAlone /\ HaltAlone /\ OnPlan /\ Responding

(* A step that starts a further cycle of the plan or of the response.      *)
LEMMA StayCoherent ==
    ASSUME NEW c, NEW e, NEW i1, NEW p, Stay(c, e, i1, p), e.started,
           c.kind \in Kinds \ {"intack"}, c.use # "halted", ~(nmiPend /\ intPend),
           nmiPend \/ intPend => e.step > 0 /\ c.kind \in Memory,
           ~nmiPend /\ ~intPend => AtPlan(c, e, op', taken')
    PROVE  Coherent'
<1>1. cyc' = c /\ dec' = e /\ nmiPend' = nmiPend /\ intPend' = intPend
  BY DEF Stay
<1>2. cyc'.kind # NoCycle /\ Waiting' /\ AckAlone' /\ HaltAlone'
  BY <1>1 DEF Waiting, AckAlone, HaltAlone, Kinds, NoCycle
<1>3. OnPlan'
  BY <1>1 DEF OnPlan
<1>4. Responding'
  BY <1>1 DEF Responding
<1> QED BY <1>2, <1>3, <1>4 DEF Coherent

(* The decoder as reset() leaves it.                                       *)
LEMMA IdleFacts ==
    /\ ~IdleDecoder.started /\ IdleDecoder.subset = "none" /\ IdleDecoder.mod = "none"
    /\ IdleDecoder.step = 0 /\ IdleDecoder \in DecoderType
BY DEF IdleDecoder, DecoderType

(* The cycles that are staged otherwise than by a plan: by clock() and by  *)
(* reset(),                                                                *)
LEMMA FetchFacts ==
    /\ \A h \in BOOLEAN : Fetch(h).kind = "fetch" /\ Fetch(h).use = IF h THEN "halted" ELSE "opcode"
    /\ Fetch(FALSE).kind = "fetch" /\ Fetch(FALSE).use = "opcode"
BY DEF Fetch, Cycle

(* for an acknowledge,                                                     *)
LEMMA IntackFacts ==
    \A m : /\ Intack(m).kind = "intack" /\ Intack(m).use # "halted"
           /\ m # 0 => Intack(m).use = "vector"
BY DEF Intack, Cycle

(* and by the steps of a response, by start() and by process_hlptr().      *)
LEMMA StagedFacts ==
    /\ Cycle("memRead", "d", 0).kind = "memRead" /\ Cycle("memRead", "d", 0).use = "d"
    /\ Cycle("memRead", "cbop", 0).kind = "memRead" /\ Cycle("memRead", "cbop", 0).use = "cbop"
    /\ \A n : Idle(n).kind = "bogus" /\ Idle(n).use = "idle"
    /\ Push.kind = "memWrite" /\ Push.use = "push"
    /\ Read.kind = "memRead" /\ Read.use = "data"
    /\ InReset.kind = NoCycle /\ InReset.use = "reset" /\ NoCycle \notin Kinds
BY DEF Cycle, Idle, Push, Read, InReset, NoCycle, Kinds

(* The step that calls reset() stages a fetch, or the acknowledge of an    *)
(* INT; what it leaves of the flip-flops and of PC.                        *)
LEMMA EndStages ==
    ASSUME NEW d, NEW hlt \in BOOLEAN, NEW i1 \in BOOLEAN, NEW i2, NEW p,
           NEW skipI \in BOOLEAN, NEW in, End(d, hlt, i1, i2, p, skipI, in)
    PROVE  /\ dec' = IdleDecoder
           /\ \/ /\ cyc' = Fetch(hlt) /\ ~intPend'
                 /\ nmiPend' => nmiff /\ pc' = p /\ resume' = p /\ saved' = {i1} /\ iff2' = i1
                 /\ ~nmiPend' => /\ iff1' = i1 /\ iff2' = i2 
                                 /\ saved' = IF i1 = iff1 /\ i2 = iff2 THEN saved ELSE {}
              \/ /\ cyc' = Intack(im') /\ ~iff1' /\ ~nmiPend' /\ intPend' = (im' # 0)
                 /\ i1 /\ ~skipI /\ saved' = {}
                 /\ intPend' => resume' = p
                 /\ ~in.halted => pc' = p
<1>1. Fetch(hlt).kind = "fetch"
  BY FetchFacts
<1>2. dec' = IdleDecoder /\ Poll(Fetch(hlt), i1, i2, p, nmiSkip, skipI, in)
  BY DEF End, ResetDecoder
<1>3. CASE AcceptNMI(Fetch(hlt), i1, i2, p, nmiSkip, skipI)
  BY <1>1, <1>2, <1>3 DEF AcceptNMI, PendingAfter, PollsNmi, SavedIFF1
<1>4. CASE AcceptINT(Fetch(hlt), i1, i2, p, nmiSkip, skipI, in)
  BY <1>1, <1>2, <1>4 DEF AcceptINT, PendingAfter, PollsInt
<1>5. CASE NoInterrupt(Fetch(hlt), i1, i2, p, nmiSkip, skipI, in)
  BY <1>1, <1>2, <1>5 DEF NoInterrupt, PendingAfter
<1> QED BY <1>2, <1>3, <1>4, <1>5 DEF Poll

(* Such a step.                                                            *)
LEMMA EndCoherent ==
    ASSUME NEW d, NEW hlt \in BOOLEAN, NEW i1 \in BOOLEAN, NEW i2, NEW p,
           NEW skipI \in BOOLEAN, NEW in, End(d, hlt, i1, i2, p, skipI, in)
    PROVE  Coherent'
<1>1. dec' = IdleDecoder
  BY EndStages
<1>2. CASE cyc' = Fetch(hlt) /\ ~intPend'
  <2>1. cyc'.kind = "fetch"
    BY <1>2, FetchFacts
  <2> QED BY <1>1, <1>2, <2>1, IdleFacts
          DEF Coherent, Waiting, AckAlone, HaltAlone, OnPlan, Responding, NoCycle
<1>3. CASE cyc' = Intack(im') /\ ~iff1' /\ ~nmiPend' /\ intPend' = (im' # 0)
  <2>1. cyc'.kind = "intack" /\ cyc'.use # "halted" /\ (intPend' => cyc'.use = "vector")
    BY <1>3, IntackFacts
  <2> QED BY <1>1, <1>3, <2>1, IdleFacts
          DEF Coherent, Waiting, AckAlone, HaltAlone, OnPlan, Responding, NoCycle
<1> QED BY <1>2, <1>3, EndStages

(* Both interrupts held off, clock() stages the cycle asked for.           *)
LEMMA HeldOff ==
    ASSUME NEW c, NEW i1, NEW i2, NEW p, NEW in, Poll(c, i1, i2, p, TRUE, TRUE, in)
    PROVE  NoInterrupt(c, i1, i2, p, TRUE, TRUE, in)
BY DEF Poll, AcceptNMI, AcceptINT, PollsNmi, PollsInt

(* start() on a prefix byte leaves no interrupt pending.                   *)
LEMMA PrefixStages ==
    ASSUME TypeOK, Coherent, cyc.kind # NoCycle, NEW b, NEW in, Prefix(b, in)
    PROVE  /\ cyc'.kind \in {"fetch", "memRead"} /\ cyc'.use \in {"opcode", "d"}
           /\ ~nmiPend' /\ ~intPend' /\ ~dec'.started
           /\ cyc'.kind = "memRead" => cyc'.use = "d" /\ dec'.subset = "CB"
<1> DEFINE disp == b = 203 /\ dec.mod # "none"
           c    == IF disp THEN Cycle("memRead", "d", 0) ELSE Fetch(FALSE)
           p    == IF disp THEN Addr(PCAfterCycle + 1) ELSE PCAfterCycle
<1>1. Poll(c, iff1, iff2, p, TRUE, TRUE, in) /\ ~dec.started /\ ~nmiPend /\ dec' = Prefixed(b)
  BY DEF Prefix, AtPrefix, PrefixSkipsNmi
<1>2. /\ c.kind \in {"fetch", "memRead"} /\ c.use \in {"opcode", "d"}
      /\ disp => c.use = "d"
      /\ ~disp => c.kind = "fetch"
  <2>1. disp \/ ~disp
    OBVIOUS
  <2>2. c = IF disp THEN Cycle("memRead", "d", 0) ELSE Fetch(FALSE)
    OBVIOUS
  <2> HIDE DEF disp, c
  <2> QED BY <2>1, <2>2, StagedFacts, FetchFacts
<1>3. intPend => ~disp
  BY <1>1, IdleFacts DEF Coherent, Responding, AckAlone
<1> HIDE DEF c, p
<1>7. ASSUME disp PROVE dec'.subset = "CB"
  <2>1. dec \in DecoderType /\ dec' = [dec EXCEPT !.subset = "CB", !.dReady = dec.mod # "none"]
    BY <1>1, <1>7 DEF Prefixed, TypeOK
  <2> QED BY <2>1 DEF DecoderType
<1> HIDE DEF disp
<1>4. cyc' = c /\ nmiPend' = PendingAfter(nmiPend, c) /\ intPend' = PendingAfter(intPend, c)
  BY <1>1, HeldOff DEF NoInterrupt
<1>5. ~nmiPend' /\ ~intPend'
  BY <1>1, <1>2, <1>3, <1>4 DEF PendingAfter
<1>6. ~dec'.started
  BY <1>1 DEF Prefixed, TypeOK, DecoderType
<1> QED BY <1>2, <1>4, <1>5, <1>6, <1>7

(* Nor does start() between DDCB or FDCB and the opcode.                   *)
LEMMA DdCbStages ==
    ASSUME TypeOK, Coherent, cyc.kind # NoCycle, NEW b, NEW cb, NEW in, DdCb(b, cb, in)
    PROVE  /\ cyc'.kind \in {"bogus", "memRead"} /\ cyc'.use \in {"idle", "cbop"}
           /\ cyc' \in {Idle(2), Cycle("memRead", "cbop", 0)}
           /\ ~nmiPend' /\ ~intPend' /\ ~dec'.started /\ dec'.subset = "CB"
<1>1. ~dec.started /\ ~nmiPend /\ dec.subset = "CB"
  BY DEF DdCb, AtDdCb, InDdCb
<1>2. ~intPend
  BY <1>1, IdleFacts DEF Coherent, Responding, AckAlone
<1>3. ASSUME NEW c, NEW p, Poll(c, iff1, iff2, p, TRUE, TRUE, in)
      PROVE  cyc' = c /\ ~nmiPend' /\ ~intPend'
  BY <1>1, <1>2, <1>3, HeldOff DEF NoInterrupt, PendingAfter
<1>4. cyc' \in {Idle(2), Cycle("memRead", "cbop", 0)} /\ ~nmiPend' /\ ~intPend'
  BY <1>3 DEF DdCb, PrefixSkipsNmi
<1>5. ~dec'.started /\ dec'.subset = "CB"
  BY <1>1 DEF DdCb, TypeOK, DecoderType
<1> QED BY <1>4, <1>5, StagedFacts

(* Both keep the invariant: start() on a prefix byte.                      *)
LEMMA PrefixCoherent ==
    ASSUME TypeOK, Coherent, cyc.kind # NoCycle, NEW b, NEW in, Prefix(b, in)
    PROVE  Coherent'
BY PrefixStages DEF Coherent, Waiting, AckAlone, HaltAlone, OnPlan, Responding, NoCycle

(* start() between DDCB or FDCB and the opcode.                            *)
LEMMA DdCbCoherent ==
    ASSUME TypeOK, Coherent, cyc.kind # NoCycle, NEW b, NEW cb, NEW in, DdCb(b, cb, in)
    PROVE  Coherent'
BY DdCbStages DEF Coherent, Waiting, AckAlone, HaltAlone, OnPlan, Responding, NoCycle

(* Decoder state d goes on with opcode o, the condition being tk.          *)
GoesOn(d, o, tk) ==
    /\ d.started /\ d.subset = dec.subset
    /\ ~nmiPend /\ ~intPend => o = op' \/ (o = 118 /\ d.subset = "none")
    /\ dec'.started => taken' = tk

(* ++_step leaves the rest of the decoder alone.                           *)
LEMMA SteppedStarted ==
    \A d \in DecoderType : /\ Stepped(d).started = d.started /\ Stepped(d).mod = d.mod
                           /\ Stepped(d).step > 0
BY DEF Stepped, DecoderType

(* The steps of the response to an interrupt.                              *)
LEMMA ServeCoherent ==
    ASSUME TypeOK, Coherent, cyc.kind # NoCycle, nmiPend \/ intPend,
           NEW d \in DecoderType, d.started, NEW p, NEW in,
           NmiStep(d, p, in) \/ IntStep(d, p, in)
    PROVE  Coherent'
<1>1. ASSUME NEW c \in {Idle(1), Push, Read}, NEW q, Stay(c, Stepped(d), iff1, q)
      PROVE  Coherent'
  <2>1. c.kind \in Memory /\ c.use # "halted" /\ c.kind \in Kinds \ {"intack"}
    BY StagedFacts DEF Memory, Kinds
  <2>2. ~(nmiPend /\ intPend)
    BY DEF Coherent, Responding
  <2> QED BY <1>1, <2>1, <2>2, SteppedStarted, StayCoherent
<1>2. ASSUME NEW q, End(d, FALSE, iff1, iff2, q, intSkip, in)
      PROVE  Coherent'
  <2>1. iff1 \in BOOLEAN /\ intSkip \in BOOLEAN /\ FALSE \in BOOLEAN
    BY DEF TypeOK
  <2> QED BY <1>2, <2>1, EndCoherent
<1>3. NmiStep(d, p, in) => Coherent'
  BY <1>1, <1>2 DEF NmiStep
<1>4. IntStep(d, p, in) => Coherent'
  BY <1>1, <1>2 DEF IntStep
<1> QED BY <1>3, <1>4

(* HALT has no cycles of its own and no memory operand.                    *)
LEMMA HaltPlan ==
    /\ ~UsesPtr(118) /\ \A mod, tk : Plan("none", mod, 118, tk) = <<>>
<1>1. X(118) = 1 /\ Y(118) = 6 /\ Z(118) = 6
  BY DEF X, Y, Z
<1> QED BY <1>1 DEF UsesPtr, Plan, PlanQ1

(* The steps of an instruction.                                            *)
LEMMA ExecCoherent ==
    ASSUME TypeOK, Coherent, cyc.kind # NoCycle, ~nmiPend, ~intPend,
           NEW d \in DecoderType, NEW o, NEW tk \in BOOLEAN, GoesOn(d, o, tk), NEW p, NEW in,
           ExecStep(d, o, tk, p, in)
    PROVE  Coherent'
<1> DEFINE plan == Plan(d.subset, d.mod, o, tk)
<1>0. cyc \in CycleType /\ iff1 \in BOOLEAN /\ intSkip \in BOOLEAN /\ d.started
  BY DEF TypeOK, CycleType, GoesOn
<1>1. ASSUME NEW c, NEW e, NEW i1, NEW q, Stay(c, e, i1, q), e.started, 
             c.kind \in Kinds \ {"intack"}, c.use # "halted", AtPlan(c, e, op', taken')
      PROVE  Coherent'
  BY <1>1, StayCoherent
<1>2. CASE NeedsD(d, o) /\ ReadDisplacement(d, p)
  <2>1. [d EXCEPT !.dReady = TRUE].started
    BY <1>0 DEF DecoderType
  <2>2. Cycle("memRead", "d", 0).kind = "memRead" /\ Cycle("memRead", "d", 0).use = "d"
    BY StagedFacts
  <2> QED BY <1>1, <1>2, <2>1, <2>2 DEF ReadDisplacement, AtPlan, Kinds
<1>3. CASE NeedsPtr(d, o) /\ CalculatePtr(d, o, p)
  <2> DEFINE e == [d EXCEPT !.hlReady = TRUE]
  <2>1. e.started /\ e.subset = "none" /\ UsesPtr(o) /\ d.subset = "none"
    BY <1>0, <1>3 DEF DecoderType, NeedsPtr
  <2>2. PICK c \in {Idle(2), Idle(5)} : Stay(c, e, iff1, p)
    BY <1>3 DEF CalculatePtr
  <2>3. c.kind = "bogus" /\ c.use = "idle"
    BY <2>2, StagedFacts
  <2>4. UsesPtr(op')
    BY <2>1, HaltPlan DEF GoesOn
  <2> HIDE DEF e
  <2> QED BY <1>1, <2>1, <2>2, <2>3, <2>4 DEF AtPlan, Kinds
<1>4. CASE d.step < Len(plan) /\ StartCycle(d, o, plan[d.step + 1], p)
  <2> DEFINE c == plan[d.step + 1]
  <2>1. PICK q : Stay(c, Stepped(d), IFF1AtStart(d, o), q)
    BY <1>4 DEF StartCycle
  <2>2. plan \in Plans /\ d.step \in Nat
    BY PlanType, DecoderTypes
  <2>3. dec' = Stepped(d)
    BY <2>1 DEF Stay
  <2>4. Stepped(d).subset = d.subset /\ Stepped(d).mod = d.mod /\ Stepped(d).started
          /\ Stepped(d).step = d.step + 1
    BY <1>0, SteppedStarted, DecoderTypes
  <2>5. taken' = tk
    BY <2>3, <2>4 DEF GoesOn
  <2>6. o = op'
    <3>1. CASE o = 118 /\ d.subset = "none"
      <4>1. plan = <<>>
        BY <3>1, HaltPlan
      <4>2. Len(plan) = 0
        BY <4>1
      <4> QED BY <1>4, <2>2, <4>2
    <3> QED BY <3>1 DEF GoesOn
  <2>7. plan = Plan(Stepped(d).subset, Stepped(d).mod, op', taken')
    BY <2>4, <2>5, <2>6
  <2> HIDE DEF plan
  <2>8. d.step + 1 \in 1..Len(plan) /\ c \in PlanCycles
    BY <1>4, <2>2 DEF Plans
  <2>9. c.kind \in Kinds \ {"intack"} /\ c.use # "halted"
    BY <2>8 DEF PlanCycles, PlanUses
  <2>10. AtPlan(c, Stepped(d), op', taken')
    BY <2>4, <2>7, <2>8 DEF AtPlan
  <2> HIDE DEF c
  <2> QED BY <1>1, <2>1, <2>4, <2>9, <2>10
<1>5. CASE Hole(d.subset, o) /\ StartNothing(d, p)
  <2> DEFINE c == [cyc EXCEPT !.use = "expired"]
  <2>1. c.use = "expired" /\ c.kind = cyc.kind /\ cyc.kind \in Kinds
    BY <1>0 DEF CycleType
  <2>2. cyc.kind # "intack"
    BY <1>5, IdleFacts DEF Hole, GoesOn, Coherent, AckAlone
  <2>3. Stay(c, Stepped(d), iff1, p)
    BY <1>5 DEF StartNothing
  <2>4. AtPlan(c, Stepped(d), op', taken')
    BY <2>1 DEF AtPlan
  <2> HIDE DEF c
  <2> QED BY <1>0, <1>1, <2>1, <2>2, <2>3, <2>4, SteppedStarted
<1>6. CASE EndInstruction(d, o, tk, p, in)
  <2>1. /\ IsHALT(d.subset, d.mod, o) \in BOOLEAN /\ IFFAtEnd(d, o, iff1) \in BOOLEAN
        /\ (intSkip \/ EIShadow(d, o)) \in BOOLEAN
    BY <1>0 DEF IFFAtEnd, EIShadow, IsEI, IsDI, IsHALT
  <2>2. PICK q : End(d, IsHALT(d.subset, d.mod, o), IFFAtEnd(d, o, iff1),
                     IFFAtEnd(d, o, iff2), q, intSkip \/ EIShadow(d, o), in)
    BY <1>6 DEF EndInstruction
  <2> QED BY <2>1, <2>2, EndCoherent
<1> QED BY <1>2, <1>3, <1>4, <1>5, <1>6 DEF ExecStep

(* next_step() as a whole.                                                 *)
LEMMA NextStepCoherent ==
    ASSUME TypeOK, Coherent, cyc.kind # NoCycle,
           NEW d \in DecoderType, NEW o, NEW tk \in BOOLEAN, GoesOn(d, o, tk), NEW p, NEW in,
           NextStep(d, o, tk, p, in)
    PROVE  Coherent'
<1>1. d.started
  BY DEF GoesOn
<1>2. CASE nmiPend \/ intPend
  BY <1>1, <1>2, ServeCoherent DEF NextStep
<1>3. CASE ~nmiPend /\ ~intPend
  BY <1>3, ExecCoherent DEF NextStep
<1> QED BY <1>2, <1>3

(* What start() and next_step() hand to the executors.                     *)
LEMMA BeginGoesOn ==
    ASSUME TypeOK, NEW b, NEW in, Begin(b, in)
    PROVE  LET o == IF InDdCb THEN cbInstr ELSE b
               d == [dec EXCEPT !.started = TRUE, !.step = 0]
           IN  \E tk \in BOOLEAN : /\ GoesOn(d, o, tk) /\ NextStep(d, o, tk, PCAfterCycle, in)
                                   /\ d \in DecoderType /\ d.step = 0 /\ d.mod = dec.mod
<1> DEFINE o == IF InDdCb THEN cbInstr ELSE b
           d == [dec EXCEPT !.started = TRUE, !.step = 0]
<1>1. dec \in DecoderType
  BY DEF TypeOK
<1>2. d \in DecoderType /\ d.started /\ d.subset = dec.subset /\ d.step = 0 /\ d.mod = dec.mod
  BY <1>1, DecoderFlags DEF DecoderType
<1>3. /\ ~nmiPend => op' = o
      /\ \E tk \in Conditions(d, o) :
            NextStep(d, o, tk, PCAfterCycle, in) /\ taken' = (dec'.started /\ tk)
  BY DEF Begin
<1> HIDE DEF o, d
<1>4. PICK tk \in BOOLEAN :
         NextStep(d, o, tk, PCAfterCycle, in) /\ taken' = (dec'.started /\ tk)
  BY <1>3 DEF Conditions
<1>5. GoesOn(d, o, tk)
  BY <1>2, <1>3, <1>4 DEF GoesOn
<1>6. \E t \in BOOLEAN : GoesOn(d, o, t) /\ NextStep(d, o, t, PCAfterCycle, in)
                         /\ d \in DecoderType /\ d.step = 0 /\ d.mod = dec.mod
  BY <1>2, <1>4, <1>5
<1> QED BY <1>6 DEF o, d

(* The opcode next_step() goes on with: exec_main_q1() looks for HALT in   *)
(* regs.instr.                                                             *)
OpcodeSeen(b) == IF dec.subset = "none" /\ X(op) = 1 /\ b = 118 THEN b ELSE op

(* Likewise for an instruction under way.                                  *)
LEMMA ContinueGoesOn ==
    ASSUME TypeOK, NEW b, NEW in, Continue(b, in)
    PROVE  /\ GoesOn(dec, OpcodeSeen(b), taken)
           /\ NextStep(dec, OpcodeSeen(b), taken, PCAfterCycle, in)
           /\ dec \in DecoderType /\ taken \in BOOLEAN
<1>1. /\ dec.started /\ op' = op /\ taken' = (dec'.started /\ taken) /\ taken \in BOOLEAN
      /\ dec \in DecoderType
  BY DEF Continue, TypeOK
<1>2. NextStep(dec, OpcodeSeen(b), taken, PCAfterCycle, in)
  BY DEF Continue, OpcodeSeen
<1>3. OpcodeSeen(b) = op \/ (OpcodeSeen(b) = 118 /\ dec.subset = "none")
  BY DEF OpcodeSeen
<1> QED BY <1>1, <1>2, <1>3 DEF GoesOn

(* The call of clock() in which a cycle finishes.                          *)
LEMMA FinishCoherent == TypeOK /\ Coherent /\ FinishCycle => Coherent'
<1> SUFFICES ASSUME TypeOK, Coherent, FinishCycle PROVE Coherent'
  OBVIOUS
<1>1. PICK in \in PinsSeen, b \in LatchedOpcodes, cb \in LatchedCbOpcodes : FinishWith(b, cb, in)
  BY DEF FinishCycle
<1>2. cyc.kind # NoCycle
  BY <1>1 DEF FinishWith
<1>3. CASE Prefix(b, in)
  BY <1>2, <1>3, PrefixCoherent
<1>4. CASE DdCb(b, cb, in)
  BY <1>2, <1>4, DdCbCoherent
<1>5. CASE Begin(b, in)
  BY <1>2, <1>5, BeginGoesOn, NextStepCoherent
<1>6. CASE Continue(b, in)
  BY <1>2, <1>6, ContinueGoesOn, NextStepCoherent
<1> QED BY <1>1, <1>3, <1>4, <1>5, <1>6 DEF FinishWith

(* Every step, and RESET wherever it cuts.                                 *)
LEMMA StepCoherent == TypeOK /\ Coherent /\ [Next]_vars => Coherent'
<1> SUFFICES ASSUME TypeOK, Coherent, [Next]_vars PROVE Coherent'
  OBVIOUS
<1>1. CASE FinishCycle
  BY <1>1, FinishCoherent
<1>2. CASE Throw \/ TriggerNMI \/ UNCHANGED vars
  BY <1>2 DEF Throw, TriggerNMI, vars, Coherent, Waiting, AckAlone, HaltAlone, OnPlan, Responding
<1>3. CASE ResetLow
  BY <1>3, StagedFacts DEF ResetLow, Coherent
<1>4. CASE ResetExit
  <2>1. cyc' = Fetch(FALSE) /\ ~nmiPend' /\ ~intPend'
    BY <1>4 DEF ResetExit
  <2>2. cyc'.kind = "fetch" /\ cyc'.use = "opcode"
    BY <2>1, FetchFacts
  <2> QED BY <2>1, <2>2 
          DEF Coherent, Waiting, AckAlone, HaltAlone, OnPlan, Responding, AtPlan, NoCycle
<1> QED BY <1>1, <1>2, <1>3, <1>4 DEF Next

(* Power-on.                                                               *)
LEMMA InitCoherent == Init => Coherent
BY StagedFacts DEF Init, Coherent

(* In every run the cycle, the decoder and the pending interrupts belong   *)
(* together as Coherent says: what is pending is being served, an          *)
(* acknowledge meets an idle decoder with IFF1 clear, and an instruction   *)
(* under way waits for the cycle its last step started.                    *)
THEOREM ControlCoherent == Spec => []Coherent
<1>1. Init => Coherent
  BY InitCoherent
<1>2. TypeOK /\ Coherent /\ [Next]_vars => Coherent'
  BY StepCoherent
<1> QED BY <1>1, <1>2, ControlTypeCorrect, PTL DEF Spec

-----------------------------------------------------------------------------
(* Two cycles in the order Z80Bus allows.                                  *)
Ordered == cyc'.use # "expired" => cyc'.kind \in Follows[cyc.kind]

(* A step that starts a further cycle.                                     *)
LEMMA StayOrdered ==
    ASSUME NEW c, NEW e, NEW i1, NEW p, Stay(c, e, i1, p), c.kind \in Follows[cyc.kind]
    PROVE  Ordered
BY DEF Stay, Ordered

(* An acknowledge behind an acknowledge would need IFF1.                   *)
LEMMA EndOrdered ==
    ASSUME TypeOK, Coherent, cyc.kind # NoCycle,
           NEW d, NEW hlt \in BOOLEAN, NEW i1 \in BOOLEAN, NEW i2, NEW p,
           NEW skipI \in BOOLEAN, NEW in, End(d, hlt, i1, i2, p, skipI, in),
           i1 /\ ~skipI => iff1
    PROVE  Ordered
<1>1. cyc.kind \in Kinds /\ (iff1 => cyc.kind # "intack")
  BY DEF TypeOK, Coherent, AckAlone
<1>2. cyc' = Fetch(hlt) \/ (cyc' = Intack(im') /\ iff1)
  BY EndStages
<1>3. cyc'.kind = "fetch" \/ (cyc'.kind = "intack" /\ iff1)
  BY <1>2, FetchFacts, IntackFacts
<1> QED BY <1>1, <1>3, FollowsMemory DEF Ordered

(* The response to an interrupt reads and writes memory only.              *)
LEMMA ServeOrdered ==
    ASSUME TypeOK, Coherent, cyc.kind # NoCycle, nmiPend \/ intPend, NEW d, NEW p, NEW in,
           NmiStep(d, p, in) \/ IntStep(d, p, in)
    PROVE  Ordered
<1>1. cyc.kind \in Memory \cup {"fetch", "intack"}
  BY DEF Coherent, Responding
<1>2. \A k \in Memory : k \in Follows[cyc.kind]
  BY <1>1, FollowsMemory DEF Memory, Kinds
<1>3. Idle(1).kind \in Memory /\ Push.kind \in Memory /\ Read.kind \in Memory
  BY StagedFacts DEF Memory
<1>4. ASSUME NEW c \in {Idle(1), Push, Read}, NEW q, Stay(c, Stepped(d), iff1, q)
      PROVE  Ordered
  BY <1>2, <1>3, <1>4, StayOrdered
<1>5. ASSUME NEW q, End(d, FALSE, iff1, iff2, q, intSkip, in)
      PROVE  Ordered
  <2>1. iff1 \in BOOLEAN /\ intSkip \in BOOLEAN /\ FALSE \in BOOLEAN
    BY DEF TypeOK
  <2> QED BY <1>5, <2>1, EndOrdered
<1>6. NmiStep(d, p, in) => Ordered
  BY <1>4, <1>5 DEF NmiStep
<1>7. IntStep(d, p, in) => Ordered
  BY <1>4, <1>5 DEF IntStep
<1> QED BY <1>6, <1>7

(* An instruction may start cycle c now: c is a memory or a bogus cycle,   *)
(* unless the plan has just been begun or followed.                        *)
LEMMA ExecOrdered ==
    ASSUME TypeOK, Coherent, cyc.kind # NoCycle, cyc.use # "expired", ~nmiPend, ~intPend,
           NEW d \in DecoderType, NEW o, NEW tk \in BOOLEAN, d.subset = dec.subset,
           \/ ~dec.started /\ d.step = 0
           \/ dec.started /\ d = dec /\ tk = taken /\ (o = op \/ (o = 118 /\ d.subset = "none")),
           NEW p, NEW in, ExecStep(d, o, tk, p, in)
    PROVE  Ordered
<1> DEFINE plan == Plan(d.subset, d.mod, o, tk)
<1>00. WellOrdered(plan)
  BY PlanOrder, ZenonT(60)
<1>0. iff1 \in BOOLEAN /\ intSkip \in BOOLEAN /\ cyc.kind \in Kinds
  BY DEF TypeOK
<1>1. CASE EndInstruction(d, o, tk, p, in)
  <2> DEFINE hlt  == IsHALT(d.subset, d.mod, o)
             i1   == IFFAtEnd(d, o, iff1)
             skip == intSkip \/ EIShadow(d, o)
  <2>1. hlt \in BOOLEAN /\ i1 \in BOOLEAN /\ skip \in BOOLEAN /\ (i1 /\ ~skip => iff1)
    BY <1>0 DEF IFFAtEnd, EIShadow, IsEI, IsDI, IsHALT
  <2>2. PICK q : End(d, hlt, i1, IFFAtEnd(d, o, iff2), q, skip, in)
    BY <1>1 DEF EndInstruction
  <2> HIDE DEF hlt, i1, skip
  <2> QED BY <2>1, <2>2, EndOrdered
<1>2. CASE StartNothing(d, p)
  <2>1. [cyc EXCEPT !.use = "expired"].use = "expired"
    BY DEF TypeOK
  <2> QED BY <1>2, <2>1 DEF StartNothing, Stay, Ordered
<1>3. CASE cyc.kind \in {"fetch", "memRead"}
  <2>1. \A k \in Kinds : k \in Follows[cyc.kind]
    BY <1>3, FollowsMemory DEF Kinds
  <2>2. Cycle("memRead", "d", 0).kind \in Kinds /\ \A n : Idle(n).kind \in Kinds
    BY StagedFacts DEF Kinds
  <2>3. CASE d.step < Len(plan) /\ StartCycle(d, o, plan[d.step + 1], p)
    <3>1. plan \in Plans /\ d.step \in Nat
      BY PlanType, DecoderTypes
    <3> HIDE DEF plan
    <3>2. plan[d.step + 1].kind \in Kinds
      <4>1. plan[d.step + 1] \in PlanCycles
        BY <2>3, <3>1 DEF Plans
      <4> QED BY <4>1 DEF PlanCycles
    <3> QED BY <2>1, <2>3, <3>2, StayOrdered DEF StartCycle
  <2>4. ReadDisplacement(d, p) => Ordered
    BY <2>1, <2>2, StayOrdered DEF ReadDisplacement
  <2>5. CalculatePtr(d, o, p) => Ordered
    BY <2>1, <2>2, StayOrdered DEF CalculatePtr
  <2> HIDE DEF plan
  <2> QED BY <1>1, <1>2, <2>3, <2>4, <2>5 DEF ExecStep, plan
<1>4. ASSUME NEW c, NEW e, NEW i1, NEW q, Stay(c, e, i1, q), c.kind \in Memory,
             cyc.kind \in Memory \cup {"intack"}
      PROVE  Ordered
  BY <1>4, FollowsMemory, StayOrdered DEF Memory
<1>5. Cycle("memRead", "d", 0).kind \in Memory /\ \A n : Idle(n).kind \in Memory
  BY StagedFacts DEF Memory
<1>6. CASE ~dec.started /\ d.step = 0 /\ cyc.kind \notin {"fetch", "memRead"}
  <2>1. cyc.kind \in Memory \cup {"intack"} /\ dec.subset # "ED"
    BY <1>6, IdleFacts DEF Coherent, Waiting, AckAlone, Memory
  <2>2. CASE d.step < Len(plan) /\ StartCycle(d, o, plan[d.step + 1], p)
    <3>1. d.step + 1 = 1 /\ Len(plan) > 0
      BY <1>6, <2>2
    <3>2. plan[1].kind \in Memory
      BY <2>1, <3>1, PlanBegins
    <3> HIDE DEF plan
    <3> QED BY <1>4, <2>1, <2>2, <3>1, <3>2 DEF StartCycle
  <2> QED BY <1>1, <1>2, <1>4, <1>5, <2>1, <2>2 DEF ExecStep, ReadDisplacement, CalculatePtr
<1>7. CASE dec.started /\ cyc.kind \notin {"fetch", "memRead"}
  <2>0. d = dec /\ tk = taken /\ (o = op \/ (o = 118 /\ d.subset = "none"))
    BY <1>7
  <2>1. \/ cyc.kind = "bogus" /\ d.subset = "none" /\ UsesPtr(op)
        \/ /\ d.step \in 1..Len(Plan(d.subset, d.mod, op, tk))
           /\ cyc = Plan(d.subset, d.mod, op, tk)[d.step]
    BY <1>7, <2>0 DEF Coherent, OnPlan, AtPlan
  <2>2. CASE NeedsD(d, o) /\ ReadDisplacement(d, p)
    <3>1. d.step = 0 /\ o = op
      BY <2>0, <2>2, HaltPlan DEF NeedsD
    <3>2. cyc.kind \in Memory
      BY <2>1, <3>1 DEF Memory
    <3> QED BY <1>4, <1>5, <2>2, <3>2 DEF ReadDisplacement
  <2>3. CASE NeedsPtr(d, o) /\ CalculatePtr(d, o, p)
    <3>1. d.subset = "none" /\ UsesPtr(op)
      BY <2>0, <2>3, HaltPlan DEF NeedsPtr
    <3>2. InMemory(Plan(d.subset, d.mod, op, tk))
      BY <3>1, PtrPlans, ZenonT(30)
    <3>3. cyc.kind \in Memory
      BY <2>1, <3>2 DEF Memory, InMemory
    <3> QED BY <1>4, <1>5, <2>3, <3>3 DEF CalculatePtr
  <2>4. CASE d.step < Len(plan) /\ StartCycle(d, o, plan[d.step + 1], p)
    <3>1. plan \in Plans /\ d.step \in Nat
      BY PlanType, DecoderTypes
    <3>2. o = op
      <4>1. CASE o = 118 /\ d.subset = "none"
        <5>1. plan = <<>>
          BY <4>1, HaltPlan
        <5>2. Len(plan) = 0
          BY <5>1
        <5> QED BY <2>4, <3>1, <5>2
      <4> QED BY <2>0, <4>1
    <3>3. WellOrdered(plan) /\ (UsesPtr(op) /\ d.subset = "none" => InMemory(plan))
      <4>1. WellOrdered(plan)
        BY <1>00
      <4>2. ASSUME UsesPtr(op), d.subset = "none" PROVE InMemory(plan)
        <5>1. InMemory(Plan("none", d.mod, op, tk))
          BY <4>2, PtrPlans, Zenon
        <5> QED BY <3>2, <4>2, <5>1
      <4> QED BY <4>1, <4>2
    <3>4. \/ cyc.kind = "bogus" /\ InMemory(plan)
          \/ d.step \in 1..Len(plan) /\ cyc = plan[d.step]
      BY <2>1, <3>2, <3>3
    <3> HIDE DEF plan
    <3>5. Len(plan) \in Nat
      BY <3>1 DEF Plans
    <3>6. CASE cyc.kind = "bogus" /\ InMemory(plan)
      <4>1. plan[d.step + 1].kind \in Memory /\ cyc.kind \in Memory
        BY <2>4, <3>1, <3>5, <3>6 DEF InMemory, Memory
      <4> QED BY <1>4, <2>4, <4>1 DEF StartCycle
    <3>7. CASE d.step \in 1..Len(plan) /\ cyc = plan[d.step]
      <4>1. plan[d.step + 1].kind \in Follows[cyc.kind]
        BY <2>4, <3>1, <3>3, <3>5, <3>7 DEF WellOrdered
      <4> QED BY <2>4, <4>1, StayOrdered DEF StartCycle
    <3> QED BY <3>4, <3>6, <3>7
  <2> QED BY <1>1, <1>2, <2>2, <2>3, <2>4 DEF ExecStep
<1> QED BY <1>3, <1>6, <1>7

(* The call of clock() in which a cycle finishes.                          *)
LEMMA FinishOrdered ==
    ASSUME TypeOK, Coherent, FinishCycle
    PROVE  Ordered
<1>1. PICK in \in PinsSeen, b \in LatchedOpcodes, cb \in LatchedCbOpcodes : FinishWith(b, cb, in)
  BY DEF FinishCycle
<1>2. cyc.kind # NoCycle /\ cyc.use # "expired" /\ cyc.kind \in Kinds
  BY <1>1 DEF FinishWith, TypeOK
<1>3. CASE Prefix(b, in)
  <2>1. cyc'.kind \in {"fetch", "memRead"}
    BY <1>2, <1>3, PrefixStages
  <2>2. cyc.kind \in {"fetch", "memRead", "intack"}
    BY <1>2, <1>3 DEF Coherent, Waiting, Prefix, AtPrefix
  <2> QED BY <2>1, <2>2, FollowsMemory DEF Ordered, Kinds
<1>4. CASE DdCb(b, cb, in)
  <2>1. cyc'.kind \in {"bogus", "memRead"}
    BY <1>2, <1>4, DdCbStages
  <2>2. cyc.kind \in {"fetch", "memRead", "bogus"}
    BY <1>2, <1>4, IdleFacts DEF Coherent, Waiting, AckAlone, DdCb, AtDdCb, InDdCb
  <2> QED BY <2>1, <2>2, FollowsMemory DEF Ordered, Memory, Kinds
<1>5. ASSUME NEW d, NEW o, NEW tk \in BOOLEAN, NextStep(d, o, tk, PCAfterCycle, in),
             ~nmiPend /\ ~intPend => (ExecStep(d, o, tk, PCAfterCycle, in) => Ordered)
      PROVE  Ordered
  BY <1>2, <1>5, ServeOrdered DEF NextStep
<1>6. CASE Begin(b, in)
  <2> DEFINE o == IF InDdCb THEN cbInstr ELSE b
             d == [dec EXCEPT !.started = TRUE, !.step = 0]
  <2>1. PICK tk \in BOOLEAN : GoesOn(d, o, tk) /\ NextStep(d, o, tk, PCAfterCycle, in)
                              /\ d \in DecoderType /\ d.step = 0
    BY <1>6, BeginGoesOn
  <2>2. ~dec.started
    BY <1>6 DEF Begin
  <2> HIDE DEF o, d
  <2> QED BY <1>2, <1>5, <2>1, <2>2, ExecOrdered DEF GoesOn
<1>7. CASE Continue(b, in)
  <2>1. dec.started /\ (OpcodeSeen(b) = op \/ (OpcodeSeen(b) = 118 /\ dec.subset = "none"))
    BY <1>7 DEF Continue, OpcodeSeen
  <2> QED BY <1>2, <1>5, <1>7, <2>1, ContinueGoesOn, ExecOrdered
<1> QED BY <1>1, <1>3, <1>4, <1>6, <1>7 DEF FinishWith

(* In every run the cycles the decoder starts follow each other as Z80Bus  *)
(* assumes, for every program, whatever interrupts come and wherever RESET *)
(* cuts.                                                                   *)
THEOREM CyclesInOrder == Spec => CycleOrder
<1>1. TypeOK /\ Coherent /\ [Next]_vars
        => ((cyc.kind # NoCycle /\ cyc' # cyc /\ cyc'.kind # NoCycle /\ cyc'.use # "expired")
               => cyc'.kind \in Follows[cyc.kind])
  <2> SUFFICES ASSUME TypeOK, Coherent, [Next]_vars, cyc.kind # NoCycle, cyc' # cyc,
                      cyc'.kind # NoCycle, cyc'.use # "expired"
               PROVE  cyc'.kind \in Follows[cyc.kind]
    OBVIOUS
  <2>1. FinishCycle => Ordered
    BY FinishOrdered
  <2>2. ~(Throw \/ TriggerNMI \/ UNCHANGED vars)
    BY DEF Throw, TriggerNMI, vars
  <2>3. ~ResetLow /\ ~ResetExit
    BY StagedFacts DEF ResetLow, ResetExit
  <2> QED BY <2>1, <2>2, <2>3 DEF Next, Ordered
<1> QED BY <1>1, ControlTypeCorrect, ControlCoherent, PTL DEF Spec, CycleOrder

-----------------------------------------------------------------------------
(* What a step of an instruction or of a response leaves to be clocked.    *)
Staging(c) == /\ c.use \notin {"expired", "halted"}
              /\ c.use = "opcode" => c.kind \in {"fetch", "intack"}
              /\ c.kind = "bogus" => c.n \in 1..7

(* The cycles of a plan are such.                                          *)
LEMMA PlanStaging == \A c \in PlanCycles : Staging(c)
BY DEF PlanCycles, PlanUses, Staging

(* So are the cycles staged otherwise, but for the fetch of HALT.          *)
LEMMA FetchStaging ==
    /\ Staging(Fetch(FALSE)) /\ \A m : Staging(Intack(m))
    /\ \A n \in 1..7 : Staging(Idle(n))
    /\ Staging(Push) /\ Staging(Read)
    /\ Staging(Cycle("memRead", "d", 0)) /\ Staging(Cycle("memRead", "cbop", 0))
BY DEF Staging, Fetch, Intack, Idle, Push, Read, Cycle

(* An instruction starts a cycle that runs out by itself, or has fallen    *)
(* into an empty slot, or is HALT.                                         *)
Stages(d, o) ==
    \/ Staging(cyc')
    \/ cyc' = [cyc EXCEPT !.use = "expired"] /\ Hole(d.subset, o)
    \/ cyc' = Fetch(TRUE) /\ IsHALT(d.subset, d.mod, o)

(* The steps of an instruction, the last one included.                     *)
LEMMA ExecStages ==
    ASSUME TypeOK, NEW d \in DecoderType, NEW o, NEW tk, NEW p, NEW in, ExecStep(d, o, tk, p, in)
    PROVE  Stages(d, o)
<1> DEFINE plan == Plan(d.subset, d.mod, o, tk)
<1>1. CASE ReadDisplacement(d, p) \/ CalculatePtr(d, o, p)
  <2>1. (IF LdPtrImm(o) THEN 2 ELSE 5) \in 1..7
    OBVIOUS
  <2> QED BY <1>1, <2>1, FetchStaging DEF ReadDisplacement, CalculatePtr, Stay, Stages
<1>2. CASE d.step < Len(plan) /\ StartCycle(d, o, plan[d.step + 1], p)
  <2>1. plan \in Plans /\ d.step \in Nat
    BY PlanType, DecoderTypes
  <2> HIDE DEF plan
  <2>2. plan[d.step + 1] \in PlanCycles
    BY <1>2, <2>1 DEF Plans
  <2> QED BY <1>2, <2>2, PlanStaging DEF StartCycle, Stay, Stages
<1>3. CASE Hole(d.subset, o) /\ StartNothing(d, p)
  BY <1>3 DEF StartNothing, Stay, Stages
<1>4. CASE EndInstruction(d, o, tk, p, in)
  <2> DEFINE hlt  == IsHALT(d.subset, d.mod, o)
             i1   == IFFAtEnd(d, o, iff1)
             skip == intSkip \/ EIShadow(d, o)
  <2>1. hlt \in BOOLEAN /\ i1 \in BOOLEAN /\ skip \in BOOLEAN
    BY DEF TypeOK, IFFAtEnd, EIShadow, IsEI, IsDI, IsHALT
  <2>2. PICK q : End(d, hlt, i1, IFFAtEnd(d, o, iff2), q, skip, in)
    BY <1>4 DEF EndInstruction
  <2> HIDE DEF hlt, i1, skip
  <2>3. cyc' = Fetch(hlt) \/ cyc' = Intack(im')
    BY <2>1, <2>2, EndStages
  <2> QED BY <2>1, <2>3, FetchStaging DEF Stages, hlt
<1> QED BY <1>1, <1>2, <1>3, <1>4 DEF ExecStep

(* next_step() as a whole.                                                 *)
LEMMA NextStepStages ==
    ASSUME TypeOK, NEW d \in DecoderType, NEW o, NEW tk, NEW p, NEW in,
           NextStep(d, o, tk, p, in)
    PROVE  Staging(cyc') \/ (~nmiPend /\ ~intPend /\ Stages(d, o))
<1>1. ASSUME NEW c \in {Idle(1), Push, Read}, NEW e, NEW i1, NEW q, Stay(c, e, i1, q)
      PROVE  Staging(cyc')
  BY <1>1, FetchStaging DEF Stay
<1>2. ASSUME NEW q, End(d, FALSE, iff1, iff2, q, intSkip, in)
      PROVE  Staging(cyc')
  <2>1. iff1 \in BOOLEAN /\ intSkip \in BOOLEAN /\ FALSE \in BOOLEAN
    BY DEF TypeOK
  <2>2. cyc' = Fetch(FALSE) \/ cyc' = Intack(im')
    BY <1>2, <2>1, EndStages
  <2> QED BY <2>2, FetchStaging
<1>3. NmiStep(d, p, in) => Staging(cyc')
  BY <1>1, <1>2 DEF NmiStep
<1>4. IntStep(d, p, in) => Staging(cyc')
  BY <1>1, <1>2 DEF IntStep
<1> QED BY <1>3, <1>4, ExecStages DEF NextStep

(* A decoder that waits for the opcode of DDCB or FDCB may read a byte or  *)
(* pass time; one that executes an instruction is not about to take it for *)
(* HALT, unless RESET has put a fetch in its way.                          *)
NotHalting ==
    cyc.kind \in Kinds \ {"fetch", "intack"} =>
        /\ ~dec.started => dec.subset = "CB"
        /\ dec.started /\ ~nmiPend /\ ~intPend /\ dec.subset = "none" /\ X(op) = 1
              => op # 118 /\ instr # 118

(* HALT is executed in one step: it has no cycle to start.                 *)
LEMMA HaltEnds ==
    ASSUME NEW d, d.subset = "none", NEW tk, NEW p, NEW in, ExecStep(d, 118, tk, p, in),
           d \in DecoderType
    PROVE  EndInstruction(d, 118, tk, p, in)
<1>1. Plan(d.subset, d.mod, 118, tk) = <<>> /\ ~UsesPtr(118) /\ ~Hole(d.subset, 118)
  BY HaltPlan DEF Hole
<1>2. Len(<<>>) = 0 /\ d.step \in Nat
  BY DEF DecoderType
<1> QED BY <1>1, <1>2 DEF ExecStep, NeedsD, NeedsPtr

(* A step that starts a further cycle leaves the decoder no HALT to run.   *)
LEMMA NextStepNotHalting ==
    ASSUME TypeOK, Coherent, cyc.kind # NoCycle, NEW d \in DecoderType, NEW o, NEW tk, NEW p,
           NEW in, NextStep(d, o, tk, p, in), d.started, d.subset = dec.subset,
           ~nmiPend /\ ~intPend => (op' = o /\ instr' = o)
              \/ (op' = op /\ o = IF dec.subset = "none" /\ X(op) = 1 /\ instr' = 118
                                    THEN 118 ELSE op)
    PROVE  NotHalting'
<1>1. ASSUME NEW c, NEW e, NEW i1, NEW q, Stay(c, e, i1, q), e.started, e.subset = d.subset,
             nmiPend \/ intPend \/ (d.subset = "none" => o # 118)
      PROVE  NotHalting'
  <2>1. dec' = e /\ nmiPend' = nmiPend /\ intPend' = intPend
    BY <1>1 DEF Stay
  <2> QED BY <1>1, <2>1 DEF NotHalting
<1>2. ASSUME NEW e, NEW hlt \in BOOLEAN, NEW i1 \in BOOLEAN, NEW i2, NEW q,
             NEW skip \in BOOLEAN, End(e, hlt, i1, i2, q, skip, in)
      PROVE  NotHalting'
  <2>1. cyc' = Fetch(hlt) \/ cyc' = Intack(im')
    BY <1>2, EndStages
  <2> QED BY <2>1, FetchFacts, IntackFacts DEF NotHalting
<1>3. CASE nmiPend \/ intPend
  <2>1. Stepped(d).started /\ Stepped(d).subset = d.subset
    BY SteppedStarted, DecoderTypes
  <2>2. iff1 \in BOOLEAN /\ intSkip \in BOOLEAN /\ FALSE \in BOOLEAN
    BY DEF TypeOK
  <2>5. ASSUME NEW c, NEW q, Stay(c, Stepped(d), iff1, q) PROVE NotHalting'
    BY <1>1, <1>3, <2>1, <2>5
  <2>6. ASSUME NEW q, End(d, FALSE, iff1, iff2, q, intSkip, in) PROVE NotHalting'
    BY <1>2, <2>2, <2>6
  <2>3. NmiStep(d, p, in) => NotHalting'
    BY <2>5, <2>6 DEF NmiStep
  <2>4. IntStep(d, p, in) => NotHalting'
    BY <2>5, <2>6 DEF IntStep
  <2> QED BY <1>3, <2>3, <2>4 DEF NextStep
<1>4. ASSUME EndInstruction(d, o, tk, p, in) PROVE NotHalting'
  <2> DEFINE hlt  == IsHALT(d.subset, d.mod, o)
             i1   == IFFAtEnd(d, o, iff1)
             skip == intSkip \/ EIShadow(d, o)
  <2>1. hlt \in BOOLEAN /\ i1 \in BOOLEAN /\ skip \in BOOLEAN
    BY DEF TypeOK, IFFAtEnd, EIShadow, IsEI, IsDI, IsHALT
  <2>2. PICK q : End(d, hlt, i1, IFFAtEnd(d, o, iff2), q, skip, in)
    BY <1>4 DEF EndInstruction
  <2> HIDE DEF hlt, i1, skip
  <2> QED BY <1>2, <2>1, <2>2
<1>5. CASE ~nmiPend /\ ~intPend /\ ExecStep(d, o, tk, p, in)
  <2>1. CASE d.subset = "none" /\ o = 118
    BY <1>4, <1>5, <2>1, HaltEnds
  <2>2. CASE ~(d.subset = "none" /\ o = 118)
    <3>1. ASSUME NEW c, NEW e, NEW i1, NEW q, Stay(c, e, i1, q), e.started, e.subset = d.subset
          PROVE  NotHalting'
      BY <1>1, <2>2, <3>1
    <3>2. ReadDisplacement(d, p) => NotHalting'
      BY <3>1 DEF ReadDisplacement, DecoderType
    <3>3. CalculatePtr(d, o, p) => NotHalting'
      BY <3>1 DEF CalculatePtr, DecoderType
    <3>4. Stepped(d).started /\ Stepped(d).subset = d.subset
      BY SteppedStarted, DecoderTypes
    <3>5. ASSUME NEW c, StartCycle(d, o, c, p) PROVE NotHalting'
      BY <3>1, <3>4, <3>5 DEF StartCycle
    <3>6. StartNothing(d, p) => NotHalting'
      BY <3>1, <3>4 DEF StartNothing
    <3> QED BY <1>4, <1>5, <3>2, <3>3, <3>5, <3>6 DEF ExecStep
  <2> QED BY <2>1, <2>2
<1> QED BY <1>3, <1>5 DEF NextStep

(* What the call of clock() in which a cycle finishes leaves to be clocked *)
(* next: a cycle that runs out by itself; or, in an empty slot behind ED,  *)
(* the finished one; or a halted fetch, only behind a fetch or an          *)
(* acknowledge.                                                            *)
Finishes ==
    \/ Staging(cyc')
    \/ cyc' = [cyc EXCEPT !.use = "expired"] /\ cyc.use # "halted"
    \/ cyc' = Fetch(TRUE) /\ cyc.kind \in MayHalt

(* Opcodes are latched by a fetch and by an acknowledge only.              *)
OpcodeAlone == cyc.use = "opcode" => cyc.kind \in {"fetch", "intack"}

(* The call of clock() in which a cycle finishes.                          *)
LEMMA FinishStages ==
    ASSUME TypeOK, Coherent, NotHalting, OpcodeAlone, FinishCycle
    PROVE  Finishes /\ NotHalting' /\ OpcodeAlone'
<1>0. Finishes => OpcodeAlone'
  BY FetchFacts DEF Finishes, Staging, OpcodeAlone, TypeOK
<1> SUFFICES Finishes /\ NotHalting'
  BY <1>0
<1>1. PICK in \in PinsSeen, b \in LatchedOpcodes, cb \in LatchedCbOpcodes : FinishWith(b, cb, in)
  BY DEF FinishCycle
<1>2. cyc.kind # NoCycle /\ cyc.use # "expired" /\ cyc.kind \in Kinds
  BY <1>1 DEF FinishWith, TypeOK
<1>3. CASE Prefix(b, in)
  <2>1. /\ cyc'.kind \in {"fetch", "memRead"} /\ cyc'.use \in {"opcode", "d"}
        /\ cyc'.kind = "memRead" => cyc'.use = "d" /\ dec'.subset = "CB"
        /\ ~dec'.started
    BY <1>2, <1>3, PrefixStages
  <2> QED BY <2>1 DEF Finishes, Staging, NotHalting
<1>4. CASE DdCb(b, cb, in)
  <2>1. /\ cyc' \in {Idle(2), Cycle("memRead", "cbop", 0)}
        /\ ~dec'.started /\ dec'.subset = "CB"
    BY <1>2, <1>4, DdCbStages
  <2>2. Staging(cyc')
    BY <2>1, FetchStaging
  <2> QED BY <2>1, <2>2 DEF Finishes, NotHalting
<1>5. CASE Begin(b, in)
  <2> DEFINE o == IF InDdCb THEN cbInstr ELSE b
             d == [dec EXCEPT !.started = TRUE, !.step = 0]
  <2>1. PICK tk \in BOOLEAN : GoesOn(d, o, tk) /\ NextStep(d, o, tk, PCAfterCycle, in)
                              /\ d \in DecoderType
    BY <1>5, BeginGoesOn
  <2>2. ~dec.started /\ (~nmiPend => op' = o /\ instr' = o)
    BY <1>5 DEF Begin
  <2>3. d.started /\ d.subset = dec.subset
    BY <2>1 DEF GoesOn
  <2> HIDE DEF o, d
  <2>4. NotHalting'
    BY <1>2, <2>1, <2>2, <2>3, NextStepNotHalting
  <2>5. Staging(cyc') \/ Stages(d, o)
    BY <2>1, NextStepStages
  <2>6. Hole(d.subset, o) => cyc.use # "halted"
    BY <1>2, <2>3, IdleFacts DEF Hole, Coherent, HaltAlone
  <2>7. IsHALT(d.subset, d.mod, o) => cyc.kind \in MayHalt
    BY <1>2, <2>2, <2>3 DEF IsHALT, NotHalting, MayHalt
  <2> QED BY <2>4, <2>5, <2>6, <2>7 DEF Stages, Finishes
<1>6. CASE Continue(b, in)
  <2>1. /\ GoesOn(dec, OpcodeSeen(b), taken) /\ NextStep(dec, OpcodeSeen(b), taken, PCAfterCycle, in)
        /\ dec \in DecoderType /\ dec.started /\ op' = op /\ instr' = b
    BY <1>6, ContinueGoesOn DEF Continue
  <2>4. NotHalting'
    BY <1>2, <2>1, NextStepNotHalting DEF OpcodeSeen
  <2>5. Staging(cyc') \/ (~nmiPend /\ ~intPend /\ Stages(dec, OpcodeSeen(b)))
    BY <2>1, NextStepStages
  <2>6. cyc.use # "halted"
    BY <1>2, <2>1, IdleFacts DEF Coherent, HaltAlone
  <2>7. ASSUME ~nmiPend, ~intPend, IsHALT(dec.subset, dec.mod, OpcodeSeen(b))
        PROVE  cyc.kind \in MayHalt
    <3> SUFFICES ASSUME cyc.kind \notin MayHalt PROVE FALSE
      OBVIOUS
    <3>1. b = instr
      BY <2>6 DEF LatchedOpcodes, OpcodeAlone, MayHalt
    <3>2. X(118) = 1
      BY DEF X
    <3>3. dec.subset = "none" /\ X(op) = 1 /\ (op = 118 \/ b = 118)
      BY <2>7, <3>2 DEF IsHALT, OpcodeSeen
    <3> QED BY <1>2, <2>1, <2>7, <3>1, <3>3 DEF NotHalting, MayHalt
  <2> QED BY <2>4, <2>5, <2>6, <2>7 DEF Stages, Finishes
<1> QED BY <1>1, <1>3, <1>4, <1>5, <1>6 DEF FinishWith

(* Every step.                                                             *)
LEMMA StepNotHalting ==
    ASSUME TypeOK, Coherent, NotHalting, OpcodeAlone, [Next]_vars
    PROVE  NotHalting' /\ OpcodeAlone'
<1>1. CASE FinishCycle
  BY <1>1, FinishStages
<1>2. CASE Throw \/ TriggerNMI \/ UNCHANGED vars
  BY <1>2 DEF Throw, TriggerNMI, vars, NotHalting, OpcodeAlone
<1>3. CASE ResetLow
  BY <1>3, StagedFacts DEF ResetLow, NotHalting, OpcodeAlone
<1>4. CASE ResetExit
  BY <1>4, FetchFacts DEF ResetExit, NotHalting, OpcodeAlone
<1> QED BY <1>1, <1>2, <1>3, <1>4 DEF Next

(* Behind a halted fetch comes another fetch, an acknowledge, or the first *)
(* cycle of the response to an NMI.                                        *)
LEMMA HaltFollowed ==
    ASSUME TypeOK, Coherent, cyc.use = "halted", FinishCycle
    PROVE  \/ cyc'.kind \in {"fetch", "intack"}
           \/ cyc' = Idle(1) /\ dec'.started /\ dec'.step = 1 /\ nmiPend'
<1>1. PICK in \in PinsSeen, b \in LatchedOpcodes, cb \in LatchedCbOpcodes : FinishWith(b, cb, in)
  BY DEF FinishCycle
<1>2. dec = IdleDecoder /\ ~intPend /\ b = 0 /\ cyc.kind # NoCycle
  BY <1>1, StagedFacts DEF Coherent, HaltAlone, LatchedOpcodes, FinishWith
<1>3. ~Prefix(b, in) /\ ~DdCb(b, cb, in) /\ ~Continue(b, in)
  BY <1>2, IdleFacts DEF Prefix, AtPrefix, Prefixes, DdCb, AtDdCb, InDdCb, Continue
<1>4. Begin(b, in)
  BY <1>1, <1>3 DEF FinishWith
<1> DEFINE d == [dec EXCEPT !.started = TRUE, !.step = 0]
<1>5. PICK tk \in BOOLEAN : NextStep(d, 0, tk, PCAfterCycle, in) /\ d \in DecoderType
                            /\ d.step = 0 /\ d.subset = "none" /\ d.started
  <2>1. ~InDdCb
    BY <1>2, IdleFacts DEF InDdCb
  <2> QED BY <1>2, <1>4, <2>1, BeginGoesOn, IdleFacts DEF GoesOn
<1> HIDE DEF d
<1>6. CASE nmiPend
  <2>1. Stay(Idle(1), Stepped(d), iff1, NmiRewind(PCAfterCycle))
    BY <1>5, <1>6 DEF NextStep, NmiStep
  <2> QED BY <1>5, <1>6, <2>1, SteppedStarted, DecoderTypes DEF Stay
<1>7. CASE ~nmiPend
  <2>1. X(0) = 0 /\ Y(0) = 0 /\ Z(0) = 0
    BY DEF X, Y, Z
  <2>2. Plan(d.subset, d.mod, 0, tk) = <<>> /\ ~UsesPtr(0) /\ ~Hole(d.subset, 0)
    BY <1>5, <2>1 DEF Plan, PlanQ0, UsesPtr, Hole
  <2>3. EndInstruction(d, 0, tk, PCAfterCycle, in)
    BY <1>2, <1>5, <1>7, <2>2 DEF NextStep, ExecStep, NeedsD, NeedsPtr
  <2>4. IsHALT(d.subset, d.mod, 0) = FALSE
    BY DEF IsHALT
  <2>5. ASSUME NEW i1, NEW i2, NEW q, NEW skip, End(d, FALSE, i1, i2, q, skip, in)
        PROVE  cyc'.kind \in {"fetch", "intack"}
    BY <2>5, FetchFacts, IntackFacts DEF End, Poll, AcceptNMI, AcceptINT, NoInterrupt
  <2> QED BY <2>3, <2>4, <2>5 DEF EndInstruction
<1> QED BY <1>6, <1>7

-----------------------------------------------------------------------------
(* Until the handler writes a flip-flop, IFF2 is what IFF1 was at the NMI. *)
SavedIsIFF2 == saved \subseteq {iff2}

(* A step that starts a further cycle leaves IFF2 alone.                   *)
LEMMA StaySaved ==
    ASSUME SavedIsIFF2, NEW c, NEW e, NEW i1, NEW p, Stay(c, e, i1, p)
    PROVE  SavedIsIFF2'
BY DEF SavedIsIFF2, Stay

(* The polling saves IFF1 in IFF2, or forgets what was saved when either   *)
(* flip-flop is written.                                                   *)
LEMMA PollSaved ==
    ASSUME SavedIsIFF2, NEW c, NEW i1, NEW i2, NEW p, NEW skipN, NEW skipI, NEW in,
           Poll(c, i1, i2, p, skipN, skipI, in)
    PROVE  SavedIsIFF2'
BY DEF SavedIsIFF2, Poll, AcceptNMI, AcceptINT, NoInterrupt, SavedIFF1

(* next_step() as a whole.                                                 *)
LEMMA NextStepSaved ==
    ASSUME SavedIsIFF2, NEW d, NEW o, NEW tk, NEW p, NEW in, NextStep(d, o, tk, p, in)
    PROVE  SavedIsIFF2'
<1>1. ASSUME NEW e, NEW hlt, NEW i1, NEW i2, NEW q, NEW skipI, End(e, hlt, i1, i2, q, skipI, in)
      PROVE  SavedIsIFF2'
  BY <1>1, PollSaved DEF End
<1>2. NmiStep(d, p, in) => SavedIsIFF2'
  BY <1>1, StaySaved DEF NmiStep
<1>3. IntStep(d, p, in) => SavedIsIFF2'
  BY <1>1, StaySaved DEF IntStep
<1>4. ExecStep(d, o, tk, p, in) => SavedIsIFF2'
  <2>1. EndInstruction(d, o, tk, p, in) => SavedIsIFF2'
    BY <1>1 DEF EndInstruction
  <2>2. ReadDisplacement(d, p) \/ CalculatePtr(d, o, p) \/ StartNothing(d, p) => SavedIsIFF2'
    BY StaySaved DEF ReadDisplacement, CalculatePtr, StartNothing
  <2>3. \A c : StartCycle(d, o, c, p) => SavedIsIFF2'
    BY StaySaved DEF StartCycle
  <2> QED BY <2>1, <2>2, <2>3, Zenon DEF ExecStep
<1> QED BY <1>2, <1>3, <1>4 DEF NextStep

(* Every step.                                                             *)
LEMMA StepSaved == SavedIsIFF2 /\ [Next]_vars => SavedIsIFF2'
<1> SUFFICES ASSUME SavedIsIFF2, [Next]_vars PROVE SavedIsIFF2'
  OBVIOUS
<1>1. CASE FinishCycle
  <2>1. PICK in \in PinsSeen, b \in LatchedOpcodes, cb \in LatchedCbOpcodes : FinishWith(b, cb, in)
    BY <1>1 DEF FinishCycle
  <2>0. ASSUME NEW c, NEW p, Poll(c, iff1, iff2, p, TRUE, TRUE, in) PROVE SavedIsIFF2'
    BY <2>0, PollSaved, Zenon
  <2>2. Prefix(b, in) => SavedIsIFF2'
    <3> SUFFICES ASSUME Prefix(b, in) PROVE SavedIsIFF2'
      OBVIOUS
    <3>1. PICK c \in {Cycle("memRead", "d", 0), Fetch(FALSE)},
               p \in {PCAfterCycle, Addr(PCAfterCycle + 1)} :
             Poll(c, iff1, iff2, p, TRUE, TRUE, in)
      BY DEF Prefix, PrefixSkipsNmi
    <3> QED BY <2>0, <3>1
  <2>4. DdCb(b, cb, in) => SavedIsIFF2'
    BY <2>0, Zenon DEF DdCb, PrefixSkipsNmi
  <2>3. Begin(b, in) \/ Continue(b, in) => SavedIsIFF2'
    BY NextStepSaved DEF Begin, Continue
  <2> QED BY <2>1, <2>2, <2>3, <2>4 DEF FinishWith
<1>2. CASE Throw \/ TriggerNMI \/ ResetLow \/ UNCHANGED vars
  BY <1>2 DEF Throw, TriggerNMI, ResetLow, vars, SavedIsIFF2
<1>3. CASE ResetExit
  BY <1>3 DEF ResetExit, SavedIsIFF2
<1> QED BY <1>1, <1>2, <1>3 DEF Next

(* A call in which an instruction starts its first cycle.                  *)
LEMMA FirstStep ==
    ASSUME TypeOK, [Next]_vars, ~dec.started, dec'.started
    PROVE  \E in \in PinsSeen, b \in LatchedOpcodes : Begin(b, in)
<1>1. dec \in DecoderType
  BY DEF TypeOK
<1>2. ASSUME NEW b, NEW in, Prefix(b, in) PROVE FALSE
  BY <1>1, <1>2 DEF Prefix, Prefixed, DecoderType
<1>3. ASSUME NEW b, NEW cb, NEW in, DdCb(b, cb, in) PROVE FALSE
  BY <1>1, <1>3 DEF DdCb, DecoderType
<1>4. FinishCycle
  BY DEF Next, Throw, TriggerNMI, ResetLow, ResetExit, vars
<1>5. ASSUME NEW b, NEW in, Continue(b, in) PROVE FALSE
  BY <1>5 DEF Continue
<1> QED BY <1>2, <1>3, <1>4, <1>5 DEF FinishCycle, FinishWith

(* The first step of RETN copies IFF2 to IFF1.                             *)
LEMMA RetnStep ==
    ASSUME TypeOK, [Next]_vars, dec'.started, ~dec.started,
           IsRETN(dec.subset, op'), ~nmiPend, ~intPend
    PROVE  iff1' = iff2
<1>1. PICK in \in PinsSeen, b \in LatchedOpcodes : Begin(b, in)
  BY FirstStep
<1> DEFINE o == IF InDdCb THEN cbInstr ELSE b
           d == [dec EXCEPT !.started = TRUE, !.step = 0]
<1>2. PICK tk \in BOOLEAN : GoesOn(d, o, tk) /\ NextStep(d, o, tk, PCAfterCycle, in)
                            /\ d \in DecoderType /\ d.step = 0
  BY <1>1, BeginGoesOn
<1> HIDE DEF o, d
<1>3. dec.subset = "ED" /\ d.subset = "ED" /\ o = op' /\ ExecStep(d, o, tk, PCAfterCycle, in)
  BY <1>2 DEF GoesOn, IsRETN, NextStep
<1>4. ASSUME NEW c, StartCycle(d, o, c, PCAfterCycle) PROVE iff1' = iff2
  BY <1>2, <1>3, <1>4 DEF StartCycle, Stay, IFF1AtStart
<1>5. ~Hole(d.subset, o)
  BY <1>3 DEF IsRETN, Hole
<1>6. ~EndInstruction(d, o, tk, PCAfterCycle, in)
  BY DEF EndInstruction, End, ResetDecoder, IdleDecoder
<1> QED BY <1>3, <1>4, <1>5, <1>6 DEF ExecStep, NeedsD, NeedsPtr

(* In every run RETN gives IFF1 the value it had when the NMI was          *)
(* accepted, unless the handler has written a flip-flop (z80emu.cpp:60).   *)
THEOREM RetnRestoresAlways == Spec => RetnRestores
<1>1. Init => SavedIsIFF2
  BY DEF Init, SavedIsIFF2
<1>2. SavedIsIFF2 /\ [Next]_vars => SavedIsIFF2'
  BY StepSaved
<1>3. TypeOK /\ SavedIsIFF2 /\ [Next]_vars
        => ((/\ dec'.started /\ dec'.step = 1 /\ ~dec.started
             /\ IsRETN(dec.subset, op') /\ ~nmiPend /\ ~intPend /\ saved # {})
               => iff1' \in saved)
  BY RetnStep DEF SavedIsIFF2
<1> QED BY <1>1, <1>2, <1>3, ControlTypeCorrect, PTL DEF Spec, RetnRestores

-----------------------------------------------------------------------------
(* A further cycle drops no interrupt.                                     *)
LEMMA StayServes ==
    ASSUME NEW c, NEW e, NEW i1, NEW p, Stay(c, e, i1, p)
    PROVE  ~Dropped
BY DEF Stay, Dropped

(* A response runs to its last step.                                       *)
LEMMA ServeServes ==
    ASSUME NEW d \in DecoderType, NEW p, NEW in, NmiStep(d, p, in) \/ IntStep(d, p, in),
           d.step = 0 \/ (dec.started /\ d = dec)
    PROVE  ~Dropped
<1>1. d.step > 2 => ~Dropped
  <2>1. d.step \in Nat
    BY DecoderTypes
  <2> QED BY <2>1 DEF Dropped
<1>2. NmiStep(d, p, in) => ~Dropped
  BY <1>1, StayServes DEF NmiStep
<1>3. IntStep(d, p, in) => ~Dropped
  <2>1. d.step = 3 \/ d.step > 4 => d.step > 2
    BY DecoderTypes
  <2> QED BY <1>1, <2>1, StayServes DEF IntStep
<1> QED BY <1>2, <1>3

(* start() drops an interrupt only on a byte with the value of a prefix,   *)
(* which an NMI does not look at.                                          *)
LEMMA StepServes ==
    ASSUME TypeOK, Coherent, [Next]_vars, Dropped
    PROVE  ~nmiPend /\ instr \in Prefixes
<1>1. FinishCycle
  BY DEF Next, Throw, TriggerNMI, ResetLow, ResetExit, vars, Dropped
<1>2. PICK in \in PinsSeen, b \in LatchedOpcodes, cb \in LatchedCbOpcodes : FinishWith(b, cb, in)
  BY <1>1 DEF FinishCycle
<1>3. cyc.kind # NoCycle /\ (nmiPend \/ intPend)
  BY <1>2 DEF FinishWith, Dropped
<1>4. CASE Prefix(b, in)
  <2>1. ~nmiPend /\ ~dec.started /\ b \in Prefixes
    BY <1>4 DEF Prefix, AtPrefix
  <2>2. cyc.use = "vector"
    BY <1>3, <2>1 DEF Coherent, Responding
  <2> QED BY <2>1, <2>2 DEF LatchedOpcodes
<1>5. CASE DdCb(b, cb, in)
  <2>1. ~nmiPend /\ ~dec.started /\ dec.subset = "CB"
    BY <1>5 DEF DdCb, AtDdCb, InDdCb
  <2> QED BY <1>3, <2>1, IdleFacts DEF Coherent, Responding, AckAlone
<1>6. CASE Begin(b, in)
  <2> DEFINE o == IF InDdCb THEN cbInstr ELSE b
             d == [dec EXCEPT !.started = TRUE, !.step = 0]
  <2>1. PICK tk \in BOOLEAN : NextStep(d, o, tk, PCAfterCycle, in)
                              /\ d \in DecoderType /\ d.step = 0
    BY <1>6, BeginGoesOn
  <2> HIDE DEF o, d
  <2> QED BY <1>3, <2>1, ServeServes DEF NextStep
<1>7. CASE Continue(b, in)
  <2>1. dec.started
    BY <1>7 DEF Continue
  <2> QED BY <1>3, <1>7, <2>1, ContinueGoesOn, ServeServes DEF NextStep
<1> QED BY <1>2, <1>4, <1>5, <1>6, <1>7 DEF FinishWith

(* In every run an accepted interrupt is served to the end, unless it is   *)
(* INT and the last opcode byte has the value of a prefix; that exception  *)
(* is real (see the run that expects it).                                  *)
THEOREM InterruptsServed == Spec => InterruptServed
<1>1. TypeOK /\ Coherent /\ [Next]_vars => (Dropped => ~nmiPend /\ instr \in Prefixes)
  BY StepServes
<1> QED BY <1>1, ControlTypeCorrect, ControlCoherent, PTL DEF Spec, InterruptServed

-----------------------------------------------------------------------------
(* The bytes the decoder holds come from memory or the bus, or are NOPs.   *)
FromMemory == {instr, op, cbInstr} \subseteq Opcodes \cup {0}

(* Every step.                                                             *)
LEMMA StepFromMemory == FromMemory /\ [Next]_vars => FromMemory'
<1> SUFFICES ASSUME FromMemory, [Next]_vars PROVE FromMemory'
  OBVIOUS
<1>0. LatchedOpcodes \subseteq Opcodes \cup {0} /\ LatchedCbOpcodes \subseteq Opcodes \cup {0}
  BY DEF FromMemory, LatchedOpcodes, LatchedCbOpcodes
<1>1. CASE FinishCycle
  <2>1. PICK in \in PinsSeen, b \in LatchedOpcodes, cb \in LatchedCbOpcodes : FinishWith(b, cb, in)
    BY <1>1 DEF FinishCycle
  <2>2. b \in Opcodes \cup {0} /\ cb \in Opcodes \cup {0}
    BY <1>0, <2>1
  <2>3. Prefix(b, in) => FromMemory'
    BY <2>2 DEF Prefix, FromMemory
  <2>4. DdCb(b, cb, in) => FromMemory'
    BY <2>2 DEF DdCb, FromMemory
  <2>5. Begin(b, in) => FromMemory'
    BY <2>2 DEF Begin, FromMemory
  <2>6. Continue(b, in) => FromMemory'
    BY <2>2 DEF Continue, FromMemory
  <2> QED BY <2>1, <2>3, <2>4, <2>5, <2>6 DEF FinishWith
<1>2. CASE Throw \/ TriggerNMI \/ UNCHANGED vars
  BY <1>2 DEF Throw, TriggerNMI, vars, FromMemory
<1>3. CASE ResetLow
  BY <1>0, <1>3 DEF ResetLow, FromMemory
<1>4. CASE ResetExit
  BY <1>4 DEF ResetExit, FromMemory
<1> QED BY <1>1, <1>2, <1>3, <1>4 DEF Next

(* No cycle has run out, and none has been clocked past its end.           *)
NeverExpired == cyc.use # "expired" /\ ~fault

(* The step that calls reset() stages a cycle with a next one.             *)
LEMMA EndLives ==
    ASSUME NEW e, NEW hlt, NEW i1, NEW i2, NEW q, NEW skipI, NEW in,
           End(e, hlt, i1, i2, q, skipI, in)
    PROVE  cyc'.use # "expired"
<1>1. Fetch(hlt).use # "expired" /\ Intack(im').use # "expired"
  BY DEF Fetch, Intack, Cycle
<1> QED BY <1>1 DEF End, Poll, AcceptNMI, AcceptINT, NoInterrupt

(* So does every step of an instruction that is in no empty slot.          *)
LEMMA ExecLives ==
    ASSUME NEW d \in DecoderType, NEW o, ~Hole(d.subset, o), NEW tk, NEW p, NEW in,
           ExecStep(d, o, tk, p, in)
    PROVE  cyc'.use # "expired"
<1> DEFINE plan == Plan(d.subset, d.mod, o, tk)
<1>0. Cycle("memRead", "d", 0).use # "expired" /\ \A n : Idle(n).use # "expired"
  BY StagedFacts
<1>1. CASE ReadDisplacement(d, p) \/ CalculatePtr(d, o, p)
  BY <1>0, <1>1 DEF ReadDisplacement, CalculatePtr, Stay
<1>2. CASE d.step < Len(plan) /\ StartCycle(d, o, plan[d.step + 1], p)
  <2>1. plan \in Plans /\ d.step \in Nat
    BY PlanType, DecoderTypes
  <2> HIDE DEF plan
  <2>2. plan[d.step + 1] \in PlanCycles
    BY <1>2, <2>1 DEF Plans
  <2>3. plan[d.step + 1].use # "expired"
    BY <2>2 DEF PlanCycles, PlanUses
  <2> QED BY <1>2, <2>3 DEF StartCycle, Stay
<1>3. CASE EndInstruction(d, o, tk, p, in)
  BY <1>3, EndLives DEF EndInstruction
<1> QED BY <1>1, <1>2, <1>3 DEF ExecStep

(* next_step() as a whole.                                                 *)
LEMMA NextStepLives ==
    ASSUME NEW d \in DecoderType, NEW o, ~nmiPend /\ ~intPend => ~Hole(d.subset, o),
           NEW tk, NEW p, NEW in, NextStep(d, o, tk, p, in)
    PROVE  cyc'.use # "expired"
<1>1. \A c \in {Idle(1), Push, Read} : c.use # "expired"
  BY StagedFacts
<1>2. ASSUME NEW c \in {Idle(1), Push, Read}, NEW e, NEW i1, NEW q, Stay(c, e, i1, q)
      PROVE  cyc'.use # "expired"
  BY <1>1, <1>2 DEF Stay
<1>3. NmiStep(d, p, in) => cyc'.use # "expired"
  BY <1>2, EndLives DEF NmiStep
<1>4. IntStep(d, p, in) => cyc'.use # "expired"
  BY <1>2, EndLives DEF IntStep
<1> QED BY <1>3, <1>4, ExecLives DEF NextStep

(* No opcode of memory stands in an empty slot of the ED table.            *)
NoHoles == \A o \in Opcodes : ~Hole("ED", o)

(* Nor do the NOP of a reset and HALT.                                     *)
LEMMA NoHoleHeld == NoHoles => \A s : \A o \in Opcodes \cup {0, 118} : ~Hole(s, o)
<1>1. X(0) = 0 /\ X(118) = 1
  BY DEF X
<1> QED BY <1>1 DEF NoHoles, Hole

(* Every step.                                                             *)
LEMMA StepLives ==
    ASSUME NoHoles, TypeOK, Coherent, FromMemory, FromMemory', NeverExpired, [Next]_vars
    PROVE  NeverExpired'
<1>1. CASE FinishCycle
  <2>1. PICK in \in PinsSeen, b \in LatchedOpcodes, cb \in LatchedCbOpcodes : FinishWith(b, cb, in)
    BY <1>1 DEF FinishCycle
  <2>2. cyc.kind # NoCycle /\ fault' = fault
    BY <2>1 DEF FinishWith
  <2>3. CASE Prefix(b, in)
    BY <2>2, <2>3, PrefixStages DEF NeverExpired
  <2>4. CASE DdCb(b, cb, in)
    BY <2>2, <2>4, DdCbStages DEF NeverExpired
  <2>5. CASE Begin(b, in)
    <3> DEFINE o == IF InDdCb THEN cbInstr ELSE b
               d == [dec EXCEPT !.started = TRUE, !.step = 0]
    <3>1. PICK tk \in BOOLEAN : GoesOn(d, o, tk) /\ NextStep(d, o, tk, PCAfterCycle, in)
                                /\ d \in DecoderType
      BY <2>5, BeginGoesOn
    <3> HIDE DEF o, d
    <3>2. ~nmiPend /\ ~intPend => o \in Opcodes \cup {0, 118}
      BY <3>1 DEF GoesOn, FromMemory
    <3> QED BY <2>2, <3>1, <3>2, NoHoleHeld, NextStepLives DEF NeverExpired
  <2>6. CASE Continue(b, in)
    <3>1. OpcodeSeen(b) \in Opcodes \cup {0, 118}
      BY DEF OpcodeSeen, FromMemory
    <3> QED BY <2>2, <2>6, <3>1, ContinueGoesOn, NoHoleHeld, NextStepLives DEF NeverExpired
  <2> QED BY <2>1, <2>3, <2>4, <2>5, <2>6 DEF FinishWith
<1>2. CASE TriggerNMI \/ UNCHANGED vars
  BY <1>2 DEF TriggerNMI, vars, NeverExpired
<1>3. CASE ResetLow
  BY <1>3, StagedFacts DEF ResetLow, NeverExpired
<1>4. CASE ResetExit
  BY <1>4, FetchFacts DEF ResetExit, NeverExpired
<1>5. ~Throw
  BY DEF Throw, NeverExpired
<1> QED BY <1>1, <1>2, <1>3, <1>4, <1>5 DEF Next

(* Power-on.                                                               *)
LEMMA InitFromMemory == Init => FromMemory /\ NeverExpired
BY StagedFacts DEF Init, FromMemory, NeverExpired

-----------------------------------------------------------------------------
(* _nmi_pending: PC-- takes back the PC++ of the fetch, also where PC      *)
(* wraps.                                                                  *)
LEMMA RewindUndoes == \A p \in PCs : NmiRewind(Addr(p + 1)) = p
<1> SUFFICES ASSUME NEW p \in 0..PCMod - 1 PROVE (((p + 1) % PCMod) + PCMod - 1) % PCMod = p
  BY DEF PCs, NmiRewind, Addr
<1>0. PCMod \in Nat \ {0}
  BY PCModAssumption
<1>1. \A a \in 0..PCMod - 1 : a % PCMod = a /\ (a + PCMod) % PCMod = a
  BY <1>0
<1>2. CASE p + 1 < PCMod
  <2>1. (p + 1) % PCMod = p + 1
    BY <1>0, <1>1, <1>2
  <2>2. (p + 1) + PCMod - 1 = p + PCMod
    BY <1>0
  <2> QED BY <1>1, <2>1, <2>2
<1>3. CASE p + 1 = PCMod
  <2>1. (p + 1) % PCMod = 0
    BY <1>0, <1>3
  <2>2. 0 + PCMod - 1 = p
    BY <1>0, <1>3
  <2> QED BY <1>1, <2>1, <2>2
<1> QED BY <1>0, <1>2, <1>3

(* While a response is under way PC is where it was accepted, but for the  *)
(* fetch that an NMI takes back.                                           *)
Returns ==
    /\ cyc.use # "halted"
    /\ (nmiPend \/ intPend) /\ cyc.kind # NoCycle
         => pc = resume /\ (cyc.kind = "fetch" => cyc.use = "opcode")

(* The step that accepts an interrupt: PC is noted, and with no HALT about *)
(* it is not moved.                                                        *)
LEMMA EndReturns ==
    ASSUME NEW d, NEW hlt \in BOOLEAN, ~hlt, NEW i1 \in BOOLEAN, NEW i2, NEW p,
           NEW skipI \in BOOLEAN, NEW in, ~in.halted, End(d, hlt, i1, i2, p, skipI, in)
    PROVE  Returns'
<1>1. \/ cyc' = Fetch(hlt) /\ ~intPend' /\ (nmiPend' => pc' = resume')
      \/ cyc' = Intack(im') /\ ~nmiPend' /\ (intPend' => pc' = resume')
  <2>1. \/ cyc' = Fetch(hlt) /\ ~intPend' /\ (nmiPend' => pc' = p /\ resume' = p)
        \/ cyc' = Intack(im') /\ ~nmiPend' /\ (intPend' => resume' = p) /\ (~in.halted => pc' = p)
    BY EndStages, ZenonT(60)
  <2> QED BY <2>1
<1>2. Fetch(hlt).use = "opcode" /\ Intack(im').kind = "intack" /\ Intack(im').use # "halted"
  BY IntackFacts DEF Fetch, Cycle
<1> QED BY <1>1, <1>2 DEF Returns

(* Every step of the response keeps PC up to the one that writes it, and   *)
(* the rewound fetch of an NMI is the one cycle that moves it.             *)
LEMMA ServeReturns ==
    ASSUME TypeOK, Coherent, Returns, cyc.kind # NoCycle, nmiPend \/ intPend,
           NEW d \in DecoderType, d.step = 0 <=> ~dec.started, NEW in, ~in.halted,
           IF nmiPend THEN NmiStep(d, PCAfterCycle, in) ELSE IntStep(d, PCAfterCycle, in)
    PROVE  /\ Returns'
           /\ cyc'.use = "push" => nmiPend' = nmiPend /\ intPend' = intPend /\ resume' = resume
<1> DEFINE Goal == /\ Returns'
                   /\ cyc'.use = "push" => nmiPend' = nmiPend /\ intPend' = intPend /\ resume' = resume
<1>1. ASSUME NEW c \in {Idle(1), Push, Read}, NEW q, q = pc, Stay(c, Stepped(d), iff1, q) PROVE Goal
  <2>1. c.kind # "fetch" /\ c.use # "halted"
    BY StagedFacts
  <2>2. cyc' = c /\ pc' = pc /\ UNCHANGED <<nmiPend, intPend, resume>>
    BY <1>1 DEF Stay
  <2> QED BY <2>1, <2>2 DEF Returns
<1>2. ASSUME NEW q, End(d, FALSE, iff1, iff2, q, intSkip, in) PROVE Goal
  <2>1. iff1 \in BOOLEAN /\ intSkip \in BOOLEAN /\ FALSE \in BOOLEAN
    BY DEF TypeOK
  <2>2. cyc' = Fetch(FALSE) \/ cyc' = Intack(im')
    BY <1>2, <2>1, EndStages
  <2>3. cyc'.use # "push"
    BY <2>2 DEF Fetch, Intack, Cycle
  <2> QED BY <1>2, <2>1, <2>3, EndReturns
<1>3. pc \in PCs /\ pc = resume
  BY DEF TypeOK, Returns
<1>4. CASE ~dec.started /\ nmiPend
  <2>1. PCAfterCycle = Addr(pc + 1)
    BY <1>4 DEF PCAfterCycle, Coherent, Responding, Returns
  <2>2. NmiRewind(PCAfterCycle) = pc
    BY <1>3, <2>1, RewindUndoes
  <2>3. Stay(Idle(1), Stepped(d), iff1, NmiRewind(PCAfterCycle))
    <3>1. NmiStep(d, PCAfterCycle, in) /\ d.step = 0
      BY <1>4
    <3>2. ~(0 \in 1..2) /\ ~(0 > 2)
      OBVIOUS
    <3> QED BY <3>1, <3>2, Zenon DEF NmiStep
  <2> QED BY <1>1, <2>2, <2>3
<1>5. CASE dec.started \/ ~nmiPend
  <2>1. PCAfterCycle = pc
    BY <1>5 DEF PCAfterCycle, Coherent, Responding, Memory
  <2>2. nmiPend => d.step # 0
    BY <1>5
  <2>3. NmiStep(d, PCAfterCycle, in) /\ nmiPend => Goal
    BY <1>1, <1>2, <2>1, <2>2 DEF NmiStep
  <2>4. IntStep(d, PCAfterCycle, in) => Goal
    BY <1>1, <1>2, <2>1 DEF IntStep
  <2> QED BY <2>3, <2>4
<1> QED BY <1>4, <1>5

(* The steps of an instruction but HALT.                                   *)
LEMMA ExecReturns ==
    ASSUME TypeOK, Returns, cyc.kind # NoCycle, ~nmiPend, ~intPend,
           NEW d \in DecoderType, NEW o, o # 118, NEW tk, NEW p, NEW in, ~in.halted,
           ExecStep(d, o, tk, p, in)
    PROVE  Returns'
<1> DEFINE plan == Plan(d.subset, d.mod, o, tk)
<1>1. ASSUME NEW c, NEW e, NEW i1, NEW q, Stay(c, e, i1, q), c.use # "halted" PROVE Returns'
  BY <1>1 DEF Stay, Returns
<1>2. CASE ReadDisplacement(d, p) \/ CalculatePtr(d, o, p)
  <2>1. Cycle("memRead", "d", 0).use # "halted" /\ \A n : Idle(n).use # "halted"
    BY StagedFacts
  <2> QED BY <1>1, <1>2, <2>1 DEF ReadDisplacement, CalculatePtr
<1>3. CASE d.step < Len(plan) /\ StartCycle(d, o, plan[d.step + 1], p)
  <2>1. plan \in Plans /\ d.step \in Nat
    BY PlanType, DecoderTypes
  <2> HIDE DEF plan
  <2>2. plan[d.step + 1] \in PlanCycles
    BY <1>3, <2>1 DEF Plans
  <2>3. plan[d.step + 1].use # "halted"
    BY <2>2 DEF PlanCycles, PlanUses
  <2> QED BY <1>1, <1>3, <2>3 DEF StartCycle
<1>4. CASE StartNothing(d, p)
  <2>1. [cyc EXCEPT !.use = "expired"].use = "expired"
    BY DEF TypeOK
  <2> QED BY <1>1, <1>4, <2>1 DEF StartNothing
<1>5. CASE EndInstruction(d, o, tk, p, in)
  <2> DEFINE i1   == IFFAtEnd(d, o, iff1)
             skip == intSkip \/ EIShadow(d, o)
             hlt  == IsHALT(d.subset, d.mod, o)
  <2>1. i1 \in BOOLEAN /\ skip \in BOOLEAN /\ hlt \in BOOLEAN /\ ~hlt
    BY DEF IFFAtEnd, EIShadow, IsEI, IsDI, IsHALT, TypeOK
  <2>2. PICK q : End(d, hlt, i1, IFFAtEnd(d, o, iff2), q, skip, in)
    BY <1>5 DEF EndInstruction
  <2> HIDE DEF i1, skip, hlt
  <2> QED BY <2>1, <2>2, EndReturns
<1> QED BY <1>2, <1>3, <1>4, <1>5 DEF ExecStep

(* The call of clock() in which a cycle finishes.                          *)
LEMMA FinishReturns ==
    ASSUME 118 \notin Opcodes, TypeOK, Coherent, FromMemory, Returns, FinishCycle
    PROVE  /\ Returns'
           /\ (nmiPend \/ intPend) /\ cyc'.use = "push"
                => nmiPend' = nmiPend /\ intPend' = intPend /\ resume' = resume
<1>1. PICK in \in PinsSeen, b \in LatchedOpcodes, cb \in LatchedCbOpcodes : FinishWith(b, cb, in)
  BY DEF FinishCycle
<1>2. cyc.kind # NoCycle /\ ~in.halted
  <2>1. HaltPins = {FALSE}
    BY DEF HaltPins, Returns
  <2> QED BY <1>1, <2>1 DEF FinishWith, PinsSeen
<1>3. b # 118 /\ op # 118 /\ cbInstr # 118
  BY <1>1 DEF FromMemory, LatchedOpcodes
<1>4. CASE Prefix(b, in)
  <2>1. ~nmiPend' /\ ~intPend' /\ cyc'.use \in {"opcode", "d"}
    BY <1>2, <1>4, PrefixStages
  <2> QED BY <2>1 DEF Returns
<1>5. CASE DdCb(b, cb, in)
  <2>1. ~nmiPend' /\ ~intPend' /\ cyc'.use \in {"idle", "cbop"}
    BY <1>2, <1>5, DdCbStages
  <2> QED BY <2>1 DEF Returns
<1>6. CASE Begin(b, in)
  <2> DEFINE o == IF InDdCb THEN cbInstr ELSE b
             d == [dec EXCEPT !.started = TRUE, !.step = 0]
  <2>1. PICK tk \in BOOLEAN : NextStep(d, o, tk, PCAfterCycle, in)
                              /\ d \in DecoderType /\ d.step = 0
    BY <1>6, BeginGoesOn
  <2>2. ~dec.started /\ o # 118
    BY <1>3, <1>6 DEF Begin
  <2> HIDE DEF o, d
  <2>3. CASE nmiPend \/ intPend
    BY <1>2, <2>1, <2>2, <2>3, ServeReturns DEF NextStep
  <2>4. CASE ~nmiPend /\ ~intPend
    BY <1>2, <2>1, <2>2, <2>4, ExecReturns DEF NextStep
  <2> QED BY <2>3, <2>4
<1>7. CASE Continue(b, in)
  <2>1. dec.started /\ OpcodeSeen(b) # 118 /\ dec \in DecoderType
          /\ NextStep(dec, OpcodeSeen(b), taken, PCAfterCycle, in)
    BY <1>3, <1>7, ContinueGoesOn DEF Continue, OpcodeSeen
  <2>2. nmiPend \/ intPend => dec.step # 0
    BY <1>2, <2>1, DecoderTypes DEF Coherent, Responding
  <2>3. CASE nmiPend \/ intPend
    BY <1>2, <2>1, <2>2, <2>3, ServeReturns DEF NextStep
  <2>4. CASE ~nmiPend /\ ~intPend
    BY <1>2, <2>1, <2>4, ExecReturns DEF NextStep
  <2> QED BY <2>3, <2>4
<1> QED BY <1>1, <1>4, <1>5, <1>6, <1>7 DEF FinishWith

(* Every step.                                                             *)
LEMMA StepReturns ==
    ASSUME 118 \notin Opcodes, TypeOK, Coherent, FromMemory, Returns, [Next]_vars
    PROVE  Returns' /\ ((nmiPend \/ intPend) /\ cyc'.use = "push" => pc' = resume)
<1>1. CASE FinishCycle
  <2>1. Coherent'
    BY <1>1, FinishCoherent
  <2>2. cyc'.use = "push" => cyc'.kind # NoCycle
    BY <2>1, StagedFacts DEF Coherent
  <2> QED BY <1>1, <2>2, FinishReturns DEF Returns
<1>2. CASE Throw \/ TriggerNMI \/ UNCHANGED vars
  <2>1. UNCHANGED <<cyc, pc, resume, nmiPend, intPend>>
    BY <1>2 DEF Throw, TriggerNMI, vars
  <2>2. cyc.use = "push" => cyc.kind # NoCycle
    BY StagedFacts DEF Coherent
  <2> QED BY <2>1, <2>2 DEF Returns
<1>3. CASE ResetLow
  BY <1>3, StagedFacts DEF ResetLow, Returns
<1>4. CASE ResetExit
  BY <1>4, FetchFacts DEF ResetExit, Returns
<1> QED BY <1>1, <1>2, <1>3, <1>4 DEF Next

(* In every run of a program without HALT what an interrupt pushes is the  *)
(* address of the first instruction not executed (z80emu.cpp:73,           *)
(* instr_decoder.cpp:83). Behind HALT INT pushes another one (see the run  *)
(* that expects it).                                                       *)
THEOREM ReturnsToNext == ASSUME 118 \notin Opcodes PROVE Spec => ReturnAddress
<1>1. Init => FromMemory /\ Returns
  BY InitFromMemory, StagedFacts DEF Init, Returns
<1>2. FromMemory /\ [Next]_vars => FromMemory'
  BY StepFromMemory
<1>3. TypeOK /\ Coherent /\ FromMemory /\ Returns /\ [Next]_vars
        => Returns' /\ ((nmiPend \/ intPend) /\ cyc'.use = "push" => pc' = resume)
  BY StepReturns
<1> QED BY <1>1, <1>2, <1>3, ControlTypeCorrect, ControlCoherent, PTL DEF Spec, ReturnAddress
=============================================================================
