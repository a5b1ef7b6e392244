# A formal model of llz80emu

llz80emu emulates a Z80 at the level of its pins: the host calls `clock()` once
per edge of CLK with the levels of the input pins and gets the output pins
back. This directory holds TLA+ modules that model it, TLC configurations that
check them on finite instances, and TLAPS proofs about the pins, the decoder,
their composition and what the instructions compute.

## Inventory

| component | source | state | operations |
|---|---|---|---|
| CPU core | `z80emu.cpp/.h` | `_clkpin`, `_por`, `_cycle`, `_intpin`, skip and pending flags of NMI and INT, `_nmiff`, `_reset_cycles`, `_reset_m1t2` | `clock`, `set_clkpin`, `trigger_nmi`, `start_*_cycle`, `skip_*_handling`, `get/set_regs`, `get_pins` |
| machine cycles | `cycle.*`, `*_cycle.cpp`, `rw_cycle_base.cpp` | `_t`, `_wait`, `_bus_release`, `_halt`, `_cycles`, address and data | `reset`, `clock`, `sample_busreq`, `handle_bus_release` |
| pins | `pins.h` | level and direction of each pin | three constant states |
| decoder | `instr_decoder.*` | `_started`, `_step`, `_subset`, `_mod`, `_mod_d_ready`, `_hlptr_ready`, `_mod_cb_fetched`, `_mod_cb_instr`, `_x/_y/_z` | `start`, `next_step`, `reset`, `process_hlptr` |
| executors | `instr_main_q*.cpp`, `instr_ed_q*.cpp`, `instr_cb.cpp` | none of their own | one `exec_*` per instruction group, called once per step |
| registers | `registers.h` | the register file, IFF1, IFF2, `int_mode`, `instr` | none |

How they interact. `clock()` handles RESET, then runs one half T state of the
current cycle object. When that reports its end, `clock()` calls the decoder
(`start()` behind a fetch or an acknowledge, `next_step()` otherwise); the
decoder calls one executor step, which starts the next cycle through the core,
or ends the instruction with `reset()`, which starts a fetch. If the decoder is
then not executing anything, `clock()` polls NMI and INT. Everything runs in the
caller's thread and nothing is persisted; the environment acts through pins that
may have any level on any edge and through `trigger_nmi()` between any two edges.

What is hard. WAIT and BUSREQ interleave with the T states of every cycle, and
the flag that stages a bus release lives in an object that is reused. RESET cuts
anything anywhere. "Not executing" is also the state between a prefix and its
opcode, so two skip flags decide whether an interrupt may come there. The two
pending flags, the step counter, PC and the flip-flops are written by several
functions in one call of `clock()`, and their order matters. An opcode is
right only if its executor, over several calls, starts some cycle every time.
`PROJECT.json` lists these hazards line by line with the properties that would
notice them going wrong.

What makes each component correct:

* core: an edge on NMI is served in the end; interrupts are accepted between
  instructions only, return to the right address, respect EI and restore IFF1;
  reset starts over, or keeps the registers exactly after the special reset;
* cycles and pins: the rules of the bus, each effect once per cycle however it
  is stretched, release of the bus as BUSREQ demands, no exception, no hang;
* decoder and executors: each instruction takes the T states of a real Z80, its
  cycles follow each other as the bus layer assumes, and no opcode is left
  without a next cycle;
* ALU and registers: every result and every flag is that of the arithmetic it
  stands for, the undocumented flags included; no instruction touches a register
  it does not name; block instructions move exactly the block they describe.

## Modules

| module | models | how |
|---|---|---|
| `Z80Cycles` | `cycle.h` and facts shared by both layers | kinds of cycle, last T state, T state of the WAIT sample, which kind may follow which |
| `Z80Bus` | `z80emu::clock()` and the cycles on the pins | one step per edge of CLK |
| `Z80Waves` | nothing in the code | the waveforms: for each kind of cycle, which lines are low and driven in each half T state and which effects are done; property `PinsFollow` of `Z80Bus` |
| `Z80Decode` | the executors | for each opcode its *plan*: the cycles its steps start, as a sequence |
| `Z80Timing` | nothing in the code | the published T-state tables, by opcode |
| `Z80Control` | decoder, interrupts, PC, flip-flops | one step per finished cycle |
| `Z80Emu` | the whole of `z80emu::clock()` | one step per edge of CLK; implements `Z80Bus` and `Z80Control` |
| `Z80Bits` | `registers.h`, word and byte helpers | bytes, words, flags, two's complement |
| `Z80Alu` | `exec_alu_stub`, rotates, shifts, DAA, 16-bit arithmetic | results and flags as operators |
| `Z80Exec` | what the executors do to registers, memory and ports | one step per opcode byte fetched and per instruction |
| `Z80Block` | nothing in the code | the abstract block transfer |
| `Z80Results` | nothing in the code | what results and flags must be, stated another way; properties of `Z80Exec` |
| `Z80BusProofs`, `Z80WaveProofs` | | proofs about `Z80Bus`: its counters and flags, then its pins and effects |
| `Z80ControlProofs` | | proofs about `Z80Control` |
| `Z80EmuProofs` | | that `Z80Emu` implements `Z80Control` and `Z80Bus` |
| `Z80AluProofs`, `Z80ExecProofs` | | lemmas about `Z80Bits` and `Z80Alu`; the invariant of `Z80Exec` |
| `Z80ResultProofs` | | that instructions compute what `Z80Results` says |
| `Z80ApartProofs` | | that prefixes keep registers apart, and that an instruction and its inverse cancel |
| `MCZ80Bus`, `MCZ80Control`, `MCZ80Emu`, `MCZ80Exec` | | values of the constants for TLC |

`Z80Control` looks at one machine cycle at a time and leaves data out, `Z80Exec`
looks at one instruction at a time and leaves cycles out; `Z80Emu` puts the two
layers of control back together. All three translate the same executors, each
what its properties tell apart.

**Z80Bus.** `clk`, `cyc`, `t`, `left`, `halt`, `busrel`, `pins`, `por`,
`resetCycles`, `resetM1T2` are `_clkpin`, the kind `_cycle` points to, `_t`,
`_cycles`, `_halt`, the `_bus_release` flags, `_pins`, `_por`, `_reset_cycles`
and `_reset_m1t2`; `fault` is a thrown exception. `eff`, `seen`, `cut` and
`regs` are history. Each action is one path through `clock()`: `ResetLow`,
`ResetExit` (which runs the first half T state of its fetch in the same call),
`RaiseClk`/`FallClk` for the six timed cycles, `RaiseBogus`/`FallBogus`, `Idle`
without a cycle, and `SetClkpin`. The half T states of a cycle are an operator
from pins to pins (`FetchPins` ...), with the `case` labels of the switch. What
the decoder does at the end of a cycle is any cycle in `Follows`; that the
decoder stays within it is the property `CycleOrder` of `Z80Control`.

**Z80Control.** `cyc` is the cycle and what it was started for, `dec` the
decoder's fields, the others have the names of the fields they stand for.
`FinishCycle` is the call of `clock()` in which a cycle finishes: `Prefix` and
`DdCb` are the early returns of `start()`, `Begin` is the rest of it, `Continue`
is `next_step()`; inside them `NmiStep`, `IntStep` and `ExecStep` are the three
parts of `next_step()`, and `Poll` the interrupt polling at the end of
`clock()`. `TriggerNMI`, `ResetLow`, `ResetExit` and `Throw` are the other
actions. An empty slot of ED has an empty plan and ends in `Throw`. Conditions on
flags, jumps through data and returned addresses are choices. `cbInstr` is cleared
when `start()` is done with it (the code keeps it): it is read again only
behind a read that overwrites it, unless RESET cuts that read, and `ResetLow`
there lets it be any opcode. What the call of `clock()` reads from the pins (`int`, `halted`) is a
choice too, within `PinsSeen`.

**Z80Emu.** The composition. Its variables are those of both layers, with one
`cyc`, and `intpin` for `_intpin`. `Rise` is a rising edge in the middle of a
cycle, where the pins move as `Z80Bus` says and the decoder stands still; `Fall`
and `FallBogus` are falling edges, and when the cycle finishes `Finish` runs the
decoder of `Z80Control` with the INT level sampled last and the HALT level the
cycle has left on the pins, and starts whatever it staged (`Staged`). The choices
`Z80Bus` makes for the decoder (`Follows`, `MayHalt`, bogus lengths from 1 to 7)
and `Z80Control` for the pins (`HaltPins`, the special reset, which byte a cut
read has already stored) are not taken over: that what really happens lies within
them is what the properties `ImplementsBus` and `ImplementsControl` say. They are
refinements, `INSTANCE Z80Bus WITH cyc <- cyc.kind, BogusLengths <- 1..7` and
`INSTANCE Z80Control WITH special <- Special`; the many edges of a cycle are
stuttering steps of the latter. PC and the latched bytes change at the end of the
cycle rather than at the edge inside it, as in `Z80Control`; `EffectsOnce` counts
those edges and nothing reads the values in between.

**Z80Exec.** `regs` is `_regs`, register pairs as words; WZ is left out, since no
instruction reads it before it has written it. `mod`, `subset` and `stage` are
what the decoder keeps between two opcode bytes, `skip` its two skip flags. A step is the
fetch of a prefix (`Ahead`), or of an opcode together with all its executor does
(one operator per `exec_*` case, named for the instruction). Memory and ports are
external: `Floating` is what an address outside the memory given
answers, a port any of `BusBytes`; `Peek` and `Poke` read and write the cells
a program has. The empty slots of ED have no action (see `empty_slot`). An
interrupt is raised before an instruction from a list given with the program,
each at most once. The operators of `Z80Alu` follow the code's expressions, masks
and comparisons included; `Z80Results` says what they must yield in terms of
signed and unsigned numbers, so that the two can disagree.

**Z80Block.** A block transfer as one promise: a number of items is left, each
step moves the next item of the block at its place and in its direction, nothing
else changes, and it ends when the count runs out or, for a search, when the item
is found. `Z80Results` instantiates it for the block instruction under way.

## Runs

| run | states | shows |
|---|---|---|
| `bus` | 301,942 | types, no exception, pins on the waveforms, bus protocol, stable address under a strobe, bus grant, effects exactly once, latch only when WAIT is high, special reset; cycles complete for ever |
| `instruction_timing` | 819,951 | T states of every opcode with every prefix sequence; order of cycles |
| `interrupts` | 84,646 | NMI and INT at every point of prefixed, repeating, EI, DI, RETN and IM instructions; a fetched opcode is always decoded as long as RESET cuts no instruction; an NMI is taken in the end |
| `whole_clock` | 432,342 | the composition implements both layers, with RESET in the middle of anything for one host and WAIT, BUSREQ, INT and NMI for the other; every cycle clocks the T states the timing tables count for it |
| `execution` | 632,665 | arithmetic, flags, Q, R, register separation, stack, block transfers and their refinement, counts of 0 included, interrupted and resumed programs |
| seven violation runs | | the disagreements below |

**Bounds.** Bus: `BogusLengths = {1, 2}`, one length that ends at its first
falling edge and one that does not; a longer one only repeats the second.
`resetCycles`, the `held` count and the effect counts saturate at 2, since the
code and the properties tell 0, 1 and more apart; `t` stops one past the last T
state, where the code, which goes on counting, treats all values alike. These
are all the bounds: waits, releases and resets may go on for ever. Control:
`PCMod` 1 or 4 (4 distinguishes off-by-one and off-by-two errors of the return
address and wraps around often); the opcode set is every byte for the timing run,
the empty ED slots included (they end in `Throw`), and for the interrupt runs one opcode per path
through the control (`MCZ80Control`). `CutAnywhere` allows RESET in the middle
of an instruction; the passing runs set it to FALSE, so what they show holds for
resets between instructions, because of the reset finding below. HALT is left
out of the interrupt run for the same reason: its own runs show what it does.

Composition: five opcodes, among them HALT, EI and IM 1, which bring an INT into a
halted CPU, and LD D,(HL), which with DD in front reads a displacement and
calculates a pointer; `PCMod` 2 tells a corrected return address from an
uncorrected one. Which lines the host pulls is fixed per behaviour (`MCHosts`):
RESET anywhere with INT, or WAIT, BUSREQ, INT and NMI together. RESET together
with BUSREQ, which leaves release flags behind in cycle objects, is the business
of `bus`, where the decoder is any decoder. `CutAnywhere` is TRUE: what
the decoder does after the reset finding still stays within what the bus layer
expects.

Execution: a program ends when PC leaves its memory. The machines of
`MCZ80Exec` are, first, operand sweeps: each byte operation for every A against
edge values of the other operand and both carries, DAA behind ADD, ADC, SUB and
SBC of BCD values (`ExecDecimalAdjust` proves it for all of them), 16-bit
operations at the edges of the range; second, a sweep of every opcode behind
every prefix on two machines whose registers are all different; third, block
instructions of every kind over each other's bytes, across the top of memory and
interrupted by NMI and INT in each round; last, short programs for EX, DJNZ, calls
and returns at the edges of PC and SP, R with bit 7 set. Input bytes are 0 or 255.

A count of 0, which stands for the full range, is run to its end with INIR and
OTIR (256 rounds, an INT in any of them), INDR and OTDR (256 rounds, no
interrupt) and CPIR (65536 rounds, its byte nowhere in memory). The cell behind
each of these programs is unmapped, so that their end is the end of the program.
LDIR, LDDR and CPDR from 0 are left to the theorems (`ExecBlockVerdict`,
`ExecBlockTransfer`, `ExecRefreshCounts`), which include every count.

**Fairness.** Bus: the host keeps calling `clock()` (weak fairness), and each of
WAIT and BUSREQ, being an input the CPU keeps sampling, is found high again and
again (strong fairness on an edge with that line high). Control: cycles keep
finishing, which is what `CyclesComplete` shows, RESET rises again, and memory is
not an endless string of prefixes, which on a real Z80 as well holds interrupts
off for ever. Nothing else is assumed; `CyclesComplete` and `NmiTaken` say
themselves that RESET is not pulled for ever. Execution: the host keeps clocking
until the program has left its memory (`Clocked`, weak fairness of `Next`, with
its ENABLED condition written out, which TLC would otherwise search for in every
state). The run of the composition checks safety only; that its cycles go on is
`CyclesComplete`, which holds of every behaviour within `Z80Bus`.

**Mutants.** Next to a definition stands, where a property needs one, a wrong
variant of it: a dropped flag, a missing correction, a swapped order. Replacing
the definition by the variant makes TLC find the property violated.

## Where code and documentation disagree

Each is a run that TLC ends with a counterexample, and an entry of `findings`.

* `halt_holds`: HALT lasts for one halted fetch. The NOP it executes ends in
  `reset()`, whose default starts an ordinary fetch (`instr_main_q0.cpp:263`).
* `halt_return`: INT in mode 1 or 2 with HALT low returns one byte too far
  (`z80emu.cpp:73` corrects a decrement that `instr_main_q1.cpp:13` no longer
  makes). An NMI accepted at the end of HALT itself returns *to* HALT, since its
  halted fetch does not advance PC but `instr_decoder.cpp:83` takes it back;
  `ReturnAddress` on the same instance shows it.
* `interrupt_dropped`: INT in mode 1 or 2 is taken for a prefix and lost if the
  last opcode byte of the instruction before it equals one: behind CB CB, CB DD,
  CB ED and CB FD, behind ED CB, ED DD, ED ED and ED FD (which do nothing), and
  behind DD CB d and FD CB d with one of these four as operation.
  `InterruptServed` shows that nothing else is lost.
* `reset_decoder`: RESET within an instruction does not reset the decoder, so
  the opcode fetched next is not decoded.
* `empty_slot`: ED A4-A7, AC-AF, B4-B7, BC-BF start no cycle; `clock()` throws.
* `stale_q`: ED 00-3F and ED C0-FF leave Q as it was (`instr_decoder.cpp:192`
  only calls `reset()`), though Q holds the flags just assembled
  (`registers.h:100`) and every other instruction that assembles none clears it.
  A following SCF or CCF reads them. `QIsLastFlags` excepts these opcodes.
* `refresh_bit7`: every fetch clears bit 7 of R (`fetch_cycle.cpp:50`), which a real
  Z80 keeps as LD R,A has loaded it. `RefreshCounts` is about the other seven bits.

Three more that no run is spent on: RFSH, "only pulled low in T3 and T4 of fetch
cycle" by `pins.h:107`, is low in acknowledge cycles as well
(`intack_cycle.cpp:49`) and through the bogus cycles behind a fetch, as
`Z80Waves` has it; BUSACK stays low through bogus cycles behind a released bus,
and the released pins drive HALT high in a halted fetch although `pins.h:113`
asks the emulator to add its status.

## Proofs

`Z80BusProofs` proves, for every set of bogus lengths contained in `Nat \ {0}`
(the assumption `BogusLengthsAssumption`; the decoder passes constants from 1 to
7), that `Spec` implies

* `TypeCorrect`: `[]TypeOK`, `NeverThrows`: `[]NoThrow`;
* `BusIsGranted`: `BusGrant`; `ResetIsSpecial`: `SpecialReset`.

`TypeOK` and `NoThrow` are not inductive. A cycle past its end throws on a
rising edge unless a release is staged, so one must know that with CLK low a
cycle at its last T state has it staged: `ReleaseStaged`, true because the
falling edge that found the flag clear would have finished the cycle. That in
turn needs `Begun` (a falling edge is never the first of a cycle). `ReleaseFresh`
says that from the last T state on the flag is BUSREQ of the last rising edge
and no leftover; it holds because the last T state is reached by a rising edge
that samples, also when WAIT stretches a read or write there. `IInv` is their
conjunction; `IInvStep` has a step per action. `ResetCounted` relates
`_reset_cycles` and `_reset_m1t2` to the history of the reset and is inductive
with `TypeOK`.

`Z80WaveProofs` proves from the same assumption

* `PinsFollowWaves`: `[]PinsFollow`; `BusIsLawful`: `[]BusProtocol`;
* `AddressIsStable`: `AddressStable`; `LatchesWhenReady`: `LatchWhenReady`;
  `EffectsAreOnce`: `EffectsOnce`.

`BusProtocol` is far from inductive: that a falling edge may pull WR depends on
the pins the rising edge before it has left, those on the edge before, and a WAIT
state runs one half T state twice. `PinsFollow` makes it one statement: the pins
are the waveform of the cycle's kind at the half T state it is in, and the
effects done are those due by then, or the cycle is at rest between two others.
It is inductive with `IInv` and `WaitSeen` (what the last rising edge found on
WAIT). One lemma per kind shows that its switch follows its waveform,
`EffectAgain` and `DoneAgain` that the half a WAIT repeats does nothing more. The
other four are then read off the waveforms, which are short enough for that.

`Z80ControlProofs` proves, for every set of opcode bytes, every `PCMod` and both
values of `Interrupts` and `CutAnywhere` (the assumptions on the constants of
`Z80Control`), that `Spec` implies

* `ControlTypeCorrect`: `[]TypeOK`;
* `InterruptsBetweenInstructions`: `NoInterruptInside`; `EIDefersIntAlways`:
  `EIDefersINT`;
* `FetchDecodesUnlessCut`: `[]FetchStartsDecode`, if `CutAnywhere` is FALSE;
* `ControlCoherent`: `[]Coherent`; `CyclesInOrder`: `CycleOrder`;
* `RetnRestoresAlways`: `RetnRestores`; `InterruptsServed`: `InterruptServed`;
* `ReturnsToNext`: `ReturnAddress`, if HALT (118) is not an opcode.

`TypeOK` is inductive as it stands. Its one deep part is the bound on
`dec.step`: a plan has at most six cycles for any opcode and condition
(`PlanType`), a step beyond the plan calls `reset()`, and only an empty slot of
`exec_ed_q2` keeps counting, so those are exempt. With RESET allowed anywhere
the condition of an instruction may change under way and the plan with it, which
is why the bound is one over all plans. `NoInterruptInside` and `EIDefersINT`
follow step by step from it (`StepAccepts`): a step that starts a further cycle
leaves `nmiPend` alone and stages no acknowledge (`StayQuiet`), `start()` polls
only with both skip flags set until it has an opcode (`SkippedQuiet`), and the
step that calls `reset()` accepts one interrupt at most, INT only without an EI
behind it (`EndAccepts`). `FetchStartsDecode` needs `IdleWhenAwaiting`, which
adds that RESET finds and leaves an idle decoder.

The rest needs to know what the decoder is doing while a cycle runs, and the
values of its fields alone do not say: `Coherent` relates them to what the cycle
was started for. An acknowledge meets an idle decoder and no pending NMI
(`AckAlone`), a halted fetch likewise (`HaltAlone`), a decoder that has not
started waits for a byte it will decode, or for the pointer of DD CB d (`Waiting`),
one that has started waits for the cycle its plan has at this step, or for a read or
a pointer ahead of it (`OnPlan`), and at most one interrupt is being responded to
(`Responding`). It is inductive with `TypeOK`, RESET anywhere
included, because the exit from reset leaves the decoder as it was and starts a
fetch, which every state may meet. From it:

* `CycleOrder`: within a plan the order is a fact about the plans of all 256
  opcodes of each table (`PlanOrder`, `PlanBegins`, `PtrPlans`), so what is left are
  the seams between plans, prefixes, pointers and responses.
* `RetnRestores`: `SavedIsIFF2`, as long as the history `saved` is kept at all IFF2
  is in it. Only an accepted interrupt, EI, DI and a RESET write IFF2, and each
  empties `saved` or sets it anew.
* `InterruptServed`: a pending flag is taken back by a staged fetch only, which a
  response stages in its last step and `start()` behind a prefix.
* `ReturnAddress`: `Returns`, PC agrees with the history `resume` while a response is
  pending. Only the fetch of an NMI moves PC, at its end, and the step taken in the
  same call takes that back. With HALT in the program it is false, as the run
  `halt_return` shows.

`Z80EmuProofs` composes the two layers, for every set of opcodes, every `PCMod`,
both values of `CutAnywhere` and every set of hosts (`ProgramAssumption`,
`HostsAssumption`). It proves that `Spec` of `Z80Emu` implies

* `ControlImplemented`: `ImplementsControl`, which is `Spec` of `Z80Control`;
* `TStatesAreClocked`: `TStatesClocked`;
* `BusImplemented`: `ImplementsBus`, which is `Spec` of `Z80Bus`, if no opcode is an
  empty slot behind ED (an expired cycle is no step of `Z80Bus`).

Each layer leaves to choice what the other decides, so the proof is that the
decision is among the choices. The invariant is `EmuInv`: the decoder's own
(`Decoder`: `TypeOK`, `Coherent`, and which cycles may be halted or latch an opcode)
and the state of the cycle on the pins (`Lines`). `Begun`, `ReleaseStaged` and
`ExpiredPast` are those of the bus layer, and give that only an expired cycle
throws. `HaltPin` says where HALT may still be low: in a halted fetch, before the
first half T state behind it, and in the bogus cycle that begins an NMI out of
HALT, where the pins have not been touched yet and the decoder does not poll
(`NmiPushes`), so that `HaltPins` of `Z80Control` is all an interrupt can find.
`Ticked` says that `ticks` is what `_t`, or the rest of a bogus cycle, has counted. A
step is one lemma per action (`RiseStep`, `FallStep`, ...); the falling edge that
finishes a cycle is one step of `Z80Control` and all others are none (`FinishStep`).
A decoder that never meets an empty slot starts a cycle in every step (`NoHoles`,
`StepLives`, with `FromMemory`: what is decoded is a byte of memory or the 0 a
halted fetch latches). For the pins, `CycleOrder` gives `Follows`, and the
decoder's `Finishes` that a halted fetch begins where `MayHalt` allows it and that
bogus cycles have from 1 to 7 T states (`StagedFollows`). So the theorems of the
two layers hold of the composition: what `Z80WaveProofs` shows of every order of
cycles within `Follows`
holds of the order the decoder really starts them in.

`Z80ExecProofs`, `Z80ResultProofs` and `Z80ApartProofs` are about `Z80Exec`, for
every set of programs and every set of bytes on the bus. `ProgramsTyped` assumes
that a program's registers and memory have the types of `registers.h` and that it
starts with Q either 0 or its flags, which is how every instruction ends, and
`BusBytesTyped` that devices put bytes on the bus. They prove that `Spec` implies

* `ExecTyped`: `[]TypeOK`; `ExecQIsLastFlags`: `QIsLastFlags`;
* `ExecByteArithmetic`: `ByteArithmetic`; `ExecWideArithmetic`:
  `WideArithmetic`; `ExecShiftsMoveBits`: `ShiftsMoveBits`;
* `ExecIndexedApart`: `IndexedApart`.

The run sweeps every A against some operands; the theorems hold for all bytes, all
words and all flags, behind every prefix and with every interrupt in between. The
invariant is `IInv`: `TypeOK`, `QZeroOrFlags` (Q is 0 or F) and, with them, `EdUnprefixed` (a prefix
before ED is forgotten, so that ADC and SBC work on HL) and `DisplacedAt` (the
operation behind DD CB d finds in MEMPTR the index plus d, put there a step
before). It is proved handler by handler. The two sides of the arithmetic are
written differently on purpose: the code compares low digits and folds parity with
shifts, `Z80Results` looks at bit 4, bit 12 and the number of bits set. Lemmas
such as `CarryIntoBit4`, `BorrowIntoBit12`, `DifferenceOverflows`, `ParityEven`
and `ShiftedIs` are where they meet. Bits are taken from a number by eight
divisions (`BitsAre`, `BitsOfNumOf`), so no induction is needed.

Six properties compare a program under way, or at its end, with its start. Behind
the instructions they are about anything may be executed, so their theorems name what
the program consists of, on the constants alone: `AdjustsAlone`, `LoopsAlone`,
`IndexedAlone`, `BlocksAside`, `BlocksOffStack` and `InversesApart` of `Z80Results`.
`MCZ80Exec` assumes all six (`ProgramsAlone`), so that TLC confirms them of the
programs of the run.

* `ExecDecimalAdjust`: `[]DecimalAdjust`. `AdjustInv` says which of the two
  instructions is in progress and what is in A, B and F; `DaaAddsDecimals` and
  `DaaSubtractsDecimals` are DAA behind ADD, ADC, SUB and SBC for all decimal operands.
* `ExecLoopRounds`: `[]LoopRounds`. `LoopInv` says which byte of the loop is next in
  its pass behind k others, with DE and B k steps on; `LastPass` is that B is 0 for the
  first time behind the last of them.
* `ExecRefreshCounts`: `[]RefreshCounts`. `LoopInv`, `IndexedInv` and `BlockInv` count
  the fetches (`Ticked`) behind every pass of the loop, behind each byte of DD CB d and
  its operation, and behind every round of the sixteen block instructions. The rounds
  (`RoundDone`, `HandledMore`) need `BlocksAside`: a block that overwrites the
  instruction that transfers it ends as something else. Programs that are interrupted
  are in it, up to the interrupt. `SevenBits` is why a counter that has wrapped around
  counts as well.
* `ExecBlockVerdict`: `irq = load.irq`, that is no interrupt so far, implies
  `BlockVerdict` always: PV, Z and the carry of the final flags. `Ready(k)` of `BlockInv` has HL, DE and the counter k items on
  and no item found before (`Searched`); the round that does not step back leaves
  `Verdict` in the flags.
* `ExecBlockTransfer`: with `[](irq = load.irq)` the specification implies
  `BlockTransfer`, the refinement of `Z80Block`. `ItemInit` maps the initial states,
  where a counter of 0 stands for its full range (`Standing`, `OneLess`). `ItemStep`
  maps the step behind the opcode (`Turn`) to the item of its kind; every other step
  stutters (`Idles`, `Unseen`). `BlocksOffStack` is needed because `Z80Block` is not
  shown the cells below SP, which interrupts push to: a block that moves them would
  not be seen to. A search may name such cells if it ends before them.

* `ExecInversesCancel`: `[]InversesCancel`. `CancelInv` says which byte of the pair is
  next, with its prefix taken or not, and what has been done: nothing yet, `Halfway`
  what the first instruction leaves for the second, by kind (`Pushed`, `Swapped`,
  `RotatedCell`...), and `Back`. Cells other than the first one's own (`Touched`) hold
  what was loaded all along, so the code is still there to be fetched (`CodeThere`).
  `InversesApart` puts those cells in memory and apart from the code: a PUSH over its
  own POP, or to where nothing is mapped, is not undone. The stack may be anywhere
  else, also across the top of memory.

`RotationsReturn`, `DigitsReturn` and `PushedIsPopped` are the arithmetic of pairs of
instructions that undo each other, for all bytes and words.

Model-checked only, and why:

* `HandlerReturns`, and `BlockVerdict` and `BlockTransfer` once an interrupt has been
  raised: they hold of handlers that keep the registers and the block, which those of
  `MCZ80Exec` do and an arbitrary one does not; as theorems they would need the
  handlers' text as a hypothesis.
* `InstrTiming` of `Z80Control` compares each plan with the published tables, opcode
  by opcode; TLC does that for all of them, and the prover would do no better. What
  it means for the pins is `TStatesAreClocked`.
* `CyclesComplete`, `NmiTaken` and `BlockEnds` are liveness, out of the prover's
  reach.

## Not modelled

`set_regs()` and `set_clkpin()` once the CPU runs: both let the host rewrite the
state between two edges, and the README of the emulator describes no such use.
The ALT_TIMING macros, off by default in both builds. The build files. WZ, which
has no observable effect. How a half-read word or a half-done push looks when
RESET cuts the instruction: `Z80Exec` runs instructions whole, and after the
ordinary reset the registers are cleared anyway. An NMI is an edge on `_nmiff` as
in the code; there is no NMI pin. Register arrays are zeroed by reset, so nothing
reads an uninitialized register: before the first reset `clock()` does nothing.

## Plan

1. Done: `Z80Cycles`, `Z80Bus`, `Z80Decode`, `Z80Timing`, `Z80Control`, the
   first four theorems.
2. Done: `Z80Bits`, `Z80Alu`, `Z80Exec` with their references `Z80Results`, and
   `Z80Block` with the refinement that block instructions implement it.
3. Done: `Z80Emu`, both layers composed, with the refinements to `Z80Bus` and
   `Z80Control`.
4. Done: the pins and effects of `Z80Bus` by their waveforms; the types of
   `Z80Exec`, its arithmetic, shifts and prefixes; the first theorems about
   `Z80Control`.
5. Done: the other properties of `Z80Control` but its timing, and the two
   refinements of `Z80Emu`; of whole programs the decimal adjustment, the loop, the
   refresh counter, the instructions that undo each other, and the block instructions
   with their refinement of `Z80Block` where no interrupt comes between.
