----------------------------- MODULE Z80Cycles -----------------------------
(***************************************************************************)
(* The seven kinds of machine cycle (z80_cycle_type_t in cycle.h) and the  *)
(* facts about them that both layers of the model share: how long a cycle  *)
(* is, in which T state it samples WAIT, and which kind the emulator may   *)
(* start when one of them finishes.                                        *)
(***************************************************************************)
EXTENDS Integers

Kinds == {"fetch", "memRead", "memWrite", "ioRead", "ioWrite", "bogus", "intack"}

(* The kinds whose clock() is a switch over half T states.  A bogus cycle  *)
(* only counts falling edges: it samples no pin and drives none.           *)
Timed == Kinds \ {"bogus"}

(* No cycle: the CPU is held in reset (_cycle == nullptr).                 *)
NoCycle == "none"

(* Number of the last T state, counted from 0 as in z80_cycle::_t.         *)
LastT == [k \in Timed |->
            CASE k = "fetch"                    -> 3
              [] k \in {"memRead", "memWrite"}  -> 2
              [] k \in {"ioRead", "ioWrite"}    -> 3
              [] OTHER                          -> 5]

(* A wrong variant used by a mutant: WAIT sampled one T state too early.   *)
WaitTEarly == [k \in Timed |->
            CASE k \in {"fetch", "memRead", "memWrite"} -> 1
              [] k \in {"ioRead", "ioWrite"}            -> 2
              [] OTHER                                  -> 3]

(* A wrong variant used by a mutant: a fetch samples WAIT in T4.           *)
WaitTLate == [k \in Timed |->
            CASE k \in {"memRead", "memWrite"} -> 2
              [] k = "intack"                  -> 4
              [] OTHER                         -> 3]

(* The T state on whose rising edge WAIT is sampled.                       *)
WaitT == [k \in Timed |->
            CASE k \in {"fetch", "memRead", "memWrite"} -> 2
              [] k \in {"ioRead", "ioWrite"}            -> 3
              [] OTHER                                  -> 4]

(* The kinds a finished cycle may be followed by, over every opcode and    *)
(* interrupt sequence of the decoder.                                      *)
Follows == [k \in Kinds |->
            CASE k = "fetch"    -> Kinds
              [] k = "memRead"  -> Kinds
              [] k = "memWrite" -> {"fetch", "memRead", "memWrite", "bogus", "intack"}
              [] k = "ioRead"   -> {"fetch", "memWrite", "intack"}
              [] k = "ioWrite"  -> {"fetch", "bogus", "intack"}
              [] k = "bogus"    -> Kinds \ {"ioWrite"}
              [] OTHER          -> {"fetch", "memRead", "memWrite", "bogus"}]

(* A fetch that repeats a NOP for HALT is started by the HALT opcode only, *)
(* which is latched by a fetch or by an interrupt acknowledge.             *)
MayHalt == {"fetch", "intack"}
=============================================================================
