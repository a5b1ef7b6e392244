------------------------------ MODULE Z80Block -----------------------------
(***************************************************************************)
(* What LDI, CPI, INI, OUTI and their repeating and descending forms       *)
(* promise: the items of a block are copied, compared, read or written one *)
(* after the other, each once, until the counter is used up or a           *)
(* comparison succeeds.  A counter of 0 stands for its full range.  Nothing*)
(* is said of instructions, flags or interrupts.                           *)
(***************************************************************************)
EXTENDS Integers

CONSTANT Values      \* what a port may return

VARIABLES job,       \* [kind, step, again, key, width, c], fixed
          active,
          pos, dest, \* where the next item comes from and, of a copy, goes to
          left,      \* items the counter still stands for
          cells,     \* memory; what lies outside reads as 255 and cannot be written
          last       \* last transfer with a port

vars == <<job, active, pos, dest, left, cells, last>>

At(a)       == IF a \in DOMAIN cells THEN cells[a] ELSE 255
Write(a, v) == IF a \in DOMAIN cells THEN [cells EXCEPT ![a] = v] ELSE cells
Beside(a)   == (a + job.step) % 65536

(* The item is done; found says whether it ends a search.                  *)
Item(kind, found) ==
    /\ active
    /\ job.kind = kind
    /\ pos' = Beside(pos)
    /\ left' = left - 1
    /\ active' = (job.again /\ left > 1 /\ ~found)
    /\ UNCHANGED job

Copy    == Item("LD", FALSE) /\ cells' = Write(dest, At(pos)) /\ dest' = Beside(dest) /\ UNCHANGED last
Compare == Item("CP", At(pos) = job.key) /\ UNCHANGED <<cells, dest, last>>

(* The upper half of the port's address counts the items: the number left  *)
(* before an input and after an output.                                    *)
Port(n) == 256 * (n % 256) + job.c

Input ==
    /\ Item("IN", FALSE)
    /\ \E v \in Values : cells' = Write(pos, v) /\ last' = [dir |-> "in", port |-> Port(left), v |-> v]
    /\ UNCHANGED dest

Output ==
    /\ Item("OUT", FALSE)
    /\ last' = [dir |-> "out", port |-> Port(left - 1), v |-> At(pos)]
    /\ UNCHANGED <<cells, dest>>

Init == active = (job.kind # "none") /\ (active => left \in 1..job.width)
Spec == Init /\ [][Copy \/ Compare \/ Input \/ Output]_vars

Ends == <>[]~active
=============================================================================
