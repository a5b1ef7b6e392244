------------------------------ MODULE Z80Bits ------------------------------
(***************************************************************************)
(* Bytes and words.  A byte is a number where the code does arithmetic and *)
(* the set of the bits that are 1 where it masks; the two operators below  *)
(* lead from one to the other.  The flag register is used as a set of bits.*)
(***************************************************************************)
EXTENDS Integers

Byte == 0..255
Word == {n \in Nat : n < 65536}

Weight == <<1, 2, 4, 8, 16, 32, 64, 128>>

BitsOf == [n \in Byte |-> {i \in 0..7 : (n \div Weight[i + 1]) % 2 = 1}]

NumOf(s) == LET v(i) == IF i \in s THEN Weight[i + 1] ELSE 0
            IN  v(0) + v(1) + v(2) + v(3) + v(4) + v(5) + v(6) + v(7)

And(a, b) == NumOf(BitsOf[a] \cap BitsOf[b])
Or(a, b)  == NumOf(BitsOf[a] \cup BitsOf[b])
Xor(a, b) == NumOf((BitsOf[a] \cup BitsOf[b]) \ (BitsOf[a] \cap BitsOf[b]))

Bit7(n) == (n \div 128) % 2

(* z80_regpair_t: a word and its two bytes.                                *)
Hi(w) == w \div 256
Lo(w) == w % 256
WordOf(h, l) == 256 * h + l

(* Counters wrap around at their width.                                    *)
Byte8(n)  == n % 256
Word16(n) == n % 65536

(* An int8_t displacement.                                                 *)
Signed(n) == IF n > 127 THEN n - 256 ELSE n

-----------------------------------------------------------------------------
(* The bits of F (registers.h).                                            *)
FlagS  == 7
FlagZ  == 6
Flag5  == 5
FlagH  == 4
Flag3  == 3
FlagPV == 2
FlagN  == 1
FlagC  == 0

F53  == {Flag5, Flag3}
FS53 == {FlagS, Flag5, Flag3}

When(flag, cond) == IF cond THEN {flag} ELSE {}
Carry(f) == IF FlagC \in f THEN 1 ELSE 0

(* Bits copied from a byte to the same places of F.                        *)
Copy(n, mask) == BitsOf[n] \cap mask

(* parity(): the byte is folded onto its lowest bit.                       *)
Parity(n) ==
    LET p == Xor(n, n \div 16)
        q == Xor(p, p \div 4)
    IN  Xor(q, q \div 2) % 2 = 0
=============================================================================
