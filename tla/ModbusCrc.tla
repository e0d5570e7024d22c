------------------------------ MODULE ModbusCrc ------------------------------
(***************************************************************************)
(* The CRC of usart.c.  CRC_sub walks through the bytes with the tables    *)
(* CRCHi and CRCLo; entry i is what index i leaves behind after eight      *)
(* shifts with the Modbus polynomial, which is how the tables are given    *)
(* here.                                                                   *)
(***************************************************************************)
EXTENDS Integers, Sequences

Polynomial == 40961   \* 16#A001

(* Exclusive or of two 16-bit numbers. *)
Xor(x, y) ==
  LET Bit(i) == (((x \div 2^i) + (y \div 2^i)) % 2) * 2^i
      Nibble(i) == Bit(i) + Bit(i + 1) + Bit(i + 2) + Bit(i + 3)
  IN Nibble(0) + Nibble(4) + Nibble(8) + Nibble(12)

(* One shift of the register to the right. *)
Shift(c) == IF c % 2 = 1 THEN Xor(c \div 2, Polynomial) ELSE c \div 2

(* CRCHi[i] is the low byte of the entry and CRCLo[i] the high one: the    *)
(* register of the program holds its bytes the other way round.            *)
Entry == [i \in 0..255 |-> Shift(Shift(Shift(Shift(Shift(Shift(Shift(Shift(i))))))))]
CRCHi == [i \in 0..255 |-> Entry[i] % 256]
CRCLo == [i \in 0..255 |-> Entry[i] \div 256]

(* get_CRC: CRC_sub from 16#FFFF, without exchange. *)
get_CRC(bytes) ==
  LET reg[n \in 0..Len(bytes)] ==
        IF n = 0 THEN [hi |-> 255, lo |-> 255]
        ELSE LET before == reg[n - 1]
                 i == Xor(before.hi, bytes[n])
             IN [hi |-> Xor(before.lo, CRCHi[i]), lo |-> CRCLo[i]]
      end == reg[Len(bytes)]
  IN 256 * end.hi + end.lo
=============================================================================
