-------------------------------- MODULE VarInt --------------------------------
(***************************************************************************)
(* The variable-length integers of a message (VarInt.cpp): groups of seven *)
(* bits, the least significant first, every byte but the last with its     *)
(* high bit set.  The sizes are smaller here: groups of GroupBits bits and *)
(* a std::size_t of SizeBits.                                              *)
(***************************************************************************)
EXTENDS Integers, SequencesExt

CONSTANTS
  GroupBits,  \* 7 in the code
  SizeBits    \* 64 in the code

\* Fits compares the leftover bits, a number of bits, with the value they have.
ASSUME VarIntAssumption ==
  GroupBits \in Nat \ {0} /\ SizeBits \in Nat /\ SizeBits % GroupBits = 1

G == 2^GroupBits   \* values of a group
B == 2 * G         \* values of a byte
Low(byte) == byte % G
More(byte) == byte >= G

\* Mutated Groups: a number that just does not fit is written in too few bytes.
GroupsShort(n) == CHOOSE k \in 1 .. n + 1 : n <= G^k /\ (k > 1 => n > G^(k - 1))

\* reset: the bytes of a number, at least one.
Groups(n) == CHOOSE k \in 1 .. n + 1 : n < G^k /\ (k > 1 => n >= G^(k - 1))
Encode(n) ==
  [i \in 1 .. Groups(n) |-> ((n \div G^(i - 1)) % G) + (IF i < Groups(n) THEN G ELSE 0)]

\* parse: the bytes up to the first without a high bit; 0 when there is none.
Ends(input) == SelectInSeq(input, LAMBDA byte : ~More(byte))

\* reset_number_view.
Number(bytes) == FoldRight(LAMBDA byte, sum : Low(byte) + G * sum, bytes, 0)
Fits(bytes) ==
  LET max_size == SizeBits \div GroupBits
  IN  Len(bytes) > max_size =>
        Len(bytes) = max_size + 1 /\ Last(bytes) = SizeBits % GroupBits
===============================================================================
