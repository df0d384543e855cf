-------------------------------- MODULE Rlp --------------------------------
(***************************************************************************)
(* The recursive length prefix encoder of the IoT device (RLP.c) and the   *)
(* hexadecimal helper it is fed by (utils.c), with a reader of the format  *)
(* as the Ethereum yellow paper defines it, to compare it with.  Bytes are *)
(* numbers, hexadecimal strings are sequences of their digits' values.     *)
(***************************************************************************)
EXTENDS Naturals, Sequences

Byte == 0 .. 255
Hex  == 0 .. 15

-----------------------------------------------------------------------------
(* The encoder.                                                            *)

\* hex2byte_arr fills its result from the end: an odd digit comes first.
hex2byte_arr(d) ==
  LET n == (Len(d) + 1) \div 2
      digit(i) == IF i = 0 THEN 0 ELSE d[i]
  IN  [k \in 1 .. n |-> LET low == Len(d) - 2 * (n - k)
                        IN  16 * digit(low - 1) + digit(low)]

\* The bytes of a length, of which the first is not zero.
LenBytes[n \in Nat] ==
  IF n = 0 THEN <<>> ELSE Append(LenBytes[n \div 256], n % 256)

SIZE_THRESHOLD == 56
HeaderOneByte(short, long, size) ==                            \* mutant
  IF size < SIZE_THRESHOLD THEN <<short + size>> ELSE <<long + 1, size>>
Header(short, long, size) ==
  IF size < SIZE_THRESHOLD THEN <<short + size>>
                           ELSE <<long + Len(LenBytes[size])>> \o LenBytes[size]

\* remove_leading_zeros: the zeros are counted, but one of them is skipped.
LeadingZeros(b) ==
  CHOOSE k \in 0 .. Len(b) :
    /\ \A i \in 1 .. k : b[i] = 0
    /\ k < Len(b) => b[k + 1] # 0
ZerosKept(b) == b                                              \* mutant
WithoutZeros(b) ==
  LET k == LeadingZeros(b)
  IN  IF k = 0 THEN b ELSE SubSeq(b, 2, 1 + Len(b) - k)

wallet_encode_element(bytes, remove_leading_zeros) ==
  LET p == IF remove_leading_zeros THEN WithoutZeros(bytes) ELSE bytes
  IN  IF Len(p) = 1 /\ p[1] < 128 THEN p ELSE Header(128, 183, Len(p)) \o p

wallet_encode_int(n) ==
  IF n \in 1 .. 127 THEN <<n>> ELSE <<128 + Len(LenBytes[n])>> \o LenBytes[n]

\* Of the encoded signature_v the list takes one byte, whatever its length.
FirstByte(b) == SubSeq(b, 1, 1)

\* The list of the transaction's elements: six as they are, v, r and s.
wallet_encode_list(elements, v, r, s) ==
  LET payload == elements[1] \o elements[2] \o elements[3] \o elements[4]
                   \o elements[5] \o elements[6] \o FirstByte(v) \o r \o s
  IN  Header(192, 247, Len(payload)) \o payload

-----------------------------------------------------------------------------
(* The reader.                                                             *)

\* The number that a big-endian sequence of bytes stands for.
Number(b) ==
  LET upTo[k \in 0 .. Len(b)] == IF k = 0 THEN 0 ELSE 256 * upTo[k - 1] + b[k]
  IN  upTo[Len(b)]

\* The first and the last byte of the string or list that starts at s[i]; a
\* length of which bytes are missing is read as far as s goes.
Extent(s, i) ==
  LET h    == s[i]
      base == IF h < 192 THEN 128 ELSE 192                   \* strings, lists
      k    == IF h <= base + 55 THEN 0 ELSE h - (base + 55)  \* bytes of the length
      last == IF i + k <= Len(s) THEN i + k ELSE Len(s)
      size == IF k = 0 THEN h - base ELSE Number(SubSeq(s, i + 1, last))
  IN  IF h < 128 THEN <<i, i>> ELSE <<i + k + 1, i + k + size>>

\* The strings that follow each other in s from a position to the end.
Strings(s, from) ==
  LET walk[i \in Nat \ {0}] ==
        IF i > Len(s) THEN <<>>
        ELSE LET e == Extent(s, i)
             IN  <<SubSeq(s, e[1], e[2])>> \o walk[e[2] + 1]
  IN  walk[from]

\* The strings of the list s; none, when s is not a list of exactly its length.
Items(s) ==
  IF Extent(s, 1)[2] = Len(s) /\ s[1] >= 192
    THEN Strings(s, Extent(s, 1)[1]) ELSE <<>>
=============================================================================
