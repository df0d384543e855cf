-------------------------- MODULE MCRawTransaction --------------------------
(* Small instances of RawTransaction: halves of signatures have three       *)
(* bytes, the contract has more than 256 bytes and the method data have as  *)
(* many as make the string and the list cross 56 and 256.                   *)
EXTENDS RawTransaction

Digits(n) == [i \in 1 .. 2 * n |-> (i + 9) % 16]

MCNonces   == {<<0>>, <<1>>, <<7, 15>>, <<8, 0>>, <<1, 0, 0>>}
MCGasPrice == <<0, 4, 14, 3, 11, 2, 9, 2, 0, 0>>
MCGasLimit == <<1, 10, 6, 0, 12, 8>>
MCContract == Digits(257)
MCAddress  == Digits(20)
MCMethodDatas == {Digits(n) : n \in {0, 1, 10, 11, 12, 55, 56, 132, 255, 256}}
MCSignatures == {<<1, 0, 0>>, <<128, 255, 0>>, <<0, 1, 2>>, <<0, 128, 0>>,
                 <<0, 0, 3>>}
=============================================================================
