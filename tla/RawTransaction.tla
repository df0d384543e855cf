--------------------------- MODULE RawTransaction ---------------------------
(***************************************************************************)
(* generateRawTransaction.c: the two transactions of the DMID's generation *)
(* (the contract's deployment and AddDMIDDocument), each assembled twice:  *)
(* for the hash that is signed (EIP-155: v is the chain, r and s are       *)
(* empty), and with the signature, to be sent.  Both passes and both       *)
(* transactions share the same static fields and buffers.  A buffer is the *)
(* bytes that were written last: the code passes the length with it, so    *)
(* what is left behind them is not read.  The signature is external.       *)
(***************************************************************************)
EXTENDS Rlp

CONSTANTS
  ethereum_chain_id,
  Nonces,          \* answers of eth_getTransactionCount, digits behind "0x"
  GasPrice, GasLimit,
  ContractBin,     \* iotDIDContractBin
  Address,         \* the address in the receipt, digits behind "0x"
  MethodDatas,     \* data_contract_method_AddDMIDDocument
  Signatures,      \* the halves of signatures: r and s
  MaxTransactions  \* bound: transactions

HexString(d) == d \in Seq(Hex)

\* The list has room for one byte of v = 36 + 2 * ethereum_chain_id.
ASSUME ChainAssumption ==
  ethereum_chain_id \in Nat \ {0} /\ 36 + 2 * ethereum_chain_id < 128
ASSUME ArgumentsAssumption ==
  /\ HexString(GasPrice) /\ HexString(GasLimit) /\ HexString(ContractBin)
  /\ HexString(Address)
  /\ \A d \in Nonces \cup MethodDatas : HexString(d)
  /\ \A h \in Signatures : h \in Seq(Byte)
  /\ MaxTransactions \in Nat

\* The bytes that a call's arguments may have.  With headers and signature (at most
\* 91 bytes more) they fit in raw_tx_bytes (5600 bytes) and, as text, in rawTx
\* (10000 characters, two a byte and a NUL); what a longer transaction overwrites
\* is not modelled.  HalfSize: the bytes of a half of a signature.
RawTxSize == 4900
HalfSize  == 32
ASSUME SizesAssumption ==
  /\ \A nonce \in Nonces, call \in {<<<<>>, ContractBin>>} \cup {Address} \X MethodDatas :
       Len(nonce) + Len(GasPrice) + Len(GasLimit) + Len(call[1]) + Len(call[2])
         <= 2 * RawTxSize
  /\ \A h \in Signatures : Len(h) <= HalfSize
\* The node's quantities have no leading zero digit, the constants of the code no
\* leading zero byte.
ASSUME QuantitiesAssumption ==
  /\ \A d \in Nonces : d = <<0>> \/ (d # <<>> /\ d[1] # 0)
  /\ \A d \in {GasPrice, GasLimit} : d # <<>> /\ hex2byte_arr(d)[1] # 0

VARIABLES
  pc,           \* "idle", "filled", "assembled", "signed" or "sent"
  tx,           \* the six fields of tx, in their order
  signature,    \* signature_v, signature_r, signature_s
  rawTx,        \* the bytes of raw_tx_bytes
  hashed,       \* the bytes that were hashed and signed
  arguments,    \* history: the call's arguments, in digits
  transactions

vars == <<pc, tx, signature, rawTx, hashed, arguments, transactions>>

Init ==
  /\ pc = "idle"
  /\ tx = <<<<>>, <<>>, <<>>, <<>>, <<>>, <<>>>>
  /\ signature = [v |-> 0, r |-> <<>>, s |-> <<>>]
  /\ rawTx = <<>> /\ hashed = <<>>
  /\ arguments = tx /\ transactions = 0

r_initial == <<0, 0>>
s_initial == <<0, 0>>

\* The signature of the first transaction stays for the second: a mutant.
FillKeepsSignature(nonce, to, data) ==
  /\ pc \in {"idle", "sent"} /\ transactions < MaxTransactions
  /\ arguments' = <<nonce, GasPrice, GasLimit, to, <<>>, data>>
  /\ tx' = [f \in 1 .. 6 |-> hex2byte_arr(arguments'[f])]
  /\ signature' = IF transactions = 0
                    THEN [v |-> ethereum_chain_id, r |-> <<0>>, s |-> <<0>>]
                    ELSE signature
  /\ pc' = "filled" /\ transactions' = transactions + 1
  /\ UNCHANGED <<rawTx, hashed>>

\* The value is "" in every call.
Fill(nonce, to, data) ==
  /\ pc \in {"idle", "sent"} /\ transactions < MaxTransactions
  /\ arguments' = <<nonce, GasPrice, GasLimit, to, <<>>, data>>
  /\ tx' = [f \in 1 .. 6 |-> hex2byte_arr(arguments'[f])]
  /\ signature' = [v |-> ethereum_chain_id, r |-> hex2byte_arr(r_initial),
                   s |-> hex2byte_arr(s_initial)]
  /\ pc' = "filled" /\ transactions' = transactions + 1
  /\ UNCHANGED <<rawTx, hashed>>

generate_deployContract_rawTransaction ==
  \E nonce \in Nonces : Fill(nonce, <<>>, ContractBin)

generate_transferValue_rawTransaction ==
  \E nonce \in Nonces, data \in MethodDatas : Fill(nonce, Address, data)

\* wallet_ethereum_assemble_tx: only r and s lose leading zeros.
wallet_ethereum_assemble_tx ==
  /\ pc \in {"filled", "signed"}
  /\ rawTx' = wallet_encode_list(
                [f \in 1 .. 6 |-> wallet_encode_element(tx[f], FALSE)],
                wallet_encode_int(signature.v),
                wallet_encode_element(signature.r, TRUE),
                wallet_encode_element(signature.s, TRUE))
  /\ pc' = IF pc = "filled" THEN "assembled" ELSE "sent"
  /\ UNCHANGED <<tx, signature, hashed, arguments, transactions>>

\* v is a byte.
SignatureV(recovery) == (recovery + 2 * ethereum_chain_id + 35) % 256

Sign ==
  /\ pc = "assembled"
  /\ hashed' = rawTx
  /\ \E recovery \in {0, 1}, r \in Signatures, s \in Signatures :
       signature' = [v |-> SignatureV(recovery), r |-> r, s |-> s]
  /\ pc' = "signed"
  /\ UNCHANGED <<tx, rawTx, arguments, transactions>>

Next == \/ generate_deployContract_rawTransaction
        \/ generate_transferValue_rawTransaction
        \/ wallet_ethereum_assemble_tx \/ Sign

Spec == Init /\ [][Next]_vars

-----------------------------------------------------------------------------
(* Properties.                                                             *)

TypeOK ==
  /\ pc \in {"idle", "filled", "assembled", "signed", "sent"}
  /\ \A f \in 1 .. 6 : tx[f] \in Seq(Byte)
  /\ signature.v \in Byte
  /\ signature.r \in Seq(Byte) /\ signature.s \in Seq(Byte)
  /\ rawTx \in Seq(Byte) /\ hashed \in Seq(Byte)
  /\ transactions \in 0 .. MaxTransactions

\* What is signed is the transaction that is sent, with the chain in place of
\* the signature (generateRawTransaction.c:58-65, 92-110): the static fields still
\* have the signature of the transaction before, which must not get in.
SignedIsSent ==
  pc = "sent" =>
    /\ SubSeq(Items(rawTx), 1, 6) = SubSeq(Items(hashed), 1, 6)
    /\ SubSeq(Items(hashed), 7, 9) = <<<<ethereum_chain_id>>, <<>>, <<>>>>

\* The node reads the arguments of the call and the signature from what is
\* sent, whatever the lengths of the fields and wherever they cross the limits
\* of the format; and each of its numbers is in the shortest form, which is
\* the only one it accepts.  Excepted are the nonce 0 (one zero byte) and an r
\* or s with two leading zeros (one of them is left and a byte is lost).
Shortest(b) == b = <<>> \/ b[1] # 0
Excepted(half) == LeadingZeros(half) > 1

SentIsReadBack ==
  pc = "sent" /\ ~Excepted(signature.r) /\ ~Excepted(signature.s) =>
    LET items == Items(rawTx) IN
      /\ Len(items) = 9
      /\ \A f \in 1 .. 6 : items[f] = hex2byte_arr(arguments[f])
      /\ items[7] = <<signature.v>>
      /\ Number(items[8]) = Number(signature.r)
      /\ Number(items[9]) = Number(signature.s)
      /\ \A f \in {1, 2, 3, 5, 7, 8, 9} :
           Shortest(items[f]) \/ (f = 1 /\ Number(items[1]) = 0)
=============================================================================
