--------------------------- MODULE EspLinkProofs ---------------------------
(***************************************************************************)
(* Theorems about EspLink for every buffer size, ring size, command set,   *)
(* answer set and number of commands.                                      *)
(***************************************************************************)
EXTENDS EspLink, SequenceTheorems, FiniteSetTheorems, TLAPS

\* The receiver marks a message finished only while it is not, so the finished
\* bit and the code that writes the buffer exclude each other.
IInv == TypeOK /\ BufferOwnership

LEMMA Cells ==
  /\ NUL \in Cell
  /\ Behind \in Cell
  /\ Byte \subseteq Cell
  /\ \A c \in Cell : c.src \in Tags
BY CommandAssumption DEF Cell, Byte, NUL, Behind, Tags, Symbols

\* A clear empties the message.
LEMMA ClearSets == TypeOK /\ Clear => WiFi_RX_STA' = Empty /\ since' \in Nat
<1> SUFFICES ASSUME TypeOK, Clear PROVE WiFi_RX_STA' = Empty /\ since' \in Nat
  OBVIOUS
<1>1. rxByte.no \in Nat
  BY DEF TypeOK, Cell, Byte, NUL
<1> QED BY <1>1 DEF Clear

LEMMA InitIInv == Init => IInv
<1> SUFFICES ASSUME Init PROVE IInv
  OBVIOUS
<1>1. WiFi_RX_BUF \in [0 .. MaxLen -> Cell]
  BY Cells DEF Init
<1>2. rxByte \in Cell
  BY Cells DEF Init
<1>3. ring \in Seq(Byte) /\ out \in Seq(Byte) /\ esp \in Seq([id : Tags, mode : {1, 2}])
  BY EmptySeq DEF Init
<1>4. CommandOK(cmd)
  BY DEF Init, NoCmd, CommandOK
<1>5. /\ start_receive_data_flag \in BOOLEAN /\ wifi_initialize_finish_flag \in BOOLEAN
      /\ overrun \in BOOLEAN /\ deadAtStart \in BOOLEAN
  BY Zenon DEF Init
<1>6. Len(ring) <= RingCap
  BY SizeAssumption DEF Init
<1>7. ~WiFi_RX_STA.fin /\ WiFi_RX_STA \in [fin : BOOLEAN, len : 0 .. MaxLen]
  BY SizeAssumption DEF Init, Empty
<1>8. 0 \in Tags /\ 0 \in 0 .. MaxLen
  BY SizeAssumption, CommandAssumption DEF Tags
<1>9. TypeOK
  BY <1>1, <1>2, <1>3, <1>4, <1>5, <1>6, <1>7, <1>8 DEF Init, TypeOK, RxPcs, TxPcs
<1>10. BufferOwnership
  BY <1>7 DEF Init, BufferOwnership
<1> QED BY <1>9, <1>10 DEF IInv

-----------------------------------------------------------------------------
(* Steps of the receiver.                                                  *)

LEMMA ReceiverIInv == IInv /\ Receiver => IInv'
<1> SUFFICES ASSUME IInv, Receiver PROVE IInv'
  OBVIOUS
<1> USE SizeAssumption DEF IInv
<1>1. CASE RxInit
  BY <1>1 DEF RxInit, TypeOK, BufferOwnership, shared, flags, txVars, espVars,
              history, calls, wire, RxPcs, CommandOK
<1>2. CASE RxOverrun
  <2>1. overrun' \in BOOLEAN
    BY <1>2, Zenon DEF RxOverrun
  <2> QED BY <1>2, <2>1 DEF RxOverrun, TypeOK, BufferOwnership, shared, flags, txVars,
              espVars, history, calls, wire, RxPcs, CommandOK
<1>3. CASE RxReceive
  <2>1. /\ Head(ring) \in Cell
        /\ Tail(ring) \in Seq(Byte)
        /\ Len(Tail(ring)) <= RingCap
    BY <1>3, Cells, HeadTailProperties DEF RxReceive, TypeOK
  <2> QED BY <1>3, <2>1 DEF RxReceive, TypeOK, BufferOwnership, shared, flags,
              txVars, espVars, history, calls, wire, RxPcs, CommandOK
<1>4. CASE RxTest
  BY <1>4 DEF RxTest, FinishedTest, RoomTest, TypeOK, BufferOwnership, shared,
              flags, txVars, espVars, history, calls, wire, RxPcs, CommandOK
<1>5. CASE RxStore
  BY <1>5 DEF RxStore, TypeOK, BufferOwnership, flags, txVars, espVars,
              history, calls, wire, RxPcs, CommandOK
<1>6. CASE RxWrite
  <2>1. WiFi_RX_BUF' \in [0 .. MaxLen -> Cell]
    BY <1>6 DEF RxWrite, TypeOK
  <2> QED BY <1>6, <2>1 DEF RxWrite, TypeOK, BufferOwnership, flags, txVars,
              espVars, history, calls, wire, RxPcs, CommandOK
<1>7. CASE RxTerm
  <2>1. WiFi_RX_BUF' \in [0 .. MaxLen -> Cell]
    BY <1>7, Cells DEF RxTerm, TypeOK
  <2>2. rxPc' \in {"mark", "recv"}
    BY <1>7 DEF RxTerm
  <2> QED BY <1>7, <2>1, <2>2 DEF RxTerm, TypeOK, BufferOwnership, flags,
              txVars, espVars, history, calls, wire, RxPcs, CommandOK
<1>8. CASE RxMarkLoad
  BY <1>8 DEF RxMarkLoad, TypeOK, BufferOwnership, shared, flags, txVars,
              espVars, history, calls, wire, RxPcs, CommandOK
<1>9. CASE RxMarkStore
  BY <1>9 DEF RxMarkStore, TypeOK, BufferOwnership, flags, txVars, espVars,
              history, calls, wire, RxPcs, CommandOK
<1> QED BY <1>1, <1>2, <1>3, <1>4, <1>5, <1>6, <1>7, <1>8, <1>9 DEF Receiver

-----------------------------------------------------------------------------
(* Steps of the sender.                                                    *)

LEMMA SenderIInv == IInv /\ Sender => IInv'
<1> SUFFICES ASSUME IInv, Sender PROVE IInv'
  OBVIOUS
<1> USE SizeAssumption DEF IInv
<1>1. CASE TxEnable
  BY <1>1 DEF TxEnable, TypeOK, BufferOwnership, shared, rxVars, espVars,
              history, calls, wire, TxPcs, CommandOK
<1>2. CASE TxStart
  <2>1. CommandOK(cmd')
    BY <1>2, CommandAssumption DEF TxStart, CommandOK
  <2>2. sent' \in Tags /\ acked' \in Tags
    BY <1>2, CommandAssumption DEF TxStart, Tags, TypeOK
  <2>3. WiFi_RX_STA' = Empty /\ since' \in Nat
    BY <1>2, ClearSets DEF TxStart
  <2>4. abandoned' \in Nat /\ wired' \in [bytes : Nat, acks : Nat] /\ surplus' \in Nat
    BY <1>2 DEF TxStart, TypeOK, wire
  <2> QED BY <1>2, <2>1, <2>2, <2>3, <2>4 DEF TxStart, TypeOK, BufferOwnership, Empty,
              flags, rxVars, espVars, TxPcs
<1>3. CASE TxMode
  BY <1>3 DEF TxMode, TypeOK, BufferOwnership, flags, rxVars, espVars, history, calls, wire,
              TxPcs, CommandOK
<1>4. CASE TxSend
  <2>1. esp' \in Seq([id : Tags, mode : {1, 2}])
    BY <1>4, AppendProperties DEF TxSend, TypeOK, CommandOK
  <2>2. waittime' \in Nat /\ (txPc' = "wait" => waittime' > 0)
    BY <1>4 DEF TxSend, TypeOK, CommandOK
  <2>3. abandoned' \in Nat /\ txPc' \in {"torn", "wait", "idle"}
    BY <1>4 DEF TxSend, TypeOK
  <2> QED BY <1>4, <2>1, <2>2, <2>3 DEF TxSend, TypeOK, BufferOwnership, shared,
              flags, rxVars, TxPcs, CommandOK, wire
<1>5. CASE TxTick
  <2>1. abandoned' \in Nat
    BY <1>5 DEF TxTick, TypeOK
  <2> QED BY <1>5, <2>1 DEF TxTick, CountDown, TypeOK, BufferOwnership, shared, flags, rxVars,
              espVars, TxPcs, CommandOK, wire
<1>6. CASE TxPoll
  BY <1>6 DEF TxPoll, TypeOK, BufferOwnership, shared, flags, rxVars, espVars,
              history, calls, wire, TxPcs, CommandOK
<1>7. CASE TxCheck
  <2>1. WiFi_RX_BUF' \in [0 .. MaxLen -> Cell]
    BY <1>7, Cells DEF TxCheck, TypeOK
  <2>2. acked' \in Tags /\ txPc' \in {"idle", "reset"}
    <3>1. CASE UNCHANGED acked /\ txPc' = "reset"
      BY <3>1 DEF TypeOK
    <3>2. CASE \E i \in 0 .. MaxLen : acked' = WiFi_RX_BUF'[i].src /\ txPc' = "idle"
      BY <2>1, <3>2, Cells
    <3> QED BY <1>7, <3>1, <3>2 DEF TxCheck
  <2> QED BY <1>7, <2>1, <2>2 DEF TxCheck, TypeOK, BufferOwnership, flags,
              rxVars, espVars, TxPcs, CommandOK, wire
<1>8. CASE TxReset
  <2>1. WiFi_RX_STA' = Empty /\ since' \in Nat
    BY <1>8, ClearSets DEF TxReset
  <2> QED BY <1>8, <2>1 DEF TxReset, Empty, TypeOK, BufferOwnership, flags, rxVars,
              espVars, calls, wire, TxPcs, CommandOK
<1> QED BY <1>1, <1>2, <1>3, <1>4, <1>5, <1>6, <1>7, <1>8 DEF Sender

-----------------------------------------------------------------------------
(* Steps of the ESP32 and of the interrupt handler.                        *)

\* The number of acknowledgements among the first bytes of an answer.
LEMMA AcksCount ==
  ASSUME NEW r, NEW i \in Nat
  PROVE  /\ Acks(r, i) \in Nat
         /\ \A l \in 1 .. i : r[l] \in AckSymbols =>
              \A k \in 0 .. l - 1 : Acks(r, k) < Acks(r, l)
         /\ \A l \in 0 .. i : Acks(r, l) <= Acks(r, i)
<1> DEFINE S(l) == {k \in 1 .. l : r[k] \in AckSymbols}
<1>1. ASSUME NEW l \in Nat
      PROVE  IsFiniteSet(S(l)) /\ Acks(r, l) \in Nat /\ Acks(r, l) = Cardinality(S(l))
  <2>1. IsFiniteSet(1 .. l) /\ S(l) \subseteq 1 .. l
    BY FS_Interval
  <2> QED BY <2>1, FS_Subset, FS_CardinalityType DEF Acks
<1>2. ASSUME NEW l \in Nat, NEW k \in 0 .. l
      PROVE  Acks(r, k) <= Acks(r, l)
  <2>1. S(k) \subseteq S(l) /\ k \in Nat
    OBVIOUS
  <2> QED BY <1>1, <2>1, FS_Subset
<1>3. ASSUME NEW l \in 1 .. i, r[l] \in AckSymbols, NEW k \in 0 .. l - 1
      PROVE  Acks(r, k) < Acks(r, l)
  <2>1. S(k) \subseteq S(l) /\ l \in S(l) /\ l \notin S(k) /\ k \in Nat /\ l \in Nat
    BY <1>3
  <2>2. S(k) # S(l) /\ S(k) \in SUBSET S(l)
    BY <2>1
  <2>3. IsFiniteSet(S(l)) /\ Acks(r, k) \in Nat /\ Acks(r, l) \in Nat
        /\ Acks(r, k) = Cardinality(S(k)) /\ Acks(r, l) = Cardinality(S(l))
    BY <1>1, <2>1
  <2>4. Cardinality(S(k)) <= Cardinality(S(l)) /\ Cardinality(S(k)) # Cardinality(S(l))
    BY <2>2, <2>3, FS_Subset
  <2> HIDE DEF S
  <2> QED BY <2>3, <2>4
<1>4. \A l \in 0 .. i : l \in Nat /\ i \in Nat /\ l \in 0 .. i
  OBVIOUS
<1>5. \A l \in 0 .. i : Acks(r, l) <= Acks(r, i)
  BY <1>2, <1>4
<1>6. Acks(r, i) \in Nat
  BY <1>1
<1> QED BY <1>3, <1>5, <1>6

AnswerByte(r, i) == [sym |-> r[i], src |-> Head(esp).id,
                     no |-> wired.bytes + i, ack |-> wired.acks + Acks(r, i)]
Answered(r) == /\ out' = [i \in 1 .. Len(r) |-> AnswerByte(r, i)]
               /\ wired' = [bytes |-> wired.bytes + Len(r),
                            acks |-> wired.acks + Acks(r, Len(r))]
               /\ surplus' = surplus + Excess(r)

LEMMA AnswerIs ==
  EspAnswer => /\ \E r \in Replies[Head(esp).mode] : Answered(r)
               /\ esp # <<>> /\ out = <<>> /\ esp' = Tail(esp)
BY Zenon DEF EspAnswer, Answered, AnswerByte

LEMMA EnvironmentIInv == IInv /\ (EspAnswer \/ UsartIsr) => IInv'
<1> SUFFICES ASSUME IInv, EspAnswer \/ UsartIsr PROVE IInv'
  OBVIOUS
<1> USE SizeAssumption DEF IInv
<1>1. CASE EspAnswer
  <2>1. Head(esp) \in [id : Tags, mode : {1, 2}] /\ Tail(esp) \in Seq([id : Tags, mode : {1, 2}])
    BY <1>1, HeadTailProperties DEF EspAnswer, TypeOK
  <2>2. out' \in Seq(Byte)
    <3>1. PICK r \in Replies[Head(esp).mode] : Answered(r)
      BY <1>1, AnswerIs
    <3>2. r \in Seq(Symbols) /\ Len(r) \in Nat
      BY <2>1, <3>1, CommandAssumption, LenProperties
    <3>3. \A i \in 1 .. Len(r) : AnswerByte(r, i) \in Byte
      <4> SUFFICES ASSUME NEW i \in 1 .. Len(r) PROVE AnswerByte(r, i) \in Byte
        OBVIOUS
      <4>1. r[i] \in Symbols
        BY <3>2, ElementOfSeq
      <4>2. Head(esp).id \in Tags
        BY <2>1
      <4>3. i \in Nat /\ Acks(r, i) \in Nat
        BY <3>2, AcksCount
      <4>4. wired.bytes + i \in Nat /\ wired.acks + Acks(r, i) \in Nat
        BY <4>3 DEF TypeOK
      <4> QED BY <4>1, <4>2, <4>4 DEF Byte, AnswerByte
    <3> QED BY <3>1, <3>2, <3>3, IsASeq DEF Answered
  <2>3. wired' \in [bytes : Nat, acks : Nat] /\ surplus' \in Nat
    <3>1. PICK r \in Replies[Head(esp).mode] : Answered(r)
      BY <1>1, AnswerIs
    <3>2. r \in Seq(Symbols) /\ Len(r) \in Nat
      BY <2>1, <3>1, CommandAssumption, LenProperties
    <3>3. Acks(r, Len(r)) \in Nat
      BY <3>2, AcksCount
    <3>4. wired.bytes \in Nat /\ wired.acks \in Nat /\ surplus \in Nat
      BY DEF TypeOK
    <3>5. Excess(r) \in Nat
      BY <3>3 DEF Excess
    <3> QED BY <3>1, <3>2, <3>3, <3>4, <3>5 DEF Answered
  <2>4. UNCHANGED <<shared, flags, rxVars, txVars, ring, overrun, calls, since>>
        /\ esp' = Tail(esp)
    BY <1>1, Zenon DEF EspAnswer
  <2> QED BY <2>1, <2>2, <2>3, <2>4 DEF TypeOK, BufferOwnership, shared,
              flags, rxVars, txVars, calls, CommandOK
<1>2. CASE UsartIsr
  <2>1. Head(out) \in Byte /\ Tail(out) \in Seq(Byte)
    BY <1>2, HeadTailProperties DEF UsartIsr, TypeOK
  <2>2. ring' \in Seq(Byte) /\ Len(ring') <= RingCap
    <3>0. ring \in Seq(Byte) /\ Len(ring) \in Nat /\ Len(ring) <= RingCap /\ RingCap \in Nat \ {0}
      BY LenProperties DEF TypeOK
    <3>1. CASE Len(ring) < RingCap
      <4>1. ring' = Append(ring, Head(out))
        BY <1>2, <3>1, Zenon DEF UsartIsr
      <4>2. ring' \in Seq(Byte) /\ Len(ring') = Len(ring) + 1
        BY <2>1, <3>0, <4>1, AppendProperties
      <4> QED BY <3>0, <3>1, <4>2
    <3>2. CASE ~(Len(ring) < RingCap)
      <4>1. ring' = Append(Tail(ring), Head(out))
        BY <1>2, <3>2, Zenon DEF UsartIsr
      <4>2. Len(ring) = RingCap /\ ring # <<>>
        BY <3>0, <3>2, EmptySeq
      <4>3. Tail(ring) \in Seq(Byte) /\ Len(Tail(ring)) = RingCap - 1
        BY <3>0, <4>2, HeadTailProperties
      <4>4. ring' \in Seq(Byte) /\ Len(ring') = RingCap - 1 + 1
        BY <2>1, <4>1, <4>3, AppendProperties
      <4> QED BY <3>0, <4>4
    <3> QED BY <3>1, <3>2
  <2>3. overrun' \in BOOLEAN
    BY <1>2, Zenon DEF UsartIsr, TypeOK
  <2> QED BY <1>2, <2>1, <2>2, <2>3 DEF UsartIsr, TypeOK, BufferOwnership, shared,
              flags, rxVars, txVars, history, calls, wire, CommandOK
<1> QED BY <1>1, <1>2

LEMMA StepIInv == IInv /\ [Next]_vars => IInv'
<1> SUFFICES ASSUME IInv, [Next]_vars PROVE IInv'
  OBVIOUS
<1>1. CASE UNCHANGED vars
  BY <1>1 DEF IInv, TypeOK, BufferOwnership, vars, shared, flags, rxVars, txVars,
              espVars, history, calls, wire, CommandOK
<1> QED BY <1>1, ReceiverIInv, SenderIInv, EnvironmentIInv DEF Next

\* Types and ranges, for every size of the buffer and of the ring.
THEOREM TypeCorrect == Spec => []TypeOK
BY InitIInv, StepIInv, PTL DEF Spec, IInv

\* The hand-over of the buffer without a lock.
THEOREM Ownership == Spec => []BufferOwnership
BY InitIInv, StepIInv, PTL DEF Spec, IInv

-----------------------------------------------------------------------------
(* A dead receiver.                                                        *)

\* A call that began with a dead receiver finds bit 15 clear at every poll, so
\* only the end of the countdown makes it return.
DeadInv ==
  deadAtStart => /\ rxPc = "dead"
                 /\ ~WiFi_RX_STA.fin
                 /\ txPc \notin {"off", "check", "reset"}
                 /\ txPc = "idle" /\ cmd.ack # "none" /\ cmd.wait # 0 => res = 1

LEMMA StepDeadInv == DeadInv /\ [Next]_vars => DeadInv'
<1> SUFFICES ASSUME DeadInv, [Next]_vars PROVE DeadInv'
  OBVIOUS
<1>1. CASE TxStart
  <2>1. deadAtStart' => rxPc = "dead"
    BY <1>1, Zenon DEF TxStart
  <2> QED BY <1>1, <2>1 DEF TxStart, Clear, Empty, DeadInv, flags, rxVars
<1>2. CASE Sender /\ ~TxStart
  <2>1. UNCHANGED <<deadAtStart, rxPc>>
    BY <1>2, Zenon DEF Sender, TxEnable, TxMode, TxSend, TxTick, TxPoll, TxCheck,
                       TxReset, rxVars, history, calls, wire
  <2> QED BY <1>2, <2>1 DEF Sender, TxEnable, TxMode, TxSend, TxTick, CountDown,
                            TxPoll, TxCheck, TxReset, DeadInv, shared
<1>3. CASE Receiver
  <2>1. UNCHANGED deadAtStart /\ UNCHANGED txVars
    BY <1>3, Zenon DEF Receiver, RxInit, RxOverrun, RxReceive, RxTest, RxStore,
                       RxWrite, RxTerm, RxMarkLoad, RxMarkStore, history, calls, wire
  <2>2. rxPc # "dead"
    BY <1>3 DEF Receiver, RxInit, RxOverrun, RxReceive, RxTest, RxStore,
                RxWrite, RxTerm, RxMarkLoad, RxMarkStore
  <2> QED BY <2>1, <2>2, Zenon DEF DeadInv
<1>4. CASE EspAnswer \/ UsartIsr \/ UNCHANGED vars
  BY <1>4, Zenon DEF EspAnswer, UsartIsr, vars, shared, rxVars, txVars, history, calls, wire, DeadInv
<1> QED BY <1>1, <1>2, <1>3, <1>4 DEF Next

\* After the receiver task suspended itself (freertos_usart.c:529-533), a call
\* that waits for an answer reports a time-out.
THEOREM DeadReceiver == Spec => []DeadMeansTimeout
<1>1. Init => DeadInv
  BY Zenon DEF Init, DeadInv
<1>2. DeadInv => DeadMeansTimeout
  BY Zenon DEF DeadInv, DeadMeansTimeout
<1> QED BY <1>1, <1>2, StepDeadInv, PTL DEF Spec

-----------------------------------------------------------------------------
(* The mailbox.                                                            *)

\* Without bit 15 there is no message.
LEMMA UnsealedMessage == ~WiFi_RX_STA.fin => Message = MB!NoMessage
BY DEF Message, MB!NoMessage

\* The message is the cells below the length: a step that keeps these keeps it.
LEMMA SameMessage ==
  ASSUME WiFi_RX_STA' = WiFi_RX_STA,
         \A k \in 0 .. MaxLen : k < WiFi_RX_STA.len => WiFi_RX_BUF'[k] = WiFi_RX_BUF[k]
  PROVE  Message' = Message
BY DEF Message

\* A step that leaves bit 15 clear and the sender not reading is no step of
\* the mailbox.
LEMMA UnsealedStep ==
  ASSUME WiFi_RX_STA.fin \in BOOLEAN, WiFi_RX_STA'.fin \in BOOLEAN,
         ~WiFi_RX_STA.fin, ~WiFi_RX_STA'.fin,
         (txPc \in {"check", "reset"}) <=> (txPc \in {"check", "reset"})'
  PROVE  UNCHANGED MB!mailbox
<1>1. Message' = MB!NoMessage /\ Message = MB!NoMessage
  BY DEF Message, MB!NoMessage
<1>2. WiFi_RX_STA'.fin = WiFi_RX_STA.fin
  OBVIOUS
<1> QED BY <1>1, <1>2 DEF MB!mailbox

LEMMA StepMailbox == IInv /\ IInv' /\ [Next]_vars => [MB!Next]_MB!mailbox
<1> SUFFICES ASSUME IInv, IInv', [Next]_vars PROVE [MB!Next]_MB!mailbox
  OBVIOUS
<1> USE SizeAssumption DEF IInv
<1>0. WiFi_RX_STA.fin \in BOOLEAN /\ WiFi_RX_STA'.fin \in BOOLEAN
  BY DEF TypeOK
\* Steps that touch neither the length nor a cell of the message nor `reading`.
<1>1. CASE /\ UNCHANGED WiFi_RX_STA
           /\ WiFi_RX_STA.fin => UNCHANGED WiFi_RX_BUF
           /\ txPc' = txPc
  <2>1. CASE WiFi_RX_STA.fin
    BY <1>1, <2>1, SameMessage DEF MB!mailbox
  <2>2. CASE ~WiFi_RX_STA.fin
    BY <1>0, <1>1, <2>2, UnsealedStep
  <2> QED BY <2>1, <2>2
<1>2. CASE RxStore
  BY <1>0, <1>2, UnsealedStep DEF RxStore, BufferOwnership, txVars
<1>3. CASE RxMarkStore
  <2>1. MB!Seal
    <3>1. ~WiFi_RX_STA.fin /\ WiFi_RX_STA'.fin /\ WiFi_RX_STA'.len = rxReg /\ rxReg \in 0 .. MaxLen
      BY <1>3 DEF RxMarkStore, BufferOwnership, TypeOK
    <3>2. Message' \in [{i \in 0 .. MaxLen : i < rxReg} -> Cell]
      <4>1. Message' = [i \in {k \in 0 .. MaxLen : k < rxReg} |-> WiFi_RX_BUF'[i]]
        BY <3>1 DEF Message
      <4> QED BY <4>1 DEF TypeOK
    <3> QED BY <1>3, <3>1, <3>2 DEF RxMarkStore, txVars, MB!Seal, MB!Lengths
  <2> QED BY <2>1 DEF MB!Next
<1>4. CASE TxStart
  <2>1. ~WiFi_RX_STA'.fin /\ txPc = "idle" /\ txPc' = "mode"
    BY <1>4 DEF TxStart, Clear, Empty
  <2>2. CASE WiFi_RX_STA.fin
    <3>1. Message' = MB!NoMessage
      BY <2>1 DEF Message, MB!NoMessage
    <3> QED BY <2>1, <2>2, <3>1 DEF MB!Discard, MB!Next
  <2>3. CASE ~WiFi_RX_STA.fin
    BY <1>0, <2>1, <2>3, UnsealedStep
  <2> QED BY <2>2, <2>3
<1>5. CASE TxReset
  <2>1. WiFi_RX_STA.fin /\ ~WiFi_RX_STA'.fin /\ txPc' = "wait"
    BY <1>5 DEF TxReset, Clear, Empty, BufferOwnership
  <2>2. Message' = MB!NoMessage
    BY <2>1 DEF Message, MB!NoMessage
  <2> QED BY <2>1, <2>2 DEF MB!Discard, MB!Next
<1>6. CASE TxPoll
  <2>1. Message' = Message /\ WiFi_RX_STA' = WiFi_RX_STA /\ txPc = "poll"
    BY <1>6, SameMessage DEF TxPoll, shared
  <2>2. CASE WiFi_RX_STA.fin
    BY <1>6, <2>1, <2>2 DEF TxPoll, MB!Look, MB!Next
  <2>3. CASE ~WiFi_RX_STA.fin
    BY <1>6, <2>1, <2>3 DEF TxPoll, MB!mailbox
  <2> QED BY <2>2, <2>3
<1>7. CASE TxCheck
  <2>1. WiFi_RX_STA.fin /\ WiFi_RX_STA' = WiFi_RX_STA /\ txPc = "check"
    BY <1>7 DEF TxCheck, BufferOwnership
  <2>2. WiFi_RX_BUF' = [WiFi_RX_BUF EXCEPT ![WiFi_RX_STA.len] = NUL]
    BY <1>7, <2>1 DEF TxCheck
  <2>3. \A k \in 0 .. MaxLen : k < WiFi_RX_STA.len => WiFi_RX_BUF'[k] = WiFi_RX_BUF[k]
    BY <2>2 DEF TypeOK
  <2>4. Message' = Message
    BY <2>1, <2>3, SameMessage
  <2>5. txPc' \in {"idle", "reset"}
    BY <1>7 DEF TxCheck
  <2>6. CASE txPc' = "idle"
    BY <2>1, <2>4, <2>6 DEF MB!Keep, MB!Next
  <2>7. CASE txPc' = "reset"
    <3>1. UNCHANGED (txPc \in {"check", "reset"})
      BY <2>1, <2>7
    <3> QED BY <2>1, <2>4, <3>1 DEF MB!mailbox
  <2> QED BY <2>5, <2>6, <2>7
<1>8. CASE TxEnable \/ TxMode \/ TxSend \/ TxTick
  <2>1. UNCHANGED <<WiFi_RX_STA, WiFi_RX_BUF>> /\ txPc \notin {"check", "reset"}
        /\ txPc' \notin {"check", "reset"}
    BY <1>8 DEF TxEnable, TxMode, TxSend, TxTick, shared
  <2>2. Message' = Message
    BY <2>1, SameMessage
  <2> QED BY <2>1, <2>2 DEF MB!mailbox
<1>9. CASE RxWrite \/ RxTerm
  <2>1. UNCHANGED WiFi_RX_STA /\ ~WiFi_RX_STA.fin /\ txPc' = txPc
    BY <1>9 DEF RxWrite, RxTerm, BufferOwnership, txVars
  <2> QED BY <1>1, <2>1
<1>10. CASE \/ RxInit \/ RxOverrun \/ RxReceive \/ RxTest \/ RxMarkLoad
            \/ EspAnswer \/ UsartIsr \/ UNCHANGED vars
  <2>1. UNCHANGED <<WiFi_RX_STA, WiFi_RX_BUF, txPc>>
    BY <1>10, Zenon DEF RxInit, RxOverrun, RxReceive, RxTest, RxMarkLoad, EspAnswer,
               UsartIsr, vars, shared, txVars
  <2> QED BY <1>1, <2>1
<1> QED BY <1>2, <1>3, <1>4, <1>5, <1>6, <1>7, <1>8, <1>9, <1>10
        DEF Next, Receiver, Sender

\* WiFi_RX_BUF with bit 15 of WiFi_RX_STA is a one-message mailbox: a message
\* once marked finished stays as it is until the sender clears it.
THEOREM Refinement == Spec => ImplementsMailbox
<1>1. Init => MB!Init
  <2> SUFFICES ASSUME Init PROVE MB!Init
    OBVIOUS
  <2>1. ~WiFi_RX_STA.fin /\ txPc = "off"
    BY DEF Init, Empty
  <2> QED BY <2>1, UnsealedMessage DEF MB!Init
<1>2. Spec => []IInv
  BY InitIInv, StepIInv, PTL DEF Spec
<1> QED BY <1>1, <1>2, StepMailbox, PTL DEF Spec, ImplementsMailbox, MB!Spec

-----------------------------------------------------------------------------
(* The text of a message.                                                  *)

\* The length the message has for the receiver: in the middle of an update of
\* WiFi_RX_STA it is the one it has loaded, even if the sender has cleared
\* WiFi_RX_STA since.
Live   == IF rxPc \in {"store", "write", "markStore"} THEN rxReg ELSE WiFi_RX_STA.len
InHand == rxPc \in {"test", "store", "write"}

\* The place on the wire of the next byte of the ring.
Coming == wired.bytes - Len(out) - Len(ring) + 1

\* The ring and what the ESP32 has still to send are the end of the wire.
WireOK ==
  /\ Len(out) + Len(ring) <= wired.bytes
  /\ \A i \in 1 .. Len(out) : out[i].no = wired.bytes - Len(out) + i
  /\ \A i \in 1 .. Len(ring) : ring[i].no = wired.bytes - Len(out) - Len(ring) + i

\* The byte the receiver took last is the one before them, as long as the ring
\* has not overrun.
HandOK ==
  /\ rxByte.no < Coming
  /\ ~overrun /\ rxPc # "dead" => rxByte.no + 1 = Coming
  /\ InHand => rxByte \in Byte
  /\ rxPc = "write" => WiFi_RX_STA.len \in {0, rxReg + 1}

\* The live text is a stretch of the wire that ends, as long as the message is
\* not finished or about to be, where the receiver is.
TextOK ==
  /\ \A i \in 0 .. MaxLen : i < Live =>
       /\ WiFi_RX_BUF[i] # NUL
       /\ WiFi_RX_BUF[i].no = WiFi_RX_BUF[0].no + i
       /\ WiFi_RX_BUF[i].no <= rxByte.no
       /\ InHand => WiFi_RX_BUF[i].no < rxByte.no
  /\ Live > 0 /\ ~WiFi_RX_STA.fin /\ rxPc \notin {"mark", "markStore", "dead"} =>
       WiFi_RX_BUF[0].no + Live = IF InHand THEN rxByte.no ELSE rxByte.no + 1

\* It has nothing from before a clear that was not lost; but the byte that is
\* about to be written when the message is cleared goes nowhere.
Cleared == rxPc = "write" /\ WiFi_RX_STA.len = 0
NewOK ==
  /\ since <= rxByte.no + 1
  /\ InHand /\ ~Cleared => since <= rxByte.no
  /\ ~Cleared => \A i \in 0 .. MaxLen : i < Live => since <= WiFi_RX_BUF[i].no

\* Nothing is stored before the receive path is open.
StartOK ==
  \/ start_receive_data_flag
  \/ txPc = "off" /\ rxPc \in {"init", "recv", "dead"} /\ WiFi_RX_STA.len = 0

TextInv == StartOK /\ WireOK /\ HandOK /\ TextOK /\ NewOK

\* The numbers in the state.
LEMMA Numbers ==
  ASSUME TypeOK
  PROVE  /\ MaxLen \in Nat \ {0} /\ WiFi_RX_STA.len \in 0 .. MaxLen /\ rxReg \in 0 .. MaxLen
         /\ Live \in 0 .. MaxLen /\ since \in Nat /\ rxByte.no \in Nat
         /\ \A i \in 0 .. MaxLen : WiFi_RX_BUF[i] \in Cell /\ WiFi_RX_BUF[i].no \in Nat
         /\ wired.bytes \in Nat /\ Len(out) \in Nat /\ Len(ring) \in Nat
         /\ \A b \in Byte : b # NUL /\ b.no \in Nat
<1>1. \A c \in Cell : c.no \in Nat
  BY DEF Cell, Byte, NUL
<1>2. \A b \in Byte : b # NUL /\ b.no \in Nat
  BY DEF Byte, NUL, Symbols
<1>3. rxByte \in Cell /\ WiFi_RX_BUF \in [0 .. MaxLen -> Cell] /\ since \in Nat
      /\ WiFi_RX_STA.len \in 0 .. MaxLen /\ rxReg \in 0 .. MaxLen /\ wired.bytes \in Nat
      /\ out \in Seq(Byte) /\ ring \in Seq(Byte)
  BY DEF TypeOK
<1>4. Live \in 0 .. MaxLen
  BY <1>3 DEF Live
<1> QED BY <1>1, <1>2, <1>3, <1>4, SizeAssumption

\* What the receiver does between its accesses to the buffer.
QuietMove ==
  \/ /\ UNCHANGED <<WiFi_RX_STA, WiFi_RX_BUF, rxReg>>
     /\ rxPc \in {"init", "recv"} /\ rxPc' \in {"recv", "dead"}
  \/ /\ UNCHANGED <<WiFi_RX_STA, WiFi_RX_BUF, rxReg>>
     /\ rxPc = "test" /\ rxPc' = "recv" /\ WiFi_RX_STA.fin
  \/ /\ UNCHANGED <<WiFi_RX_STA, WiFi_RX_BUF, rxReg>>
     /\ rxPc = "test" /\ rxPc' = "mark"
  \/ /\ UNCHANGED <<WiFi_RX_STA, WiFi_RX_BUF>> /\ rxReg' = WiFi_RX_STA.len
     /\ rxPc = "test" /\ rxPc' = "store" /\ ~WiFi_RX_STA.fin
  \/ /\ UNCHANGED <<WiFi_RX_STA, WiFi_RX_BUF>> /\ rxReg' = WiFi_RX_STA.len
     /\ rxPc = "mark" /\ rxPc' = "markStore"
  \/ /\ UNCHANGED <<WiFi_RX_BUF, rxReg>> /\ WiFi_RX_STA' = [fin |-> FALSE, len |-> rxReg + 1]
     /\ rxPc = "store" /\ rxPc' = "write" /\ ~WiFi_RX_STA.fin
  \/ /\ UNCHANGED <<WiFi_RX_BUF, rxReg>> /\ WiFi_RX_STA' = [fin |-> TRUE, len |-> rxReg]
     /\ rxPc = "markStore" /\ rxPc' = "recv"
  \/ /\ UNCHANGED <<WiFi_RX_STA, rxReg>>
     /\ WiFi_RX_BUF' = [WiFi_RX_BUF EXCEPT ![WiFi_RX_STA.len] = NUL]
     /\ rxPc = "term" /\ rxPc' \in {"mark", "recv"}

\* These steps keep the live text.
LEMMA ReceiverMoves ==
  ASSUME IInv, Receiver, ~RxReceive, ~RxWrite
  PROVE  /\ UNCHANGED <<rxByte, start_receive_data_flag, txPc, ring, out, wired, since>>
         /\ overrun' = overrun \/ rxPc' = "dead"
         /\ QuietMove
         /\ Live' = Live
         /\ \A i \in 0 .. MaxLen : i < Live =>
              WiFi_RX_BUF'[i] = WiFi_RX_BUF[i] /\ WiFi_RX_BUF'[0] = WiFi_RX_BUF[0]
<1> USE DEF IInv, QuietMove
<1>1. /\ UNCHANGED <<rxByte, start_receive_data_flag, txPc, ring, out, wired, since>>
      /\ (overrun' = overrun \/ rxPc' = "dead")
  BY DEF Receiver, RxInit, RxOverrun, RxTest, RxStore, RxTerm, RxMarkLoad, RxMarkStore,
         flags, txVars, espVars, history, wire
<1>3. QuietMove
  BY DEF Receiver, RxInit, RxOverrun, RxTest, RxStore, RxTerm, RxMarkLoad, RxMarkStore,
         shared, FinishedTest, BufferOwnership
<1>4. /\ Live' = Live
      /\ \A i \in 0 .. MaxLen : i < Live =>
           WiFi_RX_BUF'[i] = WiFi_RX_BUF[i] /\ WiFi_RX_BUF'[0] = WiFi_RX_BUF[0]
  <2>1. Live' = Live
    BY <1>3 DEF Live
  <2>2. WiFi_RX_BUF' = WiFi_RX_BUF
        \/ WiFi_RX_BUF' = [WiFi_RX_BUF EXCEPT ![Live] = NUL]
    BY <1>3 DEF Live
  <2>3. WiFi_RX_BUF \in [0 .. MaxLen -> Cell] /\ Live \in 0 .. MaxLen
    BY Numbers DEF TypeOK
  <2>4. CASE WiFi_RX_BUF' = WiFi_RX_BUF
    BY <2>1, <2>4
  <2>5. CASE WiFi_RX_BUF' = [WiFi_RX_BUF EXCEPT ![Live] = NUL]
    <3>1. ASSUME NEW i \in 0 .. MaxLen, i < Live
          PROVE  WiFi_RX_BUF'[i] = WiFi_RX_BUF[i] /\ WiFi_RX_BUF'[0] = WiFi_RX_BUF[0]
      <4>1. i # Live /\ 0 # Live /\ 0 \in 0 .. MaxLen
        BY <2>3, <3>1, SizeAssumption
      <4> QED BY <2>3, <2>5, <4>1
    <3> QED BY <2>1, <3>1
  <2> QED BY <2>1, <2>2, <2>4, <2>5
<1> QED BY <1>1, <1>3, <1>4

\* Steps of the receiver between its accesses to the buffer.
LEMMA ReceiverText ==
  ASSUME IInv, IInv', TextInv, Receiver, ~RxReceive, ~RxWrite
  PROVE  TextInv'
<1> USE DEF IInv, QuietMove
<1>1. /\ UNCHANGED <<rxByte, start_receive_data_flag, txPc, ring, out, wired, since>>
      /\ (overrun' = overrun \/ rxPc' = "dead")
  BY ReceiverMoves
<1>2. WireOK'
  BY <1>1 DEF TextInv, WireOK
<1>3. QuietMove
  BY ReceiverMoves
<1>4. /\ Live' = Live
      /\ \A i \in 0 .. MaxLen : i < Live =>
           WiFi_RX_BUF'[i] = WiFi_RX_BUF[i] /\ WiFi_RX_BUF'[0] = WiFi_RX_BUF[0]
  BY ReceiverMoves
<1>5. HandOK'
  BY <1>1, <1>3, Numbers DEF TextInv, HandOK, InHand, Coming
<1>6. TextOK'
  <2>1. \A i \in 0 .. MaxLen : i < Live' =>
          /\ WiFi_RX_BUF'[i] # NUL
          /\ WiFi_RX_BUF'[i].no = WiFi_RX_BUF'[0].no + i
          /\ WiFi_RX_BUF'[i].no <= rxByte'.no
          /\ InHand' => WiFi_RX_BUF'[i].no < rxByte'.no
    BY <1>1, <1>3, <1>4 DEF TextInv, TextOK, InHand
  <2>2. Live > 0 => WiFi_RX_BUF'[0] = WiFi_RX_BUF[0]
    BY <1>4, Numbers
  <2>3. Live' > 0 /\ ~WiFi_RX_STA'.fin /\ rxPc' \notin {"mark", "markStore", "dead"} =>
          WiFi_RX_BUF'[0].no + Live' = IF InHand' THEN rxByte'.no ELSE rxByte'.no + 1
    BY <1>1, <1>3, <1>4, <2>2 DEF TextInv, TextOK, InHand
  <2> QED BY <2>1, <2>3 DEF TextOK
<1>7. NewOK'
  <2>1. (InHand /\ ~Cleared)' => InHand /\ ~Cleared
    BY <1>3, Numbers DEF InHand, Cleared
  <2>2. ~Cleared' => ~Cleared
    BY <1>3 DEF Cleared
  <2> QED BY <1>1, <1>4, <2>1, <2>2 DEF TextInv, NewOK
<1>8. StartOK'
  BY <1>1, <1>3 DEF TextInv, StartOK
<1> QED BY <1>2, <1>5, <1>6, <1>7, <1>8 DEF TextInv

\* A byte is taken from the ring.
LEMMA ReceiveText ==
  ASSUME IInv, IInv', TextInv, RxReceive
  PROVE  TextInv'
<1> USE DEF IInv
<1>1. /\ UNCHANGED <<WiFi_RX_STA, WiFi_RX_BUF, rxReg, start_receive_data_flag, txPc, out,
                     wired, since, overrun>>
      /\ rxPc = "recv" /\ ~overrun /\ ring # <<>>
      /\ ring' = Tail(ring) /\ rxByte' = Head(ring)
      /\ rxPc' = IF start_receive_data_flag THEN "test" ELSE "recv"
  BY DEF RxReceive, shared, flags, txVars, espVars, history, wire
<1>2. /\ Len(ring) > 0 /\ Len(ring') = Len(ring) - 1
      /\ rxByte' = ring[1] /\ rxByte' \in Byte
      /\ \A i \in 1 .. Len(ring') : ring'[i] = ring[i + 1] /\ i + 1 \in 1 .. Len(ring)
  BY <1>1, HeadTailProperties, LenProperties, EmptySeq DEF TypeOK
<1>3. Coming' = Coming + 1 /\ rxByte'.no = Coming /\ rxByte.no + 1 = Coming
  <2>1. ring[1].no = wired.bytes - Len(out) - Len(ring) + 1
    BY <1>2, Numbers DEF TextInv, WireOK
  <2>2. rxByte.no + 1 = Coming
    BY <1>1 DEF TextInv, HandOK
  <2>3. wired.bytes \in Nat /\ Len(out) \in Nat /\ Len(ring) \in Nat /\ out' = out
        /\ wired' = wired
    BY <1>1, Numbers
  <2> QED BY <1>2, <2>1, <2>2, <2>3 DEF Coming
<1>4. WireOK'
  <2>1. Len(out') + Len(ring') <= wired'.bytes
    BY <1>1, <1>2, Numbers DEF TextInv, WireOK
  <2>2. ASSUME NEW i \in 1 .. Len(ring')
        PROVE  ring'[i].no = wired'.bytes - Len(out') - Len(ring') + i
    <3>1. ring'[i].no = wired.bytes - Len(out) - Len(ring) + (i + 1)
      BY <1>2 DEF TextInv, WireOK
    <3>2. wired.bytes \in Nat /\ Len(out) \in Nat /\ Len(ring) \in Nat /\ i \in Nat
      BY Numbers
    <3>3. wired'.bytes = wired.bytes /\ Len(out') = Len(out) /\ Len(ring') = Len(ring) - 1
      BY <1>1, <1>2
    <3>4. \A a, b, c \in Nat : a - b - c + (i + 1) = a - b - (c - 1) + i
      BY <3>2
    <3>5. wired'.bytes - Len(out') - Len(ring') + i = wired.bytes - Len(out) - (Len(ring) - 1) + i
      BY <3>3, Zenon
    <3>6. wired.bytes - Len(out) - Len(ring) + (i + 1) = wired.bytes - Len(out) - (Len(ring) - 1) + i
      BY <3>2, <3>4, Zenon
    <3> QED BY <3>1, <3>5, <3>6, Zenon
  <2> QED BY <1>1, <2>1, <2>2 DEF TextInv, WireOK
<1>5. HandOK'
  BY <1>1, <1>2, <1>3, Numbers DEF HandOK, InHand, Coming
<1>6. Live' = Live /\ ~InHand /\ ~Cleared /\ rxByte'.no = rxByte.no + 1 /\ rxByte.no \in Nat
      /\ rxPc' \notin {"write", "mark", "markStore", "dead"}
  BY <1>1, <1>3, Numbers DEF Live, InHand, Cleared
<1>7. TextOK'
  <2>1. \A i \in 0 .. MaxLen : i < Live' =>
          /\ WiFi_RX_BUF'[i] # NUL
          /\ WiFi_RX_BUF'[i].no = WiFi_RX_BUF'[0].no + i
          /\ WiFi_RX_BUF'[i].no < rxByte'.no
    BY <1>1, <1>6, Numbers DEF TextInv, TextOK
  <2>2. \A i \in 0 .. MaxLen : WiFi_RX_BUF'[i].no < rxByte'.no =>
          WiFi_RX_BUF'[i].no <= rxByte'.no
    BY <1>1, <1>6, Numbers
  <2>3. Live' > 0 /\ ~WiFi_RX_STA'.fin =>
          WiFi_RX_BUF'[0].no + Live' = IF InHand' THEN rxByte'.no ELSE rxByte'.no + 1
    <3>1. CASE start_receive_data_flag
      BY <1>1, <1>6, <3>1 DEF TextInv, TextOK, InHand
    <3>2. CASE ~start_receive_data_flag
      BY <1>1, <1>6, <3>2 DEF TextInv, StartOK, Live
    <3> QED BY <3>1, <3>2
  <2> QED BY <2>1, <2>2, <2>3 DEF TextOK
<1>8. NewOK'
  <2>1. since' <= rxByte'.no
    BY <1>1, <1>6, Numbers DEF TextInv, NewOK
  <2> QED BY <1>1, <1>6, <2>1, Numbers DEF TextInv, NewOK
<1>9. StartOK'
  BY <1>1 DEF TextInv, StartOK
<1> QED BY <1>4, <1>5, <1>7, <1>8, <1>9 DEF TextInv

\* A byte is written into the buffer.
LEMMA WriteText ==
  ASSUME IInv, IInv', TextInv, RxWrite
  PROVE  TextInv'
<1> USE DEF IInv
<1>1. /\ UNCHANGED <<WiFi_RX_STA, rxByte, rxReg, start_receive_data_flag, txPc, ring, out,
                     wired, since, overrun>>
      /\ rxPc = "write" /\ rxPc' \in {"term", "mark", "recv"} /\ ~WiFi_RX_STA.fin
      /\ WiFi_RX_BUF' = [WiFi_RX_BUF EXCEPT ![rxReg] = rxByte]
  BY DEF RxWrite, WriteIndex, BufferOwnership, flags, txVars, espVars, history, wire
<1>2. /\ Live = rxReg /\ Live' = WiFi_RX_STA.len /\ WiFi_RX_STA.len \in {0, rxReg + 1}
      /\ InHand /\ ~InHand' /\ ~Cleared' /\ rxByte \in Byte
      /\ Cleared <=> WiFi_RX_STA.len = 0
  BY <1>1 DEF Live, InHand, Cleared, TextInv, HandOK
<1>3. /\ \A i \in 0 .. MaxLen : i < rxReg => WiFi_RX_BUF'[i] = WiFi_RX_BUF[i]
      /\ WiFi_RX_BUF'[rxReg] = rxByte /\ rxReg \in 0 .. MaxLen
      /\ rxByte.no \in Nat /\ rxByte # NUL
  <2>1. WiFi_RX_BUF \in [0 .. MaxLen -> Cell] /\ rxReg \in 0 .. MaxLen
    BY Numbers DEF TypeOK
  <2>2. ASSUME NEW i \in 0 .. MaxLen, i < rxReg PROVE WiFi_RX_BUF'[i] = WiFi_RX_BUF[i]
    BY <1>1, <2>1, <2>2, SizeAssumption
  <2> QED BY <1>1, <1>2, <2>1, <2>2, Numbers
<1>4. WireOK' /\ StartOK'
  BY <1>1 DEF TextInv, WireOK, StartOK
<1>5. HandOK'
  BY <1>1, <1>2 DEF TextInv, HandOK, Coming
<1>6. CASE WiFi_RX_STA.len = 0
  <2>1. TextOK'
    BY <1>2, <1>6, Numbers DEF TextOK
  <2>2. NewOK'
    BY <1>1, <1>2, <1>6, Numbers DEF TextInv, NewOK
  <2> QED BY <1>4, <1>5, <2>1, <2>2 DEF TextInv
<1>7. CASE WiFi_RX_STA.len = rxReg + 1
  <2>1. WiFi_RX_BUF'[0].no + rxReg = rxByte.no
    <3>1. CASE rxReg = 0
      BY <1>3, <3>1
    <3>2. CASE rxReg > 0
      <4>1. WiFi_RX_BUF'[0] = WiFi_RX_BUF[0]
        BY <1>3, <3>2, SizeAssumption
      <4> QED BY <1>1, <1>2, <3>2, <4>1 DEF TextInv, TextOK
    <3> QED BY <1>3, <3>1, <3>2
  <2>2. ASSUME NEW i \in 0 .. MaxLen, i < Live'
        PROVE  /\ WiFi_RX_BUF'[i] # NUL
               /\ WiFi_RX_BUF'[i].no = WiFi_RX_BUF'[0].no + i
               /\ WiFi_RX_BUF'[i].no <= rxByte'.no
               /\ since' <= WiFi_RX_BUF'[i].no
    <3>1. CASE i = rxReg
      <4>1. since <= rxByte.no
        BY <1>2, <1>7, <1>3 DEF TextInv, NewOK
      <4> QED BY <1>1, <1>3, <2>1, <3>1, <4>1
    <3>2. CASE i < rxReg
      <4>1. 0 < rxReg /\ WiFi_RX_BUF'[i] = WiFi_RX_BUF[i] /\ WiFi_RX_BUF'[0] = WiFi_RX_BUF[0]
        BY <1>3, <3>2, SizeAssumption
      <4>2. ~Cleared
        BY <1>2, <1>3, <1>7
      <4> QED BY <1>1, <1>2, <3>2, <4>1, <4>2 DEF TextInv, TextOK, NewOK
    <3> QED BY <1>2, <1>3, <1>7, <2>2, <3>1, <3>2
  <2>3. TextOK'
    <3>1. WiFi_RX_BUF'[0].no + Live' = rxByte'.no + 1
      <4>1. rxReg \in Nat /\ Live' = rxReg + 1 /\ WiFi_RX_BUF'[0].no \in Nat /\ rxByte' = rxByte
        <5>1. WiFi_RX_BUF'[0].no \in Nat
          BY <1>3, Numbers, SizeAssumption
        <5> QED BY <1>1, <1>2, <1>3, <1>7, <5>1
      <4> QED BY <1>3, <2>1, <4>1
    <3> QED BY <1>2, <2>2, <3>1 DEF TextOK
  <2>4. NewOK'
    BY <1>1, <1>2, <2>2 DEF TextInv, NewOK
  <2> QED BY <1>4, <1>5, <2>3, <2>4 DEF TextInv
<1> QED BY <1>2, <1>6, <1>7

\* Steps that leave the live text and the receiver as they are.
LEMMA SameText ==
  ASSUME TypeOK, TextInv, UNCHANGED <<WiFi_RX_STA, rxByte, rxPc, rxReg, since>>,
         \A i \in 0 .. MaxLen : i < Live => WiFi_RX_BUF'[i] = WiFi_RX_BUF[i]
  PROVE  TextOK' /\ NewOK'
<1>1. Live' = Live /\ (InHand' <=> InHand) /\ (Cleared' <=> Cleared)
  BY DEF Live, InHand, Cleared
<1>2. Live > 0 => WiFi_RX_BUF'[0] = WiFi_RX_BUF[0]
  BY Numbers
<1>3. TextOK'
  <2>1. ASSUME NEW i \in 0 .. MaxLen, i < Live'
        PROVE  /\ WiFi_RX_BUF'[i] # NUL
               /\ WiFi_RX_BUF'[i].no = WiFi_RX_BUF'[0].no + i
               /\ WiFi_RX_BUF'[i].no <= rxByte'.no
               /\ InHand' => WiFi_RX_BUF'[i].no < rxByte'.no
    <3>1. WiFi_RX_BUF'[i] = WiFi_RX_BUF[i] /\ i < Live /\ Live > 0
      BY <1>1, <2>1, Numbers
    <3> QED BY <1>1, <1>2, <3>1 DEF TextInv, TextOK
  <2>2. Live' > 0 /\ ~WiFi_RX_STA'.fin /\ rxPc' \notin {"mark", "markStore", "dead"} =>
          WiFi_RX_BUF'[0].no + Live' = IF InHand' THEN rxByte'.no ELSE rxByte'.no + 1
    BY <1>1, <1>2 DEF TextInv, TextOK
  <2> QED BY <2>1, <2>2 DEF TextOK
<1>4. NewOK'
  BY <1>1 DEF TextInv, NewOK
<1> QED BY <1>3, <1>4

\* Steps of the sender.
LEMMA SenderText ==
  ASSUME IInv, IInv', TextInv, Sender
  PROVE  TextInv'
<1> USE DEF IInv
<1>1. /\ UNCHANGED <<rxPc, rxByte, rxReg, ring, out, wired, overrun>>
      /\ start_receive_data_flag' \/ UNCHANGED start_receive_data_flag
  BY DEF Sender, TxEnable, TxStart, TxMode, TxSend, TxTick, TxPoll, TxCheck, TxReset,
         flags, rxVars, espVars, history, wire
<1>2. WireOK' /\ Coming' = Coming
  BY <1>1 DEF TextInv, WireOK, Coming
<1>3. CASE TxStart \/ TxReset
  <2>1. Clear /\ WiFi_RX_STA' = Empty /\ WiFi_RX_BUF' = WiFi_RX_BUF /\ txPc # "off"
        /\ UNCHANGED start_receive_data_flag
    BY <1>3, ClearSets DEF TxStart, TxReset, flags
  <2>2. HandOK'
    BY <1>1, <1>2, <2>1 DEF TextInv, HandOK, InHand, Empty
  <2>3. Live' = (IF rxPc \in {"store", "write", "markStore"} THEN Live ELSE 0)
        /\ Live \in 0 .. MaxLen /\ (InHand' <=> InHand) /\ (Cleared' <=> rxPc = "write")
    BY <1>1, <2>1, Numbers DEF Live, Empty, InHand, Cleared
  <2>4. rxPc \in {"store", "write", "markStore"} => ~WiFi_RX_STA.fin
    BY DEF BufferOwnership
  <2>5. TextOK'
    BY <1>1, <2>1, <2>3, <2>4, SizeAssumption DEF TextInv, TextOK
  <2>6. NewOK'
    <3>1. CASE rxPc \in {"store", "markStore"}
      BY <1>1, <2>1, <3>1, Numbers DEF Clear, NewOK
    <3>2. CASE rxPc = "test"
      BY <1>1, <2>1, <2>3, <3>2, Numbers DEF Clear, NewOK
    <3>3. CASE rxPc \notin {"store", "markStore", "test"}
      BY <1>1, <2>1, <2>3, <3>3, Numbers DEF Clear, NewOK, InHand
    <3> QED BY <3>1, <3>2, <3>3
  <2>7. StartOK'
    BY <2>1 DEF TextInv, StartOK
  <2> QED BY <1>2, <2>2, <2>5, <2>6, <2>7 DEF TextInv
<1>4. CASE ~(TxStart \/ TxReset)
  <2>1. UNCHANGED <<WiFi_RX_STA, since>>
    BY <1>4 DEF Sender, TxEnable, TxMode, TxSend, TxTick, TxPoll, TxCheck, shared, history
  <2>2. \/ WiFi_RX_BUF' = WiFi_RX_BUF
        \/ WiFi_RX_STA.fin /\ WiFi_RX_BUF' = [WiFi_RX_BUF EXCEPT ![WiFi_RX_STA.len] = NUL]
    <3>1. CASE TxCheck
      BY <3>1 DEF TxCheck
    <3>2. CASE TxEnable \/ TxMode \/ TxSend \/ TxTick \/ TxPoll
      BY <3>2 DEF TxEnable, TxMode, TxSend, TxTick, TxPoll, shared
    <3> QED BY <1>4, <3>1, <3>2 DEF Sender
  <2>3. ASSUME NEW i \in 0 .. MaxLen, i < Live PROVE WiFi_RX_BUF'[i] = WiFi_RX_BUF[i]
    <3>1. CASE WiFi_RX_BUF' = WiFi_RX_BUF
      BY <3>1
    <3>2. CASE WiFi_RX_STA.fin /\ WiFi_RX_BUF' = [WiFi_RX_BUF EXCEPT ![WiFi_RX_STA.len] = NUL]
      <4>1. i # WiFi_RX_STA.len
        BY <2>3, <3>2, Numbers DEF Live, BufferOwnership
      <4>2. WiFi_RX_BUF \in [0 .. MaxLen -> Cell]
        BY DEF TypeOK
      <4> QED BY <3>2, <4>1, <4>2
    <3> QED BY <2>2, <3>1, <3>2
  <2>4. TextOK' /\ NewOK'
    BY <1>1, <2>1, <2>3, SameText
  <2>5. HandOK'
    BY <1>1, <1>2, <2>1 DEF TextInv, HandOK, InHand
  <2>6. StartOK'
    <3>1. txPc' = "off" => FALSE
      BY <1>4 DEF Sender, TxEnable, TxMode, TxSend, TxTick, TxPoll, TxCheck
    <3>2. start_receive_data_flag'
      BY <1>4 DEF Sender, TxEnable, TxMode, TxSend, TxTick, TxPoll, TxCheck, flags,
                  TextInv, StartOK
    <3> QED BY <3>2 DEF StartOK
  <2> QED BY <1>2, <2>4, <2>5, <2>6 DEF TextInv
<1> QED BY <1>3, <1>4

\* The ESP32 answers.
LEMMA AnswerText ==
  ASSUME IInv, IInv', TextInv, EspAnswer
  PROVE  TextInv'
<1> USE DEF IInv
<1>1. UNCHANGED <<shared, flags, rxVars, txPc, ring, overrun, since>>
  BY DEF EspAnswer, txVars
<1>2. PICK r \in Replies[Head(esp).mode] : Answered(r)
  BY AnswerIs
<1>3. Len(r) \in Nat /\ esp # <<>> /\ Len(out) = 0
  <2>1. esp # <<>> /\ out = <<>>
    BY AnswerIs
  <2>2. Head(esp) \in [id : Tags, mode : {1, 2}]
    BY <2>1, HeadTailProperties DEF TypeOK
  <2> QED BY <2>1, <2>2, CommandAssumption, LenProperties
<1>4. /\ wired'.bytes = wired.bytes + Len(r) /\ Len(out') = Len(r)
      /\ \A i \in 1 .. Len(r) : out'[i].no = wired.bytes + i
  BY <1>2, <1>3 DEF Answered, AnswerByte
<1>5. wired.bytes \in Nat /\ Len(ring) \in Nat /\ Len(ring) <= wired.bytes
      /\ \A i \in 1 .. Len(ring) : ring[i].no = wired.bytes - Len(ring) + i
  <2>1. /\ wired.bytes \in Nat /\ Len(ring) \in Nat /\ Len(out) = 0
        /\ \A i \in 1 .. Len(ring) : ring[i].no = wired.bytes - Len(out) - Len(ring) + i
        /\ Len(out) + Len(ring) <= wired.bytes
    BY <1>3, Numbers DEF TextInv, WireOK
  <2> QED BY <2>1
<1>6. WireOK' /\ Coming' = Coming
  <2>1. ring' = ring
    BY <1>1
  <2>2. Len(out') + Len(ring) <= wired'.bytes
    BY <1>3, <1>4, <1>5
  <2>3. ASSUME NEW i \in 1 .. Len(r) PROVE out'[i].no = wired'.bytes - Len(r) + i
    BY <1>3, <1>4, <1>5
  <2>4. ASSUME NEW i \in 1 .. Len(ring) PROVE ring[i].no = wired'.bytes - Len(r) - Len(ring) + i
    BY <1>3, <1>4, <1>5
  <2>5. (wired.bytes + Len(r)) - Len(r) - Len(ring) + 1 = wired.bytes - 0 - Len(ring) + 1
    BY <1>3, <1>5
  <2>6. Coming' = Coming
    <3>1. wired'.bytes = wired.bytes + Len(r) /\ Len(out') = Len(r) /\ Len(ring') = Len(ring)
      BY <1>4, <2>1
    <3>2. wired.bytes - Len(out) - Len(ring) + 1 = wired.bytes - 0 - Len(ring) + 1
      BY <1>3
    <3>3. wired'.bytes - Len(out') - Len(ring') + 1 = (wired.bytes + Len(r)) - Len(r) - Len(ring) + 1
      BY <3>1, Zenon
    <3> QED BY <2>5, <3>2, <3>3, Zenon DEF Coming
  <2> QED BY <1>4, <2>1, <2>2, <2>3, <2>4, <2>6, Zenon DEF WireOK
<1>7. TextOK' /\ NewOK'
  BY <1>1, SameText DEF shared, rxVars
<1> QED BY <1>1, <1>6, <1>7 DEF TextInv, HandOK, InHand, StartOK, shared, flags, rxVars

\* The interrupt handler moves a byte into the ring.
LEMMA IsrText ==
  ASSUME IInv, IInv', TextInv, UsartIsr
  PROVE  TextInv'
<1> USE DEF IInv
<1>1. UNCHANGED <<shared, flags, rxVars, txPc, wired, since>> /\ out # <<>> /\ out' = Tail(out)
  BY DEF UsartIsr, txVars, history, wire
<1> DEFINE kept == IF Len(ring) < RingCap THEN ring ELSE Tail(ring)
           d    == IF Len(ring) < RingCap THEN 0 ELSE 1
<1>2. /\ kept \in Seq(Byte) /\ Len(kept) = Len(ring) - d /\ d \in {0, 1}
      /\ \A i \in 1 .. Len(kept) : kept[i] = ring[i + d] /\ i + d \in 1 .. Len(ring)
  <2>1. ring \in Seq(Byte) /\ Len(ring) \in Nat /\ Len(ring) <= RingCap /\ RingCap \in Nat \ {0}
    BY SizeAssumption, LenProperties DEF TypeOK
  <2>2. CASE Len(ring) < RingCap
    BY <2>1, <2>2
  <2>3. CASE ~(Len(ring) < RingCap)
    <3>1. ring # <<>>
      BY <2>1, <2>3, EmptySeq
    <3> QED BY <2>1, <2>3, <3>1, HeadTailProperties
  <2> QED BY <2>2, <2>3
<1>3. ring' = Append(kept, Head(out)) /\ (d = 1 => overrun') /\ (d = 0 => overrun' = overrun)
  <2>1. CASE Len(ring) < RingCap
    BY <2>1 DEF UsartIsr
  <2>2. CASE ~(Len(ring) < RingCap)
    BY <2>2 DEF UsartIsr
  <2> QED BY <2>1, <2>2
<1> HIDE DEF kept, d
<1>4. /\ Len(out) > 0 /\ Len(out') = Len(out) - 1 /\ Head(out) = out[1]
      /\ \A i \in 1 .. Len(out') : out'[i] = out[i + 1] /\ i + 1 \in 1 .. Len(out)
      /\ Len(ring') = Len(kept) + 1 /\ ring'[Len(kept) + 1] = Head(out)
      /\ \A i \in 1 .. Len(kept) : ring'[i] = kept[i]
  <2>1. out \in Seq(Byte) /\ out # <<>> /\ out' = Tail(out) /\ Head(out) \in Byte
    BY <1>1, HeadTailProperties DEF TypeOK
  <2>2. /\ Len(out) > 0 /\ Len(out') = Len(out) - 1 /\ Head(out) = out[1]
        /\ \A i \in 1 .. Len(out') : out'[i] = out[i + 1] /\ i + 1 \in 1 .. Len(out)
    BY <2>1, HeadTailProperties, LenProperties, EmptySeq
  <2>3. /\ Len(ring') = Len(kept) + 1 /\ ring'[Len(kept) + 1] = Head(out)
        /\ \A i \in 1 .. Len(kept) : ring'[i] = kept[i]
    BY <1>2, <1>3, <2>1, AppendProperties
  <2> QED BY <2>2, <2>3
<1> DEFINE w == wired.bytes
           o == Len(out)
           n == Len(ring)
<1>5. /\ w \in Nat /\ o \in Nat /\ n \in Nat /\ o + n <= w /\ o > 0
      /\ Len(out') = o - 1 /\ Len(ring') = n - d + 1 /\ wired'.bytes = w
      /\ \A i \in 1 .. o : out[i].no = w - o + i
      /\ \A i \in 1 .. n : ring[i].no = w - o - n + i
  BY <1>1, <1>2, <1>4, Numbers DEF TextInv, WireOK
<1>w. w = wired.bytes /\ o = Len(out) /\ n = Len(ring)
  OBVIOUS
<1> HIDE DEF w, o, n
<1>6. Coming' = Coming + d
  <2>1. w - (o - 1) - (n - d + 1) + 1 = w - o - n + 1 + d
    BY <1>2, <1>5
  <2>2. w - (o - 1) - (n - d + 1) + 1 = Coming'
    BY <1>5, Zenon DEF Coming
  <2> QED BY <1>w, <2>1, <2>2, Zenon DEF Coming
<1>7. WireOK'
  <2>1. Len(out') + Len(ring') <= w
    BY <1>2, <1>5
  <2>2. ASSUME NEW i \in 1 .. Len(out') PROVE out'[i].no = w - (o - 1) + i
    <3>0. out'[i] = out[i + 1] /\ i + 1 \in 1 .. o
      BY <1>4, <1>w, Zenon
    <3>1. out'[i].no = w - o + (i + 1)
      BY <1>5, <3>0, Zenon
    <3>2. w - o + (i + 1) = w - (o - 1) + i
      BY <1>5
    <3> QED BY <3>1, <3>2, Zenon
  <2>3. ASSUME NEW i \in 1 .. Len(ring')
        PROVE  ring'[i].no = w - (o - 1) - (n - d + 1) + i
    <3>1. CASE i = n - d + 1
      <4>0. ring'[i] = out[1] /\ 1 \in 1 .. o
        <5>1. Len(kept) + 1 = i
          BY <1>2, <1>4, <1>5, <3>1
        <5> QED BY <1>4, <1>5, <5>1
      <4>1. ring'[i].no = w - o + 1
        BY <1>5, <4>0, Zenon
      <4>2. w - (o - 1) - (n - d + 1) + i = w - o + 1
        BY <1>2, <1>5, <3>1
      <4> QED BY <4>1, <4>2, Zenon
    <3>2. CASE i # n - d + 1
      <4>1. i \in 1 .. Len(kept)
        BY <1>2, <1>4, <1>5, <3>2
      <4>a. ring'[i] = ring[i + d] /\ i + d \in 1 .. n
        BY <1>2, <1>4, <1>w, <4>1, Zenon
      <4>2. ring'[i].no = w - o - n + (i + d)
        BY <1>5, <4>a, Zenon
      <4>3. w - o - n + (i + d) = w - (o - 1) - (n - d + 1) + i
        BY <1>2, <1>5
      <4> QED BY <4>2, <4>3, Zenon
    <3> QED BY <3>1, <3>2
  <2> QED BY <1>5, <2>1, <2>2, <2>3, Zenon DEF WireOK
<1>8. TextOK' /\ NewOK'
  BY <1>1, SameText DEF shared, rxVars
<1>9. HandOK'
  <2>1. rxByte.no \in Nat /\ Coming \in Int
    BY <1>5, <1>w, Numbers DEF Coming
  <2>2. UNCHANGED <<WiFi_RX_STA, rxPc, rxByte, rxReg>>
    BY <1>1 DEF shared, rxVars
  <2> QED BY <1>2, <1>3, <1>6, <2>1, <2>2 DEF TextInv, HandOK, InHand
<1> QED BY <1>1, <1>7, <1>8, <1>9 DEF TextInv, StartOK, shared, flags, rxVars

LEMMA InitText == Init => TextInv
<1> SUFFICES ASSUME Init PROVE TextInv
  OBVIOUS
<1>1. TypeOK
  BY InitIInv DEF IInv
<1>2. Live = 0 /\ ~InHand /\ Coming = 1 /\ ~Cleared
  BY DEF Init, Live, InHand, Coming, Cleared, Empty
<1> QED BY <1>1, <1>2, Numbers DEF TextInv, StartOK, WireOK, HandOK, TextOK, NewOK, Init,
           Empty, NUL

LEMMA StepText == IInv /\ IInv' /\ TextInv /\ [Next]_vars => TextInv'
<1> SUFFICES ASSUME IInv, IInv', TextInv, [Next]_vars PROVE TextInv'
  OBVIOUS
<1>1. CASE UNCHANGED vars
  <2>1. UNCHANGED <<shared, flags, rxVars, txPc, ring, overrun, out, wired, since>>
    BY <1>1 DEF vars, txVars, espVars, history, wire
  <2>2. TextOK' /\ NewOK'
    BY <2>1, SameText DEF IInv, shared, rxVars
  <2> QED BY <2>1, <2>2 DEF TextInv, StartOK, WireOK, HandOK, InHand, Coming, shared, flags,
                            rxVars
<1>2. CASE Receiver
  BY <1>2, ReceiverText, ReceiveText, WriteText
<1> QED BY <1>1, <1>2, SenderText, AnswerText, IsrText DEF Next

LEMMA TextInvariant == Spec => [](IInv /\ TextInv)
BY InitIInv, InitText, StepIInv, StepText, PTL DEF Spec

\* The text of a finished message is a stretch of the wire, whatever the two
\* tasks, the ring and the ESP32 do.
THEOREM Contiguity == Spec => []MessageContiguous
<1>1. IInv /\ TextInv => MessageContiguous
  BY DEF IInv, BufferOwnership, TextInv, TextOK, Live, MessageContiguous
<1> QED BY <1>1, TextInvariant, PTL

\* It has nothing from before the last clear, unless that clear was lost.
THEOREM NewText == Spec => []MessageIsNew
<1>1. IInv /\ TextInv => MessageIsNew
  BY DEF IInv, BufferOwnership, TextInv, NewOK, Cleared, Live, MessageIsNew
<1> QED BY <1>1, TextInvariant, PTL

-----------------------------------------------------------------------------
(* How stale an answer can be.                                             *)

\* The bytes that may still be read: those of the live text, the one the
\* receiver holds, those of the ring and those the ESP32 has still to send.
BytesOf(s) == {s[i] : i \in 1 .. Len(s)}
TextBytes  == {WiFi_RX_BUF[i] : i \in {k \in 0 .. MaxLen : k < Live}}
Behindhand == (IF InHand THEN {rxByte} ELSE {}) \cup BytesOf(ring) \cup BytesOf(out)
AllBytes   == TextBytes \cup Behindhand

\* Those a call may still accept: an accepted text is cleared before the next
\* call looks.
Unused == IF acked # 0 THEN Behindhand ELSE AllBytes
\* The calls that have been answered: neither abandoned nor under way.
Used   == sent - abandoned - (IF txPc \in {"off", "idle"} THEN 0 ELSE 1)
Ack(b) == b.sym \in AckSymbols

\* Acknowledgements are numbered in the order of the wire, at most one for each
\* command and the surplus, and as many have been passed as calls were answered.
AckLaw ==
  /\ Used <= wired.acks
  /\ \A b \in AllBytes : /\ b \in Byte /\ b.no <= wired.bytes /\ b.ack <= wired.acks
                         /\ 1 <= b.src
                         /\ Ack(b) => b.ack <= b.src + surplus
  /\ \A a, b \in AllBytes : a.no < b.no /\ Ack(b) => a.ack < b.ack
  /\ \A b \in Unused : Ack(b) => Used < b.ack

\* The commands the ESP32 has not answered leave room for their answers.
CommandLaw ==
  /\ \A k \in 1 .. Len(esp) : 1 <= esp[k].id /\ wired.acks + k <= esp[k].id + surplus
  /\ wired.acks + Len(esp) + (IF txPc \in {"mode", "send"} THEN 1 ELSE 0) <= sent + surplus

CallLaw ==
  /\ txPc \notin {"off", "idle"} => 1 <= sent
  /\ txPc \in {"wait", "poll", "check", "reset"} => cmd.ack # "none"
  /\ acked # 0 => txPc = "idle" /\ WiFi_RX_STA.fin

LagInv == AckLaw /\ CommandLaw /\ CallLaw /\ AnswerLag

\* The numbers of these bytes.
LEMMA BytesAre ==
  ASSUME IInv, TextInv
  PROVE  /\ AllBytes \subseteq Cell
         /\ \A b \in Cell : b.no \in Nat /\ b.ack \in Nat /\ b.src \in Nat
         /\ \A a \in TextBytes, b \in Behindhand : a.no < b.no
<1> USE DEF IInv
<1>1. \A b \in Cell : b.no \in Nat /\ b.ack \in Nat /\ b.src \in Nat
  BY CommandAssumption DEF Cell, Byte, NUL, Tags
<1>2. BytesOf(ring) \subseteq Byte /\ BytesOf(out) \subseteq Byte /\ TextBytes \subseteq Cell
      /\ rxByte \in Cell
  BY ElementOfSeq DEF BytesOf, TextBytes, TypeOK
<1>3. AllBytes \subseteq Cell
  BY <1>2 DEF AllBytes, Behindhand, Cell
<1>4. ASSUME NEW a \in TextBytes, NEW b \in Behindhand PROVE a.no < b.no
  <2>1. a.no <= rxByte.no /\ (InHand => a.no < rxByte.no) /\ rxByte.no < Coming
        /\ a.no \in Nat /\ rxByte.no \in Nat /\ b.no \in Nat /\ Coming \in Int
    <3>1. Coming \in Int
      BY Numbers DEF Coming
    <3> QED BY <1>1, <1>2, <1>3, <3>1 DEF TextBytes, TextInv, TextOK, HandOK, AllBytes
  <2>2. CASE InHand /\ b = rxByte
    BY <2>1, <2>2
  <2>3. CASE b \in BytesOf(ring)
    <3>1. PICK i \in 1 .. Len(ring) : b = ring[i]
      BY <2>3 DEF BytesOf
    <3>2. Coming <= b.no
      <4>1. ring[i].no = wired.bytes - Len(out) - Len(ring) + i
        BY DEF TextInv, WireOK
      <4> QED BY <3>1, <4>1, Numbers DEF Coming
    <3> QED BY <2>1, <3>2
  <2>4. CASE b \in BytesOf(out)
    <3>1. PICK i \in 1 .. Len(out) : b = out[i]
      BY <2>4 DEF BytesOf
    <3>2. Coming <= b.no
      <4>1. out[i].no = wired.bytes - Len(out) + i
        BY DEF TextInv, WireOK
      <4> QED BY <3>1, <4>1, Numbers DEF Coming
    <3> QED BY <2>1, <3>2
  <2> QED BY <2>2, <2>3, <2>4 DEF Behindhand
<1> QED BY <1>1, <1>3, <1>4

\* A step that adds no byte and answers no call keeps the law.
LEMMA Fewer ==
  ASSUME AckLaw, AllBytes' \subseteq AllBytes, Unused' \subseteq Unused,
         UNCHANGED <<wired, surplus>>, Used' = Used
  PROVE  AckLaw'
BY Zenon DEF AckLaw, Ack

\* The bytes after a step that leaves the live text and the receiver as they are.
LEMMA SameBytes ==
  ASSUME UNCHANGED <<WiFi_RX_STA, rxByte, rxPc, rxReg>>,
         \A i \in 0 .. MaxLen : i < Live => WiFi_RX_BUF'[i] = WiFi_RX_BUF[i]
  PROVE  TextBytes' = TextBytes /\ (InHand' <=> InHand)
BY DEF TextBytes, Live, InHand

\* The receiver adds no byte.
LEMMA ReceiverBytes ==
  ASSUME IInv, TextInv, Receiver
  PROVE  AllBytes' \subseteq AllBytes /\ Behindhand' \subseteq Behindhand
<1> USE DEF IInv
<1>1. CASE RxReceive
  <2>1. ring \in Seq(Byte) /\ ring # <<>> /\ ring' = Tail(ring) /\ rxByte' = Head(ring)
    BY <1>1 DEF RxReceive, TypeOK
  <2>2. BytesOf(ring') \subseteq BytesOf(ring) /\ rxByte' \in BytesOf(ring)
    <3>1. /\ Len(ring) > 0 /\ Len(ring) \in Nat /\ rxByte' = ring[1]
          /\ \A i \in 1 .. Len(ring') : ring'[i] = ring[i + 1] /\ i + 1 \in 1 .. Len(ring)
      BY <2>1, HeadTailProperties, LenProperties, EmptySeq
    <3> QED BY <3>1 DEF BytesOf
  <2>3. out' = out /\ TextBytes' = TextBytes /\ ~InHand
    BY <1>1 DEF RxReceive, espVars, TextBytes, Live, InHand, shared
  <2> QED BY <2>2, <2>3, Zenon DEF AllBytes, Behindhand
<1>2. CASE RxWrite
  <2>1. ring' = ring /\ out' = out /\ InHand /\ ~InHand' /\ rxReg \in 0 .. MaxLen
        /\ WiFi_RX_BUF' = [WiFi_RX_BUF EXCEPT ![rxReg] = rxByte]
        /\ WiFi_RX_BUF \in [0 .. MaxLen -> Cell]
    BY <1>2 DEF RxWrite, WriteIndex, espVars, InHand, TypeOK
  <2>2. TextBytes' \subseteq TextBytes \cup {rxByte}
    <3>1. Live = rxReg
      BY <1>2 DEF RxWrite, Live
    <3>2. ASSUME NEW i \in 0 .. MaxLen, i < Live'
          PROVE  WiFi_RX_BUF'[i] \in TextBytes \cup {rxByte}
      <4>1. CASE i = rxReg
        BY <2>1, <4>1
      <4>2. CASE i < rxReg
        BY <2>1, <3>1, <4>2, SizeAssumption DEF TextBytes
      <4>3. i <= rxReg
        <5>1. Live' = WiFi_RX_STA.len /\ WiFi_RX_STA.len \in {0, rxReg + 1}
          BY <1>2 DEF RxWrite, Live, TextInv, HandOK
        <5> QED BY <3>2, <5>1, SizeAssumption, <2>1
      <4> QED BY <2>1, <4>1, <4>2, <4>3, SizeAssumption
    <3> QED BY <3>2 DEF TextBytes
  <2> QED BY <2>1, <2>2, Zenon DEF AllBytes, Behindhand
<1>3. CASE ~RxReceive /\ ~RxWrite
  <2>1. /\ UNCHANGED <<rxByte, ring, out>> /\ Live' = Live
        /\ \A i \in 0 .. MaxLen : i < Live => WiFi_RX_BUF'[i] = WiFi_RX_BUF[i]
    BY <1>3, ReceiverMoves
  <2>2. InHand' => InHand
    BY <1>3, ReceiverMoves DEF QuietMove, InHand
  <2>3. TextBytes' = TextBytes
    BY <2>1 DEF TextBytes
  <2> QED BY <2>1, <2>2, <2>3, Zenon DEF AllBytes, Behindhand
<1> QED BY <1>1, <1>2, <1>3

LEMMA ReceiverLag ==
  ASSUME IInv, TextInv, LagInv, Receiver
  PROVE  LagInv'
<1>1. UNCHANGED <<txPc, cmd, esp, sent, acked, abandoned, wired, surplus>>
      /\ (WiFi_RX_STA.fin => WiFi_RX_STA'.fin)
  BY DEF IInv, BufferOwnership, Receiver, RxInit, RxOverrun, RxReceive, RxTest, RxStore,
         RxWrite, RxTerm, RxMarkLoad, RxMarkStore, shared, txVars, espVars, history, calls, wire
<1>2. AllBytes' \subseteq AllBytes /\ Behindhand' \subseteq Behindhand
  BY ReceiverBytes
<1>3. Unused' \subseteq Unused /\ Used' = Used
  BY <1>1, <1>2 DEF Unused, Used
<1>4. AckLaw'
  BY <1>1, <1>2, <1>3, Fewer DEF LagInv
<1> QED BY <1>1, <1>4 DEF LagInv, CommandLaw, CallLaw, AnswerLag

\* A call ends with an acknowledgement: the bytes that stay are behind it.
LEMMA CheckLag ==
  ASSUME IInv, TextInv, LagInv, TxCheck
  PROVE  LagInv'
<1> USE DEF IInv
<1>1. /\ UNCHANGED <<WiFi_RX_STA, rxPc, rxByte, rxReg, cmd, ring, esp, out, sent, abandoned,
                     wired, surplus>>
      /\ WiFi_RX_STA.fin /\ txPc = "check" /\ cmd.ack # "none"
      /\ WiFi_RX_BUF' = [WiFi_RX_BUF EXCEPT ![WiFi_RX_STA.len] = NUL]
  BY DEF TxCheck, BufferOwnership, LagInv, CallLaw, rxVars, espVars, wire
<1>2. Live = WiFi_RX_STA.len /\ WiFi_RX_BUF \in [0 .. MaxLen -> Cell] /\ Live \in 0 .. MaxLen
  BY <1>1, Numbers DEF BufferOwnership, Live, TypeOK
<1>3. ASSUME NEW i \in 0 .. MaxLen, i < Live PROVE WiFi_RX_BUF'[i] = WiFi_RX_BUF[i]
  BY <1>1, <1>2, <1>3, SizeAssumption
<1>4. TextBytes' = TextBytes /\ Behindhand' = Behindhand /\ AllBytes' = AllBytes
  <2>1. TextBytes' = TextBytes /\ (InHand' <=> InHand)
    BY <1>1, <1>3, SameBytes
  <2> QED BY <1>1, <2>1 DEF Behindhand, AllBytes
<1>5. acked = 0
  BY <1>1 DEF LagInv, CallLaw
<1>6. CASE UNCHANGED acked /\ txPc' = "reset"
  <2>1. Unused' = Unused /\ Used' = Used
    BY <1>1, <1>4, <1>6 DEF Unused, Used
  <2>2. AckLaw'
    BY <1>1, <1>4, <2>1, Fewer DEF LagInv
  <2> QED BY <1>1, <1>5, <1>6, <2>2 DEF LagInv, CommandLaw, CallLaw, AnswerLag
<1>7. ASSUME NEW i \in 0 .. MaxLen, FirstAt(WiFi_RX_BUF', cmd.ack, i),
             acked' = WiFi_RX_BUF'[i].src, txPc' = "idle"
      PROVE  LagInv'
  <2> DEFINE b == WiFi_RX_BUF[i]
  <2>1. cmd.ack \in AckSymbols
    BY <1>1 DEF TypeOK, CommandOK, AckSymbols
  <2>2. WiFi_RX_BUF'[i].sym = cmd.ack /\ \A j \in 0 .. i : WiFi_RX_BUF'[j].sym # "NUL"
    BY <1>7 DEF FirstAt, FoundAt
  <2>3. i < Live
    <3>1. WiFi_RX_BUF'[Live].sym = "NUL"
      BY <1>1, <1>2 DEF NUL
    <3> QED BY <1>2, <2>2, <3>1, SizeAssumption
  <2>4. b \in TextBytes /\ Ack(b) /\ acked' = b.src
    BY <1>3, <1>7, <2>1, <2>2, <2>3 DEF TextBytes, Ack
  <2>5. /\ Used < b.ack /\ b.ack <= wired.acks /\ 1 <= b.src /\ b.ack <= b.src + surplus
        /\ b.ack \in Nat /\ b.src \in Nat
    BY <1>5, <2>4, BytesAre DEF LagInv, AckLaw, Unused, AllBytes
  <2>6. Used \in Int /\ Used' = Used + 1 /\ Used' = sent - abandoned
        /\ sent \in Nat /\ abandoned \in Nat /\ wired.acks \in Nat /\ surplus \in Nat
    BY <1>1, <1>7, CommandAssumption DEF Used, TypeOK, Tags
  <2>7. AckLaw'
    <3>1. Used' <= wired'.acks
      BY <1>1, <2>5, <2>6
    <3>2. ASSUME NEW c \in Unused', Ack(c) PROVE Used' < c.ack
      <4>1. c \in Behindhand
        BY <1>4, <2>4, <2>5 DEF Unused
      <4>2. b.no < c.no /\ c \in AllBytes /\ b \in AllBytes
        BY <2>4, <4>1, BytesAre DEF AllBytes
      <4>3. b.ack < c.ack
        BY <3>2, <4>2 DEF LagInv, AckLaw
      <4>4. c.ack \in Nat
        BY <4>2, BytesAre
      <4> QED BY <2>5, <2>6, <4>3, <4>4
    <3> QED BY <1>1, <1>4, <3>1, <3>2 DEF LagInv, AckLaw, Ack
  <2>8. CommandLaw' /\ CallLaw'
    BY <1>1, <1>7 DEF LagInv, CommandLaw, CallLaw
  <2>9. AnswerLag'
    BY <1>1, <2>4, <2>5, <2>6 DEF AnswerLag
  <2> QED BY <2>7, <2>8, <2>9 DEF LagInv
<1> QED BY <1>6, <1>7 DEF TxCheck

\* The other steps of the sender.
LEMMA SenderLag ==
  ASSUME IInv, TextInv, LagInv, Sender
  PROVE  LagInv'
<1> USE DEF IInv
<1>1. CASE TxStart \/ TxReset
  <2>1. Clear /\ WiFi_RX_STA' = Empty /\ UNCHANGED <<WiFi_RX_BUF, rxPc, rxByte, rxReg, ring,
             esp, out, abandoned, wired, surplus>>
    BY <1>1, ClearSets DEF TxStart, TxReset, rxVars, espVars, calls, wire
  <2>2. TextBytes' \subseteq TextBytes /\ Behindhand' = Behindhand
    <3>1. Live' = Live \/ Live' = 0
      BY <2>1 DEF Live, Empty
    <3>2. TextBytes' \subseteq TextBytes
      BY <2>1, <3>1, SizeAssumption DEF TextBytes
    <3> QED BY <2>1, <3>2 DEF Behindhand, InHand
  <2>3. CASE TxStart
    <3>1. txPc = "idle" /\ txPc' = "mode" /\ sent' = sent + 1 /\ acked' = 0
      BY <2>3 DEF TxStart
    <3>2. Used' = Used
      BY <2>1, <3>1, CommandAssumption DEF Used, TypeOK, Tags
    <3>3. Unused' \subseteq Unused
      <4>1. CASE acked = 0
        BY <2>2, <3>1, <4>1 DEF Unused, AllBytes
      <4>2. CASE acked # 0
        <5>1. WiFi_RX_STA.fin
          BY <4>2 DEF LagInv, CallLaw
        <5>2. Live' = 0
          BY <2>1, <5>1 DEF Live, Empty, BufferOwnership
        <5>3. TextBytes' = {}
          BY <5>2, SizeAssumption DEF TextBytes
        <5> QED BY <2>2, <3>1, <4>2, <5>3 DEF Unused, AllBytes
      <4> QED BY <4>1, <4>2
    <3>4. AckLaw'
      BY <2>1, <2>2, <3>2, <3>3, Fewer DEF LagInv, AllBytes
    <3>5. CommandLaw'
      <4>1. wired.acks \in Nat /\ Len(esp) \in Nat /\ sent \in Nat /\ surplus \in Nat
        BY CommandAssumption DEF TypeOK, Tags
      <4> QED BY <2>1, <3>1, <4>1 DEF LagInv, CommandLaw
    <3> QED BY <3>1, <3>4, <3>5, CommandAssumption DEF LagInv, CallLaw, AnswerLag, TypeOK, Tags
  <2>4. CASE TxReset
    <3>1. txPc = "reset" /\ txPc' = "wait" /\ UNCHANGED <<sent, acked, cmd>>
      BY <2>4 DEF TxReset, calls
    <3>2. Unused' \subseteq Unused /\ Used' = Used
      BY <2>1, <2>2, <3>1 DEF Unused, Used, AllBytes
    <3>3. AckLaw'
      BY <2>1, <2>2, <3>2, Fewer DEF LagInv, AllBytes
    <3> QED BY <2>1, <3>1, <3>3 DEF LagInv, CommandLaw, CallLaw, AnswerLag
  <2> QED BY <1>1, <2>3, <2>4
<1>2. CASE TxEnable \/ TxMode \/ TxSend \/ TxTick \/ TxPoll
  <2>1. UNCHANGED <<WiFi_RX_STA, WiFi_RX_BUF, rxPc, rxByte, rxReg, ring, out, cmd, sent, acked,
                    wired, surplus>>
    BY <1>2 DEF TxEnable, TxMode, TxSend, TxTick, TxPoll, shared, rxVars, espVars, history,
                calls, wire
  <2>2. AllBytes' = AllBytes /\ Behindhand' = Behindhand
    BY <2>1 DEF AllBytes, Behindhand, TextBytes, InHand, Live
  <2>3. sent \in Nat /\ abandoned \in Nat /\ wired.acks \in Nat /\ surplus \in Nat
        /\ Len(esp) \in Nat
    BY CommandAssumption DEF TypeOK, Tags
  <2>4. Used' = Used
    BY <1>2, <2>1, <2>3 DEF TxEnable, TxMode, TxSend, TxTick, TxPoll, Used, history, calls
  <2>5. AckLaw'
    BY <2>1, <2>2, <2>4, Fewer DEF LagInv, Unused
  <2>6. CommandLaw'
    <3>1. CASE TxSend
      <4>1. esp' = Append(esp, [id |-> sent, mode |-> cmd.mode]) /\ txPc = "send"
            /\ txPc' \in {"torn", "wait", "idle"}
        BY <3>1 DEF TxSend
      <4>2. 1 <= sent /\ wired.acks + Len(esp) + 1 <= sent + surplus
        BY <4>1 DEF LagInv, CallLaw, CommandLaw
      <4>3. Len(esp') = Len(esp) + 1
        BY <4>1 DEF TypeOK
      <4>4. ASSUME NEW k \in 1 .. Len(esp')
            PROVE  1 <= esp'[k].id /\ wired.acks + k <= esp'[k].id + surplus
        <5>1. CASE k = Len(esp) + 1
          BY <4>1, <4>2, <5>1 DEF TypeOK
        <5>2. CASE k \in 1 .. Len(esp)
          BY <4>1, <5>2 DEF TypeOK, LagInv, CommandLaw
        <5> QED BY <2>3, <4>3, <5>1, <5>2
      <4> QED BY <2>1, <2>3, <4>1, <4>2, <4>3, <4>4 DEF CommandLaw
    <3>2. CASE ~TxSend
      BY <1>2, <2>1, <3>2 DEF LagInv, CommandLaw, TxEnable, TxMode, TxTick, TxPoll, espVars
    <3> QED BY <3>1, <3>2
  <2>7. CallLaw'
    BY <1>2, <2>1 DEF LagInv, CallLaw, TxEnable, TxMode, TxSend, TxTick, TxPoll, history, calls
  <2>8. AnswerLag'
    <3>1. CASE acked = 0
      BY <2>1, <3>1 DEF AnswerLag
    <3>2. CASE acked # 0
      BY <1>2, <3>2 DEF LagInv, CallLaw, TxEnable, TxMode, TxSend, TxTick, TxPoll
    <3> QED BY <3>1, <3>2
  <2> QED BY <2>5, <2>6, <2>7, <2>8 DEF LagInv
<1> QED BY <1>1, <1>2, CheckLag DEF Sender

LEMMA Room ==
  ASSUME NEW a \in Nat, NEW b \in Nat, NEW c \in Int, NEW d \in Int, NEW e \in Int, NEW x \in Nat,
         b <= 1 + x, a + (c + 1) <= d + e
  PROVE  (a + b) + c <= d + (e + x)
OBVIOUS

\* The ESP32 answers: the new bytes are behind all others.
LEMMA EspLag ==
  ASSUME IInv, IInv', TextInv, LagInv, EspAnswer
  PROVE  LagInv'
<1> USE DEF IInv
<1>1. /\ UNCHANGED <<WiFi_RX_STA, WiFi_RX_BUF, rxPc, rxByte, rxReg, ring, txPc, cmd, sent, acked,
                     abandoned>>
      /\ esp # <<>> /\ out = <<>> /\ esp' = Tail(esp)
  BY DEF EspAnswer, shared, rxVars, txVars, calls
<1>2. PICK r \in Replies[Head(esp).mode] : Answered(r)
  BY AnswerIs
<1> DEFINE L   == Len(r)
           k   == Acks(r, L)
           new == {AnswerByte(r, i) : i \in 1 .. L}
<1>3. /\ Head(esp) = esp[1] /\ Head(esp) \in [id : Tags, mode : {1, 2}]
      /\ Len(esp) > 0 /\ Len(esp') = Len(esp) - 1 /\ Len(esp) \in Nat
      /\ \A j \in 1 .. Len(esp') : esp'[j] = esp[j + 1] /\ j + 1 \in 1 .. Len(esp)
  <2> DEFINE T == [id : Tags, mode : {1, 2}]
  <2>1. esp \in Seq(T) /\ esp # <<>>
    BY <1>1 DEF TypeOK
  <2> HIDE DEF T
  <2>2. Head(esp) = esp[1] /\ Head(esp) \in T /\ Len(esp) > 0 /\ Len(esp) \in Nat
    BY <2>1, HeadTailProperties, LenProperties, EmptySeq
  <2>3. /\ Len(esp') = Len(esp) - 1
        /\ \A j \in 1 .. Len(esp') : esp'[j] = esp[j + 1] /\ j + 1 \in 1 .. Len(esp)
    BY <1>1, <2>1, <2>2, HeadTailProperties
  <2> QED BY <2>2, <2>3 DEF T
<1>4. L \in Nat /\ k \in Nat
  <2>1. L \in Nat
    BY <1>2, <1>3, CommandAssumption, LenProperties
  <2> QED BY <2>1, AcksCount
<1>5. /\ wired.bytes \in Nat /\ wired.acks \in Nat /\ surplus \in Nat /\ sent \in Nat
      /\ \A j \in 1 .. Len(esp) : esp[j].id \in Nat
  <2>1. \A j \in 1 .. Len(esp) : esp[j].id \in Tags
    <3>1. \A j \in 1 .. Len(esp) : esp[j] \in [id : Tags, mode : {1, 2}]
      BY ElementOfSeq DEF TypeOK
    <3> QED BY <3>1
  <2>2. Tags \subseteq Nat
    BY CommandAssumption DEF Tags
  <2> QED BY <2>1, <2>2 DEF TypeOK
<1>6. /\ wired'.bytes = wired.bytes + L /\ wired'.acks = wired.acks + k
      /\ surplus' = surplus + Excess(r)
      /\ Excess(r) \in Nat /\ k <= 1 + Excess(r)
  BY <1>2, <1>4 DEF Answered, Excess
<1> DEFINE x == Excess(r)
<1>n. /\ x \in Nat /\ k \in Nat /\ L \in Nat /\ k <= 1 + x /\ surplus' = surplus + x
      /\ wired.acks \in Nat /\ surplus \in Nat /\ sent \in Nat
      /\ wired'.acks = wired.acks + k /\ wired'.bytes = wired.bytes + L /\ wired.bytes \in Nat
  BY <1>4, <1>5, <1>6
<1>7. /\ Head(esp).id >= 1 /\ wired.acks + 1 <= Head(esp).id + surplus
      /\ Head(esp).id \in Nat
  BY <1>3, <1>5 DEF LagInv, CommandLaw
<1>8. TextBytes' = TextBytes /\ Behindhand' = Behindhand \cup new
      /\ AllBytes' = AllBytes \cup new /\ Unused' \subseteq Unused \cup new
  <2>1. TextBytes' = TextBytes /\ (InHand' <=> InHand)
    BY <1>1, SameBytes
  <2>2. BytesOf(out) = {} /\ BytesOf(ring') = BytesOf(ring)
    BY <1>1 DEF BytesOf
  <2>3. BytesOf(out') = new
    <3>1. out' = [i \in 1 .. L |-> AnswerByte(r, i)]
      BY <1>2 DEF Answered
    <3>2. Len(out') = L /\ \A i \in 1 .. L : out'[i] = AnswerByte(r, i)
      BY <1>4, <3>1
    <3> HIDE DEF L
    <3> QED BY <3>2, Zenon DEF BytesOf
  <2>4. Behindhand' = Behindhand \cup new
    BY <1>1, <2>1, <2>2, <2>3 DEF Behindhand
  <2> HIDE DEF new
  <2> QED BY <1>1, <2>1, <2>4, Zenon DEF AllBytes, Unused
\* The new bytes.
<1>9. ASSUME NEW b \in new
      PROVE  /\ b \in Byte /\ wired.bytes < b.no /\ b.no <= wired'.bytes /\ b.ack <= wired'.acks
             /\ 1 <= b.src
             /\ wired.acks <= b.ack /\ (Ack(b) => wired.acks < b.ack)
             /\ b.ack <= b.src + surplus'
  <2>1. PICK i \in 1 .. L : b = AnswerByte(r, i)
    OBVIOUS
  <2>2. /\ b.sym = r[i] /\ b.src = Head(esp).id /\ b.no = wired.bytes + i
        /\ b.ack = wired.acks + Acks(r, i)
    BY <2>1 DEF AnswerByte
  <2>3. /\ Acks(r, i) \in Nat /\ Acks(r, 0) \in Nat /\ Acks(r, i) <= k
        /\ r[i] \in AckSymbols => Acks(r, 0) < Acks(r, i)
    <3>1. i \in Nat /\ 0 \in 0 .. i - 1 /\ i \in 0 .. L
      BY <1>4
    <3> QED BY <1>4, <3>1, AcksCount
  <2>4. b \in Byte
    <3>1. r \in Seq(Symbols)
      BY <1>2, <1>3, CommandAssumption
    <3>2. r[i] \in Symbols /\ i \in Nat
      BY <1>4, <3>1, ElementOfSeq
    <3> QED BY <1>3, <1>5, <2>1, <2>3, <3>2 DEF AnswerByte, Byte
  <2> HIDE DEF L, k, x, new
  <2>5. b.ack <= wired.acks + k /\ b.no <= wired.bytes + L /\ wired.bytes < b.no
    BY <1>4, <1>5, <2>2, <2>3
  <2>6. wired.acks + k <= Head(esp).id + (surplus + x)
    BY <1>n, <1>7
  <2>7. b.ack <= b.src + surplus'
    <3>1. wired.acks + Acks(r, i) <= wired.acks + k
      BY <1>n, <2>3
    <3>2. wired.acks + Acks(r, i) <= Head(esp).id + (surplus + x)
      BY <1>n, <1>7, <2>3, <2>6, <3>1
    <3> QED BY <1>n, <2>2, <3>2, Zenon
  <2>8. wired.acks <= b.ack /\ (Ack(b) => wired.acks < b.ack)
    BY <1>5, <2>2, <2>3 DEF Ack
  <2> QED BY <1>6, <1>7, <2>2, <2>4, <2>5, <2>7, <2>8
<1>10. ASSUME NEW a \in new, NEW b \in new, a.no < b.no, Ack(b) PROVE a.ack < b.ack
  <2>1. PICK i \in 1 .. L, j \in 1 .. L : a = AnswerByte(r, i) /\ b = AnswerByte(r, j)
    OBVIOUS
  <2>2. i < j /\ r[j] \in AckSymbols
    BY <1>4, <1>5, <1>10, <2>1 DEF AnswerByte, Ack
  <2>3. Acks(r, i) < Acks(r, j) /\ Acks(r, i) \in Nat /\ Acks(r, j) \in Nat
    <3>1. i \in 0 .. j - 1 /\ i \in Nat /\ j \in Nat /\ j \in 1 .. j
      BY <1>4, <2>2
    <3> QED BY <2>2, <3>1, AcksCount
  <2> QED BY <1>5, <2>1, <2>3 DEF AnswerByte
<1> HIDE DEF L, k, x, new
<1>11. ASSUME NEW b \in AllBytes
       PROVE  /\ b \in Byte /\ b.no <= wired.bytes /\ b.ack <= wired.acks /\ 1 <= b.src
              /\ Ack(b) => b.ack <= b.src + surplus
              /\ b.no \in Nat /\ b.ack \in Nat /\ b.src \in Nat
  <2>1. b \in Cell
    BY BytesAre
  <2> QED BY <2>1, BytesAre DEF LagInv, AckLaw
<1>12. Used' = Used /\ Used \in Int /\ Used <= wired.acks
  <2>1. sent \in Nat /\ abandoned \in Nat
    BY CommandAssumption DEF TypeOK, Tags
  <2> QED BY <1>1, <2>1 DEF LagInv, AckLaw, Used
<1>13. AckLaw'
  <2>1. Used' <= wired'.acks
    BY <1>4, <1>5, <1>6, <1>12
  <2>2. ASSUME NEW b \in AllBytes'
        PROVE  /\ b \in Byte /\ b.no <= wired'.bytes /\ b.ack <= wired'.acks /\ 1 <= b.src
               /\ Ack(b) => b.ack <= b.src + surplus'
    <3>1. CASE b \in AllBytes
      <4>1. /\ b \in Byte /\ b.no <= wired.bytes /\ b.ack <= wired.acks /\ 1 <= b.src
            /\ Ack(b) => b.ack <= b.src + surplus
            /\ b.no \in Nat /\ b.ack \in Nat /\ b.src \in Nat
        BY <1>11, <3>1
      <4>2. b.no <= wired.bytes + L /\ b.ack <= wired.acks + k
            /\ (Ack(b) => b.ack <= b.src + (surplus + x))
        BY <1>n, <4>1
      <4> QED BY <1>n, <4>1, <4>2, Zenon
    <3>2. CASE b \in new
      BY <1>9, <3>2
    <3> QED BY <1>8, <3>1, <3>2
  <2>3. ASSUME NEW a \in AllBytes', NEW b \in AllBytes', a.no < b.no, Ack(b)
        PROVE  a.ack < b.ack
    <3>1. CASE a \in AllBytes /\ b \in AllBytes
      BY <2>3, <3>1 DEF LagInv, AckLaw
    <3>2. CASE a \in AllBytes /\ b \in new
      <4>1. b.ack \in Nat /\ wired.acks < b.ack
        BY <1>9, <2>3, <3>2 DEF Byte
      <4> QED BY <1>5, <1>11, <3>2, <4>1
    <3>3. CASE a \in new /\ b \in AllBytes
      <4>1. a.no \in Nat /\ wired.bytes < a.no
        BY <1>9, <3>3 DEF Byte
      <4> QED BY <1>5, <1>11, <2>3, <3>3, <4>1
    <3>4. CASE a \in new /\ b \in new
      BY <1>10, <2>3, <3>4
    <3> QED BY <1>8, <3>1, <3>2, <3>3, <3>4
  <2>4. ASSUME NEW b \in Unused', Ack(b) PROVE Used' < b.ack
    <3>1. CASE b \in Unused
      BY <1>12, <2>4, <3>1 DEF LagInv, AckLaw
    <3>2. CASE b \in new
      <4>1. b.ack \in Nat /\ wired.acks < b.ack
        BY <1>9, <2>4, <3>2 DEF Byte
      <4> QED BY <1>5, <1>12, <4>1
    <3> QED BY <1>8, <3>1, <3>2
  <2> QED BY <2>1, <2>2, <2>3, <2>4 DEF AckLaw, Ack
<1>14. CommandLaw'
  <2>1. ASSUME NEW j \in 1 .. Len(esp')
        PROVE  1 <= esp'[j].id /\ wired'.acks + j <= esp'[j].id + surplus'
    <3>1. esp'[j] = esp[j + 1] /\ j + 1 \in 1 .. Len(esp) /\ j \in Nat
      BY <1>3
    <3>2. 1 <= esp[j + 1].id /\ wired.acks + (j + 1) <= esp[j + 1].id + surplus
      BY <3>1 DEF LagInv, CommandLaw
    <3>3. esp[j + 1].id \in Nat
      BY <1>5, <3>1
    <3>4. (wired.acks + k) + j <= esp[j + 1].id + (surplus + x)
      <4>1. j \in Int /\ esp[j + 1].id \in Int /\ surplus \in Int
        BY <1>n, <3>1, <3>3
      <4> QED BY <1>n, <3>2, <4>1, Room
    <3> QED BY <1>n, <3>1, <3>2, <3>4, Zenon
  <2>2. wired'.acks + Len(esp') + (IF txPc' \in {"mode", "send"} THEN 1 ELSE 0) <= sent' + surplus'
    <3> DEFINE m == IF txPc \in {"mode", "send"} THEN 1 ELSE 0
    <3>1. wired.acks + Len(esp) + m <= sent + surplus /\ m \in {0, 1}
      BY DEF LagInv, CommandLaw
    <3>2. (IF txPc' \in {"mode", "send"} THEN 1 ELSE 0) = m
      BY <1>1
    <3> HIDE DEF m
    <3>3. (wired.acks + k) + (Len(esp) - 1 + m) <= sent + (surplus + x)
      <4>1. Len(esp) \in Nat
        BY <1>3
      <4>2. wired.acks + ((Len(esp) - 1 + m) + 1) <= sent + surplus
        BY <1>n, <3>1, <4>1
      <4>3. Len(esp) - 1 + m \in Int /\ sent \in Int /\ surplus \in Int
        BY <1>n, <3>1, <4>1
      <4> QED BY <1>n, <4>2, <4>3, Room
    <3>5. wired.acks + k + (Len(esp) - 1) + m = (wired.acks + k) + (Len(esp) - 1 + m)
      <4>1. Len(esp) \in Nat /\ m \in Nat /\ wired.acks \in Nat /\ k \in Nat
        BY <1>n, <1>3, <3>1
      <4> QED BY <4>1
    <3>4. sent' = sent /\ Len(esp') = Len(esp) - 1
      BY <1>1, <1>3
    <3> QED BY <1>n, <3>2, <3>3, <3>4, <3>5, Zenon
  <2> QED BY <2>1, <2>2 DEF CommandLaw
<1>15. CallLaw'
  BY <1>1 DEF LagInv, CallLaw
<1>16. AnswerLag'
  <2>1. acked \in Nat /\ abandoned \in Nat
    BY CommandAssumption DEF TypeOK, Tags
  <2> QED BY <1>1, <1>5, <1>6, <2>1 DEF LagInv, AnswerLag
<1> QED BY <1>13, <1>14, <1>15, <1>16 DEF LagInv

\* The interrupt handler adds no byte.
LEMMA IsrLag ==
  ASSUME IInv, TextInv, LagInv, UsartIsr
  PROVE  LagInv'
<1> USE DEF IInv
<1>1. /\ UNCHANGED <<WiFi_RX_STA, WiFi_RX_BUF, rxPc, rxByte, rxReg, txPc, cmd, esp, sent, acked,
                     abandoned, wired, surplus>>
      /\ out # <<>> /\ out' = Tail(out)
      /\ ring' = Append(ring, Head(out)) \/ ring' = Append(Tail(ring), Head(out))
  BY DEF UsartIsr, shared, rxVars, txVars, espVars, history, calls, wire
<1>2. Head(out) \in BytesOf(out) /\ BytesOf(out') \subseteq BytesOf(out)
  <2>1. /\ out \in Seq(Byte) /\ Len(out) > 0 /\ Len(out) \in Nat /\ Head(out) = out[1]
        /\ \A i \in 1 .. Len(out') : out'[i] = out[i + 1] /\ i + 1 \in 1 .. Len(out)
    BY <1>1, HeadTailProperties, LenProperties, EmptySeq DEF TypeOK
  <2> QED BY <2>1 DEF BytesOf
<1>3. BytesOf(ring') \subseteq BytesOf(ring) \cup {Head(out)}
  <2>1. ring \in Seq(Byte) /\ Head(out) \in Byte
    BY <1>1, HeadTailProperties DEF TypeOK
  <2>2. ASSUME NEW s \in Seq(Byte) PROVE BytesOf(Append(s, Head(out))) \subseteq BytesOf(s) \cup {Head(out)}
    <3>1. /\ Len(Append(s, Head(out))) = Len(s) + 1 /\ Append(s, Head(out))[Len(s) + 1] = Head(out)
          /\ \A i \in 1 .. Len(s) : Append(s, Head(out))[i] = s[i]
          /\ Len(s) \in Nat
      BY <2>1, <2>2, AppendProperties, LenProperties
    <3>2. ASSUME NEW i \in 1 .. Len(s) + 1
          PROVE  Append(s, Head(out))[i] \in BytesOf(s) \cup {Head(out)}
      <4>1. i = Len(s) + 1 \/ i \in 1 .. Len(s)
        BY <3>1
      <4> QED BY <3>1, <4>1, Zenon DEF BytesOf
    <3> QED BY <3>1, <3>2, Zenon DEF BytesOf
  <2>3. CASE ring = <<>>
    <3>1. Tail(ring) = <<>> /\ BytesOf(Tail(ring)) \subseteq BytesOf(ring) /\ Tail(ring) \in Seq(Byte)
      BY <2>3, EmptySeq DEF BytesOf
    <3> QED BY <1>1, <2>1, <2>2, <3>1
  <2>4. CASE ring # <<>>
    <3>1. /\ Tail(ring) \in Seq(Byte) /\ Len(ring) \in Nat /\ Len(Tail(ring)) = Len(ring) - 1
          /\ \A i \in 1 .. Len(Tail(ring)) : Tail(ring)[i] = ring[i + 1] /\ i + 1 \in 1 .. Len(ring)
      BY <2>1, <2>4, HeadTailProperties, LenProperties
    <3>2. BytesOf(Tail(ring)) \subseteq BytesOf(ring)
      BY <3>1 DEF BytesOf
    <3> QED BY <1>1, <2>1, <2>2, <3>1, <3>2
  <2> QED BY <2>3, <2>4
<1>4. Behindhand' \subseteq Behindhand /\ TextBytes' = TextBytes
  <2>1. TextBytes' = TextBytes /\ (InHand' <=> InHand)
    BY <1>1, SameBytes
  <2> QED BY <1>1, <1>2, <1>3, <2>1 DEF Behindhand
<1>5. Unused' \subseteq Unused /\ Used' = Used /\ AllBytes' \subseteq AllBytes
  BY <1>1, <1>4 DEF Unused, Used, AllBytes
<1>6. AckLaw'
  BY <1>1, <1>5, Fewer DEF LagInv
<1> QED BY <1>1, <1>6 DEF LagInv, CommandLaw, CallLaw, AnswerLag

LEMMA InitLag == Init => LagInv
<1> SUFFICES ASSUME Init PROVE LagInv
  OBVIOUS
<1>1. Live = 0 /\ ~InHand /\ BytesOf(ring) = {} /\ BytesOf(out) = {}
  BY DEF Init, Live, InHand, BytesOf, Empty
<1>2. AllBytes = {} /\ Unused = {}
  BY <1>1, SizeAssumption DEF AllBytes, Unused, TextBytes, Behindhand
<1> QED BY <1>2 DEF Init, LagInv, AckLaw, CommandLaw, CallLaw, AnswerLag, Used

LEMMA StepLag == IInv /\ IInv' /\ TextInv /\ LagInv /\ [Next]_vars => LagInv'
<1> SUFFICES ASSUME IInv, IInv', TextInv, LagInv, [Next]_vars PROVE LagInv'
  OBVIOUS
<1>1. CASE UNCHANGED vars
  <2>1. UNCHANGED <<WiFi_RX_STA, WiFi_RX_BUF, rxPc, rxByte, rxReg, ring, out, txPc, cmd, esp,
                    sent, acked, abandoned, wired, surplus>>
    BY <1>1 DEF vars, shared, rxVars, txVars, espVars, history, calls, wire
  <2>2. AllBytes' = AllBytes /\ Unused' = Unused /\ Used' = Used
    BY <2>1 DEF AllBytes, Unused, Behindhand, TextBytes, Live, InHand, Used
  <2>3. AckLaw'
    BY <2>1, <2>2, Fewer DEF LagInv
  <2> QED BY <2>1, <2>3 DEF LagInv, CommandLaw, CallLaw, AnswerLag
<1> QED BY <1>1, ReceiverLag, SenderLag, EspLag, IsrLag DEF Next

\* An accepted answer is at most as many calls old as were abandoned and as
\* answers had acknowledgements beyond their first, whatever they look like.
THEOREM AnswersLag == Spec => []AnswerLag
BY InitIInv, InitText, InitLag, StepIInv, StepText, StepLag, PTL DEF Spec, LagInv
=============================================================================
