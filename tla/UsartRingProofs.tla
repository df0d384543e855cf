--------------------------- MODULE UsartRingProofs ---------------------------
(***************************************************************************)
(* Theorems about UsartRing, for every size of the ring buffer, of the     *)
(* peripheral's FIFOs and of the calls, and any number of bytes and calls. *)
(***************************************************************************)
EXTENDS UsartRing, TLAPS

-----------------------------------------------------------------------------
(* The parts of the inductive invariant.                                   *)

\* The requests in the daemon's queue: no more than one completion of each
\* kind, and none whose bit is set already; all else in it are overruns.
RxComplete == Request("rx", "COMPLETE")
RxOverrun  == Request("rx", "OVERRUN")
TxComplete == Request("tx", "COMPLETE")

Posted   == {pend[i] : i \in 1 .. Len(pend)}
Distinct == \A i, k \in 1 .. Len(pend) :
              pend[i] = pend[k] /\ pend[i] # RxOverrun => i = k
QueueOK ==
  /\ Posted \subseteq {RxComplete, RxOverrun, TxComplete}
  /\ Distinct
  /\ RxComplete \in Posted => "COMPLETE" \notin bits["rx"]
  /\ TxComplete \in Posted => bits["tx"] = {}
  /\ bits["tx"] \subseteq {"COMPLETE"}

\* A request's completion exists once, when nothing is missing, and is gone
\* when the call returns; a request takes all of the ring first.
Completed == \/ RxComplete \in Posted
             \/ "COMPLETE" \in bits["rx"]
             \/ "COMPLETE" \in rev
RequestOK ==
  /\ rxState = IF rxDataSize > 0 THEN "busy" ELSE "idle"
  /\ rxDataSize > 0 => head = tail /\ rpc \in {"wait", "blocked", "woken"}
  /\ Completed => rxDataSize = 0 /\ rpc \in {"wait", "blocked", "woken", "clear"}
  /\ "COMPLETE" \in rev => RxComplete \notin Posted /\ "COMPLETE" \notin bits["rx"]
  /\ rpc \in {"idle", "callback", "wait", "blocked"} => rev = {}
  /\ rpc = "blocked" => bits["rx"] = {}
  /\ rpc = "idle" => app = <<>>
  /\ rpc \in {"callback", "wait", "blocked", "woken"} => app # <<>> \/ rxDataSize > 0
  /\ rpc = "woken" => rev # {}
  /\ rpc = "clear" => "OVERRUN" \in rev

\* A transmission by the sender's place.  Once a Send is torn the interrupt
\* stays raised with nothing to send, and no Send returns.
Sent == TxComplete \in Posted \/ "COMPLETE" \in bits["tx"]
Sending   == txDataSize > 0 /\ txState = "busy" /\ txlvl /\ ~txidle
Draining  == txDataSize = 0 /\ txState = "idle" /\ ~txlvl /\ txidle
Drained   == txDataSize = 0 /\ txState = "idle" /\ ~txlvl /\ ~txidle /\ txFifo = 0
SendOK ==
  /\ Sent => txDataSize = 0 /\ txFifo = 0 /\ ~txidle
  /\ spc \in {"idle", "done"} => ~torn /\ Drained /\ ~Sent
  /\ spc \in {"sized", "marked"} => ~txlvl
  /\ spc \in {"sized", "marked"} /\ ~torn =>
       /\ txDataSize > 0 /\ ~txidle /\ ~Sent
       /\ txState = IF spc = "sized" THEN "idle" ELSE "busy"
  /\ torn => txDataSize = 0
  /\ spc \in {"wait", "blocked"} /\ torn => txlvl
  /\ spc \in {"wait", "blocked"} /\ ~torn => Sending \/ Draining \/ Drained
  /\ spc = "blocked" => bits["tx"] = {}

\* The bytes on their way to the task: its buffer, the ring from the oldest
\* on, the peripheral.  They are in the order of the wire.
Ring == Oldest(RingLength)
Flow == app \o Ring \o rxFifo
OrderOK ==
  /\ last <= arrived
  /\ \A i \in 1 .. Len(Flow) : last < Flow[i] /\ Flow[i] <= arrived
  /\ \A i, k \in 1 .. Len(Flow) : i < k => Flow[i] < Flow[k]

\* What became of byte b: it is on its way, or the peripheral lost it, or it
\* is left out where a report was or will be given: in front of all that is
\* on its way, or between the task's buffer and the rest.
Overran == RxOverrun \in Posted \/ "OVERRUN" \in bits["rx"]
ReportedBefore == \/ fresh
                  \/ "OVERRUN" \in rev
                  \/ rpc \in {"idle", "callback", "wait"} /\ Overran
ReportedAfter == rxDataSize = 0 /\ ("OVERRUN" \in rev \/ Overran)
InFront(b) == \A i \in 1 .. Len(Flow) : b < Flow[i]
Between(b) == \A i \in 1 .. Len(Flow) :
                IF i <= Len(app) THEN Flow[i] < b ELSE b < Flow[i]
Accounted(b) == \/ \E i \in 1 .. Len(Flow) : Flow[i] = b
                \/ b \in lost
                \/ ReportedBefore /\ InFront(b)
                \/ ReportedAfter /\ Between(b)
StreamOK == OrderOK /\ \A b \in last + 1 .. arrived : Accounted(b)

-----------------------------------------------------------------------------
(* The operators the model is built from.                                  *)

USE DEF Group, Bit, Request

\* An index that went past the end once comes back to the beginning.
LEMMA Wrap ==
  ASSUME NEW n \in Nat, n > 0, NEW x \in Nat, x < n + n
  PROVE  x % n = IF x < n THEN x ELSE x - n
<1>1. CASE x < n
  BY <1>1, SMT
<1>2. CASE x >= n
  BY <1>2, SMT
<1>. QED  BY <1>1, <1>2

\* Post appends its request or, when the queue is full, does nothing.
LEMMA PostIs ==
  ASSUME NEW R, NEW q \in Seq(R), Len(q) <= QueueLength, NEW r \in R
  PROVE  /\ Post(q, r) \in Seq(R) /\ Len(Post(q, r)) <= QueueLength
         /\ Len(Post(q, r)) \in {Len(q), Len(q) + 1}
         /\ Len(q) < QueueLength => Len(Post(q, r)) = Len(q) + 1
         /\ \A i \in 1 .. Len(q) : Post(q, r)[i] = q[i]
         /\ Len(Post(q, r)) = Len(q) + 1 => Post(q, r)[Len(q) + 1] = r
BY SizesAssumption DEF Post

\* What the handler, the daemon and the receiver do to the queue.
Requests == [group : Group, bit : Bit]

\* The daemon's queue keeps its type and its bound.
LEMMA QueueTyped ==
  ASSUME TypeOK
  PROVE  /\ pend \in Seq(Requests) /\ Len(pend) <= QueueLength
         /\ {RxComplete, RxOverrun, TxComplete} \subseteq Requests
         /\ \A r \in {RxComplete, RxOverrun, TxComplete} :
              Post(pend, r) \in Seq(Requests) /\ Len(Post(pend, r)) <= QueueLength
         /\ pend # <<>> =>
              /\ Tail(pend) \in Seq(Requests) /\ Len(Tail(pend)) <= QueueLength
              /\ Head(pend) \in Requests
<1>1. pend \in Seq(Requests) /\ Len(pend) <= QueueLength
  BY Zenon DEF TypeOK, Requests
<1>2. {RxComplete, RxOverrun, TxComplete} \subseteq Requests
  BY DEF RxComplete, RxOverrun, TxComplete, Requests
<1>3. pend # <<>> => /\ Tail(pend) \in Seq(Requests) /\ Len(Tail(pend)) <= QueueLength
                     /\ Head(pend) \in Requests
  BY <1>1, SizesAssumption
<1>. QED  BY <1>1, <1>2, <1>3, PostIs

LEMMA TypeInit == Init => TypeOK
<1>. SUFFICES ASSUME Init  PROVE TypeOK
  OBVIOUS
<1>. USE DEF Init
<1>1. cells \in [Index -> Nat] /\ head \in Index /\ tail \in Index /\ rxDataSize \in Nat
  BY SizesAssumption DEF Index
<1>2. app \in Seq(Nat) /\ rxFifo \in Seq(Nat) /\ Len(rxFifo) <= FifoDepth
  BY SizesAssumption
<1>3. txFifo \in 0 .. FifoDepth /\ txDataSize \in Nat /\ sends \in 0 .. MaxSends
      /\ arrived \in 0 .. MaxBytes /\ last \in Nat
  BY SizesAssumption, CallsAssumption
<1>4. pend \in Seq([group : Group, bit : Bit]) /\ Len(pend) <= QueueLength
  BY SizesAssumption
<1>5. bits \in [Group -> SUBSET Bit] /\ rev \in SUBSET Bit /\ lost \in SUBSET Nat
  BY Zenon
<1>6. /\ rxState \in {"idle", "busy"} /\ txState \in {"idle", "busy"}
      /\ irq \in {"off", "loop"}
      /\ rpc \in {"idle", "callback", "wait", "blocked", "woken", "clear"}
      /\ spc \in {"idle", "sized", "marked", "wait", "blocked", "done"}
  BY SMT
<1>7. /\ txlvl \in BOOLEAN /\ txidle \in BOOLEAN /\ rxerr \in BOOLEAN
      /\ fresh \in BOOLEAN /\ torn \in BOOLEAN /\ refused \in BOOLEAN
  BY Zenon
<1>. QED  BY <1>1, <1>2, <1>3, <1>4, <1>5, <1>6, <1>7, Zenon DEF TypeOK

\* Indices and bytes of the ring.
LEMMA RingIndex ==
  ASSUME TypeOK
  PROVE  /\ RingLength \in 0 .. RingSize - 1
         /\ \A i \in Index : Advance(i) \in Index
         /\ \A k \in 0 .. RingLength :
              /\ (tail + k) % RingSize \in Index
              /\ Oldest(k) \in Seq(Nat) /\ Len(Oldest(k)) = k
<1>1. RingLength \in 0 .. RingSize - 1 /\ \A i \in Index : Advance(i) \in Index
  BY SizesAssumption DEF RingLength, Advance, Index, TypeOK
<1>2. ASSUME NEW k \in 0 .. RingLength
      PROVE  /\ (tail + k) % RingSize \in Index
             /\ Oldest(k) \in Seq(Nat) /\ Len(Oldest(k)) = k
  <2>1. k \in Nat /\ k < RingSize /\ tail \in Nat /\ tail < RingSize /\ RingSize \in Nat
    BY <1>1, SizesAssumption DEF TypeOK, Index
  <2>2. \A x \in 0 .. RingSize + RingSize - 1 : x % RingSize \in Index
    BY <2>1, Wrap DEF Index
  <2>3. \A i \in 1 .. k : cells[(tail + i - 1) % RingSize] \in Nat
    <3>1. ASSUME NEW i \in 1 .. k  PROVE (tail + i - 1) % RingSize \in Index
      BY <2>1, <2>2
    <3>. QED  BY <3>1 DEF TypeOK
  <2>. QED  BY SMTT(30), <2>1, <2>2, <2>3 DEF Oldest
<1>. QED  BY <1>1, <1>2

LEMMA TypeStep == TypeOK /\ [Next]_vars => TypeOK'
<1>. SUFFICES ASSUME TypeOK, [Next]_vars  PROVE TypeOK'
  OBVIOUS
<1>. USE SizesAssumption, CallsAssumption
<1>1. CASE ReceiveCall
  <2>1. PICK n \in ReqSizes : LET k == Pick2(n, RingLength) IN
          /\ app' = Oldest(k)
          /\ tail' = (tail + k) % RingSize
          /\ IF k < n THEN rxDataSize' = n - k /\ rxState' = "busy"
                      ELSE UNCHANGED <<rxDataSize, rxState>>
          /\ rpc' = AfterCopy(n - k)
    BY <1>1 DEF ReceiveCall
  <2>2. /\ RingLength \in Nat /\ n \in Nat
        /\ Pick2(n, RingLength) \in 0 .. RingLength /\ Pick2(n, RingLength) <= n
    BY RingIndex DEF Pick2
  <2>3. app' \in Seq(Nat) /\ tail' \in Index
    BY <2>1, <2>2, RingIndex
  <2>4. rxDataSize' \in Nat /\ rxState' \in {"idle", "busy"}
    BY SMTT(30), <2>1, <2>2 DEF TypeOK
  <2>5. rpc' \in {"idle", "callback", "wait", "blocked", "woken", "clear"}
    BY <2>1 DEF AfterCopy
  <2>. QED
    BY SMTT(30), <1>1, <2>3, <2>4, <2>5
       DEF ReceiveCall, TypeOK, txVars, fifoVars, sendVars, seen, marks
<1>2. CASE ReceiveCallback
  <2>1. pend' = Post(pend, RxComplete)
    BY <1>2 DEF ReceiveCallback, RxComplete
  <2>2. pend' \in Seq([group : Group, bit : Bit]) /\ Len(pend') <= QueueLength
    BY <2>1, QueueTyped, Zenon DEF Requests
  <2>. QED
    BY <1>2, <2>2 DEF ReceiveCallback, TypeOK, ringVars, reqVars, txVars, fifoVars,
                      sendVars, seen, marks
<1>3. CASE ReceiveWait
  BY <1>3 DEF ReceiveWait, TypeOK, ringVars, reqVars, txVars, fifoVars, sendVars, seen, marks
<1>4. CASE ReceiveAbort
  BY <1>4 DEF ReceiveAbort, TypeOK, ringVars, txVars, fifoVars, sendVars, seen, marks
<1>5. CASE ReceiveClear
  BY <1>5 DEF ReceiveClear, TypeOK, ringVars, txVars, fifoVars, sendVars, marks
<1>6. CASE ReceiveDone
  <2>1. last' \in Nat /\ app' \in Seq(Nat)
    BY <1>6 DEF ReceiveDone, TypeOK
  <2>2. fresh' \in BOOLEAN
    BY <1>6, Zenon DEF ReceiveDone
  <2>3. rpc' = "idle" /\ rev' = {}
    BY <1>6 DEF ReceiveDone
  <2>. QED
    BY <1>6, <2>1, <2>2, <2>3
       DEF ReceiveDone, TypeOK, ringVars, txVars, fifoVars, sendVars, marks
<1>7. CASE Sender
  <2>. SendSizes \subseteq Nat
    OBVIOUS
  <2>5. txDataSize' \in Nat /\ sends' \in 0 .. MaxSends
    <3>1. CASE SendCall
      BY <3>1 DEF SendCall, TypeOK
    <3>2. CASE SendBusy \/ SendEnable \/ SendWait \/ SendReturn
      BY <3>2 DEF SendBusy, SendEnable, SendWait, SendReturn, TypeOK, txVars
    <3>. QED  BY <1>7, <3>1, <3>2 DEF Sender
  <2>1. /\ txState' \in {"idle", "busy"}
        /\ spc' \in {"idle", "sized", "marked", "wait", "blocked", "done"}
    BY <1>7 DEF Sender, SendCall, SendBusy, SendEnable, SendWait, SendReturn, TypeOK, txVars
  <2>2. txlvl' \in BOOLEAN
    BY <1>7, Zenon DEF Sender, SendCall, SendBusy, SendEnable, SendWait, SendReturn, TypeOK, txVars
  <2>3. bits' \in [Group -> SUBSET Bit]
    BY <1>7 DEF Sender, SendCall, SendBusy, SendEnable, SendWait, SendReturn, TypeOK
  <2>4. UNCHANGED <<ringVars, reqVars, txidle, fifoVars, irq, pend, recvVars, seen, marks>>
    BY <1>7, Zenon DEF Sender, SendCall, SendBusy, SendEnable, SendWait, SendReturn, txVars
  <2>. QED
    BY <2>1, <2>2, <2>3, <2>4, <2>5
       DEF TypeOK, ringVars, reqVars, fifoVars, recvVars, seen, marks
<1>8. CASE IrqEnter
  <2>1. /\ rxFifo' \in Seq(Nat) /\ Len(rxFifo') <= FifoDepth
        /\ rxerr' \in BOOLEAN /\ lost' \in SUBSET Nat
    <3>1. CASE rxerr
      <4>1. \A i \in 1 .. Len(rxFifo) : rxFifo[i] \in Nat
        BY DEF TypeOK
      <4>2. lost' = lost \cup {rxFifo[i] : i \in 1 .. Len(rxFifo)} /\ rxFifo' = <<>>
        BY <1>8, <3>1 DEF IrqEnter
      <4>3. rxerr' \in BOOLEAN
        BY <1>8, <3>1, Zenon DEF IrqEnter
      <4>4. rxFifo' \in Seq(Nat) /\ Len(rxFifo') <= FifoDepth
        BY <4>2
      <4>5. lost' \in SUBSET Nat
        BY <4>1, <4>2 DEF TypeOK
      <4>. QED  BY <4>3, <4>4, <4>5
    <3>2. CASE ~rxerr
      BY <1>8, <3>2, Zenon DEF IrqEnter, TypeOK
    <3>. QED  BY <3>1, <3>2
  <2>2. irq' = "loop"
    BY <1>8 DEF IrqEnter
  <2>. QED
    BY <1>8, <2>1, <2>2 DEF IrqEnter, TypeOK, ringVars, reqVars, txVars, recvVars,
                            sendVars, marks
<1>9. CASE IrqLoop
  <2>1. /\ rxFifo' \in Seq(Nat) /\ Len(rxFifo') <= FifoDepth
        /\ app' \in Seq(Nat) /\ rxDataSize' \in Nat /\ rxState' \in {"idle", "busy"}
    <3>1. rxFifo # <<>> => Head(rxFifo) \in Nat /\ Tail(rxFifo) \in Seq(Nat)
                           /\ Len(Tail(rxFifo)) <= FifoDepth
      BY DEF TypeOK
    <3>2. rxFifo' \in Seq(Nat) /\ Len(rxFifo') <= FifoDepth
      BY <1>9, <3>1 DEF IrqLoop, IrqReceive, CanReceive, TypeOK
    <3>3. /\ app' \in Seq(Nat)
          /\ rxDataSize' \in Nat /\ rxState' \in {"idle", "busy"}
      <4>1. CASE rxFifo # <<>> /\ ToRequest(Head(rxFifo))
        BY <3>1, <4>1 DEF ToRequest, TypeOK
      <4>2. CASE reqVars' = reqVars
        BY <4>2 DEF reqVars, TypeOK
      <4>. QED
        BY <1>9, <4>1, <4>2 DEF IrqLoop, IrqReceive, CanReceive, ToRing
    <3>. QED  BY <3>2, <3>3
  <2>2. cells' \in [Index -> Nat] /\ head' \in Index /\ tail' \in Index
    <3>1. rxFifo # <<>> => Head(rxFifo) \in Nat
      BY DEF TypeOK
    <3>2. Advance(head) \in Index /\ Advance(tail) \in Index
      BY RingIndex DEF TypeOK
    <3>. QED
      BY <1>9, <3>1, <3>2
         DEF IrqLoop, IrqReceive, ToRequest, ToRing, CanReceive, TypeOK, ringVars
  <2>3. pend' \in Seq([group : Group, bit : Bit]) /\ Len(pend') <= QueueLength
    <3>2. \/ pend' = Post(pend, RxComplete)
          \/ pend' = Post(pend, RxOverrun)
          \/ pend' = pend
      BY <1>9, Zenon DEF IrqLoop, IrqReceive, ToRequest, ToRing, RxComplete, RxOverrun
    <3>. QED  BY <3>2, QueueTyped, Zenon DEF Requests
  <2>4. txFifo' \in 0 .. FifoDepth /\ txDataSize' \in Nat /\ txState' \in {"idle", "busy"}
    BY <1>9 DEF IrqLoop, IrqSend, CanSend, TypeOK, txVars
  <2>5. txlvl' \in BOOLEAN /\ txidle' \in BOOLEAN /\ torn' \in BOOLEAN
    BY <1>9, Zenon DEF IrqLoop, IrqSend, TypeOK, txVars, LastByteTxIdle
  <2>. QED
    BY <1>9, <2>1, <2>2, <2>3, <2>4, <2>5
       DEF IrqLoop, TypeOK, recvVars, sendVars, seen
<1>10. CASE IrqExit
  <2>1. pend' \in Seq([group : Group, bit : Bit]) /\ Len(pend') <= QueueLength
    <3>2. pend' = Post(pend, TxComplete) \/ pend' = pend
      BY <1>10, Zenon DEF IrqExit, TxComplete
    <3>. QED  BY <3>2, QueueTyped, Zenon DEF Requests
  <2>2. txidle' \in BOOLEAN /\ refused' \in BOOLEAN
    BY <1>10, Zenon DEF IrqExit, TypeOK
  <2>3. irq' = "off"
    BY <1>10 DEF IrqExit
  <2>. QED
    BY <1>10, <2>1, <2>2, <2>3
       DEF IrqExit, TypeOK, ringVars, reqVars, fifoVars, recvVars, sendVars, seen
<1>11. CASE Daemon
  <2>1. pend # <<>> /\ pend' = Tail(pend)
    BY <1>11 DEF Daemon
  <2>2. /\ pend' \in Seq([group : Group, bit : Bit]) /\ Len(pend') <= QueueLength
        /\ Head(pend) \in [group : Group, bit : Bit]
    BY <2>1, QueueTyped, Zenon DEF Requests
  <2>3. Head(pend).group \in Group /\ Head(pend).bit \in Bit
    BY <2>2
  <2>4. bits[Head(pend).group] \cup {Head(pend).bit} \in SUBSET Bit
    BY <2>3 DEF TypeOK
  <2>5. bits' \in [Group -> SUBSET Bit] /\ rev' \in SUBSET Bit
    BY <1>11, <2>3, <2>4 DEF Daemon, TypeOK
  <2>6. /\ rpc' \in {"idle", "callback", "wait", "blocked", "woken", "clear"}
        /\ spc' \in {"idle", "sized", "marked", "wait", "blocked", "done"}
    BY <1>11 DEF Daemon, TypeOK
  <2>. QED
    BY <1>11, <2>2, <2>5, <2>6
       DEF Daemon, TypeOK, ringVars, reqVars, txVars, fifoVars, seen, marks
<1>12. CASE Arrive
  <2>0. arrived + 1 \in Nat /\ arrived' \in 0 .. MaxBytes
    BY <1>12 DEF Arrive, TypeOK
  <2>1. /\ rxFifo' \in Seq(Nat) /\ Len(rxFifo') <= FifoDepth
        /\ lost' \in SUBSET Nat
    <3>1. CASE Len(rxFifo) < FifoDepth
      <4>1. rxFifo' = Append(rxFifo, arrived + 1) /\ lost' = lost
        BY <1>12, <3>1 DEF Arrive
      <4>. QED  BY <2>0, <3>1, <4>1 DEF TypeOK
    <3>2. CASE ~(Len(rxFifo) < FifoDepth)
      BY <1>12, <2>0, <3>2 DEF Arrive, TypeOK
    <3>. QED  BY <3>1, <3>2
  <2>2. rxerr' \in BOOLEAN
    BY <1>12, Zenon DEF Arrive, TypeOK
  <2>. QED
    BY SMTT(30), <1>12, <2>0, <2>1, <2>2
       DEF Arrive, TypeOK, ringVars, reqVars, txVars, recvVars, sendVars, marks
<1>13. CASE Shift
  BY <1>13 DEF Shift, TypeOK, ringVars, reqVars, txVars, recvVars, sendVars, seen, marks
<1>14. CASE UNCHANGED vars
  BY <1>14 DEF vars, TypeOK, ringVars, reqVars, txVars, fifoVars, recvVars, sendVars, seen, marks
<1>. QED
  BY <1>1, <1>2, <1>3, <1>4, <1>5, <1>6, <1>7, <1>8, <1>9, <1>10, <1>11, <1>12, <1>13, <1>14
     DEF Next, Receiver, Handler

\* Every variable keeps its type.
THEOREM TypeCorrect == Spec => []TypeOK
BY TypeInit, TypeStep, PTL DEF Spec

-----------------------------------------------------------------------------
(* The calls and their completions.                                        *)

\* A post adds its request or nothing, and something unless the queue is full.
LEMMA PostStep ==
  ASSUME TypeOK, NEW r \in {RxComplete, RxOverrun, TxComplete}, pend' = Post(pend, r)
  PROVE  /\ Posted \subseteq Posted' /\ Posted' \subseteq Posted \cup {r}
         /\ Len(pend) < QueueLength => r \in Posted'
         /\ Distinct /\ (r = RxOverrun \/ r \notin Posted) => Distinct'
<1>. DEFINE q == Post(pend, r)
<1>1. /\ Len(pend) \in Nat /\ Len(q) \in {Len(pend), Len(pend) + 1}
      /\ Len(pend) < QueueLength => Len(q) = Len(pend) + 1
      /\ \A i \in 1 .. Len(pend) : q[i] = pend[i]
      /\ Len(q) = Len(pend) + 1 => q[Len(pend) + 1] = r
  <2>1. pend \in Seq(Requests) /\ Len(pend) <= QueueLength /\ r \in Requests
    BY QueueTyped
  <2>2. Len(pend) \in Nat
    BY <2>1
  <2>3. CASE Len(pend) < QueueLength
    BY <2>1, <2>3 DEF Post
  <2>4. CASE ~(Len(pend) < QueueLength)
    BY <2>2, <2>4 DEF Post
  <2>. QED  BY <2>2, <2>3, <2>4
<1>0. q = pend'
  OBVIOUS
<1>. HIDE DEF q
<1>2. \A i \in 1 .. Len(q) :
        \/ i \in 1 .. Len(pend) /\ q[i] = pend[i]
        \/ i = Len(pend) + 1 /\ q[i] = r
  BY <1>1
<1>3. \A i \in 1 .. Len(pend) : i \in 1 .. Len(q)
  BY <1>1
<1>. USE <1>0
<1>4. Posted \subseteq Posted' /\ Posted' \subseteq Posted \cup {r}
  BY <1>1, <1>2, <1>3 DEF Posted
<1>5. Len(pend) < QueueLength => r \in Posted'
  BY <1>1 DEF Posted
<1>6. ASSUME Distinct, r = RxOverrun \/ r \notin Posted  PROVE Distinct'
  BY <1>2, <1>6 DEF Distinct, Posted
<1>. QED  BY <1>4, <1>5, <1>6

\* The daemon takes the first request; a completion is not there twice.
LEMMA TakeStep ==
  ASSUME TypeOK, pend # <<>>, pend' = Tail(pend)
  PROVE  /\ Head(pend) \in Posted /\ Posted = Posted' \cup {Head(pend)}
         /\ Distinct => /\ Distinct'
                        /\ Head(pend) = RxOverrun \/ Head(pend) \notin Posted'
<1>1. /\ Len(pend) \in Nat \ {0} /\ Len(pend') = Len(pend) - 1
      /\ \A i \in 1 .. Len(pend') : i + 1 \in 1 .. Len(pend) /\ pend'[i] = pend[i + 1]
      /\ Head(pend) = pend[1]
  BY QueueTyped
<1>2. \A i \in 1 .. Len(pend) : i = 1 \/ (i - 1 \in 1 .. Len(pend') /\ pend'[i - 1] = pend[i])
  BY <1>1
<1>3. Head(pend) \in Posted /\ Posted = Posted' \cup {Head(pend)}
  <2>1. Head(pend) \in Posted
    <3>1. 1 \in 1 .. Len(pend)
      BY <1>1
    <3>. QED  BY <1>1, <3>1, Zenon DEF Posted
  <2>2. ASSUME NEW x \in Posted  PROVE x \in Posted' \cup {Head(pend)}
    <3>1. PICK i \in 1 .. Len(pend) : x = pend[i]
      BY Zenon DEF Posted
    <3>. QED  BY <1>1, <1>2, <3>1, Zenon DEF Posted
  <2>3. ASSUME NEW x \in Posted'  PROVE x \in Posted
    <3>1. PICK i \in 1 .. Len(pend') : x = pend'[i]
      BY Zenon DEF Posted
    <3>. QED  BY <1>1, <3>1, Zenon DEF Posted
  <2>. QED  BY <2>1, <2>2, <2>3, Zenon
<1>4. ASSUME Distinct
      PROVE  Distinct' /\ (Head(pend) = RxOverrun \/ Head(pend) \notin Posted')
  BY <1>1, <1>4 DEF Distinct, Posted
<1>. QED  BY <1>3, <1>4

\* An overrun is not lost: when the queue has no room one is there already.
LEMMA FullQueue ==
  ASSUME TypeOK, QueueOK, Len(pend) = QueueLength
  PROVE  RxOverrun \in Posted
<1>1. {1, 2, 3} \subseteq 1 .. Len(pend)
  BY SizesAssumption
<1>2. \A i \in {1, 2, 3} : pend[i] \in {RxComplete, RxOverrun, TxComplete}
  BY <1>1 DEF QueueOK, Posted
<1>3. \A i, k \in {1, 2, 3} : pend[i] = pend[k] /\ pend[i] # RxOverrun => i = k
  BY <1>1, Zenon DEF QueueOK, Distinct
<1>4. \E i \in {1, 2, 3} : pend[i] = RxOverrun
  BY <1>2, <1>3
<1>. QED  BY <1>1, <1>4 DEF Posted

\* In an empty queue nothing waits.
LEMMA EmptyQueue ==
  ASSUME pend = <<>>  PROVE Posted = {}
BY DEF Posted

\* The requests differ.
LEMMA Kinds ==
  /\ RxComplete # RxOverrun /\ RxComplete # TxComplete /\ RxOverrun # TxComplete
  /\ RxComplete.group = "rx" /\ RxComplete.bit = "COMPLETE"
  /\ RxOverrun.group = "rx" /\ RxOverrun.bit = "OVERRUN"
  /\ TxComplete.group = "tx" /\ TxComplete.bit = "COMPLETE"
BY DEF RxComplete, RxOverrun, TxComplete

CallsOK == QueueOK /\ RequestOK /\ SendOK

LEMMA CallsInit == Init => CallsOK
<1>. SUFFICES ASSUME Init  PROVE CallsOK
  OBVIOUS
<1>1. Posted = {} /\ Distinct
  BY DEF Init, Posted, Distinct
<1>2. bits["rx"] = {} /\ bits["tx"] = {}
  BY DEF Init
<1>3. QueueOK
  BY <1>1, <1>2 DEF QueueOK
<1>4. RequestOK
  BY <1>1, <1>2 DEF Init, RequestOK, Completed
<1>5. SendOK
  BY <1>1, <1>2 DEF Init, SendOK, Sent, Drained
<1>. QED  BY <1>3, <1>4, <1>5 DEF CallsOK

\* Steps that leave a part's variables alone.
LEMMA Untouched ==
  /\ UNCHANGED <<pend, bits>> => (QueueOK <=> QueueOK')
  /\ UNCHANGED <<pend, bits>> => Posted' = Posted
  /\ UNCHANGED <<reqVars, ringVars, pend, bits, recvVars>> /\ RequestOK => RequestOK'
  /\ UNCHANGED <<txVars, txFifo, pend, bits, spc, torn>> /\ SendOK => SendOK'
<1>1. UNCHANGED <<pend, bits>> => (QueueOK <=> QueueOK') /\ Posted' = Posted
  BY Zenon DEF QueueOK, Posted, Distinct
<1>2. UNCHANGED <<reqVars, ringVars, pend, bits, recvVars>> /\ RequestOK => RequestOK'
  BY <1>1 DEF RequestOK, Completed, reqVars, ringVars, recvVars
<1>3. UNCHANGED <<txVars, txFifo, pend, bits, spc, torn>> /\ SendOK => SendOK'
  BY <1>1 DEF SendOK, Sent, Sending, Draining, Drained, txVars
<1>. QED  BY <1>1, <1>2, <1>3

\* The receiver runs only when the daemon has nothing left to do.
LEMMA ReceiverCalls ==
  ASSUME TypeOK, CallsOK, Receiver  PROVE CallsOK'
<1>. USE DEF CallsOK
<1>1. pend = <<>> /\ Posted = {} /\ UNCHANGED <<txVars, txFifo, spc, torn>>
  BY EmptyQueue DEF Receiver, ReceiveCall, ReceiveCallback, ReceiveWait, ReceiveAbort,
     ReceiveClear, ReceiveDone, TaskRuns, fifoVars, sendVars, marks
<1>2. CASE ReceiveCall
  <2>1. UNCHANGED <<pend, bits>> /\ QueueOK' /\ SendOK' /\ Posted' = Posted
    BY <1>1, <1>2, Untouched DEF ReceiveCall
  <2>2. PICK n \in ReqSizes : LET k == Pick2(n, RingLength) IN
          /\ app' = Oldest(k)
          /\ tail' = (tail + k) % RingSize
          /\ IF k < n THEN rxDataSize' = n - k /\ rxState' = "busy"
                      ELSE UNCHANGED <<rxDataSize, rxState>>
          /\ rpc' = AfterCopy(n - k)
    BY <1>2 DEF ReceiveCall
  <2>3. n \in Nat \ {0} /\ RingLength \in 0 .. RingSize - 1
    BY CallsAssumption, RingIndex
  <2>4. rpc = "idle" /\ rev = {} /\ ~Completed /\ rxDataSize = 0 /\ UNCHANGED <<head, rev>>
    BY <1>2, SizesAssumption DEF ReceiveCall, RequestOK, TypeOK
  <2>5. CASE n <= RingLength
    <3>1. Pick2(n, RingLength) = n
      BY <2>3, <2>5 DEF Pick2
    <3>2. /\ app' = Oldest(n) /\ rpc' = "callback"
          /\ UNCHANGED <<rxDataSize, rxState>>
      BY <2>2, <2>3, <3>1 DEF AfterCopy
    <3>3. app' # <<>>
      <4>1. Len(Oldest(n)) = n
        BY <2>3, <2>5, RingIndex
      <4>. QED  BY <2>3, <3>2, <4>1
    <3>. QED  BY <2>1, <2>4, <3>2, <3>3 DEF RequestOK, Completed
  <2>6. CASE ~(n <= RingLength)
    <3>1. Pick2(n, RingLength) = RingLength
      BY <2>3, <2>6 DEF Pick2
    <3>2. /\ tail' = (tail + RingLength) % RingSize /\ rpc' = "wait"
          /\ rxDataSize' > 0 /\ rxDataSize' \in Nat /\ rxState' = "busy"
      BY <2>2, <2>3, <2>6, <3>1 DEF AfterCopy
    <3>3. tail' = head
      <4>1. /\ head \in Nat /\ tail \in Nat /\ head < RingSize /\ tail < RingSize
            /\ RingSize \in Nat /\ RingSize > 0
        BY SizesAssumption DEF TypeOK, Index
      <4>2. /\ RingLength \in Nat
            /\ tail + RingLength = IF tail > head THEN head + RingSize ELSE head
        BY <4>1 DEF RingLength
      <4>. QED  BY <3>2, <4>1, <4>2, Wrap
    <3>. QED  BY <2>1, <2>4, <3>2, <3>3 DEF RequestOK, Completed
  <2>. QED  BY <2>5, <2>6
<1>3. CASE ReceiveCallback
  <2>1. pend' = Post(pend, RxComplete) /\ rpc = "callback" /\ rpc' = "wait"
        /\ UNCHANGED <<bits, rev, rxDataSize, rxState, app, head, tail>>
    BY <1>3 DEF ReceiveCallback, RxComplete, reqVars, ringVars
  <2>2. ~Completed /\ rxDataSize = 0 /\ rev = {} /\ app # <<>>
    BY <2>1 DEF RequestOK, TypeOK
  <2>3. Posted' \subseteq {RxComplete} /\ Distinct'
    BY <1>1, <2>1, PostStep DEF QueueOK
  <2>4. QueueOK'
    BY <2>1, <2>2, <2>3, Kinds DEF QueueOK, Completed
  <2>5. RequestOK'
    BY <2>1, <2>2, <2>3 DEF RequestOK, Completed
  <2>6. SendOK'
    BY <1>1, <2>1, <2>3, Kinds DEF SendOK, Sent, Sending, Draining, Drained, txVars
  <2>. QED  BY <2>4, <2>5, <2>6
<1>4. CASE ReceiveWait
  <2>1. /\ rpc = "wait" /\ rpc' = IF bits["rx"] = {} THEN "blocked" ELSE "woken"
        /\ rev' = bits["rx"] /\ bits'["rx"] = {} /\ bits'["tx"] = bits["tx"]
        /\ UNCHANGED <<pend, rxDataSize, rxState, app, head, tail>>
    BY <1>4 DEF ReceiveWait, reqVars, ringVars, TypeOK
  <2>2. Posted' = {} /\ Distinct'
    BY <1>1, <2>1, EmptyQueue DEF Posted, Distinct
  <2>3. QueueOK'
    BY <2>1, <2>2 DEF QueueOK
  <2>4. RequestOK'
    BY <1>1, <2>1, <2>2 DEF RequestOK, Completed
  <2>5. SendOK'
    BY <1>1, <2>1, <2>2 DEF SendOK, Sent, Sending, Draining, Drained, txVars
  <2>. QED  BY <2>3, <2>4, <2>5
<1>5. CASE ReceiveAbort
  <2>1. UNCHANGED <<pend, bits>> /\ QueueOK' /\ SendOK' /\ Posted' = Posted
    BY <1>1, <1>5, Untouched DEF ReceiveAbort
  <2>2. RequestOK'
    BY <1>5, <2>1 DEF ReceiveAbort, RequestOK, Completed, Overrun, ringVars, TypeOK
  <2>. QED  BY <2>1, <2>2
<1>6. CASE ReceiveClear
  <2>1. /\ rpc = "clear" /\ rpc' = "idle" /\ rev' = {} /\ app' = <<>>
        /\ bits'["rx"] = bits["rx"] \ {"COMPLETE"} /\ bits'["tx"] = bits["tx"]
        /\ UNCHANGED <<pend, rxDataSize, rxState, head, tail>>
    BY <1>6 DEF ReceiveClear, ringVars, TypeOK
  <2>2. Posted' = {} /\ Distinct'
    BY <1>1, <2>1, EmptyQueue DEF Posted, Distinct
  <2>3. QueueOK'
    BY <2>1, <2>2 DEF QueueOK
  <2>4. RequestOK'
    BY <1>1, <2>1, <2>2 DEF RequestOK, Completed, TypeOK
  <2>5. SendOK'
    BY <1>1, <2>1, <2>2 DEF SendOK, Sent, Sending, Draining, Drained, txVars
  <2>. QED  BY <2>3, <2>4, <2>5
<1>7. CASE ReceiveDone
  <2>1. UNCHANGED <<pend, bits>> /\ QueueOK' /\ SendOK' /\ Posted' = Posted
    BY <1>1, <1>7, Untouched DEF ReceiveDone
  <2>2. /\ rpc = "woken" /\ rpc' = "idle" /\ rev' = {} /\ app' = <<>>
        /\ UNCHANGED <<rxDataSize, rxState, head, tail>>
    BY <1>7 DEF ReceiveDone, ringVars
  <2>3. "COMPLETE" \in rev
    BY <1>7 DEF ReceiveDone, Overrun, RequestOK, TypeOK, Bit
  <2>4. RequestOK'
    BY <2>1, <2>2, <2>3 DEF RequestOK, Completed
  <2>. QED  BY <2>1, <2>4
<1>. QED  BY <1>2, <1>3, <1>4, <1>5, <1>6, <1>7 DEF Receiver

\* So does the sender; its stores are steps of their own, and the handler may
\* have run between them.
LEMMA SenderCalls ==
  ASSUME TypeOK, CallsOK, Sender  PROVE CallsOK'
<1>. USE DEF CallsOK
<1>1. /\ pend = <<>> /\ Posted = {} /\ UNCHANGED <<pend, txFifo, txidle, torn>>
      /\ UNCHANGED <<rxDataSize, rxState, app, head, tail, rpc, rev>>
      /\ ~(txlvl /\ txFifo = 0)
  BY EmptyQueue DEF Sender, SendCall, SendBusy, SendEnable, SendWait, SendReturn, TaskRuns,
     DaemonRuns, IrqRaised, txVars, fifoVars, recvVars, reqVars, ringVars, marks
<1>2. Posted' = {} /\ Distinct'
  BY <1>1, EmptyQueue DEF Posted, Distinct
<1>3. CASE SendCall \/ SendBusy \/ SendEnable \/ SendReturn
  <2>1. UNCHANGED bits
    BY <1>3, Zenon DEF SendCall, SendBusy, SendEnable, SendReturn
  <2>2. QueueOK' /\ RequestOK'
    <3>1. UNCHANGED <<reqVars, ringVars, pend, bits, recvVars>>
      BY <1>3, Zenon DEF SendCall, SendBusy, SendEnable, SendReturn
    <3>. QED  BY <3>1, Untouched
  <2>3. CASE SendCall
    <3>1. spc = "idle" /\ spc' = "sized" /\ txDataSize' \in SendSizes /\ UNCHANGED <<txState, txlvl>>
      BY <2>3 DEF SendCall
    <3>2. txDataSize' \in Nat /\ txDataSize' > 0
      BY <3>1, CallsAssumption
    <3>. QED  BY <1>1, <1>2, <2>1, <2>2, <3>1, <3>2 DEF SendOK, Sent, Drained
  <2>4. CASE SendBusy
    BY <1>1, <1>2, <2>1, <2>2, <2>4 DEF SendBusy, SendOK, Sent
  <2>5. CASE SendEnable
    BY <1>1, <1>2, <2>1, <2>2, <2>5 DEF SendEnable, SendOK, Sent, Sending
  <2>6. CASE SendReturn
    BY <1>1, <1>2, <2>1, <2>2, <2>6 DEF SendReturn, SendOK, Sent, Drained, txVars
  <2>. QED  BY <1>3, <2>3, <2>4, <2>5, <2>6
<1>4. CASE SendWait
  <2>1. /\ spc = "wait" /\ spc' = IF bits["tx"] = {} THEN "blocked" ELSE "done"
        /\ bits'["tx"] = {} /\ bits'["rx"] = bits["rx"]
        /\ UNCHANGED <<txDataSize, txState, txlvl>>
    BY <1>4 DEF SendWait, TypeOK, txVars
  <2>2. QueueOK'
    BY <1>2, <2>1 DEF QueueOK
  <2>3. RequestOK'
    BY <1>1, <1>2, <2>1 DEF RequestOK, Completed
  <2>4. bits["tx"] # {} => Sent /\ ~torn
    BY <1>1, <2>1 DEF QueueOK, SendOK, Sent
  <2>5. SendOK'
    BY <1>1, <1>2, <2>1, <2>4 DEF SendOK, Sent, Sending, Draining, Drained
  <2>. QED  BY <2>2, <2>3, <2>5
<1>. QED  BY <1>3, <1>4 DEF Sender

\* The handler posts a completion only when there is none.
LEMMA HandlerCalls ==
  ASSUME TypeOK, CallsOK, Handler  PROVE CallsOK'
<1>. USE DEF CallsOK
<1>1. CASE IrqEnter
  BY <1>1, Untouched DEF IrqEnter, sendVars, marks
<1>2. CASE IrqLoop
  <2>1. UNCHANGED <<bits, rpc, rev, spc>>
    BY <1>2 DEF IrqLoop, recvVars, sendVars
  <2>2. QueueOK' /\ RequestOK' /\ (TxComplete \in Posted' <=> TxComplete \in Posted)
    <3>1. CASE rxFifo # <<>> /\ ToRequest(Head(rxFifo))
      <4>1. /\ rxDataSize > 0 /\ app' = Append(app, Head(rxFifo))
            /\ rxDataSize' = rxDataSize - 1 /\ UNCHANGED <<head, tail>>
            /\ IF rxDataSize = 1 THEN rxState' = "idle" /\ pend' = Post(pend, RxComplete)
                                 ELSE UNCHANGED <<rxState, pend>>
        BY <3>1 DEF ToRequest, RxComplete, ringVars
      <4>2. app' # <<>> /\ rxDataSize \in Nat
        BY <4>1 DEF TypeOK
      <4>3. ~Completed
        BY <4>1, <4>2 DEF RequestOK
      <4>4. /\ Distinct' /\ Posted \subseteq Posted' /\ Posted' \subseteq Posted \cup {RxComplete}
            /\ rxDataSize # 1 => Posted' = Posted
        <5>1. CASE rxDataSize = 1
          BY <4>1, <4>3, <5>1, PostStep DEF QueueOK, Completed
        <5>2. CASE rxDataSize # 1
          BY <4>1, <5>2 DEF Posted, Distinct, QueueOK
        <5>. QED  BY <5>1, <5>2
      <4>5. QueueOK'
        BY <2>1, <4>3, <4>4, Kinds DEF QueueOK, Completed
      <4>6. RequestOK'
        BY <2>1, <4>1, <4>2, <4>3, <4>4 DEF RequestOK, Completed
      <4>. QED  BY <4>4, <4>5, <4>6, Kinds
    <3>2. CASE rxFifo # <<>> /\ ToRing(Head(rxFifo))
      <4>1. /\ rxDataSize = 0 /\ UNCHANGED <<rxDataSize, rxState, app>>
            /\ pend' = Post(pend, RxOverrun) \/ pend' = pend
        BY <3>2, Zenon DEF ToRing, RxOverrun, reqVars
      <4>2. Distinct' /\ Posted \subseteq Posted' /\ Posted' \subseteq Posted \cup {RxOverrun}
        BY <4>1, PostStep DEF Posted, Distinct, QueueOK
      <4>3. QueueOK'
        BY <2>1, <4>2, Kinds DEF QueueOK
      <4>4. RequestOK'
        BY <2>1, <4>1, <4>2, Kinds DEF RequestOK, Completed
      <4>. QED  BY <4>2, <4>3, <4>4, Kinds
    <3>3. CASE UNCHANGED <<ringVars, reqVars, pend>>
      BY <2>1, <3>3, Untouched DEF recvVars
    <3>. QED  BY <1>2, <3>1, <3>2, <3>3 DEF IrqLoop, IrqReceive, CanReceive
  <2>3. SendOK'
    <3>1. Sent' = Sent
      BY <2>1, <2>2 DEF Sent
    <3>2. CASE CanSend
      <4>1. /\ txDataSize > 0 /\ txDataSize \in Nat /\ txDataSize' = txDataSize - 1
            /\ IF txDataSize = 1
                 THEN /\ ~txlvl' /\ txState' = "idle" /\ txidle'
                      /\ torn' = (torn \/ spc \in {"sized", "marked"})
                 ELSE UNCHANGED <<txlvl, txState, txidle, torn>>
        BY <1>2, <3>2 DEF IrqLoop, IrqSend, CanSend, LastByteTxIdle, TypeOK
      <4>2. ~Sent /\ ~torn /\ spc \notin {"idle", "done"}
        BY <4>1 DEF SendOK, Drained
      <4>3. CASE txDataSize = 1
        <5>1. /\ txDataSize' = 0 /\ ~txlvl' /\ txState' = "idle" /\ txidle'
              /\ torn' = (torn \/ spc \in {"sized", "marked"})
          BY <4>1, <4>3
        <5>2. torn' <=> spc \in {"sized", "marked"}
          BY <4>2, <5>1, Zenon
        <5>. QED  BY <2>1, <3>1, <4>2, <5>1, <5>2 DEF SendOK, Draining
      <4>4. CASE txDataSize # 1
        <5>1. txDataSize' > 0 /\ UNCHANGED <<txlvl, txState, txidle, torn>>
          BY <4>1, <4>4
        <5>. QED  BY <2>1, <3>1, <4>1, <4>2, <5>1 DEF SendOK, Sending, Draining, Drained
      <4>. QED  BY <4>3, <4>4
    <3>3. CASE UNCHANGED <<txFifo, txVars, torn>>
      BY <2>1, <3>1, <3>3 DEF SendOK, Sending, Draining, Drained, txVars
    <3>. QED  BY <1>2, <3>2, <3>3 DEF IrqLoop, IrqSend
  <2>. QED  BY <2>2, <2>3
<1>3. CASE IrqExit
  <2>1. UNCHANGED <<bits, rpc, rev, spc, torn, rxDataSize, rxState, app, head, tail,
                    txDataSize, txState, txlvl, txFifo>>
    BY <1>3 DEF IrqExit, recvVars, sendVars, reqVars, ringVars, fifoVars
  <2>2. CASE TxFinished
    <3>1. ~txidle' /\ pend' = Post(pend, TxComplete)
      BY <1>3, <2>2 DEF IrqExit, TxComplete
    <3>2. ~Sent /\ bits["tx"] = {}
      BY <2>2 DEF TxFinished, SendOK, QueueOK, Sent
    <3>3. Distinct' /\ Posted \subseteq Posted' /\ Posted' \subseteq Posted \cup {TxComplete}
      BY <3>1, <3>2, PostStep DEF QueueOK, Sent
    <3>4. QueueOK'
      BY <2>1, <3>2, <3>3, Kinds DEF QueueOK
    <3>5. RequestOK'
      BY <2>1, <3>3, Kinds DEF RequestOK, Completed
    <3>6. txidle /\ txFifo = 0 /\ txState = "idle" /\ txDataSize \in Nat
      BY <2>2 DEF TxFinished, TypeOK
    <3>7. SendOK'
      BY <1>3, <2>1, <3>1, <3>6, SizesAssumption
         DEF IrqExit, CanSend, SendOK, Sending, Draining, Drained, TypeOK
    <3>. QED  BY <3>4, <3>5, <3>7
  <2>3. CASE ~TxFinished
    <3>1. UNCHANGED <<pend, txidle>>
      BY <1>3, <2>3 DEF IrqExit
    <3>2. UNCHANGED <<reqVars, ringVars, recvVars, txVars>>
      BY <1>3, <3>1 DEF IrqExit, txVars
    <3>. QED  BY <2>1, <3>1, <3>2, Untouched
  <2>. QED  BY <2>2, <2>3
<1>. QED  BY <1>1, <1>2, <1>3 DEF Handler

\* The daemon hands a bit to its task, at once or at its next wait.
LEMMA DaemonCalls ==
  ASSUME TypeOK, CallsOK, Daemon  PROVE CallsOK'
<1>. USE DEF CallsOK
<1>1. /\ pend # <<>> /\ pend' = Tail(pend) /\ ~(txFifo = 0 /\ (txlvl \/ txidle))
      /\ UNCHANGED <<rxDataSize, rxState, app, head, tail, txDataSize, txState, txlvl, txidle,
                     txFifo, torn>>
  BY DEF Daemon, DaemonRuns, IrqRaised, ringVars, reqVars, txVars, fifoVars, marks
<1>2. /\ Head(pend) \in Posted /\ Posted = Posted' \cup {Head(pend)} /\ Distinct'
      /\ Head(pend) = RxOverrun \/ Head(pend) \notin Posted'
      /\ Head(pend) \in {RxComplete, RxOverrun, TxComplete}
  BY <1>1, TakeStep DEF QueueOK
<1>3. CASE Head(pend) \in {RxComplete, RxOverrun}
  <2>1. /\ Head(pend).group = "rx" /\ Head(pend).bit \in Bit
        /\ Head(pend).bit = "COMPLETE" <=> Head(pend) = RxComplete
    BY <1>3, Kinds
  <2>2. /\ bits'["tx"] = bits["tx"] /\ spc' = spc
        /\ IF rpc = "blocked"
             THEN /\ bits'["rx"] = {} /\ rpc' = "woken"
                  /\ rev' = bits["rx"] \cup {Head(pend).bit}
             ELSE /\ bits'["rx"] = bits["rx"] \cup {Head(pend).bit}
                  /\ UNCHANGED <<rpc, rev>>
    BY <2>1 DEF Daemon, TypeOK
  <2>3. TxComplete \in Posted' <=> TxComplete \in Posted
    BY <1>2, <1>3, Kinds
  <2>4. SendOK'
    BY <1>1, <2>2, <2>3 DEF SendOK, Sent, Sending, Draining, Drained
  <2>5. CASE Head(pend) = RxComplete
    <3>1. /\ Head(pend).bit = "COMPLETE" /\ RxComplete \in Posted /\ RxComplete \notin Posted'
          /\ Completed
      BY <1>2, <2>5, Kinds DEF Completed
    <3>2. QueueOK'
      BY <1>2, <2>2, <2>3, <3>1 DEF QueueOK
    <3>3. RequestOK'
      BY <1>1, <2>2, <3>1 DEF RequestOK, Completed
    <3>. QED  BY <2>4, <3>2, <3>3
  <2>6. CASE Head(pend) = RxOverrun
    <3>1. Head(pend).bit = "OVERRUN" /\ (RxComplete \in Posted' <=> RxComplete \in Posted)
      BY <1>2, <2>6, Kinds
    <3>2. QueueOK'
      BY <1>2, <2>2, <2>3, <3>1 DEF QueueOK
    <3>3. RequestOK'
      BY <1>1, <2>2, <3>1 DEF RequestOK, Completed
    <3>. QED  BY <2>4, <3>2, <3>3
  <2>. QED  BY <1>3, <2>5, <2>6
<1>4. CASE Head(pend) = TxComplete
  <2>1. Head(pend).group = "tx" /\ Head(pend).bit = "COMPLETE"
    BY <1>4, Kinds
  <2>2. /\ bits'["rx"] = bits["rx"] /\ UNCHANGED <<rpc, rev>>
        /\ spc' = IF spc = "blocked" THEN "done" ELSE spc
        /\ bits'["tx"] = IF spc = "blocked" THEN {} ELSE bits["tx"] \cup {"COMPLETE"}
    BY <2>1 DEF Daemon, TypeOK
  <2>3. RxComplete \in Posted' <=> RxComplete \in Posted
    BY <1>2, <1>4, Kinds
  <2>4. TxComplete \in Posted /\ TxComplete \notin Posted' /\ Sent
    BY <1>2, <1>4, Kinds DEF Sent
  <2>5. QueueOK'
    BY <1>2, <2>2, <2>3, <2>4 DEF QueueOK
  <2>6. RequestOK'
    BY <1>1, <2>2, <2>3 DEF RequestOK, Completed
  <2>7. txDataSize = 0 /\ txFifo = 0 /\ ~txlvl /\ ~txidle
    BY <1>1, <2>4 DEF SendOK
  <2>8. SendOK'
    BY <1>1, <2>2, <2>4, <2>7 DEF SendOK, Sent, Sending, Draining, Drained, QueueOK
  <2>. QED  BY <2>5, <2>6, <2>8
<1>. QED  BY <1>2, <1>3, <1>4

LEMMA CallsStep == TypeOK /\ CallsOK /\ [Next]_vars => CallsOK'
<1>. SUFFICES ASSUME TypeOK, CallsOK, [Next]_vars  PROVE CallsOK'
  OBVIOUS
<1>1. CASE Arrive
  BY <1>1, Untouched DEF Arrive, CallsOK, sendVars, marks
<1>2. CASE Shift
  <2>1. UNCHANGED <<pend, bits, reqVars, ringVars, recvVars, txVars, spc, torn>>
        /\ txFifo > 0 /\ txFifo' = txFifo - 1
    BY <1>2 DEF Shift, sendVars, marks
  <2>2. QueueOK' /\ RequestOK' /\ Posted' = Posted
    BY <2>1, Untouched DEF CallsOK
  <2>3. SendOK'
    BY <2>1, <2>2 DEF CallsOK, SendOK, Sent, Sending, Draining, Drained, txVars, TypeOK
  <2>. QED  BY <2>2, <2>3 DEF CallsOK
<1>3. CASE UNCHANGED vars
  BY <1>3, Untouched DEF vars, CallsOK, fifoVars, sendVars, marks
<1>. QED
  BY <1>1, <1>2, <1>3, ReceiverCalls, SenderCalls, HandlerCalls, DaemonCalls DEF Next

LEMMA CallsInv == Spec => [](TypeOK /\ CallsOK)
BY TypeInit, TypeStep, CallsInit, CallsStep, PTL DEF Spec

\* When USART_RTOS_Send returns and no last byte was taken before its
\* interrupt was enabled, its bytes are on the wire; and neither call starts
\* while the transfer of an earlier one is in progress.
THEOREM TransfersEnd == Spec => []TransfersEndWithCalls
<1>1. TypeOK /\ CallsOK => TransfersEndWithCalls
  BY DEF TypeOK, CallsOK, RequestOK, SendOK, Drained, TransfersEndWithCalls
<1>. QED  BY <1>1, CallsInv, PTL

-----------------------------------------------------------------------------
(* The bytes.                                                              *)

\* What the ring buffer holds, cell by cell.
RingShape ==
  /\ RingLength \in 0 .. RingSize - 1 /\ Ring \in Seq(Nat) /\ Len(Ring) = RingLength
  /\ \A i \in 1 .. RingLength :
       Ring[i] = cells[IF tail + i - 1 < RingSize THEN tail + i - 1
                                                  ELSE tail + i - 1 - RingSize]

\* The ring's bytes are its cells from the tail on.
LEMMA RingHas == TypeOK => RingShape
<1>. SUFFICES ASSUME TypeOK  PROVE RingShape
  OBVIOUS
<1>1. /\ RingLength \in 0 .. RingSize - 1 /\ RingLength \in 0 .. RingLength
      /\ Ring \in Seq(Nat) /\ Len(Ring) = RingLength
  BY RingIndex, SizesAssumption DEF Ring
<1>2. tail \in Nat /\ tail < RingSize /\ RingSize \in Nat /\ RingSize > 0
  BY SizesAssumption DEF TypeOK, Index
<1>3. ASSUME NEW i \in 1 .. RingLength
      PROVE  Ring[i] = cells[IF tail + i - 1 < RingSize THEN tail + i - 1
                                                        ELSE tail + i - 1 - RingSize]
  <2>1. Ring[i] = cells[(tail + i - 1) % RingSize]
    BY DEF Ring, Oldest
  <2>2. tail + i - 1 \in Nat /\ tail + i - 1 < RingSize + RingSize
    BY <1>1, <1>2
  <2>. QED  BY <1>2, <2>1, <2>2, Wrap
<1>. QED  BY <1>1, <1>3 DEF RingShape

LEMMA RingHasNext == TypeOK' => RingShape'
BY RingHas, PTL

\* The bytes on their way, by their place.
FlowShape ==
  /\ Len(app) \in Nat /\ Len(Ring) \in Nat /\ Len(rxFifo) \in Nat
  /\ Len(Flow) = Len(app) + Len(Ring) + Len(rxFifo)
  /\ \A i \in 1 .. Len(Flow) :
       /\ Flow[i] \in Nat
       /\ Flow[i] = IF i <= Len(app) THEN app[i]
                    ELSE IF i <= Len(app) + Len(Ring) THEN Ring[i - Len(app)]
                    ELSE rxFifo[i - Len(app) - Len(Ring)]

\* The flow is the task's bytes, the ring's and the FIFO's.
LEMMA FlowHas == TypeOK => FlowShape
<1>. SUFFICES ASSUME TypeOK  PROVE FlowShape
  OBVIOUS
<1>1. app \in Seq(Nat) /\ Ring \in Seq(Nat) /\ rxFifo \in Seq(Nat)
  BY RingHas DEF RingShape, TypeOK
<1>. HIDE DEF Ring
<1>2. /\ app \o Ring \in Seq(Nat) /\ Len(app \o Ring) = Len(app) + Len(Ring)
      /\ \A i \in 1 .. Len(app) + Len(Ring) :
           (app \o Ring)[i] = IF i <= Len(app) THEN app[i] ELSE Ring[i - Len(app)]
  BY <1>1
<1>. DEFINE q == app \o Ring
<1>. HIDE DEF q
<1>3. /\ q \o rxFifo \in Seq(Nat) /\ Len(q \o rxFifo) = Len(q) + Len(rxFifo)
      /\ \A i \in 1 .. Len(q) + Len(rxFifo) :
           (q \o rxFifo)[i] = IF i <= Len(q) THEN q[i] ELSE rxFifo[i - Len(q)]
  BY <1>1, <1>2 DEF q
<1>4. Flow = q \o rxFifo
  BY DEF Flow, q
<1>. QED  BY SMTT(30), <1>1, <1>2, <1>3, <1>4 DEF FlowShape, q

LEMMA FlowHasNext == TypeOK' => FlowShape'
BY FlowHas, PTL

\* The ring's contents depend on its variables only.
LEMMA RingSame ==
  ASSUME UNCHANGED ringVars  PROVE Ring' = Ring /\ RingLength' = RingLength
BY DEF ringVars, Ring, Oldest, RingLength

\* A byte goes behind the others, and drops the first of a full ring.
LEMMA RingPut ==
  ASSUME TypeOK, TypeOK', NEW b, cells' = [cells EXCEPT ![head] = b], head' = Advance(head)
  PROVE  /\ ~RingFull /\ tail' = tail =>
              /\ Len(Ring') = Len(Ring) + 1 /\ Ring'[Len(Ring) + 1] = b
              /\ \A i \in 1 .. Len(Ring) : Ring'[i] = Ring[i]
         /\ RingFull /\ tail' = Advance(tail) =>
              /\ Len(Ring') = Len(Ring) /\ Len(Ring) > 0 /\ Ring'[Len(Ring)] = b
              /\ \A i \in 1 .. Len(Ring) - 1 : Ring'[i] = Ring[i + 1]
<1>1. RingShape /\ RingShape'
  BY RingHas, RingHasNext
<1>2. /\ RingSize \in Nat /\ RingSize > 1 /\ head \in Index /\ tail \in Index
      /\ head' \in Index /\ tail' \in Index /\ cells \in [Index -> Nat]
  BY SizesAssumption DEF TypeOK
<1>3. \A i \in Index : cells'[i] = IF i = head THEN b ELSE cells[i]
  BY <1>2
<1>4. head' = IF head + 1 = RingSize THEN 0 ELSE head + 1
  BY DEF Advance
<1>5. ASSUME ~RingFull, tail' = tail
      PROVE  /\ Len(Ring') = Len(Ring) + 1 /\ Ring'[Len(Ring) + 1] = b
             /\ \A i \in 1 .. Len(Ring) : Ring'[i] = Ring[i]
  <2>1. RingLength' = RingLength + 1
    BY <1>1, <1>2, <1>4, <1>5 DEF RingFull, RingLength, Index
  <2>2. head = IF tail + RingLength < RingSize THEN tail + RingLength
                                               ELSE tail + RingLength - RingSize
    BY <1>2 DEF RingLength, Index
  <2>3. Len(Ring') = Len(Ring) + 1
    BY <1>1, <2>1 DEF RingShape
  <2>4. Ring'[Len(Ring) + 1] = b
    BY <1>1, <1>2, <1>3, <1>5, <2>1, <2>2 DEF RingShape, Index
  <2>5. ASSUME NEW i \in 1 .. Len(Ring)
        PROVE  Ring'[i] = Ring[i]
    <3>. DEFINE c == IF tail + i - 1 < RingSize THEN tail + i - 1 ELSE tail + i - 1 - RingSize
    <3>1. i \in 1 .. RingLength /\ i \in 1 .. RingLength'
      BY <1>1, <2>1 DEF RingShape
    <3>2. Ring[i] = cells[c] /\ Ring'[i] = cells'[c]
      BY <1>1, <1>5, <3>1 DEF RingShape
    <3>3. RingLength \in Nat /\ RingLength < RingSize /\ i \in Nat /\ i > 0 /\ i <= RingLength
      BY <1>1, <1>2, <3>1 DEF RingShape
    <3>4. c \in Index /\ c # head
      BY <1>2, <2>2, <3>3 DEF Index
    <3>. QED  BY <1>3, <3>2, <3>4
  <2>. QED  BY <2>3, <2>4, <2>5
<1>6. ASSUME RingFull, tail' = Advance(tail)
      PROVE  /\ Len(Ring') = Len(Ring) /\ Len(Ring) > 0 /\ Ring'[Len(Ring)] = b
             /\ \A i \in 1 .. Len(Ring) - 1 : Ring'[i] = Ring[i + 1]
  <2>1. RingLength = RingSize - 1 /\ RingLength' = RingLength
    BY <1>2, <1>4, <1>6 DEF RingFull, RingLength, Index, Advance
  <2>2. /\ head = IF tail = 0 THEN RingSize - 1 ELSE tail - 1
        /\ tail' = IF tail + 1 = RingSize THEN 0 ELSE tail + 1
    BY <1>2, <1>6, <2>1 DEF RingLength, Index, Advance
  <2>3. Len(Ring') = Len(Ring) /\ Len(Ring) > 0
    BY <1>1, <1>2, <2>1 DEF RingShape
  <2>4. Ring'[Len(Ring)] = b
    BY SMTT(30), <1>1, <1>2, <1>3, <2>1, <2>2 DEF RingShape, Index
  <2>5. ASSUME NEW i \in 1 .. Len(Ring) - 1
        PROVE  Ring'[i] = Ring[i + 1]
    <3>. DEFINE c == IF tail + i < RingSize THEN tail + i ELSE tail + i - RingSize
    <3>1. i \in 1 .. RingLength' /\ i + 1 \in 1 .. RingLength /\ i \in Nat
      BY <1>1, <1>2, <2>1 DEF RingShape
    <3>2. Ring[i + 1] = cells[c]
      <4>1. Ring[i + 1] = cells[IF tail + (i + 1) - 1 < RingSize
                                  THEN tail + (i + 1) - 1 ELSE tail + (i + 1) - 1 - RingSize]
        BY <1>1, <3>1, Zenon DEF RingShape
      <4>2. tail + (i + 1) - 1 = tail + i
        BY <1>2, <3>1 DEF Index
      <4>. QED  BY <4>1, <4>2
    <3>3. Ring'[i] = cells'[c]
      <4>1. Ring'[i] = cells'[IF tail' + i - 1 < RingSize THEN tail' + i - 1
                                                          ELSE tail' + i - 1 - RingSize]
        BY <1>1, <3>1, Zenon DEF RingShape
      <4>2. i \in Nat /\ i > 0 /\ i < RingSize
        BY <1>2, <2>1, <3>1
      <4>3. c = IF tail' + i - 1 < RingSize THEN tail' + i - 1 ELSE tail' + i - 1 - RingSize
        BY <1>2, <2>2, <4>2 DEF Index
      <4>. QED  BY <4>1, <4>3
    <3>4. c \in Index /\ c # head
      BY <1>2, <2>1, <2>2, <3>1 DEF Index
    <3>. QED  BY <1>3, <3>2, <3>3, <3>4
  <2>. QED  BY <2>3, <2>4, <2>5
<1>. QED  BY <1>5, <1>6

\* The copy takes the oldest bytes and leaves the others.
LEMMA RingTake ==
  ASSUME TypeOK, TypeOK', NEW k \in 0 .. RingLength, UNCHANGED <<cells, head>>,
         tail' = (tail + k) % RingSize
  PROVE  /\ Len(Ring') = Len(Ring) - k /\ Len(Oldest(k)) = k /\ k <= Len(Ring)
         /\ \A i \in 1 .. k : Oldest(k)[i] = Ring[i]
         /\ \A i \in 1 .. Len(Ring) - k : Ring'[i] = Ring[i + k]
<1>1. RingShape /\ RingShape'
  BY RingHas, RingHasNext
<1>2. /\ RingSize \in Nat /\ RingSize > 1 /\ head \in Index /\ tail \in Index
      /\ k \in Nat /\ k <= RingLength /\ RingLength \in Nat /\ RingLength < RingSize
  BY <1>1, SizesAssumption DEF TypeOK, RingShape
<1>3. tail' = IF tail + k < RingSize THEN tail + k ELSE tail + k - RingSize
  BY <1>2, Wrap DEF Index
<1>4. RingLength' = RingLength - k
  BY <1>2, <1>3 DEF RingLength, Index
<1>5. Len(Ring') = Len(Ring) - k /\ Len(Oldest(k)) = k /\ k <= Len(Ring)
  BY <1>1, <1>2, <1>4, RingIndex DEF RingShape
<1>6. \A i \in 1 .. k : Oldest(k)[i] = Ring[i]
  BY <1>1, <1>2 DEF Ring, Oldest
<1>7. ASSUME NEW i \in 1 .. Len(Ring) - k
      PROVE  Ring'[i] = Ring[i + k]
  <2>. DEFINE c == IF tail + i + k - 1 < RingSize THEN tail + i + k - 1
                                                  ELSE tail + i + k - 1 - RingSize
  <2>1. i \in 1 .. RingLength' /\ i + k \in 1 .. RingLength /\ i \in Nat
    BY <1>1, <1>2, <1>4 DEF RingShape
  <2>2. Ring[i + k] = cells[c]
    <3>1. Ring[i + k] = cells[IF tail + (i + k) - 1 < RingSize
                                THEN tail + (i + k) - 1 ELSE tail + (i + k) - 1 - RingSize]
      BY <1>1, <2>1, Zenon DEF RingShape
    <3>2. c = IF tail + (i + k) - 1 < RingSize
                THEN tail + (i + k) - 1 ELSE tail + (i + k) - 1 - RingSize
      BY <1>2, <2>1 DEF Index
    <3>. QED  BY <3>1, <3>2
  <2>3. Ring'[i] = cells[c]
    <3>1. Ring'[i] = cells'[IF tail' + i - 1 < RingSize THEN tail' + i - 1
                                                        ELSE tail' + i - 1 - RingSize]
      BY <1>1, <2>1, Zenon DEF RingShape
    <3>2. i > 0 /\ i <= RingLength - k
      BY <1>2, <1>4, <2>1
    <3>3. c = IF tail' + i - 1 < RingSize THEN tail' + i - 1 ELSE tail' + i - 1 - RingSize
      BY <1>2, <1>3, <2>1, <3>2 DEF Index
    <3>. QED  BY <3>1, <3>3
  <2>. QED  BY <2>2, <2>3
<1>. QED  BY <1>5, <1>6, <1>7

\* Bytes that go on from one place to the next stay accounted for, as long as
\* the reports that others rely on stay.
FlowKept ==
  /\ Len(Flow') = Len(Flow)
  /\ \A i \in 1 .. Len(Flow) : Flow'[i] = Flow[i]
ReportsKept ==
  /\ ReportedBefore => ReportedBefore'
  /\ ReportedAfter => \/ Len(app') = Len(app) /\ ReportedAfter'
                      \/ Len(app) = 0 /\ ReportedBefore'

\* A step that moves no byte and takes no report keeps the order.
LEMMA StreamKept ==
  ASSUME TypeOK, TypeOK', StreamOK, FlowKept, ReportsKept, UNCHANGED <<arrived, last, lost>>
  PROVE  StreamOK'
<1>1. FlowShape
  BY FlowHas
<1>2. OrderOK'
  BY DEF StreamOK, OrderOK, FlowKept
<1>3. ASSUME NEW b \in last + 1 .. arrived
      PROVE  Accounted(b)'
  <2>1. CASE (\E i \in 1 .. Len(Flow) : Flow[i] = b) \/ b \in lost
    BY <2>1 DEF FlowKept, Accounted
  <2>2. CASE ReportedBefore /\ InFront(b)
    BY <2>2 DEF FlowKept, ReportsKept, InFront, Accounted
  <2>3. CASE ReportedAfter /\ Between(b)
    <3>1. CASE Len(app') = Len(app) /\ ReportedAfter'
      BY <2>3, <3>1 DEF FlowKept, Between, Accounted
    <3>2. CASE Len(app) = 0 /\ ReportedBefore'
      BY <1>1, <2>3, <3>2 DEF FlowShape, FlowKept, Between, InFront, Accounted
    <3>. QED  BY <2>3, <3>1, <3>2 DEF ReportsKept
  <2>. QED  BY <2>1, <2>2, <2>3 DEF StreamOK, Accounted
<1>. QED  BY <1>2, <1>3 DEF StreamOK

\* Steps that move no byte.
LEMMA StreamSame ==
  ASSUME TypeOK, TypeOK', StreamOK, UNCHANGED <<app, ringVars, rxFifo, arrived, last, lost>>,
         ReportedBefore => ReportedBefore', ReportedAfter => ReportedAfter'
  PROVE  StreamOK'
<1>1. Flow' = Flow
  BY RingSame, Zenon DEF Flow
<1>2. FlowKept /\ ReportsKept
  BY <1>1, Zenon DEF FlowKept, ReportsKept
<1>. QED  BY <1>2, StreamKept

LEMMA ReceiverStream ==
  ASSUME TypeOK, TypeOK', CallsOK, StreamOK, Receiver  PROVE StreamOK'
<1>1. Posted = {}
  BY EmptyQueue DEF Receiver, ReceiveCall, ReceiveCallback, ReceiveWait, ReceiveAbort,
     ReceiveClear, ReceiveDone, TaskRuns
<1>2. CASE ReceiveCall
  <2>1. PICK n \in ReqSizes : LET k == Pick2(n, RingLength) IN
          /\ app' = Oldest(k)
          /\ tail' = (tail + k) % RingSize
          /\ rpc' = AfterCopy(n - k)
    BY <1>2 DEF ReceiveCall
  <2>. DEFINE k == Pick2(n, RingLength)
  <2>2. k \in 0 .. RingLength
    BY CallsAssumption, RingIndex DEF Pick2
  <2>3. /\ rpc = "idle" /\ rpc' \in {"callback", "wait"} /\ app = <<>> /\ rev = {}
        /\ UNCHANGED <<cells, head, rxFifo, arrived, last, lost, fresh, bits, pend, rev>>
    BY <1>2, <2>1 DEF ReceiveCall, AfterCopy, CallsOK, RequestOK, fifoVars, seen
  <2>. HIDE DEF k
  <2>4. /\ Len(Ring') = Len(Ring) - k /\ Len(app') = k /\ k <= Len(Ring)
        /\ \A i \in 1 .. k : app'[i] = Ring[i]
        /\ \A i \in 1 .. Len(Ring) - k : Ring'[i] = Ring[i + k]
    BY <2>1, <2>2, <2>3, RingTake DEF k
  <2>5. FlowKept
    <3>1. FlowShape /\ FlowShape' /\ Len(app) = 0 /\ k \in Nat
      BY FlowHas, FlowHasNext, <2>2, <2>3
    <3>2. Len(Flow') = Len(Flow)
      BY <2>3, <2>4, <3>1 DEF FlowShape
    <3>3. ASSUME NEW i \in 1 .. Len(Flow)
          PROVE  Flow'[i] = Flow[i]
      <4>1. /\ Flow[i] = IF i <= Len(Ring) THEN Ring[i] ELSE rxFifo[i - Len(Ring)]
            /\ Flow'[i] = IF i <= k THEN app'[i]
                          ELSE IF i <= Len(Ring) THEN Ring'[i - k]
                          ELSE rxFifo[i - Len(Ring)]
        BY <2>3, <2>4, <3>1, <3>2 DEF FlowShape
      <4>2. CASE i <= k
        BY <2>4, <3>1, <4>1, <4>2 DEF FlowShape
      <4>3. CASE i > k /\ i <= Len(Ring)
        <5>1. i - k \in 1 .. Len(Ring) - k /\ (i - k) + k = i
          BY <3>1, <4>3 DEF FlowShape
        <5>2. Ring'[i - k] = Ring[i]
          BY <2>4, <5>1
        <5>. QED  BY <3>1, <4>1, <4>3, <5>2 DEF FlowShape
      <4>4. CASE i > Len(Ring)
        BY <2>4, <3>1, <4>1, <4>4 DEF FlowShape
      <4>. QED  BY <3>1, <4>2, <4>3, <4>4 DEF FlowShape
    <3>. QED  BY <3>2, <3>3 DEF FlowKept
  <2>6. Overran' = Overran
    BY <2>3 DEF Overran, Posted
  <2>7. ReportsKept
    BY <2>3, <2>6 DEF ReportsKept, ReportedBefore, ReportedAfter
  <2>. QED  BY <2>3, <2>5, <2>7, StreamKept
<1>3. CASE ReceiveCallback
  <2>1. Posted \subseteq Posted'
    BY <1>1
  <2>. QED
    BY <1>3, <2>1, StreamSame
       DEF ReceiveCallback, ReportedBefore, ReportedAfter, Overran, reqVars, fifoVars, seen
<1>4. CASE ReceiveWait
  <2>1. /\ rpc = "wait" /\ rpc' \in {"blocked", "woken"} /\ rev' = bits["rx"] /\ rev = {}
        /\ UNCHANGED <<app, ringVars, rxFifo, arrived, last, lost, fresh, rxDataSize>>
    BY <1>4 DEF ReceiveWait, CallsOK, RequestOK, reqVars, fifoVars, seen
  <2>. QED
    BY <1>1, <2>1, StreamSame DEF ReportedBefore, ReportedAfter, Overran
<1>5. CASE ReceiveAbort
  <2>1. /\ "OVERRUN" \in rev /\ UNCHANGED rev /\ rxDataSize' = 0
        /\ UNCHANGED <<app, ringVars, rxFifo, arrived, last, lost, fresh>>
    BY <1>5 DEF ReceiveAbort, Overrun, fifoVars, seen
  <2>. QED
    BY <2>1, StreamSame DEF ReportedBefore, ReportedAfter
<1>6. CASE ReceiveClear \/ ReceiveDone
  <2>1. /\ app' = <<>> /\ UNCHANGED <<ringVars, rxFifo, arrived, lost>>
    BY <1>6 DEF ReceiveClear, ReceiveDone, fifoVars
  <2>2. FlowShape /\ FlowShape' /\ Ring' = Ring /\ Len(app') = 0
    BY <2>1, FlowHas, FlowHasNext, RingSame
  <2>3. Len(Flow') = Len(Flow) - Len(app)
    BY <2>1, <2>2 DEF FlowShape
  <2>4. \A i \in 1 .. Len(Flow') : i + Len(app) \in 1 .. Len(Flow) /\ Flow'[i] = Flow[i + Len(app)]
    <3>. SUFFICES ASSUME NEW i \in 1 .. Len(Flow')
                  PROVE  i + Len(app) \in 1 .. Len(Flow) /\ Flow'[i] = Flow[i + Len(app)]
      OBVIOUS
    <3>1. /\ Len(app) \in Nat /\ Len(Ring) \in Nat /\ i \in Nat /\ i > 0 /\ Len(rxFifo) \in Nat
          /\ i <= Len(Ring) + Len(rxFifo) /\ i + Len(app) \in 1 .. Len(Flow)
      BY <2>2, <2>3 DEF FlowShape
    <3>2. Flow'[i] = IF i <= Len(Ring) THEN Ring[i] ELSE rxFifo[i - Len(Ring)]
      BY <2>1, <2>2, <3>1 DEF FlowShape
    <3>3. Flow[i + Len(app)] = IF i + Len(app) <= Len(app) + Len(Ring)
                                 THEN Ring[i + Len(app) - Len(app)]
                                 ELSE rxFifo[i + Len(app) - Len(app) - Len(Ring)]
      BY <2>2, <3>1 DEF FlowShape
    <3>4. i + Len(app) - Len(app) = i /\ (i + Len(app) <= Len(app) + Len(Ring) <=> i <= Len(Ring))
      BY <3>1
    <3>. QED  BY <3>1, <3>2, <3>3, <3>4
  <2>5. \A i \in 1 .. Len(Flow) :
          i \notin 1 .. Len(app) =>
            i - Len(app) \in 1 .. Len(Flow') /\ Flow'[i - Len(app)] = Flow[i]
    <3>. SUFFICES ASSUME NEW i \in 1 .. Len(Flow), i \notin 1 .. Len(app)
                  PROVE  i - Len(app) \in 1 .. Len(Flow') /\ Flow'[i - Len(app)] = Flow[i]
      OBVIOUS
    <3>1. i - Len(app) \in 1 .. Len(Flow') /\ i - Len(app) + Len(app) = i
      BY <2>2, <2>3 DEF FlowShape
    <3>2. Flow'[i - Len(app)] = Flow[i - Len(app) + Len(app)]
      BY <2>4, <3>1
    <3>. QED  BY <3>1, <3>2
  <2>6. CASE ReceiveClear
    <3>1. fresh' /\ "OVERRUN" \in rev /\ UNCHANGED last
      BY <2>6 DEF ReceiveClear, CallsOK, RequestOK
    <3>2. OrderOK'
      BY <2>1, <2>2, <2>4, <3>1 DEF StreamOK, OrderOK, FlowShape
    <3>3. ASSUME NEW b \in last + 1 .. arrived
          PROVE  Accounted(b)'
      <4>1. CASE \E i \in 1 .. Len(Flow) : Flow[i] = b
        <5>1. PICK i \in 1 .. Len(Flow) : Flow[i] = b
          BY <4>1
        <5>2. CASE i \in 1 .. Len(app)
          <6>1. InFront(b)'
            BY <2>2, <2>4, <5>1, <5>2 DEF StreamOK, OrderOK, InFront, FlowShape
          <6>. QED  BY <3>1, <6>1 DEF Accounted, ReportedBefore
        <5>3. CASE i - Len(app) \in 1 .. Len(Flow') /\ Flow'[i - Len(app)] = Flow[i]
          BY <5>1, <5>3 DEF Accounted
        <5>. QED  BY <2>5, <5>2, <5>3
      <4>2. CASE b \in lost
        BY <2>1, <4>2 DEF Accounted
      <4>3. CASE InFront(b)
        <5>1. InFront(b)'
          BY <2>4, <4>3 DEF InFront
        <5>. QED  BY <3>1, <5>1 DEF Accounted, ReportedBefore
      <4>4. CASE Between(b)
        <5>1. InFront(b)'
          BY <2>2, <2>4, <4>4 DEF InFront, Between, FlowShape
        <5>. QED  BY <3>1, <5>1 DEF Accounted, ReportedBefore
      <4>. QED  BY <4>1, <4>2, <4>3, <4>4 DEF StreamOK, Accounted
    <3>. QED  BY <2>1, <3>1, <3>2, <3>3 DEF StreamOK
  <2>7. CASE ReceiveDone
    <3>1. /\ rpc' = "idle" /\ "OVERRUN" \notin rev /\ UNCHANGED bits /\ UNCHANGED pend
          /\ rpc = "woken"
      BY <2>7 DEF ReceiveDone, Overrun
    <3>7. "COMPLETE" \in rev
      BY ZenonT(30), <3>1 DEF CallsOK, RequestOK, TypeOK, Bit
    <3>2. rxDataSize = 0 /\ app # <<>>
      BY <3>1, <3>7 DEF CallsOK, RequestOK, Completed
    <3>3. last' = app[Len(app)] /\ Len(app) \in 1 .. Len(Flow) /\ last' = Flow[Len(app)]
      <4>1. last' = app[Len(app)] /\ Len(app) > 0
        BY <2>7, <3>2 DEF ReceiveDone, TypeOK
      <4>. QED  BY <2>2, <4>1 DEF FlowShape
    <3>0. PICK n : n = last'
      OBVIOUS
    <3>4. last < n /\ n <= arrived /\ n \in Nat /\ last \in Nat /\ arrived \in Nat
      <4>1. Flow[Len(app)] \in Nat
        BY <2>2, <3>3, Zenon DEF FlowShape
      <4>2. last < Flow[Len(app)] /\ Flow[Len(app)] <= arrived
        BY <3>3, Zenon DEF StreamOK, OrderOK
      <4>3. n = Flow[Len(app)]
        BY <3>0, <3>3
      <4>4. last \in Nat /\ arrived \in Nat
        BY CallsAssumption DEF TypeOK
      <4>. QED  BY <4>1, <4>2, <4>3, <4>4
    <3>5. OrderOK'
      <4>1. \A i \in 1 .. Len(Flow') : /\ i + Len(app) \in 1 .. Len(Flow) /\ Len(app) < i + Len(app)
                                      /\ Flow'[i] = Flow[i + Len(app)]
        BY <2>2, <2>4 DEF FlowShape
      <4>2. \A i \in 1 .. Len(Flow') : n < Flow'[i] /\ Flow'[i] <= arrived
        BY <3>0, <3>3, <4>1 DEF StreamOK, OrderOK
      <4>3. \A i, k \in 1 .. Len(Flow') : i < k => Flow'[i] < Flow'[k]
        <5>1. \A i, k \in 1 .. Len(Flow') : i < k => i + Len(app) < k + Len(app)
          BY <2>2 DEF FlowShape
        <5>. QED  BY <4>1, <5>1, Zenon DEF StreamOK, OrderOK
      <4>. QED  BY <2>1, <3>0, <3>4, <4>2, <4>3 DEF OrderOK
    <3>6. ASSUME NEW b \in n + 1 .. arrived
          PROVE  Accounted(b)'
      <4>1. b \in last + 1 .. arrived /\ n < b
        BY <3>4
      <4>2. CASE \E i \in 1 .. Len(Flow) : Flow[i] = b
        <5>1. PICK i \in 1 .. Len(Flow) : Flow[i] = b
          BY <4>2
        <5>2. i \notin 1 .. Len(app)
          BY <2>2, <3>0, <3>3, <4>1, <5>1 DEF StreamOK, OrderOK, FlowShape
        <5>. QED  BY <2>5, <5>1, <5>2 DEF Accounted
      <4>3. CASE b \in lost
        BY <2>1, <4>3 DEF Accounted
      <4>4. CASE InFront(b)
        BY <3>0, <3>3, <3>4, <4>1, <4>4 DEF InFront
      <4>5. CASE ReportedAfter /\ Between(b)
        <5>1. InFront(b)'
          BY <2>2, <2>4, <4>5 DEF InFront, Between, FlowShape
        <5>2. ReportedBefore'
          BY <3>1, <4>5 DEF ReportedBefore, ReportedAfter, Overran, Posted
        <5>. QED  BY <5>1, <5>2 DEF Accounted
      <4>. QED  BY <4>1, <4>2, <4>3, <4>4, <4>5 DEF StreamOK, Accounted
    <3>. QED  BY <2>1, <3>0, <3>5, <3>6 DEF StreamOK
  <2>. QED  BY <1>6, <2>6, <2>7
<1>. QED  BY <1>2, <1>3, <1>4, <1>5, <1>6 DEF Receiver

\* Head and tail by positions.
LEMMA TailIs ==
  ASSUME NEW q \in Seq(Nat), q # <<>>
  PROVE  /\ Head(q) = q[1] /\ Len(q) \in Nat /\ Len(q) > 0 /\ Len(Tail(q)) = Len(q) - 1
         /\ \A i \in 1 .. Len(q) - 1 : Tail(q)[i] = q[i + 1]
OBVIOUS

\* The handler moves bytes to the task's buffer, or behind those in the ring;
\* the byte that a full ring drops lies between the buffer and the rest, and
\* an overrun is queued for it.
LEMMA HandlerStream ==
  ASSUME TypeOK, TypeOK', CallsOK, StreamOK, Handler  PROVE StreamOK'
<1>1. UNCHANGED <<arrived, last, fresh, bits, rpc, rev>>
  BY DEF Handler, IrqEnter, IrqLoop, IrqExit, recvVars, seen
<1>2. CASE IrqEnter
  <2>1. UNCHANGED <<app, ringVars, rxDataSize, pend>>
    BY <1>2 DEF IrqEnter, reqVars
  <2>2. CASE ~rxerr
    <3>1. UNCHANGED <<rxFifo, lost>>
      BY <1>2, <2>2 DEF IrqEnter
    <3>. QED
      BY <1>1, <2>1, <3>1, StreamSame DEF ReportedBefore, ReportedAfter, Overran, Posted
  <2>3. CASE rxerr
    <3>1. rxFifo' = <<>> /\ lost' = lost \cup {rxFifo[i] : i \in 1 .. Len(rxFifo)}
      BY <1>2, <2>3 DEF IrqEnter
    <3>2. FlowShape /\ FlowShape' /\ Ring' = Ring /\ Len(rxFifo') = 0
      BY <2>1, <3>1, FlowHas, FlowHasNext, RingSame
    <3>3. Len(Flow') = Len(app) + Len(Ring)
      BY <2>1, <3>2 DEF FlowShape
    <3>4. \A i \in 1 .. Len(Flow') : i \in 1 .. Len(Flow) /\ Flow'[i] = Flow[i]
      <4>. SUFFICES ASSUME NEW i \in 1 .. Len(Flow')
                    PROVE  i \in 1 .. Len(Flow) /\ Flow'[i] = Flow[i]
        OBVIOUS
      <4>1. /\ Len(app) \in Nat /\ Len(Ring) \in Nat /\ Len(rxFifo) \in Nat
            /\ i \in 1 .. Len(Flow) /\ i <= Len(app) + Len(Ring)
        BY <3>2, <3>3 DEF FlowShape
      <4>2. Flow[i] = IF i <= Len(app) THEN app[i] ELSE Ring[i - Len(app)]
        BY <3>2, <4>1 DEF FlowShape
      <4>3. Flow'[i] = IF i <= Len(app) THEN app[i] ELSE Ring[i - Len(app)]
        BY <2>1, <3>2, <3>3, <4>1 DEF FlowShape
      <4>. QED  BY <4>1, <4>2, <4>3
    <3>5. \A i \in 1 .. Len(Flow) : i \notin 1 .. Len(Flow') => Flow[i] \in lost'
      <4>. SUFFICES ASSUME NEW i \in 1 .. Len(Flow), i \notin 1 .. Len(Flow')
                    PROVE  Flow[i] \in lost'
        OBVIOUS
      <4>1. Flow[i] = rxFifo[i - Len(app) - Len(Ring)]
        BY <3>2, <3>3 DEF FlowShape
      <4>2. i - Len(app) - Len(Ring) \in 1 .. Len(rxFifo)
        BY <3>2, <3>3 DEF FlowShape
      <4>. QED  BY <3>1, <4>1, <4>2
    <3>6. OrderOK'
      BY <1>1, <3>4 DEF StreamOK, OrderOK
    <3>7. /\ ReportedBefore' = ReportedBefore /\ ReportedAfter' = ReportedAfter
          /\ lost \subseteq lost' /\ Len(app') = Len(app)
      BY <1>1, <2>1, <3>1, Zenon DEF ReportedBefore, ReportedAfter, Overran, Posted
    <3>8. ASSUME NEW b \in last + 1 .. arrived
          PROVE  Accounted(b)'
      <4>1. CASE \E i \in 1 .. Len(Flow) : Flow[i] = b
        BY <3>4, <3>5, <4>1 DEF Accounted
      <4>2. CASE b \in lost
        BY <3>7, <4>2 DEF Accounted
      <4>3. CASE ReportedBefore /\ InFront(b)
        BY <3>4, <3>7, <4>3 DEF Accounted, InFront
      <4>4. CASE ReportedAfter /\ Between(b)
        BY <3>4, <3>7, <4>4 DEF Accounted, Between
      <4>. QED  BY <4>1, <4>2, <4>3, <4>4 DEF StreamOK, Accounted
    <3>. QED  BY <1>1, <3>6, <3>8 DEF StreamOK
  <2>. QED  BY <2>2, <2>3
<1>3. CASE IrqLoop
  <2>1. lost' = lost
    BY <1>3 DEF IrqLoop, seen
  <2>2. CASE rxFifo # <<>> /\ ToRequest(Head(rxFifo)) /\ rxFifo' = Tail(rxFifo)
    <3>1. /\ rxDataSize > 0 /\ app' = Append(app, Head(rxFifo)) /\ UNCHANGED ringVars
      BY <2>2 DEF ToRequest
    <3>2. FlowShape /\ FlowShape' /\ Ring' = Ring
      BY <3>1, FlowHas, FlowHasNext, RingSame
    <3>3. Len(Ring) = 0
      <4>1. head = tail
        BY <3>1 DEF CallsOK, RequestOK
      <4>2. RingLength = 0
        BY <4>1 DEF RingLength, TypeOK, Index
      <4>. QED  BY <4>2, RingHas DEF RingShape
    <3>4. /\ Len(app') = Len(app) + 1 /\ app'[Len(app) + 1] = rxFifo[1]
          /\ \A i \in 1 .. Len(app) : app'[i] = app[i]
          /\ Len(rxFifo) > 0 /\ Len(rxFifo') = Len(rxFifo) - 1
          /\ \A i \in 1 .. Len(rxFifo) - 1 : rxFifo'[i] = rxFifo[i + 1]
      <4>1. rxFifo \in Seq(Nat) /\ app \in Seq(Nat)
        BY DEF TypeOK
      <4>2. /\ Head(rxFifo) = rxFifo[1] /\ Len(rxFifo) > 0 /\ Len(rxFifo') = Len(rxFifo) - 1
            /\ \A i \in 1 .. Len(rxFifo) - 1 : rxFifo'[i] = rxFifo[i + 1]
        BY <2>2, <4>1, TailIs
      <4>3. /\ Len(app') = Len(app) + 1 /\ app'[Len(app) + 1] = Head(rxFifo)
            /\ \A i \in 1 .. Len(app) : app'[i] = app[i]
        BY <3>1, <4>1
      <4>. QED  BY <4>2, <4>3
    <3>5. FlowKept
      <4>1. Len(Flow') = Len(Flow)
        BY <3>2, <3>3, <3>4 DEF FlowShape
      <4>2. ASSUME NEW i \in 1 .. Len(Flow)
            PROVE  Flow'[i] = Flow[i]
        <5>1. /\ Flow[i] = IF i <= Len(app) THEN app[i] ELSE rxFifo[i - Len(app)]
              /\ Flow'[i] = IF i <= Len(app) + 1 THEN app'[i] ELSE rxFifo'[i - (Len(app) + 1)]
          <6>1. i \in 1 .. Len(Flow') /\ Len(app) \in Nat /\ i \in Nat
            BY <3>2, <4>1 DEF FlowShape
          <6>2. Flow[i] = IF i <= Len(app) THEN app[i] ELSE rxFifo[i - Len(app)]
            <7>1. Flow[i] = IF i <= Len(app) THEN app[i]
                            ELSE IF i <= Len(app) + 0 THEN Ring[i - Len(app)]
                            ELSE rxFifo[i - Len(app) - 0]
              BY <3>2, <3>3 DEF FlowShape
            <7>. QED  BY <6>1, <7>1
          <6>3. Flow'[i] = IF i <= Len(app) + 1 THEN app'[i] ELSE rxFifo'[i - (Len(app) + 1)]
            <7>1. Flow'[i] = IF i <= Len(app) + 1 THEN app'[i]
                             ELSE IF i <= Len(app) + 1 + 0 THEN Ring[i - (Len(app) + 1)]
                             ELSE rxFifo'[i - (Len(app) + 1) - 0]
              BY <3>2, <3>3, <3>4, <6>1 DEF FlowShape
            <7>. QED  BY <6>1, <7>1
          <6>. QED  BY <6>2, <6>3
        <5>2. i \in Nat /\ i > 0 /\ Len(app) \in Nat /\ i <= Len(app) + Len(rxFifo)
          BY <3>2, <3>3 DEF FlowShape
        <5>3. CASE i <= Len(app)
          BY <3>4, <5>1, <5>2, <5>3
        <5>4. CASE i = Len(app) + 1
          BY <3>4, <5>1, <5>2, <5>4
        <5>5. CASE i > Len(app) + 1
          <6>1. i - (Len(app) + 1) \in 1 .. Len(rxFifo) - 1 /\ i - (Len(app) + 1) + 1 = i - Len(app)
            BY <3>2, <5>2, <5>5 DEF FlowShape
          <6>2. rxFifo'[i - (Len(app) + 1)] = rxFifo[i - (Len(app) + 1) + 1]
            BY <3>4, <6>1
          <6>. QED  BY <5>1, <5>2, <5>5, <6>1, <6>2
        <5>. QED  BY <5>2, <5>3, <5>4, <5>5
      <4>. QED  BY <4>1, <4>2 DEF FlowKept
    <3>6. Posted \subseteq Posted'
      BY <2>2, PostStep DEF ToRequest, RxComplete, Posted
    <3>7. ReportsKept
      <4>1. rxDataSize # 0
        BY <3>1 DEF TypeOK
      <4>. QED
        BY <1>1, <3>6, <4>1 DEF ReportsKept, ReportedBefore, ReportedAfter, Overran
    <3>. QED  BY <1>1, <2>1, <3>5, <3>7, StreamKept
  <2>3. CASE rxFifo # <<>> /\ ToRing(Head(rxFifo)) /\ rxFifo' = Tail(rxFifo)
    <3>1. /\ rxDataSize = 0 /\ UNCHANGED <<rxDataSize, app>>
          /\ cells' = [cells EXCEPT ![head] = Head(rxFifo)] /\ head' = Advance(head)
      BY <2>3 DEF ToRing, reqVars
    <3>2. FlowShape /\ FlowShape'
      BY FlowHas, FlowHasNext
    <3>3. /\ Head(rxFifo) = rxFifo[1] /\ Len(rxFifo) > 0 /\ Len(rxFifo') = Len(rxFifo) - 1
          /\ \A i \in 1 .. Len(rxFifo) - 1 : rxFifo'[i] = rxFifo[i + 1]
      <4>1. rxFifo \in Seq(Nat)
        BY DEF TypeOK
      <4>. QED  BY <2>3, <4>1, TailIs
    <3>4. CASE ~RingFull
      <4>1. UNCHANGED <<tail, pend>>
        BY <2>3, <3>4 DEF ToRing
      <4>2. /\ Len(Ring') = Len(Ring) + 1 /\ Ring'[Len(Ring) + 1] = rxFifo[1]
            /\ \A i \in 1 .. Len(Ring) : Ring'[i] = Ring[i]
        BY <3>1, <3>3, <3>4, <4>1, RingPut
      <4>3. FlowKept
        <5>1. Len(Flow') = Len(Flow)
          BY <3>1, <3>2, <3>3, <4>2 DEF FlowShape
        <5>2. ASSUME NEW i \in 1 .. Len(Flow)
              PROVE  Flow'[i] = Flow[i]
          <6>1. /\ Flow[i] = IF i <= Len(app) THEN app[i]
                             ELSE IF i <= Len(app) + Len(Ring) THEN Ring[i - Len(app)]
                             ELSE rxFifo[i - Len(app) - Len(Ring)]
                /\ Flow'[i] = IF i <= Len(app) THEN app[i]
                              ELSE IF i <= Len(app) + (Len(Ring) + 1) THEN Ring'[i - Len(app)]
                              ELSE rxFifo'[i - Len(app) - (Len(Ring) + 1)]
            BY <3>1, <3>2, <4>2, <5>1 DEF FlowShape
          <6>2. /\ i \in Nat /\ i > 0 /\ Len(app) \in Nat /\ Len(Ring) \in Nat
                /\ i <= Len(app) + Len(Ring) + Len(rxFifo) /\ Len(rxFifo) \in Nat
            BY <3>2 DEF FlowShape
          <6>3. CASE i <= Len(app)
            BY <6>1, <6>3
          <6>4. CASE i > Len(app) /\ i <= Len(app) + Len(Ring)
            <7>1. i - Len(app) \in 1 .. Len(Ring)
              BY <6>2, <6>4
            <7>. QED  BY <4>2, <6>1, <6>2, <6>4, <7>1
          <6>5. CASE i = Len(app) + Len(Ring) + 1
            <7>1. i - Len(app) = Len(Ring) + 1 /\ i - Len(app) - Len(Ring) = 1
              BY <6>2, <6>5
            <7>. QED  BY <4>2, <6>1, <6>2, <6>5, <7>1
          <6>6. CASE i > Len(app) + Len(Ring) + 1
            <7>1. /\ i - Len(app) - (Len(Ring) + 1) \in 1 .. Len(rxFifo) - 1
                  /\ i - Len(app) - (Len(Ring) + 1) + 1 = i - Len(app) - Len(Ring)
              BY <6>2, <6>6
            <7>2. rxFifo'[i - Len(app) - (Len(Ring) + 1)]
                    = rxFifo[i - Len(app) - (Len(Ring) + 1) + 1]
              BY <3>3, <7>1
            <7>. QED  BY <6>1, <6>2, <6>6, <7>1, <7>2
          <6>. QED  BY <6>2, <6>3, <6>4, <6>5, <6>6
        <5>. QED  BY <5>1, <5>2 DEF FlowKept
      <4>4. ReportsKept
        BY <1>1, <3>1, <4>1 DEF ReportsKept, ReportedBefore, ReportedAfter, Overran, Posted
      <4>. QED  BY <1>1, <2>1, <4>3, <4>4, StreamKept
    <3>5. CASE RingFull
      <4>1. tail' = Advance(tail) /\ pend' = Post(pend, RxOverrun)
        BY <2>3, <3>5 DEF ToRing, RxOverrun
      <4>2. /\ Len(Ring') = Len(Ring) /\ Len(Ring) > 0 /\ Ring'[Len(Ring)] = rxFifo[1]
            /\ \A i \in 1 .. Len(Ring) - 1 : Ring'[i] = Ring[i + 1]
        BY <3>1, <3>3, <3>5, <4>1, RingPut
      <4>3. Posted \subseteq Posted' /\ RxOverrun \in Posted'
        <5>1. Len(pend) < QueueLength \/ Len(pend) = QueueLength
          BY SizesAssumption DEF TypeOK
        <5>. QED  BY <4>1, <5>1, PostStep, FullQueue DEF CallsOK
      <4>4. Overran' /\ ReportedAfter' /\ (ReportedBefore => ReportedBefore')
        BY <1>1, <3>1, <4>3 DEF Overran, ReportedBefore, ReportedAfter
      <4>5. Len(Flow') = Len(Flow) - 1 /\ Len(app) + 1 \in 1 .. Len(Flow)
        BY <3>1, <3>2, <3>3, <4>2 DEF FlowShape
      <4>6. ASSUME NEW i \in 1 .. Len(Flow')
            PROVE  IF i <= Len(app) THEN i \in 1 .. Len(Flow) /\ Flow'[i] = Flow[i]
                                    ELSE i + 1 \in 1 .. Len(Flow) /\ Flow'[i] = Flow[i + 1]
        <5>1. /\ i \in Nat /\ i > 0 /\ Len(app) \in Nat /\ Len(Ring) \in Nat
              /\ i < Len(app) + Len(Ring) + Len(rxFifo) /\ Len(rxFifo) \in Nat
              /\ i \in 1 .. Len(Flow) /\ i + 1 \in 1 .. Len(Flow)
          BY <3>2, <4>5 DEF FlowShape
        <5>2. Flow'[i] = IF i <= Len(app) THEN app[i]
                         ELSE IF i <= Len(app) + Len(Ring) THEN Ring'[i - Len(app)]
                         ELSE rxFifo'[i - Len(app) - Len(Ring)]
          BY <3>1, <3>2, <4>2 DEF FlowShape
        <5>3. /\ Flow[i] = IF i <= Len(app) THEN app[i]
                           ELSE IF i <= Len(app) + Len(Ring) THEN Ring[i - Len(app)]
                           ELSE rxFifo[i - Len(app) - Len(Ring)]
              /\ Flow[i + 1] = IF i + 1 <= Len(app) THEN app[i + 1]
                               ELSE IF i + 1 <= Len(app) + Len(Ring) THEN Ring[i + 1 - Len(app)]
                               ELSE rxFifo[i + 1 - Len(app) - Len(Ring)]
          BY SMTT(30), <3>2, <5>1 DEF FlowShape
        <5>4. CASE i <= Len(app)
          BY <5>1, <5>2, <5>3, <5>4
        <5>5. CASE i > Len(app) /\ i < Len(app) + Len(Ring)
          <6>1. i - Len(app) \in 1 .. Len(Ring) - 1 /\ i - Len(app) + 1 = i + 1 - Len(app)
            BY <5>1, <5>5
          <6>2. Ring'[i - Len(app)] = Ring[i + 1 - Len(app)]
            BY <4>2, <6>1
          <6>. QED  BY <5>1, <5>2, <5>3, <5>5, <6>2
        <5>6. CASE i = Len(app) + Len(Ring)
          <6>1. i - Len(app) = Len(Ring) /\ i + 1 - Len(app) - Len(Ring) = 1
            BY <5>1, <5>6
          <6>. QED  BY <4>2, <5>1, <5>2, <5>3, <5>6, <6>1
        <5>7. CASE i > Len(app) + Len(Ring)
          <6>1. /\ i - Len(app) - Len(Ring) \in 1 .. Len(rxFifo) - 1
                /\ i - Len(app) - Len(Ring) + 1 = i + 1 - Len(app) - Len(Ring)
            BY <5>1, <5>7
          <6>2. rxFifo'[i - Len(app) - Len(Ring)] = rxFifo[i + 1 - Len(app) - Len(Ring)]
            BY <3>3, <6>1
          <6>. QED  BY <5>1, <5>2, <5>3, <5>7, <6>2
        <5>. QED  BY <4>2, <5>1, <5>4, <5>5, <5>6, <5>7
      <4>7. StreamOK'
        <5>. DEFINE d == Len(app) + 1
        <5>1. /\ Len(app') = Len(app) /\ Len(app) \in Nat /\ Len(Flow) \in Nat
              /\ Len(Flow') = Len(Flow) - 1 /\ d \in 1 .. Len(Flow)
          BY <3>1, <3>2, <4>5 DEF FlowShape
        <5>2. OrderOK'
          <6>1. \A i \in 1 .. Len(Flow') : last < Flow'[i] /\ Flow'[i] <= arrived
            BY <4>6 DEF StreamOK, OrderOK
          <6>2. ASSUME NEW i \in 1 .. Len(Flow'), NEW k \in 1 .. Len(Flow'), i < k
                PROVE  Flow'[i] < Flow'[k]
            <7>1. \A u, v \in 1 .. Len(Flow) : u < v => Flow[u] < Flow[v]
              BY DEF StreamOK, OrderOK
            <7>2. i \in Nat /\ k \in Nat
              BY <5>1
            <7>3. CASE k <= Len(app)
              BY <4>6, <5>1, <6>2, <7>1, <7>2, <7>3
            <7>4. CASE i <= Len(app) /\ ~(k <= Len(app))
              <8>1. /\ i \in 1 .. Len(Flow) /\ Flow'[i] = Flow[i]
                    /\ k + 1 \in 1 .. Len(Flow) /\ Flow'[k] = Flow[k + 1] /\ i < k + 1
                BY <4>6, <5>1, <6>2, <7>2, <7>4
              <8>. QED  BY <7>1, <8>1
            <7>5. CASE ~(i <= Len(app))
              <8>1. /\ i + 1 \in 1 .. Len(Flow) /\ Flow'[i] = Flow[i + 1]
                    /\ k + 1 \in 1 .. Len(Flow) /\ Flow'[k] = Flow[k + 1] /\ i + 1 < k + 1
                BY <4>6, <5>1, <6>2, <7>2, <7>5
              <8>. QED  BY <7>1, <8>1
            <7>. QED  BY <7>3, <7>4, <7>5
          <6>. QED  BY <1>1, <6>1, <6>2 DEF StreamOK, OrderOK
        <5>3. ASSUME NEW b \in last + 1 .. arrived
              PROVE  Accounted(b)'
          <6>1. CASE \E i \in 1 .. Len(Flow) : Flow[i] = b
            <7>1. PICK i \in 1 .. Len(Flow) : Flow[i] = b
              BY <6>1
            <7>2. CASE i = d
              <8>1. Between(b)'
                BY SMTT(30), <4>6, <5>1, <7>1, <7>2 DEF StreamOK, OrderOK, Between
              <8>. QED  BY <4>4, <8>1 DEF Accounted
            <7>3. CASE i < d
              BY <4>6, <5>1, <7>1, <7>3 DEF Accounted
            <7>4. CASE i > d
              <8>1. i - 1 \in 1 .. Len(Flow') /\ ~(i - 1 <= Len(app)) /\ i - 1 + 1 = i
                BY <5>1, <7>4
              <8>2. Flow'[i - 1] = b
                BY <4>6, <7>1, <8>1
              <8>. QED  BY <8>1, <8>2 DEF Accounted
            <7>. QED  BY <5>1, <7>2, <7>3, <7>4
          <6>2. CASE b \in lost
            BY <2>1, <6>2 DEF Accounted
          <6>3. CASE ReportedBefore /\ InFront(b)
            <7>1. InFront(b)'
              BY <4>6, <6>3 DEF InFront
            <7>. QED  BY <4>4, <6>3, <7>1 DEF Accounted
          <6>4. CASE Between(b)
            <7>1. Between(b)'
              BY <4>6, <5>1, <6>4 DEF Between
            <7>. QED  BY <4>4, <7>1 DEF Accounted
          <6>. QED  BY <6>1, <6>2, <6>3, <6>4 DEF StreamOK, Accounted
        <5>. QED  BY <1>1, <5>2, <5>3 DEF StreamOK
      <4>. QED  BY <4>7
    <3>. QED  BY <3>4, <3>5
  <2>4. CASE UNCHANGED <<ringVars, reqVars, pend, rxFifo>>
    BY <1>1, <2>1, <2>4, StreamSame DEF ReportedBefore, ReportedAfter, Overran, Posted, reqVars
  <2>. QED  BY <1>3, <2>2, <2>3, <2>4 DEF IrqLoop, IrqReceive, CanReceive
<1>4. CASE IrqExit
  <2>1. UNCHANGED <<app, ringVars, rxFifo, lost, rxDataSize>>
    BY <1>4 DEF IrqExit, reqVars, fifoVars, seen
  <2>2. pend' = Post(pend, TxComplete) \/ pend' = pend
    BY <1>4, Zenon DEF IrqExit, TxComplete
  <2>3. Posted \subseteq Posted'
    BY <2>2, PostStep DEF Posted
  <2>. QED
    BY <1>1, <2>1, <2>3, StreamSame DEF ReportedBefore, ReportedAfter, Overran
<1>. QED  BY <1>2, <1>3, <1>4 DEF Handler

LEMMA DaemonStream ==
  ASSUME TypeOK, TypeOK', CallsOK, StreamOK, Daemon  PROVE StreamOK'
<1>1. /\ pend # <<>> /\ pend' = Tail(pend)
      /\ UNCHANGED <<app, ringVars, rxFifo, arrived, last, lost, fresh, rxDataSize>>
  BY DEF Daemon, reqVars, fifoVars, seen
<1>2. Head(pend) \in {RxComplete, RxOverrun, TxComplete} /\ Posted = Posted' \cup {Head(pend)}
  BY <1>1, TakeStep DEF CallsOK, QueueOK
<1>3. /\ rpc = "blocked" => bits["rx"] = {} /\ rev = {}
      /\ rpc' = rpc \/ (rpc = "blocked" /\ rpc' = "woken")
  BY DEF Daemon, CallsOK, RequestOK
<1>4. CASE Head(pend) = RxOverrun
  <2>1. IF rpc = "blocked"
          THEN rev' = bits["rx"] \cup {"OVERRUN"}
          ELSE bits'["rx"] = bits["rx"] \cup {"OVERRUN"} /\ UNCHANGED <<rpc, rev>>
    BY <1>4, Kinds DEF Daemon, TypeOK
  <2>. QED  BY <1>1, <1>3, <2>1, StreamSame DEF ReportedBefore, ReportedAfter, Overran
<1>5. CASE Head(pend) # RxOverrun
  <2>1. RxOverrun \in Posted' <=> RxOverrun \in Posted
    BY <1>2, <1>5
  <2>2. /\ bits["rx"] \subseteq bits'["rx"] \/ rpc = "blocked"
        /\ rev \subseteq rev'
    <3>1. Head(pend).group \in {"rx", "tx"}
      BY <1>2, Kinds
    <3>. QED  BY <1>3, <3>1 DEF Daemon, TypeOK
  <2>. QED  BY <1>1, <1>3, <2>1, <2>2, StreamSame DEF ReportedBefore, ReportedAfter, Overran
<1>. QED  BY <1>4, <1>5

LEMMA StreamInit == Init => StreamOK
<1>. SUFFICES ASSUME Init  PROVE StreamOK
  OBVIOUS
<1>1. TypeOK
  BY TypeInit
<1>2. Len(Flow) = 0
  <2>1. FlowShape /\ RingShape /\ Len(app) = 0 /\ Len(rxFifo) = 0
    BY <1>1, FlowHas, RingHas DEF Init
  <2>2. RingLength = 0
    BY SizesAssumption DEF Init, RingLength
  <2>. QED  BY <2>1, <2>2 DEF FlowShape, RingShape
<1>. QED  BY <1>2 DEF Init, StreamOK, OrderOK

LEMMA ArriveStream ==
  ASSUME TypeOK, TypeOK', StreamOK, Arrive  PROVE StreamOK'
<1>1. /\ arrived' = arrived + 1 /\ arrived \in Nat /\ last \in Nat /\ last <= arrived
      /\ UNCHANGED <<app, ringVars, last, fresh, bits, rpc, rev, pend, rxDataSize>>
  BY DEF Arrive, TypeOK, StreamOK, OrderOK, recvVars, reqVars
<1>2. FlowShape /\ FlowShape' /\ Ring' = Ring
  BY <1>1, FlowHas, FlowHasNext, RingSame
<1>3. ReportedBefore' = ReportedBefore /\ ReportedAfter' = ReportedAfter
  BY <1>1, Zenon DEF ReportedBefore, ReportedAfter, Overran, Posted
<1>4. CASE Len(rxFifo) < FifoDepth
  <2>1. rxFifo' = Append(rxFifo, arrived + 1) /\ lost' = lost
    BY <1>4 DEF Arrive
  <2>2. /\ Len(rxFifo') = Len(rxFifo) + 1 /\ rxFifo'[Len(rxFifo) + 1] = arrived + 1
        /\ \A i \in 1 .. Len(rxFifo) : rxFifo'[i] = rxFifo[i]
    BY SMTT(30), <2>1 DEF TypeOK
  <2>3. Len(Flow') = Len(Flow) + 1 /\ Len(Flow) \in Nat /\ Len(app') = Len(app)
    BY <1>1, <1>2, <2>2 DEF FlowShape
  <2>4. Flow'[Len(Flow) + 1] = arrived + 1
    <3>1. Flow'[Len(Flow) + 1] = rxFifo'[Len(Flow) + 1 - Len(app) - Len(Ring)]
      <4>1. PICK n \in Nat : n = Len(Flow) + 1
        BY <2>3
      <4>2. n \in 1 .. Len(Flow') /\ n > Len(app) /\ n > Len(app) + Len(Ring)
        BY <1>2, <2>3, <4>1 DEF FlowShape
      <4>3. Flow'[n] = rxFifo'[n - Len(app) - Len(Ring)]
        BY SMTT(30), <1>1, <1>2, <4>2 DEF FlowShape
      <4>. QED  BY <4>1, <4>3
    <3>2. Len(Flow) + 1 - Len(app) - Len(Ring) = Len(rxFifo) + 1
      BY <1>2 DEF FlowShape
    <3>. QED  BY <2>2, <3>1, <3>2
  <2>5. ASSUME NEW i \in 1 .. Len(Flow)
        PROVE  i \in 1 .. Len(Flow') /\ Flow'[i] = Flow[i]
    <3>1. /\ i \in 1 .. Len(Flow') /\ i \in Nat /\ i > 0
          /\ i <= Len(app) + Len(Ring) + Len(rxFifo)
          /\ Len(app) \in Nat /\ Len(Ring) \in Nat /\ Len(rxFifo) \in Nat
      BY <1>2, <2>3 DEF FlowShape
    <3>2. Flow'[i] = IF i <= Len(app) THEN app[i]
                     ELSE IF i <= Len(app) + Len(Ring) THEN Ring[i - Len(app)]
                     ELSE rxFifo'[i - Len(app) - Len(Ring)]
      BY <1>1, <1>2, <3>1 DEF FlowShape
    <3>3. Flow[i] = IF i <= Len(app) THEN app[i]
                    ELSE IF i <= Len(app) + Len(Ring) THEN Ring[i - Len(app)]
                    ELSE rxFifo[i - Len(app) - Len(Ring)]
      BY <1>2 DEF FlowShape
    <3>4. i > Len(app) + Len(Ring) => i - Len(app) - Len(Ring) \in 1 .. Len(rxFifo)
      BY <3>1
    <3>. QED  BY <2>2, <3>1, <3>2, <3>3, <3>4
  <2>6. \A i \in 1 .. Len(Flow') : i \in 1 .. Len(Flow) \/ i = Len(Flow) + 1
    BY <2>3
  <2>7. \A i \in 1 .. Len(Flow) : Flow[i] \in Nat /\ last < Flow[i] /\ Flow[i] <= arrived
    BY <1>2 DEF FlowShape, StreamOK, OrderOK
  <2>8. OrderOK'
    <3>1. last <= arrived + 1
      BY <1>1
    <3>2. \A i \in 1 .. Len(Flow') : last < Flow'[i] /\ Flow'[i] <= arrived + 1
      BY <1>1, <2>4, <2>5, <2>6, <2>7
    <3>3. ASSUME NEW i \in 1 .. Len(Flow'), NEW k \in 1 .. Len(Flow'), i < k
          PROVE  Flow'[i] < Flow'[k]
      <4>1. i \in 1 .. Len(Flow)
        BY <2>3, <3>3
      <4>2. CASE k \in 1 .. Len(Flow)
        BY <2>5, <3>3, <4>1, <4>2 DEF StreamOK, OrderOK
      <4>3. CASE k = Len(Flow) + 1
        BY <1>1, <2>4, <2>5, <2>7, <4>1, <4>3
      <4>. QED  BY <2>6, <4>2, <4>3
    <3>. QED  BY <1>1, <3>1, <3>2, <3>3 DEF OrderOK
  <2>9. ASSUME NEW b \in last + 1 .. arrived + 1
        PROVE  Accounted(b)'
    <3>1. CASE b = arrived + 1
      BY <2>3, <2>4, <3>1 DEF Accounted
    <3>2. CASE b \in last + 1 .. arrived
      <4>1. CASE \E i \in 1 .. Len(Flow) : Flow[i] = b
        BY <2>5, <4>1 DEF Accounted
      <4>2. CASE b \in lost
        BY <2>1, <4>2 DEF Accounted
      <4>3. CASE ReportedBefore /\ InFront(b)
        <5>1. InFront(b)'
          BY <1>1, <2>4, <2>5, <2>6, <3>2, <4>3 DEF InFront
        <5>. QED  BY <1>3, <4>3, <5>1 DEF Accounted
      <4>4. CASE ReportedAfter /\ Between(b)
        <5>1. Len(Flow) + 1 > Len(app)
          BY <1>2 DEF FlowShape
        <5>2. Between(b)'
          BY <1>1, <2>3, <2>4, <2>5, <2>6, <3>2, <4>4, <5>1 DEF Between
        <5>. QED  BY <1>3, <4>4, <5>2 DEF Accounted
      <4>. QED  BY <3>2, <4>1, <4>2, <4>3, <4>4 DEF StreamOK, Accounted
    <3>. QED  BY <1>1, <3>1, <3>2
  <2>. QED  BY <1>1, <2>8, <2>9 DEF StreamOK
<1>5. CASE ~(Len(rxFifo) < FifoDepth)
  <2>1. lost' = lost \cup {arrived + 1} /\ rxFifo' = rxFifo
    BY <1>5 DEF Arrive
  <2>2. Flow' = Flow
    BY <1>1, <1>2, <2>1 DEF Flow
  <2>3. OrderOK'
    BY <1>1, <1>2, <2>2 DEF StreamOK, OrderOK, FlowShape
  <2>4. ASSUME NEW b \in last + 1 .. arrived + 1
        PROVE  Accounted(b)'
    <3>1. CASE b = arrived + 1
      BY <2>1, <3>1 DEF Accounted
    <3>2. CASE b \in last + 1 .. arrived
      BY <1>1, <1>3, <2>1, <2>2, <3>2 DEF StreamOK, Accounted, InFront, Between
    <3>. QED  BY <1>1, <3>1, <3>2
  <2>. QED  BY <1>1, <2>3, <2>4 DEF StreamOK
<1>. QED  BY <1>4, <1>5

LEMMA StreamStep == TypeOK /\ TypeOK' /\ CallsOK /\ StreamOK /\ [Next]_vars => StreamOK'
<1>. SUFFICES ASSUME TypeOK, TypeOK', CallsOK, StreamOK, [Next]_vars  PROVE StreamOK'
  OBVIOUS
<1>1. CASE Sender \/ Shift \/ UNCHANGED vars
  <2>1. UNCHANGED <<app, ringVars, rxFifo, arrived, last, lost, fresh, rxDataSize, rpc, rev, pend>>
    BY <1>1 DEF Sender, SendCall, SendBusy, SendEnable, SendWait, SendReturn, Shift, vars,
       reqVars, fifoVars, recvVars, seen
  <2>2. bits'["rx"] = bits["rx"]
    BY <1>1 DEF Sender, SendCall, SendBusy, SendEnable, SendWait, SendReturn, Shift, vars, TypeOK
  <2>. QED  BY <2>1, <2>2, StreamSame DEF ReportedBefore, ReportedAfter, Overran, Posted
<1>. QED
  BY <1>1, ReceiverStream, HandlerStream, DaemonStream, ArriveStream DEF Next

\* The inductive invariant.
IInv == TypeOK /\ CallsOK /\ StreamOK

LEMMA Invariant == Spec => []IInv
<1>1. Init => IInv
  BY TypeInit, CallsInit, StreamInit DEF IInv
<1>2. IInv /\ [Next]_vars => IInv'
  BY TypeStep, CallsStep, StreamStep DEF IInv
<1>. QED  BY <1>1, <1>2, PTL DEF Spec

-----------------------------------------------------------------------------
(* The promise to the tasks.                                               *)

\* What a Receive hands over goes on where the last one ended, and leaves out
\* nothing but what was lost or reported.
LEMMA Delivery ==
  ASSUME IInv, ReceiveDone  PROVE Fifo!Deliver
<1>. USE DEF IInv
<1>1. FlowShape
  BY FlowHas
<1>2. rpc = "woken" /\ "OVERRUN" \notin rev
  BY DEF ReceiveDone, Overrun
<1>3. "COMPLETE" \in rev
  BY <1>2 DEF CallsOK, RequestOK, TypeOK, Bit
<1>4. app # <<>> /\ Len(app) > 0 /\ Len(app) \in 1 .. Len(app)
  BY <1>2, <1>3 DEF CallsOK, RequestOK, Completed, TypeOK
<1>5. \A i \in 1 .. Len(app) : i \in 1 .. Len(Flow) /\ Flow[i] = app[i] /\ app[i] \in Nat
  BY <1>1 DEF FlowShape
<1>6. Fifo!InOrder
  <2>1. \A i \in 1 .. Len(app) : last < app[i] /\ app[i] <= arrived
    BY <1>5 DEF StreamOK, OrderOK
  <2>2. \A i \in 1 .. Len(app) : \A k \in 1 .. i - 1 : k \in 1 .. Len(app) /\ k < i
    BY <1>1 DEF FlowShape
  <2>3. \A i \in 1 .. Len(app) : \A k \in 1 .. i - 1 : app[k] < app[i]
    BY <1>5, <2>2 DEF StreamOK, OrderOK
  <2>. QED  BY <2>1, <2>3 DEF Fifo!InOrder
<1>7. ASSUME NEW b \in last + 1 .. app[Len(app)]
      PROVE  \/ \E i \in 1 .. Len(app) : app[i] = b
             \/ b \in lost
             \/ fresh /\ b < app[1]
  <2>1. /\ app[Len(app)] \in Nat /\ app[Len(app)] <= arrived /\ last \in Nat /\ arrived \in Nat
        /\ app[1] \in Nat /\ 1 \in 1 .. Len(app)
    <3>1. last \in Nat /\ arrived \in Nat
      BY CallsAssumption DEF TypeOK
    <3>2. 1 \in 1 .. Len(app)
      BY <1>1, <1>4 DEF FlowShape
    <3>3. app[Len(app)] <= arrived
      BY <1>4, <1>5 DEF StreamOK, OrderOK
    <3>. QED  BY <1>4, <1>5, <3>1, <3>2, <3>3
  <2>2. b \in last + 1 .. arrived /\ b <= app[Len(app)] /\ b \in Nat
    BY <2>1
  <2>3. CASE \E i \in 1 .. Len(Flow) : Flow[i] = b
    <3>1. PICK i \in 1 .. Len(Flow) : Flow[i] = b
      BY <2>3
    <3>2. CASE i \in 1 .. Len(app)
      BY <1>5, <3>1, <3>2
    <3>3. CASE i \notin 1 .. Len(app)
      <4>1. Len(app) < i
        BY <1>1, <3>3 DEF FlowShape
      <4>2. Flow[Len(app)] < Flow[i]
        BY <1>4, <1>5, <3>1, <4>1 DEF StreamOK, OrderOK
      <4>. QED  BY <1>4, <1>5, <2>1, <2>2, <3>1, <4>2
    <3>. QED  BY <3>2, <3>3
  <2>4. CASE ReportedBefore /\ InFront(b)
    BY <1>2, <1>5, <2>1, <2>4 DEF ReportedBefore, InFront
  <2>5. CASE ReportedAfter /\ Between(b)
    <3>1. Flow[Len(app)] < b
      BY <1>1, <1>4, <1>5, <2>5 DEF Between, FlowShape
    <3>. QED  BY <1>4, <1>5, <2>1, <2>2, <3>1
  <2>. QED  BY <2>2, <2>3, <2>4, <2>5 DEF StreamOK, Accounted
<1>8. last' = app[Len(app)] /\ fresh' = FALSE /\ UNCHANGED <<arrived, lost>>
  BY <1>4 DEF ReceiveDone
<1>. QED  BY <1>4, <1>6, <1>7, <1>8 DEF Fifo!Deliver, Fifo!NoGap

\* A receive error, and a byte that finds the peripheral full: bytes behind
\* the last one handed over are lost.
LEMMA Lost ==
  ASSUME IInv, IrqEnter \/ Arrive
  PROVE  Fifo!Arrive \/ Fifo!Lose \/ UNCHANGED Fifo!fifo
<1>. USE DEF IInv
<1>1. arrived \in Nat /\ last \in Nat /\ last <= arrived /\ UNCHANGED <<last, fresh>>
  BY CallsAssumption DEF TypeOK, StreamOK, OrderOK, IrqEnter, Arrive
<1>2. CASE Arrive
  <2>1. CASE Len(rxFifo) < FifoDepth
    BY <1>1, <1>2, <2>1 DEF Arrive, Fifo!Arrive
  <2>2. CASE ~(Len(rxFifo) < FifoDepth)
    <3>1. arrived' = arrived + 1 /\ lost' = lost \cup {arrived + 1}
      BY <1>2, <2>2 DEF Arrive
    <3>2. arrived + 1 \in last + 1 .. arrived + 1
      BY <1>1
    <3>3. lost' \subseteq lost \cup last + 1 .. arrived'
      BY <3>1, <3>2
    <3>. QED  BY <1>1, <3>1, <3>3 DEF Fifo!Lose
  <2>. QED  BY <2>1, <2>2
<1>3. CASE IrqEnter /\ rxerr
  <2>1. arrived' = arrived /\ lost' = lost \cup {rxFifo[i] : i \in 1 .. Len(rxFifo)}
    BY <1>3 DEF IrqEnter
  <2>2. ASSUME NEW i \in 1 .. Len(rxFifo)
        PROVE  rxFifo[i] \in last + 1 .. arrived
    <3>1. FlowShape
      BY FlowHas
    <3>2. PICK n \in Nat : n = Len(app) + Len(Ring) + i
      BY <3>1 DEF FlowShape
    <3>3. n \in 1 .. Len(Flow) /\ Flow[n] = rxFifo[i] /\ Flow[n] \in Nat
      <4>1. /\ n \in 1 .. Len(Flow) /\ n > Len(app) /\ n > Len(app) + Len(Ring)
            /\ n - Len(app) - Len(Ring) = i
        BY <3>1, <3>2 DEF FlowShape
      <4>. QED  BY <3>1, <4>1 DEF FlowShape
    <3>4. last < Flow[n] /\ Flow[n] <= arrived
      BY <3>3 DEF StreamOK, OrderOK
    <3>. QED  BY <1>1, <3>3, <3>4
  <2>3. lost' \subseteq lost \cup last + 1 .. arrived'
    BY <2>1, <2>2
  <2>. QED  BY <1>1, <2>1, <2>3 DEF Fifo!Lose
<1>4. CASE IrqEnter /\ ~rxerr
  BY <1>4 DEF IrqEnter, Fifo!fifo
<1>. QED  BY <1>2, <1>3, <1>4

LEMMA StepFifo == IInv /\ [Next]_vars => [Fifo!Next]_(Fifo!fifo)
<1>. SUFFICES ASSUME IInv, [Next]_vars  PROVE Fifo!Next \/ UNCHANGED Fifo!fifo
  OBVIOUS
<1>1. CASE ReceiveDone
  BY <1>1, Delivery DEF Fifo!Next
<1>2. CASE ReceiveClear
  BY <1>2 DEF ReceiveClear, Fifo!Report, Fifo!Next
<1>3. CASE IrqEnter \/ Arrive
  BY <1>3, Lost DEF Fifo!Next
<1>4. CASE \/ ReceiveCall \/ ReceiveCallback \/ ReceiveWait \/ ReceiveAbort
           \/ Sender \/ IrqLoop \/ IrqExit \/ Daemon \/ Shift \/ UNCHANGED vars
  <2>1. UNCHANGED seen
    BY <1>4, Zenon DEF ReceiveCall, ReceiveCallback, ReceiveWait, ReceiveAbort, Sender, SendCall,
       SendBusy, SendEnable, SendWait, SendReturn, IrqLoop, IrqExit, Daemon, Shift, vars
  <2>. QED  BY <2>1 DEF seen, Fifo!fifo
<1>. QED  BY <1>1, <1>2, <1>3, <1>4, Zenon DEF Next, Receiver, Handler

\* The driver implements ReportingFifo: a task gets the bytes of the wire in
\* order, none twice, and every gap the ring buffer makes is reported between
\* the bytes before it and the bytes behind it.
THEOREM Refinement == Spec => ImplementsReportingFifo
<1>1. Init => Fifo!Init
  BY DEF Init, Fifo!Init
<1>. QED  BY <1>1, Invariant, StepFifo, PTL DEF Spec, ImplementsReportingFifo, Fifo!Spec

=============================================================================
