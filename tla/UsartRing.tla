----------------------------- MODULE UsartRing -----------------------------
(***************************************************************************)
(* One USART of the IoT device, as the tasks see it: the interrupt-driven  *)
(* transfers of fsl_usart.c (ring buffer, pending request, transmission)   *)
(* under the blocking calls of fsl_usart_freertos.c.                       *)
(*                                                                         *)
(*  - a RECEIVER task calls USART_RTOS_Receive, a SENDER task calls        *)
(*    USART_RTOS_Send (the device has one of each per USART);              *)
(*  - the INTERRUPT handler moves bytes between the peripheral's FIFOs,    *)
(*    the ring buffer and the tasks' buffers;                              *)
(*  - it wakes the tasks through event bits that it may not set itself:    *)
(*    xEventGroupSetBitsFromISR queues a request for the timer DAEMON;     *)
(*  - the peripheral and the wire are external.                            *)
(*                                                                         *)
(* Priorities: the daemon has the highest task priority (4, the drivers'   *)
(* tasks have 3), so a task runs only when the interrupt handler is not    *)
(* active and no request is queued.  Received bytes are named by their     *)
(* position on the wire; bytes to send are only counted.                   *)
(***************************************************************************)
EXTENDS Naturals, Sequences, FiniteSets

CONSTANTS
  RingSize,     \* rxRingBufferSize
  FifoDepth,    \* cells of the peripheral's two FIFOs
  QueueLength,  \* configTIMER_QUEUE_LENGTH (10)
  ReqSizes,     \* lengths asked of USART_RTOS_Receive
  SendSizes,    \* lengths given to USART_RTOS_Send
  MaxBytes,     \* bound: bytes on the receive wire
  MaxSends      \* bound: calls of USART_RTOS_Send

ASSUME SizesAssumption ==
  /\ RingSize \in Nat /\ RingSize > 1
  /\ FifoDepth \in Nat \ {0}
  /\ QueueLength \in Nat /\ QueueLength > 2
ASSUME CallsAssumption ==
  /\ ReqSizes \subseteq Nat \ {0} /\ SendSizes \subseteq Nat \ {0}
  /\ MaxBytes \in Nat /\ MaxSends \in Nat

VARIABLES
  cells, head, tail,             \* rxRingBuffer, rxRingBufferHead, ...Tail
  rxDataSize, rxState, app,      \* pending request; app: the task's buffer
  txDataSize, txState,           \* bytes still to hand to the peripheral
  rxFifo, rxerr,                 \* peripheral: received bytes, RXERR
  txFifo, txlvl, txidle,         \* bytes not on the wire; enabled interrupts
  irq,                           \* the handler: "off" or "loop"
  pend,                          \* requests queued for the timer daemon
  bits,                          \* rxEvent and txEvent
  rpc, rev,                      \* the receiver and the value of its wait
  spc, sends,                    \* the sender, and its calls so far
  arrived, lost, last, fresh,    \* history: see ReportingFifo
  torn, refused                  \* history: see IrqSend and IrqExit

ringVars == <<cells, head, tail>>
reqVars  == <<rxDataSize, rxState, app>>
txVars   == <<txDataSize, txState, txlvl, txidle>>
fifoVars == <<rxFifo, rxerr, txFifo>>
recvVars == <<rpc, rev>>
sendVars == <<spc, sends>>
seen     == <<arrived, lost, last, fresh>>
marks    == <<torn, refused>>
vars == <<ringVars, reqVars, txVars, fifoVars, irq, pend, bits, recvVars,
          sendVars, seen, marks>>

Index == 0 .. RingSize - 1
Group == {"rx", "tx"}
Bit   == {"COMPLETE", "OVERRUN"}
Request(g, b) == [group |-> g, bit |-> b]

Init ==
  /\ cells = [i \in Index |-> 0] /\ head = 0 /\ tail = 0
  /\ rxDataSize = 0 /\ rxState = "idle" /\ app = <<>>
  /\ txDataSize = 0 /\ txState = "idle" /\ txlvl = FALSE /\ txidle = FALSE
  /\ rxFifo = <<>> /\ rxerr = FALSE /\ txFifo = 0
  /\ irq = "off" /\ pend = <<>> /\ bits = [g \in Group |-> {}]
  /\ rpc = "idle" /\ rev = {}
  /\ spc = "idle" /\ sends = 0
  /\ arrived = 0 /\ lost = {} /\ last = 0 /\ fresh = FALSE
  /\ torn = FALSE /\ refused = FALSE

\* The levels that raise the interrupt (watermarks of one byte received, none
\* left to send); it preempts the daemon, and both preempt the tasks.
IrqRaised == \/ rxFifo # <<>> \/ rxerr
             \/ txFifo = 0 /\ (txlvl \/ txidle)

DaemonRuns == irq = "off" /\ ~IrqRaised
TaskRuns == DaemonRuns /\ pend = <<>>

\* USART_TransferGetRxRingBufferLength, USART_TransferIsRxRingBufferFull.
RingLength == IF tail > head THEN head + RingSize - tail ELSE head - tail
RingFullLate == RingLength = RingSize                          \* mutant
RingFull == RingLength = RingSize - 1
AdvanceLate(i) == IF i = RingSize THEN 0 ELSE i + 1            \* mutant
Advance(i) == IF i + 1 = RingSize THEN 0 ELSE i + 1
Pick2(a, b) == IF a < b THEN a ELSE b

\* xEventGroupSetBitsFromISR: the request is lost when the queue is full.
Post(q, r) == IF Len(q) < QueueLength THEN Append(q, r) ELSE q

-----------------------------------------------------------------------------
(* The receiver: USART_RTOS_Receive over the non-blocking receive.         *)

\* The copy from the ring buffer, with interrupts disabled; what is missing
\* is left to the handler as a pending request.
Oldest(k) == [i \in 1 .. k |-> cells[(tail + i - 1) % RingSize]]

\* What follows the copy: the callback, when nothing is missing.
NoCallback(missing) == "wait"                                  \* mutant
AfterCopy(missing) == IF missing = 0 THEN "callback" ELSE "wait"

ReceiveCall ==
  /\ TaskRuns /\ rpc = "idle" /\ rxState = "idle"
  /\ \E n \in ReqSizes : LET k == Pick2(n, RingLength) IN
       /\ app' = Oldest(k)
       /\ tail' = (tail + k) % RingSize
       /\ IF k < n THEN rxDataSize' = n - k /\ rxState' = "busy"
                   ELSE UNCHANGED <<rxDataSize, rxState>>
       /\ rpc' = AfterCopy(n - k)
  /\ UNCHANGED <<cells, head, txVars, fifoVars, irq, pend, bits, rev,
                 sendVars, seen, marks>>

\* Everything was in the ring: the callback of the non-blocking receive.
ReceiveCallback ==
  /\ TaskRuns /\ rpc = "callback"
  /\ pend' = Post(pend, Request("rx", "COMPLETE"))
  /\ rpc' = "wait"
  /\ UNCHANGED <<ringVars, reqVars, txVars, fifoVars, irq, bits, rev,
                 sendVars, seen, marks>>

\* xEventGroupWaitBits: with a bit set all are taken and cleared at once,
\* otherwise the task blocks (Daemon hands it the bits).
ReceiveWait ==
  /\ TaskRuns /\ rpc = "wait"
  /\ rpc' = IF bits["rx"] = {} THEN "blocked" ELSE "woken"
  /\ rev' = bits["rx"]
  /\ bits' = [bits EXCEPT !["rx"] = {}]
  /\ UNCHANGED <<ringVars, reqVars, txVars, fifoVars, irq, pend, sendVars,
                 seen, marks>>

\* The branch for an overrun comes first: it aborts the request.
OverrunSecond(ev) == "COMPLETE" \notin ev                      \* mutant
Overrun(ev) == "OVERRUN" \in ev

ReceiveAbort ==
  /\ TaskRuns /\ rpc = "woken" /\ Overrun(rev)
  /\ rxDataSize' = 0 /\ rxState' = "idle"
  /\ rpc' = "clear"
  /\ UNCHANGED <<ringVars, app, txVars, fifoVars, irq, pend, bits, rev,
                 sendVars, seen, marks>>

\* xEventGroupClearBits, and the return of the overrun with no byte received.
ReceiveClear ==
  /\ TaskRuns /\ rpc = "clear"
  /\ bits' = [bits EXCEPT !["rx"] = @ \ {"COMPLETE"}]
  /\ rpc' = "idle" /\ rev' = {} /\ app' = <<>>
  /\ fresh' = TRUE
  /\ UNCHANGED <<ringVars, rxDataSize, rxState, txVars, fifoVars, irq, pend,
                 sendVars, arrived, lost, last, marks>>

ReceiveDone ==
  /\ TaskRuns /\ rpc = "woken" /\ ~Overrun(rev)
  /\ rpc' = "idle" /\ rev' = {} /\ app' = <<>>
  /\ last' = IF app = <<>> THEN last ELSE app[Len(app)]
  /\ fresh' = FALSE
  /\ UNCHANGED <<ringVars, rxDataSize, rxState, txVars, fifoVars, irq, pend,
                 bits, sendVars, arrived, lost, marks>>

-----------------------------------------------------------------------------
(* The sender: USART_RTOS_Send.  USART_TransferSendNonBlocking writes the  *)
(* handle and enables the interrupt without disabling interrupts, so the   *)
(* handler may run between its stores.                                     *)

SendCall ==
  /\ TaskRuns /\ spc = "idle" /\ sends < MaxSends /\ txState = "idle"
  /\ txDataSize' \in SendSizes
  /\ spc' = "sized" /\ sends' = sends + 1
  /\ UNCHANGED <<ringVars, reqVars, txState, txlvl, txidle, fifoVars, irq,
                 pend, bits, recvVars, seen, marks>>

SendBusy ==
  /\ TaskRuns /\ spc = "sized"
  /\ txState' = "busy"
  /\ spc' = "marked"
  /\ UNCHANGED <<ringVars, reqVars, txDataSize, txlvl, txidle, fifoVars, irq,
                 pend, bits, recvVars, sends, seen, marks>>

SendEnable ==
  /\ TaskRuns /\ spc = "marked"
  /\ txlvl' = TRUE
  /\ spc' = "wait"
  /\ UNCHANGED <<ringVars, reqVars, txDataSize, txState, txidle, fifoVars,
                 irq, pend, bits, recvVars, sends, seen, marks>>

SendWait ==
  /\ TaskRuns /\ spc = "wait"
  /\ spc' = IF bits["tx"] = {} THEN "blocked" ELSE "done"
  /\ bits' = [bits EXCEPT !["tx"] = {}]
  /\ UNCHANGED <<ringVars, reqVars, txVars, fifoVars, irq, pend, recvVars,
                 sends, seen, marks>>

SendReturn ==
  /\ TaskRuns /\ spc = "done"
  /\ spc' = "idle"
  /\ UNCHANGED <<ringVars, reqVars, txVars, fifoVars, irq, pend, bits,
                 recvVars, sends, seen, marks>>

-----------------------------------------------------------------------------
(* The interrupt handler: USART_TransferHandleIRQ and USART_RTOS_Callback. *)

\* A receive error empties the peripheral's FIFO; USART_RTOS_Callback has no
\* branch for it, so nobody is told.
IrqEnter ==
  /\ irq = "off" /\ IrqRaised
  /\ irq' = "loop"
  /\ IF rxerr THEN /\ rxerr' = FALSE /\ rxFifo' = <<>>
                   /\ lost' = lost \cup {rxFifo[i] : i \in 1 .. Len(rxFifo)}
              ELSE UNCHANGED <<rxerr, rxFifo, lost>>
  /\ UNCHANGED <<ringVars, reqVars, txVars, txFifo, pend, bits, recvVars,
                 sendVars, arrived, last, fresh, marks>>

CanReceive == rxFifo # <<>>
CanSend    == txDataSize > 0 /\ txFifo < FifoDepth

\* One byte for the pending request; the last one reports its completion.
ToRequest(b) ==
  /\ rxDataSize > 0
  /\ app' = Append(app, b)
  /\ rxDataSize' = rxDataSize - 1
  /\ IF rxDataSize = 1
       THEN rxState' = "idle" /\ pend' = Post(pend, Request("rx", "COMPLETE"))
       ELSE UNCHANGED <<rxState, pend>>
  /\ UNCHANGED ringVars

\* One byte for the ring buffer; a full one reports it and drops the oldest.
ToRing(b) ==
  /\ rxDataSize = 0
  /\ IF RingFull
       THEN tail' = Advance(tail) /\ pend' = Post(pend, Request("rx", "OVERRUN"))
       ELSE UNCHANGED <<tail, pend>>
  /\ cells' = [cells EXCEPT ![head] = b]
  /\ head' = Advance(head)
  /\ UNCHANGED reqVars

IrqReceive ==
  IF CanReceive
    THEN /\ \/ ToRequest(Head(rxFifo))
            \/ ToRing(Head(rxFifo))
         /\ rxFifo' = Tail(rxFifo)
    ELSE UNCHANGED <<ringVars, reqVars, pend, rxFifo>>

\* The last byte disables TXLVL and enables TXIDLE.
TxIdleOff == FALSE                                             \* mutant
LastByteTxIdle == TRUE

\* One byte for the peripheral.  torn: the last one was taken before the
\* sender had enabled the interrupt that does it.
IrqSend ==
  IF CanSend
    THEN /\ txFifo' = txFifo + 1
         /\ txDataSize' = txDataSize - 1
         /\ IF txDataSize = 1
              THEN /\ txlvl' = FALSE /\ txState' = "idle"
                   /\ txidle' = LastByteTxIdle
                   /\ torn' = (torn \/ spc \in {"sized", "marked"})
              ELSE UNCHANGED <<txlvl, txState, txidle, torn>>
    ELSE UNCHANGED <<txFifo, txVars, torn>>

IrqLoop ==
  /\ irq = "loop" /\ (CanReceive \/ CanSend)
  /\ IrqReceive /\ IrqSend
  /\ UNCHANGED <<rxerr, irq, bits, recvVars, sendVars, seen, refused>>

\* The handler ends with the test for a finished transmission.  refused: the
\* queue of the daemon was full of requests, and this one was lost.
HandedOver == txidle /\ txState = "idle"                        \* mutant
TxFinished == txidle /\ txFifo = 0 /\ txState = "idle"

IrqExit ==
  /\ irq = "loop" /\ ~CanReceive /\ ~CanSend
  /\ irq' = "off"
  /\ IF TxFinished
       THEN /\ txidle' = FALSE
            /\ pend' = Post(pend, Request("tx", "COMPLETE"))
            /\ refused' = (refused \/ Len(pend) = QueueLength)
       ELSE UNCHANGED <<txidle, pend, refused>>
  /\ UNCHANGED <<ringVars, reqVars, txDataSize, txState, txlvl, fifoVars,
                 bits, recvVars, sendVars, seen, torn>>

\* The timer daemon: xEventGroupSetBits hands the bits to a blocked task, and
\* clears them on its behalf; otherwise they stay for its next wait.
Daemon ==
  /\ DaemonRuns /\ pend # <<>>
  /\ pend' = Tail(pend)
  /\ LET g == Head(pend).group
         all == bits[g] \cup {Head(pend).bit}
         wakes == IF g = "rx" THEN rpc = "blocked" ELSE spc = "blocked"
     IN /\ bits' = [bits EXCEPT ![g] = IF wakes THEN {} ELSE all]
        /\ rpc' = IF wakes /\ g = "rx" THEN "woken" ELSE rpc
        /\ rev' = IF wakes /\ g = "rx" THEN all ELSE rev
        /\ spc' = IF wakes /\ g = "tx" THEN "done" ELSE spc
  /\ UNCHANGED <<ringVars, reqVars, txVars, fifoVars, irq, sends, seen, marks>>

-----------------------------------------------------------------------------
(* The peripheral and the wire.                                            *)

Arrive ==
  /\ arrived < MaxBytes
  /\ arrived' = arrived + 1
  /\ IF Len(rxFifo) < FifoDepth
       THEN rxFifo' = Append(rxFifo, arrived + 1) /\ UNCHANGED <<rxerr, lost>>
       ELSE /\ rxerr' = TRUE /\ lost' = lost \cup {arrived + 1}
            /\ UNCHANGED rxFifo
  /\ UNCHANGED <<ringVars, reqVars, txVars, txFifo, irq, pend, bits, recvVars,
                 sendVars, last, fresh, marks>>

Shift ==
  /\ txFifo > 0
  /\ txFifo' = txFifo - 1
  /\ UNCHANGED <<ringVars, reqVars, txVars, rxFifo, rxerr, irq, pend, bits,
                 recvVars, sendVars, seen, marks>>

Receiver == ReceiveCall \/ ReceiveCallback \/ ReceiveWait \/ ReceiveAbort
            \/ ReceiveClear \/ ReceiveDone
Sender  == SendCall \/ SendBusy \/ SendEnable \/ SendWait \/ SendReturn
Handler == IrqEnter \/ IrqLoop \/ IrqExit

Next == Receiver \/ Sender \/ Handler \/ Daemon \/ Arrive \/ Shift

Spec == Init /\ [][Next]_vars

\* The scheduler runs what may run: the handler, the daemon, and the two
\* tasks at their leisure; the peripheral shifts bytes out.  Nothing makes
\* the other end of the wire send, nor a task call.
Fairness ==
  /\ WF_vars(Handler) /\ WF_vars(Daemon) /\ WF_vars(Shift)
  /\ WF_vars(rpc # "idle" /\ Receiver)
  /\ WF_vars(spc # "idle" /\ Sender)

FairSpec == Spec /\ Fairness

-----------------------------------------------------------------------------
(* Properties.                                                             *)

TypeOK ==
  /\ cells \in [Index -> Nat] /\ head \in Index /\ tail \in Index
  /\ rxDataSize \in Nat /\ rxState \in {"idle", "busy"} /\ app \in Seq(Nat)
  /\ txDataSize \in Nat /\ txState \in {"idle", "busy"}
  /\ txlvl \in BOOLEAN /\ txidle \in BOOLEAN
  /\ rxFifo \in Seq(Nat) /\ Len(rxFifo) <= FifoDepth /\ rxerr \in BOOLEAN
  /\ txFifo \in 0 .. FifoDepth
  /\ irq \in {"off", "loop"}
  /\ pend \in Seq([group : Group, bit : Bit]) /\ Len(pend) <= QueueLength
  /\ bits \in [Group -> SUBSET Bit]
  /\ rpc \in {"idle", "callback", "wait", "blocked", "woken", "clear"}
  /\ rev \in SUBSET Bit
  /\ spc \in {"idle", "sized", "marked", "wait", "blocked", "done"}
  /\ sends \in 0 .. MaxSends
  /\ arrived \in 0 .. MaxBytes /\ lost \in SUBSET Nat /\ last \in Nat
  /\ fresh \in BOOLEAN /\ torn \in BOOLEAN /\ refused \in BOOLEAN

\* A task gets the bytes of the wire in order, none twice, and every gap that
\* the ring buffer makes is reported by a Receive between the bytes before it
\* and the bytes behind it, wherever the interrupt strikes.
Fifo == INSTANCE ReportingFifo WITH buffer <- app
ImplementsReportingFifo == Fifo!Spec

\* When USART_RTOS_Send returns, its bytes are on the wire and the handler
\* does not read the buffer any more, which the caller may free; and neither
\* call ever finds the transfer of an earlier one still in progress (the code
\* ignores that answer) unless a Send was torn.
TransfersEndWithCalls ==
  /\ spc \in {"idle", "done"} /\ ~torn =>
       txDataSize = 0 /\ txFifo = 0 /\ txState = "idle"
  /\ rpc = "idle" => rxState = "idle" /\ rxDataSize = 0

\* A Receive whose bytes are all there returns, though its completion may be
\* set by the handler at any moment of the call, unless a torn Send keeps the
\* processor in the handler.
FilledRequestReturns == rpc # "idle" /\ rxDataSize = 0 ~> rpc = "idle" \/ torn

\* A Send returns, unless the handler took its last byte before the interrupt
\* was enabled (torn), or the daemon's queue was full of overruns (refused).
SendReturns == spc # "idle" ~> spc = "idle" \/ torn \/ refused

\* fsl_usart.c:550 "When all data is written to the TX register in the IRQ
\* handler, the USART driver calls the callback function": a Send returns.
EverySendReturns == spc # "idle" ~> spc = "idle"
=============================================================================
