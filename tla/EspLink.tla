------------------------------ MODULE EspLink ------------------------------
(***************************************************************************)
(* The Wi-Fi link of the IoT device: the two FreeRTOS tasks that share     *)
(* WiFi_RX_STA, WiFi_RX_BUF and data_end_flag without a lock.              *)
(*                                                                         *)
(*  - the RECEIVER is wifi_dataProcess_task (freertos_usart.c): it takes   *)
(*    bytes from the USART ring buffer and assembles a message;            *)
(*  - the SENDER is whichever code calls esp32_send_cmd/esp32_send_data    *)
(*    (esp32.c): it clears the message, sends a command and polls for an   *)
(*    answer until a countdown ends;                                       *)
(*  - the ESP32 module at the other end of the wire is external.           *)
(*                                                                         *)
(* The tasks have the same priority and are preempted by interrupts and    *)
(* higher-priority tasks, so they interleave at every access to a shared   *)
(* word: `WiFi_RX_STA++` and `WiFi_RX_STA |= 1<<15` are a load and a store *)
(* in two steps.  Bytes are abstracted to symbols; each carries, as        *)
(* history, the number of the command the ESP32 was answering (src), its   *)
(* place on the wire (no) and the number of acknowledgements on the wire   *)
(* up to it (ack).  The wire is what the peripheral hands to the driver; a *)
(* byte its own FIFO loses (module UsartRing) is none of it.               *)
(***************************************************************************)
EXTENDS Naturals, Sequences, FiniteSets

CONSTANTS
  MaxLen,     \* WiFi_MAX_RECV_LEN, the size of WiFi_RX_BUF
  RingCap,    \* bytes the USART ring buffer holds
  Commands,   \* the commands the sender may send, see CommandOK
  Replies,    \* Replies[m]: what the ESP32 may answer to a mode m command
  MaxCmds     \* bound: commands sent in a behaviour

Symbols == {"OK", "ERROR", "nl", "rb", "x"}   \* rb is '}', x any other byte
CommandOK(c) == /\ c.mode \in {1, 2}
                /\ c.ack \in {"OK", "rb", "none"}
                /\ c.wait \in Nat

ASSUME SizeAssumption == MaxLen \in Nat \ {0} /\ RingCap \in Nat \ {0}
ASSUME CommandAssumption ==
  /\ MaxCmds \in Nat
  /\ Commands \subseteq [mode : {1, 2}, ack : {"OK", "rb", "none"}, wait : Nat]
  /\ \A m \in {1, 2} : Replies[m] \subseteq Seq(Symbols)

VARIABLES
  WiFi_RX_STA,             \* bit 15 (fin) and the 15-bit length (len)
  WiFi_RX_BUF,             \* the array, with the byte behind it at MaxLen
  data_end_flag,           \* 1: a line ends a message, 2: '}' does
  start_receive_data_flag,
  wifi_initialize_finish_flag,
  rxPc, rxByte, rxMode, rxReg,       \* the receiver task
  txPc, cmd, waittime, res,          \* the sender task
  ring, overrun,                     \* USART ring buffer, its overrun event
  esp, out,                          \* ESP32: commands to answer, bytes to send
  sent, acked, abandoned, deadAtStart, \* history: the calls, see TxStart
  wired, surplus, since              \* history: the wire, the last clear

shared  == <<WiFi_RX_STA, WiFi_RX_BUF, data_end_flag>>
flags   == <<start_receive_data_flag, wifi_initialize_finish_flag>>
rxVars  == <<rxPc, rxByte, rxMode, rxReg>>
txVars  == <<txPc, cmd, waittime, res>>
espVars == <<esp, out>>
calls   == <<sent, acked, abandoned, deadAtStart>>
wire    == <<wired, surplus>>
history == <<calls, wire, since>>
vars == <<shared, flags, rxVars, txVars, ring, overrun, espVars, history>>

Tags  == 0 .. MaxCmds
AckSymbols == {"OK", "rb"}            \* what a call may wait for
Byte  == [sym : Symbols, src : Tags, no : Nat, ack : Nat]
NUL   == [sym |-> "NUL", src |-> 0, no |-> 0, ack |-> 0]
Cell  == Byte \cup {NUL}
Empty == [fin |-> FALSE, len |-> 0]
Behind == [sym |-> "x", src |-> 0, no |-> 0, ack |-> 0]   \* the byte of the variable behind the array
NoCmd == [mode |-> 1, ack |-> "none", wait |-> 0]

\* strstr(WiFi_RX_BUF, s): s occurs before the first NUL.
FoundAt(buf, s, i) ==
  buf[i].sym = s /\ \A j \in 0 .. i : buf[j].sym # "NUL"
Contains(buf, s) == \E i \in 0 .. MaxLen : FoundAt(buf, s, i)

FirstAt(buf, s, i) ==
  FoundAt(buf, s, i) /\ \A j \in 0 .. MaxLen : FoundAt(buf, s, j) => i <= j

Init ==
  /\ WiFi_RX_STA = Empty
  /\ WiFi_RX_BUF = [i \in 0 .. MaxLen |-> IF i < MaxLen THEN NUL ELSE Behind]
  /\ data_end_flag = 1
  /\ start_receive_data_flag = FALSE
  /\ wifi_initialize_finish_flag = FALSE
  /\ rxPc = "init" /\ rxByte = NUL /\ rxMode = 1 /\ rxReg = 0
  /\ txPc = "off" /\ cmd = NoCmd /\ waittime = 0 /\ res = 0
  /\ ring = <<>> /\ overrun = FALSE
  /\ esp = <<>> /\ out = <<>>
  /\ sent = 0 /\ acked = 0 /\ abandoned = 0 /\ deadAtStart = FALSE
  /\ wired = [bytes |-> 0, acks |-> 0] /\ surplus = 0 /\ since = 0

-----------------------------------------------------------------------------
(* The receiver: wifi_dataProcess_task.                                    *)

RxInit ==
  /\ rxPc = "init"
  /\ rxPc' = "recv"
  /\ wifi_initialize_finish_flag' = TRUE
  /\ UNCHANGED <<shared, start_receive_data_flag, rxByte, rxMode, rxReg,
                 txVars, ring, overrun, espVars, history>>

\* USART_RTOS_Receive reports a ring buffer overrun: the task suspends
\* itself, and nobody resumes it.
RxOverrun ==
  /\ rxPc = "recv" /\ overrun
  /\ overrun' = FALSE
  /\ rxPc' = "dead"
  /\ UNCHANGED <<shared, flags, rxByte, rxMode, rxReg, txVars, ring,
                 espVars, history>>

\* One byte is received; the branch is chosen by data_end_flag.
RxReceive ==
  /\ rxPc = "recv" /\ ~overrun /\ ring # <<>>
  /\ ring' = Tail(ring)
  /\ rxByte' = Head(ring)
  /\ rxMode' = data_end_flag
  /\ rxPc' = IF start_receive_data_flag THEN "test" ELSE "recv"
  /\ UNCHANGED <<shared, flags, rxReg, txVars, overrun, espVars, history>>

\* The finished test, the bound test and the load of WiFi_RX_STA++.  The
\* operators marked "mutant" are the programming errors the checks must notice.
FinishedTestMissing == FALSE                       \* mutant
FinishedTest == WiFi_RX_STA.fin
RoomTestOffByOne == WiFi_RX_STA.len <= MaxLen      \* mutant
RoomTest == WiFi_RX_STA.len < MaxLen

RxTest ==
  /\ rxPc = "test"
  /\ \/ /\ FinishedTest
        /\ rxPc' = "recv"
        /\ UNCHANGED rxReg
     \/ /\ ~FinishedTest /\ RoomTest
        /\ rxReg' = WiFi_RX_STA.len
        /\ rxPc' = "store"
     \/ /\ ~FinishedTest /\ ~RoomTest
        /\ rxPc' = "mark"
        /\ UNCHANGED rxReg
  /\ UNCHANGED <<shared, flags, rxByte, rxMode, txVars, ring, overrun,
                 espVars, history>>

\* The store of WiFi_RX_STA++; rxReg keeps the index it was loaded with.
RxStore ==
  /\ rxPc = "store"
  /\ WiFi_RX_STA' = [fin |-> FALSE, len |-> rxReg + 1]
  /\ rxPc' = "write"
  /\ UNCHANGED <<WiFi_RX_BUF, data_end_flag, flags, rxByte, rxMode, rxReg,
                 txVars, ring, overrun, espVars, history>>

\* The index of WiFi_RX_BUF[WiFi_RX_STA++].
WriteIndexPreIncrement == rxReg + 1                \* mutant
WriteIndex == rxReg

\* WiFi_RX_BUF[i] = byte, and the test for the byte that may end a message.
RxWrite ==
  /\ rxPc = "write"
  /\ WiFi_RX_BUF' = [WiFi_RX_BUF EXCEPT ![WriteIndex] = rxByte]
  /\ rxPc' = CASE rxMode = 1 /\ rxByte.sym = "nl" -> "term"
               [] rxMode = 2 /\ rxByte.sym = "rb" -> "mark"
               [] OTHER -> "recv"
  /\ UNCHANGED <<WiFi_RX_STA, data_end_flag, flags, rxByte, rxMode, rxReg,
                 txVars, ring, overrun, espVars, history>>

\* End of a line: terminate the text where WiFi_RX_STA points, look for an
\* answer in it.
RxTerm ==
  /\ rxPc = "term"
  /\ WiFi_RX_BUF' = [WiFi_RX_BUF EXCEPT ![WiFi_RX_STA.len] = NUL]
  /\ rxPc' = IF Contains(WiFi_RX_BUF', "OK") \/ Contains(WiFi_RX_BUF', "ERROR")
             THEN "mark" ELSE "recv"
  /\ UNCHANGED <<WiFi_RX_STA, data_end_flag, flags, rxByte, rxMode, rxReg,
                 txVars, ring, overrun, espVars, history>>

\* The load and the store of WiFi_RX_STA |= 1<<15.
RxMarkLoad ==
  /\ rxPc = "mark"
  /\ rxReg' = WiFi_RX_STA.len
  /\ rxPc' = "markStore"
  /\ UNCHANGED <<shared, flags, rxByte, rxMode, txVars, ring, overrun,
                 espVars, history>>

RxMarkStore ==
  /\ rxPc = "markStore"
  /\ WiFi_RX_STA' = [fin |-> TRUE, len |-> rxReg]
  /\ rxPc' = "recv"
  /\ UNCHANGED <<WiFi_RX_BUF, data_end_flag, flags, rxByte, rxMode, rxReg,
                 txVars, ring, overrun, espVars, history>>

\* Behind a torn transmission (see TxSend) no task runs any more.
Receiver == /\ txPc # "torn"
            /\ \/ RxInit \/ RxOverrun \/ RxReceive \/ RxTest \/ RxStore
               \/ RxWrite \/ RxTerm \/ RxMarkLoad \/ RxMarkStore

-----------------------------------------------------------------------------
(* The sender: esp32_send_cmd (mode 1) and esp32_send_data (mode 2).       *)

\* wifi_dataSend_task waits for the USART and opens the receive path.
TxEnable ==
  /\ txPc = "off" /\ wifi_initialize_finish_flag
  /\ start_receive_data_flag' = TRUE
  /\ txPc' = "idle"
  /\ UNCHANGED <<shared, wifi_initialize_finish_flag, rxVars, cmd, waittime,
                 res, ring, overrun, espVars, history>>

\* WiFi_RX_STA = 0.  since is the first byte that comes behind the clear: the
\* one in the receiver's hand, if it has not looked for room yet, or the next.
\* It is 0 if the receiver is about to store a length it loaded before.
ClearForgotten == since' = rxByte.no + 1 /\ UNCHANGED WiFi_RX_STA  \* mutant
Clear == /\ WiFi_RX_STA' = Empty
         /\ since' = CASE rxPc \in {"store", "markStore"} -> 0
                      [] rxPc = "test" -> rxByte.no
                      [] OTHER         -> rxByte.no + 1

\* A call: res = 0, WiFi_RX_STA = 0.
TxStart ==
  /\ txPc = "idle" /\ sent < MaxCmds
  /\ \E c \in Commands : cmd' = c
  /\ sent' = sent + 1
  /\ res' = 0
  /\ Clear
  /\ acked' = 0
  /\ deadAtStart' = (rxPc = "dead")
  /\ txPc' = "mode"
  /\ UNCHANGED <<WiFi_RX_BUF, data_end_flag, flags, rxVars, waittime, ring,
                 overrun, espVars, abandoned, wire>>

TxMode ==
  /\ txPc = "mode"
  /\ data_end_flag' = cmd.mode
  /\ txPc' = "send"
  /\ UNCHANGED <<WiFi_RX_STA, WiFi_RX_BUF, flags, rxVars, cmd, waittime, res,
                 ring, overrun, espVars, history>>

\* USART_RTOS_Send, and the test of (ack && waittime).  The transmission may be
\* torn by an interrupt (module UsartRing, fsl_usart.c:587): then the call does
\* not return, and the processor stays in the interrupt handler.
TxSend ==
  /\ txPc = "send"
  /\ esp' = Append(esp, [id |-> sent, mode |-> cmd.mode])
  /\ waittime' = cmd.wait
  /\ \/ txPc' = "torn" /\ UNCHANGED abandoned
     \/ /\ cmd.ack # "none" /\ cmd.wait # 0
        /\ txPc' = "wait" /\ UNCHANGED abandoned
     \/ /\ ~(cmd.ack # "none" /\ cmd.wait # 0)
        /\ txPc' = "idle" /\ abandoned' = abandoned + 1
  /\ UNCHANGED <<shared, flags, rxVars, cmd, res, ring, overrun, out,
                 sent, acked, deadAtStart, wire, since>>

\* --waittime
CountDownForgotten == waittime                     \* mutant
CountDown == waittime - 1

\* while (--waittime) vTaskDelay(..): one round of the countdown, or its end.
TxTick ==
  /\ txPc = "wait"
  /\ waittime' = CountDown
  /\ IF CountDown = 0
     THEN txPc' = "idle" /\ res' = 1 /\ abandoned' = abandoned + 1
     ELSE txPc' = "poll" /\ UNCHANGED <<res, abandoned>>
  /\ UNCHANGED <<shared, flags, rxVars, cmd, ring, overrun, espVars,
                 sent, acked, deadAtStart, wire, since>>

TxPoll ==
  /\ txPc = "poll"
  /\ txPc' = IF WiFi_RX_STA.fin THEN "check" ELSE "wait"
  /\ UNCHANGED <<shared, flags, rxVars, cmd, waittime, res, ring, overrun,
                 espVars, history>>

\* esp32_check_cmd(ack): terminate the message, search it.
TxCheck ==
  /\ txPc = "check"
  /\ WiFi_RX_BUF' = IF WiFi_RX_STA.fin
                    THEN [WiFi_RX_BUF EXCEPT ![WiFi_RX_STA.len] = NUL]
                    ELSE WiFi_RX_BUF
  /\ \/ \E i \in 0 .. MaxLen :
          /\ WiFi_RX_STA.fin /\ FirstAt(WiFi_RX_BUF', cmd.ack, i)
          /\ acked' = WiFi_RX_BUF'[i].src
          /\ txPc' = "idle"
     \/ /\ ~(WiFi_RX_STA.fin /\ Contains(WiFi_RX_BUF', cmd.ack))
        /\ txPc' = "reset"
        /\ UNCHANGED acked
  /\ UNCHANGED <<WiFi_RX_STA, data_end_flag, flags, rxVars, cmd, waittime,
                 res, ring, overrun, espVars, sent, abandoned, deadAtStart,
                 wire, since>>

TxReset ==
  /\ txPc = "reset"
  /\ Clear
  /\ txPc' = "wait"
  /\ UNCHANGED <<WiFi_RX_BUF, data_end_flag, flags, rxVars, cmd, waittime,
                 res, ring, overrun, espVars, calls, wire>>

Sender == \/ TxEnable \/ TxStart \/ TxMode \/ TxSend \/ TxTick \/ TxPoll
          \/ TxCheck \/ TxReset

-----------------------------------------------------------------------------
(* The ESP32 and the USART interrupt.                                      *)

\* Acknowledgements among the first i bytes of r, and those that an answer has
\* beyond one.
Acks(r, i) == Cardinality({k \in 1 .. i : r[k] \in AckSymbols})
Excess(r)  == IF Acks(r, Len(r)) > 1 THEN Acks(r, Len(r)) - 1 ELSE 0

\* The ESP32 decides its answer to the oldest command (<<>>: none).
EspAnswer ==
  /\ esp # <<>> /\ out = <<>>
  /\ \E r \in Replies[Head(esp).mode] :
       /\ out' = [i \in 1 .. Len(r) |->
                    [sym |-> r[i], src |-> Head(esp).id,
                     no |-> wired.bytes + i, ack |-> wired.acks + Acks(r, i)]]
       /\ wired' = [bytes |-> wired.bytes + Len(r),
                    acks |-> wired.acks + Acks(r, Len(r))]
       /\ surplus' = surplus + Excess(r)
  /\ esp' = Tail(esp)
  /\ UNCHANGED <<shared, flags, rxVars, txVars, ring, overrun, calls, since>>

\* The interrupt handler puts a byte in the ring, over the oldest byte and
\* with an overrun event if the ring is full.
UsartIsr ==
  /\ out # <<>>
  /\ out' = Tail(out)
  /\ IF Len(ring) < RingCap
     THEN ring' = Append(ring, Head(out)) /\ UNCHANGED overrun
     ELSE ring' = Append(Tail(ring), Head(out)) /\ overrun' = TRUE
  /\ UNCHANGED <<shared, flags, rxVars, txVars, esp, history>>

Next == Receiver \/ Sender \/ EspAnswer \/ UsartIsr

\* The scheduler runs both tasks again and again: every step of a call and of
\* the receiver is taken.  A caller need not make another call, and neither
\* the ESP32 nor the wire promises anything.
Fairness == /\ WF_vars(Receiver)
            /\ WF_vars(TxMode \/ TxSend \/ TxTick \/ TxPoll \/ TxCheck \/ TxReset)

Spec == Init /\ [][Next]_vars
FairSpec == Spec /\ Fairness

-----------------------------------------------------------------------------
(* Properties.                                                             *)

RxPcs == {"init", "recv", "test", "store", "write", "term", "mark",
          "markStore", "dead"}
TxPcs == {"off", "idle", "mode", "send", "wait", "poll", "check", "reset", "torn"}

\* Types and ranges: the length never passes the size of the buffer, and the
\* receiver never writes behind it through its own index.
TypeOK ==
  /\ WiFi_RX_STA \in [fin : BOOLEAN, len : 0 .. MaxLen]
  /\ WiFi_RX_BUF \in [0 .. MaxLen -> Cell]
  /\ data_end_flag \in {1, 2}
  /\ start_receive_data_flag \in BOOLEAN
  /\ wifi_initialize_finish_flag \in BOOLEAN
  /\ rxPc \in RxPcs /\ rxByte \in Cell /\ rxMode \in {1, 2}
  /\ rxReg \in 0 .. MaxLen
  /\ rxPc \in {"store", "write"} => rxReg < MaxLen
  /\ txPc \in TxPcs /\ CommandOK(cmd) /\ waittime \in Nat /\ res \in {0, 1}
  /\ txPc \in {"wait", "poll", "check", "reset"} => waittime > 0
  /\ ring \in Seq(Byte) /\ Len(ring) <= RingCap /\ overrun \in BOOLEAN
  /\ esp \in Seq([id : Tags, mode : {1, 2}]) /\ out \in Seq(Byte)
  /\ sent \in Tags /\ acked \in Tags
  /\ abandoned \in Nat /\ deadAtStart \in BOOLEAN
  /\ wired \in [bytes : Nat, acks : Nat] /\ surplus \in Nat /\ since \in Nat

\* Hand-over of the buffer without a lock (freertos_usart.c:542,565 and
\* esp32.c:41,76): while bit 15 is set the receiver is outside the code that
\* writes WiFi_RX_STA and WiFi_RX_BUF, and between the sender's poll and its
\* reset the bit stays set.  So the sender alone touches a finished message.
BufferOwnership ==
  /\ WiFi_RX_STA.fin => rxPc \in {"recv", "test", "dead"}
  /\ txPc \in {"check", "reset"} => WiFi_RX_STA.fin

\* The text of a finished message (esp32.c:18-19, the response parsers) is a
\* stretch of the wire: the bytes below the length came one directly behind the
\* other, none is missing, doubled, swapped or NUL, although WiFi_RX_STA is
\* cleared by one task while the other increments it, and the ring may overrun.
MessageContiguous ==
  WiFi_RX_STA.fin =>
    \A i \in 0 .. MaxLen :
      i < WiFi_RX_STA.len => /\ WiFi_RX_BUF[i] # NUL
                             /\ WiFi_RX_BUF[i].no = WiFi_RX_BUF[0].no + i

\* A finished message has no byte from before the last WiFi_RX_STA = 0
\* (esp32.c:29, 53, 68, 84).  Only a clear that falls between a load of the
\* length and its store is lost (freertos_usart.c:546, 552, 569, 577): then the
\* message begins with the remains of the last one (since = 0).
MessageIsNew ==
  WiFi_RX_STA.fin =>
    \A i \in 0 .. MaxLen : i < WiFi_RX_STA.len => since <= WiFi_RX_BUF[i].no

\* How stale an accepted answer can be (esp32.c:41-46, 76-82: nothing ties an
\* answer to a command): it answers a command at most as many calls back as
\* were abandoned (timed out, or sent without waiting) and as answers had
\* acknowledgements beyond their first.  So nothing acknowledges two calls.
AnswerLag == acked # 0 => sent <= acked + abandoned + surplus

\* A call that begins after the receiver task suspended itself on an overrun
\* (freertos_usart.c:529-533) and that waits for an answer reports a time-out:
\* what the dead receiver left in the buffer is never taken for an answer.
DeadMeansTimeout ==
  deadAtStart /\ txPc = "idle" /\ cmd.ack # "none" /\ cmd.wait # 0 => res = 1

\* Every call returns (esp32.c:38, 73: the countdown), whether or not the
\* ESP32 answers and even when the receiver task is suspended for ever, unless
\* its transmission was torn (fsl_usart.c:587, see TxSend).
CallReturns == txPc \notin {"off", "idle"} ~> txPc \in {"idle", "torn"}

\* The buffer and its finished bit implement a one-message mailbox (Mailbox):
\* the sender is its reader from the poll that finds bit 15 set to the end of
\* esp32_check_cmd or to the reset.
Message == IF WiFi_RX_STA.fin
           THEN [i \in {k \in 0 .. MaxLen : k < WiFi_RX_STA.len} |-> WiFi_RX_BUF[i]]
           ELSE [i \in {} |-> 0]
MB == INSTANCE Mailbox WITH Cells <- Cell, full <- WiFi_RX_STA.fin,
                            message <- Message,
                            reading <- txPc \in {"check", "reset"}
ImplementsMailbox == MB!Spec
=============================================================================
