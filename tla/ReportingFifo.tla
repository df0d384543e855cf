--------------------------- MODULE ReportingFifo ---------------------------
(***************************************************************************)
(* What the USART driver's receive path promises to a task: the bytes of   *)
(* the wire in their order, and no gap that is not reported.  Bytes are    *)
(* named by their position on the wire.  What the hardware itself loses    *)
(* (a full FIFO of the peripheral) is outside the promise: it is in lost.  *)
(***************************************************************************)
EXTENDS Naturals, Sequences

VARIABLES arrived,   \* bytes the wire has carried
          lost,      \* those of them the peripheral lost
          last,      \* the last byte handed to a task
          fresh,     \* an overrun was reported since
          buffer     \* the task's buffer, filled at the driver's leisure

fifo == <<arrived, lost, last, fresh>>

Init == arrived = 0 /\ lost = {} /\ last = 0 /\ ~fresh

Arrive == arrived' = arrived + 1 /\ UNCHANGED <<lost, last, fresh>>

\* The peripheral loses bytes, the arriving one included.
Lose == /\ arrived' \in {arrived, arrived + 1}
        /\ lost \subseteq lost' /\ lost' \subseteq lost \cup last + 1 .. arrived'
        /\ UNCHANGED <<last, fresh>>

\* The buffer may be handed over: it goes on behind the last byte in the order
\* of the wire; it leaves out only what the peripheral lost, and, right after
\* a report, what lies before its first byte.
InOrder == \A i \in 1 .. Len(buffer) :
             /\ last < buffer[i] /\ buffer[i] <= arrived
             /\ \A j \in 1 .. i - 1 : buffer[j] < buffer[i]
NoGap == \A b \in last + 1 .. buffer[Len(buffer)] :
            \/ \E i \in 1 .. Len(buffer) : buffer[i] = b
            \/ b \in lost
            \/ fresh /\ b < buffer[1]

Deliver == /\ buffer # <<>> /\ InOrder /\ NoGap
           /\ last' = buffer[Len(buffer)]
           /\ fresh' = FALSE
           /\ UNCHANGED <<arrived, lost>>

Report == fresh' = TRUE /\ UNCHANGED <<arrived, lost, last>>

Next == Arrive \/ Lose \/ Report \/ Deliver
Spec == Init /\ [][Next]_fifo
=============================================================================
