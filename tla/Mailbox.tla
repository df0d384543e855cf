------------------------------ MODULE Mailbox ------------------------------
(***************************************************************************)
(* What the Wi-Fi receive buffer promises to the code that reads answers   *)
(* from it: a mailbox with room for one message.  A message, once sealed,  *)
(* keeps its contents until the reader discards it, and is never replaced  *)
(* or withdrawn while the reader is looking at it.                         *)
(***************************************************************************)
EXTENDS Naturals

CONSTANTS Cells,    \* what a message is made of
          MaxLen    \* the longest message

VARIABLES full,     \* a sealed message is there
          message,  \* its contents
          reading   \* the reader is looking at it

mailbox == <<full, message, reading>>

Lengths    == 0 .. MaxLen
NoMessage  == [i \in {} |-> 0]

Init == ~full /\ message = NoMessage /\ ~reading

\* The writer completes a message.
Seal == /\ ~full
        /\ full'
        /\ \E n \in Lengths : message' \in [{i \in Lengths : i < n} -> Cells]
        /\ UNCHANGED reading

\* The reader finds a message and looks at it.
Look == full /\ ~reading /\ reading' /\ UNCHANGED <<full, message>>

\* The reader has what it wanted; the message stays.
Keep == full /\ reading /\ ~reading' /\ UNCHANGED <<full, message>>

\* The reader throws the message away.
Discard == full /\ ~full' /\ message' = NoMessage /\ ~reading'

Next == Seal \/ Look \/ Keep \/ Discard
Spec == Init /\ [][Next]_mailbox
=============================================================================
