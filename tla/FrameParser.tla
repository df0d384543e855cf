---------------------------- MODULE FrameParser ----------------------------
(***************************************************************************)
(* The frames of the Bluetooth link and the automaton that finds them,     *)
(* which the device (serialDataProcess in freertos_usart.c) and the client *)
(* (serialDataProcess in DeviceFragment.java) both contain, statement for  *)
(* statement.  A frame: 07 41, function code, data length, data, 0A 0D.    *)
(* Bytes are numbers; the arrays functionCode and dataLength are kept as   *)
(* the byte not yet combined (hi) and the combined values (fc, length).    *)
(***************************************************************************)
EXTENDS Naturals, Sequences

\* sendMessgeToAndroid and sendMessageToMCU.
Frame(fc, data) ==
  <<7, 65, fc \div 256, fc % 256, Len(data) \div 256, Len(data) % 256>>
    \o data \o <<10, 13>>

States == {"none", "head_state1", "function_state1", "function_state2",
           "date_length1", "data_length2", "data_receive", "end1", "end2"}

\* The mark of a frame's start inside the frame m, at place at or behind it.
MarkBehind(m, at) == \E i \in at .. Len(m) - 1 : m[i] = 7 /\ m[i + 1] = 65

\* The automaton at its start, with an array dataReceive of size cells; index
\* is the code's i, reset only when the last byte of the data is stored; src
\* is history: the tags of the bytes it took since it was, in state none, at
\* the first byte of a frame.
Start(size) == [state |-> "none", hi |-> 0, fc |-> 0, length |-> 0,
                index |-> 0, data |-> [k \in 1 .. size |-> 0], src |-> {}]

To(p, s) == [p EXCEPT !.state = s]

\* Without the reset of i: a mutant.
StoreKeepsIndex(p, v) ==
  LET q == [p EXCEPT !.data[p.index + 1] = v, !.index = @ + 1]
  IN  IF q.index = p.length THEN To(q, "end1") ELSE q

\* dataReceive[i] = data and i++; with the last byte i is reset.
Store(p, v) ==
  LET q == [p EXCEPT !.data[p.index + 1] = v, !.index = @ + 1]
  IN  IF q.index = p.length THEN [To(q, "end1") EXCEPT !.index = 0] ELSE q

\* The next byte goes behind the array: nothing checks length against it.
Overflows(p) == p.state = "data_receive" /\ p.index >= Len(p.data)

\* serialDataProcess for a byte of value v.
ParseByte(p, v) ==
  CASE p.state = "none"            -> IF v = 7 THEN To(p, "head_state1") ELSE p
    [] p.state = "head_state1"     -> To(p, IF v = 65 THEN "function_state1"
                                                      ELSE "none")
    [] p.state = "function_state1" -> [To(p, "function_state2") EXCEPT !.hi = v]
    [] p.state = "function_state2" -> [To(p, "date_length1")
                                         EXCEPT !.fc = p.hi * 256 + v]
    [] p.state = "date_length1"    -> [To(p, "data_length2") EXCEPT !.hi = v]
    [] p.state = "data_length2"    -> [To(p, "data_receive")
                                         EXCEPT !.length = p.hi * 256 + v]
    [] p.state = "data_receive"    -> Store(p, v)
    [] p.state = "end1"            -> To(p, IF v = 10 THEN "end2" ELSE "none")
    [] p.state = "end2"            -> To(p, IF v = 13 THEN "none" ELSE "end2")

\* The same for a byte in flight, with the history of its tag.
Parse(p, b) ==
  [ParseByte(p, b.v) EXCEPT !.src = IF p.state = "none" /\ b.at = 1
                                      THEN {b.n} ELSE p.src \cup {b.n}]

\* The automaton answers data_success (2 in the client).
Success(p, b) == p.state = "end2" /\ b.v = 13

Parsers == [state : States, hi : Nat, fc : Nat, length : Nat, index : Nat,
            data : Seq(Nat), src : SUBSET Nat]

\* The loop around the automaton, over the bytes s: it stops behind a complete
\* frame, which is dispatched, and before a byte that overflows.
Progress(s) == [parser : Parsers, taken : 0 .. Len(s)]
Taking(s, x) == [parser |-> Parse(x.parser, s[x.taken + 1]), taken |-> x.taken + 1]
Ended(x, c) == [parser |-> x.parser, taken |-> x.taken, complete |-> c]

Run(start, s) ==
  LET loop[x \in Progress(s)] ==
        IF x.taken = Len(s) \/ Overflows(x.parser) THEN Ended(x, FALSE)
        ELSE IF Success(x.parser, s[x.taken + 1]) THEN Ended(Taking(s, x), TRUE)
        ELSE loop[Taking(s, x)]
  IN  loop[[parser |-> start, taken |-> 0]]
=============================================================================
