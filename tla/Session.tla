------------------------------ MODULE Session ------------------------------
(***************************************************************************)
(* The session between the client and an IoT device over Bluetooth: the    *)
(* key exchange (function code 1), the test message under the shared       *)
(* secret (20) and the trigger of the DMID's generation (30).              *)
(*                                                                         *)
(*  - the PHONE's user interface thread sends frames when a button is      *)
(*    pressed, and parses what its READER thread (ConnectedThread) hands   *)
(*    it in chunks, all in one buffer;                                     *)
(*  - the DEVICE is bluetooth_uart_task, which takes bytes from the USART  *)
(*    ring buffer (module UsartRing) and answers frames;                   *)
(*  - the Bluetooth link in between is external: an ordered byte stream    *)
(*    each way that loses what is in flight when the connection is lost.   *)
(*                                                                         *)
(* A byte in flight is a record: v is its value, n and at are history, the *)
(* number of the frame it belongs to and its place there (frames of the    *)
(* phone, and replies of the device, count from 1; the overrun message has *)
(* number 0).  Keys are short; a secret is the pair of the two public keys *)
(* it comes from.                                                          *)
(***************************************************************************)
EXTENDS FrameParser, FiniteSets

CONSTANTS
  AliceKey,      \* alice_public_key, the phone's public key
  DeviceKeys,    \* the public keys the device generates, in turn, then again
  CipherText,    \* an encrypted test message
  Overrun,       \* send_buffer_overrun
  DataSize,      \* bytes of dataReceive
  RingCap,       \* bytes the device's ring buffer holds
  Cuts,          \* bound: lengths of what is still on its way when a stream
                 \* is read, or not lost by a reset
  MaxInbox,      \* bound: MESSAGE_READs queued
  MaxPresses,    \* bound: buttons pressed
  MaxFaults      \* bound: lost connections and resets of the device

KeyLen    == Len(AliceKey)
CipherLen == Len(CipherText)

Values == 0 .. 255
Word   == 0 .. 256 * 256 - 1     \* two bytes

\* Bytes of 128 and more are left out: the client's are signed, which only
\* makes a difference where one is taken for a part of a header.
ASSUME KeysAssumption ==
  /\ AliceKey \in Seq(0 .. 127) /\ Len(AliceKey) > 0
  /\ DeviceKeys \in Seq(Seq(0 .. 127))
  /\ \A i \in 1 .. Len(DeviceKeys) : Len(DeviceKeys[i]) = Len(AliceKey)
  /\ Len(DeviceKeys) > 0
  /\ DataSize > Len(AliceKey)
  /\ CipherText \in Seq(0 .. 127) /\ Overrun \in Seq(0 .. 127)
  /\ \A i \in 1 .. Len(Overrun) : Overrun[i] # 7     \* a text, freertos_usart.c:87
  /\ Len(CipherText) \in 1 .. DataSize /\ DataSize \in Word
ASSUME SessionBounds ==
  /\ RingCap \in Nat /\ MaxPresses \in Nat /\ MaxFaults \in Nat
  /\ Cuts \subseteq Nat /\ MaxInbox \in Nat

NoSecret == <<>>

VARIABLES
  alice_shared_secret,          \* the phone's secret
  pParser,                      \* its automaton
  j, chunk,                     \* index and length of the chunk in hand
  crashed,                      \* an exception has ended the application
  inbox, buffer,                \* queued MESSAGE_READs, the shared buffer
  secret, sendmessage,          \* the device's secret, its reply pointer
  dParser, dpc,                 \* its automaton, and whether it is running
  DMIDgeneration_flag,
  toDevice, toPhone,            \* bytes in flight
  frames, replies,              \* history: what either side has sent
  dispatched, pDone,            \* history: what either side has dispatched
  cut,                          \* history: frames of which an automaton may
                                \* have found a part, see Faults
  overwritten, coalesced,       \* history: of chunks, see Read
  faults

phone   == <<alice_shared_secret, pParser, j, chunk, crashed>>
reader  == <<inbox, buffer>>
device  == <<secret, sendmessage, dParser, dpc, DMIDgeneration_flag>>
links   == <<toDevice, toPhone>>
history == <<frames, replies, dispatched, pDone, cut, overwritten, coalesced>>
vars == <<phone, reader, device, links, history, faults>>

Idle == chunk = 0     \* the user interface thread handles no chunk

Init ==
  /\ alice_shared_secret = NoSecret
  /\ pParser = Start(DataSize) /\ j = 0 /\ chunk = 0
  /\ crashed = FALSE
  /\ inbox = <<>> /\ buffer = <<>>
  /\ secret = NoSecret /\ sendmessage = "uninitialised"
  /\ dParser = Start(DataSize) /\ dpc = "running"
  /\ DMIDgeneration_flag = FALSE
  /\ toDevice = <<>> /\ toPhone = <<>>
  /\ frames = <<>> /\ replies = <<>> /\ dispatched = <<>> /\ pDone = {}
  /\ cut = [device |-> {}, phone |-> {}]
  /\ overwritten = FALSE /\ coalesced = FALSE
  /\ faults = 0

Tagged(s, n) == [i \in 1 .. Len(s) |-> [v |-> s[i], n |-> n, at |-> i]]
TagsOf(s) == {s[i].n : i \in 1 .. Len(s)}

\* The frames the device has dispatched, by their last bytes.
dDone == {dispatched[i] : i \in 1 .. Len(dispatched)}

\* The frame n of the phone, and what the device sends with number n.
Message(n) == Frame(frames[n].fc, frames[n].data)
Answer(n)  == IF n = 0 THEN Overrun ELSE Frame(replies[n].fc, replies[n].data)

\* The frame, or reply, in which the stream s starts, when the mark of a frame's
\* start is in what is left of it: the automaton may take that for a frame.
TornFrame(s) == {n \in TagsOf(s) : /\ n = s[1].n /\ s[1].at > 1
                                   /\ MarkBehind(Message(n), s[1].at)}
TornReply(s) == {n \in TagsOf(s) : /\ n = s[1].n /\ s[1].at > 1
                                   /\ MarkBehind(Answer(n), s[1].at)}

\* The lengths in which a stream is taken: all of it, or all but one of Cuts.
Lengths(s) == {Len(s) - n : n \in {k \in Cuts \cup {0} : k < Len(s)}}

-----------------------------------------------------------------------------
(* The phone's buttons.                                                    *)

\* What the phone can know: every exchange it started has been answered.
Exchanges(s) == {n \in 1 .. Len(s) : s[n].fc = 1}
Settled == Cardinality(Exchanges(frames))
             = Cardinality(Exchanges(replies) \cap pDone)

Press(fc, data) ==
  /\ Idle /\ Len(frames) < MaxPresses
  /\ frames' = Append(frames, [fc |-> fc, data |-> data, settled |-> Settled,
                               secret |-> alice_shared_secret])
  /\ toDevice' = toDevice \o Tagged(Frame(fc, data), Len(frames) + 1)
  /\ UNCHANGED <<phone, reader, device, toPhone, replies, dispatched, pDone,
                 cut, overwritten, coalesced, faults>>

BuildEncryptionChannel == Press(1, AliceKey)

\* Without a secret aesEncrypt throws and nothing is sent.
SendEncryptionMessage == alice_shared_secret # NoSecret /\ Press(20, CipherText)

TriggerCreateDMID == Press(30, <<1>>)

-----------------------------------------------------------------------------
(* The device: bluetooth_uart_task.                                        *)

Reply(fc, data) ==
  /\ replies' = Append(replies, [fc |-> fc, data |-> data])
  /\ toPhone' = toPhone \o Tagged(Frame(fc, data), Len(replies) + 1)

NoReply == UNCHANGED <<replies, toPhone>>

\* Function code 1: a new key pair, the secret, the reply in a heap block
\* that is freed again.  A failure of the library leaves all at exit.
NewKey(n) == DeviceKeys[1 + ((n - 1) % Len(DeviceKeys))]
SecretOfOldKey(data, n) == <<SubSeq(data, 1, KeyLen), NewKey(1)>>     \* mutant
DeviceSecret(data, n) == <<SubSeq(data, 1, KeyLen), NewKey(n)>>

DispatchKey(data) ==
  \/ LET n == Cardinality(Exchanges(replies)) + 1 IN
       /\ secret' = DeviceSecret(data, n)
       /\ Reply(1, NewKey(n))
       /\ sendmessage' = "freed"
       /\ UNCHANGED dpc
  \/ NoReply /\ UNCHANGED <<secret, sendmessage, dpc>>

\* Function code 20 writes its reply through sendmessage, which no branch of
\* the code has allocated for it: the reply may come out right, or the write
\* may stop the device.
DispatchCipher ==
  /\ \/ Reply(20, CipherText) /\ UNCHANGED dpc
     \/ NoReply /\ dpc' = "stopped"
  /\ UNCHANGED <<secret, sendmessage>>

DispatchOther == NoReply /\ UNCHANGED <<secret, sendmessage, dpc>>

\* The ring buffer did not overflow: bytes are received and parsed one by one
\* until a complete frame, which is dispatched, or the last of n.
DeviceReceive(n) ==
  /\ dpc = "running" /\ Len(toDevice) <= RingCap /\ ~Overflows(dParser)
  /\ LET r == Run(dParser, SubSeq(toDevice, 1, n))
     IN /\ toDevice' = SubSeq(toDevice, r.taken + 1, Len(toDevice))
        /\ dParser' = r.parser
        /\ IF r.complete
             THEN /\ dispatched' = Append(dispatched, toDevice[r.taken].n)
                  /\ CASE dParser'.fc = 1  -> DispatchKey(dParser'.data)
                       [] dParser'.fc = 20 -> DispatchCipher
                       [] OTHER            -> DispatchOther
                  /\ DMIDgeneration_flag' =
                       (DMIDgeneration_flag \/ dParser'.fc = 30)
             ELSE UNCHANGED <<dispatched, replies, toPhone, secret,
                              sendmessage, dpc, DMIDgeneration_flag>>
  /\ UNCHANGED <<phone, reader, frames, pDone, cut, overwritten, coalesced,
                 faults>>

\* The byte is written behind dataReceive; what the device does from then on
\* is undefined, and the model leaves it there.
DeviceOverflow ==
  /\ dpc = "running" /\ toDevice # <<>> /\ Overflows(dParser)
  /\ dpc' = "undefined"
  /\ UNCHANGED <<phone, reader, secret, sendmessage, dParser,
                 DMIDgeneration_flag, links, history, faults>>

\* The task goes on behind an overrun, with what the ring has kept: a mutant.
OverrunIgnored ==
  /\ dpc = "running" /\ Len(toDevice) > RingCap
  /\ toDevice' = SubSeq(toDevice, Len(toDevice) - RingCap + 1, Len(toDevice))
  /\ UNCHANGED <<phone, reader, device, toPhone, history, faults>>

\* The ring buffer overflowed: USART_RTOS_Receive reports it before it hands
\* out another byte, the task says so, leaves its loop and suspends itself.
DeviceOverrun ==
  /\ dpc = "running" /\ Len(toDevice) > RingCap
  /\ dpc' = "stopped"
  /\ toPhone' = toPhone \o Tagged(Overrun, 0)
  /\ UNCHANGED <<phone, reader, secret, sendmessage, dParser,
                 DMIDgeneration_flag, toDevice, history, faults>>

-----------------------------------------------------------------------------
(* The phone's reader thread: what is there, in one buffer for all chunks. *)

\* Bytes of older chunks stay behind the new one, and matter as long as a
\* chunk is queued or in hand; then the model forgets them.
Fresh(s, t) == s                                               \* mutant
Overlay(s, t) == s \o SubSeq(t, Len(s) + 1, Len(t))

Read(n) ==
  LET s == SubSeq(toPhone, 1, n) IN
    /\ ~crashed /\ Len(inbox) < MaxInbox
    /\ toPhone' = SubSeq(toPhone, n + 1, Len(toPhone))
    /\ buffer' = Overlay(s, buffer)
    /\ inbox' = Append(inbox, n)
    /\ overwritten' = (overwritten \/ inbox # <<>> \/ ~Idle)
    /\ coalesced' = (coalesced \/ Cardinality(TagsOf(s)) > 1)
    /\ UNCHANGED <<phone, device, toDevice, frames, replies, dispatched, pDone,
                   cut, faults>>

-----------------------------------------------------------------------------
(* The phone's handler of MESSAGE_READ.  j is a field: the loop over the   *)
(* chunk and the loops that copy a key or a cipher text share it.          *)

TakeChunk ==
  /\ Idle /\ inbox # <<>>
  /\ inbox' = Tail(inbox)
  /\ chunk' = Head(inbox) /\ j' = 0
  /\ UNCHANGED <<alice_shared_secret, pParser, crashed, buffer, device, links,
                 history, faults>>

\* j behind a dispatched frame: the copying loop ends at the length it
\* copies, and the loop over the chunk goes on behind it.
JReset(fc, next) == 0                                          \* mutant
JAfter(fc, next) == CASE fc = 1  -> KeyLen + 1
                      [] fc = 20 -> CipherLen + 1
                      [] OTHER   -> next

SecretLate(data) == <<AliceKey, SubSeq(data, 2, KeyLen + 1)>>   \* mutant
PhoneSecret(data) == <<AliceKey, SubSeq(data, 1, KeyLen)>>

\* What is behind place k of the chunk.
Ahead(k) == SubSeq(buffer, k + 1, chunk) \o toPhone

\* The loop over the chunk, as far as the next frame that is dispatched; where
\* the index jumps into a reply, its rest may be taken for a frame.
HandleBytes ==
  /\ ~Idle /\ ~crashed /\ j < chunk /\ ~Overflows(pParser)
  /\ LET r == Run(pParser, SubSeq(buffer, j + 1, chunk))
         next == j + r.taken
     IN /\ pParser' = r.parser
        /\ j' = IF r.complete THEN JAfter(r.parser.fc, next) ELSE next
        /\ cut' = IF r.complete
                    THEN [cut EXCEPT !.phone = @ \cup TornReply(Ahead(j'))]
                    ELSE cut
        /\ pDone' = IF r.complete THEN pDone \cup {buffer[next].n} ELSE pDone
        /\ alice_shared_secret' = IF r.complete /\ r.parser.fc = 1
                                    THEN PhoneSecret(r.parser.data)
                                    ELSE alice_shared_secret
  /\ UNCHANGED <<chunk, crashed, reader, device, links, frames, replies,
                 dispatched, overwritten, coalesced, faults>>

\* An index behind dataReceive is an exception that nobody catches.
Crash ==
  /\ ~Idle /\ ~crashed /\ j < chunk /\ Overflows(pParser)
  /\ crashed' = TRUE
  /\ UNCHANGED <<alice_shared_secret, pParser, j, chunk, reader, device,
                 links, history, faults>>

EndChunk ==
  /\ ~Idle /\ j >= chunk
  /\ chunk' = 0 /\ j' = 0
  /\ buffer' = IF inbox = <<>> THEN <<>> ELSE buffer
  /\ UNCHANGED <<alice_shared_secret, pParser, crashed, inbox, device, links,
                 history, faults>>

-----------------------------------------------------------------------------
(* Faults.  A frame is cut when the rest of it is lost, or when its start   *)
(* is lost and the rest can be taken for a frame.                          *)

\* The connection is lost and made again: what is in flight is gone, and the
\* automata, static on both sides, stay where they are.
LinkLost ==
  /\ faults < MaxFaults /\ faults' = faults + 1
  /\ toDevice' = <<>> /\ toPhone' = <<>>
  /\ cut' = [device |-> cut.device \cup TagsOf(toDevice),
             phone |-> cut.phone \cup TagsOf(toPhone)]
  /\ UNCHANGED <<phone, reader, device, frames, replies, dispatched, pDone,
                 overwritten, coalesced>>

\* The device is reset; the k bytes that reach it meanwhile are lost.  Data is
\* not escaped: the automaton looks for the next mark, wherever it is.
DeviceReset(k) ==
  /\ faults < MaxFaults /\ faults' = faults + 1
  /\ toDevice' = SubSeq(toDevice, k + 1, Len(toDevice))
  /\ secret' = NoSecret /\ sendmessage' = "uninitialised"
  /\ dParser' = Start(DataSize) /\ dpc' = "running"
  /\ DMIDgeneration_flag' = FALSE
  /\ cut' = [cut EXCEPT !.device = @ \cup TornFrame(toDevice')]
  /\ UNCHANGED <<phone, reader, toPhone, frames, replies, dispatched, pDone,
                 overwritten, coalesced>>

-----------------------------------------------------------------------------
Buttons == BuildEncryptionChannel \/ SendEncryptionMessage \/ TriggerCreateDMID
Device  == \/ \E n \in Lengths(toDevice) : DeviceReceive(n)
           \/ DeviceOverflow \/ DeviceOverrun
Reader  == \E n \in Lengths(toPhone) : Read(n)
Handler == TakeChunk \/ HandleBytes \/ Crash \/ EndChunk
Faults  == LinkLost \/ \E k \in Lengths(toDevice) \cup {0} : DeviceReset(k)

Next == Buttons \/ Device \/ Reader \/ Handler \/ Faults

Spec == Init /\ [][Next]_vars

\* The user interface thread goes on while it handles a chunk; nothing else
\* has to happen.
FairSpec == Spec /\ WF_vars(~Idle /\ Handler)

-----------------------------------------------------------------------------
(* Properties.                                                             *)

ParserOK(p) ==
  p \in [state : States, hi : Values, fc : Word, length : Word,
         index : 0 .. DataSize, data : [1 .. DataSize -> Values], src : SUBSET Nat]

TypeOK ==
  /\ ParserOK(pParser) /\ ParserOK(dParser)
  /\ crashed \in BOOLEAN /\ j \in Nat /\ chunk \in Nat /\ chunk <= Len(buffer)
  /\ \A i \in 1 .. Len(inbox) : inbox[i] \in 1 .. Len(buffer)
  /\ sendmessage \in {"uninitialised", "freed"}
  /\ dpc \in {"running", "stopped", "undefined"} /\ DMIDgeneration_flag \in BOOLEAN
  /\ alice_shared_secret = NoSecret
     \/ alice_shared_secret \in {AliceKey} \X Seq(Values)
  /\ secret = NoSecret \/ secret \in Seq(Values) \X Seq(Values)
  /\ overwritten \in BOOLEAN /\ coalesced \in BOOLEAN /\ faults \in 0 .. MaxFaults

\* The device dispatches only whole frames of the phone, in order and once
\* each, however the ring buffer overflows, the device is reset or the
\* connection is lost.  Only when the automaton goes on with a frame that was
\* cut, or with what comes behind one before it has met the start of another
\* frame between two frames, it may dispatch what is none (it is static and not
\* told of a lost connection, and the data is not escaped).
Dispatches == Len(dispatched') > Len(dispatched)
Whole(p, n) == /\ p.src = {n} /\ p.fc = frames[n].fc
               /\ SubSeq(p.data, 1, p.length) = frames[n].data
DeviceWholeFrames ==
  [][Dispatches => LET n == dispatched'[Len(dispatched')] IN
       \/ Whole(dParser', n) /\ \A m \in dDone : m < n
       \/ dParser'.src \cap cut.device # {}]_vars

\* The phone's secret comes from a public key that the device has sent,
\* however the replies are cut into chunks and chunks run together, as long
\* as no chunk was overwritten before it was handled and no reply was cut, by
\* a lost connection or by the index that jumps to the rest of a key with the
\* mark of a frame inside.
PhoneSecretIsSent ==
  alice_shared_secret # NoSecret /\ ~overwritten /\ cut.phone = {} =>
    \E n \in Exchanges(replies) : alice_shared_secret[2] = replies[n].data

\* A message encrypted when every exchange was answered is decrypted with the
\* same secret, unless the device was reset and has none, a chunk was
\* overwritten before it was handled, or a frame or a reply was cut: what is
\* left of it may end in its successor, which is then not answered, or answered
\* with a secret of mixed bytes.
NothingCut == cut.device = {} /\ cut.phone = {}
SettledMeansShared ==
  [][Dispatches => LET n == dispatched'[Len(dispatched')] IN
       dParser'.fc = 20 /\ ~overwritten /\ NothingCut /\ frames[n].settled
         => secret \in {NoSecret, frames[n].secret}]_vars

\* The phone's handler returns to its queue of messages, unless two replies
\* met in one chunk or an exception has ended the application.
HandlerReturns == ~Idle ~> Idle \/ coalesced \/ crashed

\* Neither automaton writes behind dataReceive, although neither compares the
\* length of a frame with it, unless a frame was cut, or a chunk overwritten:
\* other bytes are then read as the rest of a header.
WritesStayInside == /\ dpc = "undefined" => cut.device # {}
                    /\ crashed => cut.phone # {} \/ overwritten

\* DeviceFragment.java:140 "Protocol：start bit 0x07 0x41 + function code +
\* data length + data + end bit 0x0A 0x0D": each reply is one message.  When
\* nothing is in flight, each has been dispatched.
EveryReplyHandled ==
  toPhone = <<>> /\ inbox = <<>> /\ Idle /\ ~overwritten /\ faults = 0 =>
    pDone = 1 .. Len(replies)
=============================================================================
