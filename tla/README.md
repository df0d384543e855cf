# A TLA+ verification project for the decentralized IoT identity management system

The system gives an IoT device a decentralized identifier (DMID): an Ethereum
contract whose address is the identifier and whose `didDocument` field holds the
IPFS hash of a DID document.  A phone (the DMID client) connects to the device
over Bluetooth, agrees on a key with it and triggers the generation; the device
(an LPC55S69 under FreeRTOS) does the rest through an ESP32 Wi-Fi module.

Paths below are relative to `src/`; `freertos_usart.c`, `esp32.c`,
`generateRawTransaction.c` and so on are under `src/IoT device/`, the Java
classes under `src/DMIDClient/app/src/main/java/com/example/suyang/`.

## 1. Inventory

| Component | State it keeps | Operations | What is hard |
|---|---|---|---|
| Wi-Fi serial link: `esp32.c`, `wifi_dataProcess_task` | `WiFi_RX_STA` (length and finished bit), `WiFi_RX_BUF`, `data_end_flag`, two start flags | `esp32_send_cmd`, `esp32_send_data`, `esp32_check_cmd`, the receiver loop | two tasks share three words without a lock; late answers; ring overrun; buffer limits |
| DMID contract: `IoTDIDContract.sol` | owner, emergency contact, two arrays with counters, document, revocation flag and two times | `AddTrustList`, `AddVC`, `AddDMIDDocument`, `SetEmergencyContact`, `OwnerChange`, `DeleteDMID`, three views | order of calls by several accounts, unsigned time arithmetic, full arrays |
| Provisioning: `wifi_dataSend_task`, `generateRawTransaction.c`, `esp32_command.c` | the position in the script, nonce, transaction hash, contract address, document, content hash; the modes of the ESP32; the chain | one script of 25 exchanges, parsers of the answers | all results ignored, late blocks, lost mode changes, stale answers |
| Secure session: `bluetooth_uart_task`, `DeviceFragment` | secret, IV, pointers to messages, `DMIDgeneration_flag` | function codes 1 (key exchange), 20 (AES test), 30 (trigger) | order of function codes, the two sides' secrets |
| Frame protocol: `serialDataProcess`, `sendMessgeToAndroid`, `DataHelper` | parser state, index, function code, length, data | one byte; one frame | lengths 0 and too large, resynchronisation, signed bytes in Java |
| `BluetoothChatService` | `mState`, three thread references, sockets | `start`, `connect`, `connected`, `stop`, `write`, `connectionFailed`, `connectionLost` | three threads, cancelled threads that report late, a window without the lock |
| USART driver: `fsl_usart.c`, `fsl_usart_freertos.c` | ring buffer indices, pending receive, transmission, two event groups, the timer daemon's queue | send, receive, abort, interrupt handler, callback | interrupt against task, overrun, completion against overrun, a full queue |
| Raw transactions: `generateRawTransaction.c`, `RLP.c`, `utils.c` | fields, signature and encodings in static buffers | two kinds of transactions, two passes each | zero, leading zeros, length boundaries, remains of the last pass |
| SD card: `CardDetectTask`, `writeDIDandDIDDocumentToSD` | card state, two semaphores, `currentDMIDNum` | detection callback, detection task, writing | coalesced events, removal while in use |
| User DID: `UserFragment`, `UserDIDContract` | each generation thread's locals, the peer and the repository they share, the account's nonces | deploy, document, IPFS, store | two generations at once, failure half-way, a fragment that is left |
| User interface, vendored libraries, chain configuration | - | - | not modelled, see section 8 |

Interactions: the Bluetooth task sets `DMIDgeneration_flag`, which the
provisioning task polls; the provisioning task calls the serial link, and polls
`wifi_initialize_finish_flag`, set by the link's receiver task; it opens the
receive path with `start_receive_data_flag`.  The USART interrupt fills the ring
buffer from which the receiver takes bytes.  The ESP32 carries HTTP requests to
the Ethereum node, where the contract lives, and to the IPFS gateway.

What makes each component correct:

- link: a finished message is a stretch of the wire and not touched until it is
  cleared; an accepted answer is no staler than the calls and answers before it
  explain; every call returns whose transmission does;
- contract: revocation respects the lock and is final and entries are stable, also
  when the emergency contact takes the identity over;
- provisioning: a contract never names somebody else's document; with a healthy
  environment the run succeeds; every run ends, or stops for a reason that is named;
- session: once every exchange is answered, both sides hold the same secret;
- frames: only whole frames are dispatched, in order, and nothing is written
  behind the array that takes their data;
- `BluetoothChatService`: at most one connection, the state tells which threads
  run, every attempt ends, after `stop` nothing runs (violated, see section 4);
- USART: the ring buffer is a FIFO that loses its oldest byte and says so, and a
  call returns when its transfer is over, not before;
- raw transactions: what is signed is what is sent, and the node reads the
  arguments of the call from it;
- SD card: the file system is used only while a card is in;
- user DID: a document is stored on the contract it names, and a generation
  that nothing disturbs ends with it.

The hazards behind these are listed in `PROJECT.json` with their lines.

## 2. Modules

| Module | Models |
|---|---|
| `EspLink` | the serial link: receiver task, sender, ESP32, USART interrupt |
| `Mailbox` | what the link's receive buffer promises: a mailbox for one message |
| `MCEspLink` | a small instance of `EspLink` |
| `EspLinkProofs` | theorems about `EspLink` |
| `DMIDContract` | the contract's storage and functions, as operators |
| `DMIDLifecycle` | the contract on a chain: accounts call, blocks pass |
| `MCDMIDLifecycle` | a small instance, symmetric in nothing (owner and contact differ) |
| `DMIDLifecycleProofs` | theorems about `DMIDLifecycle` |
| `Provisioning` | the provisioning task, the ESP32's modes, chain and IPFS gateway |
| `ProvisioningProofs` | theorems about `Provisioning` |
| `BluetoothChatService` | the phone's connection: the service's methods and its three kinds of threads |
| `BluetoothChatServiceProofs` | theorems about `BluetoothChatService` |
| `UsartRing` | the USART driver under its RTOS wrapper: two tasks, the interrupt, the timer daemon |
| `ReportingFifo` | what the receive path promises: the wire's bytes in order, no gap unreported |
| `UsartRingProofs` | theorems about `UsartRing` |
| `FrameParser` | the frames of the Bluetooth link and the automaton both sides find them with |
| `Session` | key exchange, test message and trigger between the client and the device |
| `MCSession` | small instances of `Session` |
| `SessionProofs` | theorems about both sides of `Session`, and about the automaton of `FrameParser` |
| `Rlp` | the RLP encoder and the hexadecimal helper, and a reader of the format |
| `RawTransaction` | the assembly, signature and second assembly of the two transactions |
| `MCRawTransaction` | a small instance of `RawTransaction` |
| `RawTransactionProofs` | theorems about `RawTransaction`, and about recursive functions |
| `UserDid` | the threads that generate a user's DID in the client |
| `UserDidProofs` | theorems about `UserDid` |

`DMIDLifecycle` and `Provisioning` both extend `DMIDContract`: the first asks
what the contract guarantees to anybody, the second uses one contract as the
device's target.  `Provisioning` abstracts each call of the link to what
`EspLink` shows of it: it returns, with an answer in the buffer or without, or its
transmission is torn and the device stops.
`UsartRing` is below `EspLink` and `Session`, which both take from it that bytes
come in order and that an overrun is reported before a later byte (`RxOverrun`,
`DeviceOverrun`).  `Session` extends `FrameParser` and uses it twice, once for each
side; `RawTransaction` extends `Rlp` and gives the bytes that `Provisioning`
abstracts to a nonce and a purpose.

### EspLink

`WiFi_RX_STA` is the record of its finished bit and its length.  `WiFi_RX_BUF`
has one cell more than the array, the byte behind it.  Bytes are tokens: "OK",
"ERROR", a line end, `}`, or any other byte; each carries as history the number
of the command the ESP32 was answering (`src`), its place on the wire (`no`) and the
number of acknowledgements on the wire up to it (`ack`); `since` is the place of the first
byte behind the last clear.  `strstr` is the search for a token.
Every access of a task to a shared word that another task may change in between
is a step: the load and the store of `WiFi_RX_STA++` (`RxTest`, `RxStore`), the
byte (`RxWrite`), the terminator and search (`RxTerm`), the load and the store
of `|= 1<<15` (`RxMarkLoad`, `RxMarkStore`); for the sender the clear, the mode,
the transmission, the countdown, the poll, the check, the second clear.
`esp32_send_cmd` and `esp32_send_data` are the same actions with mode 1 and 2;
they differ in the length of a delay and in a second, idempotent check for
"ERROR".  `USART_RTOS_Send` returns, or it is torn by the race that `UsartRing_send`
shows: the processor then stays in the interrupt handler (`txPc = "torn"`) and neither
task goes on.  The ESP32 answers commands in order with any member of `Replies`, at
any time.  The interrupt handler overwrites the oldest byte of a full ring and
sets the overrun event, on which the receiver suspends itself.

### DMIDContract and DMIDLifecycle

A function is its effect on the storage record and the condition under which it
does not revert; a reverted call is no step.  The fixed arrays are sequences up
to `TrustCap` and `VcCap`.  Block times grow by arbitrary amounts up to the bound
`MaxTime`; `requested` and `revokedAt` are history variables: the times of the
last revocation request and of the revocation.

### Provisioning

`Script` lists the exchanges in the order of the calls of
`wifi_dataSend_task`; `pc` is the position.  An AT command changes the ESP32's
mode (`Obey`) or is lost; an HTTP exchange is answered by the server to which
the ESP32 is connected, loses its answer, is lost, or never leaves the ESP32
because it is not in transparent mode.  `rxbuf` is what the parsers find in
`WiFi_RX_BUF`.  A parser that does not find its key copies from NULL plus an offset up
to the next quote: it returns `Garbage` and the task goes on, or it runs out of its
buffer and of the memory and the device stops (`Parsed`).  A transmission may be torn
(`TearSend`), which stops the device too, behind a command or a request that may have been
carried out.  The transaction pool, the blocks and the contracts are the node's;
`prompt` (fixed in the initial state) says whether the chain mines within the
task's three-second delays.  A mined transaction may fail.

### BluetoothChatService

A ConnectThread or ConnectedThread is identified with its socket, an AcceptThread
with the socket of the failed attempt that started it, so `connectPc`,
`connectedPc` and `acceptPc` are functions on sockets.  A synchronized method is
part of one step; the places between steps are those where the code holds no lock:
around `connect()`, `accept()` and `read()`, between `connectionFailed` and
`start`, and between the two synchronized sections at the end of a ConnectThread
(`ResetConnectThread`, `ConnectDone`).  To cancel a thread is to close its socket; a
blocking call on a closed socket throws (`ConnectThrows`, `AcceptThrows`,
`ReadThrows`), and may also throw for reasons of its own.  A call that has succeeded
is not undone by a close.  The user interface calls `connect` and `stop` in any order:
a fragment that is stopped and started again keeps its service
(`DeviceFragment.java:253-266`) and may call `connect` (426) after `stop`; what comes before
it at line 242, a `wait` without the monitor, throws unless Bluetooth was off.  Sockets
whose constructor fails (a null stream or server socket) are left out.

### UsartRing and ReportingFifo

A task runs only when the interrupt handler is off, no interrupt is raised and no
request waits for the daemon, which has the highest task priority
(`configTIMER_TASK_PRIORITY` 4).  `USART_RTOS_Receive` is `ReceiveCall` (its copy
from the ring runs with interrupts disabled), the callback when all was there,
the wait, and after an overrun the abort and the clearing of the event bit.
`USART_RTOS_Send` is the stores of the size, of the state and of the interrupt's
enable bit, one step each, since nothing disables interrupts in
`USART_TransferSendNonBlocking`; then the wait.  The handler enters, runs its loop
of one byte each way per turn, and leaves.  Bytes received are named by their position on the
wire; `lost` has those that the peripheral's own FIFO dropped, which nobody is
told of (`fsl_usart_freertos.c:35` has no branch for it).  `torn` marks a Send whose
last byte the handler took before the task enabled the interrupt, `refused` a
completion for which the daemon's queue had no room.  The transfers of one USART have one task each, as on
the device, so the semaphores of the wrapper are always free and are left out.

### FrameParser and Session

`ParseByte` is one call of `serialDataProcess`; `Run` is the loop around it up to
a frame that is dispatched or a byte that would be written behind the array.  The
automaton's static variables are a record; `src`, the tags of the bytes it took,
is history.  A button of the client is `Press`; `bluetooth_uart_task` is
`DeviceReceive`, `DeviceOverflow` and `DeviceOverrun`; the reading thread of
`BluetoothChatService` is `Read`, which takes any part of what has arrived into its
one buffer; `TakeChunk`, `HandleBytes`, `Crash` and `EndChunk` are the handler of
`MESSAGE_READ`.  Key agreement and cipher are abstract: a secret is the pair of
public keys it comes from, a cipher text is a constant and is not decrypted.  The
reply to function code 20 goes through a pointer to no allocated block, so it is a
choice between the reply and a device that stops.  `LinkLost` and `DeviceReset` are the faults.

`cut` is history: the frames of which an automaton may have found a part.  A lost
connection cuts what is in flight.  A reset loses the start of a frame, and a jump of the
phone's shared index skips it; this cuts the frame only when the mark 07 41 is in what is left
of it (`TornFrame`, `TornReply`), because an automaton in state none passes over anything
else.  Keys may have any bytes below 128 (section 6).  The device's keys are `DeviceKeys` in
turn, again from the start when they are used up.

### Rlp and RawTransaction

`wallet_encode_element`, `wallet_encode_int` and `wallet_encode_list` return the
bytes that the C functions leave in their buffers.  The list takes the first byte
of the encoded `v` whatever its length, and an element that shall lose its leading
zeros loses the first one and keeps its length minus their number, as the code has it.
`Items` is the reader: RLP as the Ethereum yellow paper defines it.  `Fill`
sets the fields for one of the two transactions, `wallet_ethereum_assemble_tx` is
called before and after `Sign`; hash and signature are external.  A buffer is the bytes
that were written last: the hash takes the length with it and the text ends with a NUL, so
what a longer pass has left behind them is not read.

### UserDid

A press of the button starts a thread; its calls of web3j and of the IPFS peer are
one step each, and what they return or throw decides the next.  A contract is named
by the nonce of its deployment, a document and its cid by the contract.  All
threads use the account of one mnemonic, so `accepted` is one sequence whose index
is the nonce.  `litePeer` is a field of the fragment that made the thread; leaving the fragment
(`Leave`) makes `getActivity()` null for its threads, so a toast becomes an
exception that ends the application.  The repository of the peers belongs to the
application: a second start may fail, and `initIPFS` swallows that.

## 3. Runs

| Run | Expect | What it shows |
|---|---|---|
| `EspLink` | pass | safe hand-over of messages between the two tasks, how stale an answer can be, time-outs with a dead receiver, refinement of `Mailbox`, and every call returns unless its transmission is torn |
| `DMIDLifecycle` | pass | the contract's guarantees under every order of calls of two accounts |
| `Provisioning` | pass | no foreign document on a contract; success without failures; every run ends, and stops half-way only behind a failure or a late block |
| `Provisioning_did` | violation | a document is published for a DID that is not a contract's address when the block is late |
| `BluetoothChatService` | pass | one connection, no listener out of reach, a thread behind the state "connected", no attempt left pending |
| `BluetoothChatService_stop` | violation | a cancelled attempt starts the service listening after `stop()` (`BluetoothChatService.java:335`) |
| `UsartRing` | pass | refinement of `ReportingFifo`; a call ends with its transfer and, but for two races that are named, ends |
| `UsartRing_send` | violation | one of these races: an interrupt inside `USART_TransferSendNonBlocking` (`fsl_usart.c:587`) |
| `Session` | pass | whole frames in order, secrets that come from keys that were sent and agree once settled, writes inside the arrays, a handler that returns |
| `Session_frames` | violation | two replies in one chunk: one of them is not handled (`DeviceFragment.java:351`) |
| `RawTransaction` | pass | what is sent is what was signed and is read back as the arguments |
| `UserDid` | pass | stored documents are their contract's own; a generation succeeds or something named disturbed it |

Properties, with what a violation would take:

- `BufferOwnership`, `MessageContiguous`, `ImplementsMailbox`: a store of one task
  lost to the other, a byte written into a finished message, lost from it or out of its order.
- `MessageIsNew`: a clear that does not reach the message.  One that falls between the
  receiver's load and store of `WiFi_RX_STA` does not reach it, and is excepted (`since = 0`).
- `AnswerLag`: one acknowledgement taken for the answers to two calls.  Nothing in the
  code ties an answer to a command, so an accepted answer may be an old one: the property
  says that it is at most as many calls old as calls were abandoned (timed out, or sent
  without waiting) and as answers had acknowledgements beyond their first.  The
  program's first call, `at_quit`, is abandoned.
- `DeadMeansTimeout`: what a dead receiver left behind is never an answer.
- `LockRespected`, `NoUnderflow`, `RevocationFinal`, `EntriesStable`:
  see the comments in `DMIDLifecycle`.
- `StoredDocumentIsOwn`: needs both the nonce reuse after a late block and stale
  answers to fail; it holds because a reused nonce is refused by the node.
- `RequestsReachTheirServer`: relates the script's position to the ESP32's mode, as long
  as no exchange failed; behind a lost mode change requests do go to the wrong server, and
  what comes of it is `StoredDocumentIsOwn`'s subject.
- `TriggeredIsProvisioned`, `RunEnds`: the purpose of the run, and its end.  `RunEnds`
  would be violated by a step that waits for an answer, or by a parser that misses its key
  when nothing failed and blocks are in time.
- `OneConnection`, `ListenerReachable`, `ConnectedHasThread`: two threads that
  reach `connected` or `start` one after the other, one of which was forgotten
  or cancelled before.
- `AttemptsEnd`: an attempt whose failure or success is overtaken by another.
- `ImplementsReportingFifo`: a completion and an overrun that meet in the event
  bits between the daemon and the wait, such that bytes behind a gap are handed
  over before the gap is reported.
- `TransfersEndWithCalls`: a Send that returns while the handler still reads the
  caller's buffer (which `bluetooth_uart_task` frees), or a Receive that
  leaves a request behind for a buffer that is gone.
- `FilledRequestReturns`, `SendReturns`: a bit set before the task waits for it,
  or a level of the interrupt that nobody clears.
- `DeviceWholeFrames`: an overrun or a reset that joins the head of one frame
  to the tail of another, or an automaton that stays out of step behind a frame that was cut.
- `PhoneSecretIsSent`, `SettledMeansShared`: replies cut into chunks and run
  together so that the key is read at the wrong place; a second exchange that
  crosses a test message.
- `WritesStayInside`: a length read at the wrong place; where it holds, it does by the
  automaton's resynchronisation, not by a test in the code.
- `HandlerReturns`: the loop over a chunk set back behind a frame it has handled.
- `SignedIsSent`: remains of the last pass or of the last transaction.
- `SentIsReadBack`: one wrong header byte at 55/56 or 255/256, a leading zero.
- `StoredIsOwn`: two threads that share a nonce and a peer, a document written
  after its upload failed.
- `GenerationEnds`: a thread that neither succeeds nor gives up.

Some of them name exceptions, without which they fail.  `SendReturns` excepts `torn`, the
subject of `UsartRing_send`, and `refused`; `FilledRequestReturns` and `CallReturns` except
`torn`, because the processor then stays in the handler, and `RunEnds` a device that stops
for one of its reasons.  `DeviceWholeFrames`, `PhoneSecretIsSent`, `SettledMeansShared` and
`WritesStayInside` except frames and replies that were cut: by a lost connection, by a reset
that leaves a mark in the rest of a key, or by the phone's index that jumps in front of
one.  For these frames the code has no remedy, since its data is not escaped and its automata
are not told of a lost connection; the properties say that the harm ends with them.  The
last three also except chunks that were overwritten before they were handled, and `HandlerReturns`
replies that met in one chunk and a client that has crashed.  How `SettledMeansShared` fails
with a cut: a frame of an exchange that is cut behind its tenth byte of data and continued by
a test message ends where the message does, and is answered with a secret of mixed bytes.
`SentIsReadBack` excepts the nonce 0 and `r` or `s` with two leading zeros (section 4).

### Bounds

- `EspLink`: a buffer of 3 cells (answers shorter than it and as long as it, and longer
  with what is left in it), answers with no, one and two acknowledgements, a ring of 2
  bytes (so that it overruns), 3 commands (one late answer
  can meet one later command, and a third call starts with what both left).
  `MaxCmds` only bounds the number of calls.
- `DMIDLifecycle`: two accounts (owner and contact change places), arrays of 2
  and 1 slots (full arrays are reached), lock time 2, times 3 to 7 (request,
  second request, confirmations before, at and after the lock).
- `Provisioning`: `FirstNonce` 1 and three failed exchanges, so that a failure
  can hide in each phase of the run (deployment, publication, update) at once.
- `BluetoothChatService`: 4 sockets: two attempts that overtake each other, and
  an AcceptThread each of them starts may accept while the other connects.  For
  the two counterexamples 2 sockets are enough.

- `UsartRing`: a ring of 3 cells (two bytes) and a peripheral FIFO of 2, so that 5
  bytes overrun each; requests of 1 and 2 bytes (from the ring, from the handler, and
  half and half); 2 calls of Send.  `QueueLength` 3 lets requests of both
  directions meet in the daemon's queue and fill it; the device's is 10, which
  only the number of overruns between two turns of the daemon can fill.
  `UsartRing_send` has the device's 10, so that a full queue is not the reason.
- `Session`: keys of 8 bytes with marks of a frame in them: an end, 0A 0D, where a frame
  read out of step looks for one, and in the phone's key and the device's second one a
  start, 07 41, in the phone's with a whole frame behind it for a device that has missed
  the head.  Three buttons, one fault, one queued
  message.  A stream is read whole or but for its last 11 or 12 bytes, which cuts the
  frame of a key (16 bytes) after 4 bytes, where the next head is taken for a length
  that the array does not have, and after 5, where it is taken for a shorter one.  The
  ring holds 19 bytes: one frame fits and two do not.  `Session_frames` cuts 6 bytes before
  the end, so that the next reply follows the rest of one.
- `RawTransaction`: fields of 0, 1, 10 to 12, 55, 56, 132, 255, 256 and 257 bytes
  make strings and lists cross the limits; two transactions share the buffers.
- `UserDid`: two generations, three fragments (the button pressed in one, left, and
  pressed in the next), two failing calls.

### Fairness

`EspLink`: weak fairness of the receiver task and of the running call.  Both
tasks have the same priority and block in every round (`vTaskDelay`, the receive
event), so FreeRTOS runs each again and again.  No fairness for new calls, for
the ESP32 or for the wire.  `USART_RTOS_Send` is a step that ends, or is torn for good.
`Provisioning`: weak fairness of the task (each call of the link returns or stops the
device, `CallReturns`), of the receiver's initialisation and of
mining (the chain seals a block every second).  None for the trigger.
`BluetoothChatService`: every Java thread runs, `connect()` returns or throws, and a
blocking call on a closed socket throws.  Nothing for incoming connections, lost
links and the user.  `UsartRing`: the handler and the daemon run when they can, the
peripheral shifts bytes out, and each task goes on inside a call, since both have
the same priority.  Nothing for the wire and for new calls.
`Session`: the handler goes on while it has a chunk in hand; nothing else has to
happen.  `UserDid`: a
thread runs and web3j's polling ends after 40 attempts; nothing makes the chain mine.

## 4. Findings

With a run that shows them:

1. `freertos_usart.c:696`: the receipt is requested once; with a late block a
   document with a meaningless id is published (`Provisioning_did`).
2. `BluetoothChatService.java:335`: a ConnectThread that `stop()` (documented as
   "Stop all threads") cancels calls `start()`, which listens anew; the gap at lines
   342-345 has the same effect with a connection (`BluetoothChatService_stop`).
3. `fsl_usart.c:587`: a receive interrupt inside `USART_TransferSendNonBlocking` can
   finish the transmission before TXLVL is enabled; the interrupt then stays raised
   with nothing to send, and the call never returns (`UsartRing_send`).
4. `DeviceFragment.java:351`: the loop over a chunk shares its index with the loops
   that copy from a frame, so of two replies in one chunk one is not handled
   (`Session_frames`).

Observations of the modelling without a run of their own:

- `esp32.c:41`: an answer is not tied to a command.  What the ESP32 answers to
  `at_quit` and `at_cipclose`, which are sent without waiting, acknowledges the next
  command, and so on: `AnswerLag` bounds by how many calls an answer is late, not to zero.
- `freertos_usart.c:549` and `esp32.c:18`: one byte behind `WiFi_RX_BUF` is
  written when a message fills the buffer.
- `freertos_usart.c:782`: the nonce is refreshed although `freertos_usart.c:858`
  demands a mined transaction first.
- `freertos_usart.c:754`: the result of the upload is not looked at, and the
  contract's document is overwritten with whatever the parser copied.
- `BluetoothChatService.java:214`: `connectionLost` announces `STATE_LISTEN` while no
  AcceptThread exists.
- `DeviceFragment.java:242`: `wait(100)` without the monitor throws when the
  fragment is shown a second time.
- `generateRawTransaction.c:264`: the parsers use what `strstr` returns without a look at
  it; an answer without the key makes them copy from the bottom of the memory.
- `freertos_usart.c:893`: the automaton is static; a frame cut by a lost connection
  goes on with the bytes of the next one.  Keys are random and not escaped
  (`DeviceFragment.java:565`); with 07 41 inside, the automaton of either side finds a head
  in a key when it has missed the start of the frame.
- `generateRawTransaction.c:24`: leading zeros of the nonce are not removed, so the
  nonce 0 is encoded as the byte 00 instead of the empty string; `RLP.c:112` skips
  one leading zero but shortens by all of them, so an `r` or `s` with two of them loses its last byte.
- `IoTDIDContract.sol:93`: `DeleteDMID(2)` without `DeleteDMID(1)` revokes at once,
  because `first_time_for_revoke` is still 0; `LockRespected` counts from the last
  request.

## 5. Proofs

Each theorem holds for every value of the constants that the assumptions below
allow; the run of the same module shows its property on a small instance.

| Theorem | Says |
|---|---|
| `EspLinkProofs!TypeCorrect` | `TypeOK` |
| `EspLinkProofs!Ownership` | `BufferOwnership`: which task may do what to the receive buffer at which place |
| `EspLinkProofs!DeadReceiver` | `DeadMeansTimeout` |
| `EspLinkProofs!Refinement` | `EspLink` implements `Mailbox` |
| `EspLinkProofs!Contiguity` | `MessageContiguous`: a message is a stretch of the wire |
| `EspLinkProofs!NewText` | `MessageIsNew`: nothing from before the last clear, unless that was lost |
| `EspLinkProofs!AnswersLag` | `AnswerLag`, for all answers |
| `DMIDLifecycleProofs!TypeCorrect` | `TypeOK` |
| `DMIDLifecycleProofs!Subtraction` | `NoUnderflow` |
| `DMIDLifecycleProofs!Lock` | `LockRespected` |
| `DMIDLifecycleProofs!Finality` | `RevocationFinal` |
| `DMIDLifecycleProofs!Entries` | `EntriesStable` |
| `ProvisioningProofs!TypeCorrect` | `TypeOK` |
| `ProvisioningProofs!StoredDocument` | `StoredDocumentIsOwn` |
| `ProvisioningProofs!Requests` | `RequestsReachTheirServer`: as long as no exchange failed |
| `BluetoothChatServiceProofs!TypeCorrect` | `TypeOK` |
| `BluetoothChatServiceProofs!Safety` | `OneConnection`, for any number of connections |
| `BluetoothChatServiceProofs!Listeners` | `ListenerReachable` |
| `BluetoothChatServiceProofs!Connected` | `ConnectedHasThread` |
| `UsartRingProofs!TypeCorrect` | `TypeOK` |
| `UsartRingProofs!TransfersEnd` | `TransfersEndWithCalls` |
| `UsartRingProofs!Refinement` | `UsartRing` implements `ReportingFifo` |
| `RawTransactionProofs!TypeCorrect` | `TypeOK` |
| `RawTransactionProofs!Signed` | `SignedIsSent` |
| `RawTransactionProofs!ReadBack` | `SentIsReadBack`, for fields of all lengths that fit |
| `UserDidProofs!TypeCorrect` | `TypeOK` |
| `UserDidProofs!Storage` | `StoredIsOwn`, for any number of threads and fragments |
| `SessionProofs!TypeCorrect` | `TypeOK`, for keys of any length and any bytes below 128 |
| `SessionProofs!WholeFrames` | `DeviceWholeFrames`, with its exception for frames that were cut |
| `SessionProofs!DeviceStaysInside` | the device's half of `WritesStayInside` |
| `SessionProofs!SecretWasSent` | `PhoneSecretIsSent`, with its exceptions |
| `SessionProofs!BothStayInside` | `WritesStayInside`, with its exceptions |

Assumptions, each named in the module that declares the constants:

- `EspLink`: sizes are positive, commands and answers have their types.
- `DMIDLifecycle`: the deployer is an account, "no account" and "no text" are none
  of the values, times and capacities are natural numbers.
- `UsartRing`: the ring has room for a byte, the daemon's queue for three
  requests (the device's has 10, `FreeRTOSConfig.h:97`), so that a completion of
  each direction and an overrun fit in it.
- `RawTransaction`: `ChainAssumption`, one byte of `v`; `SizesAssumption`, a
  call's arguments have at most 4900 bytes, with which the transaction fits in
  `raw_tx_bytes` (5600 bytes) and as text in `rawTx` (10000 characters; the device's
  contract has 4117 bytes), and a half of a signature is no longer than 32 bytes; `QuantitiesAssumption`, the node's nonces are "0"
  or have no leading zero digit, and the two gas constants of the code no leading zero byte.
- `Session`: `KeysAssumption`, keys have one length, which `dataReceive` exceeds, and a
  cipher text fits in it; bytes are below 128 (section 6); the text that the device sends
  when its ring buffer overflowed has no byte 07 (`freertos_usart.c:87`).  Nothing else is
  assumed of what keys contain.
- `Provisioning`, `BluetoothChatService`, `UserDid`: bounds are natural numbers, and
  the null reference is none of the values.

### Arguments

*EspLink.*  `TypeOK` alone is not inductive, since a store by the
receiver after the sender's clear may combine an old index with a new length.
With `BufferOwnership` it is: the receiver leaves the code that writes before the
finished bit is set, and it alone sets the bit, so the sender's check meets
nobody.  `Refinement`: the mailbox is sealed by `RxMarkStore`, looked at by a
successful `TxPoll`, kept or discarded by `TxCheck`, `TxReset` and `TxStart`; by
`BufferOwnership` every write of a byte happens while there is no message, and
the terminator falls behind the message.  `DeadReceiver`: `DeadInv` says that a
call begun with a dead receiver finds the bit clear at every poll.  `Contiguity` and
`NewText`: `TextInv` follows the bytes one by one.  The live text (`Live`: up to the length
the receiver has loaded, or `WiFi_RX_STA` has) is a stretch of the wire that ends where the
receiver is (`TextOK`); what is in its hand, in the ring and still to be sent goes on from
there (`HandOK`, `WireOK`), until an overrun, behind which the receiver takes no byte.
`AnswersLag`: acknowledgements are numbered along the wire, at most one for each command and
the surplus (`AckLaw`, `CommandLaw`); those that a call may still accept come behind as
many as calls have been answered.  This is kept because an accepted text is cleared before the
next call looks, and a clear that is lost is one while the text was not accepted (`CallLaw`).

*DMIDLifecycle.*  `IInv` ties the recorded times to the history variables
`requested` and `revokedAt` and to the present block.  `Entries` needs nothing
but the types: each function either leaves a sequence alone or appends to it.

*Provisioning.*  `IInv` adds to the two properties what they follow from.
`ScriptFollowed`: as long as nothing failed, the ESP32's modes are a function of the
script's position.  `DocumentOK`: the document has the name read from the receipt, its hash is
known after the upload only, and every transaction in the pool that stores a hash
stores the one of its own contract, or, after a failure, what the failure left.
`ValuesOK`: an answer has a value of its kind.  The transaction pool matters because a
transaction stays there after the task has gone on.

*BluetoothChatService.*  `IInv` adds that a socket not created yet has no thread
(`Fresh`) and that an AcceptThread about to hand over a connection has one
(`Dispatching`); a step that drops a reference closes its socket first, which is
all that `OneConnection` needs.

*UsartRing.*  `IInv == TypeOK /\ CallsOK /\ StreamOK`.  `CallsOK` follows a completion
through the daemon's queue, the event bits and the bits that the wait returned: it is in
one of these places at most, only when nothing is missing, and gone when the call returns; a
transmission is sending, draining or drained by the sender's place, or torn.
`StreamOK`: the bytes in the task's buffer, the ring and the peripheral are in the order
of the wire, and each byte behind the last one handed over is among them, lost by the
peripheral, or reported by an overrun that the task finds before it takes a later byte.

*RawTransaction.*  The encoder's length bytes and the reader are recursive
functions.  `Recursion` proves from the least number principle that such a function is
defined, for recursions that descend in a measure, and `LenBytesIs`, `Hex2ByteIs`,
`StringsAre` and `ItemsOfList` say what they compute for arguments of any length: an
encoded string or list is read back as it was, whatever is behind it.  `IInv` says what each pass has in its
buffers: before the first the fields of the call, between the passes the bytes of the
same fields, at the end these with the signature.

*UserDid.*  `IInv`: every accepted write of a document follows the deployment of the
contract it names and the upload of that contract's document (`WritesOK`); a thread knows its
contract and its document in this order, and its transaction is the one with its
nonce (`ThreadOK`).  It holds for interleaved threads because what is accepted keeps its place.

*Session.*  The automaton's loop is a recursive function over any number of bytes;
`RunEnds` shows as in `RawTransactionProofs` that it is defined, and that what its steps keep
holds at its end.  `IInv` says that the bytes on their way to the device are the rest of the
stream of frames (`StreamOK`), and where the automaton is with respect to the next of them
(`DeviceOK`): between frames; in the frame of that byte, with all it should hold of the
frame's first bytes (`Inside`); behind a single 07 that starts no frame (`Single`); or in what was
cut (`Mixed`).  Between frames the next byte is the first of one, or no mark is left in its
frame, or the frame counts as cut (`Safe`): an automaton in state none takes a mark only where
one is, so it passes over the rest of a frame without a mark, and what it takes from a frame
with one has the tag of a frame that is cut.  The next it dispatches is whole (`FrameEnds`) or
has such a tag.  That none is dispatched twice is `DoneOK`.

`PhoneOK` says the same of the phone as long as no chunk was overwritten and no reply cut.
What it has still to parse (`Rest`) is the chunk in hand or the one queued, and the bytes on
their way; they are the rest of a stream of replies and overrun texts (`FlowOK`), and the
automaton stands before the byte at the handler's index (`Place`) in state none, in that
byte's frame, or behind a single 07 (`Stands`).  The invariant has to be about the index
because the handler's loops share it: the loop that copies a key or a cipher text leaves
it at that length, wherever in the chunk the frame ended, so that bytes are read again or
skipped.  This happens in state none only.  The index then stands at the start of a reply, or
in one without a mark in what is left of it (`Apart`), where the automaton finds no frame before the next
reply (`AnswerEnds`), or the reply is cut and the invariant says no more.  A frame may so be
missed (`Session_frames` shows it), but what is dispatched is a reply, whole.

### Only model-checked

- Liveness, which is out of the prover's reach: `CallReturns`, `TriggeredIsProvisioned`,
  `RunEnds`, `AttemptsEnd`, `FilledRequestReturns`, `SendReturns`, `HandlerReturns`,
  `GenerationEnds`.
- `Session`: `SettledMeansShared`, which relates the two sides' dispatches; what each
  of them dispatches is proved.

## 6. Limits of the models

- A response parser without its key returns garbage or stops the device; that it may leave
  other variables overwritten (its copy is not bounded by the array it goes to) is not modelled.
- An HTTP exchange times out after 8000 s; its answer is taken not to arrive
  during a later one (in `EspLink` it may).
- The node's treatment of an empty `to` field (a creation) is left out.
- Tokens stand for byte strings; a message of `EspLink` cut in the middle of "OK"
  is a message with an "x".
- `Session` leaves out bytes of 128 and more (the client's are signed, which
  matters where one is taken for a part of a header), and what a device does
  after a write behind its array.  A frame that is sent while the phone is not
  connected is dropped by `write()` and is no step.
- `UsartRing` has one task per direction and no de-initialisation
  (`USART_RTOS_Deinit`, `USART_TransferStopRingBuffer`, `USART_TransferAbortSend`).
- `RawTransaction` takes memory for granted; the encoder does not free what it
  allocates.  Its buffers are replaced as whole values, and their sizes are an assumption on
  the arguments, no step that could overflow.

## 7. Plan

1. `SettledMeansShared`, from the invariants of both sides.
2. De-initialisation of the USART under a running transfer.

## 8. Not modelled

Vendored code (FreeRTOS kernel, mbed TLS, trezor-crypto, cJSON, FatFs, SD/MMC,
CMSIS and board support: more than 240000 of the repository's lines), the private chain's
configuration data, Android views, lists and the credential page: they carry no
protocol state of the system, or are taken as given.  Message wording, logging and the
bytes of requests are abstracted.

The SD card: `CardDetectTask` mounts a card and gives a semaphore, but the only call of
`writeDIDandDIDDocumentToSD` is commented out (`freertos_usart.c:720`), so nothing
of the system depends on it.
