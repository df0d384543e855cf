---------------------------- MODULE Provisioning ----------------------------
(***************************************************************************)
(* wifi_dataSend_task (freertos_usart.c): how the device obtains its DMID. *)
(* Triggered over Bluetooth, it drives the ESP32 through a fixed script:   *)
(* join the network, ask the Ethereum node for the nonce, deploy the       *)
(* contract, read its address from the receipt, publish the DID document   *)
(* on IPFS and write the document's hash into the contract.  The results   *)
(* of esp32_send_cmd and esp32_send_data are ignored, so every step is     *)
(* taken whatever happened to the steps before it, and every parser reads  *)
(* whatever WiFi_RX_BUF holds.                                             *)
(*                                                                         *)
(* External: the ESP32 (in which connection and transfer mode it is), the  *)
(* Ethereum node (transaction pool, mining), the IPFS gateway.             *)
(* The exchange of one command is abstracted from module EspLink: it is    *)
(* answered, or the countdown ends, or its transmission is torn and the    *)
(* device stops.  A time-out of an HTTP exchange takes 8000 s, so its      *)
(* answer does not arrive during a later one.  The operators marked        *)
(* "mutant" are programming errors the checks must notice.                 *)
(***************************************************************************)
EXTENDS DMIDContract

CONSTANTS
  Device,      \* the account of the device's fixed mnemonic
  FirstNonce,  \* transactions the account had sent before
  MaxFaults    \* bound: exchanges that fail

ASSUME ProvisioningAssumption == FirstNonce \in Nat /\ MaxFaults \in Nat

VARIABLES
  DMIDgeneration_flag, wifi_initialize_finish_flag,
  pc,              \* position in Script; 0 before, see Suspended
  rxbuf,           \* what the parsers find in WiFi_RX_BUF
  nonce, transactionHash, contractAddress, diddocument, contentHash,
  joined, link, transparent, passthrough,     \* the ESP32
  mined, pool, receipts, contracts,           \* the Ethereum node
  prompt,          \* constant: the chain mines within the task's delays
  ipfs,            \* documents on IPFS
  faults           \* failures so far

flags   == <<DMIDgeneration_flag, wifi_initialize_finish_flag, prompt>>
locals  == <<nonce, transactionHash, contractAddress, diddocument, contentHash>>
espVars == <<joined, link, transparent, passthrough>>
node    == <<mined, pool, receipts, contracts>>
vars == <<flags, pc, rxbuf, locals, espVars, node, ipfs, faults>>

ScriptWithoutClose ==                                                 \* mutant
  << "quit", "at", "rst", "cwjap", "cipstart", "cipmode", "cipsend",
     "nonce", "deploy", "receipt", "quit", "at", "cipstart_ipfs", "cipsend",
     "random", "ipfs", "quit", "cipclose", "at", "cipstart", "cipsend",
     "nonce", "setdoc", "blockNumber" >>
ScriptWithOneNonce ==                                                 \* mutant
  << "quit", "at", "rst", "cwjap", "cipstart", "cipmode", "cipsend",
     "nonce", "deploy", "receipt", "quit", "cipclose", "at", "cipstart_ipfs",
     "cipsend", "random", "ipfs", "quit", "cipclose", "at", "cipstart",
     "cipsend", "setdoc", "blockNumber" >>

\* The exchanges of one run, in the order of the calls.
Script == << "quit", "at", "rst", "cwjap", "cipstart", "cipmode", "cipsend",
             "nonce", "deploy", "receipt",
             "quit", "cipclose", "at", "cipstart_ipfs", "cipsend",
             "random", "ipfs",
             "quit", "cipclose", "at", "cipstart", "cipsend",
             "nonce", "setdoc", "blockNumber" >>
Suspended == Len(Script) + 1
Crashed   == Len(Script) + 2
AtCommands == {"quit", "at", "rst", "cwjap", "cipstart", "cipstart_ipfs",
               "cipmode", "cipsend", "cipclose"}

\* Values and answers.  Garbage is what a parser copies when the key it looks
\* for is not there (it reads at NULL plus an offset, see Parsed).
Garbage    == [kind |-> "garbage"]
Num(n)     == [kind |-> "num", n |-> n]
Document(did) == [kind |-> "document", id |-> did]   \* also stands for its hash
Plain      == [kind |-> "plain"]                      \* text with none of the keys
Reply(k, v) == [kind |-> k, value |-> v]

\* Transactions; the hash of a transaction is the transaction.
DeployTx(n)      == [kind |-> "deployTx", nonce |-> n]
SetDocTx(n, c, h) == [kind |-> "setdocTx", nonce |-> n, to |-> c, doc |-> h]

\* The transaction a request carries, if any.
Sent(q) == CASE q = "deploy" -> {DeployTx(nonce)}
             [] q = "setdoc" -> {SetDocTx(nonce, contractAddress, contentHash)}
             [] OTHER -> {}

getNonceFromAnyResult(buf) ==                                         \* mutant
  IF buf.kind # "plain" THEN buf.value ELSE Garbage
getNonceFromHTTPResponse(buf) ==
  IF buf.kind = "count" THEN buf.value ELSE Garbage
getTransactionHashFromHTTPResponse(buf) ==
  IF buf.kind \in {"hash", "count"} THEN buf.value ELSE Garbage
getContractAddressFromHTTPResponse(buf) ==
  IF buf.kind = "receipt" THEN buf.value ELSE Garbage
getIPFSAddName(buf) ==                                                \* mutant
  IF buf.kind = "added" THEN Document(Garbage) ELSE Garbage
getIPFSAddContentHash(buf) ==
  IF buf.kind = "added" THEN buf.value ELSE Garbage

Init ==
  /\ DMIDgeneration_flag = FALSE /\ wifi_initialize_finish_flag = FALSE
  /\ pc = 0
  /\ rxbuf = Plain
  /\ nonce = Garbage /\ transactionHash = Garbage /\ contractAddress = Garbage
  /\ diddocument = Garbage /\ contentHash = Garbage
  /\ joined = FALSE /\ link = "none" /\ transparent = FALSE /\ passthrough = FALSE
  /\ mined = FirstNonce /\ pool = {} /\ receipts = {} /\ contracts = <<>>
  /\ prompt \in BOOLEAN
  /\ ipfs = {}
  /\ faults = 0

-----------------------------------------------------------------------------
(* Outside the task: the Bluetooth task and the Wi-Fi receiver set flags.  *)

Trigger ==
  /\ ~DMIDgeneration_flag
  /\ DMIDgeneration_flag' = TRUE
  /\ UNCHANGED <<wifi_initialize_finish_flag, prompt, pc, rxbuf, locals, espVars, node,
                 ipfs, faults>>

WifiInitialized ==
  /\ ~wifi_initialize_finish_flag
  /\ wifi_initialize_finish_flag' = TRUE
  /\ UNCHANGED <<DMIDgeneration_flag, prompt, pc, rxbuf, locals, espVars, node,
                 ipfs, faults>>

\* The two polling loops end.
Begin ==
  /\ pc = 0 /\ DMIDgeneration_flag /\ wifi_initialize_finish_flag
  /\ pc' = 1
  /\ UNCHANGED <<flags, rxbuf, locals, espVars, node, ipfs, faults>>

-----------------------------------------------------------------------------
(* AT commands.                                                            *)

\* What the ESP32 does when it carries out a command.
Obey(c) ==
  CASE c = "quit" ->
         transparent' = FALSE /\ UNCHANGED <<joined, link, passthrough>>
    [] c = "rst" /\ ~transparent ->
         /\ joined' = FALSE /\ link' = "none"
         /\ transparent' = FALSE /\ passthrough' = FALSE
    [] c = "cwjap" /\ ~transparent ->
         joined' = TRUE /\ UNCHANGED <<link, transparent, passthrough>>
    [] c = "cipstart" /\ ~transparent /\ joined /\ link = "none" ->
         link' = "ethereum" /\ UNCHANGED <<joined, transparent, passthrough>>
    [] c = "cipstart_ipfs" /\ ~transparent /\ joined /\ link = "none" ->
         link' = "ipfs" /\ UNCHANGED <<joined, transparent, passthrough>>
    [] c = "cipmode" /\ ~transparent ->
         passthrough' = TRUE /\ UNCHANGED <<joined, link, transparent>>
    [] c = "cipsend" /\ ~transparent /\ passthrough /\ link # "none" ->
         transparent' = TRUE /\ UNCHANGED <<joined, link, passthrough>>
    [] c = "cipclose" /\ ~transparent ->
         link' = "none" /\ UNCHANGED <<joined, transparent, passthrough>>
    [] OTHER -> UNCHANGED espVars

\* Nothing depends on the result of a call: the script goes on.
RepeatUntilAnswered == pc' = IF rxbuf' = Plain THEN pc ELSE pc + 1     \* mutant
GoOn == pc' = pc + 1

\* esp32_send_cmd: the command takes effect or it does not; either way the
\* script goes on, and the buffer holds an answer or what it held before.
SendCmd ==
  /\ pc \in 1 .. Len(Script) /\ Script[pc] \in AtCommands
  /\ \/ Obey(Script[pc]) /\ UNCHANGED faults
     \/ faults < MaxFaults /\ faults' = faults + 1 /\ UNCHANGED espVars
  /\ rxbuf' \in {rxbuf, Plain}
  /\ GoOn
  /\ UNCHANGED <<flags, locals, node, ipfs>>

-----------------------------------------------------------------------------
(* The servers.                                                            *)

\* What the node requires of a transaction: its nonce is the next one or later,
\* is encoded canonically (a zero nonce is encoded as the byte 0x00, which is
\* not), and no transaction with the same nonce waits in the pool.
Valid(tx) == /\ tx.nonce.kind = "num" /\ tx.nonce.n # 0 /\ tx.nonce.n >= mined
             /\ \A other \in pool : other.nonce # tx.nonce
Malformed(tx) == tx.kind = "setdocTx" /\ tx.to = Garbage

SendRaw(tx) ==
  \/ /\ Valid(tx)
     /\ pool' = pool \cup {tx}
     /\ rxbuf' = Reply("hash", tx)
     /\ UNCHANGED <<mined, receipts, contracts>>
  \/ /\ ~Valid(tx) \/ Malformed(tx)
     /\ rxbuf' = Plain                \* {"error": ..}, no "result"
     /\ UNCHANGED node
  \/ /\ tx.nonce = Garbage            \* a number far ahead: queued for ever
     /\ rxbuf' = Reply("hash", tx)
     /\ UNCHANGED node

\* The transaction with the next nonce enters a block; it may run out of gas,
\* and then the receipt names an address all the same.
Mine ==
  \E tx \in pool :
    /\ tx.nonce = Num(mined)
    /\ pool' = pool \ {tx}
    /\ mined' = mined + 1
    /\ receipts' = receipts \cup {tx}
    /\ \/ /\ tx.kind = "deployTx"
          /\ contracts' = Append(contracts,
                            [address |-> tx.nonce, storage |-> Deployed(Device)])
          /\ UNCHANGED faults
       \/ /\ tx.kind = "setdocTx"
          /\ contracts' = [i \in DOMAIN contracts |->
               IF contracts[i].address = tx.to
                  /\ OwnerMay(contracts[i].storage, Device)
               THEN [contracts[i] EXCEPT !.storage = AddDMIDDocument(@, tx.doc)]
               ELSE contracts[i]]
          /\ UNCHANGED faults
       \/ /\ faults < MaxFaults
          /\ faults' = faults + 1
          /\ UNCHANGED contracts
    /\ UNCHANGED <<flags, pc, rxbuf, locals, espVars, ipfs>>

\* The delays of the task outlast a block, if mining is prompt.
Settled == prompt => \A tx \in pool : tx.nonce # Num(mined)

\* What the server at the other end answers to request q, and what it does.
Ethereum(q) ==
  /\ UNCHANGED ipfs
  /\ \/ /\ q = "nonce"
        /\ rxbuf' = Reply("count", Num(mined))
        /\ UNCHANGED node
     \/ \E tx \in Sent(q) : SendRaw(tx)
     \/ /\ q = "receipt"
        /\ rxbuf' = IF transactionHash \in receipts
                    THEN Reply("receipt", transactionHash.nonce)
                    ELSE Plain        \* "result":null
        /\ UNCHANGED node
     \/ /\ q = "blockNumber"
        /\ rxbuf' = Reply("block", Garbage)
        /\ UNCHANGED node
     \/ q = "ipfs" /\ rxbuf' = Plain /\ UNCHANGED node    \* 4xx

Gateway(q) ==
  /\ UNCHANGED node
  /\ \/ /\ q = "ipfs"
        /\ ipfs' = ipfs \cup {diddocument}
        /\ rxbuf' = Reply("added", diddocument)
     \/ q # "ipfs" /\ rxbuf' = Plain /\ UNCHANGED ipfs    \* 4xx

Server(q) == \/ transparent /\ link = "ethereum" /\ Ethereum(q)
             \/ transparent /\ link = "ipfs" /\ Gateway(q)

\* A request without an answer: lost, or carried out.
Unanswered(q) ==
  \/ UNCHANGED <<node, ipfs>>
  \/ /\ transparent /\ link = "ethereum"
     /\ \E tx \in Sent(q) : Valid(tx) /\ pool' = pool \cup {tx}
     /\ UNCHANGED <<mined, receipts, contracts, ipfs>>
  \/ /\ transparent /\ link = "ipfs" /\ q = "ipfs"
     /\ ipfs' = ipfs \cup {diddocument}
     /\ UNCHANGED node

\* esp32_send_data: answered; unanswered; or never sent to a server, because
\* the ESP32 is not in transparent mode.
Exchange(q) ==
  \/ Server(q) /\ UNCHANGED faults
  \/ /\ faults < MaxFaults /\ faults' = faults + 1
     /\ rxbuf' \in {rxbuf, Plain}
     /\ Unanswered(q)
  \/ /\ ~transparent
     /\ rxbuf' \in {rxbuf, Plain}
     /\ UNCHANGED <<node, ipfs, faults>>

-----------------------------------------------------------------------------
(* HTTP requests and the parsing of their answers.                         *)

At(q) == pc \in 1 .. Len(Script) /\ Script[pc] = q

\* A parser that found its key returns its value.  Without the key it copies from
\* the bottom of the memory up to the next quote: it returns garbage, or it runs
\* out of its buffer and of the memory and the device stops.
Parsed(value) == GoOn \/ (value = Garbage /\ pc' = Crashed)

freshTransactionNonce ==
  /\ At("nonce") /\ Settled
  /\ Exchange("nonce")
  /\ nonce' = getNonceFromHTTPResponse(rxbuf')
  /\ Parsed(nonce')
  /\ UNCHANGED <<flags, transactionHash, contractAddress, diddocument,
                 contentHash, espVars>>

DeployContract ==
  /\ At("deploy")
  /\ Exchange("deploy")
  /\ transactionHash' = getTransactionHashFromHTTPResponse(rxbuf')
  /\ Parsed(transactionHash')
  /\ UNCHANGED <<flags, nonce, contractAddress, diddocument, contentHash, espVars>>

\* The receipt is asked for once; the DID and its document are built from the
\* address found in the answer.
ReadReceipt ==
  /\ At("receipt") /\ Settled
  /\ Exchange("receipt")
  /\ contractAddress' = getContractAddressFromHTTPResponse(rxbuf')
  /\ diddocument' = Document(contractAddress')
  /\ Parsed(contractAddress')
  /\ UNCHANGED <<flags, nonce, transactionHash, contentHash, espVars>>

\* The boundary of the upload needs random bytes; without them the task
\* function returns, which FreeRTOS answers by stopping the device.
DrawBoundary ==
  /\ pc \in 1 .. Len(Script) /\ Script[pc] = "random"
  /\ \/ pc' = pc + 1 /\ UNCHANGED faults
     \/ faults < MaxFaults /\ faults' = faults + 1 /\ pc' = Crashed
  /\ UNCHANGED <<flags, rxbuf, locals, espVars, node, ipfs>>

AddToIpfs ==
  /\ At("ipfs")
  /\ Exchange("ipfs")
  /\ contentHash' = getIPFSAddContentHash(rxbuf')
  /\ Parsed(contentHash')
  /\ UNCHANGED <<flags, nonce, transactionHash, contractAddress, diddocument,
                 espVars>>

SetDocument ==
  /\ At("setdoc")
  /\ Exchange("setdoc")
  /\ GoOn
  /\ UNCHANGED <<flags, locals, espVars>>

\* The last request; then the task suspends itself (pc = Suspended).
AskBlockNumber ==
  /\ At("blockNumber")
  /\ Exchange("blockNumber")
  /\ GoOn
  /\ UNCHANGED <<flags, locals, espVars>>

\* The transmission of a command or of a request is torn (EspLink!TxSend): the
\* call does not return and the device stops.
TearSend ==
  /\ pc \in 1 .. Len(Script) /\ Script[pc] # "random"
  /\ faults < MaxFaults /\ faults' = faults + 1
  /\ pc' = Crashed
  /\ IF Script[pc] \in AtCommands
     THEN Obey(Script[pc]) /\ UNCHANGED <<node, ipfs>>
     ELSE Unanswered(Script[pc]) /\ UNCHANGED espVars
  /\ UNCHANGED <<flags, rxbuf, locals>>

Task == \/ Begin \/ SendCmd \/ freshTransactionNonce \/ DeployContract
        \/ ReadReceipt \/ DrawBoundary \/ AddToIpfs \/ SetDocument
        \/ AskBlockNumber \/ TearSend

Next == Trigger \/ WifiInitialized \/ Task \/ Mine

\* Every call returns or stops the device (EspLink!CallReturns), the receiver task
\* initialises the USART, and a signer of the chain seals blocks.
Fairness == WF_vars(Task) /\ WF_vars(WifiInitialized) /\ WF_vars(Mine)

Spec == Init /\ [][Next]_vars
FairSpec == Spec /\ Fairness

-----------------------------------------------------------------------------
(* Properties.                                                             *)

Stored(c) == c.storage.didDocument

TypeOK ==
  /\ DMIDgeneration_flag \in BOOLEAN /\ wifi_initialize_finish_flag \in BOOLEAN
  /\ pc \in 0 .. Crashed
  /\ link \in {"none", "ethereum", "ipfs"}
  /\ joined \in BOOLEAN /\ transparent \in BOOLEAN /\ passthrough \in BOOLEAN
  /\ rxbuf.kind \in {"plain", "count", "hash", "receipt", "block", "added"}
  /\ nonce.kind \in {"garbage", "num"}
  /\ contractAddress.kind \in {"garbage", "num"}
  /\ contentHash.kind \in {"garbage", "document"}
  /\ mined \in Nat /\ faults \in 0 .. MaxFaults
  /\ transparent => link # "none" /\ passthrough

\* A contract never points to a document that does not exist or that speaks
\* of something else (freertos_usart.c:754-793): what it stores is on IPFS and
\* its id is the address of this very contract, even when blocks are late.
\* Only a failed exchange can put garbage there.
StoredDocumentIsOwn ==
  \A i \in DOMAIN contracts :
    \/ Stored(contracts[i]) = NoText
    \/ Stored(contracts[i]) = Garbage /\ faults > 0
    \/ /\ Stored(contracts[i]) = Document(contracts[i].address)
       /\ Stored(contracts[i]) \in ipfs

\* Requests reach the server they are meant for (freertos_usart.c:723-779):
\* as long as no exchange failed, the device talks to the Ethereum node and
\* to the IPFS gateway exactly when the script sends to them.
RequestsReachTheirServer ==
  faults = 0 /\ pc \in 1 .. Len(Script) =>
    /\ Script[pc] \in {"nonce", "deploy", "receipt", "setdoc", "blockNumber"} =>
         transparent /\ link = "ethereum"
    /\ Script[pc] = "ipfs" => transparent /\ link = "ipfs"

\* The aim of the run (README.md, IoT device): once triggered, and if nothing
\* fails and blocks are prompt, the device's contract ends up with the hash of
\* a published document that names the contract.
Provisioned ==
  \E i \in DOMAIN contracts :
    Stored(contracts[i]) = Document(contracts[i].address) /\ Stored(contracts[i]) \in ipfs
TriggeredIsProvisioned ==
  DMIDgeneration_flag /\ prompt ~> (faults > 0 \/ [](pc = Suspended /\ Provisioned))

\* A triggered run comes to its end, whatever is lost, refused or late: the task
\* suspends itself, or the device stops in a torn transmission, without random
\* numbers or in a parser without its key.  It does not stop unless an exchange
\* failed or a block is late (the receipt is asked for once, freertos_usart.c:696).
RunEnds == DMIDgeneration_flag ~> \/ pc = Suspended
                                  \/ pc = Crashed /\ (faults > 0 \/ ~prompt)

\* What the comment at freertos_usart.c:698 says is parsed ("get contract
\* address"), and README.md:13 of a DID ("the address of contract will be used
\* as DID").  Every document published describes a deployed contract.
DidIsContractAddress ==
  \A d \in ipfs : \E i \in DOMAIN contracts : d.id = contracts[i].address
=============================================================================
