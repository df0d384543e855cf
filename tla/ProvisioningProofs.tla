------------------------- MODULE ProvisioningProofs -------------------------
(***************************************************************************)
(* Theorems about Provisioning, for any number of failures and any number  *)
(* of transactions the account had sent before.                            *)
(***************************************************************************)
EXTENDS Provisioning, SequenceTheorems, TLAPS

-----------------------------------------------------------------------------
(* The parts of the inductive invariant.                                   *)

\* The values the task, the node and the gateway exchange.
Numbers   == {Num(n) : n \in Nat}
Names     == Numbers \cup {Garbage}
Documents == {Document(name) : name \in Names}
Hashes    == Documents \cup {Garbage}
Transactions == {DeployTx(n) : n \in Numbers}
                \cup {SetDocTx(n, c, h) : n \in Numbers, c \in Names, h \in Hashes}
Storage == [owner : {Device}, emergency_contact : {NoAccount},
            trustList : {<<>>}, vcHold : {<<>>}, didDocument : Hashes \cup {NoText},
            RevokedFlag : {FALSE},
            first_time_for_revoke : {0}, second_time_for_revoke : {0}]

\* Every answer has the value its kind announces, and the gateway's is not
\* there before the upload.
ValuesOK ==
  /\ nonce \in Names /\ contractAddress \in Names
  /\ diddocument \in Hashes /\ contentHash \in Hashes
  /\ rxbuf.kind \in {"count", "receipt"} => rxbuf.value \in Numbers
  /\ rxbuf.kind = "added" => pc > 17
  /\ pool \subseteq Transactions /\ receipts \subseteq Transactions
  /\ contracts \in Seq([address : Numbers, storage : Storage])

\* Where the ESP32 is, by the position in the script, if nothing failed and the
\* device runs.
ScriptFollowed ==
  faults = 0 /\ pc # Crashed =>
    /\ joined <=> pc >= 5
    /\ passthrough <=> pc >= 7
    /\ transparent <=> pc \in 8 .. 11 \cup 16 .. 18 \cup 23 .. 26
    /\ link = IF pc \in 6 .. 12 \cup 22 .. 26 THEN "ethereum"
              ELSE IF pc \in 15 .. 19 THEN "ipfs" ELSE "none"

\* A document named by c may be stored in c.
Publishes(c, h) == \/ h = Document(c) /\ h \in ipfs
                   \/ h = Garbage /\ faults > 0

\* The document is made when the receipt was read, its hash is known once it
\* was uploaded; a transaction that stores a hash has the contract's own.
DocumentOK ==
  /\ pc \in 11 .. 26 => diddocument = Document(contractAddress)
  /\ pc <= 17 => contentHash = Garbage
  /\ pc \in 18 .. 26 => Publishes(contractAddress, contentHash)
  /\ \A tx \in pool : tx.kind = "setdocTx" => Publishes(tx.to, tx.doc)

IInv == TypeOK /\ ValuesOK /\ ScriptFollowed /\ DocumentOK /\ StoredDocumentIsOwn

-----------------------------------------------------------------------------
(* The script and the values.                                              *)

\* The script, position by position.
LEMMA ScriptIs ==
  /\ Len(Script) = 25 /\ Suspended = 26 /\ Crashed = 27
  /\ Script[1] = "quit" /\ Script[2] = "at" /\ Script[3] = "rst" /\ Script[4] = "cwjap"
  /\ Script[5] = "cipstart" /\ Script[6] = "cipmode" /\ Script[7] = "cipsend"
  /\ Script[8] = "nonce" /\ Script[9] = "deploy" /\ Script[10] = "receipt"
  /\ Script[11] = "quit" /\ Script[12] = "cipclose" /\ Script[13] = "at"
  /\ Script[14] = "cipstart_ipfs" /\ Script[15] = "cipsend" /\ Script[16] = "random"
  /\ Script[17] = "ipfs" /\ Script[18] = "quit" /\ Script[19] = "cipclose"
  /\ Script[20] = "at" /\ Script[21] = "cipstart" /\ Script[22] = "cipsend"
  /\ Script[23] = "nonce" /\ Script[24] = "setdoc" /\ Script[25] = "blockNumber"
BY DEF Script, Suspended, Crashed

\* Where each request is made.
LEMMA Places ==
  ASSUME NEW i \in 1 .. 25
  PROVE  /\ Script[i] = "nonce" => i \in {8, 23}
         /\ Script[i] = "deploy" => i = 9
         /\ Script[i] = "receipt" => i = 10
         /\ Script[i] = "random" => i = 16
         /\ Script[i] = "ipfs" => i = 17
         /\ Script[i] = "setdoc" => i = 24
         /\ Script[i] = "blockNumber" => i = 25
         /\ Script[i] \in AtCommands => i \notin {8, 9, 10, 16, 17, 23, 24, 25}
<1>1. i \in {1, 2, 3, 4, 5, 6, 7, 8, 9, 10, 11, 12, 13, 14, 15, 16, 17, 18, 19, 20, 21,
             22, 23, 24, 25}
  OBVIOUS
<1>. QED  BY <1>1, ScriptIs DEF AtCommands

\* Garbage, numbers and documents are told apart by their kinds.
LEMMA Kinds ==
  /\ Garbage.kind = "garbage" /\ Garbage \in Names /\ Garbage \in Hashes
  /\ \A x \in Numbers : x.kind = "num" /\ x # Garbage /\ x \in Names
  /\ \A x \in Names : x.kind \in {"garbage", "num"} /\ Document(x) \in Documents
  /\ \A x \in Documents : x.kind = "document" /\ x # Garbage /\ x \in Hashes
  /\ \A x \in Hashes : x.kind \in {"garbage", "document"}
  /\ \A n \in Nat : Num(n) \in Numbers
BY DEF Garbage, Names, Numbers, Num, Documents, Document, Hashes

\* The parts of a transaction.
LEMMA TransactionsAre ==
  ASSUME NEW tx \in Transactions
  PROVE  /\ tx.nonce \in Numbers
         /\ tx.kind \in {"deployTx", "setdocTx"}
         /\ tx.kind = "setdocTx" => tx.to \in Names /\ tx.doc \in Hashes
<1>1. CASE tx \in {DeployTx(n) : n \in Numbers}
  BY <1>1 DEF DeployTx
<1>2. CASE tx \in {SetDocTx(n, c, h) : n \in Numbers, c \in Names, h \in Hashes}
  <2>1. PICK n \in Numbers, c \in Names, h \in Hashes : tx = SetDocTx(n, c, h)
    BY <1>2
  <2>. QED  BY <2>1 DEF SetDocTx
<1>. QED  BY <1>1, <1>2 DEF Transactions

\* What a request without an answer may bring about.
LEMMA UnansweredIs ==
  ASSUME NEW q, Unanswered(q)
  PROVE  /\ ipfs \subseteq ipfs'
         /\ pool' \subseteq pool \cup {tx \in Sent(q) : Valid(tx)}
         /\ UNCHANGED <<mined, receipts, contracts>>
<1>1. CASE UNCHANGED <<node, ipfs>>
  BY <1>1 DEF node
<1>2. CASE /\ UNCHANGED <<mined, receipts, contracts, ipfs>>
           /\ \E tx \in Sent(q) : Valid(tx) /\ pool' = pool \cup {tx}
  <2>1. pool' \subseteq pool \cup {tx \in Sent(q) : Valid(tx)}
    BY <1>2, Zenon
  <2>. QED  BY <1>2, <2>1
<1>3. CASE UNCHANGED node /\ ipfs' = ipfs \cup {diddocument}
  BY <1>3 DEF node
<1>. QED  BY <1>1, <1>2, <1>3, Zenon DEF Unanswered

\* What a request may bring about: the buffer keeps what it held, or holds the
\* answer of the server at the other end.
LEMMA ExchangeIs ==
  ASSUME TypeOK, NEW q \in {"nonce", "deploy", "receipt", "ipfs", "setdoc", "blockNumber"},
         Exchange(q)
  PROVE  /\ ipfs \subseteq ipfs' /\ faults' \in 0 .. MaxFaults /\ faults <= faults'
         /\ pool' \subseteq pool \cup {tx \in Sent(q) : Valid(tx)}
         /\ UNCHANGED <<mined, receipts, contracts>>
         /\ \/ rxbuf' \in {rxbuf, Plain}
            \/ rxbuf' = Reply("count", Num(mined))
            \/ \E tx \in Sent(q) : rxbuf' = Reply("hash", tx)
            \/ /\ transactionHash \in receipts
               /\ rxbuf' = Reply("receipt", transactionHash.nonce)
            \/ rxbuf' = Reply("block", Garbage)
            \/ /\ q = "ipfs" /\ diddocument \in ipfs'
               /\ rxbuf' = Reply("added", diddocument)
         /\ q = "ipfs" /\ transparent /\ link = "ipfs" /\ faults' = 0 =>
              rxbuf' = Reply("added", diddocument)
<1>. DEFINE Answered ==
       \/ rxbuf' \in {rxbuf, Plain}
       \/ rxbuf' = Reply("count", Num(mined))
       \/ \E tx \in Sent(q) : rxbuf' = Reply("hash", tx)
       \/ /\ transactionHash \in receipts
          /\ rxbuf' = Reply("receipt", transactionHash.nonce)
       \/ rxbuf' = Reply("block", Garbage)
       \/ /\ q = "ipfs" /\ diddocument \in ipfs'
          /\ rxbuf' = Reply("added", diddocument)
<1>1. CASE Server(q) /\ faults' = faults
  <2>1. CASE transparent /\ link = "ethereum" /\ Ethereum(q)
    <3>1. ipfs' = ipfs
      BY <2>1 DEF Ethereum
    <3>2. CASE \E tx \in Sent(q) : SendRaw(tx)
      <4>1. PICK tx \in Sent(q) : SendRaw(tx)
        BY <3>2
      <4>2. /\ rxbuf' = Plain \/ rxbuf' = Reply("hash", tx)
            /\ UNCHANGED <<mined, receipts, contracts>>
            /\ pool' = pool \/ (Valid(tx) /\ pool' = pool \cup {tx})
        BY <4>1, Zenon DEF SendRaw, node
      <4>3. pool' \subseteq pool \cup {u \in Sent(q) : Valid(u)}
        BY <4>2, Zenon
      <4>4. Answered
        BY <4>2, Zenon
      <4>. QED  BY <1>1, <2>1, <3>1, <4>2, <4>3, <4>4 DEF TypeOK
    <3>3. CASE ~(\E tx \in Sent(q) : SendRaw(tx))
      <4>1. UNCHANGED node
        BY <2>1, <3>3, Zenon DEF Ethereum
      <4>2. Answered
        BY <2>1, <3>3, Zenon DEF Ethereum
      <4>. QED  BY <1>1, <2>1, <3>1, <4>1, <4>2 DEF TypeOK, node
    <3>. QED  BY <3>2, <3>3
  <2>2. CASE transparent /\ link = "ipfs" /\ Gateway(q)
    <3>1. UNCHANGED node
      BY <2>2 DEF Gateway
    <3>2. CASE q = "ipfs"
      <4>1. ipfs' = ipfs \cup {diddocument} /\ rxbuf' = Reply("added", diddocument)
        BY <2>2, <3>2 DEF Gateway
      <4>. QED  BY <1>1, <3>1, <3>2, <4>1 DEF TypeOK, node
    <3>3. CASE q # "ipfs"
      <4>1. ipfs' = ipfs /\ rxbuf' = Plain
        BY <2>2, <3>3 DEF Gateway
      <4>. QED  BY <1>1, <3>1, <3>3, <4>1 DEF TypeOK, node
    <3>. QED  BY <3>2, <3>3
  <2>. QED  BY <1>1, <2>1, <2>2 DEF Server
<1>2. CASE faults < MaxFaults /\ faults' = faults + 1
  <2>1. faults \in Nat /\ faults' \in 0 .. MaxFaults /\ faults <= faults' /\ faults' # 0
    BY <1>2, ProvisioningAssumption DEF TypeOK
  <2>2. CASE Server(q) /\ faults' = faults
    BY <2>1, <1>2, <2>2
  <2>3. CASE rxbuf' \in {rxbuf, Plain} /\ Unanswered(q)
    BY <2>1, <2>3, UnansweredIs
  <2>4. CASE faults' = faults
    BY <1>2, <2>1, <2>4
  <2>. QED  BY <2>2, <2>3, <2>4, Zenon DEF Exchange
<1>3. CASE ~transparent /\ rxbuf' \in {rxbuf, Plain} /\ UNCHANGED <<node, ipfs, faults>>
  BY <1>3 DEF node, TypeOK
<1>. QED  BY <1>1, <1>2, <1>3, Zenon DEF Exchange

-----------------------------------------------------------------------------
(* The initial state and the AT commands.                                  *)

\* Nothing was asked for and nothing stored.
LEMMA InitIInv == Init => IInv
<1>. SUFFICES ASSUME Init PROVE IInv
  OBVIOUS
<1>1. prompt \in BOOLEAN /\ pc = 0 /\ faults = 0 /\ Suspended = 26 /\ Crashed = 27
  BY ScriptIs DEF Init
<1>2. TypeOK
  <2>1. /\ DMIDgeneration_flag \in BOOLEAN /\ wifi_initialize_finish_flag \in BOOLEAN
        /\ joined \in BOOLEAN /\ transparent \in BOOLEAN /\ passthrough \in BOOLEAN
        /\ link \in {"none", "ethereum", "ipfs"} /\ ~transparent
    BY Zenon DEF Init
  <2>2. rxbuf.kind = "plain"
    BY DEF Init, Plain
  <2>3. /\ nonce.kind = "garbage" /\ contractAddress.kind = "garbage"
        /\ contentHash.kind = "garbage"
    BY Kinds DEF Init
  <2>4. mined \in Nat /\ faults \in 0 .. MaxFaults /\ pc \in 0 .. Crashed
    BY <1>1, ProvisioningAssumption DEF Init
  <2>. QED  BY <2>1, <2>2, <2>3, <2>4, Zenon DEF TypeOK
<1>3. ValuesOK
  <2>1. contracts \in Seq([address : Numbers, storage : Storage])
    BY DEF Init
  <2>. QED  BY <1>1, <2>1, Kinds DEF Init, ValuesOK, Plain
<1>4. ScriptFollowed
  BY <1>1 DEF Init, ScriptFollowed
<1>5. DocumentOK
  BY <1>1 DEF Init, DocumentOK
<1>6. StoredDocumentIsOwn
  BY DEF Init, StoredDocumentIsOwn
<1>. QED  BY <1>2, <1>3, <1>4, <1>5, <1>6 DEF IInv

\* A command that took effect leaves the ESP32 where the script wants it.
LEMMA ObeyFollows ==
  ASSUME TypeOK, ScriptFollowed, faults = 0, pc \in 1 .. 25, Script[pc] \in AtCommands,
         Obey(Script[pc]), pc' = pc + 1, faults' = faults
  PROVE  ScriptFollowed'
<1>1. pc \notin {8, 9, 10, 16, 17, 23, 24, 25}
  BY Places
<1>2. CASE pc \in {1, 11, 18}
  BY <1>2, ScriptIs DEF ScriptFollowed, Obey
<1>3. CASE pc \in {2, 13, 20}
  BY <1>3, ScriptIs DEF ScriptFollowed, Obey, espVars
<1>4. CASE pc \in {3, 4}
  BY <1>4, ScriptIs DEF ScriptFollowed, Obey
<1>5. CASE pc \in {5, 21}
  BY <1>5, ScriptIs DEF ScriptFollowed, Obey
<1>6. CASE pc = 6
  BY <1>6, ScriptIs DEF ScriptFollowed, Obey
<1>7. CASE pc \in {7, 15, 22}
  BY <1>7, ScriptIs DEF ScriptFollowed, Obey
<1>8. CASE pc \in {12, 19}
  BY <1>8, ScriptIs DEF ScriptFollowed, Obey
<1>9. CASE pc = 14
  BY <1>9, ScriptIs DEF ScriptFollowed, Obey
<1>. QED  BY <1>1, <1>2, <1>3, <1>4, <1>5, <1>6, <1>7, <1>8, <1>9

\* Its variables stay in their sets, and transparent mode needs a connection.
LEMMA ObeyTypes ==
  ASSUME TypeOK, NEW c \in AtCommands, Obey(c)
  PROVE  /\ link' \in {"none", "ethereum", "ipfs"}
         /\ joined' \in BOOLEAN /\ transparent' \in BOOLEAN /\ passthrough' \in BOOLEAN
         /\ transparent' => link' # "none" /\ passthrough'
<1>1. CASE c = "quit"
  BY <1>1 DEF Obey, TypeOK
<1>2. CASE c = "rst"
  BY <1>2 DEF Obey, TypeOK, espVars
<1>3. CASE c = "cwjap"
  BY <1>3 DEF Obey, TypeOK, espVars
<1>4. CASE c = "cipstart"
  BY <1>4 DEF Obey, TypeOK, espVars
<1>5. CASE c = "cipstart_ipfs"
  BY <1>5 DEF Obey, TypeOK, espVars
<1>6. CASE c = "cipmode"
  BY <1>6 DEF Obey, TypeOK, espVars
<1>7. CASE c = "cipsend"
  BY <1>7 DEF Obey, TypeOK, espVars
<1>8. CASE c = "cipclose"
  BY <1>8 DEF Obey, TypeOK, espVars
<1>9. CASE c = "at"
  BY <1>9 DEF Obey, TypeOK, espVars
<1>. QED  BY <1>1, <1>2, <1>3, <1>4, <1>5, <1>6, <1>7, <1>8, <1>9 DEF AtCommands

-----------------------------------------------------------------------------
(* What every step keeps.                                                  *)

\* Documents stay on IPFS and failures are not forgotten.
Growing == /\ ipfs \subseteq ipfs' /\ faults \in Nat /\ faults' \in Nat
           /\ faults <= faults'

\* What was published stays so when pool, gateway and failures only grow.
LEMMA PublishesStays ==
  ASSUME Growing, NEW c, NEW h, Publishes(c, h)
  PROVE  \/ h = Document(c) /\ h \in ipfs'
         \/ h = Garbage /\ faults' > 0
<1>1. CASE h = Document(c) /\ h \in ipfs
  BY <1>1 DEF Growing
<1>2. CASE h = Garbage /\ faults > 0
  BY <1>2 DEF Growing
<1>. QED  BY <1>1, <1>2 DEF Publishes

\* A document that is a contract's own stays its own.
LEMMA StoredStays ==
  ASSUME StoredDocumentIsOwn, Growing, contracts' = contracts
  PROVE  StoredDocumentIsOwn'
<1>. SUFFICES ASSUME NEW i \in DOMAIN contracts
              PROVE  \/ Stored(contracts[i]) = NoText
                     \/ Stored(contracts[i]) = Garbage /\ faults' > 0
                     \/ /\ Stored(contracts[i]) = Document(contracts[i].address)
                        /\ Stored(contracts[i]) \in ipfs'
  BY DEF StoredDocumentIsOwn, Stored
<1>. QED  BY DEF StoredDocumentIsOwn, Growing

\* What the requests of the script add to the pool is well formed, and a hash
\* that is stored was published.
LEMMA SentIs ==
  ASSUME IInv, pc \in 1 .. 25, NEW tx \in Sent(Script[pc]), Valid(tx)
  PROVE  /\ tx \in Transactions
         /\ tx.kind = "setdocTx" => Publishes(tx.to, tx.doc)
<1>1. CASE Script[pc] = "deploy"
  <2>1. tx = DeployTx(nonce)
    BY <1>1 DEF Sent
  <2>2. nonce \in Numbers
    BY <2>1, Kinds DEF Valid, DeployTx, IInv, ValuesOK, Names
  <2>. QED  BY <2>1, <2>2 DEF Transactions, DeployTx
<1>2. CASE Script[pc] = "setdoc"
  <2>1. tx = SetDocTx(nonce, contractAddress, contentHash)
    BY <1>2 DEF Sent
  <2>2. nonce \in Numbers
    BY <2>1, Kinds DEF Valid, SetDocTx, IInv, ValuesOK, Names
  <2>3. contractAddress \in Names /\ contentHash \in Hashes
    BY DEF IInv, ValuesOK
  <2>4. pc = 24
    BY <1>2, Places
  <2>5. Publishes(contractAddress, contentHash)
    BY <2>4 DEF IInv, DocumentOK
  <2>6. tx.to = contractAddress /\ tx.doc = contentHash
    BY <2>1 DEF SetDocTx
  <2>7. tx \in Transactions
    BY <2>1, <2>2, <2>3 DEF Transactions
  <2>. QED  BY <2>5, <2>6, <2>7
<1>3. CASE Script[pc] \notin {"deploy", "setdoc"}
  BY <1>3 DEF Sent
<1>. QED  BY <1>1, <1>2, <1>3

\* A request keeps everything but the value its own parser fills in.
LEMMA ExchangeKeeps ==
  ASSUME IInv, NEW q \in {"nonce", "deploy", "receipt", "ipfs", "setdoc", "blockNumber"},
         At(q), Exchange(q), pc' \in {pc + 1, Crashed}, UNCHANGED <<flags, espVars>>
  PROVE  /\ Growing /\ pc \in 1 .. 25 /\ Script[pc] = q /\ pc' \in {pc + 1, 27}
         /\ faults' \in 0 .. MaxFaults
         /\ UNCHANGED <<mined, receipts, contracts>>
         /\ ScriptFollowed' /\ StoredDocumentIsOwn'
         /\ rxbuf'.kind \in {"plain", "count", "hash", "receipt", "block", "added"}
         /\ rxbuf'.kind \in {"count", "receipt"} => rxbuf'.value \in Numbers
         /\ rxbuf'.kind = "added" => pc' > 17
         /\ pool' \subseteq Transactions
         /\ \A tx \in pool' : tx.kind = "setdocTx" =>
              \/ tx.doc = Document(tx.to) /\ tx.doc \in ipfs'
              \/ tx.doc = Garbage /\ faults' > 0
<1>1. pc \in 1 .. 25 /\ Script[pc] = q /\ pc' \in {pc + 1, 27}
  BY ScriptIs DEF At
<1>2. TypeOK /\ ValuesOK /\ ScriptFollowed /\ DocumentOK /\ StoredDocumentIsOwn
  BY DEF IInv
<1>3. /\ ipfs \subseteq ipfs' /\ faults' \in 0 .. MaxFaults /\ faults <= faults'
      /\ pool' \subseteq pool \cup {tx \in Sent(q) : Valid(tx)}
      /\ UNCHANGED <<mined, receipts, contracts>>
  BY <1>2, ExchangeIs
<1>4. Growing
  BY <1>2, <1>3, ProvisioningAssumption DEF Growing, TypeOK
<1>5. StoredDocumentIsOwn'
  BY <1>2, <1>3, <1>4, StoredStays
<1>6. ScriptFollowed'
  <2>1. SUFFICES ASSUME faults' = 0, pc' = pc + 1 PROVE ScriptFollowed'
    BY <1>1, ScriptIs DEF ScriptFollowed
  <2>2. faults = 0
    BY <1>4, <2>1 DEF Growing
  <2>3. pc \in {8, 9, 10, 17, 23, 24, 25}
    BY <1>1, Places
  <2>4. joined' = joined /\ link' = link /\ transparent' = transparent
        /\ passthrough' = passthrough
    BY DEF espVars
  <2>. QED  BY <1>1, <1>2, <2>1, <2>2, <2>3, <2>4, ScriptIs DEF ScriptFollowed
<1>7. \A tx \in pool' : tx \in Transactions /\ (tx.kind = "setdocTx" => Publishes(tx.to, tx.doc))
  <2>. SUFFICES ASSUME NEW tx \in pool'
                PROVE  tx \in Transactions /\ (tx.kind = "setdocTx" => Publishes(tx.to, tx.doc))
    OBVIOUS
  <2>1. CASE tx \in pool
    BY <2>1, <1>2 DEF ValuesOK, DocumentOK
  <2>2. CASE tx \in Sent(q) /\ Valid(tx)
    BY <2>2, <1>1, SentIs
  <2>. QED  BY <1>3, <2>1, <2>2
<1>8. \A tx \in pool' : tx.kind = "setdocTx" =>
        \/ tx.doc = Document(tx.to) /\ tx.doc \in ipfs'
        \/ tx.doc = Garbage /\ faults' > 0
  BY <1>4, <1>7, PublishesStays
<1>9. /\ rxbuf'.kind \in {"plain", "count", "hash", "receipt", "block", "added"}
      /\ rxbuf'.kind \in {"count", "receipt"} => rxbuf'.value \in Numbers
      /\ rxbuf'.kind = "added" => pc' > 17
  <2>1. CASE rxbuf' = rxbuf
    BY <2>1, <1>1, <1>2 DEF TypeOK, ValuesOK
  <2>2. CASE rxbuf' = Plain
    BY <2>2 DEF Plain
  <2>3. CASE rxbuf' = Reply("count", Num(mined))
    BY <2>3, <1>2, Kinds DEF Reply, TypeOK
  <2>4. CASE \E tx \in Sent(q) : rxbuf' = Reply("hash", tx)
    BY <2>4 DEF Reply
  <2>5. CASE /\ transactionHash \in receipts
             /\ rxbuf' = Reply("receipt", transactionHash.nonce)
    <3>1. transactionHash.nonce \in Numbers
      BY <2>5, <1>2, TransactionsAre DEF ValuesOK
    <3>. QED  BY <2>5, <3>1 DEF Reply
  <2>6. CASE rxbuf' = Reply("block", Garbage)
    BY <2>6 DEF Reply
  <2>7. CASE q = "ipfs" /\ rxbuf' = Reply("added", diddocument)
    <3>1. pc = 17
      BY <1>1, <2>7, Places
    <3>. QED  BY <2>7, <3>1, <1>1 DEF Reply
  <2>. QED  BY <1>2, <2>1, <2>2, <2>3, <2>4, <2>5, <2>6, <2>7, ExchangeIs
<1>. QED  BY <1>1, <1>3, <1>4, <1>5, <1>6, <1>7, <1>8, <1>9

-----------------------------------------------------------------------------
(* The steps.                                                              *)

\* The flags stay Boolean.
LEMMA FlagsStay ==
  ASSUME TypeOK, UNCHANGED flags
  PROVE  DMIDgeneration_flag' \in BOOLEAN /\ wifi_initialize_finish_flag' \in BOOLEAN
BY DEF flags, TypeOK

\* The ESP32's modes keep their types when no command reaches it.
LEMMA EspStays ==
  ASSUME TypeOK, UNCHANGED espVars
  PROVE  /\ link' \in {"none", "ethereum", "ipfs"}
         /\ joined' \in BOOLEAN /\ transparent' \in BOOLEAN /\ passthrough' \in BOOLEAN
         /\ transparent' => link' # "none" /\ passthrough'
BY DEF espVars, TypeOK

\* Nothing but the flags and the position changes.
LEMMA PositionStep ==
  ASSUME IInv, UNCHANGED <<rxbuf, locals, espVars, node, ipfs>>,
         DMIDgeneration_flag' \in BOOLEAN, wifi_initialize_finish_flag' \in BOOLEAN,
         \/ pc' = pc /\ faults' = faults
         \/ pc = 0 /\ pc' = 1 /\ faults' = faults
         \/ pc = 16 /\ pc' = 17 /\ faults' = faults
         \/ pc = 16 /\ pc' = 27 /\ faults < MaxFaults /\ faults' = faults + 1
  PROVE  IInv'
<1>1. TypeOK /\ ValuesOK /\ ScriptFollowed /\ DocumentOK /\ StoredDocumentIsOwn
  BY DEF IInv
<1>2. pc \in 0 .. 27 /\ faults \in Nat /\ faults \in 0 .. MaxFaults
  BY <1>1, ScriptIs, ProvisioningAssumption DEF TypeOK
<1>3. pc' \in 0 .. 27 /\ faults' \in 0 .. MaxFaults /\ Growing
  BY <1>2, ProvisioningAssumption DEF Growing
<1>4. UNCHANGED <<rxbuf, nonce, transactionHash, contractAddress, diddocument, contentHash,
                  mined, pool, receipts, contracts, ipfs>>
  BY DEF locals, node
<1>5. UNCHANGED <<joined, link, transparent, passthrough>>
  BY DEF espVars
<1>6. TypeOK'
  BY <1>1, <1>3, <1>4, EspStays, ScriptIs DEF TypeOK
<1>7. ValuesOK'
  BY <1>1, <1>2, <1>4 DEF ValuesOK
<1>8. ScriptFollowed'
  <2>. SUFFICES ASSUME faults' = 0 PROVE ScriptFollowed'
    BY DEF ScriptFollowed
  <2>. QED  BY <1>1, <1>2, <1>5, ScriptIs DEF ScriptFollowed
<1>9. StoredDocumentIsOwn'
  BY <1>1, <1>3, <1>4, StoredStays
<1>10. DocumentOK'
  <2>1. pc' \in 11 .. 26 => diddocument' = Document(contractAddress')
    BY <1>1, <1>2, <1>4 DEF DocumentOK
  <2>2. pc' <= 17 => contentHash' = Garbage
    BY <1>1, <1>2, <1>4 DEF DocumentOK
  <2>3. pc' \in 18 .. 26 => Publishes(contractAddress, contentHash)'
    <3>1. CASE pc' = pc /\ pc \in 18 .. 26
      <4>1. Publishes(contractAddress, contentHash)
        BY <1>1, <3>1 DEF DocumentOK
      <4>. QED  BY <4>1, <1>3, <1>4, PublishesStays DEF Publishes
    <3>. QED  BY <3>1
  <2>4. \A tx \in pool' : tx.kind = "setdocTx" => Publishes(tx.to, tx.doc)'
    BY <1>1, <1>3, <1>4, PublishesStays DEF DocumentOK, Publishes
  <2>. QED  BY <2>1, <2>2, <2>3, <2>4 DEF DocumentOK
<1>. QED  BY <1>6, <1>7, <1>8, <1>9, <1>10 DEF IInv

LEMMA SendCmdStep == ASSUME IInv, SendCmd PROVE IInv'
<1>1. TypeOK /\ ValuesOK /\ ScriptFollowed /\ DocumentOK /\ StoredDocumentIsOwn
  BY DEF IInv
<1>2. /\ pc \in 1 .. 25 /\ Script[pc] \in AtCommands /\ pc' = pc + 1
      /\ rxbuf' \in {rxbuf, Plain}
      /\ UNCHANGED <<nonce, transactionHash, contractAddress, diddocument, contentHash,
                     mined, pool, receipts, contracts, ipfs>>
      /\ UNCHANGED flags
  BY ScriptIs DEF SendCmd, GoOn, locals, node
<1>3. \/ Obey(Script[pc]) /\ faults' = faults
      \/ faults < MaxFaults /\ faults' = faults + 1 /\ UNCHANGED espVars
  BY DEF SendCmd
<1>4. faults \in Nat /\ faults' \in 0 .. MaxFaults /\ Growing
  BY <1>1, <1>2, <1>3, ProvisioningAssumption DEF Growing, TypeOK
<1>5. pc \notin {8, 9, 10, 16, 17, 23, 24, 25}
  BY <1>2, Places
<1>6. /\ link' \in {"none", "ethereum", "ipfs"}
      /\ joined' \in BOOLEAN /\ transparent' \in BOOLEAN /\ passthrough' \in BOOLEAN
      /\ transparent' => link' # "none" /\ passthrough'
  BY <1>1, <1>2, <1>3, ObeyTypes, EspStays
<1>7. TypeOK'
  <2>1. rxbuf'.kind \in {"plain", "count", "hash", "receipt", "block", "added"}
    BY <1>1, <1>2 DEF TypeOK, Plain
  <2>2. /\ nonce'.kind \in {"garbage", "num"} /\ contractAddress'.kind \in {"garbage", "num"}
        /\ contentHash'.kind \in {"garbage", "document"} /\ mined' \in Nat
    BY <1>1, <1>2 DEF TypeOK
  <2>3. pc' \in 0 .. Crashed
    BY <1>2, ScriptIs
  <2>. QED  BY <1>1, <1>2, <1>4, <1>6, <2>1, <2>2, <2>3, FlagsStay DEF TypeOK
<1>8. ValuesOK'
  <2>1. /\ rxbuf'.kind \in {"count", "receipt"} => rxbuf'.value \in Numbers
        /\ rxbuf'.kind = "added" => pc' > 17
    BY <1>1, <1>2 DEF ValuesOK, Plain
  <2>. QED  BY <1>1, <1>2, <2>1 DEF ValuesOK
<1>9. ScriptFollowed'
  <2>. SUFFICES ASSUME faults' = 0 PROVE ScriptFollowed'
    BY DEF ScriptFollowed
  <2>1. faults = 0 /\ faults' = faults /\ Obey(Script[pc])
    BY <1>3, <1>4 DEF Growing
  <2>. QED  BY <1>1, <1>2, <2>1, ObeyFollows
<1>10. StoredDocumentIsOwn'
  BY <1>1, <1>2, <1>4, StoredStays
<1>11. DocumentOK'
  <2>1. pc' \in 11 .. 26 => diddocument' = Document(contractAddress')
    BY <1>1, <1>2, <1>5 DEF DocumentOK
  <2>2. pc' <= 17 => contentHash' = Garbage
    BY <1>1, <1>2 DEF DocumentOK
  <2>3. pc' \in 18 .. 26 => Publishes(contractAddress, contentHash)'
    <3>1. CASE pc \in 18 .. 26
      <4>1. Publishes(contractAddress, contentHash)
        BY <1>1, <3>1 DEF DocumentOK
      <4>. QED  BY <4>1, <1>2, <1>4, PublishesStays DEF Publishes
    <3>. QED  BY <1>2, <1>5, <3>1
  <2>4. \A tx \in pool' : tx.kind = "setdocTx" => Publishes(tx.to, tx.doc)'
    BY <1>1, <1>2, <1>4, PublishesStays DEF DocumentOK, Publishes
  <2>. QED  BY <2>1, <2>2, <2>3, <2>4 DEF DocumentOK
<1>. QED  BY <1>7, <1>8, <1>9, <1>10, <1>11 DEF IInv

\* What is left to show for a request: the value its parser fills in.
LEMMA ExchangeStep ==
  ASSUME IInv, NEW q \in {"nonce", "deploy", "receipt", "ipfs", "setdoc", "blockNumber"},
         At(q), Exchange(q), pc' \in {pc + 1, Crashed}, UNCHANGED <<flags, espVars>>,
         nonce' \in Names, contractAddress' \in Names,
         diddocument' \in Hashes, contentHash' \in Hashes,
         pc' \in 11 .. 26 => diddocument' = Document(contractAddress'),
         pc' <= 17 => contentHash' = Garbage,
         pc' \in 18 .. 26 => Publishes(contractAddress, contentHash)'
  PROVE  IInv'
<1>1. TypeOK /\ ValuesOK
  BY DEF IInv
<1>2. /\ Growing /\ pc \in 1 .. 25 /\ pc' \in {pc + 1, 27} /\ faults' \in 0 .. MaxFaults
      /\ UNCHANGED <<mined, receipts, contracts>>
      /\ ScriptFollowed' /\ StoredDocumentIsOwn'
  BY ExchangeKeeps
<1>3. /\ rxbuf'.kind \in {"plain", "count", "hash", "receipt", "block", "added"}
      /\ rxbuf'.kind \in {"count", "receipt"} => rxbuf'.value \in Numbers
      /\ rxbuf'.kind = "added" => pc' > 17
      /\ pool' \subseteq Transactions
  BY ExchangeKeeps
<1>4. \A tx \in pool' : tx.kind = "setdocTx" => Publishes(tx.to, tx.doc)'
  BY ExchangeKeeps DEF Publishes
<1>5. TypeOK'
  <2>1. pc' \in 0 .. Crashed /\ mined' \in Nat
    BY <1>1, <1>2, ScriptIs DEF TypeOK
  <2>2. /\ nonce'.kind \in {"garbage", "num"} /\ contractAddress'.kind \in {"garbage", "num"}
        /\ contentHash'.kind \in {"garbage", "document"}
    BY Kinds
  <2>. QED  BY <1>1, <1>2, <1>3, <2>1, <2>2, FlagsStay, EspStays DEF TypeOK
<1>6. ValuesOK'
  BY <1>1, <1>2, <1>3 DEF ValuesOK
<1>7. DocumentOK'
  BY <1>4 DEF DocumentOK
<1>. QED  BY <1>2, <1>5, <1>6, <1>7 DEF IInv

\* A request whose parser does not touch the document.
LEMMA OtherRequest ==
  ASSUME IInv, NEW q \in {"nonce", "deploy", "setdoc", "blockNumber"},
         At(q), Exchange(q), pc' \in {pc + 1, Crashed}, UNCHANGED <<flags, espVars>>,
         nonce' \in Names,
         UNCHANGED <<contractAddress, diddocument, contentHash>>
  PROVE  IInv'
<1>1. /\ Growing /\ pc \in 1 .. 25 /\ Script[pc] = q /\ pc' \in {pc + 1, 27}
  BY ExchangeKeeps
<1>2. pc \in {8, 9, 23, 24, 25}
  BY <1>1, Places
<1>3. ValuesOK /\ DocumentOK
  BY DEF IInv
<1>4. pc' \in 18 .. 26 => Publishes(contractAddress, contentHash)'
  BY <1>1, <1>2, <1>3, PublishesStays DEF DocumentOK, Publishes
<1>5. pc' \in 11 .. 26 => diddocument' = Document(contractAddress')
  BY <1>1, <1>2, <1>3 DEF DocumentOK
<1>6. pc' <= 17 => contentHash' = Garbage
  BY <1>1, <1>2, <1>3 DEF DocumentOK
<1>. QED  BY <1>3, <1>4, <1>5, <1>6, ExchangeStep DEF ValuesOK

LEMMA NonceStep == ASSUME IInv, freshTransactionNonce PROVE IInv'
<1>1. At("nonce") /\ Exchange("nonce") /\ UNCHANGED <<flags, espVars>>
      /\ UNCHANGED <<contractAddress, diddocument, contentHash>>
      /\ nonce' = getNonceFromHTTPResponse(rxbuf') /\ pc' \in {pc + 1, Crashed}
  BY DEF freshTransactionNonce, Parsed, GoOn
<1>2. rxbuf'.kind \in {"count", "receipt"} => rxbuf'.value \in Numbers
  BY <1>1, ExchangeKeeps
<1>3. nonce' \in Names
  BY <1>1, <1>2, Kinds DEF getNonceFromHTTPResponse
<1>. QED  BY <1>1, <1>3, OtherRequest

LEMMA DeployStep == ASSUME IInv, DeployContract PROVE IInv'
<1>1. nonce \in Names
  BY DEF IInv, ValuesOK
<1>. QED  BY <1>1, OtherRequest DEF DeployContract, Parsed, GoOn

LEMMA SetDocumentStep == ASSUME IInv, SetDocument PROVE IInv'
<1>1. nonce \in Names
  BY DEF IInv, ValuesOK
<1>. QED  BY <1>1, OtherRequest DEF SetDocument, GoOn, locals

LEMMA BlockNumberStep == ASSUME IInv, AskBlockNumber PROVE IInv'
<1>1. nonce \in Names
  BY DEF IInv, ValuesOK
<1>. QED  BY <1>1, OtherRequest DEF AskBlockNumber, GoOn, locals

\* The DID and its document are built from the address in the answer.
LEMMA ReceiptStep == ASSUME IInv, ReadReceipt PROVE IInv'
<1>1. At("receipt") /\ Exchange("receipt") /\ UNCHANGED <<flags, espVars>>
      /\ UNCHANGED <<nonce, contentHash>>
      /\ contractAddress' = getContractAddressFromHTTPResponse(rxbuf')
      /\ diddocument' = Document(contractAddress') /\ pc' \in {pc + 1, Crashed}
  BY DEF ReadReceipt, Parsed, GoOn
<1>2. /\ pc \in 1 .. 25 /\ Script[pc] = "receipt" /\ pc' \in {pc + 1, 27}
      /\ rxbuf'.kind \in {"count", "receipt"} => rxbuf'.value \in Numbers
  BY <1>1, ExchangeKeeps
<1>3. pc = 10 /\ pc' \in {11, 27}
  BY <1>2, Places
<1>4. contractAddress' \in Names
  BY <1>1, <1>2, Kinds DEF getContractAddressFromHTTPResponse
<1>5. diddocument' \in Hashes
  BY <1>1, <1>4, Kinds
<1>6. nonce' \in Names /\ contentHash' \in Hashes /\ contentHash' = Garbage
  BY <1>1, <1>3 DEF IInv, ValuesOK, DocumentOK
<1>. QED  BY <1>1, <1>3, <1>4, <1>5, <1>6, ExchangeStep

\* The hash is known only after the upload: what the buffer held before is not
\* an answer of the gateway.
LEMMA IpfsStep == ASSUME IInv, AddToIpfs PROVE IInv'
<1>1. At("ipfs") /\ Exchange("ipfs") /\ UNCHANGED <<flags, espVars>>
      /\ UNCHANGED <<nonce, contractAddress, diddocument>>
      /\ contentHash' = getIPFSAddContentHash(rxbuf') /\ pc' \in {pc + 1, Crashed}
  BY DEF AddToIpfs, Parsed, GoOn
<1>2. pc \in 1 .. 25 /\ Script[pc] = "ipfs" /\ pc' \in {pc + 1, 27} /\ Growing
      /\ faults' \in 0 .. MaxFaults
  BY <1>1, ExchangeKeeps
<1>3. pc = 17 /\ pc' \in {18, 27}
  BY <1>2, Places
<1>4. TypeOK /\ ValuesOK /\ DocumentOK /\ ScriptFollowed
  BY DEF IInv
<1>5. diddocument = Document(contractAddress) /\ diddocument \in Hashes
      /\ nonce \in Names /\ contractAddress \in Names
  BY <1>3, <1>4 DEF DocumentOK, ValuesOK
<1>6. CASE rxbuf'.kind = "added"
  <2>1. rxbuf' # rxbuf
    BY <1>3, <1>4, <1>6 DEF ValuesOK
  <2>2. rxbuf' = Reply("added", diddocument) /\ diddocument \in ipfs'
    BY <1>1, <1>4, <1>6, <2>1, ExchangeIs DEF Reply, Plain
  <2>3. contentHash' = diddocument
    BY <1>1, <2>2 DEF getIPFSAddContentHash, Reply
  <2>4. Publishes(contractAddress, contentHash)'
    BY <1>1, <1>5, <2>2, <2>3 DEF Publishes
  <2>. QED  BY <1>1, <1>3, <1>5, <2>3, <2>4, ExchangeStep
<1>7. CASE rxbuf'.kind # "added"
  <2>1. contentHash' = Garbage
    BY <1>1, <1>7 DEF getIPFSAddContentHash
  <2>2. faults' # 0
    <3>. SUFFICES ASSUME faults' = 0 PROVE FALSE
      OBVIOUS
    <3>1. faults = 0
      BY <1>2 DEF Growing
    <3>2. transparent /\ link = "ipfs"
      BY <1>3, <1>4, <3>1, ScriptIs DEF ScriptFollowed
    <3>3. rxbuf' = Reply("added", diddocument)
      BY <1>1, <1>4, <3>2, ExchangeIs
    <3>. QED  BY <1>7, <3>3 DEF Reply
  <2>3. Publishes(contractAddress, contentHash)'
    BY <1>2, <2>1, <2>2, ProvisioningAssumption DEF Publishes
  <2>. QED  BY <1>1, <1>3, <1>5, <2>1, <2>3, ExchangeStep, Kinds
<1>. QED  BY <1>6, <1>7

\* A transaction in a block: a new contract, or a document in its own one.
LEMMA MineStep == ASSUME IInv, Mine PROVE IInv'
<1>. DEFINE Contract == [address : Numbers, storage : Storage]
<1>1. TypeOK /\ ValuesOK /\ ScriptFollowed /\ DocumentOK /\ StoredDocumentIsOwn
  BY DEF IInv
<1>2. PICK tx \in pool :
        /\ tx.nonce = Num(mined)
        /\ pool' = pool \ {tx} /\ mined' = mined + 1 /\ receipts' = receipts \cup {tx}
        /\ \/ /\ tx.kind = "deployTx"
              /\ contracts' = Append(contracts,
                                [address |-> tx.nonce, storage |-> Deployed(Device)])
              /\ faults' = faults
           \/ /\ tx.kind = "setdocTx"
              /\ contracts' = [i \in DOMAIN contracts |->
                   IF contracts[i].address = tx.to
                      /\ OwnerMay(contracts[i].storage, Device)
                   THEN [contracts[i] EXCEPT !.storage = AddDMIDDocument(@, tx.doc)]
                   ELSE contracts[i]]
              /\ faults' = faults
           \/ faults < MaxFaults /\ faults' = faults + 1 /\ contracts' = contracts
        /\ UNCHANGED <<flags, pc, rxbuf, locals, espVars, ipfs>>
  BY DEF Mine
<1>3. faults \in Nat /\ faults' \in 0 .. MaxFaults /\ Growing
  BY <1>1, <1>2, ProvisioningAssumption DEF Growing, TypeOK
<1>4. tx \in Transactions /\ tx.nonce \in Numbers
      /\ contracts \in Seq(Contract)
  BY <1>1, TransactionsAre DEF ValuesOK
<1>5. UNCHANGED <<nonce, transactionHash, contractAddress, diddocument, contentHash>>
  BY <1>2 DEF locals
<1>6. UNCHANGED <<joined, link, transparent, passthrough>>
  BY <1>2 DEF espVars
<1>7. TypeOK'
  BY <1>1, <1>2, <1>3, <1>5, FlagsStay, EspStays DEF TypeOK
<1>8. ScriptFollowed'
  <2>. SUFFICES ASSUME faults' = 0 PROVE ScriptFollowed'
    BY DEF ScriptFollowed
  <2>1. faults = 0
    BY <1>3 DEF Growing
  <2>. QED  BY <1>1, <1>2, <1>6, <2>1, ScriptIs DEF ScriptFollowed
<1>9. DocumentOK'
  <2>1. pc' \in 18 .. 26 => Publishes(contractAddress, contentHash)'
    BY <1>1, <1>2, <1>3, <1>5, PublishesStays DEF DocumentOK, Publishes
  <2>2. \A u \in pool' : u.kind = "setdocTx" => Publishes(u.to, u.doc)'
    BY <1>1, <1>2, <1>3, PublishesStays DEF DocumentOK, Publishes
  <2>. QED  BY <1>1, <1>2, <1>5, <2>1, <2>2 DEF DocumentOK
<1>10. pool' \subseteq Transactions /\ receipts' \subseteq Transactions
  BY <1>1, <1>2, <1>4 DEF ValuesOK
<1>11. contracts' \in Seq(Contract) /\ StoredDocumentIsOwn'
  <2>1. CASE /\ tx.kind = "deployTx"
             /\ contracts' = Append(contracts,
                               [address |-> tx.nonce, storage |-> Deployed(Device)])
    <3>. DEFINE c == [address |-> tx.nonce, storage |-> Deployed(Device)]
    <3>1. Deployed(Device) \in Storage
      BY DEF Deployed, Storage
    <3>2. c \in Contract /\ Stored(c) = NoText
      BY <1>4, <3>1 DEF Deployed, Stored
    <3>3. contracts' \in Seq(Contract)
      BY <1>4, <2>1, <3>2
    <3>4. DOMAIN contracts' = 1 .. Len(contracts) + 1 /\ DOMAIN contracts = 1 .. Len(contracts)
      BY <1>4, <2>1
    <3>5. \A i \in DOMAIN contracts' :
            IF i \in DOMAIN contracts THEN contracts'[i] = contracts[i] ELSE contracts'[i] = c
      BY <1>4, <2>1, <3>4
    <3>. SUFFICES ASSUME NEW i \in DOMAIN contracts'
                  PROVE  \/ Stored(contracts'[i]) = NoText
                         \/ Stored(contracts'[i]) = Garbage /\ faults' > 0
                         \/ /\ Stored(contracts'[i]) = Document(contracts'[i].address)
                            /\ Stored(contracts'[i]) \in ipfs'
      BY <3>3 DEF StoredDocumentIsOwn, Stored
    <3>6. CASE i \in DOMAIN contracts
      BY <1>1, <1>3, <3>5, <3>6 DEF StoredDocumentIsOwn, Growing
    <3>7. CASE i \notin DOMAIN contracts
      BY <3>2, <3>5, <3>7
    <3>. QED  BY <3>6, <3>7
  <2>2. CASE /\ tx.kind = "setdocTx"
             /\ contracts' = [i \in DOMAIN contracts |->
                  IF contracts[i].address = tx.to
                     /\ OwnerMay(contracts[i].storage, Device)
                  THEN [contracts[i] EXCEPT !.storage = AddDMIDDocument(@, tx.doc)]
                  ELSE contracts[i]]
    <3>1. tx.doc \in Hashes
      BY <1>4, <2>2, TransactionsAre
    <3>2. \/ tx.doc = Document(tx.to) /\ tx.doc \in ipfs'
          \/ tx.doc = Garbage /\ faults' > 0
      BY <1>1, <1>3, <2>2, PublishesStays DEF DocumentOK
    <3>3. ASSUME NEW i \in DOMAIN contracts
          PROVE  /\ contracts'[i] \in Contract
                 /\ contracts'[i] = contracts[i]
                    \/ (/\ contracts'[i].address = tx.to
                        /\ Stored(contracts'[i]) = tx.doc)
      <4>. DEFINE c == contracts[i]
      <4>1. c \in Contract
        <5>1. DOMAIN contracts = 1 .. Len(contracts)
          BY <1>4
        <5>. QED  BY <1>4, <5>1, ElementOfSeq
      <4>2. AddDMIDDocument(c.storage, tx.doc) \in Storage
            /\ AddDMIDDocument(c.storage, tx.doc).didDocument = tx.doc
        BY <3>1, <4>1 DEF AddDMIDDocument, Storage
      <4>3. CASE c.address = tx.to /\ OwnerMay(c.storage, Device)
        <5>1. contracts'[i] = [c EXCEPT !.storage = AddDMIDDocument(@, tx.doc)]
          BY <2>2, <4>3
        <5>. QED  BY <4>1, <4>2, <4>3, <5>1 DEF Stored
      <4>4. CASE ~(c.address = tx.to /\ OwnerMay(c.storage, Device))
        BY <2>2, <4>1, <4>4
      <4>. QED  BY <4>3, <4>4
    <3>4. DOMAIN contracts' = DOMAIN contracts
      BY <2>2
    <3>5. contracts' \in Seq(Contract)
      <4>1. DOMAIN contracts = 1 .. Len(contracts) /\ Len(contracts) \in Nat
        BY <1>4
      <4>2. contracts' \in [1 .. Len(contracts) -> Contract]
        BY <2>2, <3>3, <4>1
      <4>. QED  BY ZenonT(30), <4>1, <4>2, SeqDef
    <3>. SUFFICES ASSUME NEW i \in DOMAIN contracts
                  PROVE  \/ Stored(contracts'[i]) = NoText
                         \/ Stored(contracts'[i]) = Garbage /\ faults' > 0
                         \/ /\ Stored(contracts'[i]) = Document(contracts'[i].address)
                            /\ Stored(contracts'[i]) \in ipfs'
      BY <3>4, <3>5 DEF StoredDocumentIsOwn, Stored
    <3>6. CASE contracts'[i] = contracts[i]
      BY <1>1, <1>3, <3>6 DEF StoredDocumentIsOwn, Growing
    <3>7. CASE contracts'[i].address = tx.to /\ Stored(contracts'[i]) = tx.doc
      BY <3>2, <3>7
    <3>. QED  BY <3>3, <3>6, <3>7
  <2>3. CASE contracts' = contracts
    BY <1>1, <1>3, <1>4, <2>3, StoredStays
  <2>. QED  BY <1>2, <2>1, <2>2, <2>3
<1>12. ValuesOK'
  BY <1>1, <1>2, <1>5, <1>10, <1>11 DEF ValuesOK
<1>. QED  BY <1>7, <1>8, <1>9, <1>11, <1>12 DEF IInv

-----------------------------------------------------------------------------
(* The theorems.                                                           *)

\* Every step of the program keeps the invariant.
\* The device stops in a transmission.
LEMMA TearStep == ASSUME IInv, TearSend PROVE IInv'
<1>1. TypeOK /\ ValuesOK /\ DocumentOK /\ StoredDocumentIsOwn
  BY DEF IInv
<1>2. /\ pc \in 1 .. 25 /\ pc' = 27 /\ faults < MaxFaults /\ faults' = faults + 1
      /\ UNCHANGED <<rxbuf, nonce, transactionHash, contractAddress, diddocument, contentHash>>
      /\ UNCHANGED flags
  BY ScriptIs DEF TearSend, locals
<1>3. /\ ipfs \subseteq ipfs' /\ UNCHANGED <<mined, receipts, contracts>>
      /\ pool' \subseteq pool \cup {tx \in Sent(Script[pc]) : Valid(tx)}
  <2>1. CASE Script[pc] \in AtCommands
    BY <2>1 DEF TearSend, node
  <2>2. CASE Script[pc] \notin AtCommands
    BY <2>2, UnansweredIs DEF TearSend
  <2>. QED  BY <2>1, <2>2
<1>4. /\ link' \in {"none", "ethereum", "ipfs"}
      /\ joined' \in BOOLEAN /\ transparent' \in BOOLEAN /\ passthrough' \in BOOLEAN
      /\ transparent' => link' # "none" /\ passthrough'
  <2>1. CASE Script[pc] \in AtCommands
    BY <1>1, <2>1, ObeyTypes DEF TearSend
  <2>2. CASE Script[pc] \notin AtCommands
    BY <1>1, <2>2, EspStays DEF TearSend
  <2>. QED  BY <2>1, <2>2
<1>5. Growing /\ faults' \in 0 .. MaxFaults
  BY <1>1, <1>2, <1>3, ProvisioningAssumption DEF Growing, TypeOK
<1>6. TypeOK'
  <2>1. pc' \in 0 .. Crashed
    BY <1>2, ScriptIs
  <2>. QED  BY <1>1, <1>2, <1>3, <1>4, <1>5, <2>1, FlagsStay DEF TypeOK
<1>7. \A tx \in pool' : tx \in Transactions /\ (tx.kind = "setdocTx" => Publishes(tx.to, tx.doc))
  BY <1>1, <1>2, <1>3, SentIs DEF ValuesOK, DocumentOK
<1>8. ValuesOK'
  BY <1>1, <1>2, <1>3, <1>7 DEF ValuesOK
<1>9. ScriptFollowed'
  BY <1>2, ScriptIs DEF ScriptFollowed
<1>10. DocumentOK'
  <2>1. \A tx \in pool' : tx.kind = "setdocTx" => Publishes(tx.to, tx.doc)'
    BY <1>5, <1>7, PublishesStays DEF Publishes
  <2>. QED  BY <1>2, <2>1 DEF DocumentOK
<1>11. StoredDocumentIsOwn'
  BY <1>1, <1>3, <1>5, StoredStays
<1>. QED  BY <1>6, <1>8, <1>9, <1>10, <1>11 DEF IInv

LEMMA NextStep == ASSUME IInv, [Next]_vars PROVE IInv'
<1>1. CASE Trigger
  BY <1>1, PositionStep DEF Trigger, IInv, TypeOK
<1>2. CASE WifiInitialized
  BY <1>2, PositionStep DEF WifiInitialized, IInv, TypeOK
<1>3. CASE Begin
  <2>1. DMIDgeneration_flag' \in BOOLEAN /\ wifi_initialize_finish_flag' \in BOOLEAN
    BY <1>3, FlagsStay DEF Begin, IInv
  <2>. QED  BY <1>3, <2>1, PositionStep DEF Begin
<1>4. CASE SendCmd
  BY <1>4, SendCmdStep
<1>5. CASE freshTransactionNonce
  BY <1>5, NonceStep
<1>6. CASE DeployContract
  BY <1>6, DeployStep
<1>7. CASE ReadReceipt
  BY <1>7, ReceiptStep
<1>8. CASE DrawBoundary
  <2>1. DMIDgeneration_flag' \in BOOLEAN /\ wifi_initialize_finish_flag' \in BOOLEAN
    BY <1>8, FlagsStay DEF DrawBoundary, IInv
  <2>2. pc = 16
    BY <1>8, ScriptIs, Places DEF DrawBoundary
  <2>. QED  BY <1>8, <2>1, <2>2, ScriptIs, PositionStep DEF DrawBoundary
<1>9. CASE AddToIpfs
  BY <1>9, IpfsStep
<1>10. CASE SetDocument
  BY <1>10, SetDocumentStep
<1>11. CASE AskBlockNumber
  BY <1>11, BlockNumberStep
<1>12. CASE Mine
  BY <1>12, MineStep
<1>14. CASE TearSend
  BY <1>14, TearStep
<1>13. CASE UNCHANGED vars
  <2>1. UNCHANGED <<flags, pc, rxbuf, locals, espVars, node, ipfs, faults>>
    BY <1>13 DEF vars
  <2>2. DMIDgeneration_flag' \in BOOLEAN /\ wifi_initialize_finish_flag' \in BOOLEAN
    BY <2>1, FlagsStay DEF IInv
  <2>. QED  BY <2>1, <2>2, PositionStep
<1>. QED  BY <1>1, <1>2, <1>3, <1>4, <1>5, <1>6, <1>7, <1>8, <1>9, <1>10, <1>11,
             <1>12, <1>13, <1>14 DEF Next, Task
LEMMA Invariant == Spec => []IInv
<1>1. IInv /\ [Next]_vars => IInv'
  BY NextStep
<1>. QED  BY <1>1, InitIInv, PTL DEF Spec

\* The state of the run, of the ESP32 and of the chain stays within its sets,
\* and the ESP32 is in transparent mode only on an open connection.
THEOREM TypeCorrect == Spec => []TypeOK
BY Invariant, PTL DEF IInv

\* What a contract stores is nothing, its own published document, or, after a
\* failure, garbage (freertos_usart.c:754-793): whichever exchanges fail and
\* however late the blocks come, never the document of another contract and
\* never one that is not on IPFS.
THEOREM StoredDocument == Spec => []StoredDocumentIsOwn
BY Invariant, PTL DEF IInv

\* As long as nothing failed, the requests of the script find the ESP32 in
\* transparent mode, connected to the server they are meant for
\* (freertos_usart.c:723-779).
THEOREM Requests == Spec => []RequestsReachTheirServer
<1>1. IInv => RequestsReachTheirServer
  <2>. SUFFICES ASSUME IInv, faults = 0, pc \in 1 .. 25
                PROVE  /\ Script[pc] \in {"nonce", "deploy", "receipt", "setdoc", "blockNumber"}
                            => transparent /\ link = "ethereum"
                       /\ Script[pc] = "ipfs" => transparent /\ link = "ipfs"
    BY ScriptIs DEF RequestsReachTheirServer
  <2>. QED  BY Places, ScriptIs DEF IInv, ScriptFollowed
<1>. QED  BY <1>1, Invariant, PTL

=============================================================================
