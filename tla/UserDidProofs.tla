---------------------------- MODULE UserDidProofs ----------------------------
(***************************************************************************)
(* Theorems about UserDid, for any number of threads, fragments and        *)
(* failing calls.                                                          *)
(***************************************************************************)
EXTENDS UserDid, TLAPS

\* The parts of the inductive invariant.  A transaction that writes a document
\* follows the deployment of its contract and the upload of the document.
WritesOK ==
  \A i \in Writes :
    /\ accepted[i].cid = accepted[i].to /\ accepted[i].cid \in published
    /\ accepted[i].to < i - 1 /\ accepted[accepted[i].to + 1].to = null

Stored(c) == \E i \in Writes : i <= mined /\ accepted[i].to = c

\* A thread's contract is one that was deployed, its cid the one of its own
\* document; it has the second before it sends a transaction with the first.
\* The peer it starts is there.
ThreadOK(t) ==
  /\ contract[t] # null =>
       contract[t] < Len(accepted) /\ accepted[contract[t] + 1].to = null
  /\ cid[t] # null => cid[t] = contract[t] /\ cid[t] \in published
  /\ pc[t] \in {"idle", "nonce", "send", "receipt"} /\ cid[t] = null =>
       contract[t] = null
  /\ pc[t] \in {"newPeer", "startPeer", "add"} => contract[t] # null
  /\ pc[t] = "startPeer" => PeerOf(t) # null
  /\ pc[t] = "receipt" => /\ nonce[t] < Len(accepted)
                          /\ accepted[nonce[t] + 1] = Transaction(t)
  /\ pc[t] \in {"acquire", "done"} => Stored(contract[t])
  /\ sent[t] = 5 => pc[t] = "done"

IInv == TypeOK /\ WritesOK /\ \A t \in Threads : ThreadOK(t)

-----------------------------------------------------------------------------
\* The account's transactions grow at their end, the chain and IPFS keep what
\* they have.
Entry == [to : {null} \cup Nat, cid : {null} \cup Nat]
Grows == /\ accepted' = accepted \/ \E e \in Entry : accepted' = Append(accepted, e)
         /\ mined <= mined' /\ published \subseteq published'
         /\ \A f \in Fragments : litePeer[f] # null => litePeer'[f] # null

\* What was accepted keeps its place.
LEMMA PlacesStay ==
  ASSUME TypeOK, Grows
  PROVE  \A i \in 1 .. Len(accepted) :
           i \in 1 .. Len(accepted') /\ accepted'[i] = accepted[i]
<1>1. accepted \in Seq(Entry) /\ Len(accepted) \in Nat BY DEF TypeOK, Entry
<1>2. CASE accepted' = accepted BY <1>2
<1>3. ASSUME NEW e \in Entry, accepted' = Append(accepted, e)
      PROVE  \A i \in 1 .. Len(accepted) :
               i \in 1 .. Len(accepted') /\ accepted'[i] = accepted[i]
  <2>1. Len(accepted') = Len(accepted) + 1 BY <1>1, <1>3
  <2>2. \A i \in 1 .. Len(accepted) : accepted'[i] = accepted[i]
    BY <1>1, <1>3
  <2> QED BY <1>1, <2>1, <2>2
<1> QED BY <1>2, <1>3 DEF Grows

\* A stored document stays stored.
LEMMA StoredStays ==
  ASSUME TypeOK, TypeOK', Grows, NEW c, Stored(c) PROVE Stored(c)'
<1>1. PICK i \in Writes : i <= mined /\ accepted[i].to = c BY DEF Stored
<1>2. i \in Writes' /\ accepted'[i] = accepted[i]
  BY PlacesStay DEF Writes
<1>3. i <= mined'
  <2>1. i \in Nat /\ mined \in Nat /\ mined' \in Nat
    BY DEF Writes, TypeOK
  <2> QED BY <1>1, <2>1 DEF Grows
<1> QED BY <1>1, <1>2, <1>3 DEF Stored

\* What a thread relies on is not touched by the steps of the others.
LEMMA OthersStay ==
  ASSUME TypeOK, TypeOK', Grows, NEW t \in Threads, ThreadOK(t),
         pc'[t] = pc[t], of'[t] = of[t], nonce'[t] = nonce[t],
         contract'[t] = contract[t],
         cid'[t] = cid[t], sent'[t] = sent[t]
  PROVE  ThreadOK(t)'
<1>1. \A n \in Nat : n < Len(accepted) =>
        n < Len(accepted') /\ accepted'[n + 1] = accepted[n + 1]
  <2>1. Len(accepted) \in Nat /\ Len(accepted') \in Nat BY DEF TypeOK
  <2> QED BY <2>1, PlacesStay
<1>2. Stored(contract[t]) => Stored(contract[t])' BY StoredStays
<1>3. /\ nonce[t] \in Nat /\ contract[t] \in {null} \cup Nat
      /\ of[t] \in Fragments
  BY DEF TypeOK
<1>4. published \subseteq published' /\ (PeerOf(t) # null => PeerOf(t)' # null)
  BY <1>3 DEF Grows, PeerOf
<1> QED BY <1>1, <1>2, <1>3, <1>4 DEF ThreadOK, Transaction

\* The writes stay good as long as no other one is accepted.
LEMMA WritesStay ==
  ASSUME TypeOK, WritesOK, accepted' = accepted, published \subseteq published'
  PROVE  WritesOK'
BY DEF WritesOK, Writes

\* A step of one thread preserves the invariant if it preserves its types, the
\* writes and what the thread itself relies on.
LEMMA StepOfOne ==
  ASSUME IInv, TypeOK', WritesOK', Grows, NEW t \in Threads, ThreadOK(t)',
         \A u \in Threads \ {t} :
           /\ pc'[u] = pc[u] /\ of'[u] = of[u]
           /\ nonce'[u] = nonce[u] /\ sent'[u] = sent[u]
           /\ contract'[u] = contract[u] /\ cid'[u] = cid[u]
  PROVE  IInv'
<1>1. ASSUME NEW u \in Threads PROVE ThreadOK(u)'
  <2>1. CASE u = t BY <2>1
  <2>2. CASE u # t BY <2>2, OthersStay DEF IInv
  <2> QED BY <2>1, <2>2
<1> QED BY <1>1 DEF IInv

-----------------------------------------------------------------------------
\* An exception changes the thread's place or ends the application.
LEMMA CatchTypes ==
  ASSUME TypeOK, NEW t \in Threads, Catch(t)
  PROVE  pc' \in [Threads -> Steps] /\ crashed' \in BOOLEAN
<1>1. pc' \in [Threads -> Steps] BY DEF TypeOK, Catch, Go, Steps
<1>2. crashed' \in BOOLEAN
  <2>1. CASE crashed' = TRUE BY <2>1, Zenon
  <2>2. CASE crashed' = crashed BY <2>2, Zenon DEF TypeOK
  <2> QED BY <2>1, <2>2 DEF Catch
<1> QED BY <1>1, <1>2

\* A thread that catches an exception has not shown step 5, and relies on no
\* more than before.
LEMMA CatchStep ==
  ASSUME IInv, TypeOK', Grows, NEW t \in Threads, Catch(t),
         pc[t] \notin {"done", "looping"}
  PROVE  /\ ThreadOK(t)'
         /\ \A u \in Threads \ {t} :
              /\ pc'[u] = pc[u] /\ of'[u] = of[u]
              /\ nonce'[u] = nonce[u] /\ sent'[u] = sent[u]
              /\ contract'[u] = contract[u] /\ cid'[u] = cid[u]
<1>1. UNCHANGED <<of, nonce, contract, cid, sent>> BY DEF Catch
<1>2. \A u \in Threads \ {t} : pc'[u] = pc[u]
  BY DEF Catch, Go, IInv, TypeOK
<1>3. CASE Attached(t)
  <2>1. pc'[t] = "looping" BY <1>3 DEF Catch, Go, IInv, TypeOK
  <2>2. contract[t] # null => /\ contract[t] \in 0 .. Len(accepted) - 1
                              /\ accepted[contract[t] + 1].to = null
    BY DEF IInv, TypeOK, ThreadOK
  <2>3. contract[t] # null => /\ contract[t] < Len(accepted')
                              /\ accepted'[contract[t] + 1].to = null
    <3>1. Len(accepted) \in Nat /\ Len(accepted') \in Nat
      BY DEF IInv, TypeOK
    <3> QED BY <2>2, <3>1, PlacesStay DEF IInv
  <2>4. cid[t] # null => cid[t] = contract[t] /\ cid[t] \in published'
    BY DEF IInv, ThreadOK, Grows
  <2>5. sent[t] # 5 BY DEF IInv, ThreadOK
  <2> QED BY <1>1, <1>2, <2>1, <2>3, <2>4, <2>5 DEF ThreadOK
<1>4. CASE ~Attached(t)
  <2>1. pc' = pc BY <1>4 DEF Catch
  <2> QED BY <1>1, <2>1, OthersStay DEF IInv
<1> QED BY <1>3, <1>4

-----------------------------------------------------------------------------
(* Steps that only change the thread's own variables.                      *)

\* They leave what the threads share as it is.
LEMMA SharedStays ==
  ASSUME IInv, UNCHANGED <<accepted, mined, published, litePeer>>
  PROVE  Grows /\ WritesOK'
<1>1. Grows
  BY DEF Grows, IInv, TypeOK
<1> QED BY <1>1, WritesStay DEF IInv

\* A receipt that is waited for belongs to the thread's own transaction.
LEMMA ReceiptFacts ==
  ASSUME IInv, NEW t \in Threads, pc[t] = "receipt"
  PROVE  /\ nonce[t] \in Nat /\ mined \in Nat /\ nonce[t] < Len(accepted)
         /\ accepted[nonce[t] + 1].to = contract[t]
<1>1. nonce[t] < Len(accepted) /\ accepted[nonce[t] + 1] = Transaction(t)
  BY DEF IInv, ThreadOK
<1>2. nonce[t] \in Nat /\ mined \in Nat
  BY DEF IInv, TypeOK
<1> QED BY <1>1, <1>2 DEF Transaction

LEMMA PressStep == ASSUME IInv, NEW t \in Threads, Press(t) PROVE IInv'
<1>1. /\ pc' = [pc EXCEPT ![t] = "nonce"] /\ of' = [of EXCEPT ![t] = fragment]
      /\ sent' = [sent EXCEPT ![t] = 1] /\ pc[t] = "idle"
      /\ UNCHANGED <<nonce, contract, cid, appVars, chainVars, history>>
  BY DEF Press, At, Go
<1>2. TypeOK'
  BY <1>1 DEF IInv, TypeOK, Steps, appVars, chainVars, history
<1>3. ThreadOK(t)'
  BY <1>1 DEF IInv, TypeOK, ThreadOK, appVars, chainVars, history
<1> QED
  BY <1>1, <1>2, <1>3, SharedStays, StepOfOne
  DEF IInv, TypeOK, appVars, chainVars, history

LEMMA FetchNonceStep ==
  ASSUME IInv, NEW t \in Threads, FetchNonce(t) PROVE IInv'
<1>1. /\ pc' = [pc EXCEPT ![t] = "send"] /\ pc[t] = "nonce"
      /\ nonce' = [nonce EXCEPT ![t] = Len(accepted)]
      /\ UNCHANGED <<of, contract, cid, sent, appVars, chainVars, history>>
  BY DEF FetchNonce, PendingCount, At, Go
<1>2. TypeOK'
  BY <1>1 DEF IInv, TypeOK, Steps, appVars, chainVars, history
<1>3. ThreadOK(t)'
  BY <1>1 DEF IInv, TypeOK, ThreadOK, appVars, chainVars, history
<1> QED
  BY <1>1, <1>2, <1>3, SharedStays, StepOfOne
  DEF IInv, TypeOK, appVars, chainVars, history

\* The contract of a deployment's receipt is the one it has deployed.
LEMMA DeployReceiptStep ==
  ASSUME IInv, NEW t \in Threads, DeployReceipt(t) PROVE IInv'
<1>1. /\ pc' = [pc EXCEPT ![t] = "newPeer"] /\ pc[t] = "receipt"
      /\ contract' = [contract EXCEPT ![t] = nonce[t]] /\ contract[t] = null
      /\ sent' = [sent EXCEPT ![t] = 3]
      /\ UNCHANGED <<of, nonce, cid, appVars, chainVars, history>>
  BY DEF DeployReceipt, At, Go
<1>2. TypeOK'
  BY <1>1 DEF IInv, TypeOK, Steps, appVars, chainVars, history
<1>3. /\ nonce[t] \in Nat /\ nonce[t] < Len(accepted)
      /\ accepted[nonce[t] + 1].to = null
  BY <1>1, ReceiptFacts
<1>4. cid[t] = null
  BY <1>1 DEF IInv, ThreadOK
<1>5. ThreadOK(t)'
  BY <1>1, <1>3, <1>4, ConstantsAssumption
  DEF IInv, TypeOK, ThreadOK, appVars, chainVars, history
<1> QED
  BY <1>1, <1>2, <1>5, SharedStays, StepOfOne
  DEF IInv, TypeOK, appVars, chainVars, history

\* The receipt of the other transaction: the document is stored.
LEMMA DocumentReceiptStep ==
  ASSUME IInv, NEW t \in Threads, DocumentReceipt(t) PROVE IInv'
<1>1. /\ pc' = [pc EXCEPT ![t] = "acquire"] /\ pc[t] = "receipt"
      /\ contract[t] # null /\ nonce[t] < mined
      /\ UNCHANGED <<of, nonce, contract, cid, sent, appVars, chainVars, history>>
  BY DEF DocumentReceipt, At, Go
<1>2. TypeOK'
  BY <1>1 DEF IInv, TypeOK, Steps, appVars, chainVars, history
<1>3. Stored(contract[t])'
  <2>1. /\ nonce[t] \in Nat /\ mined \in Nat /\ nonce[t] < Len(accepted)
        /\ accepted[nonce[t] + 1].to = contract[t]
    BY <1>1, ReceiptFacts
  <2>2. nonce[t] + 1 \in Writes /\ nonce[t] + 1 <= mined
    BY <1>1, <2>1 DEF Writes, IInv, TypeOK
  <2> QED BY <1>1, <2>1, <2>2 DEF Stored, Writes, chainVars
<1>4. ThreadOK(t)'
  BY <1>1, <1>3 DEF IInv, TypeOK, ThreadOK, appVars, chainVars, history
<1> QED
  BY <1>1, <1>2, <1>4, SharedStays, StepOfOne
  DEF IInv, TypeOK, appVars, chainVars, history

LEMMA AcquireStep ==
  ASSUME IInv, NEW t \in Threads, Acquire(t) PROVE IInv'
<1>1. /\ pc' = [pc EXCEPT ![t] = "done"] /\ pc[t] = "acquire"
      /\ sent' = [sent EXCEPT ![t] = 5]
      /\ UNCHANGED <<of, nonce, contract, cid, appVars, chainVars, history>>
  BY DEF Acquire, At, Go
<1>2. TypeOK'
  BY <1>1 DEF IInv, TypeOK, Steps, appVars, chainVars, history
<1>3. Stored(contract[t])'
  BY <1>1 DEF IInv, ThreadOK, Stored, Writes, chainVars
<1>4. ThreadOK(t)'
  BY <1>1, <1>3 DEF IInv, TypeOK, ThreadOK, appVars, chainVars, history
<1> QED
  BY <1>1, <1>2, <1>4, SharedStays, StepOfOne
  DEF IInv, TypeOK, appVars, chainVars, history

-----------------------------------------------------------------------------
(* Steps on the shared peer, on IPFS and on the chain.                     *)

\* The steps that make and start the peer.
LEMMA NewPeerStep == ASSUME IInv, NEW t \in Threads, NewPeer(t) PROVE IInv'
<1>1. /\ pc[t] = "newPeer"
      /\ UNCHANGED <<of, nonce, contract, cid, sent, fragment, running, crashed,
                     chainVars, history>>
  BY DEF NewPeer, At
<1>2. \/ /\ litePeer' = [litePeer EXCEPT ![of[t]] = t]
         /\ pc' = [pc EXCEPT ![t] = "startPeer"]
      \/ litePeer' = litePeer /\ pc' = [pc EXCEPT ![t] = "add"]
  BY DEF NewPeer, Go
<1>3. of[t] \in Fragments /\ t # null
  BY ConstantsAssumption DEF IInv, TypeOK
<1>4. pc' \in [Threads -> Steps]
  <2>1. pc \in [Threads -> Steps] /\ "startPeer" \in Steps /\ "add" \in Steps
    BY DEF IInv, TypeOK, Steps
  <2> QED BY <1>2, <2>1
<1>9. litePeer' \in [Fragments -> {null} \cup Threads]
  <2>1. litePeer \in [Fragments -> {null} \cup Threads]
    BY DEF IInv, TypeOK
  <2> QED BY <1>2, <1>3, <2>1
<1>5. TypeOK'
  BY <1>1, <1>4, <1>9 DEF IInv, TypeOK, chainVars, history
<1>6. Grows
  BY <1>1, <1>2, <1>3 DEF Grows, IInv, TypeOK, chainVars, history
<1>7. WritesOK'
  BY <1>1, WritesStay DEF IInv, chainVars, history
<1>8. ThreadOK(t)'
  BY <1>1, <1>2, <1>3 DEF IInv, TypeOK, ThreadOK, PeerOf, chainVars, history
<1> QED BY <1>1, <1>2, <1>5, <1>6, <1>7, <1>8, StepOfOne DEF IInv, TypeOK

LEMMA StartPeerStep == ASSUME IInv, NEW t \in Threads, StartPeer(t) PROVE IInv'
<1>1. /\ pc[t] = "startPeer" /\ pc' = [pc EXCEPT ![t] = "add"]
      /\ UNCHANGED <<of, nonce, contract, cid, sent, fragment, litePeer, crashed,
                     chainVars, history>>
  BY DEF StartPeer, At, Go
<1>2. PeerOf(t) \in Threads
  BY <1>1 DEF IInv, TypeOK, ThreadOK, PeerOf
<1>3. running' \in SUBSET Threads
  BY <1>2 DEF StartPeer, IInv, TypeOK
<1>4. TypeOK'
  BY <1>1, <1>3 DEF IInv, TypeOK, Steps, chainVars, history
<1>5. ThreadOK(t)'
  BY <1>1 DEF IInv, TypeOK, ThreadOK, chainVars, history
<1> QED
  BY <1>1, <1>4, <1>5, SharedStays, StepOfOne
  DEF IInv, TypeOK, chainVars, history

\* The document that gets into IPFS is the one of the thread's contract.
LEMMA AddFileStep == ASSUME IInv, NEW t \in Threads, AddFile(t) PROVE IInv'
<1>1. /\ pc[t] = "add" /\ pc' = [pc EXCEPT ![t] = "nonce"]
      /\ cid' = [cid EXCEPT ![t] = contract[t]]
      /\ published' = published \cup {contract[t]}
      /\ sent' = [sent EXCEPT ![t] = 4]
      /\ UNCHANGED <<of, nonce, contract, appVars, chainVars, failing, faults>>
  BY DEF AddFile, At, Go
<1>2. contract[t] \in Nat
  BY <1>1 DEF IInv, TypeOK, ThreadOK
<1>3. TypeOK'
  <2>1. pc' \in [Threads -> Steps] /\ sent' \in [Threads -> 0 .. 5]
    BY <1>1 DEF IInv, TypeOK, Steps
  <2>2. cid' \in [Threads -> {null} \cup Nat] /\ published' \in SUBSET Nat
    BY <1>1, <1>2 DEF IInv, TypeOK
  <2> QED BY <1>1, <2>1, <2>2 DEF IInv, TypeOK, appVars, chainVars
<1>4. Grows
  BY <1>1 DEF Grows, IInv, TypeOK, appVars, chainVars
<1>5. WritesOK'
  BY <1>1, WritesStay DEF IInv, chainVars
<1>6. ThreadOK(t)'
  BY <1>1, <1>2, ConstantsAssumption
  DEF IInv, TypeOK, ThreadOK, appVars, chainVars
<1> QED BY <1>1, <1>3, <1>4, <1>5, <1>6, StepOfOne DEF IInv, TypeOK

\* A thread that sends a transaction: with a contract it has the cid of its
\* document, so that the transaction writes a good one.
LEMMA SentWrites ==
  ASSUME IInv, NEW t \in Threads, pc[t] = "send", published' = published,
         accepted' = Append(accepted, Transaction(t))
  PROVE  WritesOK'
<1>1. accepted \in Seq(Entry) /\ Len(accepted) \in Nat
      /\ Transaction(t) \in Entry
  BY DEF IInv, TypeOK, Entry, Transaction
<1>2. Len(accepted') = Len(accepted) + 1
      /\ accepted'[Len(accepted) + 1] = Transaction(t)
      /\ \A i \in 1 .. Len(accepted) : accepted'[i] = accepted[i]
  BY <1>1
<1> SUFFICES ASSUME NEW i \in Writes'
             PROVE  /\ accepted'[i].cid = accepted'[i].to
                    /\ accepted'[i].cid \in published
                    /\ accepted'[i].to < i - 1
                    /\ accepted'[accepted'[i].to + 1].to = null
  BY DEF WritesOK
<1>3. CASE i \in 1 .. Len(accepted)
  <2>1. i \in Writes /\ accepted'[i] = accepted[i]
    BY <1>2, <1>3 DEF Writes
  <2>2. /\ accepted[i].cid = accepted[i].to /\ accepted[i].cid \in published
        /\ accepted[i].to < i - 1 /\ accepted[accepted[i].to + 1].to = null
    BY <2>1 DEF IInv, WritesOK
  <2>3. accepted[i].to \in Nat
    <3>1. accepted[i] \in Entry
      BY <1>1, <1>3
    <3> QED BY <2>1, <3>1 DEF Entry, Writes
  <2>4. accepted[i].to + 1 \in 1 .. Len(accepted)
    BY <1>1, <1>3, <2>2, <2>3
  <2> QED BY <1>2, <2>1, <2>2, <2>4
<1>4. CASE i = Len(accepted) + 1
  <2>1. accepted'[i].to = contract[t] /\ accepted'[i].cid = cid[t]
        /\ contract[t] # null
    BY <1>2, <1>4 DEF Writes, Transaction
  <2>2. /\ cid[t] = contract[t] /\ cid[t] \in published
        /\ contract[t] < Len(accepted) /\ accepted[contract[t] + 1].to = null
    BY <2>1 DEF IInv, ThreadOK
  <2>3. contract[t] \in Nat
    BY <2>1 DEF IInv, TypeOK
  <2>4. contract[t] + 1 \in 1 .. Len(accepted)
    BY <1>1, <2>2, <2>3
  <2> QED BY <1>1, <1>2, <1>4, <2>1, <2>2, <2>3, <2>4
<1> QED
  <2>1. i \in 1 .. Len(accepted')
    BY DEF Writes
  <2>2. i \in 1 .. Len(accepted) \/ i = Len(accepted) + 1
    BY <1>1, <1>2, <2>1
  <2> QED BY <1>3, <1>4, <2>2, Zenon

\* What the thread itself relies on when its transaction was accepted.
LEMMA SentTypes ==
  ASSUME IInv, NEW t \in Threads, accepted' = Append(accepted, Transaction(t)),
         UNCHANGED <<mined, published, litePeer, nonce>>
  PROVE  /\ Grows /\ Len(accepted') = Len(accepted) + 1
         /\ accepted' \in Seq(Entry) /\ mined' \in 0 .. Len(accepted')
         /\ nonce' \in [Threads -> 0 .. Len(accepted')]
<1>1. accepted \in Seq(Entry) /\ Len(accepted) \in Nat
      /\ Transaction(t) \in Entry
  BY DEF IInv, TypeOK, Entry, Transaction
<1>2. Len(accepted') = Len(accepted) + 1 /\ accepted' \in Seq(Entry)
  BY <1>1
<1>3. mined \in 0 .. Len(accepted) /\ nonce \in [Threads -> 0 .. Len(accepted)]
  BY DEF IInv, TypeOK
<1>4. 0 .. Len(accepted) \subseteq 0 .. Len(accepted')
  BY <1>1, <1>2
<1>5. Grows
  BY <1>1, <1>3 DEF Grows
<1> QED BY <1>2, <1>3, <1>4, <1>5

LEMMA SendTransactionStep ==
  ASSUME IInv, NEW t \in Threads, SendTransaction(t) PROVE IInv'
<1>1. pc[t] = "send" /\ UNCHANGED <<mined, history>>
  BY DEF SendTransaction, At
<1>2. CASE nonce[t] = Len(accepted)
  <2>1. /\ accepted' = Append(accepted, Transaction(t))
        /\ pc' = [pc EXCEPT ![t] = "receipt"]
        /\ UNCHANGED <<of, nonce, contract, cid, sent, appVars>>
    BY <1>2 DEF SendTransaction, Go
  <2>2. /\ Grows /\ Len(accepted') = Len(accepted) + 1
        /\ accepted' \in Seq(Entry) /\ mined' \in 0 .. Len(accepted')
        /\ nonce' \in [Threads -> 0 .. Len(accepted')]
    BY <1>1, <2>1, SentTypes DEF appVars, history
  <2>3. TypeOK'
    BY <1>1, <2>1, <2>2 DEF IInv, TypeOK, Entry, Steps, appVars, history
  <2>4. WritesOK'
    BY <1>1, <2>1, SentWrites DEF history
  <2>5. ThreadOK(t)'
    <3>1. accepted'[nonce[t] + 1] = Transaction(t) /\ nonce[t] < Len(accepted')
      BY <1>2, <2>1, <2>2 DEF IInv, TypeOK, Entry
    <3>2. contract[t] # null => contract[t] < Len(accepted')
                                /\ accepted'[contract[t] + 1].to = null
      <4>1. Len(accepted) \in Nat /\ contract[t] \in {null} \cup Nat
        BY DEF IInv, TypeOK
      <4> QED BY SMTT(30), <2>2, <4>1, PlacesStay DEF IInv, ThreadOK
    <3> QED BY <1>1, <2>1, <3>1, <3>2
            DEF IInv, TypeOK, ThreadOK, Transaction, history
  <2> QED BY <2>1, <2>2, <2>3, <2>4, <2>5, StepOfOne DEF IInv, TypeOK
<1>3. CASE nonce[t] # Len(accepted)
  <2>1. Catch(t) /\ UNCHANGED accepted
    BY <1>3 DEF SendTransaction
  <2>2. UNCHANGED <<of, nonce, contract, cid, sent, fragment, litePeer, running>>
    BY <2>1 DEF Catch
  <2>3. TypeOK'
    BY <1>1, <2>1, <2>2, CatchTypes DEF IInv, TypeOK, history
  <2>4. Grows /\ WritesOK'
    BY <1>1, <2>1, <2>2, SharedStays DEF history
  <2> QED BY <1>1, <2>1, <2>3, <2>4, CatchStep, StepOfOne
<1> QED BY <1>2, <1>3

-----------------------------------------------------------------------------
(* Exceptions.                                                             *)

LEMMA AddFileFailsStep ==
  ASSUME IInv, NEW t \in Threads, AddFileFails(t) PROVE IInv'
<1>1. pc[t] = "add" /\ Catch(t) /\ UNCHANGED <<chainVars, history>>
  BY DEF AddFileFails, InnerCatch, At
<1>2. UNCHANGED <<of, nonce, contract, cid, sent, fragment, litePeer, running>>
  BY <1>1 DEF Catch
<1>3. TypeOK'
  BY <1>1, <1>2, CatchTypes DEF IInv, TypeOK, chainVars, history
<1>4. Grows /\ WritesOK'
  BY <1>1, <1>2, SharedStays DEF chainVars, history
<1> QED BY <1>1, <1>3, <1>4, CatchStep, StepOfOne

LEMMA TimeOutStep == ASSUME IInv, NEW t \in Threads, TimeOut(t) PROVE IInv'
<1>1. /\ pc[t] = "receipt" /\ Catch(t) /\ failing' = failing \cup {t}
      /\ UNCHANGED <<chainVars, published, faults>>
  BY DEF TimeOut, At
<1>2. UNCHANGED <<of, nonce, contract, cid, sent, fragment, litePeer, running>>
  BY <1>1 DEF Catch
<1>3. TypeOK'
  BY <1>1, <1>2, CatchTypes DEF IInv, TypeOK, chainVars
<1>4. Grows /\ WritesOK'
  BY <1>1, <1>2, SharedStays DEF chainVars
<1> QED BY <1>1, <1>3, <1>4, CatchStep, StepOfOne

\* Also when the transaction got through and its sender does not know.
LEMMA NetworkFailsStep ==
  ASSUME IInv, NEW t \in Threads, NetworkFails(t) PROVE IInv'
<1>1. /\ pc[t] \in {"nonce", "send", "receipt", "acquire"} /\ Catch(t)
      /\ faults < MaxFaults /\ faults' = faults + 1
      /\ failing' = failing \cup {t} /\ UNCHANGED <<mined, published>>
  BY DEF NetworkFails
<1>2. UNCHANGED <<of, nonce, contract, cid, sent, fragment, litePeer, running>>
  BY <1>1 DEF Catch
<1>3. faults' \in 0 .. MaxFaults /\ failing' \in SUBSET Threads
  BY <1>1, ConstantsAssumption DEF IInv, TypeOK
<1>4. CASE UNCHANGED accepted
  <2>1. TypeOK'
    BY <1>1, <1>2, <1>3, <1>4, CatchTypes DEF IInv, TypeOK
  <2>2. Grows /\ WritesOK'
    BY <1>1, <1>2, <1>4, SharedStays
  <2> QED BY <1>1, <2>1, <2>2, CatchStep, StepOfOne
<1>5. CASE pc[t] = "send" /\ accepted' = Append(accepted, Transaction(t))
  <2>1. /\ Grows /\ accepted' \in Seq(Entry) /\ mined' \in 0 .. Len(accepted')
        /\ nonce' \in [Threads -> 0 .. Len(accepted')]
    BY <1>1, <1>2, <1>5, SentTypes
  <2>2. TypeOK'
    BY <1>1, <1>2, <1>3, <2>1, CatchTypes DEF IInv, TypeOK, Entry
  <2>3. WritesOK'
    BY <1>1, <1>5, SentWrites
  <2> QED BY <1>1, <2>1, <2>2, <2>3, CatchStep, StepOfOne
<1> QED BY <1>4, <1>5 DEF NetworkFails

-----------------------------------------------------------------------------
(* The theorem.                                                            *)

LEMMA InitIInv == Init => IInv
<1> SUFFICES ASSUME Init PROVE IInv
  OBVIOUS
<1>1. accepted = <<>> /\ Len(accepted) = 0
  BY DEF Init
<1>2. TypeOK
  <2>1. /\ pc \in [Threads -> Steps] /\ of \in [Threads -> Fragments]
        /\ nonce \in [Threads -> 0 .. Len(accepted)]
        /\ contract \in [Threads -> {null} \cup Nat]
        /\ cid \in [Threads -> {null} \cup Nat] /\ sent \in [Threads -> 0 .. 5]
    BY <1>1, ConstantsAssumption DEF Init, Steps, Fragments
  <2>2. /\ fragment \in Fragments
        /\ litePeer \in [Fragments -> {null} \cup Threads]
        /\ running \in SUBSET Threads
    BY ConstantsAssumption DEF Init, Fragments
  <2>3. crashed \in BOOLEAN
    BY Zenon DEF Init
  <2>4. /\ accepted \in Seq([to : {null} \cup Nat, cid : {null} \cup Nat])
        /\ mined \in 0 .. Len(accepted)
    BY <1>1 DEF Init
  <2>5. /\ published \in SUBSET Nat /\ failing \in SUBSET Threads
        /\ faults \in 0 .. MaxFaults
    BY ConstantsAssumption DEF Init
  <2> QED BY <2>1, <2>2, <2>3, <2>4, <2>5 DEF TypeOK
<1>3. WritesOK
  BY <1>1 DEF WritesOK, Writes
<1>4. ASSUME NEW t \in Threads PROVE ThreadOK(t)
  BY DEF Init, ThreadOK
<1> QED BY <1>2, <1>3, <1>4 DEF IInv

LEMMA StepIInv == IInv /\ [Next]_vars => IInv'
<1> SUFFICES ASSUME IInv, [Next]_vars PROVE IInv'
  OBVIOUS
<1>1. ASSUME NEW t \in Threads, Press(t) \/ Run(t) \/ NetworkFails(t) PROVE IInv'
  BY <1>1, PressStep, FetchNonceStep, SendTransactionStep, DeployReceiptStep,
     NewPeerStep, StartPeerStep, AddFileStep, AddFileFailsStep,
     DocumentReceiptStep, AcquireStep, TimeOutStep, NetworkFailsStep DEF Run
<1>2. CASE Mine
  <2>1. /\ mined < Len(accepted) /\ mined' = mined + 1
        /\ UNCHANGED <<threadVars, appVars, accepted, history>>
    BY <1>2 DEF Mine
  <2>2. TypeOK'
    BY <2>1 DEF IInv, TypeOK, threadVars, appVars, history
  <2>3. Grows
    BY <2>1 DEF Grows, IInv, TypeOK, appVars, history
  <2>4. WritesOK'
    BY <2>1, WritesStay DEF IInv, history
  <2>5. ASSUME NEW t \in Threads PROVE ThreadOK(t)'
    BY <2>1, <2>2, <2>3, OthersStay DEF IInv, threadVars
  <2> QED BY <2>2, <2>4, <2>5 DEF IInv
<1>3. CASE Leave \/ UNCHANGED vars
  <2>1. /\ UNCHANGED <<threadVars, litePeer, running, crashed, chainVars, history>>
        /\ fragment' \in Fragments
    BY <1>3, ConstantsAssumption
    DEF Leave, IInv, TypeOK, Fragments, vars, appVars
  <2>2. TypeOK'
    BY <2>1 DEF IInv, TypeOK, threadVars, chainVars, history
  <2>3. Grows /\ WritesOK'
    BY <2>1, SharedStays DEF chainVars, history
  <2>4. ASSUME NEW t \in Threads PROVE ThreadOK(t)'
    BY <2>1, <2>2, <2>3, OthersStay DEF IInv, threadVars
  <2> QED BY <2>2, <2>3, <2>4 DEF IInv
<1> QED BY <1>1, <1>2, <1>3 DEF Next

\* Types and ranges, for any number of generations.
THEOREM TypeCorrect == Spec => []TypeOK
<1>1. IInv => TypeOK
  BY DEF IInv
<1> QED BY <1>1, InitIInv, StepIInv, PTL DEF Spec

\* Whatever the generations do to each other's nonces and peers, a stored
\* document is the one of the contract that holds it, and step 5 is shown of
\* a contract that holds its document.
THEOREM Storage == Spec => []StoredIsOwn
<1>1. IInv => StoredIsOwn
  BY DEF IInv, WritesOK, ThreadOK, Stored, StoredIsOwn
<1> QED BY <1>1, InitIInv, StepIInv, PTL DEF Spec
=============================================================================
