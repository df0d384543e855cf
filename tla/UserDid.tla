------------------------------ MODULE UserDid ------------------------------
(***************************************************************************)
(* The generation of the user's DID in the client (UserFragment.java).     *)
(* Every press of the button starts a MyThread: it deploys a DID contract, *)
(* adds the user's DID document to IPFS and writes the document's cid into *)
(* the contract.  All of them share                                        *)
(*  - the account of the one mnemonic, and so its nonces on the chain;     *)
(*  - the field litePeer of their fragment, which is read again at each    *)
(*    use, and the one repository of the application.                      *)
(* The fragment may be left meanwhile (getActivity() is null from then     *)
(* on).  The chain, web3j and IPFS are external.                           *)
(*                                                                         *)
(* A contract is named by the nonce of its deployment, its document and    *)
(* the document's cid by the contract; a peer by the thread that made it.  *)
(***************************************************************************)
EXTENDS Naturals, Sequences, FiniteSets

CONSTANTS
  Threads,
  null,
  MaxFragments,   \* bound: instances of the fragment
  MaxFaults       \* bound: calls that fail although the server is there

ASSUME ConstantsAssumption ==
  /\ null \notin Threads /\ null \notin Nat
  /\ MaxFragments \in Nat \ {0} /\ MaxFaults \in Nat

VARIABLES
  pc,             \* the thread's next call
  of,             \* its fragment
  nonce,          \* the nonce it has fetched
  contract,       \* userDIDContract
  cid,
  sent,           \* messages sent to myHandle: the steps shown to the user
  fragment,       \* the instance that is attached
  litePeer,       \* of each instance
  running,        \* peers that were started
  accepted,       \* the account's transactions, in the order of their nonces
  mined,          \* how many of them are in a block
  published,      \* history: cids IPFS has
  crashed,
  failing, faults \* history: threads that met a fault

threadVars == <<pc, of, nonce, contract, cid, sent>>
appVars    == <<fragment, litePeer, running, crashed>>
chainVars  == <<accepted, mined>>
history    == <<published, failing, faults>>
vars == <<threadVars, appVars, chainVars, history>>

Fragments == 1 .. MaxFragments
Steps == {"idle", "nonce", "send", "receipt", "newPeer", "startPeer", "add",
          "acquire", "done", "looping"}

Init ==
  /\ pc = [t \in Threads |-> "idle"] /\ of = [t \in Threads |-> 1]
  /\ nonce = [t \in Threads |-> 0]
  /\ contract = [t \in Threads |-> null] /\ cid = [t \in Threads |-> null]
  /\ sent = [t \in Threads |-> 0]
  /\ fragment = 1 /\ litePeer = [f \in Fragments |-> null]
  /\ running = {} /\ crashed = FALSE
  /\ accepted = <<>> /\ mined = 0
  /\ published = {} /\ failing = {} /\ faults = 0

Go(t, step) == pc' = [pc EXCEPT ![t] = step]
Attached(t) == of[t] = fragment
PeerOf(t)   == litePeer[of[t]]
At(t, step) == ~crashed /\ pc[t] = step

\* The outer catch: a toast, then the thread serves its own Looper for ever;
\* without an activity the toast is an exception that ends the application.
Catch(t) ==
  /\ IF Attached(t) THEN Go(t, "looping") /\ UNCHANGED crashed
                    ELSE crashed' = TRUE /\ UNCHANGED pc
  /\ UNCHANGED <<of, nonce, contract, cid, sent, fragment, litePeer, running>>

-----------------------------------------------------------------------------
(* The button, and the threads it starts.                                  *)

\* Step 1, the keys, is shown at once.
Press(t) ==
  /\ At(t, "idle")
  /\ Go(t, "nonce")
  /\ of' = [of EXCEPT ![t] = fragment]
  /\ sent' = [sent EXCEPT ![t] = 1]
  /\ UNCHANGED <<nonce, contract, cid, appVars, chainVars, history>>

\* eth_getTransactionCount with the pending block, before either transaction.
NonceAhead == Len(accepted) + 1                                \* mutant
PendingCount == Len(accepted)

FetchNonce(t) ==
  /\ At(t, "nonce")
  /\ nonce' = [nonce EXCEPT ![t] = PendingCount]
  /\ Go(t, "send")
  /\ UNCHANGED <<of, contract, cid, sent, appVars, chainVars, history>>

\* Without a contract the deployment, then AddDIDDocument(cid).
Transaction(t) == [to |-> contract[t], cid |-> cid[t]]

\* A nonce that was used meanwhile is refused with an exception.
SendTransaction(t) ==
  /\ At(t, "send")
  /\ IF nonce[t] = Len(accepted)
       THEN /\ accepted' = Append(accepted, Transaction(t))
            /\ Go(t, "receipt")
            /\ UNCHANGED <<of, nonce, contract, cid, sent, appVars>>
       ELSE Catch(t) /\ UNCHANGED accepted
  /\ UNCHANGED <<mined, history>>

\* The receipt of the deployment has the contract's address; steps 2 and 3
\* are shown.
DeployReceipt(t) ==
  /\ At(t, "receipt") /\ contract[t] = null /\ nonce[t] < mined
  /\ contract' = [contract EXCEPT ![t] = nonce[t]]
  /\ sent' = [sent EXCEPT ![t] = 3]
  /\ Go(t, "newPeer")
  /\ UNCHANGED <<of, nonce, cid, appVars, chainVars, history>>

\* initIPFS: the new peer is in the field before it is started; without an
\* activity there is none.
NewPeer(t) ==
  /\ At(t, "newPeer")
  /\ IF Attached(t)
       THEN litePeer' = [litePeer EXCEPT ![of[t]] = t] /\ Go(t, "startPeer")
       ELSE Go(t, "add") /\ UNCHANGED litePeer
  /\ UNCHANGED <<of, nonce, contract, cid, sent, fragment, running, crashed,
                 chainVars, history>>

\* The new peer is not started: a mutant.
StartForgotten(t) ==
  /\ At(t, "startPeer")
  /\ Go(t, "add")
  /\ UNCHANGED <<of, nonce, contract, cid, sent, appVars, chainVars, history>>

\* start() of the peer in the field.  It may fail when the repository is open
\* already, and initIPFS swallows the exception.
StartPeer(t) ==
  /\ At(t, "startPeer")
  /\ \/ running' = running \cup {PeerOf(t)}
     \/ running # {} /\ UNCHANGED running
  /\ Go(t, "add")
  /\ UNCHANGED <<of, nonce, contract, cid, sent, fragment, litePeer, crashed,
                 chainVars, history>>

\* addFileSync of the peer in the field; then step 4 is shown.
AddFile(t) ==
  /\ At(t, "add") /\ PeerOf(t) \in running
  /\ cid' = [cid EXCEPT ![t] = contract[t]]
  /\ published' = published \cup {contract[t]}
  /\ sent' = [sent EXCEPT ![t] = 4]
  /\ Go(t, "nonce")
  /\ UNCHANGED <<of, nonce, contract, appVars, chainVars, failing, faults>>

\* The inner catch does not get to AddDIDDocument(null): its toast, on a
\* thread without a Looper, is an exception itself.
ToastShown(t) ==                                               \* mutant
  /\ Go(t, "nonce")
  /\ UNCHANGED <<of, nonce, contract, cid, sent, appVars>>
InnerCatch(t) == Catch(t)

AddFileFails(t) ==
  /\ At(t, "add") /\ PeerOf(t) \notin running
  /\ InnerCatch(t)
  /\ UNCHANGED <<chainVars, history>>

DocumentReceipt(t) ==
  /\ At(t, "receipt") /\ contract[t] # null /\ nonce[t] < mined
  /\ Go(t, "acquire")
  /\ UNCHANGED <<of, nonce, contract, cid, sent, appVars, chainVars, history>>

\* AcquireDIDDocument, and step 5 is shown.
Acquire(t) ==
  /\ At(t, "acquire")
  /\ sent' = [sent EXCEPT ![t] = 5]
  /\ Go(t, "done")
  /\ UNCHANGED <<of, nonce, contract, cid, appVars, chainVars, history>>

\* web3j polls for a receipt 40 times, then it throws.
TimeOut(t) ==
  /\ At(t, "receipt") /\ nonce[t] >= mined
  /\ failing' = failing \cup {t}
  /\ Catch(t)
  /\ UNCHANGED <<chainVars, published, faults>>

\* A call fails in the network: a transaction may have got through.
NetworkFails(t) ==
  /\ ~crashed /\ pc[t] \in {"nonce", "send", "receipt", "acquire"}
  /\ faults < MaxFaults /\ faults' = faults + 1
  /\ failing' = failing \cup {t}
  /\ Catch(t)
  /\ \/ UNCHANGED accepted
     \/ /\ pc[t] = "send" /\ nonce[t] = Len(accepted)
        /\ accepted' = Append(accepted, Transaction(t))
  /\ UNCHANGED <<mined, published>>

-----------------------------------------------------------------------------
(* The chain, and the user's navigation.                                   *)

Mine ==
  /\ mined < Len(accepted)
  /\ mined' = mined + 1
  /\ UNCHANGED <<threadVars, appVars, accepted, history>>

Leave ==
  /\ ~crashed /\ fragment < MaxFragments
  /\ fragment' = fragment + 1
  /\ UNCHANGED <<threadVars, litePeer, running, crashed, chainVars, history>>

Run(t) ==
  \/ FetchNonce(t) \/ SendTransaction(t) \/ DeployReceipt(t) \/ NewPeer(t)
  \/ StartPeer(t) \/ AddFile(t) \/ AddFileFails(t) \/ DocumentReceipt(t)
  \/ Acquire(t) \/ TimeOut(t)

Next == \/ \E t \in Threads : Press(t) \/ Run(t) \/ NetworkFails(t)
        \/ Mine \/ Leave

Spec == Init /\ [][Next]_vars

\* A thread runs, and web3j's polling ends; nothing makes the chain mine.
FairSpec == Spec /\ \A t \in Threads : WF_vars(Run(t))

-----------------------------------------------------------------------------
(* Properties.                                                             *)

TypeOK ==
  /\ pc \in [Threads -> Steps] /\ of \in [Threads -> Fragments]
  /\ nonce \in [Threads -> 0 .. Len(accepted)]
  /\ contract \in [Threads -> {null} \cup Nat]
  /\ cid \in [Threads -> {null} \cup Nat]
  /\ sent \in [Threads -> 0 .. 5]
  /\ fragment \in Fragments
  /\ litePeer \in [Fragments -> {null} \cup Threads]
  /\ running \in SUBSET Threads /\ crashed \in BOOLEAN
  /\ accepted \in Seq([to : {null} \cup Nat, cid : {null} \cup Nat])
  /\ mined \in 0 .. Len(accepted)
  /\ published \in SUBSET Nat /\ failing \in SUBSET Threads
  /\ faults \in 0 .. MaxFaults

\* Whatever the threads do to each other's nonces and peers, a transaction of
\* the account that writes a document writes one that IPFS has, into the very
\* contract the document names, which an earlier transaction has deployed; and
\* the user sees step 5 only of a contract that holds its document.
Writes == {i \in 1 .. Len(accepted) : accepted[i].to # null}
StoredIsOwn ==
  /\ \A i \in Writes :
       /\ accepted[i].cid = accepted[i].to /\ accepted[i].cid \in published
       /\ accepted[i].to < i - 1 /\ accepted[accepted[i].to + 1].to = null
  /\ \A t \in Threads :
       sent[t] = 5 => \E i \in Writes : i <= mined /\ accepted[i].to = contract[t]

\* A generation stores its document and shows step 5, or there is a reason: a
\* call that failed or a receipt that was late, the fragment left, or another
\* generation at any earlier time (its nonce, its peer, its repository).
Alone(t) == \A u \in Threads \ {t} : pc[u] = "idle"
GenerationEnds ==
  \A t \in Threads :
    pc[t] # "idle" ~> \/ pc[t] = "done"
                      \/ pc[t] = "looping" /\ (t \in failing \/ ~Alone(t))
                      \/ fragment > 1 /\ (pc[t] = "looping" \/ crashed)
=============================================================================
