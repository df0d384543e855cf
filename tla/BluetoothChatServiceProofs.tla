--------------------- MODULE BluetoothChatServiceProofs ---------------------
(***************************************************************************)
(* Theorems about BluetoothChatService for every number of connections.    *)
(***************************************************************************)
EXTENDS BluetoothChatService, TLAPS

\* A socket not created yet has no thread.
Fresh ==
  \A s \in Sockets : s > created =>
    acceptPc[s] = "none" /\ connectPc[s] = "none" /\ connectedPc[s] = "none"

\* An AcceptThread about to hand over a connection has one.
Dispatching ==
  \A a \in Sockets : acceptPc[a] = "dispatch" => accepted[a] \in 1 .. created

\* The three safety properties need no more than this, apart from types: the
\* references follow the open sockets because every step that drops a
\* reference closes its socket first.
IInv == /\ TypeOK /\ Fresh /\ Dispatching
        /\ OneConnection /\ ListenerReachable /\ ConnectedHasThread

LEMMA InitIInv == Init => IInv
<1> SUFFICES ASSUME Init PROVE IInv
  OBVIOUS
<1> USE SocketAssumption DEF Init
<1>1. TypeOK
  <2>1. stopped \in BOOLEAN
    BY Zenon
  <2>2. created \in 0 .. MaxSockets /\ open \subseteq 1 .. created
        /\ listening \subseteq 1 .. created
    OBVIOUS
  <2>3. /\ mState \in {"NONE", "LISTEN", "CONNECTING", "CONNECTED"}
        /\ mAcceptThread \in Ref /\ mConnectThread \in Ref /\ mConnectedThread \in Ref
        /\ accepted \in [Sockets -> Ref]
    BY DEF Ref
  <2> QED BY <2>1, <2>2, <2>3 DEF TypeOK
<1>2. Fresh /\ Dispatching
  BY DEF Fresh, Dispatching
<1>3. OneConnection /\ ListenerReachable /\ ConnectedHasThread
  BY DEF OneConnection, ListenerReachable, ConnectedHasThread
<1> QED BY <1>1, <1>2, <1>3 DEF IInv

-----------------------------------------------------------------------------
(* The methods that hold the lock, called with a socket that was created.  *)

\* connected(s) leaves s as the only open connection with a reader and no
\* AcceptThread listening.
LEMMA ConnectedSteps ==
  ASSUME TypeOK, OneConnection, ListenerReachable,
         NEW s \in Sockets, connected(s)
  PROVE  /\ mState' = "CONNECTED" /\ mConnectedThread' = s
         /\ mConnectThread' = null /\ mAcceptThread' = null
         /\ connectedPc' \in [Sockets -> {"none", "reading", "lost", "ended"}]
         /\ connectedPc'[s] = "reading"
         /\ \A t \in Sockets : t # s => connectedPc'[t] = connectedPc[t]
         /\ open' \subseteq open /\ listening' = {}
         /\ OneConnection' /\ ListenerReachable' /\ ConnectedHasThread'
<1>1. /\ mState' = "CONNECTED" /\ mConnectedThread' = s
      /\ mConnectThread' = null /\ mAcceptThread' = null
      /\ connectedPc' = [connectedPc EXCEPT ![s] = "reading"]
      /\ open' = open \ {mConnectThread, mConnectedThread}
      /\ listening' = listening \ {mAcceptThread}
  BY DEF connected, ClosedByConnected
<1>2. /\ connectedPc' \in [Sockets -> {"none", "reading", "lost", "ended"}]
      /\ connectedPc'[s] = "reading"
      /\ \A t \in Sockets : t # s => connectedPc'[t] = connectedPc[t]
  BY <1>1 DEF TypeOK
<1>3. listening' = {}
  BY <1>1 DEF ListenerReachable
<1>4. OneConnection'
  <2> SUFFICES ASSUME NEW t \in open', connectedPc'[t] # "none", t # s
               PROVE  FALSE
    BY <1>1 DEF OneConnection
  <2>1. t \in open /\ t # mConnectedThread /\ t \in Sockets
    BY <1>1, SocketAssumption DEF TypeOK, Sockets
  <2> QED BY <1>2, <2>1 DEF OneConnection
<1>5. ConnectedHasThread'
  BY <1>1, <1>2, SocketAssumption DEF ConnectedHasThread, Sockets
<1> QED BY <1>1, <1>2, <1>3, <1>4, <1>5 DEF ListenerReachable

\* A step that opens no socket, starts no reader and forgets none keeps
\* OneConnection.
LEMMA SameReaders ==
  ASSUME OneConnection, open' \subseteq open, UNCHANGED mConnectedThread,
         \A t \in open' : connectedPc'[t] # "none" => connectedPc[t] # "none"
  PROVE  OneConnection'
BY DEF OneConnection

-----------------------------------------------------------------------------
(* One lemma per kind of caller.                                           *)

LEMMA UserIInv == IInv /\ (Connect \/ Stop) => IInv'
<1> SUFFICES ASSUME IInv, Connect \/ Stop PROVE IInv'
  OBVIOUS
<1> USE SocketAssumption DEF IInv
<1>1. CASE Connect
  <2>1. /\ New \in Sockets /\ New > created /\ created' = New
        /\ created \in Nat /\ null \notin Sockets
    BY <1>1 DEF Connect, New, Sockets, TypeOK
  <2>2. TypeOK'
    <3>1. created' \in 0 .. MaxSockets /\ created' = created + 1
      BY <2>1 DEF Sockets, New
    <3>2. 1 .. created \subseteq 1 .. created' /\ New \in 1 .. created'
      BY <2>1, <3>1
    <3>3. open' \subseteq open \cup {New} /\ listening' = listening
      BY <1>1 DEF Connect
    <3>4. open' \subseteq 1 .. created' /\ listening' \subseteq 1 .. created'
      BY <3>2, <3>3 DEF TypeOK
    <3>5. connectPc' \in [Sockets -> {"none", "connecting", "failed", "restart", "made",
                                     "unlocked", "ended"}]
      BY <1>1, <2>1 DEF Connect, TypeOK
    <3> QED BY <1>1, <2>1, <3>1, <3>4, <3>5 DEF Connect, TypeOK, Ref
  <2>3. Fresh' /\ Dispatching'
    BY <1>1, <2>1 DEF Connect, TypeOK, Fresh, Dispatching, Sockets
  <2>4. OneConnection'
    <3>1. connectedPc[New] = "none" /\ UNCHANGED connectedPc
      BY <1>1, <2>1 DEF Fresh, Connect
    <3>2. \A t \in open' : t # New => t \in open /\ t # mConnectedThread
      BY <1>1 DEF Connect
    <3> QED BY <3>1, <3>2 DEF OneConnection
  <2>5. ListenerReachable' /\ ConnectedHasThread'
    BY <1>1 DEF Connect, ListenerReachable, ConnectedHasThread
  <2> QED BY <2>2, <2>3, <2>4, <2>5
<1>2. CASE Stop
  <2>1. TypeOK'
    BY <1>2 DEF Stop, TypeOK, pcs, Ref
  <2>2. Fresh' /\ Dispatching'
    BY <1>2 DEF Stop, Fresh, Dispatching, pcs
  <2>3. OneConnection'
    BY <1>2 DEF Stop, OneConnection, pcs
  <2>4. ListenerReachable' /\ ConnectedHasThread'
    BY <1>2 DEF Stop, ListenerReachable, ConnectedHasThread
  <2> QED BY <2>1, <2>2, <2>3, <2>4
<1> QED BY <1>1, <1>2

LEMMA ConnectThreadIInv ==
  ASSUME IInv, NEW s \in Sockets, ConnectThread(s)
  PROVE  IInv'
<1> USE SocketAssumption DEF IInv
<1>0. s \in 1 .. created
  <2>1. connectPc[s] # "none"
    BY DEF ConnectThread, ConnectOk, ConnectThrows, connectionFailed, Restart,
           ResetConnectThread, ConnectDone
  <2> QED BY <2>1 DEF Fresh, TypeOK, Sockets
<1>1. CASE ConnectOk(s) \/ ConnectThrows(s)
  BY ZenonT(30), <1>0, <1>1 DEF ConnectOk, ConnectThrows, AfterFailure, TypeOK, Fresh, Dispatching,
     OneConnection, ListenerReachable, ConnectedHasThread, refs, sockets, Sockets
<1>2. CASE connectionFailed(s)
  BY <1>0, <1>2 DEF connectionFailed, TypeOK, Fresh, Dispatching, OneConnection,
     ListenerReachable, ConnectedHasThread, refs, sockets, Sockets
<1>3. CASE Restart(s)
  <2>1. TypeOK'
    BY <1>0, <1>3 DEF Restart, start, ListensAnew, TypeOK, Ref
  <2>2. Fresh' /\ Dispatching'
    BY <1>0, <1>3 DEF Restart, start, ListensAnew, TypeOK, Fresh, Dispatching, Sockets
  <2>3. OneConnection'
    BY <1>3 DEF Restart, start, OneConnection
  <2>4. ListenerReachable'
    <3>1. CASE mAcceptThread = null
      <4>1. listening = {}
        BY <3>1 DEF ListenerReachable, TypeOK
      <4> QED BY <1>3, <3>1, <4>1 DEF Restart, start, ListensAnew, ListenerReachable
    <3>2. CASE mAcceptThread # null
      BY <1>3, <3>2 DEF Restart, start, ListensAnew, ListenerReachable
    <3> QED BY <3>1, <3>2
  <2>5. ConnectedHasThread'
    BY <1>3 DEF Restart, start, ConnectedHasThread
  <2> QED BY <2>1, <2>2, <2>3, <2>4, <2>5
<1>4. CASE ResetConnectThread(s)
  BY <1>0, <1>4 DEF ResetConnectThread, TypeOK, Fresh, Dispatching, OneConnection,
     ListenerReachable, ConnectedHasThread, sockets, Sockets, Ref
<1>5. CASE ConnectDone(s)
  <2>1. /\ connected(s) /\ UNCHANGED <<created, acceptPc, accepted, stopped>>
        /\ connectPc' = [connectPc EXCEPT ![s] = "ended"]
    BY <1>5 DEF ConnectDone
  <2>2. TypeOK'
    BY <1>0, <2>1, ConnectedSteps DEF TypeOK, Ref
  <2>3. Fresh' /\ Dispatching'
    BY <1>0, <2>1, ConnectedSteps DEF TypeOK, Fresh, Dispatching
  <2> QED BY <2>1, <2>2, <2>3, ConnectedSteps
<1> QED BY <1>1, <1>2, <1>3, <1>4, <1>5 DEF ConnectThread

LEMMA AcceptThreadIInv ==
  ASSUME IInv, NEW a \in Sockets, AcceptThread(a)
  PROVE  IInv'
<1> USE SocketAssumption DEF IInv
<1>0. a \in 1 .. created
  <2>1. acceptPc[a] # "none"
    BY DEF AcceptThread, AcceptTest, AcceptOk, AcceptThrows, AcceptDispatch
  <2> QED BY <2>1 DEF Fresh, TypeOK, Sockets
<1>1. CASE AcceptTest(a) \/ AcceptThrows(a)
  BY ZenonT(30), <1>0, <1>1 DEF AcceptTest, AcceptThrows, TypeOK, Fresh, Dispatching, OneConnection,
     ListenerReachable, ConnectedHasThread, refs, sockets, Sockets
<1>2. CASE AcceptOk(a)
  <2>1. New \in Sockets /\ New > created /\ created' = New /\ created \in Nat
    BY <1>2 DEF AcceptOk, New, Sockets, TypeOK
  <2>2. TypeOK'
    BY <1>0, <1>2, <2>1 DEF AcceptOk, TypeOK, Ref, refs, Sockets
  <2>3. Fresh' /\ Dispatching'
    BY <1>0, <1>2, <2>1 DEF AcceptOk, TypeOK, Fresh, Dispatching, Sockets
  <2>4. OneConnection'
    <3>1. connectedPc[New] = "none" /\ UNCHANGED <<connectedPc, mConnectedThread>>
      BY <1>2, <2>1 DEF Fresh, AcceptOk, refs
    <3>2. open' = open \cup {New}
      BY <1>2 DEF AcceptOk
    <3> QED BY <3>1, <3>2 DEF OneConnection
  <2>5. ListenerReachable' /\ ConnectedHasThread'
    BY <1>2 DEF AcceptOk, ListenerReachable, ConnectedHasThread, refs
  <2> QED BY <2>2, <2>3, <2>4, <2>5
<1>3. CASE AcceptDispatch(a)
  <2>0. /\ acceptPc' = [acceptPc EXCEPT ![a] = "test"]
        /\ accepted' = [accepted EXCEPT ![a] = null]
        /\ UNCHANGED <<created, connectPc, stopped>>
        /\ accepted[a] \in 1 .. created
    BY <1>3 DEF AcceptDispatch, Dispatching
  <2>1. CASE connected(accepted[a])
    <3>1. accepted[a] \in Sockets
      BY <2>0 DEF TypeOK, Sockets
    <3>2. TypeOK'
      BY <1>0, <2>0, <2>1, <3>1, ConnectedSteps DEF TypeOK, Ref
    <3>3. Fresh' /\ Dispatching'
      BY <1>0, <2>0, <2>1, <3>1, ConnectedSteps DEF TypeOK, Fresh, Dispatching, Sockets
    <3> QED BY <2>1, <3>1, <3>2, <3>3, ConnectedSteps
  <2>2. CASE /\ open' = open \ {accepted[a]}
             /\ UNCHANGED <<mState, refs, listening, connectedPc>>
    <3>1. TypeOK'
      BY <2>0, <2>2 DEF TypeOK, refs, Ref
    <3>2. Fresh' /\ Dispatching'
      BY <1>0, <2>0, <2>2 DEF TypeOK, Fresh, Dispatching, Sockets
    <3>3. OneConnection'
      BY <2>2, SameReaders DEF refs
    <3>4. ListenerReachable' /\ ConnectedHasThread'
      BY <2>2 DEF ListenerReachable, ConnectedHasThread, refs
    <3> QED BY <3>1, <3>2, <3>3, <3>4
  <2> QED BY <1>3, <2>1, <2>2 DEF AcceptDispatch
<1> QED BY <1>1, <1>2, <1>3 DEF AcceptThread

LEMMA ConnectedThreadIInv ==
  ASSUME IInv, NEW s \in Sockets, ConnectedThread(s)
  PROVE  IInv'
<1> USE SocketAssumption DEF IInv
<1>0. s \in 1 .. created
  <2>1. connectedPc[s] # "none"
    BY DEF ConnectedThread, ReadThrows, connectionLost
  <2> QED BY <2>1 DEF Fresh, TypeOK, Sockets
<1>1. CASE ReadThrows(s)
  BY <1>0, <1>1 DEF ReadThrows, TypeOK, Fresh, Dispatching, OneConnection,
     ListenerReachable, ConnectedHasThread, refs, sockets, Sockets
<1>2. CASE connectionLost(s)
  BY <1>0, <1>2 DEF connectionLost, StateAfterLoss, TypeOK, Fresh, Dispatching,
     OneConnection, ListenerReachable, ConnectedHasThread, refs, sockets, Sockets
<1> QED BY <1>1, <1>2 DEF ConnectedThread

LEMMA StepIInv == IInv /\ [Next]_vars => IInv'
<1> SUFFICES ASSUME IInv, [Next]_vars PROVE IInv'
  OBVIOUS
<1>1. CASE UNCHANGED vars
  BY <1>1 DEF vars, refs, sockets, pcs, IInv, TypeOK, Fresh, Dispatching,
     OneConnection, ListenerReachable, ConnectedHasThread
<1> QED BY <1>1, UserIInv, ConnectThreadIInv, AcceptThreadIInv, ConnectedThreadIInv
        DEF Next

-----------------------------------------------------------------------------
\* Types and ranges, for any number of connections.
THEOREM TypeCorrect == Spec => []TypeOK
BY InitIInv, StepIInv, PTL DEF Spec, IInv

\* However attempts, incoming connections, losses and stop() interleave, at
\* most one connection is open and read from: the one the service refers to.
THEOREM Safety == Spec => []OneConnection
BY InitIInv, StepIInv, PTL DEF Spec, IInv

\* No AcceptThread listens out of the reach of stop() and connected().
THEOREM Listeners == Spec => []ListenerReachable
BY InitIInv, StepIInv, PTL DEF Spec, IInv

\* "Connected" means that there is a thread to write to.
THEOREM Connected == Spec => []ConnectedHasThread
BY InitIInv, StepIInv, PTL DEF Spec, IInv
=============================================================================
