------------------------ MODULE BluetoothChatService ------------------------
(***************************************************************************)
(* BluetoothChatService.java: the phone's Bluetooth connection and the     *)
(* threads that make it.  The user interface calls connect() and, when its *)
(* fragment is stopped, stop(), in any order: a fragment that comes back   *)
(* keeps the service.  An AcceptThread waits for an incoming connection, a *)
(* ConnectThread makes an outgoing one, a ConnectedThread reads from an    *)
(* established one.  The service remembers one thread of each kind and     *)
(* cancels a thread by closing its socket; the thread notices when its     *)
(* blocking call throws.                                                   *)
(*                                                                         *)
(* ConnectThreads and ConnectedThreads are identified with the socket of   *)
(* the connection, an AcceptThread (and its server socket) with the socket *)
(* of the failed attempt that started it.  A step is what a thread does    *)
(* under the lock of the service (synchronized), or up to the next place   *)
(* where another thread can come between.  The operators marked "mutant"   *)
(* are programming errors the checks must notice.                          *)
(***************************************************************************)
EXTENDS Naturals

CONSTANTS
  MaxSockets,   \* bound: connections, outgoing and incoming, in a behaviour
  null

ASSUME SocketAssumption == MaxSockets \in Nat /\ null \notin Nat

VARIABLES
  mState,
  mAcceptThread, mConnectThread, mConnectedThread,   \* a thread, or null
  created,           \* number of sockets created; they are 1 .. created
  open,              \* sockets not closed
  listening,         \* AcceptThreads whose server socket is not closed
  acceptPc, connectPc, connectedPc,   \* where each thread is
  accepted,          \* the connection an AcceptThread just accepted
  stopped            \* history: stop() was called, and no connect() since

refs    == <<mAcceptThread, mConnectThread, mConnectedThread>>
sockets == <<created, open, listening>>
pcs     == <<acceptPc, connectPc, connectedPc>>
vars == <<mState, refs, sockets, pcs, accepted, stopped>>

Sockets == 1 .. MaxSockets
New     == created + 1     \* the next socket; guards say that there is one

Init ==
  /\ mState = "NONE"
  /\ mAcceptThread = null /\ mConnectThread = null /\ mConnectedThread = null
  /\ created = 0 /\ open = {} /\ listening = {}
  /\ acceptPc = [s \in Sockets |-> "none"]
  /\ connectPc = [s \in Sockets |-> "none"]
  /\ connectedPc = [s \in Sockets |-> "none"]
  /\ accepted = [s \in Sockets |-> null]
  /\ stopped = FALSE

-----------------------------------------------------------------------------
(* Methods of the service; each holds its lock.                            *)

\* connect(device), called by the user interface: cancels an attempt only if
\* the state says that there is one.
Cancelled == IF mState = "CONNECTING" THEN {mConnectThread} ELSE {}

Connect ==
  /\ created < MaxSockets
  /\ open' = (open \ (Cancelled \cup {mConnectedThread})) \cup {New}
  /\ created' = New
  /\ mConnectedThread' = null
  /\ mConnectThread' = New
  /\ connectPc' = [connectPc EXCEPT ![New] = "connecting"]
  /\ mState' = "CONNECTING"
  /\ stopped' = FALSE
  /\ UNCHANGED <<mAcceptThread, listening, acceptPc, connectedPc, accepted>>

\* stop(), called by the user interface whenever its fragment is stopped.
Stop ==
  /\ stopped' = TRUE
  /\ open' = open \ {mConnectThread, mConnectedThread}
  /\ listening' = listening \ {mAcceptThread}
  /\ mConnectThread' = null /\ mConnectedThread' = null /\ mAcceptThread' = null
  /\ mState' = "NONE"
  /\ UNCHANGED <<created, pcs, accepted>>

\* start(), called by ConnectThread s after a failure: listen, with a new
\* AcceptThread unless one is remembered.
ListensAlways == TRUE                              \* mutant
ListensAnew == mAcceptThread = null

start(s) ==
  /\ open' = open \ {s, mConnectThread, mConnectedThread}
  /\ IF ListensAnew
     THEN /\ mAcceptThread' = s
          /\ listening' = listening \cup {s}
          /\ acceptPc' = [acceptPc EXCEPT ![s] = "test"]
     ELSE UNCHANGED <<mAcceptThread, listening, acceptPc>>
  /\ mConnectThread' = null /\ mConnectedThread' = null
  /\ mState' = "LISTEN"

\* connected(socket, device): cancel every thread and read from s.
ClosedExceptReader == {mConnectThread}             \* mutant
ClosedByConnected == {mConnectThread, mConnectedThread}

connected(s) ==
  /\ open' = open \ ClosedByConnected
  /\ listening' = listening \ {mAcceptThread}
  /\ mConnectThread' = null /\ mAcceptThread' = null
  /\ mConnectedThread' = s
  /\ connectedPc' = [connectedPc EXCEPT ![s] = "reading"]
  /\ mState' = "CONNECTED"

-----------------------------------------------------------------------------
(* ConnectThread.                                                          *)

\* mmSocket.connect() succeeds ...
ConnectOk(s) ==
  /\ connectPc[s] = "connecting" /\ s \in open
  /\ connectPc' = [connectPc EXCEPT ![s] = "made"]
  /\ UNCHANGED <<mState, refs, sockets, acceptPc, connectedPc, accepted, stopped>>

\* ... or throws: the other side did not answer, or the socket was closed.
AfterFailureNothing == "ended"                     \* mutant
AfterFailure == "failed"

ConnectThrows(s) ==
  /\ connectPc[s] = "connecting"
  /\ connectPc' = [connectPc EXCEPT ![s] = AfterFailure]
  /\ UNCHANGED <<mState, refs, sockets, acceptPc, connectedPc, accepted, stopped>>

connectionFailed(s) ==
  /\ connectPc[s] = "failed"
  /\ connectPc' = [connectPc EXCEPT ![s] = "restart"]
  /\ mState' = "LISTEN"
  /\ UNCHANGED <<refs, sockets, acceptPc, connectedPc, accepted, stopped>>

\* It closes its socket and calls start().
Restart(s) ==
  /\ connectPc[s] = "restart"
  /\ start(s)
  /\ connectPc' = [connectPc EXCEPT ![s] = "ended"]
  /\ UNCHANGED <<created, connectedPc, accepted, stopped>>

\* After a success it forgets itself, under the lock; but mConnectThread may
\* be another thread by now.
ResetConnectThread(s) ==
  /\ connectPc[s] = "made"
  /\ mConnectThread' = null
  /\ connectPc' = [connectPc EXCEPT ![s] = "unlocked"]
  /\ UNCHANGED <<mState, mAcceptThread, mConnectedThread, sockets, acceptPc,
                 connectedPc, accepted, stopped>>

ConnectDone(s) ==
  /\ connectPc[s] = "unlocked"
  /\ connected(s)
  /\ connectPc' = [connectPc EXCEPT ![s] = "ended"]
  /\ UNCHANGED <<created, acceptPc, accepted, stopped>>

-----------------------------------------------------------------------------
(* AcceptThread.                                                           *)

\* while (mState != STATE_CONNECTED), read without the lock
AcceptTest(a) ==
  /\ acceptPc[a] = "test"
  /\ acceptPc' = [acceptPc EXCEPT ![a] =
                    IF mState = "CONNECTED" THEN "ended" ELSE "accept"]
  /\ UNCHANGED <<mState, refs, sockets, connectPc, connectedPc, accepted, stopped>>

\* mmServerSocket.accept() returns a connection ...
AcceptOk(a) ==
  /\ acceptPc[a] = "accept" /\ a \in listening /\ created < MaxSockets
  /\ created' = New /\ open' = open \cup {New}
  /\ accepted' = [accepted EXCEPT ![a] = New]
  /\ acceptPc' = [acceptPc EXCEPT ![a] = "dispatch"]
  /\ UNCHANGED <<mState, refs, listening, connectPc, connectedPc, stopped>>

\* ... or throws: the socket was closed, or Bluetooth was switched off.
AcceptThrows(a) ==
  /\ acceptPc[a] = "accept"
  /\ acceptPc' = [acceptPc EXCEPT ![a] = "ended"]
  /\ UNCHANGED <<mState, refs, sockets, connectPc, connectedPc, accepted, stopped>>

AcceptDispatch(a) ==
  /\ acceptPc[a] = "dispatch"
  /\ acceptPc' = [acceptPc EXCEPT ![a] = "test"]
  /\ \/ mState \in {"LISTEN", "CONNECTING"} /\ connected(accepted[a])
     \/ /\ mState \in {"NONE", "CONNECTED"}
        /\ open' = open \ {accepted[a]}
        /\ UNCHANGED <<mState, refs, listening, connectedPc>>
  /\ accepted' = [accepted EXCEPT ![a] = null]
  /\ UNCHANGED <<created, connectPc, stopped>>

-----------------------------------------------------------------------------
(* ConnectedThread.                                                        *)

\* available() or read() throws: the socket was closed, or the link lost.
ReadThrows(s) ==
  /\ connectedPc[s] = "reading"
  /\ connectedPc' = [connectedPc EXCEPT ![s] = "lost"]
  /\ UNCHANGED <<mState, refs, sockets, acceptPc, connectPc, accepted, stopped>>

StateAfterLossKept == mState                       \* mutant
StateAfterLossNew == "LOST"     \* mutant: a state AcceptThread's switch does not know
StateAfterLoss == "LISTEN"

connectionLost(s) ==
  /\ connectedPc[s] = "lost"
  /\ connectedPc' = [connectedPc EXCEPT ![s] = "ended"]
  /\ mState' = StateAfterLoss
  /\ UNCHANGED <<refs, sockets, acceptPc, connectPc, accepted, stopped>>

-----------------------------------------------------------------------------
ConnectThread(s) == \/ ConnectOk(s) \/ ConnectThrows(s) \/ connectionFailed(s)
                    \/ Restart(s) \/ ResetConnectThread(s) \/ ConnectDone(s)
AcceptThread(a) == AcceptTest(a) \/ AcceptOk(a) \/ AcceptThrows(a) \/ AcceptDispatch(a)
ConnectedThread(s) == ReadThrows(s) \/ connectionLost(s)

Next == \/ Connect \/ Stop
        \/ \E s \in Sockets : ConnectThread(s) \/ AcceptThread(s) \/ ConnectedThread(s)

\* Threads run; connect() returns or throws; a blocking call on a closed
\* socket throws.  Nothing is assumed of incoming connections or lost links.
Fairness == \A s \in Sockets :
  /\ WF_vars(ConnectThread(s))
  /\ WF_vars(AcceptTest(s) \/ AcceptDispatch(s))
  /\ WF_vars(s \notin listening /\ AcceptThrows(s))
  /\ WF_vars(s \notin open /\ ReadThrows(s))
  /\ WF_vars(connectionLost(s))

Spec == Init /\ [][Next]_vars
FairSpec == Spec /\ Fairness

-----------------------------------------------------------------------------
(* Properties.                                                             *)

Ref == Sockets \cup {null}
Running(s) == \/ connectPc[s] \notin {"none", "ended"}
              \/ acceptPc[s] \notin {"none", "ended"}
              \/ connectedPc[s] \notin {"none", "ended"}

TypeOK ==
  /\ mState \in {"NONE", "LISTEN", "CONNECTING", "CONNECTED"}
  /\ mAcceptThread \in Ref /\ mConnectThread \in Ref /\ mConnectedThread \in Ref
  /\ created \in 0 .. MaxSockets
  /\ open \subseteq 1 .. created /\ listening \subseteq 1 .. created
  /\ acceptPc \in [Sockets -> {"none", "test", "accept", "dispatch", "ended"}]
  /\ connectPc \in [Sockets -> {"none", "connecting", "failed", "restart", "made",
                                "unlocked", "ended"}]
  /\ connectedPc \in [Sockets -> {"none", "reading", "lost", "ended"}]
  /\ accepted \in [Sockets -> Ref] /\ stopped \in BOOLEAN

\* "We only want to connect to one device" (BluetoothChatService.java:151):
\* whatever attempts and incoming connections race, at most one connection is
\* open and read from, and it is the one that write() uses and stop() closes.
OneConnection ==
  \A s \in open : connectedPc[s] # "none" => s = mConnectedThread

\* No AcceptThread is left listening that stop() and connected() cannot reach
\* (lines 109-112, 152, 175).
ListenerReachable == \A a \in listening : a = mAcceptThread

\* write() (lines 188-193) finds a ConnectedThread, one that has not reported
\* the loss of its connection, whenever the state says connected.
ConnectedHasThread ==
  mState = "CONNECTED" =>
    mConnectedThread # null /\ connectedPc[mConnectedThread] \in {"reading", "lost"}

\* An attempt is not left pending (lines 120-135, 317-346): the state says
\* "connecting" only until the attempt succeeds or fails, also when attempts
\* overtake each other.
AttemptsEnd == mState = "CONNECTING" ~> mState # "CONNECTING"

\* What the comment at BluetoothChatService.java:169 says of stop(): "Stop all
\* threads".  Once it was called all threads end, unless connect() is called.
StopStopsAllThreads == stopped ~> ~stopped \/ \A s \in Sockets : ~Running(s)
=============================================================================
