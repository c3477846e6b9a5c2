--------------------------- MODULE XmppConnection ---------------------------
(***************************************************************************)
(* The life cycle of the XMPP connection kept by xmpp/XMPPManager.java.    *)
(*                                                                         *)
(* One thread, the xmppQueue, runs posted tasks one after the other; a     *)
(* task that dials blocks it in connect() and then in login().  Meanwhile  *)
(* the main thread (Internet, ScreenReceiver, the activities), the         *)
(* stageQueue timer and the reader threads of the Smack library write      *)
(* connectionState, arm the timer and post more tasks.                     *)
(*                                                                         *)
(* A connection object keeps every general listener it was ever given      *)
(* (cleanupConnection does not remove them), so each has a listener count. *)
(* Time is not modelled: a timer that is armed may fire at any moment.     *)
(***************************************************************************)
EXTENDS Integers, Sequences

CONSTANTS
  Conn,          \* identities of XMPPTCPConnection objects
  NoConn,        \* null
  Networks,      \* network types, e.g. wifi and mobile
  NoNetwork,     \* networkType = -1
  LoginOnConnect,\* does connect() log an object in again that was logged in?
  MaxListeners,  \* bound: listeners counted on one connection object
  MaxTasks,      \* bound: other threads post no more than that many tasks
  MaxDelayed,    \* bound: delayed maybeStartReconnect posts outstanding
  MaxRestarts    \* bound: calls of connectAndAuth left in restartConnection

ASSUME ConnAssumption == NoConn \notin Conn
ASSUME NetworkAssumption == NoNetwork \notin Networks
ASSUME BoundsAssumption ==
  /\ MaxListeners \in Nat \ {0}
  /\ MaxTasks \in Nat \ {0}
  /\ MaxDelayed \in Nat \ {0}
  /\ MaxRestarts \in Nat
  /\ LoginOnConnect \in BOOLEAN

VARIABLES
  connectionState, \* XMPPManager.connectionState
  connection,      \* XMPPManager.connection
  sock,            \* per object: "closed", "open" (connected), "authed"
  onceAuthed,      \* objects that have been logged in before
  listeners,       \* per object: general connection listeners registered
  errored,         \* objects whose reader thread is about to report an error
  xmppQueue,       \* tasks posted to the xmppQueue
  delayed,         \* maybeStartReconnect posts that wait for their 500 ms
  worker,          \* what the xmppQueue thread is blocked in
  arming,          \* other threads past the check of maybeStartReconnect
  stageTimer,      \* is stageRunnable posted to the stageQueue?
  network,         \* the active network of the device
  networkType      \* Internet.networkType, the network last seen

managerVars == <<connectionState, connection, xmppQueue, worker>>
socketVars  == <<sock, onceAuthed, listeners, errored>>
timerVars   == <<delayed, arming, stageTimer>>
netVars     == <<network, networkType>>
vars == <<connectionState, connection, sock, onceAuthed, listeners, errored,
          xmppQueue, delayed, worker, arming, stageTimer, network, networkType>>

State == {"OFFLINE", "CONNECTING", "ONLINE", "DISCONNECTED", "RECONNECT_NETWORK"}

\* Tasks: the three requests that occur, the body connectionClosed posts,
\* and a delayed maybeStartReconnect whose time has come.
Request == {"ONLINE", "DISCONNECTED", "RECONNECT_NETWORK"}
Task == Request \cup {"reopen"}

\* Why the thread dials: a request or a restart ("init"), connectionClosed on
\* the old object ("reopen"), or its exception handler on a fresh one
\* ("replace").  outer is the stack of connectAndAuth calls that wait for the
\* return of restartConnection, to log their object in after it ("relogin").
Call == [c : Conn, why : {"init", "replace"}]
Idle == [at |-> "idle", c |-> NoConn, why |-> "none", outer |-> <<>>]
Busy ==
  [at : {"connect"}, c : Conn, why : {"reopen"}, outer : {<<>>}]
    \cup [at : {"connect", "login", "relogin"}, c : Conn,
          why : {"init", "replace"}, outer : Seq(Call)]

\* The threads, besides the xmppQueue's, that call maybeStartReconnect.
OtherThread == {"main", "ping"}

TypeOK ==
  /\ connectionState \in State
  /\ connection \in Conn \cup {NoConn}
  /\ sock \in [Conn -> {"closed", "open", "authed"}]
  /\ onceAuthed \subseteq Conn
  /\ listeners \in [Conn -> 0..MaxListeners]
  /\ errored \subseteq Conn
  /\ xmppQueue \in Seq(Task)
  /\ delayed \in Nat
  /\ worker \in Busy \cup {Idle}
  /\ arming \subseteq OtherThread
  /\ stageTimer \in BOOLEAN
  /\ network \in Networks \cup {NoNetwork}
  /\ networkType \in Networks \cup {NoNetwork}

-----------------------------------------------------------------------------
(* What the handlers read and the calls they share.                        *)

IsConnectedAt(c) == c # NoConn /\ sock[c] # "closed"

IsXmppConnected == IsConnectedAt(connection)

IsConnected == IsXmppConnected /\ connectionState = "ONLINE"

HasDataConnection == network # NoNetwork

\* Does maybeStartReconnect, called with this connectionState, arm the timer?
Schedules(state) ==
  /\ HasDataConnection
  /\ state \notin {"ONLINE", "RECONNECT_NETWORK", "CONNECTING"}

\* maybeStartReconnect on the xmppQueue thread, not connected.
MaybeStartReconnect(state) == stageTimer' = (stageTimer \/ Schedules(state))

\* On another thread it checks here and arms the timer in a later step, Arm.
CheckReconnect(thread, state) ==
  arming' = IF Schedules(state) THEN arming \cup {thread} ELSE arming

\* The tasks connectionClosed posts, one per listener, called in this state.
ReopenTasks(c, state) ==
  IF state \in {"CONNECTING", "RECONNECT_NETWORK"}
  THEN <<>>
  ELSE [i \in 1..listeners[c] |-> "reopen"]

\* The objects the thread has a call of connectAndAuth or connect() for.
Waiting == {worker.outer[i].c : i \in DOMAIN worker.outer}
Dialled == {worker.c} \cup Waiting

\* An object that is not referred to and can call nobody back, because its
\* socket is closed or it has no listener, may stand for a new one.
Unused(c) ==
  /\ connection # c
  /\ c \notin Dialled
  /\ listeners[c] = 0 \/ (sock[c] = "closed" /\ c \notin errored)

\* Mutant: a listener is never added.
NoListener(c, l) == l

AddListener(c, l) == [l EXCEPT ![c] = IF @ < MaxListeners THEN @ + 1 ELSE @]

\* cleanupConnection: cancels the timer; a live connection is disconnected,
\* which calls connectionClosed of its listeners, and dropped.
CleanupConnection(rest) ==
  /\ stageTimer' = FALSE
  /\ xmppQueue' = IF IsXmppConnected
                  THEN rest \o ReopenTasks(connection, connectionState)
                  ELSE rest

KeptConnection == IF IsXmppConnected THEN NoConn ELSE connection

Disconnected ==
  IF IsXmppConnected THEN [sock EXCEPT ![connection] = "closed"] ELSE sock

\* stop()
Stop(rest) ==
  /\ CleanupConnection(rest)
  /\ sock' = Disconnected
  /\ connectionState' = "DISCONNECTED"
  /\ connection' = NoConn

\* Dial the object the field holds, or a new one (d # c), out of the sockets
\* s, with the calls that wait for it.  A replacement is made with a listener.
Dial(c, d, why, calls, s) ==
  /\ worker' = [at |-> "connect", c |-> d, why |-> why, outer |-> calls]
  /\ IF d = c
     THEN sock' = s /\ UNCHANGED <<onceAuthed, listeners, errored>>
     ELSE /\ sock' = [s EXCEPT ![d] = "closed"]
          /\ onceAuthed' = onceAuthed \ {d}
          /\ listeners' = [listeners EXCEPT ![d] = IF why = "replace" THEN 1 ELSE 0]
          /\ errored' = errored \ {d}

\* The thread goes back to its queue, or from restartConnection to the call of
\* connectAndAuth that made it, which goes on to login() whatever came of it.
Returned ==
  IF worker.outer = <<>> THEN Idle
  ELSE LET call == Head(worker.outer)
       IN  [at |-> "relogin", c |-> call.c, why |-> call.why,
            outer |-> Tail(worker.outer)]

\* onConnectionEstablished(c), and the thread returns.
OnConnectionEstablished(c) ==
  /\ connection' = c
  /\ listeners' = AddListener(c, listeners)
  /\ connectionState' = "ONLINE"
  /\ worker' = Returned

-----------------------------------------------------------------------------
(* The xmppQueue thread.                                                   *)

TaskIs(task) == worker = Idle /\ xmppQueue # <<>> /\ Head(xmppQueue) = task

\* xmppRequestStateChange(ONLINE) while connected.
AlreadyOnline ==
  /\ TaskIs("ONLINE")
  /\ IsConnected
  /\ xmppQueue' = Tail(xmppQueue)
  /\ UNCHANGED <<connectionState, connection, worker, socketVars, timerVars, netVars>>

\* xmppRequestStateChange(ONLINE): cleanupConnection, then initConnection up
\* to connect().
InitConnection ==
  /\ TaskIs("ONLINE")
  /\ ~IsConnected
  /\ CleanupConnection(Tail(xmppQueue))
  /\ connection' = KeptConnection
  /\ connectionState' = "CONNECTING"
  /\ \E d \in Conn :
       /\ IF connection' = NoConn THEN Unused(d) ELSE d = connection'
       /\ Dial(connection', d, "init", <<>>, Disconnected)
  /\ UNCHANGED <<delayed, arming, netVars>>

\* xmppRequestStateChange(DISCONNECTED)
StopRequested ==
  /\ TaskIs("DISCONNECTED")
  /\ Stop(Tail(xmppQueue))
  /\ UNCHANGED <<worker, onceAuthed, listeners, errored, delayed, arming, netVars>>

\* xmppRequestStateChange(RECONNECT_NETWORK)
WaitForNetwork ==
  /\ TaskIs("RECONNECT_NETWORK")
  /\ CleanupConnection(Tail(xmppQueue))
  /\ sock' = Disconnected
  /\ connection' = KeptConnection
  /\ connectionState' = "RECONNECT_NETWORK"
  /\ UNCHANGED <<worker, onceAuthed, listeners, errored, delayed, arming, netVars>>

\* Mutant: the state stays what it was while the connection is dialled anew.
ReopenInState ==
  /\ TaskIs("reopen")
  /\ connection # NoConn
  /\ ~IsXmppConnected
  /\ xmppQueue' = Tail(xmppQueue)
  /\ Dial(connection, connection, "reopen", <<>>, sock)
  /\ UNCHANGED <<connectionState, connection, timerVars, netVars>>

\* The task of connectionClosed, with a connection that can be dialled.
Reopen ==
  /\ TaskIs("reopen")
  /\ connection # NoConn
  /\ ~IsXmppConnected
  /\ xmppQueue' = Tail(xmppQueue)
  /\ connectionState' = "CONNECTING"
  /\ Dial(connection, connection, "reopen", <<>>, sock)
  /\ UNCHANGED <<connection, timerVars, netVars>>

\* The exception handler of that task: a new connection is dialled in place
\* of the old one, with the listener of the old one.
ReplaceConnection(rest) ==
  /\ xmppQueue' = rest
  /\ connectionState' = "DISCONNECTED"
  /\ connection' = NoConn
  /\ \E d \in Conn : Unused(d) /\ Dial(NoConn, d, "replace", <<>>, sock)

\* The same task when connect() throws at once: the field is null, or the
\* connection is open already.
ReopenThrows ==
  /\ TaskIs("reopen")
  /\ connection = NoConn \/ IsXmppConnected
  /\ ReplaceConnection(Tail(xmppQueue))
  /\ UNCHANGED <<timerVars, netVars>>

\* Mutant: the delayed call runs twice for one post.
DelayedReconnectRepeated ==
  /\ worker = Idle
  /\ delayed' = delayed - 1
  /\ UNCHANGED stageTimer
  /\ UNCHANGED <<managerVars, socketVars, arming, netVars>>

\* The 500 ms of a connectionClosedOnError have passed.
DelayedReconnect ==
  /\ worker = Idle
  /\ delayed > 0
  /\ delayed' = delayed - 1
  /\ IF IsConnected THEN UNCHANGED stageTimer ELSE MaybeStartReconnect(connectionState)
  /\ UNCHANGED <<managerVars, socketVars, arming, netVars>>

\* connect() succeeds.  An object that was logged in before may be logged in
\* by it; otherwise login() follows, except in the connectionClosed task.
ConnectSucceeds ==
  LET c    == worker.c
      auth == LoginOnConnect /\ c \in onceAuthed
  IN /\ worker.at = "connect"
     /\ HasDataConnection
     /\ sock' = [sock EXCEPT ![c] = IF auth THEN "authed" ELSE "open"]
     /\ \/ /\ worker.why = "reopen"
           /\ connectionState' = "ONLINE"
           /\ worker' = Idle
           /\ UNCHANGED <<connection, listeners>>
        \/ /\ worker.why # "reopen"
           /\ auth
           /\ OnConnectionEstablished(c)
        \/ /\ worker.why # "reopen"
           /\ ~auth
           /\ worker' = [worker EXCEPT !.at = "login"]
           /\ UNCHANGED <<connectionState, connection, listeners>>
     /\ UNCHANGED <<xmppQueue, onceAuthed, errored, timerVars, netVars>>

\* connect() throws in connectAndAuth: false for initConnection, ignored by
\* the connectionClosed task, which goes on as if it had succeeded.
ConnectFails ==
  /\ worker.at = "connect"
  /\ worker.why # "reopen"
  /\ MaybeStartReconnect("DISCONNECTED")
  /\ IF worker.why = "init"
     THEN /\ connectionState' = "DISCONNECTED"
          /\ worker' = Returned
          /\ UNCHANGED <<connection, listeners>>
     ELSE OnConnectionEstablished(worker.c)
  /\ UNCHANGED <<xmppQueue, sock, onceAuthed, errored, delayed, arming, netVars>>

\* connect() throws in the connectionClosed task.
ReopenFails ==
  /\ worker.at = "connect"
  /\ worker.why = "reopen"
  /\ ReplaceConnection(xmppQueue)
  /\ UNCHANGED <<timerVars, netVars>>

\* Before login(), XHTMLManager throws an exception without a message:
\* restartConnection drops the connection and dials a new one, on this thread.
RestartConnection ==
  /\ worker.at = "login"
  /\ Len(worker.outer) < MaxRestarts
  /\ CleanupConnection(xmppQueue)
  /\ connection' = NoConn
  /\ connectionState' = "CONNECTING"
  /\ \E d \in Conn :
       /\ Unused(d)
       /\ Dial(NoConn, d, "init",
               <<[c |-> worker.c, why |-> worker.why]>> \o worker.outer, Disconnected)
  /\ UNCHANGED <<delayed, arming, netVars>>

LoggingIn == worker.at \in {"login", "relogin"}

LoginSucceeds ==
  /\ LoggingIn
  /\ sock[worker.c] = "open"
  /\ sock' = [sock EXCEPT ![worker.c] = "authed"]
  /\ onceAuthed' = onceAuthed \cup {worker.c}
  /\ OnConnectionEstablished(worker.c)
  /\ UNCHANGED <<xmppQueue, errored, timerVars, netVars>>

\* login() throws a StreamErrorException: the stream is gone; only
\* maybeStartReconnect is called.
LoginStreamError ==
  /\ LoggingIn
  /\ MaybeStartReconnect(connectionState)
  /\ sock' = [sock EXCEPT ![worker.c] = "closed"]
  /\ errored' = IF sock[worker.c] = "open" THEN errored \cup {worker.c} ELSE errored
  /\ IF worker.why = "init"
     THEN worker' = Returned /\ UNCHANGED <<connectionState, connection, listeners>>
     ELSE OnConnectionEstablished(worker.c)
  /\ UNCHANGED <<xmppQueue, onceAuthed, delayed, arming, netVars>>

\* login() throws anything else (no answer, not connected, refused): stop().
LoginFails ==
  /\ LoggingIn
  /\ CleanupConnection(xmppQueue)
  /\ sock' = Disconnected
  /\ IF worker.why = "init"
     THEN /\ connectionState' = "DISCONNECTED"
          /\ connection' = NoConn
          /\ worker' = Returned
          /\ UNCHANGED listeners
     ELSE OnConnectionEstablished(worker.c)
  /\ UNCHANGED <<onceAuthed, errored, delayed, arming, netVars>>

-----------------------------------------------------------------------------
(* The stageQueue timer, the main thread and Smack's reader threads.       *)

Room(n) == Len(xmppQueue) + n <= MaxTasks

Post(task) == xmppQueue' = Append(xmppQueue, task)

StageTimerFires ==
  /\ stageTimer
  /\ Room(1)
  /\ stageTimer' = FALSE
  /\ Post("ONLINE")
  /\ UNCHANGED <<connectionState, connection, worker, socketVars, delayed, arming, netVars>>

\* postInitApplication, onResume, showOrUpdateNotification.
AppCallsReconnect ==
  /\ ~IsConnected
  /\ CheckReconnect("main", connectionState)
  /\ UNCHANGED <<managerVars, socketVars, delayed, stageTimer, netVars>>

\* The rest of maybeStartReconnect: whatever was posted is posted anew.
Arm(thread) ==
  /\ thread \in arming
  /\ arming' = arming \ {thread}
  /\ stageTimer' = TRUE
  /\ UNCHANGED <<managerVars, socketVars, delayed, netVars>>

ScreenOn ==
  /\ ~IsConnected
  /\ Room(1)
  /\ Post("ONLINE")
  /\ UNCHANGED <<connectionState, connection, worker, socketVars, timerVars, netVars>>

NetworkChanges ==
  /\ network' \in (Networks \cup {NoNetwork}) \ {network}
  /\ UNCHANGED <<managerVars, socketVars, timerVars, networkType>>

\* Mutant: a network that is back changes the state but requests nothing.
BroadcastWithoutRequest ==
  /\ Room(1)
  /\ \/ networkType # NoNetwork /\ network = NoNetwork /\ Post("DISCONNECTED")
     \/ networkType = NoNetwork /\ network = NoNetwork /\ Post("RECONNECT_NETWORK")
     \/ network \notin {NoNetwork, networkType} /\ UNCHANGED xmppQueue
  /\ networkType' = network
  /\ UNCHANGED <<connectionState, connection, worker, socketVars, timerVars, network>>

\* Internet.onReceive, which reads the network when it runs.  A broadcast
\* that finds the network it knows only sends a ping.
ConnectivityBroadcast ==
  /\ Room(1)
  /\ \/ /\ networkType # NoNetwork
        /\ network = NoNetwork
        /\ Post("DISCONNECTED")
        /\ UNCHANGED connectionState
     \/ /\ network # NoNetwork
        /\ network # networkType
        /\ connectionState' = "DISCONNECTED"
        /\ Post("ONLINE")
     \/ /\ network = NoNetwork
        /\ networkType = NoNetwork
        /\ Post("RECONNECT_NETWORK")
        /\ UNCHANGED connectionState
  /\ networkType' = network
  /\ UNCHANGED <<connection, worker, socketVars, timerVars, network>>

\* The reader thread of c meets an IOException ...
SocketDies(c) ==
  /\ sock[c] # "closed"
  /\ sock' = [sock EXCEPT ![c] = "closed"]
  /\ errored' = errored \cup {c}
  /\ UNCHANGED <<managerVars, onceAuthed, listeners, timerVars, netVars>>

\* Mutant: the loss is recorded, but no reconnection is scheduled.
ReportErrorOnly(c) ==
  /\ c \in errored
  /\ errored' = errored \ {c}
  /\ connectionState' = IF listeners[c] = 0 THEN connectionState ELSE "DISCONNECTED"
  /\ UNCHANGED <<connection, xmppQueue, worker, sock, onceAuthed, listeners,
                 timerVars, netVars>>

\* ... and then calls connectionClosedOnError of its listeners.
ReportError(c) ==
  /\ c \in errored
  /\ errored' = errored \ {c}
  /\ IF listeners[c] = 0
     THEN UNCHANGED <<connectionState, delayed>>
     ELSE /\ delayed + listeners[c] <= MaxDelayed
          /\ connectionState' = "DISCONNECTED"
          /\ delayed' = delayed + listeners[c]
  /\ UNCHANGED <<connection, xmppQueue, worker, sock, onceAuthed, listeners,
                 arming, stageTimer, netVars>>

\* The server closes the stream of c: connectionClosed on the reader thread.
ServerCloses(c) ==
  /\ sock[c] # "closed"
  /\ Room(listeners[c])
  /\ sock' = [sock EXCEPT ![c] = "closed"]
  /\ xmppQueue' = xmppQueue \o ReopenTasks(c, connectionState)
  /\ UNCHANGED <<connectionState, connection, worker, onceAuthed, listeners,
                 errored, timerVars, netVars>>

\* pingFailed more than 30 s after the last one, on a logged-in connection.
PingFails(c) ==
  /\ sock[c] = "authed"
  /\ "ping" \notin arming
  /\ connectionState' = "DISCONNECTED"
  /\ CheckReconnect("ping", "DISCONNECTED")
  /\ UNCHANGED <<connection, xmppQueue, worker, socketVars, delayed, stageTimer, netVars>>

-----------------------------------------------------------------------------
Init ==
  /\ connectionState = "OFFLINE"
  /\ connection = NoConn
  /\ sock = [c \in Conn |-> "closed"]
  /\ onceAuthed = {}
  /\ listeners = [c \in Conn |-> 0]
  /\ errored = {}
  /\ xmppQueue = <<>>
  /\ delayed = 0
  /\ worker = Idle
  /\ arming = {}
  /\ stageTimer = FALSE
  /\ network \in Networks \cup {NoNetwork}
  /\ networkType = network

RunTask ==
  \/ AlreadyOnline
  \/ InitConnection
  \/ StopRequested
  \/ WaitForNetwork
  \/ Reopen
  \/ ReopenThrows

Dialling ==
  \/ ConnectSucceeds
  \/ ConnectFails
  \/ ReopenFails
  \/ RestartConnection
  \/ LoginSucceeds
  \/ LoginStreamError
  \/ LoginFails

MaybeArm == \E thread \in OtherThread : Arm(thread)

MainThread ==
  /\ "main" \notin arming
  /\ \/ AppCallsReconnect
     \/ ScreenOn
     \/ ConnectivityBroadcast

ReaderThread(c) ==
  \/ SocketDies(c)
  \/ ReportError(c)
  \/ ServerCloses(c)
  \/ PingFails(c)

Next ==
  \/ RunTask
  \/ DelayedReconnect
  \/ Dialling
  \/ StageTimerFires
  \/ MaybeArm
  \/ MainThread
  \/ NetworkChanges
  \/ \E c \in Conn : ReaderThread(c)

Spec == Init /\ [][Next]_vars

(***************************************************************************)
(* The threads run, connect() and login() return (Smack bounds each reply  *)
(* by 6 s), a reader thread that met an error reports it.  The queue bound *)
(* may close again and again before the timer fires, hence SF.  A session  *)
(* the application has replaced ends some day: the server accepts one      *)
(* session with the resource name this client always uses.                 *)
(***************************************************************************)
OrphanDies(c) == connection # c /\ c \notin Dialled /\ SocketDies(c)

Fairness ==
  /\ WF_vars(RunTask)
  /\ WF_vars(Dialling)
  /\ WF_vars(DelayedReconnect)
  /\ SF_vars(StageTimerFires)
  /\ \A thread \in OtherThread : WF_vars(Arm(thread))
  /\ \A c \in Conn : SF_vars(ReportError(c)) /\ WF_vars(OrphanDies(c))

FairSpec == Spec /\ Fairness

-----------------------------------------------------------------------------
(* Properties.                                                             *)

\* Whenever the application believes it is online, the connection it holds
\* has a listener that will report its loss (onConnectionEstablished adds it
\* before the state is written; the state is never ONLINE without it).
OnlineIsWatched ==
  connectionState = "ONLINE" => connection # NoConn /\ listeners[connection] > 0

\* While the xmppQueue thread dials, whatever the other threads write, the
\* state is ONLINE in one place only: restartConnection has put a connection
\* up, and the call that made it still logs the object in that it gave up.
\* That object is never the one the application is online with.
OnlineOnlyBesideRelogin ==
  worker # Idle /\ connectionState = "ONLINE"
    => worker.at = "relogin" /\ connection \notin Dialled

\* RECONNECT_NETWORK disables maybeStartReconnect and connectionClosed, so
\* only Internet's request can end it: once the receiver has seen a network,
\* an ONLINE request is behind in the queue.
WaitingIsNotForgotten ==
  connectionState = "RECONNECT_NETWORK" /\ networkType # NoNetwork
    => \E i \in DOMAIN xmppQueue : xmppQueue[i] = "ONLINE"

\* Disconnected, with a network, and nothing under way that will dial again.
Stranded ==
  /\ connectionState = "DISCONNECTED"
  /\ HasDataConnection
  /\ worker = Idle
  /\ xmppQueue = <<>>
  /\ ~stageTimer
  /\ arming = {}
  /\ delayed = 0
  /\ \A c \in errored : listeners[c] = 0

\* Only three things leave the application disconnected with no retry: a
\* login that fails (stop(), by design), a requested stop, and a network that
\* comes back before the receiver saw it go.
RetryOrGiveUp ==
  [][~Stranded /\ Stranded' => LoginFails \/ StopRequested \/ NetworkChanges]_vars

\* ConnectionState.CONNECTING: "currently opening a connection".
ConnectingIsDialling == connectionState = "CONNECTING" => worker # Idle

\* ConnectionState.ONLINE: "connected and authenticated", when it is entered.
OnlineIsAuthenticated ==
  [][connectionState # "ONLINE" /\ connectionState' = "ONLINE"
       => sock'[connection'] = "authed"]_vars

\* The loss of the connection held leads to dialling again, as long as the
\* network the receiver knows stays: delayed post, timer and request are
\* never dropped on the way.
LossLeadsToDial ==
  (connection \in errored)
    ~> (worker # Idle \/ IsConnected \/ ~HasDataConnection \/ networkType # network)
=============================================================================
