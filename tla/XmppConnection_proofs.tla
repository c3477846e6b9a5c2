----------------------- MODULE XmppConnection_proofs -----------------------
(***************************************************************************)
(* Theorems about XmppConnection, for every set of connection objects and  *)
(* networks and every value of the bounds.                                 *)
(***************************************************************************)
EXTENDS XmppConnection, TLAPS

\* What connectionClosed posts is a sequence of tasks.
LEMMA ReopenTasksType ==
  ASSUME TypeOK, NEW c \in Conn, NEW state
  PROVE  ReopenTasks(c, state) \in Seq({"reopen"}) /\ ReopenTasks(c, state) \in Seq(Task)
<1>1. listeners[c] \in Nat
  BY BoundsAssumption DEF TypeOK
<1>2. QED
  BY <1>1 DEF ReopenTasks, Task

LEMMA OuterType ==
  ASSUME TypeOK
  PROVE  /\ worker.outer \in Seq(Call)
         /\ \A i \in DOMAIN worker.outer : worker.outer[i].c \in Conn
<1>1. worker.outer \in Seq(Call)
  <2>1. <<>> \in Seq(Call)
    OBVIOUS
  <2>2. worker \in Busy \cup {Idle}
    BY DEF TypeOK
  <2>3. CASE worker = Idle
    BY <2>1, <2>3 DEF Idle
  <2>4. CASE worker \in Busy
    BY <2>1, <2>4 DEF Busy
  <2>5. QED
    BY <2>2, <2>3, <2>4
<1>2. ASSUME NEW i \in DOMAIN worker.outer PROVE worker.outer[i].c \in Conn
  <2>1. worker.outer[i] \in Call
    BY <1>1
  <2>2. QED
    BY <2>1 DEF Call
<1>3. QED
  BY <1>1, <1>2

\* A return gives the queue back the thread, or a call of connectAndAuth.
LEMMA ReturnedType ==
  ASSUME TypeOK
  PROVE  Returned \in Busy \cup {Idle}
<1>1. CASE worker.outer = <<>>
  BY <1>1 DEF Returned
<1>2. CASE worker.outer # <<>>
  <2>1. worker.outer \in Seq(Call)
    BY <1>2 DEF TypeOK, Busy, Idle
  <2>2. Head(worker.outer) \in Call /\ Tail(worker.outer) \in Seq(Call)
    BY <1>2, <2>1
  <2>3. QED
    BY <1>2, <2>2 DEF Returned, Busy, Call
<1>3. QED
  BY <1>1, <1>2

\* onConnectionEstablished keeps the types, for any object.
LEMMA EstablishedType ==
  ASSUME TypeOK, NEW c \in Conn, OnConnectionEstablished(c)
  PROVE  /\ connection' \in Conn
         /\ listeners' \in [Conn -> 0..MaxListeners]
         /\ connectionState' \in State
         /\ worker' \in Busy \cup {Idle}
BY BoundsAssumption, ReturnedType DEF TypeOK, OnConnectionEstablished, AddListener, State

\* So does dialling an object.
LEMMA DialType ==
  ASSUME TypeOK, NEW c \in Conn \cup {NoConn}, NEW d \in Conn,
         NEW why \in {"init", "reopen", "replace"}, NEW calls \in Seq(Call),
         why = "reopen" => calls = <<>>,
         NEW s \in [Conn -> {"closed", "open", "authed"}],
         Dial(c, d, why, calls, s)
  PROVE  /\ worker' \in Busy
         /\ sock' \in [Conn -> {"closed", "open", "authed"}]
         /\ onceAuthed' \subseteq Conn
         /\ listeners' \in [Conn -> 0..MaxListeners]
         /\ errored' \subseteq Conn
<1>1. worker' \in Busy
  BY DEF Dial, Busy
<1>2. CASE d = c
  BY <1>1, <1>2 DEF TypeOK, Dial
<1>3. CASE d # c
  <2> DEFINE l == IF why = "replace" THEN 1 ELSE 0
  <2>1. l \in 0..MaxListeners
    BY BoundsAssumption
  <2>2. /\ sock' = [s EXCEPT ![d] = "closed"]
        /\ listeners' = [listeners EXCEPT ![d] = l]
        /\ onceAuthed' = onceAuthed \ {d}
        /\ errored' = errored \ {d}
    BY <1>3 DEF Dial
  <2>3. QED
    BY <1>1, <2>1, <2>2 DEF TypeOK
<1>4. QED
  BY <1>2, <1>3

\* cleanupConnection leaves a queue of tasks and drops a live connection.
LEMMA CleanupType ==
  ASSUME TypeOK, NEW rest \in Seq(Task), CleanupConnection(rest)
  PROVE  /\ stageTimer' \in BOOLEAN
         /\ xmppQueue' \in Seq(Task)
         /\ Disconnected \in [Conn -> {"closed", "open", "authed"}]
         /\ KeptConnection \in Conn \cup {NoConn}
<1>1. CASE IsXmppConnected
  <2>1. connection \in Conn
    BY <1>1 DEF IsXmppConnected, IsConnectedAt, TypeOK
  <2>2. ReopenTasks(connection, connectionState) \in Seq(Task)
    BY <2>1, ReopenTasksType
  <2>3. stageTimer' \in BOOLEAN
    BY DEF CleanupConnection
  <2>4. xmppQueue' = rest \o ReopenTasks(connection, connectionState)
    BY <1>1 DEF CleanupConnection
  <2>5. xmppQueue' \in Seq(Task)
    BY <2>2, <2>4
  <2>6. QED
    BY <1>1, <2>1, <2>3, <2>5 DEF Disconnected, KeptConnection, TypeOK
<1>2. CASE ~IsXmppConnected
  BY <1>2 DEF CleanupConnection, Disconnected, KeptConnection, TypeOK
<1>3. QED
  BY <1>1, <1>2

LEMMA PostType ==
  ASSUME TypeOK, NEW task \in Request, Post(task)
  PROVE  xmppQueue' \in Seq(Task)
<1>1. task \in Task
  BY DEF Task
<1>2. QED
  BY <1>1 DEF Post, TypeOK

LEMMA WorkerType ==
  ASSUME TypeOK, worker.at # "idle"
  PROVE  worker \in Busy /\ worker.c \in Conn
BY DEF TypeOK, Busy, Idle

\* A task at the head of the queue: the rest is a queue of tasks.
LEMMA TaskType ==
  ASSUME TypeOK, NEW task, TaskIs(task)
  PROVE  Tail(xmppQueue) \in Seq(Task) /\ worker = Idle
BY DEF TypeOK, TaskIs

-----------------------------------------------------------------------------
LEMMA InitType == Init => TypeOK
<1> SUFFICES ASSUME Init PROVE TypeOK
  OBVIOUS
<1>1. sock \in [Conn -> {"closed", "open", "authed"}]
  BY DEF Init
<1>2. listeners \in [Conn -> 0..MaxListeners]
  BY BoundsAssumption DEF Init
<1>3. xmppQueue \in Seq(Task)
  BY DEF Init
<1>4. connectionState \in State /\ worker \in Busy \cup {Idle}
  BY DEF Init, State
<1>5. QED
  BY <1>1, <1>2, <1>3, <1>4 DEF Init, TypeOK

LEMMA NextType == TypeOK /\ [Next]_vars => TypeOK'
<1> SUFFICES ASSUME TypeOK, [Next]_vars PROVE TypeOK'
  OBVIOUS
<1> USE DEF managerVars, socketVars, timerVars, netVars
<1>0. <<>> \in Seq(Call)
  OBVIOUS
<1>1. CASE AlreadyOnline
  BY <1>1, TaskType DEF AlreadyOnline, TypeOK
<1>2. CASE InitConnection
  <2>1. Tail(xmppQueue) \in Seq(Task)
    BY <1>2, TaskType DEF InitConnection
  <2>2. PICK d \in Conn : Dial(connection', d, "init", <<>>, Disconnected)
    BY <1>2 DEF InitConnection
  <2>3. /\ stageTimer' \in BOOLEAN
        /\ xmppQueue' \in Seq(Task)
        /\ Disconnected \in [Conn -> {"closed", "open", "authed"}]
        /\ connection' \in Conn \cup {NoConn}
    BY <1>2, <2>1, CleanupType DEF InitConnection
  <2>4. /\ worker' \in Busy
        /\ sock' \in [Conn -> {"closed", "open", "authed"}]
        /\ onceAuthed' \subseteq Conn
        /\ listeners' \in [Conn -> 0..MaxListeners]
        /\ errored' \subseteq Conn
    BY <1>0, <2>2, <2>3, DialType
  <2>5. QED
    BY <1>2, <2>3, <2>4 DEF InitConnection, TypeOK, State
<1>3. CASE StopRequested
  BY <1>3, TaskType, CleanupType DEF StopRequested, Stop, TypeOK, State
<1>4. CASE WaitForNetwork
  BY <1>4, TaskType, CleanupType DEF WaitForNetwork, TypeOK, State
<1>5. CASE Reopen
  <2>1. connection \in Conn
    BY <1>5 DEF Reopen, TypeOK
  <2>2. Dial(connection, connection, "reopen", <<>>, sock)
    BY <1>5 DEF Reopen
  <2>3. /\ worker' \in Busy
        /\ sock' \in [Conn -> {"closed", "open", "authed"}]
        /\ onceAuthed' \subseteq Conn
        /\ listeners' \in [Conn -> 0..MaxListeners]
        /\ errored' \subseteq Conn
    BY <1>0, <2>1, <2>2, DialType DEF TypeOK
  <2>4. QED
    BY <1>5, <2>3, TaskType DEF Reopen, TypeOK, State
<1>6. ASSUME NEW rest \in Seq(Task), ReplaceConnection(rest), UNCHANGED <<timerVars, netVars>>
      PROVE TypeOK'
  <2>1. PICK d \in Conn : Dial(NoConn, d, "replace", <<>>, sock)
    BY <1>6 DEF ReplaceConnection
  <2>2. /\ worker' \in Busy
        /\ sock' \in [Conn -> {"closed", "open", "authed"}]
        /\ onceAuthed' \subseteq Conn
        /\ listeners' \in [Conn -> 0..MaxListeners]
        /\ errored' \subseteq Conn
    BY <1>0, <2>1, DialType, ConnAssumption DEF TypeOK
  <2>3. QED
    BY <1>6, <2>2 DEF ReplaceConnection, TypeOK, State
<1>7. CASE ReopenThrows
  BY <1>7, <1>6, TaskType DEF ReopenThrows
<1>8. CASE ReopenFails
  BY <1>8, <1>6 DEF ReopenFails, TypeOK
<1>9. CASE DelayedReconnect
  <2>1. stageTimer' \in BOOLEAN
    BY <1>9 DEF DelayedReconnect, MaybeStartReconnect, TypeOK
  <2>2. delayed' \in Nat
    BY <1>9 DEF DelayedReconnect, TypeOK
  <2>3. QED
    BY <1>9, <2>1, <2>2 DEF DelayedReconnect, TypeOK
<1>10. CASE ConnectSucceeds
  <2>1. worker \in Busy /\ worker.c \in Conn
    BY <1>10, WorkerType DEF ConnectSucceeds
  <2>2. sock' \in [Conn -> {"closed", "open", "authed"}]
    BY <1>10, <2>1 DEF ConnectSucceeds, TypeOK
  <2>3. /\ connection' \in Conn \cup {NoConn}
        /\ listeners' \in [Conn -> 0..MaxListeners]
        /\ connectionState' \in State
        /\ worker' \in Busy \cup {Idle}
    <3>1. CASE worker.why = "reopen"
      BY <1>10, <3>1 DEF ConnectSucceeds, TypeOK, State
    <3>2. CASE OnConnectionEstablished(worker.c)
      BY <3>2, <2>1, EstablishedType
    <3>3. CASE /\ worker.why # "reopen"
               /\ worker' = [worker EXCEPT !.at = "login"]
               /\ UNCHANGED <<connectionState, connection, listeners>>
      <4>1. worker' = [at |-> "login", c |-> worker.c, why |-> worker.why,
                       outer |-> worker.outer]
        BY <3>3, <2>1 DEF Busy
      <4>2. worker.c \in Conn /\ worker.why \in {"init", "replace"}
        BY <3>3, <2>1 DEF Busy
      <4>3. QED
        BY <3>3, <4>1, <4>2, OuterType DEF Busy, TypeOK
    <3>4. QED
      BY <1>10, <3>1, <3>2, <3>3 DEF ConnectSucceeds
  <2>4. QED
    BY <1>10, <2>2, <2>3 DEF ConnectSucceeds, TypeOK
<1>11. CASE ConnectFails
  <2>1. worker.c \in Conn
    BY <1>11, WorkerType DEF ConnectFails
  <2>2. /\ connection' \in Conn \cup {NoConn}
        /\ listeners' \in [Conn -> 0..MaxListeners]
        /\ connectionState' \in State
        /\ worker' \in Busy \cup {Idle}
    BY <1>11, <2>1, EstablishedType, ReturnedType DEF ConnectFails, TypeOK, State
  <2>3. QED
    BY <1>11, <2>2 DEF ConnectFails, MaybeStartReconnect, Schedules, HasDataConnection, TypeOK
<1>30. CASE RestartConnection
  <2>1. worker \in Busy /\ xmppQueue \in Seq(Task)
    BY <1>30, WorkerType DEF RestartConnection, TypeOK
  <2>2. /\ stageTimer' \in BOOLEAN
        /\ xmppQueue' \in Seq(Task)
        /\ Disconnected \in [Conn -> {"closed", "open", "authed"}]
    BY <1>30, <2>1, CleanupType DEF RestartConnection
  <2> DEFINE calls == <<[c |-> worker.c, why |-> worker.why]>> \o worker.outer
  <2>3. calls \in Seq(Call)
    <3>1. [c |-> worker.c, why |-> worker.why] \in Call /\ worker.outer \in Seq(Call)
      BY <1>30, <2>1, WorkerType DEF RestartConnection, Busy, Call
    <3>2. QED
      BY <3>1
  <2>4. PICK d \in Conn : Dial(NoConn, d, "init", calls, Disconnected)
    BY <1>30 DEF RestartConnection
  <2>5. /\ worker' \in Busy
        /\ sock' \in [Conn -> {"closed", "open", "authed"}]
        /\ onceAuthed' \subseteq Conn
        /\ listeners' \in [Conn -> 0..MaxListeners]
        /\ errored' \subseteq Conn
    BY <2>2, <2>3, <2>4, DialType
  <2>6. QED
    BY <1>30, <2>2, <2>5 DEF RestartConnection, TypeOK, State
<1>12. CASE LoginSucceeds
  <2>1. worker.c \in Conn
    BY <1>12, WorkerType DEF LoginSucceeds, LoggingIn
  <2>2. /\ connection' \in Conn \cup {NoConn}
        /\ listeners' \in [Conn -> 0..MaxListeners]
        /\ connectionState' \in State
        /\ worker' \in Busy \cup {Idle}
    BY <1>12, <2>1, EstablishedType DEF LoginSucceeds
  <2>3. QED
    BY <1>12, <2>1, <2>2 DEF LoginSucceeds, TypeOK
<1>13. CASE LoginStreamError
  <2>1. worker.c \in Conn
    BY <1>13, WorkerType DEF LoginStreamError, LoggingIn
  <2>2. /\ connection' \in Conn \cup {NoConn}
        /\ listeners' \in [Conn -> 0..MaxListeners]
        /\ connectionState' \in State
        /\ worker' \in Busy \cup {Idle}
    BY <1>13, <2>1, EstablishedType, ReturnedType DEF LoginStreamError, TypeOK
  <2>3. QED
    BY <1>13, <2>1, <2>2
    DEF LoginStreamError, MaybeStartReconnect, Schedules, HasDataConnection, TypeOK
<1>14. CASE LoginFails
  <2>1. worker.c \in Conn /\ xmppQueue \in Seq(Task)
    BY <1>14, WorkerType DEF LoginFails, LoggingIn, TypeOK
  <2>2. /\ connection' \in Conn \cup {NoConn}
        /\ listeners' \in [Conn -> 0..MaxListeners]
        /\ connectionState' \in State
        /\ worker' \in Busy \cup {Idle}
    BY <1>14, <2>1, EstablishedType, ReturnedType DEF LoginFails, TypeOK, State
  <2>3. /\ stageTimer' \in BOOLEAN
        /\ xmppQueue' \in Seq(Task)
        /\ sock' \in [Conn -> {"closed", "open", "authed"}]
    BY <1>14, <2>1, CleanupType DEF LoginFails
  <2>4. QED
    BY <1>14, <2>2, <2>3 DEF LoginFails, TypeOK
<1>15. CASE StageTimerFires
  <2>1. xmppQueue' \in Seq(Task)
    BY <1>15, PostType DEF StageTimerFires, Request
  <2>2. QED
    BY <1>15, <2>1 DEF StageTimerFires, TypeOK
<1>16. CASE MaybeArm
  BY <1>16 DEF MaybeArm, Arm, TypeOK
<1>17. CASE AppCallsReconnect
  BY <1>17 DEF AppCallsReconnect, CheckReconnect, OtherThread, TypeOK
<1>18. CASE ScreenOn
  <2>1. xmppQueue' \in Seq(Task)
    BY <1>18, PostType DEF ScreenOn, Request
  <2>2. QED
    BY <1>18, <2>1 DEF ScreenOn, TypeOK
<1>19. CASE ConnectivityBroadcast
  <2>1. xmppQueue' \in Seq(Task)
    BY <1>19, PostType DEF ConnectivityBroadcast, Request
  <2>2. connectionState' \in State
    BY <1>19 DEF ConnectivityBroadcast, State, TypeOK
  <2>3. QED
    BY <1>19, <2>1, <2>2 DEF ConnectivityBroadcast, TypeOK
<1>20. CASE NetworkChanges
  BY <1>20 DEF NetworkChanges, TypeOK
<1>21. ASSUME NEW c \in Conn, SocketDies(c) PROVE TypeOK'
  BY <1>21 DEF SocketDies, TypeOK
<1>22. ASSUME NEW c \in Conn, ReportError(c) PROVE TypeOK'
  <2>1. listeners[c] \in Nat
    BY BoundsAssumption DEF TypeOK
  <2>2. QED
    BY <1>22, <2>1 DEF ReportError, State, TypeOK
<1>23. ASSUME NEW c \in Conn, ServerCloses(c) PROVE TypeOK'
  BY <1>23, ReopenTasksType DEF ServerCloses, TypeOK
<1>24. ASSUME NEW c \in Conn, PingFails(c) PROVE TypeOK'
  BY <1>24 DEF PingFails, CheckReconnect, OtherThread, State, TypeOK
<1>25. CASE UNCHANGED vars
  BY <1>25 DEF vars, TypeOK
<1>26. QED
  BY <1>1, <1>2, <1>3, <1>4, <1>5, <1>7, <1>8, <1>9, <1>10, <1>11, <1>12, <1>13,
     <1>14, <1>15, <1>16, <1>17, <1>18, <1>19, <1>20, <1>21, <1>22, <1>23, <1>24,
     <1>25, <1>30
  DEF Next, RunTask, Dialling, MainThread, ReaderThread

\* Every variable of the connection manager keeps its type.
THEOREM TypeCorrect == Spec => []TypeOK
BY InitType, NextType, PTL DEF Spec

-----------------------------------------------------------------------------
(***************************************************************************)
(* Online means watched.  The inductive invariant adds what the two        *)
(* properties rest on: the field never holds an object without a listener, *)
(* and the connectionClosed task dials the object the field holds.         *)
(***************************************************************************)
\* The calls of connectAndAuth under way are about objects that differ, and
\* the application holds none of those that wait.
CallsDiffer ==
  /\ worker.c \notin Waiting
  /\ \A i, j \in DOMAIN worker.outer :
       worker.outer[i].c = worker.outer[j].c => i = j
  /\ connection \notin Waiting
  /\ worker.at = "relogin" => connection # worker.c

WatchedInv ==
  /\ connectionState = "ONLINE" => connection # NoConn
  /\ connection # NoConn => listeners[connection] > 0
  /\ connectionState = "ONLINE" => worker.at \in {"idle", "relogin"}
  /\ worker.why = "reopen" => connection = worker.c

\* A step that leaves the thread where it is leaves the calls what they are.
LEMMA CallsKept ==
  ASSUME CallsDiffer, connection' \in {connection, NoConn},
         worker'.c = worker.c, worker'.outer = worker.outer,
         worker'.at # "relogin" \/ worker'.at = worker.at,
         TypeOK
  PROVE  CallsDiffer'
<1>1. \A i \in DOMAIN worker.outer : worker.outer[i].c \in Conn
  BY OuterType
<1>2. worker.at = "relogin" => worker.c \in Conn
  BY DEF TypeOK, Busy, Idle
<1>3. QED
  BY <1>1, <1>2, ConnAssumption DEF CallsDiffer, Waiting

\* The thread at rest has no calls; nor has one that dials for the queue.
LEMMA NoCalls ==
  ASSUME worker'.outer = <<>>, worker'.at # "relogin"
  PROVE  CallsDiffer'
BY DEF CallsDiffer, Waiting

\* A return makes the object of the call that made it the one dialled.
LEMMA ReturnedDiffers ==
  ASSUME TypeOK, CallsDiffer, worker' = Returned,
         connection' \in {connection, worker.c, NoConn}
  PROVE  CallsDiffer'
<1>1. CASE worker.outer = <<>>
  BY <1>1, NoCalls DEF Returned, Idle
<1>2. CASE worker.outer # <<>>
  <2>1. worker.outer \in Seq(Call)
    BY <1>2 DEF TypeOK, Busy, Idle
  <2>2. /\ worker'.c = worker.outer[1].c
        /\ worker'.outer = Tail(worker.outer)
        /\ worker'.at = "relogin"
    BY <1>2, <2>1 DEF Returned
  <2>3. /\ \A i \in DOMAIN Tail(worker.outer) :
             /\ i + 1 \in DOMAIN worker.outer
             /\ i \in Nat \ {0}
             /\ Tail(worker.outer)[i] = worker.outer[i + 1]
        /\ 1 \in DOMAIN worker.outer
    BY <1>2, <2>1
  <2>4. \A i \in DOMAIN worker.outer : worker.outer[i].c \in Conn
    BY OuterType
  <2>5. connection' \notin Waiting
    BY <2>4, ConnAssumption DEF CallsDiffer, Waiting
  <2>6. worker.outer[1].c \notin {Tail(worker.outer)[i].c : i \in DOMAIN Tail(worker.outer)}
    <3>1. \A i \in DOMAIN Tail(worker.outer) : i + 1 # 1
      BY <2>3
    <3>2. QED
      BY <2>3, <3>1 DEF CallsDiffer
  <2>7. ASSUME NEW i \in DOMAIN Tail(worker.outer), NEW j \in DOMAIN Tail(worker.outer),
               Tail(worker.outer)[i].c = Tail(worker.outer)[j].c
        PROVE  i = j
    <3>1. i + 1 = j + 1
      BY <2>3, <2>7 DEF CallsDiffer
    <3>2. QED
      BY <2>3, <3>1
  <2>8. {Tail(worker.outer)[i].c : i \in DOMAIN Tail(worker.outer)} \subseteq Waiting
    BY <2>3 DEF Waiting
  <2>9. worker.outer[1].c \in Waiting
    BY <2>3 DEF Waiting
  <2>10. /\ Waiting' = {Tail(worker.outer)[i].c : i \in DOMAIN Tail(worker.outer)}
         /\ connection' \notin Waiting'
         /\ connection' # worker'.c
    <3>1. Waiting' = {Tail(worker.outer)[i].c : i \in DOMAIN Tail(worker.outer)}
      BY <2>2 DEF Waiting
    <3>2. QED
      BY <2>2, <2>5, <2>8, <2>9, <3>1
  <2>11. QED
    BY <2>2, <2>6, <2>7, <2>10 DEF CallsDiffer
<1>3. QED
  BY <1>1, <1>2

\* restartConnection puts its caller on the calls that wait.
LEMMA RestartDiffers ==
  ASSUME TypeOK, CallsDiffer, RestartConnection
  PROVE  CallsDiffer'
<1> DEFINE call == [c |-> worker.c, why |-> worker.why]
           calls == <<call>> \o worker.outer
<1>1. PICK d \in Conn : Unused(d) /\ Dial(NoConn, d, "init", calls, Disconnected)
  BY DEF RestartConnection
<1>2. worker.outer \in Seq(Call) /\ call \in Call
  BY WorkerType DEF RestartConnection, Busy, Call
<1>3. /\ DOMAIN calls = 1..(Len(worker.outer) + 1)
      /\ DOMAIN worker.outer = 1..Len(worker.outer)
      /\ Len(worker.outer) \in Nat
      /\ calls[1] = call
      /\ \A i \in 2..(Len(worker.outer) + 1) : calls[i] = worker.outer[i - 1]
  BY <1>2
<1>4. worker'.c = d /\ worker'.outer = calls /\ worker'.at = "connect"
  BY <1>1 DEF Dial
<1>5. \A i \in 2..(Len(worker.outer) + 1) : i - 1 \in DOMAIN worker.outer
  BY <1>3
<1>6. \A i \in DOMAIN calls : calls[i].c \in Dialled /\ calls[i].c \in Conn
  <2>1. SUFFICES ASSUME NEW i \in DOMAIN calls
                 PROVE  calls[i].c \in Dialled /\ calls[i].c \in Conn
    OBVIOUS
  <2>2. CASE i = 1
    BY <1>2, <1>3, <2>2 DEF Dialled, Call
  <2>3. CASE i # 1
    <3>1. i \in 2..(Len(worker.outer) + 1)
      BY <1>3, <2>3
    <3>2. calls[i] = worker.outer[i - 1] /\ i - 1 \in DOMAIN worker.outer
      BY <1>3, <1>5, <3>1
    <3>3. QED
      BY <3>2, OuterType DEF Dialled, Waiting
  <2>4. QED
    BY <2>2, <2>3
<1>7. d \notin {calls[i].c : i \in DOMAIN calls}
  BY <1>1, <1>6 DEF Unused
<1>8. ASSUME NEW i \in DOMAIN calls, NEW j \in DOMAIN calls, calls[i].c = calls[j].c
      PROVE  i = j
  <2>1. \A n \in 2..(Len(worker.outer) + 1) : calls[n].c \in Waiting
    BY <1>3, <1>5 DEF Waiting
  <2>2. calls[1].c \notin Waiting
    BY <1>3 DEF CallsDiffer
  <2>3. CASE i = 1 \/ j = 1
    BY <1>3, <1>8, <2>1, <2>2, <2>3
  <2>4. CASE i # 1 /\ j # 1
    <3>1. i \in 2..(Len(worker.outer) + 1) /\ j \in 2..(Len(worker.outer) + 1)
      BY <1>3, <2>4
    <3>2. i - 1 = j - 1
      BY <1>3, <1>5, <1>8, <3>1 DEF CallsDiffer
    <3>3. QED
      BY <1>3, <3>2
  <2>5. QED
    BY <2>3, <2>4
<1>9. connection' \notin {calls[i].c : i \in DOMAIN calls}
  BY <1>6, ConnAssumption DEF RestartConnection
<1> HIDE DEF calls
<1>10. QED
  BY <1>4, <1>7, <1>8, <1>9 DEF CallsDiffer, Waiting

LEMMA ReturnedAt ==
  ASSUME TypeOK, worker' = Returned
  PROVE  worker'.at \in {"idle", "relogin"} /\ worker'.why # "reopen"
<1>1. CASE worker.outer = <<>>
  BY <1>1 DEF Returned, Idle
<1>2. CASE worker.outer # <<>>
  <2>1. worker.outer \in Seq(Call)
    BY <1>2 DEF TypeOK, Busy, Idle
  <2>2. Head(worker.outer) \in Call
    BY <1>2, <2>1
  <2>3. QED
    BY <1>2, <2>2 DEF Returned, Call
<1>3. QED
  BY <1>1, <1>2

LEMMA EstablishedWatched ==
  ASSUME TypeOK, NEW c \in Conn, OnConnectionEstablished(c)
  PROVE  WatchedInv'
<1>1. listeners[c] \in 0..MaxListeners
  BY DEF TypeOK
<1>2. listeners'[c] > 0
  BY <1>1, BoundsAssumption DEF OnConnectionEstablished, AddListener, TypeOK
<1>3. worker'.at \in {"idle", "relogin"} /\ worker'.why # "reopen"
  BY ReturnedAt DEF OnConnectionEstablished
<1>4. QED
  BY <1>2, <1>3, ConnAssumption DEF OnConnectionEstablished, WatchedInv

LEMMA CallsNext == TypeOK /\ CallsDiffer /\ [Next]_vars => CallsDiffer'
<1> SUFFICES ASSUME TypeOK, CallsDiffer, [Next]_vars PROVE CallsDiffer'
  OBVIOUS
<1> USE DEF managerVars, socketVars, timerVars, netVars
<1>1. CASE worker' = worker /\ connection' \in {connection, NoConn}
  BY <1>1, CallsKept
<1>2. CASE worker'.outer = <<>> /\ worker'.at # "relogin"
  BY <1>2, NoCalls
<1>3. CASE worker' = Returned /\ connection' \in {connection, worker.c, NoConn}
  BY <1>3, ReturnedDiffers
<1>4. CASE RestartConnection
  BY <1>4, RestartDiffers
<1>5. CASE InitConnection \/ Reopen \/ ReopenThrows \/ ReopenFails
  BY <1>2, <1>5 DEF InitConnection, Reopen, ReopenThrows, ReopenFails,
                    ReplaceConnection, Dial
<1>6. CASE ConnectSucceeds
  <2>1. worker \in Busy
    BY <1>6, WorkerType DEF ConnectSucceeds
  <2>2. CASE worker' = Idle
    BY <1>2, <2>2 DEF Idle
  <2>3. CASE OnConnectionEstablished(worker.c)
    BY <1>3, <2>3 DEF OnConnectionEstablished
  <2>4. CASE worker' = [worker EXCEPT !.at = "login"] /\ connection' = connection
    <3>1. worker'.c = worker.c /\ worker'.outer = worker.outer /\ worker'.at = "login"
      BY <2>1, <2>4 DEF Busy
    <3>2. QED
      BY <2>4, <3>1, CallsKept
  <2>5. QED
    BY <1>6, <2>2, <2>3, <2>4 DEF ConnectSucceeds
<1>7. CASE ConnectFails \/ LoginSucceeds \/ LoginStreamError \/ LoginFails
  BY <1>3, <1>7 DEF ConnectFails, LoginSucceeds, LoginStreamError, LoginFails,
                    OnConnectionEstablished
<1>8. CASE AlreadyOnline \/ StopRequested \/ WaitForNetwork \/ DelayedReconnect
  BY <1>1, <1>8 DEF AlreadyOnline, StopRequested, Stop, WaitForNetwork, KeptConnection,
                    DelayedReconnect
<1>9. CASE StageTimerFires \/ MaybeArm \/ MainThread \/ NetworkChanges
  BY <1>1, <1>9 DEF StageTimerFires, MaybeArm, Arm, MainThread, AppCallsReconnect,
                    ScreenOn, ConnectivityBroadcast, NetworkChanges
<1>10. ASSUME NEW c \in Conn, ReaderThread(c) PROVE CallsDiffer'
  BY <1>1, <1>10 DEF ReaderThread, SocketDies, ReportError, ServerCloses, PingFails
<1>11. CASE UNCHANGED vars
  BY <1>1, <1>11 DEF vars
<1>12. QED
  BY <1>4, <1>5, <1>6, <1>7, <1>8, <1>9, <1>10, <1>11 DEF Next, RunTask, Dialling

LEMMA WatchedNext == TypeOK /\ WatchedInv /\ [Next]_vars => WatchedInv'
<1> SUFFICES ASSUME TypeOK, WatchedInv, [Next]_vars PROVE WatchedInv'
  OBVIOUS
<1> USE DEF managerVars, socketVars, timerVars, netVars
<1>1. CASE AlreadyOnline
  BY <1>1 DEF AlreadyOnline, WatchedInv
<1>2. CASE InitConnection
  <2>1. PICK d \in Conn : /\ IF connection' = NoConn THEN Unused(d) ELSE d = connection'
                          /\ Dial(connection', d, "init", <<>>, Disconnected)
    BY <1>2 DEF InitConnection
  <2>2. connection' = NoConn \/ (connection' = connection /\ d = connection')
    BY <1>2, <2>1 DEF InitConnection, KeptConnection
  <2>3. connection' # NoConn => listeners'[connection'] > 0
    BY <2>1, <2>2 DEF Dial, WatchedInv
  <2>4. worker'.why = "init" /\ connectionState' = "CONNECTING"
    BY <1>2, <2>1 DEF InitConnection, Dial
  <2>5. QED
    BY <2>3, <2>4 DEF WatchedInv
<1>3. CASE StopRequested
  BY <1>3 DEF StopRequested, Stop, TaskIs, Idle, WatchedInv
<1>4. CASE WaitForNetwork
  BY <1>4 DEF WaitForNetwork, KeptConnection, TaskIs, Idle, WatchedInv
<1>5. CASE Reopen
  BY <1>5 DEF Reopen, Dial, WatchedInv
<1>6. ASSUME NEW rest, ReplaceConnection(rest)
      PROVE  WatchedInv'
  BY <1>6 DEF ReplaceConnection, Dial, WatchedInv
<1>7. CASE ReopenThrows
  BY <1>7, <1>6 DEF ReopenThrows
<1>8. CASE ReopenFails
  BY <1>8, <1>6 DEF ReopenFails
<1>9. CASE DelayedReconnect
  BY <1>9 DEF DelayedReconnect, WatchedInv
<1>10. CASE ConnectSucceeds
  <2>1. worker.c \in Conn
    BY <1>10, WorkerType DEF ConnectSucceeds
  <2>2. CASE /\ worker.why = "reopen"
             /\ connectionState' = "ONLINE"
             /\ worker' = Idle
             /\ UNCHANGED <<connection, listeners>>
    BY <2>1, <2>2, ConnAssumption DEF WatchedInv, Idle
  <2>3. CASE OnConnectionEstablished(worker.c)
    BY <2>1, <2>3, EstablishedWatched
  <2>4. CASE /\ worker.why # "reopen"
             /\ worker' = [worker EXCEPT !.at = "login"]
             /\ UNCHANGED <<connectionState, connection, listeners>>
    <3>1. worker \in Busy
      BY <1>10, WorkerType DEF ConnectSucceeds
    <3>2. worker.at = "connect" /\ worker'.why # "reopen"
      BY <1>10, <2>4, <3>1 DEF ConnectSucceeds, Busy
    <3>3. QED
      BY <2>4, <3>2 DEF WatchedInv
  <2>5. QED
    BY <1>10, <2>2, <2>3, <2>4 DEF ConnectSucceeds
<1>11. CASE ConnectFails
  <2>1. worker.c \in Conn
    BY <1>11, WorkerType DEF ConnectFails
  <2>2. worker' = Returned => worker'.why # "reopen"
    BY ReturnedAt
  <2>3. QED
    BY <1>11, <2>1, <2>2, EstablishedWatched DEF ConnectFails, WatchedInv
<1>22. CASE RestartConnection
  BY <1>22 DEF RestartConnection, Dial, WatchedInv
<1>12. CASE LoginSucceeds
  BY <1>12, WorkerType, EstablishedWatched DEF LoginSucceeds, LoggingIn
<1>13. CASE LoginStreamError
  <2>1. worker.c \in Conn
    BY <1>13, WorkerType DEF LoginStreamError, LoggingIn
  <2>2. worker' = Returned
          => worker'.at \in {"idle", "relogin"} /\ worker'.why # "reopen"
    BY ReturnedAt
  <2>3. QED
    BY <1>13, <2>1, <2>2, EstablishedWatched DEF LoginStreamError, WatchedInv
<1>14. CASE LoginFails
  <2>1. worker.c \in Conn
    BY <1>14, WorkerType DEF LoginFails, LoggingIn
  <2>2. worker' = Returned => worker'.why # "reopen"
    BY ReturnedAt
  <2>3. QED
    BY <1>14, <2>1, <2>2, EstablishedWatched DEF LoginFails, WatchedInv
<1>15. CASE StageTimerFires
  BY <1>15 DEF StageTimerFires, WatchedInv
<1>16. CASE MaybeArm
  BY <1>16 DEF MaybeArm, Arm, WatchedInv
<1>17. CASE MainThread
  BY <1>17 DEF MainThread, AppCallsReconnect, ScreenOn, ConnectivityBroadcast,
               WatchedInv
<1>18. CASE NetworkChanges
  BY <1>18 DEF NetworkChanges, WatchedInv
<1>19. ASSUME NEW c \in Conn, ReaderThread(c) PROVE WatchedInv'
  BY <1>19 DEF ReaderThread, SocketDies, ReportError, ServerCloses, PingFails,
               WatchedInv
<1>20. CASE UNCHANGED vars
  BY <1>20 DEF vars, WatchedInv
<1>21. QED
  BY <1>1, <1>2, <1>3, <1>4, <1>5, <1>7, <1>8, <1>9, <1>10, <1>11, <1>12, <1>13,
     <1>14, <1>15, <1>16, <1>17, <1>18, <1>19, <1>20, <1>22
  DEF Next, RunTask, Dialling

LEMMA WatchedInvariant == Spec => []WatchedInv
<1>1. Init => WatchedInv
  BY DEF Init, WatchedInv, Idle
<1>2. QED
  BY <1>1, WatchedNext, TypeCorrect, PTL DEF Spec

LEMMA CallsInvariant == Spec => []CallsDiffer
<1>1. Init => CallsDiffer
  BY DEF Init, CallsDiffer, Waiting, Idle
<1>2. QED
  BY <1>1, CallsNext, TypeCorrect, PTL DEF Spec

\* An application that believes it is online has a listener on the connection
\* it holds: onConnectionEstablished and connectionClosed never write ONLINE
\* without one.
THEOREM OnlineWatched == Spec => []OnlineIsWatched
<1>1. WatchedInv => OnlineIsWatched
  BY DEF WatchedInv, OnlineIsWatched
<1>2. QED
  BY <1>1, WatchedInvariant, PTL

\* While the xmppQueue thread dials, the application is online only beside the
\* login that a call of connectAndAuth makes after restartConnection, and with
\* an object no call under way has: across any depth of restarts.
THEOREM OnlineBesideRelogin == Spec => []OnlineOnlyBesideRelogin
<1>1. TypeOK /\ WatchedInv /\ CallsDiffer => OnlineOnlyBesideRelogin
  <2>1. TypeOK /\ worker # Idle => worker.at # "idle"
    BY DEF TypeOK, Busy
  <2>2. QED
    BY <2>1 DEF WatchedInv, CallsDiffer, OnlineOnlyBesideRelogin, Dialled
<1>2. QED
  BY <1>1, TypeCorrect, WatchedInvariant, CallsInvariant, PTL

-----------------------------------------------------------------------------
(***************************************************************************)
(* Waiting for a network is not forgotten.  Requests are applied in the    *)
(* order they are posted, so what has to hold is about the whole queue:    *)
(* once a network has been seen, an ONLINE request is queued behind every  *)
(* request to wait.                                                        *)
(***************************************************************************)
HasOnline(q) == \E i \in 1..Len(q) : q[i] = "ONLINE"

Followed(q) ==
  \A i \in 1..Len(q) :
    q[i] = "RECONNECT_NETWORK" => \E j \in (i + 1)..Len(q) : q[j] = "ONLINE"

WaitingInv ==
  networkType # NoNetwork
    => /\ Followed(xmppQueue)
       /\ connectionState = "RECONNECT_NETWORK" => HasOnline(xmppQueue)

LEMMA TailFollowed ==
  ASSUME NEW q \in Seq(Task), q # <<>>, Followed(q)
  PROVE  /\ Followed(Tail(q))
         /\ Head(q) = "RECONNECT_NETWORK" => HasOnline(Tail(q))
         /\ Head(q) # "ONLINE" /\ HasOnline(q) => HasOnline(Tail(q))
<1>1. /\ Len(Tail(q)) = Len(q) - 1
      /\ Len(q) \in Nat \ {0}
      /\ \A i \in 1..Len(q) - 1 : Tail(q)[i] = q[i + 1]
      /\ Head(q) = q[1]
  OBVIOUS
<1>2. ASSUME NEW j \in 2..Len(q), q[j] = "ONLINE"
      PROVE  j - 1 \in 1..Len(Tail(q)) /\ Tail(q)[j - 1] = "ONLINE"
  BY <1>1, <1>2
<1>3. ASSUME NEW i \in 1..Len(Tail(q)), Tail(q)[i] = "RECONNECT_NETWORK"
      PROVE  \E j \in (i + 1)..Len(Tail(q)) : Tail(q)[j] = "ONLINE"
  <2>1. i + 1 \in 1..Len(q) /\ q[i + 1] = "RECONNECT_NETWORK"
    BY <1>1, <1>3
  <2>2. PICK j \in (i + 2)..Len(q) : q[j] = "ONLINE"
    BY <2>1 DEF Followed
  <2>3. j - 1 \in (i + 1)..Len(Tail(q)) /\ Tail(q)[j - 1] = "ONLINE"
    BY <1>1, <1>2, <2>2
  <2>4. QED
    BY <2>3
<1>4. Followed(Tail(q))
  BY <1>3 DEF Followed
<1>5. Head(q) = "RECONNECT_NETWORK" => HasOnline(Tail(q))
  <2>1. SUFFICES ASSUME q[1] = "RECONNECT_NETWORK" PROVE HasOnline(Tail(q))
    BY <1>1
  <2>2. PICK j \in 2..Len(q) : q[j] = "ONLINE"
    BY <2>1, <1>1 DEF Followed
  <2>3. QED
    BY <2>2, <1>2 DEF HasOnline
<1>6. Head(q) # "ONLINE" /\ HasOnline(q) => HasOnline(Tail(q))
  <2>1. SUFFICES ASSUME q[1] # "ONLINE", HasOnline(q) PROVE HasOnline(Tail(q))
    BY <1>1
  <2>2. PICK j \in 1..Len(q) : q[j] = "ONLINE"
    BY <2>1 DEF HasOnline
  <2>3. QED
    BY <2>1, <2>2, <1>1, <1>2 DEF HasOnline
<1>7. QED
  BY <1>4, <1>5, <1>6

LEMMA ConcatFollowed ==
  ASSUME NEW q \in Seq(Task), NEW p \in Seq({"reopen"})
  PROVE  /\ Followed(q) => Followed(q \o p)
         /\ HasOnline(q) => HasOnline(q \o p)
<1>1. /\ Len(q \o p) = Len(q) + Len(p)
      /\ Len(q) \in Nat /\ Len(p) \in Nat
      /\ \A i \in 1..Len(q) : (q \o p)[i] = q[i]
      /\ \A i \in 1..Len(q) + Len(p) : i > Len(q) => (q \o p)[i] = "reopen"
  <2>1. \A i \in 1..Len(q) + Len(p) : i > Len(q) => (q \o p)[i] = p[i - Len(q)]
    OBVIOUS
  <2>2. \A i \in 1..Len(p) : p[i] = "reopen"
    OBVIOUS
  <2>3. \A i \in 1..Len(q) + Len(p) : i > Len(q) => i - Len(q) \in 1..Len(p)
    OBVIOUS
  <2>4. QED
    BY <2>1, <2>2, <2>3
<1>2. HasOnline(q) => HasOnline(q \o p)
  BY <1>1 DEF HasOnline
<1>3. ASSUME Followed(q), NEW i \in 1..Len(q \o p), (q \o p)[i] = "RECONNECT_NETWORK"
      PROVE  \E j \in (i + 1)..Len(q \o p) : (q \o p)[j] = "ONLINE"
  <2>1. i \in 1..Len(q) /\ q[i] = "RECONNECT_NETWORK"
    BY <1>1, <1>3
  <2>2. PICK j \in (i + 1)..Len(q) : q[j] = "ONLINE"
    BY <2>1, <1>3 DEF Followed
  <2>3. j \in (i + 1)..Len(q \o p) /\ (q \o p)[j] = "ONLINE"
    BY <1>1, <2>1, <2>2
  <2>4. QED
    BY <2>3
<1>4. QED
  BY <1>2, <1>3 DEF Followed

LEMMA AppendFollowed ==
  ASSUME NEW q \in Seq(Task), NEW task \in Task
  PROVE  /\ task = "ONLINE" => Followed(Append(q, task)) /\ HasOnline(Append(q, task))
         /\ task # "RECONNECT_NETWORK" /\ Followed(q) => Followed(Append(q, task))
         /\ HasOnline(q) => HasOnline(Append(q, task))
<1>1. /\ Len(Append(q, task)) = Len(q) + 1
      /\ Len(q) \in Nat
      /\ \A i \in 1..Len(q) : Append(q, task)[i] = q[i]
      /\ Append(q, task)[Len(q) + 1] = task
  OBVIOUS
<1>2. HasOnline(q) => HasOnline(Append(q, task))
  BY <1>1 DEF HasOnline
<1>3. task = "ONLINE" => HasOnline(Append(q, task))
  BY <1>1 DEF HasOnline
<1>4. ASSUME task = "ONLINE" PROVE Followed(Append(q, task))
  <2>1. SUFFICES ASSUME NEW i \in 1..Len(q) + 1, Append(q, task)[i] = "RECONNECT_NETWORK"
                 PROVE  \E j \in (i + 1)..Len(q) + 1 : Append(q, task)[j] = "ONLINE"
    BY <1>1 DEF Followed
  <2>2. i # Len(q) + 1
    BY <1>1, <1>4, <2>1
  <2>3. Len(q) + 1 \in (i + 1)..Len(q) + 1
    BY <1>1, <2>2
  <2>4. QED
    BY <1>1, <1>4, <2>3
<1>5. ASSUME task # "RECONNECT_NETWORK", Followed(q) PROVE Followed(Append(q, task))
  <2>1. SUFFICES ASSUME NEW i \in 1..Len(q) + 1, Append(q, task)[i] = "RECONNECT_NETWORK"
                 PROVE  \E j \in (i + 1)..Len(q) + 1 : Append(q, task)[j] = "ONLINE"
    BY <1>1 DEF Followed
  <2>2. i \in 1..Len(q) /\ q[i] = "RECONNECT_NETWORK"
    BY <1>1, <1>5, <2>1
  <2>3. PICK j \in (i + 1)..Len(q) : q[j] = "ONLINE"
    BY <1>5, <2>2 DEF Followed
  <2>4. j \in (i + 1)..Len(q) + 1 /\ Append(q, task)[j] = "ONLINE"
    BY <1>1, <2>2, <2>3
  <2>5. QED
    BY <2>4
<1>6. QED
  BY <1>2, <1>3, <1>4, <1>5

\* cleanupConnection appends nothing but connectionClosed tasks.
LEMMA CleanupFollowed ==
  ASSUME TypeOK, NEW rest \in Seq(Task), CleanupConnection(rest)
  PROVE  /\ Followed(rest) => Followed(xmppQueue')
         /\ HasOnline(rest) => HasOnline(xmppQueue')
<1>1. CASE IsXmppConnected
  <2>1. connection \in Conn
    BY <1>1 DEF IsXmppConnected, IsConnectedAt, TypeOK
  <2>2. ReopenTasks(connection, connectionState) \in Seq({"reopen"})
    BY <2>1, ReopenTasksType
  <2>3. xmppQueue' = rest \o ReopenTasks(connection, connectionState)
    BY <1>1 DEF CleanupConnection
  <2>4. QED
    BY <2>2, <2>3, ConcatFollowed
<1>2. CASE ~IsXmppConnected
  BY <1>2 DEF CleanupConnection
<1>3. QED
  BY <1>1, <1>2

LEMMA WaitingNext == TypeOK /\ WaitingInv /\ [Next]_vars => WaitingInv'
<1> SUFFICES ASSUME TypeOK, WaitingInv, [Next]_vars PROVE WaitingInv'
  OBVIOUS
<1> USE DEF managerVars, socketVars, timerVars, netVars
<1> DEFINE rest == Tail(xmppQueue)
<1>0. xmppQueue \in Seq(Task)
  BY DEF TypeOK
<1>1. ASSUME networkType # NoNetwork, NEW task, TaskIs(task)
      PROVE  /\ rest \in Seq(Task)
             /\ Followed(rest)
             /\ task = "RECONNECT_NETWORK" => HasOnline(rest)
             /\ task # "ONLINE" /\ HasOnline(xmppQueue) => HasOnline(rest)
  <2>1. xmppQueue # <<>> /\ Head(xmppQueue) = task /\ Followed(xmppQueue)
    BY <1>1 DEF TaskIs, WaitingInv
  <2>2. QED
    BY <1>0, <1>1, <2>1, TaskType, TailFollowed
<1>2. CASE AlreadyOnline
  BY <1>1, <1>2 DEF AlreadyOnline, IsConnected, WaitingInv
<1>3. CASE InitConnection
  BY <1>1, <1>3, CleanupFollowed DEF InitConnection, WaitingInv
<1>4. CASE StopRequested
  BY <1>1, <1>4, CleanupFollowed DEF StopRequested, Stop, WaitingInv
<1>5. CASE WaitForNetwork
  BY <1>1, <1>5, CleanupFollowed DEF WaitForNetwork, WaitingInv
<1>6. CASE Reopen
  BY <1>1, <1>6 DEF Reopen, WaitingInv
<1>7. CASE ReopenThrows
  BY <1>1, <1>7 DEF ReopenThrows, ReplaceConnection, WaitingInv
<1>8. CASE DelayedReconnect
  BY <1>8 DEF DelayedReconnect, WaitingInv
<1>9. CASE Dialling
  <2>1. CASE LoginFails
    <3>1. networkType' = networkType /\ connectionState' # "RECONNECT_NETWORK"
      BY <2>1 DEF LoginFails, OnConnectionEstablished
    <3>2. QED
      BY <1>0, <2>1, <3>1, CleanupFollowed DEF LoginFails, WaitingInv
  <2>2. CASE xmppQueue' = xmppQueue /\ networkType' = networkType
                 /\ (connectionState' = connectionState
                       \/ connectionState' # "RECONNECT_NETWORK")
    BY <2>2 DEF WaitingInv
  <2>3. CASE ConnectSucceeds
    BY <2>2, <2>3 DEF ConnectSucceeds, OnConnectionEstablished
  <2>4. CASE ConnectFails
    BY <2>2, <2>4 DEF ConnectFails, OnConnectionEstablished
  <2>5. CASE ReopenFails
    BY <2>2, <2>5 DEF ReopenFails, ReplaceConnection
  <2>6. CASE LoginSucceeds
    BY <2>2, <2>6 DEF LoginSucceeds, OnConnectionEstablished
  <2>7. CASE LoginStreamError
    BY <2>2, <2>7 DEF LoginStreamError, OnConnectionEstablished
  <2>8. CASE RestartConnection
    <3>1. networkType' = networkType /\ connectionState' = "CONNECTING"
      BY <2>8 DEF RestartConnection
    <3>2. QED
      BY <1>0, <2>8, <3>1, CleanupFollowed DEF RestartConnection, WaitingInv
  <2>9. QED
    BY <1>9, <2>1, <2>3, <2>4, <2>5, <2>6, <2>7, <2>8 DEF Dialling
<1>10. ASSUME NEW task \in Task, Post(task)
       PROVE  /\ task = "ONLINE" => Followed(xmppQueue') /\ HasOnline(xmppQueue')
              /\ task # "RECONNECT_NETWORK" /\ Followed(xmppQueue) => Followed(xmppQueue')
              /\ HasOnline(xmppQueue) => HasOnline(xmppQueue')
  BY <1>0, <1>10, AppendFollowed DEF Post
<1>11. CASE StageTimerFires
  BY <1>10, <1>11 DEF StageTimerFires, WaitingInv, Task, Request
<1>12. CASE MaybeArm
  BY <1>12 DEF MaybeArm, Arm, WaitingInv
<1>13. CASE AppCallsReconnect
  BY <1>13 DEF AppCallsReconnect, WaitingInv
<1>14. CASE ScreenOn
  BY <1>10, <1>14 DEF ScreenOn, WaitingInv, Task, Request
<1>15. CASE ConnectivityBroadcast
  BY <1>10, <1>15 DEF ConnectivityBroadcast, WaitingInv, Task, Request
<1>16. CASE NetworkChanges
  BY <1>16 DEF NetworkChanges, WaitingInv
<1>17. ASSUME NEW c \in Conn, ServerCloses(c) PROVE WaitingInv'
  BY <1>0, <1>17, ReopenTasksType, ConcatFollowed DEF ServerCloses, WaitingInv
<1>18. ASSUME NEW c \in Conn, SocketDies(c) \/ ReportError(c) \/ PingFails(c)
       PROVE  WaitingInv'
  BY <1>18 DEF SocketDies, ReportError, PingFails, WaitingInv
<1>19. CASE UNCHANGED vars
  BY <1>19 DEF vars, WaitingInv
<1>20. QED
  BY <1>2, <1>3, <1>4, <1>5, <1>6, <1>7, <1>8, <1>9, <1>11, <1>12, <1>13, <1>14,
     <1>15, <1>16, <1>17, <1>18, <1>19
  DEF Next, RunTask, MainThread, ReaderThread

\* An application that waits for a network and has seen one has an ONLINE
\* request queued: the state RECONNECT_NETWORK, which turns every other way to
\* reconnect off, is left again.
THEOREM WaitingNotForgotten == Spec => []WaitingIsNotForgotten
<1>1. Init => WaitingInv
  BY DEF Init, WaitingInv, Followed
<1>2. TypeOK /\ WaitingInv => WaitingIsNotForgotten
  <2>1. TypeOK => DOMAIN xmppQueue = 1..Len(xmppQueue)
    BY DEF TypeOK
  <2>2. QED
    BY <2>1 DEF WaitingInv, WaitingIsNotForgotten, HasOnline
<1>3. QED
  BY <1>1, <1>2, WaitingNext, TypeCorrect, PTL DEF Spec

-----------------------------------------------------------------------------
\* Every step that leaves the application disconnected, with a network and
\* no retry under way, is a failed login, a requested stop or a change of the
\* network: all other handlers schedule what they give up.
THEOREM RetriesOrGivesUp == Spec => RetryOrGiveUp
<1>1. ASSUME TypeOK, [Next]_vars, ~Stranded, Stranded'
      PROVE  LoginFails \/ StopRequested \/ NetworkChanges
  <2> USE DEF managerVars, socketVars, timerVars, netVars, Stranded, HasDataConnection
  <2>1. CASE AlreadyOnline \/ InitConnection \/ WaitForNetwork \/ Reopen \/ ReopenThrows
    BY <1>1, <2>1 DEF AlreadyOnline, IsConnected, InitConnection, WaitForNetwork,
                      Reopen, ReopenThrows, ReplaceConnection, Dial, Idle
  <2>2. CASE DelayedReconnect
    BY <1>1, <2>2 DEF DelayedReconnect, MaybeStartReconnect, Schedules, IsConnected
  <2>11. CASE RestartConnection
    BY <1>1, <2>11 DEF RestartConnection
  <2>3. CASE ConnectSucceeds \/ ReopenFails \/ LoginSucceeds
    <3>1. worker' = Idle /\ connectionState' = "DISCONNECTED"
      BY <1>1
    <3>2. CASE ReopenFails
      BY <3>1, <3>2 DEF ReopenFails, ReplaceConnection, Dial, Idle
    <3>3. CASE LoginSucceeds
      BY <3>1, <3>3 DEF LoginSucceeds, OnConnectionEstablished
    <3>4. CASE ConnectSucceeds
      <4>1. worker \in Busy
        BY <1>1, <3>4, WorkerType DEF ConnectSucceeds
      <4>2. worker' # [worker EXCEPT !.at = "login"]
        BY <3>1, <4>1 DEF Idle, Busy
      <4>3. QED
        BY <3>1, <3>4, <4>2 DEF ConnectSucceeds, OnConnectionEstablished
    <3>5. QED
      BY <2>3, <3>2, <3>3, <3>4
  <2>4. CASE ConnectFails
    BY <1>1, <2>4 DEF ConnectFails, MaybeStartReconnect, Schedules, OnConnectionEstablished
  <2>5. CASE LoginStreamError
    BY <1>1, <2>5 DEF LoginStreamError, MaybeStartReconnect, Schedules, OnConnectionEstablished
  <2>6. CASE StageTimerFires \/ MaybeArm
    <3>1. xmppQueue \in Seq(Task)
      BY <1>1 DEF TypeOK
    <3>2. Append(xmppQueue, "ONLINE") # <<>>
      BY <3>1
    <3>3. QED
      BY <1>1, <2>6, <3>2 DEF StageTimerFires, Post, MaybeArm, Arm
  <2>7. CASE MainThread
    <3>1. xmppQueue \in Seq(Task)
      BY <1>1 DEF TypeOK
    <3>2. \A task \in Task : Append(xmppQueue, task) # <<>>
      <4>1. SUFFICES ASSUME NEW task \in Task PROVE Append(xmppQueue, task) # <<>>
        OBVIOUS
      <4>2. Len(Append(xmppQueue, task)) = Len(xmppQueue) + 1 /\ Len(xmppQueue) \in Nat
        BY <3>1
      <4>3. QED
        BY <4>2
    <3>3. CASE AppCallsReconnect
      BY <1>1, <3>3 DEF AppCallsReconnect, CheckReconnect
    <3>4. QED
      BY <1>1, <2>7, <3>2, <3>3
      DEF MainThread, ScreenOn, ConnectivityBroadcast, Post, Task, Request
  <2>8. ASSUME NEW c \in Conn, ReaderThread(c) PROVE FALSE
    <3>1. CASE SocketDies(c)
      BY <1>1, <3>1 DEF SocketDies
    <3>2. CASE ReportError(c)
      <4>1. listeners[c] \in Nat
        BY <1>1, BoundsAssumption DEF TypeOK
      <4>2. QED
        BY <1>1, <3>2, <4>1 DEF ReportError, TypeOK
    <3>3. CASE ServerCloses(c)
      BY <1>1, <3>3 DEF ServerCloses, ReopenTasks, TypeOK
    <3>4. CASE PingFails(c)
      BY <1>1, <3>4 DEF PingFails, CheckReconnect, Schedules
    <3>5. QED
      BY <2>8, <3>1, <3>2, <3>3, <3>4 DEF ReaderThread
  <2>9. CASE UNCHANGED vars
    BY <1>1, <2>9 DEF vars
  <2>10. QED
    BY <1>1, <2>1, <2>2, <2>3, <2>4, <2>5, <2>6, <2>7, <2>8, <2>9, <2>11
    DEF Next, RunTask, Dialling
<1>2. QED
  BY <1>1, TypeCorrect, PTL DEF Spec, RetryOrGiveUp
=============================================================================
