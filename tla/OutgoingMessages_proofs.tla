----------------------- MODULE OutgoingMessages_proofs -----------------------
(* Theorems about OutgoingMessages, for any number of messages, lost       *)
(* sessions and chats opened.                                              *)
EXTENDS OutgoingMessages, FiniteSetTheorems, TLAPS

\* What the queues and their elements are made of.
LEMMA TasksAreTyped ==
  /\ \A m \in Msg : Insert(m) \in Task
  /\ \A m \in Msg, from \in Source : Update(m, from) \in Task
  /\ Scan \in Task /\ Load \in Task
BY DEF Insert, Update, Scan, Load, Task

\* A task at the head that names a message names one.
LEMMA HeadIsTyped ==
  ASSUME NEW q \in Seq(Task), q # <<>>
  PROVE  /\ Head(q) \in Task
         /\ Tail(q) \in Seq(Task)
         /\ Head(q).op \in {"insert", "update"} => Head(q).m \in Msg
         /\ Head(q).op = "update" => Head(q).from \in Source
<1>1. Head(q) \in Task /\ Tail(q) \in Seq(Task)
  OBVIOUS
<1>2. \A t \in Task : /\ t.op \in {"insert", "update"} => t.m \in Msg
                      /\ t.op = "update" => t.from \in Source
  BY DEF Task
<1> QED BY <1>1, <1>2

LEMMA UiHeadIsTyped ==
  ASSUME NEW q \in Seq(UiTask), q # <<>>
  PROVE  /\ Head(q) \in UiTask
         /\ Tail(q) \in Seq(UiTask)
         /\ Head(q).op \in {"error", "ack"} => Head(q).m \in Msg
         /\ Head(q).op = "loaded" => Head(q).rows \in [Msg -> SendState \cup {None}]
<1>1. Head(q) \in UiTask /\ Tail(q) \in Seq(UiTask)
  OBVIOUS
<1>2. \A t \in UiTask : /\ t.op \in {"error", "ack"} => t.m \in Msg
                        /\ t.op = "loaded" => t.rows \in [Msg -> SendState \cup {None}]
  BY DEF UiTask
<1> QED BY <1>1, <1>2

\* Posting keeps the queues typed.
LEMMA PostTyped ==
  ASSUME NEW q \in Seq(Task), NEW t \in Task, NEW u \in Task
  PROVE  q \o <<t>> \in Seq(Task) /\ q \o <<t, u>> \in Seq(Task)
OBVIOUS

\* What the chat writes keeps the types of the objects.
LEMMA ChatWritesTyped ==
  ASSUME TypeOK, NEW m \in Msg, NEW s \in SendState,
         NEW objects \in [Msg -> SendState \cup {None}], ChatWrites(m, s, objects)
  PROVE  /\ mine' \in [Msg -> SendState \cup {None}]
         /\ copy' \in [Msg -> SendState \cup {None}]
BY DEF TypeOK, ChatWrites

LEMMA StateOfTyped ==
  ASSUME TypeOK, NEW m \in Msg, NEW from \in Source
  PROVE  StateOf(m, from) \in SendState \cup {None}
BY DEF TypeOK, StateOf, Source

\* A thread that is not at rest is busy with a message.
LEMMA SendingNamesMsg ==
  ASSUME TypeOK
  PROVE  /\ sending.at \in {"transmit", "update"} => sending.m \in Msg
         /\ sending.at = "transmit" => [sending EXCEPT !.at = "update"] \in Sending
BY DEF TypeOK, Sending, Resting

LEMMA ScanNamesMsg ==
  ASSUME TypeOK
  PROVE  /\ scan.at \in {"next", "transmit", "update"} => scan.left \subseteq Msg
         /\ scan.at \in {"transmit", "update"} => scan.m \in Msg
         /\ scan.at = "update" => scan.state \in {"SENDING", "SENT"}
BY DEF TypeOK, Scanning, Resting

\* The constructors of the two threads' states.
LEMMA ScanningMade ==
  ASSUME NEW left \in SUBSET Msg, NEW m \in Msg, NEW s \in {"SENDING", "SENT"}
  PROVE  /\ [at |-> "next", left |-> left] \in Scanning
         /\ [at |-> "transmit", left |-> left, m |-> m] \in Scanning
         /\ [at |-> "update", left |-> left, m |-> m, state |-> s] \in Scanning
         /\ Resting \in Scanning
BY DEF Scanning

\* The table.
LEMMA RowTyped ==
  TypeOK /\ [Next]_vars
    => /\ last' \in 0..MaxMsg
       /\ row' \in [Msg -> SendState \cup {None}]
<1> SUFFICES ASSUME TypeOK, [Next]_vars
    PROVE  /\ last' \in 0..MaxMsg
           /\ row' \in [Msg -> SendState \cup {None}]
  OBVIOUS
<1>1. CASE UNCHANGED <<last, row>>
  BY <1>1 DEF TypeOK
<1>2. CASE SendMessage
  BY <1>2, BoundsAssumption DEF TypeOK, SendMessage
<1>3. ASSUME NEW m \in Msg, DeleteMessage(m)
      PROVE  /\ last' \in 0..MaxMsg
             /\ row' \in [Msg -> SendState \cup {None}]
  BY <1>3 DEF TypeOK, DeleteMessage
<1>4. CASE InsertRow
  BY <1>4, HeadIsTyped DEF TypeOK, InsertRow, TaskIs
<1>5. CASE UpdateRow
  <2>1. storageQueue # <<>> /\ Head(storageQueue).op = "update"
    BY <1>5 DEF UpdateRow, TaskIs
  <2>2. StateOf(Head(storageQueue).m, Head(storageQueue).from) \in SendState \cup {None}
    BY <2>1, HeadIsTyped, StateOfTyped DEF TypeOK
  <2> QED BY <1>5, <2>2 DEF TypeOK, UpdateRow
<1>6. QED
  BY <1>1, <1>2, <1>3, <1>4, <1>5
     DEF Next, SendSteps, UiSteps, StorageSteps, TransmitOk, TransmitFails,
         TransmitAborts, QueueUpdate, OpenChat, CloseChat, ShowError, ErrorNotShown,
         ShowAck, ShowLoaded, LoadRows, BeginScan, ResendOk, ResendLooksFailed,
         ResendFails, ResendAborts, QueueUpdates, SessionOpens, Established,
         ConnectionLost, Killed, NextUnsent, PeerReceives, ReceiptMissed,
         ReceiptArrives, Restart, vars, chatVars, threadVars, netVars, peerVars

\* The objects.
LEMMA ObjectsTyped ==
  TypeOK /\ [Next]_vars
    => /\ mine' \in [Msg -> SendState \cup {None}]
       /\ copy' \in [Msg -> SendState \cup {None}]
<1> SUFFICES ASSUME TypeOK, [Next]_vars
    PROVE  /\ mine' \in [Msg -> SendState \cup {None}]
           /\ copy' \in [Msg -> SendState \cup {None}]
  OBVIOUS
<1>1. CASE UNCHANGED <<mine, copy>>
  BY <1>1 DEF TypeOK
<1>2. CASE SendMessage
  BY <1>2 DEF TypeOK, SendMessage, SendState
<1>3. CASE TransmitOk
  BY <1>3, SendingNamesMsg, ChatWritesTyped DEF TypeOK, TransmitOk, SendState
<1>4. CASE TransmitFails
  BY <1>4 DEF TypeOK, TransmitFails, SendState
<1>5. ASSUME CloseChat \/ \E m \in Msg : DeleteMessage(m)
      PROVE  /\ mine' \in [Msg -> SendState \cup {None}]
             /\ copy' \in [Msg -> SendState \cup {None}]
  BY <1>5 DEF TypeOK, CloseChat, DeleteMessage, MessageDeleted
<1>6. CASE ShowError
  <2>1. uiTasks # <<>> /\ Head(uiTasks).op = "error" /\ Head(uiTasks).m \in Msg
    BY <1>6, UiHeadIsTyped DEF ShowError, UiTaskIs, TypeOK
  <2> QED BY <1>6, <2>1, ChatWritesTyped DEF TypeOK, ShowError, SendState
<1>7. CASE ShowAck
  <2>1. uiTasks # <<>> /\ Head(uiTasks).op = "ack" /\ Head(uiTasks).m \in Msg
    BY <1>7, UiHeadIsTyped DEF ShowAck, UiTaskIs, TypeOK
  <2> QED BY <1>7, <2>1, ChatWritesTyped DEF TypeOK, ShowAck, SendState
<1>8. CASE ShowLoaded
  <2>1. Head(uiTasks).rows \in [Msg -> SendState \cup {None}]
    BY <1>8, UiHeadIsTyped DEF ShowLoaded, UiTaskIs, TypeOK
  <2> QED BY <1>8, <2>1 DEF TypeOK, ShowLoaded
<1>9. CASE ResendOk
  BY <1>9, ScanNamesMsg, ChatWritesTyped DEF TypeOK, ResendOk, SendState
<1>10. CASE ResendLooksFailed
  BY <1>10, ScanNamesMsg, ChatWritesTyped DEF TypeOK, ResendLooksFailed, SendState
<1>11. CASE Restart
  BY <1>11 DEF TypeOK, Restart
<1>12. QED
  BY <1>1, <1>2, <1>3, <1>4, <1>5, <1>6, <1>7, <1>8, <1>9, <1>10, <1>11
     DEF Next, SendSteps, UiSteps, StorageSteps, TransmitAborts, QueueUpdate, OpenChat,
         InsertRow, UpdateRow, LoadRows, BeginScan, ResendFails, QueueUpdates,
         SessionOpens, Established, ConnectionLost, DeleteMessage, NextUnsent,
         PeerReceives, ReceiptMissed, ReceiptArrives, ErrorNotShown, ResendAborts,
         Killed, vars, chatVars, threadVars, netVars, peerVars

\* The chat.
LEMMA ChatTyped ==
  TypeOK /\ [Next]_vars
    => /\ chat' \in [Msg -> {"no", "mine", "copy"}]
       /\ chatOpen' \in BOOLEAN
       /\ loading' \in BOOLEAN
       /\ opens' \in 0..MaxOpens
<1> SUFFICES ASSUME TypeOK, [Next]_vars
    PROVE  /\ chat' \in [Msg -> {"no", "mine", "copy"}]
           /\ chatOpen' \in BOOLEAN
           /\ loading' \in BOOLEAN
           /\ opens' \in 0..MaxOpens
  OBVIOUS
<1>1. CASE UNCHANGED <<chat, chatOpen, loading, opens>>
  BY <1>1 DEF TypeOK
<1>2. CASE SendMessage
  BY <1>2 DEF TypeOK, SendMessage
<1>3. CASE OpenChat
  BY <1>3, BoundsAssumption DEF TypeOK, OpenChat
<1>4. ASSUME CloseChat \/ \E m \in Msg : DeleteMessage(m)
      PROVE  /\ chat' \in [Msg -> {"no", "mine", "copy"}]
             /\ chatOpen' \in BOOLEAN
             /\ loading' \in BOOLEAN
             /\ opens' \in 0..MaxOpens
  BY <1>4 DEF TypeOK, CloseChat, DeleteMessage, MessageDeleted
<1>5. CASE ShowLoaded
  BY <1>5 DEF TypeOK, ShowLoaded
<1>6. CASE Restart
  BY <1>6 DEF TypeOK, Restart
<1>7. QED
  BY <1>1, <1>2, <1>3, <1>4, <1>5, <1>6
     DEF Next, SendSteps, UiSteps, StorageSteps, TransmitOk, TransmitFails,
         TransmitAborts, QueueUpdate, ShowError, ShowAck, InsertRow, UpdateRow,
         LoadRows, BeginScan, ResendOk, ResendLooksFailed, ResendFails, QueueUpdates,
         SessionOpens, Established, ConnectionLost, DeleteMessage, NextUnsent,
         PeerReceives, ReceiptMissed, ReceiptArrives, ErrorNotShown, ResendAborts,
         Killed, vars, chatVars, threadVars, netVars, peerVars

\* The storage queue.
LEMMA StorageQueueTyped == TypeOK /\ [Next]_vars => storageQueue' \in Seq(Task)
<1> SUFFICES ASSUME TypeOK, [Next]_vars PROVE storageQueue' \in Seq(Task)
  OBVIOUS
<1>1. CASE UNCHANGED storageQueue
  BY <1>1 DEF TypeOK
<1>2. CASE SendMessage
  <2>1. last + 1 \in Msg
    BY <1>2, BoundsAssumption DEF TypeOK, SendMessage, Msg
  <2> QED BY <1>2, <2>1, PostTyped, TasksAreTyped
       DEF TypeOK, SendMessage, PostStorage, Source
<1>3. CASE QueueUpdate
  BY <1>3, SendingNamesMsg, PostTyped, TasksAreTyped
     DEF TypeOK, QueueUpdate, PostStorage, Source
<1>4. CASE OpenChat
  BY <1>4, PostTyped, TasksAreTyped DEF TypeOK, OpenChat, PostStorage
<1>5. CASE CloseChat
  <2> DEFINE frozen(t) == IF t.op = "update" /\ t.from = "copy" THEN Update(t.m, copy[t.m]) ELSE t
  <2>1. \A t \in Task : frozen(t) \in Task
    <3> SUFFICES ASSUME NEW t \in Task, t.op = "update" PROVE Update(t.m, copy[t.m]) \in Task
      OBVIOUS
    <3>1. t.m \in Msg
      BY DEF Task
    <3>2. copy[t.m] \in Source
      BY <3>1 DEF TypeOK, Source
    <3> QED BY <3>1, <3>2, TasksAreTyped
  <2>2. storageQueue' = [i \in DOMAIN storageQueue |-> frozen(storageQueue[i])]
    BY <1>5 DEF CloseChat
  <2>3. storageQueue \in Seq(Task) /\ DOMAIN storageQueue = 1..Len(storageQueue) /\ Len(storageQueue) \in Nat
    BY DEF TypeOK
  <2>4. \A i \in 1..Len(storageQueue) : storageQueue[i] \in Task
    BY <2>3
  <2> HIDE DEF frozen
  <2>5. storageQueue' \in [1..Len(storageQueue) -> Task]
    BY <2>1, <2>2, <2>3, <2>4
  <2> QED BY <2>3, <2>5
<1>6. CASE ShowLoaded
  <2>1. chat' \in [Msg -> {"no", "mine", "copy"}]
    BY ChatTyped
  <2>2. CASE UNCHANGED storageQueue
    BY <2>2 DEF TypeOK
  <2>3. ASSUME NEW m \in Shown \cup {n \in Msg : Head(uiTasks).rows[n] # None /\ chat[n] = "no"},
               PostStorage(<<Update(m, chat'[m])>>), chat'[m] # "no"
        PROVE  storageQueue' \in Seq(Task)
    BY <2>1, <2>3, PostTyped, TasksAreTyped DEF TypeOK, PostStorage, Source, Shown
  <2> QED BY <1>6, <2>2, <2>3 DEF TypeOK, ShowLoaded, Shown
<1>7. CASE InsertRow
  BY <1>7, HeadIsTyped DEF TypeOK, InsertRow, TaskIs
<1>8. CASE UpdateRow
  BY <1>8, HeadIsTyped DEF TypeOK, UpdateRow, TaskIs
<1>9. CASE LoadRows
  BY <1>9, HeadIsTyped DEF TypeOK, LoadRows, TaskIs
<1>10. CASE BeginScan
  BY <1>10, HeadIsTyped DEF TypeOK, BeginScan, TaskIs
<1>11. CASE QueueUpdates
  BY <1>11, ScanNamesMsg, PostTyped, TasksAreTyped
     DEF TypeOK, QueueUpdates, PostStorage, Source, SendState
<1>12. CASE Established
  BY <1>12, PostTyped, TasksAreTyped DEF TypeOK, Established, PostStorage
<1>13. ASSUME NEW m \in Msg, ReceiptArrives(m) PROVE storageQueue' \in Seq(Task)
  BY <1>13, PostTyped, TasksAreTyped
     DEF TypeOK, ReceiptArrives, PostStorage, Source, SendState
<1>14. CASE Restart
  BY <1>14 DEF TypeOK, Restart
<1>15. ASSUME NEW m \in Msg, DeleteMessage(m) PROVE storageQueue' \in Seq(Task)
  <2>1. copy[m] \in Source
    BY DEF TypeOK, Source
  <2>2. Update(m, copy[m]) \in Task
    BY <2>1, TasksAreTyped
  <2>3. storageQueue \in Seq(Task) /\ DOMAIN storageQueue = 1..Len(storageQueue) /\ Len(storageQueue) \in Nat
    BY DEF TypeOK
  <2>4. \A i \in 1..Len(storageQueue) : storageQueue[i] \in Task
    BY <2>3
  <2>5. storageQueue' = [i \in DOMAIN storageQueue |->
          IF storageQueue[i] = Update(m, "copy") THEN Update(m, copy[m]) ELSE storageQueue[i]]
    BY <1>15 DEF DeleteMessage, MessageDeleted
  <2>6. storageQueue' \in [1..Len(storageQueue) -> Task]
    BY <2>2, <2>3, <2>4, <2>5
  <2> QED BY <2>3, <2>6
<1>16. QED
  BY <1>1, <1>2, <1>3, <1>4, <1>5, <1>6, <1>7, <1>8, <1>9, <1>10, <1>11, <1>12, <1>13, <1>14, <1>15
     DEF Next, SendSteps, UiSteps, StorageSteps, TransmitOk, TransmitFails,
         TransmitAborts, ShowError, ShowAck, ResendOk, ResendLooksFailed, ResendFails,
         SessionOpens, ConnectionLost, NextUnsent, PeerReceives,
         ReceiptMissed, ErrorNotShown, ResendAborts, Killed, vars, chatVars, threadVars,
         netVars, peerVars

\* The tasks of the main looper.
LEMMA UiTasksTyped == TypeOK /\ [Next]_vars => uiTasks' \in Seq(UiTask)
<1> SUFFICES ASSUME TypeOK, [Next]_vars PROVE uiTasks' \in Seq(UiTask)
  OBVIOUS
<1>1. CASE UNCHANGED uiTasks
  BY <1>1 DEF TypeOK
<1>2. CASE TransmitFails
  BY <1>2, SendingNamesMsg DEF TypeOK, TransmitFails, PostUi, UiTask
<1>3. CASE ShowError
  BY <1>3, UiHeadIsTyped DEF TypeOK, ShowError, UiTaskIs
<1>4. CASE ShowAck
  BY <1>4, UiHeadIsTyped DEF TypeOK, ShowAck, UiTaskIs
<1>5. CASE ShowLoaded
  BY <1>5, UiHeadIsTyped DEF TypeOK, ShowLoaded, UiTaskIs
<1>6. CASE LoadRows
  BY <1>6 DEF TypeOK, LoadRows, PostUi, UiTask
<1>7. CASE ResendLooksFailed
  BY <1>7, ScanNamesMsg DEF TypeOK, ResendLooksFailed, PostUi, UiTask
<1>8. CASE ResendFails
  BY <1>8, ScanNamesMsg DEF TypeOK, ResendFails, PostUi, UiTask
<1>9. ASSUME NEW m \in Msg, ReceiptArrives(m) PROVE uiTasks' \in Seq(UiTask)
  BY <1>9 DEF TypeOK, ReceiptArrives, PostUi, UiTask
<1>10. CASE Restart
  BY <1>10 DEF TypeOK, Restart
<1>11. QED
  BY <1>1, <1>2, <1>3, <1>4, <1>5, <1>6, <1>7, <1>8, <1>9, <1>10
     DEF Next, SendSteps, UiSteps, StorageSteps, SendMessage, TransmitOk,
         TransmitAborts, QueueUpdate, OpenChat, CloseChat, InsertRow, UpdateRow,
         BeginScan, ResendOk, QueueUpdates, SessionOpens, Established, ConnectionLost,
         DeleteMessage, NextUnsent, PeerReceives, ReceiptMissed, ErrorNotShown,
         ResendAborts, Killed, vars, chatVars, threadVars, netVars, peerVars

\* The UI thread's place in sendTextMessage.
LEMMA SendingTyped == TypeOK /\ [Next]_vars => sending' \in Sending
<1> SUFFICES ASSUME TypeOK, [Next]_vars PROVE sending' \in Sending
  OBVIOUS
<1>1. CASE UNCHANGED sending
  BY <1>1 DEF TypeOK
<1>2. CASE SendMessage
  <2>1. last + 1 \in Msg
    BY <1>2, BoundsAssumption DEF TypeOK, SendMessage, Msg
  <2> QED BY <1>2, <2>1 DEF SendMessage, Sending
<1>3. CASE TransmitOk
  BY <1>3, SendingNamesMsg DEF TransmitOk
<1>4. CASE TransmitFails
  BY <1>4, SendingNamesMsg DEF TransmitFails
<1>5. CASE TransmitAborts
  BY <1>5 DEF TransmitAborts, Sending
<1>6. CASE QueueUpdate
  BY <1>6 DEF QueueUpdate, Sending
<1>7. CASE Restart
  BY <1>7 DEF Restart, Sending
<1>8. QED
  BY <1>1, <1>2, <1>3, <1>4, <1>5, <1>6, <1>7
     DEF Next, SendSteps, UiSteps, StorageSteps, OpenChat, CloseChat, ShowError,
         ShowAck, ShowLoaded, InsertRow, UpdateRow, LoadRows, BeginScan, ResendOk,
         ResendLooksFailed, ResendFails, QueueUpdates, SessionOpens, Established,
         ConnectionLost, DeleteMessage, NextUnsent, PeerReceives, ReceiptMissed,
         ReceiptArrives, ErrorNotShown, ResendAborts, Killed, vars, chatVars,
         threadVars, netVars, peerVars

\* The storage thread's place in processUnsentMessages.
LEMMA ScanTyped == TypeOK /\ [Next]_vars => scan' \in Scanning
<1> SUFFICES ASSUME TypeOK, [Next]_vars PROVE scan' \in Scanning
  OBVIOUS
<1>1. CASE UNCHANGED scan
  BY <1>1 DEF TypeOK
<1>2. CASE BeginScan
  <2>1. Unsent \in SUBSET Msg
    BY BoundsAssumption DEF Unsent, Msg
  <2>2. Resting \in Scanning
    BY DEF Scanning
  <2>3. [at |-> "next", left |-> Unsent] \in Scanning
    BY <2>1 DEF Scanning
  <2> QED BY <1>2, <2>2, <2>3 DEF BeginScan
<1>3. ASSUME NEW m \in Msg, NextUnsent(m) PROVE scan' \in Scanning
  <2>1. scan.left \ {m} \in SUBSET Msg
    BY <1>3, ScanNamesMsg DEF NextUnsent
  <2> QED BY <1>3, <2>1, ScanningMade DEF NextUnsent, ScanGoesOn
<1>4. CASE ResendOk
  BY <1>4, ScanNamesMsg, ScanningMade DEF ResendOk, ScanSent
<1>5. CASE ResendLooksFailed
  BY <1>5, ScanNamesMsg, ScanningMade DEF ResendLooksFailed, ScanSent
<1>6. CASE ResendFails
  BY <1>6, ScanNamesMsg, ScanningMade DEF ResendFails, ScanSent
<1>7. CASE QueueUpdates
  BY <1>7, ScanNamesMsg, ScanningMade DEF QueueUpdates, ScanGoesOn
<1>8. CASE Restart
  BY <1>8 DEF Restart, Scanning
<1>9. QED
  BY <1>1, <1>2, <1>3, <1>4, <1>5, <1>6, <1>7, <1>8
     DEF Next, SendSteps, UiSteps, StorageSteps, SendMessage, TransmitOk, TransmitFails,
         TransmitAborts, QueueUpdate, OpenChat, CloseChat, ShowError, ShowAck,
         ShowLoaded, InsertRow, UpdateRow, LoadRows, SessionOpens, Established,
         ConnectionLost, DeleteMessage, PeerReceives, ReceiptMissed, ReceiptArrives,
         ErrorNotShown, ResendAborts, Killed, vars, chatVars, threadVars, netVars,
         peerVars

\* The connection.
LEMMA NetTyped ==
  TypeOK /\ [Next]_vars
    => /\ conn' \in {"none", "down", "up"}
       /\ swept' \in BOOLEAN
       /\ late' \subseteq Msg
       /\ logins' \in Nat
       /\ losses' \in 0..MaxLosses
<1> SUFFICES ASSUME TypeOK, [Next]_vars
    PROVE  /\ conn' \in {"none", "down", "up"}
           /\ swept' \in BOOLEAN
           /\ late' \subseteq Msg
           /\ logins' \in Nat
           /\ losses' \in 0..MaxLosses
  OBVIOUS
<1>1. CASE UNCHANGED <<conn, swept, late, logins, losses>>
  BY <1>1 DEF TypeOK
<1>2. CASE SessionOpens
  <2>1. logins + 1 \in Nat
    BY DEF TypeOK
  <2> QED BY <1>2, <2>1 DEF TypeOK, SessionOpens
<1>3. CASE Established
  BY <1>3 DEF TypeOK, Established
<1>4. CASE ConnectionLost
  <2>1. losses + 1 \in 0..MaxLosses
    BY <1>4, BoundsAssumption DEF TypeOK, ConnectionLost
  <2> QED BY <1>4, <2>1 DEF TypeOK, ConnectionLost
<1>5. CASE QueueUpdates
  BY <1>5, ScanNamesMsg DEF TypeOK, QueueUpdates
<1>6. CASE ErrorNotShown
  BY <1>6 DEF TypeOK, ErrorNotShown, Restart
<1>7. CASE ResendAborts
  BY <1>7 DEF TypeOK, ResendAborts, Restart
<1>8. CASE Killed
  <2>1. losses + 1 \in 0..MaxLosses
    BY <1>8, BoundsAssumption DEF TypeOK, Killed
  <2> QED BY <1>8, <2>1 DEF TypeOK, Killed, Restart
<1>9. QED
  BY <1>1, <1>2, <1>3, <1>4, <1>5, <1>6, <1>7, <1>8
     DEF Next, SendSteps, UiSteps, StorageSteps, SendMessage, TransmitOk, TransmitFails,
         TransmitAborts, QueueUpdate, OpenChat, CloseChat, ShowError, ShowAck,
         ShowLoaded, InsertRow, UpdateRow, LoadRows, BeginScan, ResendOk,
         ResendLooksFailed, ResendFails, DeleteMessage, NextUnsent, PeerReceives,
         ReceiptMissed, ReceiptArrives, vars, chatVars, threadVars, netVars, peerVars

\* The wire and the peer.
LEMMA PeerTyped ==
  TypeOK /\ [Next]_vars
    => /\ wire' \subseteq Msg
       /\ delivered' \subseteq Msg
       /\ receipts' \subseteq Msg
       /\ sends' \in [Msg -> Nat]
<1> SUFFICES ASSUME TypeOK, [Next]_vars
    PROVE  /\ wire' \subseteq Msg
           /\ delivered' \subseteq Msg
           /\ receipts' \subseteq Msg
           /\ sends' \in [Msg -> Nat]
  OBVIOUS
<1>1. CASE UNCHANGED peerVars
  BY <1>1 DEF TypeOK, peerVars
<1>2. CASE TransmitOk
  BY <1>2, SendingNamesMsg DEF TypeOK, TransmitOk, Accepted
<1>3. CASE ResendOk
  BY <1>3, ScanNamesMsg DEF TypeOK, ResendOk, Accepted
<1>4. CASE ResendLooksFailed
  BY <1>4, ScanNamesMsg DEF TypeOK, ResendLooksFailed, Accepted
<1>5. CASE ConnectionLost
  BY <1>5 DEF TypeOK, ConnectionLost
<1>6. ASSUME NEW m \in Msg, PeerReceives(m)
      PROVE  /\ wire' \subseteq Msg
             /\ delivered' \subseteq Msg
             /\ receipts' \subseteq Msg
             /\ sends' \in [Msg -> Nat]
  BY <1>6 DEF TypeOK, PeerReceives
<1>7. ASSUME NEW m \in Msg, ReceiptMissed(m)
      PROVE  /\ wire' \subseteq Msg
             /\ delivered' \subseteq Msg
             /\ receipts' \subseteq Msg
             /\ sends' \in [Msg -> Nat]
  BY <1>7 DEF TypeOK, ReceiptMissed
<1>8. ASSUME NEW m \in Msg, ReceiptArrives(m)
      PROVE  /\ wire' \subseteq Msg
             /\ delivered' \subseteq Msg
             /\ receipts' \subseteq Msg
             /\ sends' \in [Msg -> Nat]
  BY <1>8 DEF TypeOK, ReceiptArrives
<1>9. CASE Restart
  BY <1>9 DEF TypeOK, Restart
<1>10. QED
  BY <1>1, <1>2, <1>3, <1>4, <1>5, <1>6, <1>7, <1>8, <1>9
     DEF Next, SendSteps, UiSteps, StorageSteps, SendMessage, TransmitFails,
         TransmitAborts, QueueUpdate, OpenChat, CloseChat, ShowError, ShowAck,
         ShowLoaded, InsertRow, UpdateRow, LoadRows, BeginScan, ResendFails,
         QueueUpdates, SessionOpens, Established, DeleteMessage, NextUnsent,
         ErrorNotShown, ResendAborts, Killed, vars, chatVars, threadVars, netVars,
         peerVars

\* The first states are typed.
LEMMA InitTyped == Init => TypeOK
<1> SUFFICES ASSUME Init PROVE TypeOK
  OBVIOUS
<1>1. Resting \in Sending /\ Resting \in Scanning
  BY DEF Sending, Scanning
<1>2. 0 \in 0..MaxMsg /\ 0 \in 0..MaxOpens /\ 0 \in 0..MaxLosses
  BY BoundsAssumption
<1>3. storageQueue \in Seq(Task) /\ uiTasks \in Seq(UiTask)
  BY DEF Init
<1> QED BY <1>1, <1>2, <1>3 DEF Init, TypeOK

\* Type correctness: every variable of the model keeps its type.
THEOREM TypeCorrect == Spec => []TypeOK
<1>1. TypeOK /\ [Next]_vars => TypeOK'
  BY RowTyped, ObjectsTyped, ChatTyped, StorageQueueTyped, UiTasksTyped,
     SendingTyped, ScanTyped, NetTyped, PeerTyped DEF TypeOK
<1> QED BY InitTyped, <1>1, PTL DEF Spec

-----------------------------------------------------------------------------
(***************************************************************************)
(* A claim written into a row comes from an object, a queued task, a       *)
(* loaded copy or the scan, so none of these may claim what has not        *)
(* happened: StatesAreEarned is inductive only together with them.         *)
(***************************************************************************)
RowsEarned == \A m \in Msg : Earned(m, row[m])

ObjectsEarned == \A m \in Msg : Earned(m, mine[m]) /\ Earned(m, copy[m])

TaskEarned(t) == t.op = "update" => Earned(t.m, t.from)

QueueEarned == \A i \in DOMAIN storageQueue : TaskEarned(storageQueue[i])

UiTaskEarned(t) ==
  /\ t.op = "ack" => t.m \in delivered
  /\ t.op = "loaded" => \A m \in Msg : Earned(m, t.rows[m])

UiEarned == \A i \in DOMAIN uiTasks : UiTaskEarned(uiTasks[i])

ScanEarned == scan.at = "update" => Earned(scan.m, scan.state)

ReceiptsEarned == receipts \subseteq delivered

EarnedInv ==
  /\ RowsEarned /\ ObjectsEarned /\ QueueEarned /\ UiEarned
  /\ ScanEarned /\ ReceiptsEarned

\* Earned, in the state a step leads to.
EarnedNext(m, s) ==
  /\ s = "SENT" => sends'[m] > 0
  /\ s = "AKN" => m \in delivered'

TaskEarnedNext(t) == t.op = "update" => EarnedNext(t.m, t.from)

UiTaskEarnedNext(t) ==
  /\ t.op = "ack" => t.m \in delivered'
  /\ t.op = "loaded" => \A m \in Msg : EarnedNext(m, t.rows[m])

\* What has been handed to Smack or delivered stays so.
LEMMA HistoryGrows ==
  TypeOK /\ [Next]_vars
    => /\ \A m \in Msg : sends[m] > 0 => sends'[m] > 0
       /\ delivered \subseteq delivered'
<1> SUFFICES ASSUME TypeOK, [Next]_vars
             PROVE  /\ \A m \in Msg : sends[m] > 0 => sends'[m] > 0
                    /\ delivered \subseteq delivered'
  OBVIOUS
<1>1. CASE TransmitOk \/ ResendOk \/ ResendLooksFailed
  <2>1. PICK m \in Msg : Accepted(m)
    BY <1>1, SendingNamesMsg, ScanNamesMsg DEF TransmitOk, ResendOk, ResendLooksFailed
  <2> QED BY <2>1 DEF TypeOK, Accepted
<1>2. ASSUME NEW m \in Msg, PeerReceives(m)
      PROVE  /\ delivered \subseteq delivered'
             /\ UNCHANGED sends
  BY <1>2 DEF PeerReceives
<1>3. CASE UNCHANGED <<sends, delivered>>
  BY <1>3
<1>4. QED
  BY <1>1, <1>2, <1>3
     DEF Next, SendSteps, UiSteps, StorageSteps, SendMessage, TransmitFails,
         TransmitAborts, QueueUpdate, OpenChat, CloseChat, ShowError, ErrorNotShown,
         ShowAck, ShowLoaded, InsertRow, UpdateRow, LoadRows, BeginScan, ResendFails,
         ResendAborts, QueueUpdates, SessionOpens, Established, ConnectionLost, Killed,
         DeleteMessage, NextUnsent, ReceiptMissed, ReceiptArrives, Restart, vars,
         peerVars

LEMMA EarnedStays ==
  TypeOK /\ [Next]_vars
    => /\ \A m \in Msg : \A s : Earned(m, s) => EarnedNext(m, s)
       /\ delivered \subseteq delivered'
BY HistoryGrows DEF Earned, EarnedNext

\* Tasks of a queue that others are appended to, or that lost its head.
LEMMA InPosted ==
  ASSUME NEW S, NEW q \in Seq(S), NEW t \in S, NEW u \in S
  PROVE  /\ \A i \in DOMAIN (q \o <<t>>) :
              (i \in DOMAIN q /\ (q \o <<t>>)[i] = q[i]) \/ (q \o <<t>>)[i] = t
         /\ \A i \in DOMAIN (q \o <<t, u>>) :
              \/ i \in DOMAIN q /\ (q \o <<t, u>>)[i] = q[i]
              \/ (q \o <<t, u>>)[i] \in {t, u}
         /\ \A i \in DOMAIN Append(q, t) :
              (i \in DOMAIN q /\ Append(q, t)[i] = q[i]) \/ Append(q, t)[i] = t
OBVIOUS

LEMMA InTail ==
  ASSUME NEW S, NEW q \in Seq(S), q # <<>>
  PROVE  /\ \A i \in DOMAIN Tail(q) : i + 1 \in DOMAIN q /\ Tail(q)[i] = q[i + 1]
         /\ 1 \in DOMAIN q /\ Head(q) = q[1]
OBVIOUS

\* The rows.
LEMMA RowsStayEarned == TypeOK /\ EarnedInv /\ [Next]_vars => RowsEarned'
<1> SUFFICES ASSUME TypeOK, EarnedInv, [Next]_vars PROVE RowsEarned'
  OBVIOUS
<1> USE EarnedStays
<1>1. CASE UNCHANGED row
  BY <1>1 DEF EarnedInv, RowsEarned, Earned, EarnedNext, TypeOK
<1>2. ASSUME NEW m \in Msg, DeleteMessage(m) PROVE RowsEarned'
  BY <1>2 DEF DeleteMessage, EarnedInv, RowsEarned, Earned, EarnedNext, TypeOK, None
<1>3. CASE InsertRow
  <2>1. storageQueue # <<>> /\ Head(storageQueue).m \in Msg
    BY <1>3, HeadIsTyped DEF InsertRow, TaskIs, TypeOK
  <2> QED BY <1>3, <2>1
       DEF InsertRow, EarnedInv, RowsEarned, ObjectsEarned, Earned, EarnedNext, TypeOK
<1>4. CASE UpdateRow
  <2> DEFINE t == Head(storageQueue)
  <2>1. storageQueue # <<>> /\ t.op = "update" /\ t.m \in Msg
    BY <1>4, HeadIsTyped DEF UpdateRow, TaskIs, TypeOK
  <2>2. TaskEarned(t)
    BY <2>1, InTail DEF EarnedInv, QueueEarned, TypeOK
  <2>3. Earned(t.m, StateOf(t.m, t.from))
    BY <2>1, <2>2 DEF TaskEarned, StateOf, EarnedInv, ObjectsEarned
  <2> HIDE DEF t
  <2>4. row' = IF row[t.m] = None THEN row ELSE [row EXCEPT ![t.m] = StateOf(t.m, t.from)]
    BY <1>4 DEF UpdateRow, t
  <2> QED BY <2>1, <2>3, <2>4 DEF EarnedInv, RowsEarned, Earned, EarnedNext, TypeOK
<1>5. QED
  BY <1>1, <1>2, <1>3, <1>4
     DEF Next, SendSteps, UiSteps, StorageSteps, SendMessage, TransmitOk, TransmitFails,
         TransmitAborts, QueueUpdate, OpenChat, CloseChat, ShowError, ErrorNotShown,
         ShowAck, ShowLoaded, LoadRows, BeginScan, ResendOk, ResendLooksFailed,
         ResendFails, ResendAborts, QueueUpdates, SessionOpens, Established,
         ConnectionLost, Killed, NextUnsent, PeerReceives, ReceiptMissed,
         ReceiptArrives, Restart, vars, chatVars, threadVars, netVars, peerVars

\* The objects.
LEMMA ObjectsStayEarned == TypeOK /\ EarnedInv /\ [Next]_vars => ObjectsEarned'
<1> SUFFICES ASSUME TypeOK, EarnedInv, [Next]_vars PROVE ObjectsEarned'
  OBVIOUS
<1> USE EarnedStays
<1>1. CASE UNCHANGED <<mine, copy>>
  BY <1>1 DEF EarnedInv, ObjectsEarned, Earned, EarnedNext, TypeOK
<1>2. CASE SendMessage
  BY <1>2 DEF SendMessage, EarnedInv, ObjectsEarned, Earned, EarnedNext, TypeOK
<1>3. CASE TransmitOk
  <2>1. sending.m \in Msg /\ sends'[sending.m] > 0
    BY <1>3, SendingNamesMsg DEF TransmitOk, Accepted, TypeOK
  <2>2. EarnedNext(sending.m, "SENT")
    BY <2>1 DEF EarnedNext
  <2> QED BY <1>3, <2>1, <2>2
       DEF TransmitOk, ChatWrites, EarnedInv, ObjectsEarned, Earned, EarnedNext, TypeOK
<1>4. CASE TransmitFails
  BY <1>4, SendingNamesMsg
     DEF TransmitFails, EarnedInv, ObjectsEarned, Earned, EarnedNext, TypeOK
<1>5. ASSUME CloseChat \/ \E m \in Msg : DeleteMessage(m) PROVE ObjectsEarned'
  BY <1>5 DEF CloseChat, DeleteMessage, MessageDeleted, EarnedInv, ObjectsEarned, Earned, EarnedNext, TypeOK, None
<1>6. CASE ShowError
  <2>1. EarnedNext(Head(uiTasks).m, "SEND_ERROR")
    BY DEF EarnedNext
  <2> QED BY <1>6, <2>1
       DEF ShowError, ChatWrites, EarnedInv, ObjectsEarned, Earned, EarnedNext, TypeOK
<1>7. CASE ShowAck
  <2>1. UiTaskEarned(Head(uiTasks)) /\ Head(uiTasks).op = "ack"
    BY <1>7, InTail DEF ShowAck, UiTaskIs, EarnedInv, UiEarned, TypeOK
  <2>2. EarnedNext(Head(uiTasks).m, "AKN")
    BY <2>1, EarnedStays DEF UiTaskEarned, EarnedNext
  <2> QED BY <1>7, <2>2
       DEF ShowAck, ChatWrites, EarnedInv, ObjectsEarned, Earned, EarnedNext, TypeOK
<1>8. CASE ShowLoaded
  <2>1. UiTaskEarned(Head(uiTasks)) /\ Head(uiTasks).op = "loaded"
    BY <1>8, InTail DEF ShowLoaded, UiTaskIs, EarnedInv, UiEarned, TypeOK
  <2>2. \A m \in Msg : Earned(m, Head(uiTasks).rows[m])
    BY <2>1 DEF UiTaskEarned
  <2> QED BY <1>8, <2>2
       DEF ShowLoaded, EarnedInv, ObjectsEarned, Earned, EarnedNext, TypeOK
<1>9. CASE ResendOk
  <2>1. scan.m \in Msg /\ sends'[scan.m] > 0
    BY <1>9, ScanNamesMsg DEF ResendOk, Accepted, TypeOK
  <2>2. EarnedNext(scan.m, "SENT")
    BY <2>1 DEF EarnedNext
  <2> QED BY <1>9, <2>1, <2>2
       DEF ResendOk, ChatWrites, EarnedInv, ObjectsEarned, Earned, EarnedNext, TypeOK
<1>10. CASE ResendLooksFailed
  <2>1. scan.m \in Msg /\ sends'[scan.m] > 0
    BY <1>10, ScanNamesMsg DEF ResendLooksFailed, Accepted, TypeOK
  <2>2. EarnedNext(scan.m, "SENT")
    BY <2>1 DEF EarnedNext
  <2> QED BY <1>10, <2>1, <2>2
       DEF ResendLooksFailed, ChatWrites, EarnedInv, ObjectsEarned, Earned, EarnedNext,
           TypeOK
<1>11. CASE Restart
  BY <1>11 DEF Restart, ObjectsEarned, Earned, None
<1>12. QED
  BY <1>1, <1>2, <1>3, <1>4, <1>5, <1>6, <1>7, <1>8, <1>9, <1>10, <1>11
     DEF Next, SendSteps, UiSteps, StorageSteps, TransmitAborts, QueueUpdate, OpenChat,
         InsertRow, UpdateRow, LoadRows, BeginScan, ResendFails, QueueUpdates,
         SessionOpens, Established, ConnectionLost, DeleteMessage, NextUnsent,
         PeerReceives, ReceiptMissed, ReceiptArrives, ErrorNotShown, ResendAborts,
         Killed, vars, chatVars, threadVars, netVars, peerVars

\* Tasks that are queued already stay earned.
LEMMA OldTasks ==
  ASSUME TypeOK, EarnedInv, [Next]_vars, NEW i \in DOMAIN storageQueue
  PROVE  TaskEarnedNext(storageQueue[i])
<1>1. storageQueue[i] \in Task
  BY DEF TypeOK
<1>2. storageQueue[i].op = "update" => storageQueue[i].m \in Msg
  BY <1>1 DEF Task
<1> QED BY <1>2, EarnedStays DEF EarnedInv, QueueEarned, TaskEarned, TaskEarnedNext

LEMMA OldUiTasks ==
  ASSUME TypeOK, EarnedInv, [Next]_vars, NEW i \in DOMAIN uiTasks
  PROVE  UiTaskEarnedNext(uiTasks[i])
BY EarnedStays DEF EarnedInv, UiEarned, UiTaskEarned, UiTaskEarnedNext

\* What a step posts: one task or two, at the end of the queue.
LEMMA PostedEarned ==
  ASSUME TypeOK, EarnedInv, [Next]_vars, NEW t \in Task, NEW u \in Task,
         TaskEarnedNext(t), TaskEarnedNext(u),
         storageQueue' = storageQueue \o <<t>> \/ storageQueue' = storageQueue \o <<t, u>>
  PROVE  QueueEarned'
<1> SUFFICES ASSUME NEW i \in DOMAIN storageQueue'
    PROVE  /\ TaskEarnedNext(storageQueue'[i])
  BY DEF QueueEarned, TaskEarned, TaskEarnedNext, Earned, EarnedNext
<1>1. storageQueue \in Seq(Task)
  BY DEF TypeOK
<1>2. CASE storageQueue' = storageQueue \o <<t>>
  <2>1. (i \in DOMAIN storageQueue /\ storageQueue'[i] = storageQueue[i]) \/ storageQueue'[i] = t
    BY <1>1, <1>2, InPosted
  <2> QED BY <2>1, OldTasks
<1>3. CASE storageQueue' = storageQueue \o <<t, u>>
  <2>1. (i \in DOMAIN storageQueue /\ storageQueue'[i] = storageQueue[i]) \/ storageQueue'[i] \in {t, u}
    BY <1>1, <1>3, InPosted
  <2> QED BY <2>1, OldTasks
<1> QED BY <1>2, <1>3

LEMMA PoppedEarned ==
  ASSUME TypeOK, EarnedInv, [Next]_vars, storageQueue # <<>>,
         storageQueue' = Tail(storageQueue)
  PROVE  QueueEarned'
<1> SUFFICES ASSUME NEW i \in DOMAIN storageQueue'
    PROVE  /\ TaskEarnedNext(storageQueue'[i])
  BY DEF QueueEarned, TaskEarned, TaskEarnedNext, Earned, EarnedNext
<1>1. i + 1 \in DOMAIN storageQueue /\ storageQueue'[i] = storageQueue[i + 1]
  BY InTail DEF TypeOK
<1> QED BY <1>1, OldTasks

\* A task that refers to an object, or claims neither SENT nor AKN.
LEMMA Unclaiming ==
  ASSUME NEW m \in Msg, NEW from \in Source \ {"SENT", "AKN"}
  PROVE  /\ Update(m, from) \in Task /\ TaskEarnedNext(Update(m, from))
         /\ Insert(m) \in Task /\ TaskEarnedNext(Insert(m))
         /\ Scan \in Task /\ TaskEarnedNext(Scan)
         /\ Load \in Task /\ TaskEarnedNext(Load)
BY TasksAreTyped DEF TaskEarnedNext, EarnedNext, Update, Insert, Scan, Load

\* The storage queue.
LEMMA QueueStaysEarned == TypeOK /\ EarnedInv /\ [Next]_vars => QueueEarned'
<1> SUFFICES ASSUME TypeOK, EarnedInv, [Next]_vars PROVE QueueEarned'
  OBVIOUS
<1> USE EarnedStays
<1>1. CASE UNCHANGED storageQueue
  BY <1>1, OldTasks DEF QueueEarned, TaskEarned, TaskEarnedNext, Earned, EarnedNext
<1>2. CASE SendMessage
  <2>1. last + 1 \in Msg
    BY <1>2, BoundsAssumption DEF TypeOK, SendMessage, Msg
  <2> QED BY <1>2, <2>1, Unclaiming, PostedEarned DEF SendMessage, PostStorage, Source
<1>3. CASE QueueUpdate
  BY <1>3, SendingNamesMsg, Unclaiming, PostedEarned DEF QueueUpdate, PostStorage, Source
<1>4. CASE OpenChat
  <2>1. Load \in Task /\ TaskEarnedNext(Load)
    BY TasksAreTyped DEF TaskEarnedNext, Load
  <2> QED BY <1>4, <2>1, PostedEarned DEF OpenChat, PostStorage
<1>5. CASE CloseChat
  <2> SUFFICES ASSUME NEW i \in DOMAIN storageQueue' PROVE TaskEarnedNext(storageQueue'[i])
    BY DEF QueueEarned, TaskEarned, TaskEarnedNext, Earned, EarnedNext
  <2> DEFINE t == storageQueue[i]
  <2>1. /\ i \in DOMAIN storageQueue
        /\ storageQueue'[i] = IF t.op = "update" /\ t.from = "copy"
                               THEN Update(t.m, copy[t.m]) ELSE t
    BY <1>5 DEF CloseChat
  <2>2. t \in Task
    BY <2>1 DEF TypeOK
  <2>3. t.op = "update" => t.m \in Msg
    BY <2>2 DEF Task
  <2>4. t.op = "update" => EarnedNext(t.m, copy[t.m])
    BY <2>3, EarnedStays DEF EarnedInv, ObjectsEarned
  <2>5. TaskEarnedNext(t)
    BY <2>1, OldTasks
  <2> HIDE DEF t
  <2> QED BY <2>1, <2>4, <2>5 DEF TaskEarnedNext, Update
<1>6. CASE ShowLoaded
  <2>1. chat' \in [Msg -> {"no", "mine", "copy"}]
    BY ChatTyped
  <2>2. CASE UNCHANGED storageQueue
    BY <1>1, <2>2
  <2>3. ASSUME NEW m \in Shown \cup {n \in Msg : Head(uiTasks).rows[n] # None /\ chat[n] = "no"},
               PostStorage(<<Update(m, chat'[m])>>), chat'[m] # "no"
        PROVE  QueueEarned'
    <3>1. m \in Msg /\ chat'[m] \in Source \ {"SENT", "AKN"}
      BY <2>1, <2>3 DEF Shown, Source
    <3> QED BY <2>3, <3>1, Unclaiming, PostedEarned DEF PostStorage
  <2> QED BY <1>6, <2>2, <2>3 DEF TypeOK, ShowLoaded, Shown
<1>7. CASE InsertRow
  BY <1>7, PoppedEarned DEF InsertRow, TaskIs
<1>8. CASE UpdateRow
  BY <1>8, PoppedEarned DEF UpdateRow, TaskIs
<1>9. CASE LoadRows
  BY <1>9, PoppedEarned DEF LoadRows, TaskIs
<1>10. CASE BeginScan
  BY <1>10, PoppedEarned DEF BeginScan, TaskIs
<1>11. CASE QueueUpdates
  <2>1. scan.m \in Msg /\ scan.state \in {"SENDING", "SENT"} /\ Earned(scan.m, scan.state)
    BY <1>11, ScanNamesMsg DEF QueueUpdates, EarnedInv, ScanEarned
  <2>2. EarnedNext(scan.m, scan.state)
    BY <2>1, EarnedStays
  <2>3. Update(scan.m, scan.state) \in Task /\ TaskEarnedNext(Update(scan.m, scan.state))
    BY <2>1, <2>2, TasksAreTyped DEF TaskEarnedNext, Update, Source, SendState
  <2> QED BY <1>11, <2>3, PostedEarned DEF QueueUpdates, PostStorage
<1>12. CASE Established
  <2>1. Scan \in Task /\ TaskEarnedNext(Scan)
    BY TasksAreTyped DEF TaskEarnedNext, Scan
  <2> QED BY <1>12, <2>1, PostedEarned DEF Established, PostStorage
<1>13. ASSUME NEW m \in Msg, ReceiptArrives(m) PROVE QueueEarned'
  <2>1. EarnedNext(m, "AKN")
    BY <1>13, EarnedStays DEF ReceiptArrives, EarnedInv, ReceiptsEarned, EarnedNext
  <2>2. Update(m, "AKN") \in Task /\ TaskEarnedNext(Update(m, "AKN"))
    BY <2>1, TasksAreTyped DEF TaskEarnedNext, Update, Source, SendState
  <2> QED BY <1>13, <1>1, <2>2, PostedEarned DEF ReceiptArrives, PostStorage
<1>14. CASE Restart
  BY <1>14 DEF Restart, QueueEarned
<1>15. ASSUME NEW m \in Msg, DeleteMessage(m) PROVE QueueEarned'
  <2> SUFFICES ASSUME NEW i \in DOMAIN storageQueue' PROVE TaskEarnedNext(storageQueue'[i])
    BY DEF QueueEarned, TaskEarned, TaskEarnedNext, Earned, EarnedNext
  <2>1. /\ i \in DOMAIN storageQueue
        /\ storageQueue'[i] = IF storageQueue[i] = Update(m, "copy")
                               THEN Update(m, copy[m]) ELSE storageQueue[i]
    BY <1>15 DEF DeleteMessage, MessageDeleted
  <2>2. EarnedNext(m, copy[m])
    BY EarnedStays DEF EarnedInv, ObjectsEarned
  <2>3. TaskEarnedNext(storageQueue[i])
    BY <2>1, OldTasks
  <2>4. TaskEarnedNext(Update(m, copy[m]))
    BY <2>2 DEF TaskEarnedNext, Update
  <2> QED BY <2>1, <2>3, <2>4
<1>16. QED
  BY <1>1, <1>2, <1>3, <1>4, <1>5, <1>6, <1>7, <1>8, <1>9, <1>10, <1>11, <1>12, <1>13, <1>14, <1>15
     DEF Next, SendSteps, UiSteps, StorageSteps, TransmitOk, TransmitFails,
         TransmitAborts, ShowError, ShowAck, ResendOk, ResendLooksFailed, ResendFails,
         SessionOpens, ConnectionLost, NextUnsent, PeerReceives,
         ReceiptMissed, ErrorNotShown, ResendAborts, Killed, vars, chatVars, threadVars,
         netVars, peerVars

\* A task of the main looper, posted or taken.
LEMMA UiPostedEarned ==
  ASSUME TypeOK, EarnedInv, [Next]_vars, NEW t \in UiTask,
         UiTaskEarnedNext(t), PostUi(t)
  PROVE  UiEarned'
<1> SUFFICES ASSUME NEW i \in DOMAIN uiTasks' PROVE UiTaskEarnedNext(uiTasks'[i])
  BY DEF UiEarned, UiTaskEarned, UiTaskEarnedNext, Earned, EarnedNext
<1>1. (i \in DOMAIN uiTasks /\ uiTasks'[i] = uiTasks[i]) \/ uiTasks'[i] = t
  BY InPosted DEF TypeOK, PostUi
<1> QED BY <1>1, OldUiTasks

LEMMA UiPoppedEarned ==
  ASSUME TypeOK, EarnedInv, [Next]_vars, uiTasks # <<>>, uiTasks' = Tail(uiTasks)
  PROVE  UiEarned'
<1> SUFFICES ASSUME NEW i \in DOMAIN uiTasks' PROVE UiTaskEarnedNext(uiTasks'[i])
  BY DEF UiEarned, UiTaskEarned, UiTaskEarnedNext, Earned, EarnedNext
<1>1. i + 1 \in DOMAIN uiTasks /\ uiTasks'[i] = uiTasks[i + 1]
  BY InTail DEF TypeOK
<1> QED BY <1>1, OldUiTasks

\* The tasks of the main looper.
LEMMA UiStaysEarned == TypeOK /\ EarnedInv /\ [Next]_vars => UiEarned'
<1> SUFFICES ASSUME TypeOK, EarnedInv, [Next]_vars PROVE UiEarned'
  OBVIOUS
<1> USE EarnedStays
<1>1. CASE UNCHANGED uiTasks
  BY <1>1, OldUiTasks DEF UiEarned, UiTaskEarned, UiTaskEarnedNext, Earned, EarnedNext
<1>2. CASE TransmitFails
  <2>1. sending.m \in Msg
    BY <1>2, SendingNamesMsg, ScanNamesMsg DEF TransmitFails
  <2>2. [op |-> "error", m |-> sending.m] \in UiTask /\ UiTaskEarnedNext([op |-> "error", m |-> sending.m])
    BY <2>1 DEF UiTask, UiTaskEarnedNext
  <2> QED BY <1>2, <2>2, UiPostedEarned DEF TransmitFails
<1>3. CASE ShowError
  BY <1>3, UiPoppedEarned DEF ShowError, UiTaskIs
<1>4. CASE ShowAck
  BY <1>4, UiPoppedEarned DEF ShowAck, UiTaskIs
<1>5. CASE ShowLoaded
  BY <1>5, UiPoppedEarned DEF ShowLoaded, UiTaskIs
<1>6. CASE LoadRows
  <2> DEFINE t == [op |-> "loaded", rows |-> row]
  <2>1. t \in UiTask
    BY DEF UiTask, TypeOK
  <2>2. UiTaskEarnedNext(t)
    BY EarnedStays DEF UiTaskEarnedNext, EarnedInv, RowsEarned
  <2> QED BY <1>6, <2>1, <2>2, UiPostedEarned DEF LoadRows
<1>7. CASE ResendLooksFailed
  <2>1. scan.m \in Msg
    BY <1>7, SendingNamesMsg, ScanNamesMsg DEF ResendLooksFailed
  <2>2. [op |-> "error", m |-> scan.m] \in UiTask /\ UiTaskEarnedNext([op |-> "error", m |-> scan.m])
    BY <2>1 DEF UiTask, UiTaskEarnedNext
  <2> QED BY <1>7, <2>2, UiPostedEarned DEF ResendLooksFailed
<1>8. CASE ResendFails
  <2>1. scan.m \in Msg
    BY <1>8, SendingNamesMsg, ScanNamesMsg DEF ResendFails
  <2>2. [op |-> "error", m |-> scan.m] \in UiTask /\ UiTaskEarnedNext([op |-> "error", m |-> scan.m])
    BY <2>1 DEF UiTask, UiTaskEarnedNext
  <2> QED BY <1>8, <2>2, UiPostedEarned DEF ResendFails
<1>9. ASSUME NEW m \in Msg, ReceiptArrives(m) PROVE UiEarned'
  <2>1. m \in delivered'
    BY <1>9, EarnedStays DEF ReceiptArrives, EarnedInv, ReceiptsEarned
  <2>2. [op |-> "ack", m |-> m] \in UiTask /\ UiTaskEarnedNext([op |-> "ack", m |-> m])
    BY <2>1 DEF UiTask, UiTaskEarnedNext
  <2> QED BY <1>9, <2>2, UiPostedEarned DEF ReceiptArrives
<1>10. CASE Restart
  BY <1>10 DEF Restart, UiEarned
<1>11. QED
  BY <1>1, <1>2, <1>3, <1>4, <1>5, <1>6, <1>7, <1>8, <1>9, <1>10
     DEF Next, SendSteps, UiSteps, StorageSteps, SendMessage, TransmitOk,
         TransmitAborts, QueueUpdate, OpenChat, CloseChat, InsertRow, UpdateRow,
         BeginScan, ResendOk, QueueUpdates, SessionOpens, Established, ConnectionLost,
         DeleteMessage, NextUnsent, PeerReceives, ReceiptMissed, ErrorNotShown,
         ResendAborts, Killed, vars, chatVars, threadVars, netVars, peerVars

\* The storage thread's own claim.
LEMMA ScanStaysEarned == TypeOK /\ EarnedInv /\ [Next]_vars => ScanEarned'
<1> SUFFICES ASSUME TypeOK, EarnedInv, [Next]_vars PROVE ScanEarned'
  OBVIOUS
<1> USE EarnedStays
<1>1. CASE UNCHANGED scan
  BY <1>1, ScanNamesMsg DEF EarnedInv, ScanEarned, Earned, EarnedNext, TypeOK
<1>2. CASE BeginScan
  BY <1>2 DEF BeginScan, ScanEarned, Resting
<1>3. ASSUME NEW m \in Msg, NextUnsent(m) PROVE ScanEarned'
  BY <1>3 DEF NextUnsent, ScanGoesOn, ScanEarned, Resting
<1>4. CASE ResendOk
  <2>1. scan.m \in Msg /\ sends'[scan.m] > 0
    BY <1>4, ScanNamesMsg DEF ResendOk, Accepted, TypeOK
  <2> QED BY <1>4, <2>1 DEF ResendOk, ScanSent, ScanEarned, Earned
<1>5. CASE ResendLooksFailed
  <2>1. scan.m \in Msg
    BY <1>5, ScanNamesMsg DEF ResendLooksFailed, Accepted, TypeOK
  <2> QED BY <1>5, <2>1 DEF ResendLooksFailed, ScanSent, ScanEarned, Earned
<1>6. CASE ResendFails
  <2>1. scan.m \in Msg
    BY <1>6, ScanNamesMsg DEF ResendFails, Accepted, TypeOK
  <2> QED BY <1>6, <2>1 DEF ResendFails, ScanSent, ScanEarned, Earned
<1>7. CASE QueueUpdates
  BY <1>7 DEF QueueUpdates, ScanGoesOn, ScanEarned, Resting
<1>8. CASE Restart
  BY <1>8 DEF Restart, ScanEarned, Resting
<1>9. QED
  BY <1>1, <1>2, <1>3, <1>4, <1>5, <1>6, <1>7, <1>8
     DEF Next, SendSteps, UiSteps, StorageSteps, SendMessage, TransmitOk, TransmitFails,
         TransmitAborts, QueueUpdate, OpenChat, CloseChat, ShowError, ShowAck,
         ShowLoaded, InsertRow, UpdateRow, LoadRows, SessionOpens, Established,
         ConnectionLost, DeleteMessage, PeerReceives, ReceiptMissed, ReceiptArrives,
         ErrorNotShown, ResendAborts, Killed, vars, chatVars, threadVars, netVars,
         peerVars

\* The receipts.
LEMMA ReceiptsStayEarned == TypeOK /\ EarnedInv /\ [Next]_vars => ReceiptsEarned'
<1> SUFFICES ASSUME TypeOK, EarnedInv, [Next]_vars PROVE ReceiptsEarned'
  OBVIOUS
<1> USE EarnedStays
<1>1. CASE UNCHANGED receipts
  BY <1>1 DEF EarnedInv, ReceiptsEarned, Earned, EarnedNext, TypeOK
<1>2. ASSUME NEW m \in Msg, PeerReceives(m) PROVE ReceiptsEarned'
  BY <1>2 DEF PeerReceives, EarnedInv, ReceiptsEarned
<1>3. ASSUME NEW m \in Msg, ReceiptMissed(m) PROVE ReceiptsEarned'
  BY <1>3 DEF ReceiptMissed, EarnedInv, ReceiptsEarned
<1>4. ASSUME NEW m \in Msg, ReceiptArrives(m) PROVE ReceiptsEarned'
  BY <1>4 DEF ReceiptArrives, EarnedInv, ReceiptsEarned
<1>5. QED
  BY <1>1, <1>2, <1>3, <1>4
     DEF Next, SendSteps, UiSteps, StorageSteps, SendMessage, TransmitOk, TransmitFails,
         TransmitAborts, QueueUpdate, OpenChat, CloseChat, ShowError, ErrorNotShown,
         ShowAck, ShowLoaded, InsertRow, UpdateRow, LoadRows, BeginScan, ResendOk,
         ResendLooksFailed, ResendFails, ResendAborts, QueueUpdates, SessionOpens,
         Established, ConnectionLost, Killed, DeleteMessage, NextUnsent, Accepted,
         Restart, vars, chatVars, threadVars, netVars, peerVars

LEMMA EarnedHolds == Spec => []EarnedInv
<1>1. Init => EarnedInv
  BY DEF Init, EarnedInv, RowsEarned, ObjectsEarned, QueueEarned, UiEarned,
         ScanEarned, ReceiptsEarned, Earned, Resting, None
<1>2. TypeOK /\ EarnedInv /\ [Next]_vars => EarnedInv'
  BY RowsStayEarned, ObjectsStayEarned, QueueStaysEarned, UiStaysEarned,
     ScanStaysEarned, ReceiptsStayEarned DEF EarnedInv
<1> QED BY TypeCorrect, <1>1, <1>2, PTL DEF Spec

\* No row and no shown message claims what has not happened, for any number
\* of messages, losses and chats.
THEOREM StatesEarned == Spec => []StatesAreEarned
<1>1. EarnedInv => StatesAreEarned
  BY DEF EarnedInv, RowsEarned, ObjectsEarned, StatesAreEarned
<1> QED BY EarnedHolds, <1>1, PTL
-----------------------------------------------------------------------------
(***************************************************************************)
(* How often: a message may be handed over once more for every send under  *)
(* way, every scan that has it, every scan that is queued and every        *)
(* session that has yet to queue one.  Each of these is paid for by a      *)
(* login or is the first send.                                             *)
(***************************************************************************)
One(condition) == IF condition THEN 1 ELSE 0

FirstSend(m) == One(m > last \/ (sending.at = "transmit" /\ sending.m = m))
InList(m) == scan.at \in {"next", "transmit", "update"} /\ m \in scan.left
UnderWay(m) == scan.at = "transmit" /\ scan.m = m

ScansOf(queue) == {i \in DOMAIN queue : queue[i] = Scan}
ScanToCome == conn = "up" /\ ~swept

\* What the message has had and may still have, and what all may have.
Own(m) == sends[m] + FirstSend(m) + One(InList(m)) + One(UnderWay(m))
Common == Cardinality(ScansOf(storageQueue)) + One(ScanToCome)

ScansTexts ==
  /\ scan.at \in {"next", "transmit", "update"} => scan.left \subseteq Text
  /\ scan.at = "transmit" => scan.m \in Text

SendInv ==
  /\ sending.at = "transmit" => sending.m <= last
  /\ ScansTexts
  /\ \A m \in Msg \ Text : Own(m) <= 1
  /\ \A m \in Text : Own(m) + Common <= 1 + logins

\* The same after a step.
FirstSendNext(m) == One(m > last' \/ (sending'.at = "transmit" /\ sending'.m = m))
InListNext(m) == scan'.at \in {"next", "transmit", "update"} /\ m \in scan'.left
UnderWayNext(m) == scan'.at = "transmit" /\ scan'.m = m
ScanToComeNext == conn' = "up" /\ ~swept'
OwnNext(m) == sends'[m] + FirstSendNext(m) + One(InListNext(m)) + One(UnderWayNext(m))
CommonNext == Cardinality(ScansOf(storageQueue')) + One(ScanToComeNext)

\* The scans in a queue.
LEMMA ScansAreFinite ==
  ASSUME NEW q \in Seq(Task)
  PROVE  IsFiniteSet(ScansOf(q)) /\ Cardinality(ScansOf(q)) \in Nat
<1>1. IsFiniteSet(1..Len(q)) /\ ScansOf(q) \subseteq 1..Len(q)
  BY FS_Interval DEF ScansOf
<1> QED BY <1>1, FS_Subset, FS_CardinalityType

LEMMA ScansPosted ==
  ASSUME NEW q \in Seq(Task), NEW t \in Task
  PROVE  Cardinality(ScansOf(q \o <<t>>)) = Cardinality(ScansOf(q)) + One(t = Scan)
<1>1. /\ DOMAIN (q \o <<t>>) = 1..(Len(q) + 1) /\ DOMAIN q = 1..Len(q) /\ Len(q) \in Nat
      /\ \A i \in 1..Len(q) : (q \o <<t>>)[i] = q[i]
      /\ (q \o <<t>>)[Len(q) + 1] = t
  OBVIOUS
<1>2. Len(q) + 1 \notin ScansOf(q)
  BY <1>1 DEF ScansOf
<1>3. CASE t = Scan
  <2>1. ScansOf(q \o <<t>>) = ScansOf(q) \cup {Len(q) + 1}
    BY <1>1, <1>3 DEF ScansOf
  <2> QED BY <1>2, <1>3, <2>1, ScansAreFinite, FS_AddElement DEF One
<1>4. CASE t # Scan
  <2>1. ScansOf(q \o <<t>>) = ScansOf(q)
    BY <1>1, <1>4 DEF ScansOf
  <2> QED BY <1>4, <2>1, ScansAreFinite DEF One
<1> QED BY <1>3, <1>4

LEMMA TwoPosted ==
  ASSUME NEW q \in Seq(Task), NEW t \in Task \ {Scan}, NEW u \in Task \ {Scan}
  PROVE  Cardinality(ScansOf(q \o <<t, u>>)) = Cardinality(ScansOf(q))
<1>1. /\ DOMAIN (q \o <<t, u>>) = 1..(Len(q) + 2) /\ DOMAIN q = 1..Len(q) /\ Len(q) \in Nat
      /\ \A i \in 1..Len(q) : (q \o <<t, u>>)[i] = q[i]
      /\ (q \o <<t, u>>)[Len(q) + 1] = t /\ (q \o <<t, u>>)[Len(q) + 2] = u
  OBVIOUS
<1>2. ScansOf(q \o <<t, u>>) = ScansOf(q)
  BY <1>1 DEF ScansOf
<1> QED BY <1>2

LEMMA ScansTaken ==
  ASSUME NEW q \in Seq(Task), q # <<>>
  PROVE  Cardinality(ScansOf(q)) = Cardinality(ScansOf(Tail(q))) + One(Head(q) = Scan)
<1> DEFINE R == ScansOf(q)
           T == ScansOf(Tail(q))
           f == [i \in T |-> i + 1]
<1>1. /\ DOMAIN q = 1..Len(q) /\ Len(q) \in Nat /\ Len(q) > 0
      /\ DOMAIN Tail(q) = 1..(Len(q) - 1) /\ Tail(q) \in Seq(Task)
      /\ Head(q) = q[1]
      /\ \A i \in 1..(Len(q) - 1) : Tail(q)[i] = q[i + 1]
  OBVIOUS
<1>2. \A i \in 2..Len(q) : i - 1 \in 1..(Len(q) - 1) /\ q[i] = Tail(q)[i - 1]
  BY <1>1
<1>3. IsFiniteSet(R) /\ IsFiniteSet(T) /\ IsFiniteSet(R \ {1}) /\ Cardinality(R) \in Nat
  BY <1>1, ScansAreFinite, FS_RemoveElement
<1>4. \A i \in T : i \in Int /\ f[i] \in R \ {1}
  BY <1>1 DEF ScansOf
<1>5. \A i \in R \ {1} : i - 1 \in T /\ f[i - 1] = i
  BY <1>1, <1>2 DEF ScansOf
<1>6. f \in Bijection(T, R \ {1})
  <2>1. f \in [T -> R \ {1}]
    BY <1>4
  <2>2. \A i, j \in T : f[i] = f[j] => i = j
    BY <1>4
  <2>3. \A i \in R \ {1} : \E j \in T : f[j] = i
    BY <1>5
  <2> QED BY <2>1, <2>2, <2>3 DEF Bijection, Injection, Surjection, IsInjective
<1>7. Cardinality(T) = Cardinality(R \ {1})
  BY <1>3, <1>6, FS_Bijection DEF ExistsBijection
<1>8. 1 \in R <=> Head(q) = Scan
  BY <1>1 DEF ScansOf
<1>9. Cardinality(R \ {1}) = IF 1 \in R THEN Cardinality(R) - 1 ELSE Cardinality(R)
  BY <1>3, FS_RemoveElement
<1> HIDE DEF R, T
<1>10. Cardinality(R) = Cardinality(T) + One(Head(q) = Scan)
  BY <1>3, <1>7, <1>8, <1>9 DEF One
<1> QED BY <1>10 DEF R, T

\* Which tasks are scans.
LEMMA NotScans ==
  /\ \A m : Insert(m) # Scan
  /\ \A m, from : Update(m, from) # Scan
  /\ Load # Scan
  /\ \A t \in Task : t.op = "scan" <=> t = Scan
BY DEF Insert, Update, Load, Scan, Task

\* What a step does to the queue: a scan comes from a login, a load from the
\* opening of a chat, and a chat that lets go of its objects leaves both.
Row(t) == t.op \in {"insert", "update"}

Same(q, r) ==
  /\ DOMAIN r = DOMAIN q
  /\ \A i \in DOMAIN q : r[i] = q[i] \/ (Row(q[i]) /\ Row(r[i]) /\ r[i].m = q[i].m)

QueueTaken == storageQueue # <<>> /\ storageQueue' = Tail(storageQueue)

LEMMA QueueStep ==
  ASSUME TypeOK, [Next]_vars
  PROVE  \/ UNCHANGED storageQueue
         \/ QueueTaken /\ (Head(storageQueue) = Scan => BeginScan)
         \/ PostStorage(<<Scan>>) /\ Established
         \/ PostStorage(<<Load>>) /\ OpenChat
         \/ \E t \in Task : Row(t) /\ PostStorage(<<t>>)
         \/ \E t, u \in Task : Row(t) /\ Row(u) /\ PostStorage(<<t, u>>)
         \/ Same(storageQueue, storageQueue')
         \/ Restart
<1>1. /\ storageQueue \in Seq(Task)
      /\ \A m, from : Row(Insert(m)) /\ Row(Update(m, from))
  BY DEF TypeOK, Row, Insert, Update
<1>2. CASE SendMessage
  <2>1. last + 1 \in Msg
    BY <1>2, BoundsAssumption DEF TypeOK, SendMessage, Msg
  <2>2. Insert(last + 1) \in Task /\ Update(last + 1, "mine") \in Task
    BY <2>1, TasksAreTyped DEF Source
  <2> QED BY <1>1, <1>2, <2>2 DEF SendMessage
<1>3. CASE QueueUpdate
  <2>1. Update(sending.m, "mine") \in Task
    BY <1>3, SendingNamesMsg, TasksAreTyped DEF QueueUpdate, Source
  <2> QED BY <1>1, <1>3, <2>1 DEF QueueUpdate
<1>4. CASE OpenChat \/ Established
  BY <1>4 DEF OpenChat, Established
<1>5. CASE CloseChat
  <2>1. \A i \in DOMAIN storageQueue :
          \/ storageQueue'[i] = storageQueue[i]
          \/ /\ Row(storageQueue[i]) /\ Row(storageQueue'[i])
             /\ storageQueue'[i].m = storageQueue[i].m
    BY <1>5 DEF CloseChat, Row, Update
  <2>2. DOMAIN storageQueue' = DOMAIN storageQueue
    BY <1>5 DEF CloseChat
  <2> QED BY <2>1, <2>2 DEF Same
<1>6. CASE ShowLoaded
  <2>1. CASE UNCHANGED storageQueue
    BY <2>1
  <2>2. ASSUME NEW m \in Msg, chat'[m] # "no", PostStorage(<<Update(m, chat'[m])>>)
        PROVE  \E t \in Task : Row(t) /\ PostStorage(<<t>>)
    <3>1. chat'[m] \in Source
      BY <2>2, ChatTyped DEF Source
    <3>2. Update(m, chat'[m]) \in Task
      BY <3>1, TasksAreTyped
    <3> QED BY <1>1, <2>2, <3>2
  <2> QED BY <1>6, <2>1, <2>2 DEF ShowLoaded, Shown, TypeOK
<1>7. CASE InsertRow \/ UpdateRow \/ LoadRows \/ BeginScan
  <2>1. QueueTaken /\ (Head(storageQueue).op = "scan" => BeginScan)
    BY <1>7 DEF InsertRow, UpdateRow, LoadRows, BeginScan, TaskIs, QueueTaken
  <2> QED BY <2>1 DEF Scan
<1>8. CASE QueueUpdates
  <2>1. Update(scan.m, scan.state) \in Task
    BY <1>8, ScanNamesMsg, TasksAreTyped DEF QueueUpdates, Source, SendState
  <2> QED BY <1>1, <1>8, <2>1 DEF QueueUpdates
<1>9. ASSUME NEW m \in Msg, ReceiptArrives(m)
      PROVE  UNCHANGED storageQueue \/ \E t \in Task : Row(t) /\ PostStorage(<<t>>)
  <2>1. Update(m, "AKN") \in Task
    BY TasksAreTyped DEF Source, SendState
  <2> QED BY <1>1, <1>9, <2>1 DEF ReceiptArrives
<1>10. ASSUME NEW m \in Msg, DeleteMessage(m) PROVE Same(storageQueue, storageQueue')
  <2>1. \A i \in DOMAIN storageQueue :
          \/ storageQueue'[i] = storageQueue[i]
          \/ /\ Row(storageQueue[i]) /\ Row(storageQueue'[i])
             /\ storageQueue'[i].m = storageQueue[i].m
    BY <1>10 DEF DeleteMessage, MessageDeleted, Row, Update
  <2>2. DOMAIN storageQueue' = DOMAIN storageQueue
    BY <1>10 DEF DeleteMessage, MessageDeleted
  <2> QED BY <2>1, <2>2 DEF Same
<1> QED
  BY <1>2, <1>3, <1>4, <1>5, <1>6, <1>7, <1>8, <1>9, <1>10
     DEF Next, SendSteps, UiSteps, StorageSteps, TransmitOk, TransmitFails, TransmitAborts,
         ShowError, ErrorNotShown, ShowAck, ResendOk, ResendLooksFailed, ResendFails,
         ResendAborts, SessionOpens, ConnectionLost, NextUnsent, PeerReceives,
         ReceiptMissed, Killed, vars, threadVars, chatVars

\* What a step does to the connection.
LEMMA NetStep ==
  ASSUME TypeOK, [Next]_vars
  PROVE  \/ UNCHANGED <<conn, swept, logins>> /\ ~Established
         \/ Established
         \/ SessionOpens
         \/ ConnectionLost
         \/ Restart
BY DEF Next, SendSteps, UiSteps, StorageSteps, SendMessage, TransmitOk, TransmitFails,
       TransmitAborts, QueueUpdate, OpenChat, CloseChat, ShowError, ErrorNotShown, ShowAck,
       ShowLoaded, InsertRow, UpdateRow, LoadRows, BeginScan, NextUnsent, ResendOk,
       ResendLooksFailed, ResendFails, ResendAborts, QueueUpdates, DeleteMessage, PeerReceives,
       ReceiptMissed, ReceiptArrives, Killed, vars, netVars, Established

\* The scans of the queue and the sessions that have yet to post one.
LEMMA CommonStep ==
  ASSUME TypeOK, [Next]_vars
  PROVE  /\ Common \in Nat /\ CommonNext \in Nat /\ logins' \in Nat /\ logins' >= logins
         /\ CommonNext - logins' + One(BeginScan) <= Common - logins
<1> DEFINE n == Cardinality(ScansOf(storageQueue))
           n2 == Cardinality(ScansOf(storageQueue'))
<1>1. /\ storageQueue \in Seq(Task) /\ storageQueue' \in Seq(Task) /\ n \in Nat /\ n2 \in Nat
      /\ logins \in Nat
  BY StorageQueueTyped, ScansAreFinite DEF TypeOK
<1>2. /\ One(ScanToCome) \in 0..1 /\ One(ScanToComeNext) \in 0..1 /\ One(BeginScan) \in 0..1
      /\ One(Established) \in 0..1
  BY DEF One
<1>3. Common = n + One(ScanToCome) /\ CommonNext = n2 + One(ScanToComeNext)
  BY DEF Common, CommonNext
<1>4. n2 + One(BeginScan) <= n + One(Established)
  <2>1. CASE BeginScan
    <3>1. storageQueue # <<>> /\ Head(storageQueue).op = "scan" /\ storageQueue' = Tail(storageQueue)
      BY <2>1 DEF BeginScan, TaskIs
    <3>2. Head(storageQueue) \in Task
      BY <1>1, <3>1
    <3>3. Head(storageQueue) = Scan
      BY <3>1, <3>2, NotScans
    <3>4. n = n2 + 1
      BY <1>1, <3>1, <3>3, ScansTaken DEF One
    <3> QED BY <1>1, <1>2, <3>4
  <2>2. ASSUME ~BeginScan
        PROVE  n2 <= n + One(Established)
    <3>1. \A t \in Task : Row(t) => t # Scan
      BY DEF Row, Scan
    <3>2. CASE UNCHANGED storageQueue
      BY <1>1, <1>2, <3>2
    <3>3. CASE QueueTaken
      <4>1. n = n2 + One(Head(storageQueue) = Scan) /\ One(Head(storageQueue) = Scan) \in Nat
        BY <1>1, <3>3, ScansTaken DEF QueueTaken, One
      <4> QED BY <1>1, <1>2, <4>1
    <3>4. CASE PostStorage(<<Scan>>) /\ Established
      <4>1. n2 = n + 1 /\ One(Established) = 1
        BY <1>1, <3>4, ScansPosted, TasksAreTyped DEF PostStorage, One
      <4> QED BY <1>1, <4>1
    <3>5. CASE PostStorage(<<Load>>)
      <4>1. n2 = n
        BY <1>1, <3>5, ScansPosted, TasksAreTyped, NotScans DEF PostStorage, One
      <4> QED BY <1>1, <1>2, <4>1
    <3>6. ASSUME NEW t \in Task, Row(t), PostStorage(<<t>>)
          PROVE  n2 <= n + One(Established)
      <4>1. n2 = n
        BY <1>1, <3>1, <3>6, ScansPosted DEF PostStorage, One
      <4> QED BY <1>1, <1>2, <4>1
    <3>7. ASSUME NEW t \in Task, NEW u \in Task, Row(t), Row(u), PostStorage(<<t, u>>)
          PROVE  n2 <= n + One(Established)
      <4>1. n2 = n
        BY <1>1, <3>1, <3>7, TwoPosted DEF PostStorage
      <4> QED BY <1>1, <1>2, <4>1
    <3>8. CASE Same(storageQueue, storageQueue')
      <4>1. ~Row(Scan)
        BY DEF Row, Scan
      <4>2. ScansOf(storageQueue') = ScansOf(storageQueue)
        BY <3>8, <4>1 DEF Same, ScansOf
      <4> QED BY <1>1, <1>2, <4>2
    <3>9. CASE Restart
      <4>1. ScansOf(storageQueue') = {}
        BY <3>9 DEF Restart, ScansOf
      <4>2. n2 = 0
        BY <4>1, FS_EmptySet
      <4> QED BY <1>1, <1>2, <4>2
    <3> QED BY <3>2, <3>3, <3>4, <3>5, <3>6, <3>7, <3>8, <3>9, QueueStep
  <2>3. ~BeginScan => One(BeginScan) = 0
    BY DEF One
  <2> QED BY <1>1, <1>2, <2>1, <2>2, <2>3
<1>5. /\ logins' \in Nat /\ logins' >= logins
      /\ One(ScanToComeNext) + One(Established) + logins <= One(ScanToCome) + logins'
  <2>1. CASE UNCHANGED <<conn, swept, logins>> /\ ~Established
    <3>1. One(ScanToComeNext) = One(ScanToCome) /\ One(Established) = 0
      BY <2>1 DEF ScanToCome, ScanToComeNext, One
    <3> QED BY <1>1, <1>2, <2>1, <3>1
  <2>2. CASE Established
    <3>1. One(ScanToComeNext) = 0 /\ One(ScanToCome) = 1 /\ One(Established) = 1 /\ logins' = logins
      BY <2>2 DEF Established, ScanToCome, ScanToComeNext, One
    <3> QED BY <1>1, <3>1
  <2>3. CASE SessionOpens
    <3>1. One(Established) = 0 /\ logins' = logins + 1
      BY <2>3 DEF SessionOpens, Established, One
    <3> QED BY <1>1, <1>2, <3>1
  <2>4. CASE ConnectionLost \/ Restart
    <3>1. One(ScanToComeNext) = 0 /\ One(Established) = 0 /\ logins' = logins
      BY <2>4 DEF ConnectionLost, Restart, Established, ScanToComeNext, One
    <3> QED BY <1>1, <1>2, <3>1
  <2> QED BY <2>1, <2>2, <2>3, <2>4, NetStep
<1> DEFINE toCome == One(ScanToCome)
           toComeNext == One(ScanToComeNext)
           began == One(BeginScan)
           posted == One(Established)
<1> HIDE DEF n, n2, toCome, toComeNext, began, posted
<1>6. toCome \in 0..1 /\ toComeNext \in 0..1 /\ began \in 0..1 /\ posted \in 0..1
  BY <1>2 DEF toCome, toComeNext, began, posted
<1>7. /\ Common = n + toCome /\ CommonNext = n2 + toComeNext /\ n2 + began <= n + posted
      /\ toComeNext + posted + logins <= toCome + logins'
  BY <1>3, <1>4, <1>5 DEF n, n2, toCome, toComeNext, began, posted
<1>8. CommonNext - logins' + began <= Common - logins
  <2> DEFINE l == logins'
  <2>1. l \in Nat /\ toComeNext + posted + logins <= toCome + l
    BY <1>5, <1>7
  <2> HIDE DEF l
  <2>2. n2 + toComeNext - l + began <= n + toCome - logins
    BY <1>1, <1>6, <1>7, <2>1
  <2>3. Common = n + toCome /\ CommonNext = n2 + toComeNext
    BY <1>7
  <2>4. CommonNext - l + began <= Common - logins
    BY <1>1, <1>6, <2>1, <2>2, <2>3
  <2> QED BY <2>4 DEF l
<1> QED BY <1>1, <1>5, <1>6, <1>7, <1>8 DEF began

\* What a step does to the sends of one message, had and to come.
LEMMA OwnStep ==
  ASSUME TypeOK, SendInv, [Next]_vars, NEW m \in Msg
  PROVE  /\ Own(m) \in Nat /\ OwnNext(m) \in Nat /\ sends'[m] <= OwnNext(m)
         /\ OwnNext(m) <= Own(m) + One(BeginScan /\ m \in Text)
<1>1. /\ sends[m] \in Nat /\ sends'[m] \in Nat /\ last \in Nat
      /\ sending.at = "transmit" => sending.m <= last
  BY PeerTyped DEF TypeOK, SendInv
<1>2. /\ FirstSend(m) \in 0..1 /\ One(InList(m)) \in 0..1 /\ One(UnderWay(m)) \in 0..1
      /\ FirstSendNext(m) \in 0..1 /\ One(InListNext(m)) \in 0..1 /\ One(UnderWayNext(m)) \in 0..1
      /\ One(BeginScan /\ m \in Text) \in 0..1
  BY DEF One, FirstSend, FirstSendNext
<1>3. /\ Own(m) = sends[m] + FirstSend(m) + One(InList(m)) + One(UnderWay(m))
      /\ OwnNext(m) = sends'[m] + FirstSendNext(m) + One(InListNext(m)) + One(UnderWayNext(m))
  BY DEF Own, OwnNext
<1>4. SUFFICES OwnNext(m) <= Own(m) + One(BeginScan /\ m \in Text)
  BY <1>1, <1>2, <1>3
<1>5. ASSUME UNCHANGED <<last, sending>>
      PROVE  FirstSendNext(m) = FirstSend(m)
  BY <1>5 DEF FirstSend, FirstSendNext
<1>6. ASSUME UNCHANGED scan
      PROVE  One(InListNext(m)) = One(InList(m)) /\ One(UnderWayNext(m)) = One(UnderWay(m))
  BY <1>6 DEF InList, InListNext, UnderWay, UnderWayNext
<1>7. ASSUME scan' = Resting
      PROVE  One(InListNext(m)) = 0 /\ One(UnderWayNext(m)) = 0
  BY <1>7 DEF InListNext, UnderWayNext, Resting, One
<1>8. CASE UNCHANGED <<last, sending, scan, sends>>
  BY <1>1, <1>2, <1>3, <1>5, <1>6, <1>8
<1>9. CASE SendMessage
  <2>1. FirstSendNext(m) = FirstSend(m)
    BY <1>1, <1>9 DEF SendMessage, UiFree, Resting, FirstSend, FirstSendNext, One, Msg
  <2>2. UNCHANGED <<scan, sends>>
    BY <1>9 DEF SendMessage, peerVars
  <2> QED BY <1>1, <1>2, <1>3, <1>6, <2>1, <2>2
<1>10. CASE TransmitOk
  <2>1. UNCHANGED <<last, scan>> /\ sends' = [sends EXCEPT ![sending.m] = @ + 1]
        /\ sending'.at = "update" /\ sending.at = "transmit"
    BY <1>10, SendingNamesMsg DEF TransmitOk, Accepted, TypeOK, Sending, Resting
  <2>2. CASE sending.m = m
    <3>1. sends'[m] = sends[m] + 1
      BY <2>1, <2>2 DEF TypeOK
    <3>2. FirstSend(m) = 1 /\ FirstSendNext(m) = 0
      BY <1>1, <2>1, <2>2 DEF FirstSend, FirstSendNext, One, Msg
    <3> QED BY <1>1, <1>2, <1>3, <1>6, <2>1, <3>1, <3>2
  <2>3. CASE sending.m # m
    <3>1. sends'[m] = sends[m]
      BY <2>1, <2>3 DEF TypeOK
    <3>2. FirstSendNext(m) = FirstSend(m)
      BY <2>1, <2>3 DEF FirstSend, FirstSendNext, One
    <3> QED BY <1>1, <1>2, <1>3, <1>6, <2>1, <3>1, <3>2
  <2> QED BY <2>2, <2>3
<1>11. CASE TransmitFails \/ TransmitAborts \/ QueueUpdate
  <2>1. UNCHANGED <<last, scan, sends>> /\ sending'.at \in {"update", "rest"}
    BY <1>11, SendingNamesMsg
       DEF TransmitFails, TransmitAborts, QueueUpdate, peerVars, Resting, TypeOK, Sending
  <2>2. FirstSendNext(m) <= FirstSend(m)
    BY <2>1 DEF FirstSend, FirstSendNext, One
  <2> QED BY <1>1, <1>2, <1>3, <1>6, <2>1, <2>2
<1>12. CASE BeginScan
  <2>1. UNCHANGED <<last, sending, sends>> /\ scan = Resting
        /\ scan' = IF Unsent = {} THEN Resting ELSE [at |-> "next", left |-> Unsent]
    BY <1>12 DEF BeginScan, TaskIs, peerVars
  <2>2. One(InList(m)) = 0 /\ One(UnderWay(m)) = 0 /\ One(UnderWayNext(m)) = 0
    BY <2>1 DEF InList, UnderWay, UnderWayNext, Resting, One
  <2>3. One(InListNext(m)) <= One(BeginScan /\ m \in Text)
    BY <1>12, <2>1 DEF InListNext, Resting, Unsent, One
  <2> QED BY <1>1, <1>2, <1>3, <1>5, <2>1, <2>2, <2>3
<1>13. ASSUME NEW n \in Msg, NextUnsent(n)
       PROVE  OwnNext(m) <= Own(m) + One(BeginScan /\ m \in Text)
  <2>1. /\ UNCHANGED <<last, sending, sends>> /\ scan.at = "next" /\ n \in scan.left
        /\ \/ scan' = [at |-> "transmit", left |-> scan.left \ {n}, m |-> n]
           \/ scan' = [at |-> "next", left |-> scan.left \ {n}]
           \/ scan' = Resting
    BY <1>13 DEF NextUnsent, ScanGoesOn, peerVars
  <2>2. One(InListNext(m)) + One(UnderWayNext(m)) <= One(InList(m)) + One(UnderWay(m))
    <3>1. One(UnderWay(m)) = 0
      BY <2>1 DEF UnderWay, One
    <3>2. CASE m = n
      BY <2>1, <3>1, <3>2 DEF InList, InListNext, UnderWayNext, One, Resting
    <3>3. CASE m # n
      BY <2>1, <3>1, <3>3 DEF InList, InListNext, UnderWayNext, One, Resting
    <3> QED BY <3>2, <3>3
  <2> QED BY <1>1, <1>2, <1>3, <1>5, <2>1, <2>2
<1>14. CASE ResendOk \/ ResendLooksFailed \/ ResendFails
  <2>1. /\ UNCHANGED <<last, sending>> /\ scan.at = "transmit"
        /\ \/ sends' = [sends EXCEPT ![scan.m] = @ + 1]
           \/ UNCHANGED sends
        /\ scan'.at = "update" /\ scan'.left = scan.left
    BY <1>14 DEF ResendOk, ResendLooksFailed, ResendFails, Accepted, ScanSent, peerVars
  <2>2. One(InListNext(m)) = One(InList(m)) /\ One(UnderWayNext(m)) = 0
    BY <2>1 DEF InList, InListNext, UnderWayNext, One
  <2>3. sends'[m] <= sends[m] + One(UnderWay(m))
    BY <1>1, <2>1 DEF UnderWay, One, TypeOK
  <2> QED BY <1>1, <1>2, <1>3, <1>5, <2>1, <2>2, <2>3
<1>15. CASE QueueUpdates
  <2>1. /\ UNCHANGED <<last, sending, sends>> /\ scan.at = "update"
        /\ scan' = IF scan.left = {} THEN Resting ELSE [at |-> "next", left |-> scan.left]
    BY <1>15 DEF QueueUpdates, ScanGoesOn, peerVars
  <2>2. One(InListNext(m)) <= One(InList(m)) /\ One(UnderWayNext(m)) = 0
    BY <2>1 DEF InList, InListNext, UnderWayNext, One, Resting
  <2> QED BY <1>1, <1>2, <1>3, <1>5, <2>1, <2>2
<1>16. CASE Restart
  <2>1. UNCHANGED <<last, sends>> /\ sending' = Resting /\ scan' = Resting
    BY <1>16 DEF Restart
  <2>2. FirstSendNext(m) <= FirstSend(m)
    BY <2>1 DEF FirstSend, FirstSendNext, One, Resting
  <2> QED BY <1>1, <1>2, <1>3, <1>7, <2>1, <2>2
<1> QED
  BY <1>8, <1>9, <1>10, <1>11, <1>12, <1>13, <1>14, <1>15, <1>16
     DEF Next, SendSteps, UiSteps, StorageSteps, OpenChat, CloseChat, ShowError, ErrorNotShown,
         ShowAck, ShowLoaded, InsertRow, UpdateRow, LoadRows, ResendAborts, SessionOpens,
         Established, ConnectionLost, DeleteMessage, PeerReceives, ReceiptMissed, ReceiptArrives,
         Killed, vars, threadVars, netVars, peerVars

\* Only texts are in the list of a scan.
LEMMA ScansTextsStep ==
  ASSUME TypeOK, ScansTexts, [Next]_vars
  PROVE  ScansTexts'
<1>1. CASE UNCHANGED scan
  BY <1>1 DEF ScansTexts
<1>2. CASE scan' = Resting
  BY <1>2 DEF ScansTexts, Resting
<1>3. CASE BeginScan
  BY <1>3 DEF BeginScan, ScansTexts, Unsent, Resting
<1>4. ASSUME NEW n \in Msg, NextUnsent(n)
      PROVE  ScansTexts'
  BY <1>4 DEF NextUnsent, ScanGoesOn, ScansTexts, Resting
<1>5. CASE ResendOk \/ ResendLooksFailed \/ ResendFails
  BY <1>5 DEF ResendOk, ResendLooksFailed, ResendFails, ScanSent, ScansTexts
<1>6. CASE QueueUpdates
  BY <1>6 DEF QueueUpdates, ScanGoesOn, ScansTexts, Resting
<1> QED
  BY <1>1, <1>2, <1>3, <1>4, <1>5, <1>6
     DEF Next, SendSteps, UiSteps, StorageSteps, SendMessage, TransmitOk, TransmitFails,
         TransmitAborts, QueueUpdate, OpenChat, CloseChat, ShowError, ErrorNotShown, ShowAck,
         ShowLoaded, InsertRow, UpdateRow, LoadRows, ResendAborts, SessionOpens, Established,
         ConnectionLost, DeleteMessage, PeerReceives, ReceiptMissed, ReceiptArrives, Killed,
         Restart, vars, threadVars

\* sendMessage is busy with a message that has been written.
LEMMA LastWrittenStep ==
  ASSUME TypeOK, sending.at = "transmit" => sending.m <= last, [Next]_vars
  PROVE  sending'.at = "transmit" => sending'.m <= last'
<1>1. CASE UNCHANGED <<sending, last>>
  BY <1>1
<1>2. CASE SendMessage
  BY <1>2 DEF SendMessage, TypeOK
<1>3. CASE sending' = Resting
  BY <1>3 DEF Resting
<1>4. CASE TransmitOk \/ TransmitFails
  BY <1>4 DEF TransmitOk, TransmitFails, TypeOK, Sending, Resting
<1> QED
  BY <1>1, <1>2, <1>3, <1>4
     DEF Next, SendSteps, UiSteps, StorageSteps, TransmitAborts, QueueUpdate, OpenChat,
         CloseChat, ShowError, ErrorNotShown, ShowAck, ShowLoaded, InsertRow, UpdateRow,
         LoadRows, BeginScan, NextUnsent, ResendOk, ResendLooksFailed, ResendFails,
         ResendAborts, QueueUpdates, SessionOpens, Established, ConnectionLost, DeleteMessage,
         PeerReceives, ReceiptMissed, ReceiptArrives, Killed, Restart, vars, threadVars

LEMMA SendInvStep ==
  ASSUME TypeOK, SendInv, [Next]_vars
  PROVE  SendInv'
<1>1. \A m \in Msg \ Text : OwnNext(m) <= 1
  <2> SUFFICES ASSUME NEW m \in Msg \ Text
               PROVE  OwnNext(m) <= 1
    OBVIOUS
  <2>1. OwnNext(m) <= Own(m) + One(BeginScan /\ m \in Text) /\ Own(m) \in Nat /\ OwnNext(m) \in Nat
    BY OwnStep
  <2>2. One(BeginScan /\ m \in Text) = 0
    BY DEF One
  <2> QED BY <2>1, <2>2 DEF SendInv
<1>2. \A m \in Text : OwnNext(m) + CommonNext <= 1 + logins'
  <2> SUFFICES ASSUME NEW m \in Text
               PROVE  OwnNext(m) + CommonNext <= 1 + logins'
    OBVIOUS
  <2>1. m \in Msg /\ logins \in Nat
    BY BoundsAssumption DEF Msg, TypeOK
  <2>2. OwnNext(m) <= Own(m) + One(BeginScan /\ m \in Text) /\ Own(m) \in Nat /\ OwnNext(m) \in Nat
    BY <2>1, OwnStep
  <2>3. One(BeginScan /\ m \in Text) = One(BeginScan) /\ One(BeginScan) \in 0..1
    BY DEF One
  <2>4. /\ Common \in Nat /\ CommonNext \in Nat /\ logins' \in Nat
        /\ CommonNext - logins' + One(BeginScan) <= Common - logins
    BY CommonStep
  <2>5. Own(m) + Common <= 1 + logins
    BY DEF SendInv
  <2> QED BY <2>1, <2>2, <2>3, <2>4, <2>5
<1>3. ScansTexts'
  BY ScansTextsStep DEF SendInv
<1>4. sending'.at = "transmit" => sending'.m <= last'
  BY LastWrittenStep DEF SendInv
<1>5. \A m \in Msg : Own(m)' = OwnNext(m)
  BY DEF Own, OwnNext, FirstSend, FirstSendNext, InList, InListNext, UnderWay, UnderWayNext
<1>6. Common' = CommonNext
  BY DEF Common, CommonNext, ScanToCome, ScanToComeNext, ScansOf
<1>7. Text \subseteq Msg
  BY BoundsAssumption DEF Msg
<1> QED BY <1>1, <1>2, <1>3, <1>4, <1>5, <1>6, <1>7 DEF SendInv

LEMMA SendInvInit == Init => SendInv
<1> SUFFICES ASSUME Init
             PROVE  SendInv
  OBVIOUS
<1>1. ScansOf(storageQueue) = {} /\ Common = 0
  <2>1. ScansOf(storageQueue) = {}
    BY DEF Init, ScansOf
  <2>2. Cardinality(ScansOf(storageQueue)) = 0
    BY <2>1, FS_EmptySet
  <2>3. One(ScanToCome) = 0
    BY DEF Init, One, ScanToCome
  <2> QED BY <2>1, <2>2, <2>3 DEF Common
<1>2. \A m \in Msg : Own(m) = 1
  BY BoundsAssumption DEF Init, Own, FirstSend, InList, UnderWay, One, Resting, Msg
<1>3. Text \subseteq Msg
  BY BoundsAssumption DEF Msg
<1> QED BY <1>1, <1>2, <1>3 DEF SendInv, Init, ScansTexts, Resting

\* sendMessage hands a message to Smack once and the scans at most once per
\* session: every further send of a text is paid for by a login, whatever
\* states the other threads write meanwhile, and a location has none.
THEOREM ResentOnce == Spec => []ResentOncePerSession
<1>1. TypeOK /\ SendInv => ResentOncePerSession
  <2> SUFFICES ASSUME TypeOK, SendInv, NEW m \in Msg
               PROVE  sends[m] <= 1 + (IF m \in Text THEN logins ELSE 0)
    BY DEF ResentOncePerSession
  <2>1. sends[m] \in Nat /\ logins \in Nat /\ Common \in Nat
    BY ScansAreFinite DEF TypeOK, Common, One
  <2>2. Own(m) \in Nat /\ sends[m] <= Own(m)
    BY <2>1 DEF Own, FirstSend, One
  <2>3. CASE m \in Text
    BY <2>1, <2>2, <2>3 DEF SendInv
  <2>4. CASE m \notin Text
    BY <2>1, <2>2, <2>4 DEF SendInv
  <2> QED BY <2>3, <2>4
<1>2. TypeOK /\ SendInv /\ [Next]_vars => SendInv'
  BY SendInvStep
<1> QED BY TypeCorrect, SendInvInit, <1>1, <1>2, PTL DEF Spec

-----------------------------------------------------------------------------
(***************************************************************************)
(* Who sees to a text that was never handed over: the scan of the session. *)
(* It takes the rows that are SENDING when it runs, so what is queued      *)
(* behind it must not write SENDING into a row that was something else by  *)
(* then.  The tasks behind it write literals, or the state that an object  *)
(* has when they run; for each kind the invariant says why it is harmless. *)
(***************************************************************************)

\* The tasks of a queue that have none of S behind them or in their place.
Since(queue, S) ==
  {queue[i] : i \in {k \in DOMAIN queue : \A j \in DOMAIN queue : queue[j] \in S => j < k}}

Queued == Since(storageQueue, {})
SinceScan == Since(storageQueue, {Scan})
SinceLoad == Since(storageQueue, {Load})
SinceBoth == Since(storageQueue, {Scan, Load})

About(t, m) == t.op \in {"insert", "update"} /\ t.m = m
Literal(t) == t.op = "update" /\ t.from \notin {"mine", "copy"}

\* What a task will write if it runs now.
Writes(t) == IF t.op = "insert" THEN mine[t.m] ELSE StateOf(t.m, t.from)

AllSending(m) ==
  /\ row[m] \in {None, "SENDING"}
  /\ \A t \in Queued : About(t, m) => Writes(t) = "SENDING"

\* Never handed over, in a session that has queued its scan.
Fresh(m) == conn = "up" /\ swept /\ m \notin late /\ sends[m] = 0

LoadedOf(task) == task.op = "loaded"

Numbered ==
  /\ \A m \in Msg :
       row[m] # None \/ chat[m] # "no" \/ InList(m) \/ (scan.at \in {"transmit", "update"} /\ scan.m = m)
         => m <= last
  /\ \A t \in Queued : t.op \in {"insert", "update"} => t.m <= last
  /\ \A i \in DOMAIN uiTasks :
       LoadedOf(uiTasks[i]) => \A m \in Msg : uiTasks[i].rows[m] # None => m <= last

PeerHasSent == \A m \in wire \cup delivered \cup receipts : sends[m] > 0

\* A task refers to a loaded copy only while the chat shows that copy, and
\* then no task refers to the object of sendMessage.
RefsShown ==
  \A t \in Queued :
    /\ t.op = "update" /\ t.from = "copy" => chat[t.m] = "copy"
    /\ t.op \in {"insert", "update"} /\ chat[t.m] = "copy" => t.op = "update" /\ t.from # "mine"

\* Behind the scan no literal says SENDING of a message that is shown.
ShownHaveNoLiteral ==
  \A m \in Msg : chat[m] # "no" /\ Fresh(m) =>
    \A t \in SinceScan : About(t, m) /\ Literal(t) => t.from # "SENDING"

\* Behind the load of a chat only literals are written, SENDING unless the
\* message was handed over, and none behind the scan.
LoadKnows(m) ==
  /\ \A t \in SinceLoad : About(t, m) => Literal(t) /\ (sends[m] = 0 => t.from = "SENDING")
  /\ \A t \in SinceBoth : About(t, m) => ~Fresh(m)

\* All that is queued of the message is behind the load, which does not find
\* it or has not found it.
LoadMisses(m) ==
  /\ \A i, j \in DOMAIN storageQueue :
       storageQueue[j] = Load /\ About(storageQueue[i], m) => j < i
  /\ Load \in Queued => row[m] = None
  /\ \A i \in DOMAIN uiTasks : LoadedOf(uiTasks[i]) => uiTasks[i].rows[m] = None

\* A chat that waits for its load shows what was sent since it was opened,
\* which the load misses, shown still or deleted; of the rest it knows all.
LoadSeesAll ==
  /\ ~chatOpen => \A m \in Msg : chat[m] = "no"
  /\ chatOpen /\ loading =>
       \A m \in Msg : LoadMisses(m) \/ (chat[m] = "no" /\ LoadKnows(m))

OneLoad ==
  /\ \A i, j \in DOMAIN storageQueue : storageQueue[i] = Load /\ storageQueue[j] = Load => i = j
  /\ \A i \in DOMAIN uiTasks : LoadedOf(uiTasks[i]) => Load \notin Queued

\* While an object that may still be written says SENDING, so does whatever
\* is stored or about to be.
ObjectsAgree ==
  \A m \in Msg : sends[m] = 0 =>
    /\ chat[m] = "mine" /\ mine[m] = "SENDING" => AllSending(m)
    /\ chat[m] = "copy" /\ copy[m] = "SENDING" => AllSending(m)
    /\ chatOpen /\ loading /\ chat[m] = "no" =>
         \A i \in DOMAIN uiTasks :
           LoadedOf(uiTasks[i]) /\ uiTasks[i].rows[m] = "SENDING" => AllSending(m)

SenderShows ==
  sending # Resting =>
    /\ sending.m <= last
    /\ chat[sending.m] = "mine"
    /\ sends[sending.m] = 0 => mine[sending.m] = "SENDING"

Covered(m) ==
  /\ \A t \in SinceScan : About(t, m) =>
       /\ t.op = "update"
       /\ Writes(t) = "SENDING" => AllSending(m)
  /\ Scan \notin Queued /\ ~InList(m) /\ ~UnderWay(m) => row[m] # "SENDING"

ScanCovers ==
  \A m \in Text : Fresh(m) /\ ~(sending.at = "transmit" /\ sending.m = m) => Covered(m)

UnsentInv ==
  /\ Numbered /\ PeerHasSent /\ RefsShown /\ ShownHaveNoLiteral /\ LoadSeesAll
  /\ OneLoad /\ ObjectsAgree /\ SenderShows /\ ScanCovers

-----------------------------------------------------------------------------
(* Queues that grow and shrink.                                            *)

LEMMA SinceWhole ==
  ASSUME NEW q \in Seq(Task), NEW S
  PROVE  /\ Since(q, S) \subseteq Since(q, {})
         /\ Since(q, {}) = {q[i] : i \in DOMAIN q}
         /\ Since(q, {}) \subseteq Task
         /\ (\A t \in S : t \notin Since(q, {})) => Since(q, S) = Since(q, {})
BY DEF Since

LEMMA SinceBothIs ==
  ASSUME NEW q \in Seq(Task)
  PROVE  /\ Since(q, {Scan, Load}) \subseteq Since(q, {Scan})
         /\ Since(q, {Scan, Load}) \subseteq Since(q, {Load})
         /\ Load \notin Since(q, {}) => Since(q, {Scan, Load}) = Since(q, {Scan})
BY DEF Since

LEMMA SincePosted ==
  ASSUME NEW q \in Seq(Task), NEW t \in Task, NEW S
  PROVE  /\ t \in S => Since(q \o <<t>>, S) = {}
         /\ t \notin S => Since(q \o <<t>>, S) = Since(q, S) \cup {t}
<1> DEFINE r == q \o <<t>>
<1>1. /\ DOMAIN r = 1..(Len(q) + 1) /\ DOMAIN q = 1..Len(q) /\ Len(q) \in Nat
      /\ \A i \in 1..Len(q) : r[i] = q[i]
      /\ r[Len(q) + 1] = t
  OBVIOUS
<1> HIDE DEF r
<1>2. CASE t \in S
  <2>1. \A k \in DOMAIN r : ~(Len(q) + 1 < k) /\ Len(q) + 1 \in DOMAIN r
    BY <1>1
  <2>2. Since(r, S) = {}
    BY <1>1, <1>2, <2>1 DEF Since
  <2> QED BY <1>2, <2>2 DEF r
<1>3. CASE t \notin S
  <2>1. \A i \in 1..Len(q) :
          (\A j \in DOMAIN r : r[j] \in S => j < i) <=> (\A j \in DOMAIN q : q[j] \in S => j < i)
    BY <1>1, <1>3
  <2>2. \A j \in DOMAIN r : r[j] \in S => j < Len(q) + 1
    BY <1>1, <1>3
  <2>3. Since(r, S) = Since(q, S) \cup {t}
    <3>1. ASSUME NEW u \in Since(r, S)
          PROVE  u \in Since(q, S) \cup {t}
      <4>1. PICK i \in DOMAIN r : u = r[i] /\ \A j \in DOMAIN r : r[j] \in S => j < i
        BY DEF Since
      <4>2. CASE i = Len(q) + 1
        BY <1>1, <4>1, <4>2
      <4>3. CASE i # Len(q) + 1
        <5>1. i \in 1..Len(q) /\ i \in DOMAIN q /\ u = q[i]
          BY <1>1, <4>1, <4>3
        <5>2. \A j \in DOMAIN q : q[j] \in S => j < i
          BY <2>1, <4>1, <5>1
        <5> QED BY <5>1, <5>2 DEF Since
      <4> QED BY <4>2, <4>3
    <3>2. ASSUME NEW u \in Since(q, S)
          PROVE  u \in Since(r, S)
      <4>1. PICK i \in DOMAIN q : u = q[i] /\ \A j \in DOMAIN q : q[j] \in S => j < i
        BY DEF Since
      <4>2. i \in DOMAIN r /\ u = r[i] /\ \A j \in DOMAIN r : r[j] \in S => j < i
        BY <1>1, <2>1, <4>1
      <4> QED BY <4>2 DEF Since
    <3>3. t \in Since(r, S)
      <4>1. Len(q) + 1 \in DOMAIN r
        BY <1>1
      <4> QED BY <1>1, <2>2, <4>1 DEF Since
    <3> QED BY <3>1, <3>2, <3>3
  <2> QED BY <1>3, <2>3 DEF r
<1> QED BY <1>2, <1>3

LEMMA SincePostedTwo ==
  ASSUME NEW q \in Seq(Task), NEW t \in Task, NEW u \in Task, NEW S
  PROVE  Since(q \o <<t, u>>, S) \subseteq Since(q, S) \cup {t, u}
<1> DEFINE r == q \o <<t, u>>
<1>1. /\ DOMAIN r = 1..(Len(q) + 2) /\ DOMAIN q = 1..Len(q) /\ Len(q) \in Nat
      /\ \A i \in 1..Len(q) : r[i] = q[i]
      /\ r[Len(q) + 1] = t /\ r[Len(q) + 2] = u
  OBVIOUS
<1> HIDE DEF r
<1>2. ASSUME NEW v \in Since(r, S)
      PROVE  v \in Since(q, S) \cup {t, u}
  <2>1. PICK i \in DOMAIN r : v = r[i] /\ \A j \in DOMAIN r : r[j] \in S => j < i
    BY DEF Since
  <2>2. CASE i \in 1..Len(q)
    <3>1. i \in DOMAIN q /\ v = q[i] /\ \A j \in DOMAIN q : q[j] \in S => j < i
      BY <1>1, <2>1, <2>2
    <3> QED BY <3>1 DEF Since
  <2>3. CASE i \notin 1..Len(q)
    <3>1. i = Len(q) + 1 \/ i = Len(q) + 2
      BY <1>1, <2>1, <2>3
    <3> QED BY <1>1, <2>1, <3>1
  <2> QED BY <2>2, <2>3
<1> QED BY <1>2 DEF r

LEMMA SinceTaken ==
  ASSUME NEW q \in Seq(Task), q # <<>>, NEW S
  PROVE  /\ Since(Tail(q), S) \subseteq Since(q, S)
         /\ Head(q) \in Since(q, {})
         /\ Since(q, {}) = Since(Tail(q), {}) \cup {Head(q)}
<1>1. /\ DOMAIN q = 1..Len(q) /\ Len(q) \in Nat /\ Len(q) > 0
      /\ DOMAIN Tail(q) = 1..(Len(q) - 1)
      /\ Head(q) = q[1]
      /\ \A i \in 1..(Len(q) - 1) : Tail(q)[i] = q[i + 1]
  OBVIOUS
<1>2. \A i \in 2..Len(q) : i - 1 \in 1..(Len(q) - 1) /\ q[i] = Tail(q)[i - 1]
  BY <1>1
<1>3. ASSUME NEW v \in Since(Tail(q), S)
      PROVE  v \in Since(q, S)
  <2>1. PICK i \in DOMAIN Tail(q) :
          v = Tail(q)[i] /\ \A j \in DOMAIN Tail(q) : Tail(q)[j] \in S => j < i
    BY DEF Since
  <2>2. i + 1 \in DOMAIN q /\ v = q[i + 1] /\ i \in Nat \ {0}
    BY <1>1, <2>1
  <2>3. \A j \in DOMAIN q : q[j] \in S => j < i + 1
    <3> SUFFICES ASSUME NEW j \in DOMAIN q, q[j] \in S
                 PROVE  j < i + 1
      OBVIOUS
    <3>1. CASE j = 1
      BY <2>2, <3>1
    <3>2. CASE j # 1
      <4>1. j \in 2..Len(q)
        BY <1>1, <3>2
      <4>2. j - 1 \in DOMAIN Tail(q) /\ Tail(q)[j - 1] \in S
        BY <1>1, <1>2, <4>1
      <4>3. j - 1 < i
        BY <2>1, <4>2
      <4> QED BY <2>2, <4>1, <4>3
    <3> QED BY <3>1, <3>2
  <2> QED BY <2>2, <2>3 DEF Since
<1>4. Since(q, {}) = {q[i] : i \in DOMAIN q} /\ Since(Tail(q), {}) = {Tail(q)[i] : i \in DOMAIN Tail(q)}
  BY DEF Since
<1>5. 1 \in DOMAIN q /\ Head(q) \in Since(q, {})
  BY <1>1, <1>4
<1>6. \A i \in DOMAIN q : q[i] \in Since(Tail(q), {}) \cup {Head(q)}
  <2> TAKE i \in DOMAIN q
  <2>1. CASE i = 1
    BY <1>1, <2>1
  <2>2. CASE i # 1
    <3>1. i - 1 \in DOMAIN Tail(q) /\ q[i] = Tail(q)[i - 1]
      BY <1>1, <1>2, <2>2
    <3> QED BY <1>4, <3>1
  <2> QED BY <2>1, <2>2
<1>7. \A i \in DOMAIN Tail(q) : Tail(q)[i] \in Since(q, {})
  BY <1>1, <1>4
<1> QED BY <1>3, <1>4, <1>5, <1>6, <1>7

LEMMA SinceNone == \A S : Since(<<>>, S) = {}
BY DEF Since

-----------------------------------------------------------------------------
(* What a step does to a message that is not handed over.                  *)

\* The chat lets go of the object it shows for m.
LetsGo(m) == CloseChat \/ DeleteMessage(m)

\* The object sendMessage made, the copy and what the chat shows.
ShownAsBefore(m) == mine'[m] = mine[m] /\ copy'[m] = copy[m] /\ chat'[m] = chat[m]

Written(m) ==
  /\ SendMessage /\ m = last + 1
  /\ chat'[m] = "mine" /\ mine'[m] = "SENDING" /\ copy'[m] = copy[m]
  /\ sending' = [at |-> "transmit", m |-> m]

MarkedFailed(m) ==
  /\ ShowError /\ chat'[m] = chat[m] /\ chat[m] # "no"
  /\ IF chat[m] = "mine" THEN mine'[m] = "SEND_ERROR" /\ copy'[m] = copy[m]
                         ELSE copy'[m] = "SEND_ERROR" /\ mine'[m] = mine[m]

TakenFromLoad(m) ==
  /\ ShowLoaded /\ chatOpen /\ loading /\ uiTasks # <<>> /\ LoadedOf(Head(uiTasks))
  /\ chat[m] = "no" /\ chat'[m] = "copy"
  /\ copy'[m] = Head(uiTasks).rows[m] /\ mine'[m] = mine[m] /\ copy'[m] # None

LEMMA ObjectsStep ==
  ASSUME TypeOK, EarnedInv, PeerHasSent, SenderShows, [Next]_vars, NEW m \in Msg, sends'[m] = 0
  PROVE  \/ ShownAsBefore(m) \/ Written(m) \/ MarkedFailed(m) \/ TakenFromLoad(m)
         \/ LetsGo(m) /\ chat'[m] = "no" /\ mine'[m] = mine[m]
         \/ Restart
<1>1. sends[m] = 0
  BY HistoryGrows DEF TypeOK
<1>2. CASE UNCHANGED <<mine, copy, chat>>
  BY <1>2 DEF ShownAsBefore
<1>3. CASE SendMessage
  <2>1. last + 1 \in Msg
    BY <1>3, BoundsAssumption DEF TypeOK, SendMessage, Msg
  <2>2. CASE m = last + 1
    BY <1>3, <2>1, <2>2 DEF SendMessage, Written, TypeOK
  <2>3. CASE m # last + 1
    BY <1>3, <2>1, <2>3 DEF SendMessage, ShownAsBefore, TypeOK
  <2> QED BY <2>2, <2>3
<1>4. CASE TransmitOk
  <2>1. sending.m \in Msg /\ sending.m # m
    <3>1. sending.m \in Msg /\ sends' = [sends EXCEPT ![sending.m] = @ + 1]
      BY <1>4, SendingNamesMsg DEF TransmitOk, Accepted
    <3> QED BY <1>1, <3>1 DEF TypeOK
  <2> QED BY <1>4, <2>1 DEF TransmitOk, ChatWrites, ShownAsBefore, TypeOK
<1>5. CASE TransmitFails
  <2>1. sending.m = m => mine[m] = "SENDING"
    BY <1>1, <1>5 DEF TransmitFails, SenderShows, Resting
  <2>2. sending.m \in Msg
    BY <1>5, SendingNamesMsg DEF TransmitFails
  <2> QED BY <1>5, <2>1, <2>2 DEF TransmitFails, ShownAsBefore, TypeOK
<1>6. CASE CloseChat
  BY <1>6 DEF CloseChat, LetsGo
<1>7. CASE ShowError
  <2>1. Head(uiTasks).m \in Msg
    BY <1>7, UiHeadIsTyped DEF ShowError, UiTaskIs, TypeOK
  <2> QED BY <1>7, <2>1 DEF ShowError, ChatWrites, ShownAsBefore, MarkedFailed, TypeOK
<1>8. CASE ShowAck
  <2>1. Head(uiTasks).m \in Msg /\ Head(uiTasks).m \in delivered
    BY <1>8, UiHeadIsTyped, InTail DEF ShowAck, UiTaskIs, TypeOK, EarnedInv, UiEarned, UiTaskEarned
  <2>2. Head(uiTasks).m # m
    BY <1>1, <2>1 DEF PeerHasSent
  <2> QED BY <1>8, <2>1, <2>2 DEF ShowAck, ChatWrites, ShownAsBefore, TypeOK
<1>9. CASE ShowLoaded
  BY <1>9 DEF ShowLoaded, UiTaskIs, TakenFromLoad, LoadedOf, ShownAsBefore, TypeOK
<1>10. CASE ResendOk \/ ResendLooksFailed
  <2>1. scan.m \in Msg /\ scan.m # m
    <3>1. scan.m \in Msg /\ sends' = [sends EXCEPT ![scan.m] = @ + 1]
      BY <1>10, ScanNamesMsg DEF ResendOk, ResendLooksFailed, Accepted
    <3> QED BY <1>1, <3>1 DEF TypeOK
  <2> QED BY <1>10, <2>1 DEF ResendOk, ResendLooksFailed, ChatWrites, ShownAsBefore, TypeOK
<1>11. CASE Restart
  BY <1>11
<1>12. ASSUME NEW n \in Msg, DeleteMessage(n)
       PROVE  ShownAsBefore(m) \/ (LetsGo(m) /\ chat'[m] = "no" /\ mine'[m] = mine[m])
  BY <1>12 DEF DeleteMessage, MessageDeleted, LetsGo, ShownAsBefore, TypeOK
<1> QED
  BY <1>2, <1>3, <1>4, <1>5, <1>6, <1>7, <1>8, <1>9, <1>10, <1>11, <1>12
     DEF Next, SendSteps, UiSteps, StorageSteps, TransmitAborts, QueueUpdate, OpenChat,
         InsertRow, UpdateRow, LoadRows, BeginScan, ResendFails, QueueUpdates,
         SessionOpens, Established, ConnectionLost, NextUnsent,
         PeerReceives, ReceiptMissed, ReceiptArrives, ErrorNotShown, ResendAborts,
         Killed, vars, chatVars, threadVars, netVars, peerVars

\* A chat is closed if it was or has just been; it waits for its load if it
\* has just been opened or did so before.
LEMMA LoadingStep ==
  ASSUME TypeOK, [Next]_vars
  PROVE  /\ ~chatOpen' => ~chatOpen \/ CloseChat \/ Restart
         /\ chatOpen' /\ loading' => OpenChat \/ (chatOpen /\ loading)
<1>1. CASE UNCHANGED <<chatOpen, loading>>
  BY <1>1
<1>2. CASE OpenChat
  BY <1>2 DEF OpenChat
<1>3. CASE ShowLoaded
  BY <1>3 DEF ShowLoaded, TypeOK
<1>4. CASE CloseChat \/ Restart
  BY <1>4 DEF CloseChat, Restart
<1> QED
  BY <1>1, <1>2, <1>3, <1>4
     DEF Next, SendSteps, UiSteps, StorageSteps, SendMessage, TransmitOk, TransmitFails,
         TransmitAborts, QueueUpdate, ShowError, ErrorNotShown, ShowAck, InsertRow, UpdateRow,
         LoadRows, BeginScan, ResendOk, ResendLooksFailed, ResendFails, ResendAborts,
         QueueUpdates, SessionOpens, Established, ConnectionLost, DeleteMessage, NextUnsent,
         PeerReceives, ReceiptMissed, ReceiptArrives, Killed, vars, chatVars

\* The rows the chat is to be shown were queued before or are loaded now.
LEMMA LoadedStep ==
  ASSUME TypeOK, [Next]_vars, NEW i \in DOMAIN uiTasks', LoadedOf(uiTasks'[i])
  PROVE  \/ \E j \in DOMAIN uiTasks : uiTasks[j] = uiTasks'[i]
         \/ LoadRows /\ uiTasks'[i].rows = row
<1>1. uiTasks \in Seq(UiTask)
  BY DEF TypeOK
<1>2. CASE UNCHANGED uiTasks
  BY <1>2
<1>3. CASE uiTasks # <<>> /\ uiTasks' = Tail(uiTasks)
  BY <1>1, <1>3, InTail
<1>4. ASSUME NEW t \in UiTask, PostUi(t)
      PROVE  uiTasks'[i] = t \/ \E j \in DOMAIN uiTasks : uiTasks[j] = uiTasks'[i]
  BY <1>1, <1>4, InPosted DEF PostUi
<1>5. ASSUME NEW m \in Msg, PostUi([op |-> "error", m |-> m]) \/ PostUi([op |-> "ack", m |-> m])
      PROVE  \E j \in DOMAIN uiTasks : uiTasks[j] = uiTasks'[i]
  <2>1. [op |-> "error", m |-> m] \in UiTask /\ [op |-> "ack", m |-> m] \in UiTask
    BY DEF UiTask
  <2>2. /\ ~LoadedOf([op |-> "error", m |-> m]) /\ ~LoadedOf([op |-> "ack", m |-> m])
    BY DEF LoadedOf
  <2>3. uiTasks'[i] # [op |-> "error", m |-> m] /\ uiTasks'[i] # [op |-> "ack", m |-> m]
    BY <2>2
  <2> QED BY <1>4, <1>5, <2>1, <2>3
<1>6. CASE TransmitFails
  BY <1>5, <1>6, SendingNamesMsg DEF TransmitFails
<1>7. CASE ResendLooksFailed \/ ResendFails
  BY <1>5, <1>7, ScanNamesMsg DEF ResendLooksFailed, ResendFails
<1>8. ASSUME NEW m \in Msg, ReceiptArrives(m)
      PROVE  \E j \in DOMAIN uiTasks : uiTasks[j] = uiTasks'[i]
  BY <1>5, <1>8 DEF ReceiptArrives
<1>9. CASE LoadRows
  <2>1. [op |-> "loaded", rows |-> row] \in UiTask
    BY DEF UiTask, TypeOK
  <2>2. PostUi([op |-> "loaded", rows |-> row])
    BY <1>9 DEF LoadRows
  <2>3. uiTasks'[i] = [op |-> "loaded", rows |-> row] \/ \E j \in DOMAIN uiTasks : uiTasks[j] = uiTasks'[i]
    BY <1>4, <2>1, <2>2
  <2> QED BY <1>9, <2>3
<1>10. CASE Restart
  BY <1>10 DEF Restart
<1> QED
  BY <1>2, <1>3, <1>6, <1>7, <1>8, <1>9, <1>10
     DEF Next, SendSteps, UiSteps, StorageSteps, SendMessage, TransmitOk, TransmitAborts,
         QueueUpdate, OpenChat, CloseChat, ShowError, ErrorNotShown, ShowAck, ShowLoaded,
         UiTaskIs, InsertRow, UpdateRow, BeginScan, ResendOk, ResendAborts, QueueUpdates,
         SessionOpens, Established, ConnectionLost, DeleteMessage, NextUnsent, PeerReceives,
         ReceiptMissed, Killed, vars, threadVars

\* The queue with some tasks replaced, none of S among them.
LEMMA SinceReplaced ==
  ASSUME NEW q, NEW r, NEW S, DOMAIN r = DOMAIN q,
         \A i \in DOMAIN q : r[i] \in S <=> q[i] \in S, NEW t \in Since(r, S)
  PROVE  \E i \in DOMAIN q : t = r[i] /\ q[i] \in Since(q, S)
BY DEF Since

\* A task about m that a step adds.
PostedFor(t, m) ==
  \/ chat'[m] = "mine" /\ t = Update(m, "mine")
  \/ chat'[m] = "mine" /\ t = Insert(m) /\ sending' = [at |-> "transmit", m |-> m]
  \/ chat'[m] = "copy" /\ t = Update(m, "copy")
  \/ t = Update(m, "SENDING") /\ (swept' => m \in late') /\ m <= last'
  \/ t.op = "update" /\ t.from \in {"SENT", "AKN"} /\ sends'[m] > 0 /\ m <= last'

\* A task that refers to the copy a chat lets go of.
Frozen(t, m, S) ==
  /\ LetsGo(m) /\ t = Update(m, copy[m])
  /\ Update(m, "copy") \in Since(storageQueue, S)

LEMMA TasksFrom ==
  ASSUME TypeOK, EarnedInv, PeerHasSent, SenderShows, Numbered, [Next]_vars, NEW m \in Msg,
         NEW S \in SUBSET {Scan, Load}, NEW t \in Since(storageQueue', S), About(t, m)
  PROVE  t \in Since(storageQueue, S) \/ PostedFor(t, m) \/ Frozen(t, m, S)
<1>1. storageQueue \in Seq(Task) /\ last \in Nat
  BY DEF TypeOK
<1>2. \A n, from : Update(n, from).m = n /\ Update(n, from).op = "update" /\ Update(n, from).from = from
  BY DEF Update
<1>3. \A n : Insert(n).m = n
  BY DEF Insert
<1>4. t # Scan /\ t # Load
  BY DEF About, Scan, Load
<1>5. ASSUME NEW u \in Task, PostStorage(<<u>>)
      PROVE  t \in Since(storageQueue, S) \/ t = u
  BY <1>1, <1>5, SincePosted DEF PostStorage
<1>6. ASSUME NEW u \in Task, NEW v \in Task, PostStorage(<<u, v>>)
      PROVE  t \in Since(storageQueue, S) \/ t = u \/ t = v
  BY <1>1, <1>6, SincePostedTwo DEF PostStorage
<1>7. CASE UNCHANGED storageQueue
  BY <1>7
<1>8. CASE storageQueue # <<>> /\ storageQueue' = Tail(storageQueue)
  BY <1>1, <1>8, SinceTaken
<1>9. CASE SendMessage
  <2>1. last + 1 \in Msg
    BY <1>9, BoundsAssumption DEF TypeOK, SendMessage, Msg
  <2>2. Insert(last + 1) \in Task /\ Update(last + 1, "mine") \in Task
    BY <2>1, TasksAreTyped DEF Source
  <2>3. t \in Since(storageQueue, S) \/ t = Insert(last + 1) \/ t = Update(last + 1, "mine")
    BY <1>6, <1>9, <2>2 DEF SendMessage
  <2>4. t.m = m
    BY DEF About
  <2>5. t \in Since(storageQueue, S) \/ (m = last + 1 /\ t \in {Insert(m), Update(m, "mine")})
    BY <1>2, <1>3, <2>3, <2>4
  <2> QED BY <1>9, <2>1, <2>5 DEF SendMessage, PostedFor, TypeOK
<1>10. CASE QueueUpdate
  <2>1. sending.m \in Msg /\ chat[sending.m] = "mine"
    BY <1>10, SendingNamesMsg DEF QueueUpdate, SenderShows, Resting
  <2>2. Update(sending.m, "mine") \in Task
    BY <2>1, TasksAreTyped DEF Source
  <2>3. t \in Since(storageQueue, S) \/ t = Update(sending.m, "mine")
    BY <1>5, <1>10, <2>2 DEF QueueUpdate
  <2> QED BY <1>2, <1>10, <2>1, <2>3 DEF QueueUpdate, PostedFor, About, chatVars
<1>11. CASE OpenChat
  BY <1>4, <1>5, <1>11, TasksAreTyped DEF OpenChat
<1>12. CASE Established
  BY <1>4, <1>5, <1>12, TasksAreTyped DEF Established
<1>13. CASE CloseChat
  <2> DEFINE frozen(u) == IF u.op = "update" /\ u.from = "copy" THEN Update(u.m, copy[u.m]) ELSE u
  <2>1. storageQueue' = [i \in DOMAIN storageQueue |-> frozen(storageQueue[i])]
    BY <1>13 DEF CloseChat
  <2>2. \A u : (frozen(u) = Scan <=> u = Scan) /\ (frozen(u) = Load <=> u = Load)
    BY DEF Scan, Load, Update
  <2>3. \A u \in Task : frozen(u) = u \/ (u = Update(u.m, "copy") /\ frozen(u) = Update(u.m, copy[u.m]))
    BY DEF Task, Update
  <2> HIDE DEF frozen
  <2>4. \A i \in DOMAIN storageQueue : storageQueue'[i] \in S <=> storageQueue[i] \in S
    BY <2>1, <2>2
  <2>5. DOMAIN storageQueue' = DOMAIN storageQueue
    BY <2>1
  <2>6. PICK i \in DOMAIN storageQueue : t = storageQueue'[i] /\ storageQueue[i] \in Since(storageQueue, S)
    BY <2>4, <2>5, SinceReplaced
  <2>7. storageQueue[i] \in Task /\ t = frozen(storageQueue[i])
    BY <1>1, <2>1, <2>6
  <2>8. CASE t = storageQueue[i]
    BY <2>6, <2>8
  <2>9. CASE storageQueue[i] = Update(storageQueue[i].m, "copy") /\ t = Update(storageQueue[i].m, copy[storageQueue[i].m])
    <3>1. storageQueue[i].m = m
      BY <1>2, <2>9 DEF About
    <3> QED BY <1>13, <2>6, <2>9, <3>1 DEF Frozen, LetsGo
  <2> QED BY <2>3, <2>7, <2>8, <2>9
<1>14. CASE ShowLoaded
  <2>1. ASSUME NEW n \in Msg, chat'[n] # "no", PostStorage(<<Update(n, chat'[n])>>)
        PROVE  t \in Since(storageQueue, S) \/ PostedFor(t, m)
    <3>1. chat'[n] \in {"mine", "copy"}
      BY <2>1, ChatTyped
    <3>2. Update(n, chat'[n]) \in Task
      BY <3>1, TasksAreTyped DEF Source
    <3>3. t \in Since(storageQueue, S) \/ t = Update(n, chat'[n])
      BY <1>5, <2>1, <3>2
    <3> QED BY <1>2, <3>1, <3>3 DEF PostedFor, About
  <2> QED BY <1>7, <1>14, <2>1 DEF ShowLoaded, Shown, TypeOK
<1>15. CASE InsertRow \/ UpdateRow \/ LoadRows \/ BeginScan
  BY <1>8, <1>15 DEF InsertRow, UpdateRow, LoadRows, BeginScan, TaskIs
<1>16. CASE QueueUpdates
  <2>1. scan.m \in Msg /\ scan.state \in {"SENDING", "SENT"} /\ scan.m <= last /\ UNCHANGED <<last, sends>>
    BY <1>16, ScanNamesMsg DEF QueueUpdates, Numbered, peerVars
  <2>2. Update(scan.m, scan.state) \in Task
    BY <2>1, TasksAreTyped DEF Source, SendState
  <2>3. t \in Since(storageQueue, S) \/ t = Update(scan.m, scan.state)
    BY <1>6, <1>16, <2>2 DEF QueueUpdates
  <2>4. scan.state = "SENT" => sends[scan.m] > 0
    BY <1>16 DEF QueueUpdates, EarnedInv, ScanEarned, Earned
  <2>5. scan.state = "SENDING" => (swept' => scan.m \in late')
    BY <1>16 DEF QueueUpdates
  <2> QED BY <1>2, <2>1, <2>3, <2>4, <2>5 DEF PostedFor, About
<1>17. ASSUME NEW n \in Msg, ReceiptArrives(n)
       PROVE  t \in Since(storageQueue, S) \/ PostedFor(t, m)
  <2>1. CASE row[n] = None
    BY <1>7, <1>17, <2>1 DEF ReceiptArrives
  <2>2. CASE row[n] # None
    <3>1. Update(n, "AKN") \in Task
      BY TasksAreTyped DEF Source, SendState
    <3>2. t \in Since(storageQueue, S) \/ t = Update(n, "AKN")
      BY <1>5, <1>17, <2>2, <3>1 DEF ReceiptArrives
    <3>3. sends'[n] > 0 /\ n <= last'
      BY <1>17, <2>2 DEF ReceiptArrives, PeerHasSent, Numbered
    <3> QED BY <1>2, <3>2, <3>3 DEF PostedFor, About
  <2> QED BY <2>1, <2>2
<1>18. CASE Restart
  BY <1>18, SinceNone DEF Restart
<1>19. ASSUME NEW n \in Msg, DeleteMessage(n)
       PROVE  t \in Since(storageQueue, S) \/ Frozen(t, m, S)
  <2>1. /\ DOMAIN storageQueue' = DOMAIN storageQueue
        /\ \A i \in DOMAIN storageQueue :
             storageQueue'[i] = IF storageQueue[i] = Update(n, "copy")
                                THEN Update(n, copy[n]) ELSE storageQueue[i]
    BY <1>19 DEF DeleteMessage, MessageDeleted
  <2>2. \A from : Update(n, from) # Scan /\ Update(n, from) # Load
    BY DEF Scan, Load, Update
  <2>3. \A i \in DOMAIN storageQueue : storageQueue'[i] \in S <=> storageQueue[i] \in S
    BY <2>1, <2>2
  <2>4. PICK i \in DOMAIN storageQueue : t = storageQueue'[i] /\ storageQueue[i] \in Since(storageQueue, S)
    BY <2>1, <2>3, SinceReplaced
  <2>5. CASE storageQueue[i] = Update(n, "copy")
    <3>1. t = Update(n, copy[n])
      BY <2>1, <2>4, <2>5
    <3>2. n = m
      BY <1>2, <3>1 DEF About
    <3> QED BY <1>19, <2>4, <2>5, <3>1, <3>2 DEF Frozen, LetsGo
  <2>6. CASE storageQueue[i] # Update(n, "copy")
    BY <2>1, <2>4, <2>6
  <2> QED BY <2>5, <2>6
<1> QED
  BY <1>7, <1>9, <1>10, <1>11, <1>12, <1>13, <1>14, <1>15, <1>16, <1>17, <1>18, <1>19
     DEF Next, SendSteps, UiSteps, StorageSteps, TransmitOk, TransmitFails, TransmitAborts,
         ShowError, ErrorNotShown, ShowAck, ResendOk, ResendLooksFailed, ResendFails,
         ResendAborts, SessionOpens, ConnectionLost, NextUnsent, PeerReceives,
         ReceiptMissed, Killed, vars, threadVars, chatVars

\* The row of a message: deleted, or written by the task that has just run.
LEMMA RowStep ==
  ASSUME TypeOK, [Next]_vars, NEW m \in Msg
  PROVE  \/ row'[m] = row[m]
         \/ row'[m] = None
         \/ \E t \in Queued : /\ storageQueue # <<>> /\ t = Head(storageQueue)
                              /\ About(t, m)
                              /\ row'[m] = Writes(t)
                              /\ t.op = "update" => row[m] # None
<1>1. storageQueue \in Seq(Task) /\ row \in [Msg -> SendState \cup {None}]
  BY DEF TypeOK
<1>2. storageQueue # <<>> => Head(storageQueue) \in Queued
  BY <1>1, SinceTaken DEF Queued
<1>3. CASE UNCHANGED row
  BY <1>3
<1>4. ASSUME NEW n \in Msg, DeleteMessage(n)
      PROVE  row'[m] = row[m] \/ row'[m] = None
  BY <1>1, <1>4 DEF DeleteMessage
<1>5. CASE InsertRow
  BY <1>1, <1>2, <1>5 DEF InsertRow, TaskIs, About, Writes
<1>6. CASE UpdateRow
  BY <1>1, <1>2, <1>6 DEF UpdateRow, TaskIs, About, Writes
<1> QED
  BY <1>3, <1>4, <1>5, <1>6
     DEF Next, SendSteps, UiSteps, StorageSteps, SendMessage, TransmitOk, TransmitFails,
         TransmitAborts, QueueUpdate, OpenChat, CloseChat, ShowError, ErrorNotShown, ShowAck,
         ShowLoaded, LoadRows, BeginScan, ResendOk, ResendLooksFailed, ResendFails,
         ResendAborts, QueueUpdates, SessionOpens, Established, ConnectionLost, NextUnsent,
         PeerReceives, ReceiptMissed, ReceiptArrives, Restart, Killed, vars

\* A message becomes fresh only where the session queues its scan.
LEMMA FreshStep ==
  ASSUME TypeOK, [Next]_vars, NEW m \in Msg, Fresh(m)'
  PROVE  Fresh(m) \/ Established
<1>1. sends'[m] = 0 /\ sends[m] = 0
  BY HistoryGrows DEF TypeOK, Fresh
<1>2. CASE UNCHANGED <<conn, swept, late>>
  BY <1>1, <1>2 DEF Fresh
<1>3. CASE QueueUpdates
  BY <1>1, <1>3 DEF QueueUpdates, Fresh
<1>4. CASE SessionOpens \/ ConnectionLost \/ Restart
  BY <1>4 DEF SessionOpens, ConnectionLost, Restart, Fresh
<1> QED
  BY <1>2, <1>3, <1>4
     DEF Next, SendSteps, UiSteps, StorageSteps, SendMessage, TransmitOk, TransmitFails,
         TransmitAborts, QueueUpdate, OpenChat, CloseChat, ShowError, ErrorNotShown, ShowAck,
         ShowLoaded, InsertRow, UpdateRow, LoadRows, BeginScan, ResendOk, ResendLooksFailed,
         ResendFails, ResendAborts, DeleteMessage, NextUnsent, PeerReceives, ReceiptMissed,
         ReceiptArrives, Killed, vars, netVars

\* What is queued behind a scan or a load that has just been queued: nothing.
LEMMA NothingSince ==
  ASSUME TypeOK, NEW S
  PROVE  /\ Established /\ Scan \in S => Since(storageQueue', S) = {} /\ Scan \in Queued'
         /\ OpenChat /\ Load \in S => Since(storageQueue', S) = {}
<1>1. storageQueue \in Seq(Task) /\ Scan \in Task /\ Load \in Task
  BY TasksAreTyped DEF TypeOK
<1>2. Since(storageQueue \o <<Scan>>, {}) = Since(storageQueue, {}) \cup {Scan}
  BY <1>1, SincePosted
<1>3. Established \/ OpenChat => storageQueue' = storageQueue \o <<Scan>> \/ storageQueue' = storageQueue \o <<Load>>
  BY DEF Established, OpenChat, PostStorage
<1>4. Established => storageQueue' = storageQueue \o <<Scan>>
  BY DEF Established, PostStorage
<1>5. OpenChat => storageQueue' = storageQueue \o <<Load>>
  BY DEF OpenChat, PostStorage
<1> QED BY <1>1, <1>2, <1>4, <1>5, SincePosted DEF Queued

\* While the connection is up, a scan hands over what it has or keeps it.
LEMMA ScanKeeps ==
  ASSUME TypeOK, [Next]_vars, NEW m \in Msg, conn' = "up", sends'[m] = 0, InList(m) \/ UnderWay(m)
  PROVE  InListNext(m) \/ UnderWayNext(m)
<1>1. sends[m] = 0
  BY HistoryGrows DEF TypeOK
<1>2. CASE UNCHANGED scan
  BY <1>2 DEF InList, UnderWay, InListNext, UnderWayNext
<1>3. CASE BeginScan
  BY <1>3 DEF BeginScan, TaskIs, InList, UnderWay, Resting
<1>4. ASSUME NEW n \in Msg, NextUnsent(n)
      PROVE  InListNext(m) \/ UnderWayNext(m)
  BY <1>4 DEF NextUnsent, netVars, InList, UnderWay, InListNext, UnderWayNext
<1>5. CASE ResendOk \/ ResendLooksFailed
  <2>1. scan.m \in Msg /\ sends' = [sends EXCEPT ![scan.m] = @ + 1]
    BY <1>5, ScanNamesMsg DEF ResendOk, ResendLooksFailed, Accepted
  <2>2. scan.m # m
    BY <1>1, <2>1 DEF TypeOK
  <2> QED BY <1>5, <2>2 DEF ResendOk, ResendLooksFailed, ScanSent, InList, UnderWay, InListNext
<1>6. CASE ResendFails \/ Restart
  BY <1>6 DEF ResendFails, netVars, Restart
<1>7. CASE QueueUpdates
  BY <1>7 DEF QueueUpdates, ScanGoesOn, InList, UnderWay, InListNext
<1> QED
  BY <1>2, <1>3, <1>4, <1>5, <1>6, <1>7
     DEF Next, SendSteps, UiSteps, StorageSteps, SendMessage, TransmitOk, TransmitFails,
         TransmitAborts, QueueUpdate, OpenChat, CloseChat, ShowError, ErrorNotShown, ShowAck,
         ShowLoaded, InsertRow, UpdateRow, LoadRows, ResendAborts, SessionOpens, Established,
         ConnectionLost, DeleteMessage, PeerReceives, ReceiptMissed, ReceiptArrives, Killed,
         vars, threadVars

\* And sendMessage hands over what it is busy with or keeps it.
LEMMA SendKeeps ==
  ASSUME TypeOK, [Next]_vars, NEW m \in Msg, conn' = "up", sends'[m] = 0,
         sending.at = "transmit", sending.m = m
  PROVE  sending'.at = "transmit" /\ sending'.m = m
<1>1. sends[m] = 0
  <2>1. sends[m] \in Nat
    BY DEF TypeOK
  <2> QED BY <2>1, HistoryGrows
<1>2. CASE UNCHANGED sending
  BY <1>2
<1>3. CASE TransmitOk
  BY <1>1, <1>3 DEF TransmitOk, Accepted, TypeOK
<1>4. CASE SendMessage \/ QueueUpdate
  BY <1>4 DEF SendMessage, UiFree, QueueUpdate, Resting
<1>5. CASE TransmitFails \/ TransmitAborts \/ Restart
  BY <1>5 DEF TransmitFails, TransmitAborts, Restart, netVars
<1> QED
  BY <1>2, <1>3, <1>4, <1>5
     DEF Next, SendSteps, UiSteps, StorageSteps, OpenChat, CloseChat, ShowError, ErrorNotShown,
         ShowAck, ShowLoaded, InsertRow, UpdateRow, LoadRows, BeginScan, NextUnsent, ResendOk,
         ResendLooksFailed, ResendFails, ResendAborts, QueueUpdates, SessionOpens, Established,
         ConnectionLost, DeleteMessage, PeerReceives, ReceiptMissed, ReceiptArrives, Killed,
         vars, threadVars

\* Where a scan or a load in the queue comes from, and when it leaves.
LEMMA QueuedFrom ==
  ASSUME TypeOK, [Next]_vars
  PROVE  /\ Scan \in Queued /\ Scan \notin Queued' => BeginScan \/ Restart
         /\ Load \in Queued' => Load \in Queued \/ OpenChat
<1>1. storageQueue \in Seq(Task) /\ Scan \in Task /\ Load \in Task /\ Scan # Load
  BY TasksAreTyped, NotScans DEF TypeOK
<1>2. \A t : Row(t) => t # Scan /\ t # Load
  BY DEF Row, Scan, Load
<1> DEFINE Goal == /\ Scan \in Queued /\ Scan \notin Queued' => BeginScan \/ Restart
                   /\ Load \in Queued' => Load \in Queued \/ OpenChat
<1>3. CASE UNCHANGED storageQueue
  BY <1>3 DEF Queued
<1>4. CASE QueueTaken /\ (Head(storageQueue) = Scan => BeginScan)
  BY <1>1, <1>4, SinceTaken DEF QueueTaken, Queued
<1>5. CASE PostStorage(<<Scan>>)
  BY <1>1, <1>5, SincePosted DEF PostStorage, Queued
<1>6. CASE PostStorage(<<Load>>) /\ OpenChat
  BY <1>1, <1>6, SincePosted DEF PostStorage, Queued
<1>7. ASSUME NEW t \in Task, Row(t), PostStorage(<<t>>)
      PROVE  Goal
  BY <1>1, <1>2, <1>7, SincePosted DEF PostStorage, Queued
<1>8. ASSUME NEW t \in Task, NEW u \in Task, Row(t), Row(u), PostStorage(<<t, u>>)
      PROVE  Goal
  <2>1. Queued' \subseteq Queued \cup {t, u}
    BY <1>1, <1>8, SincePostedTwo DEF PostStorage, Queued
  <2>2. \A i \in DOMAIN storageQueue : i \in DOMAIN storageQueue' /\ storageQueue'[i] = storageQueue[i]
    BY <1>1, <1>8 DEF PostStorage
  <2>3. Queued \subseteq Queued'
    BY <2>2 DEF Queued, Since
  <2> QED BY <1>2, <1>8, <2>1, <2>3
<1>9. CASE Same(storageQueue, storageQueue')
  BY <1>2, <1>9 DEF Same, Queued, Since
<1>10. CASE Restart
  BY <1>10, SinceNone DEF Restart, Queued
<1> QED BY <1>3, <1>4, <1>5, <1>6, <1>7, <1>8, <1>9, <1>10, QueueStep

\* A scan that begins takes every text that is unsent.
LEMMA ScanBegins ==
  ASSUME TypeOK, BeginScan, NEW m \in Text, row'[m] = "SENDING"
  PROVE  InListNext(m)
<1>1. m \in Unsent /\ scan' = [at |-> "next", left |-> Unsent]
  BY DEF BeginScan, Unsent
<1> QED BY <1>1 DEF InListNext

-----------------------------------------------------------------------------
(* Each part of the invariant after a step.                                *)

LEMMA PeerHasSentStep ==
  ASSUME TypeOK, PeerHasSent, [Next]_vars
  PROVE  PeerHasSent'
<1> DEFINE held == wire \cup delivered \cup receipts
<1>1. /\ \A m \in Msg : sends[m] > 0 => sends'[m] > 0
      /\ held \subseteq Msg /\ sends \in [Msg -> Nat]
  BY HistoryGrows DEF TypeOK
<1>2. ASSUME held' \subseteq held
      PROVE  PeerHasSent'
  BY <1>1, <1>2 DEF PeerHasSent
<1>3. ASSUME NEW m \in Msg, Accepted(m)
      PROVE  PeerHasSent'
  <2>1. held' = held \cup {m} /\ sends'[m] > 0
    BY <1>1, <1>3 DEF Accepted
  <2> QED BY <1>1, <2>1 DEF PeerHasSent
<1>4. CASE TransmitOk \/ ResendOk \/ ResendLooksFailed
  BY <1>3, <1>4, SendingNamesMsg, ScanNamesMsg DEF TransmitOk, ResendOk, ResendLooksFailed
<1>5. CASE ConnectionLost \/ Restart
  BY <1>2, <1>5 DEF ConnectionLost, Restart
<1>6. ASSUME NEW m \in Msg, PeerReceives(m) \/ ReceiptMissed(m) \/ ReceiptArrives(m)
      PROVE  PeerHasSent'
  BY <1>2, <1>6 DEF PeerReceives, ReceiptMissed, ReceiptArrives
<1>7. CASE UNCHANGED peerVars
  BY <1>2, <1>7 DEF peerVars
<1> QED
  BY <1>4, <1>5, <1>6, <1>7
     DEF Next, SendSteps, UiSteps, StorageSteps, SendMessage, TransmitFails, TransmitAborts,
         QueueUpdate, OpenChat, CloseChat, ShowError, ErrorNotShown, ShowAck, ShowLoaded,
         InsertRow, UpdateRow, LoadRows, BeginScan, NextUnsent, ResendFails, ResendAborts,
         QueueUpdates, SessionOpens, Established, DeleteMessage, Killed, vars

LEMMA SenderShowsStep ==
  ASSUME TypeOK, EarnedInv, PeerHasSent, SenderShows, [Next]_vars
  PROVE  SenderShows'
<1>1. last \in Nat /\ (sending # Resting => sending.m \in Msg)
  BY DEF TypeOK, Sending
<1>2. CASE sending' = Resting
  BY <1>2 DEF SenderShows
<1>3. CASE SendMessage
  <2>1. last + 1 \in Msg
    BY <1>3, BoundsAssumption DEF TypeOK, SendMessage, Msg
  <2> QED BY <1>3, <2>1 DEF SendMessage, SenderShows, TypeOK
<1>4. CASE sending # Resting /\ sending' # Resting
  <2>1. sending'.m = sending.m /\ last' = last /\ UNCHANGED chat
    BY <1>4
       DEF Next, SendSteps, UiSteps, StorageSteps, SendMessage, TransmitOk, TransmitFails,
           TransmitAborts, QueueUpdate, OpenChat, CloseChat, ShowError, ErrorNotShown, ShowAck,
           ShowLoaded, UiFree, UiTaskIs, InsertRow, UpdateRow, LoadRows, BeginScan, NextUnsent,
           ResendOk, ResendLooksFailed, ResendFails, ResendAborts, QueueUpdates, SessionOpens,
           Established, ConnectionLost, DeleteMessage, PeerReceives, ReceiptMissed,
           ReceiptArrives, Killed, Restart, vars, threadVars, chatVars, TypeOK, Sending
  <2>2. CASE sends'[sending.m] # 0
    BY <1>4, <2>1, <2>2 DEF SenderShows
  <2>3. CASE sends'[sending.m] = 0
    <3>1. sends[sending.m] = 0
      <4>1. sending.m \in Msg /\ sends[sending.m] \in Nat
        BY <1>1, <1>4 DEF TypeOK
      <4> QED BY <2>3, <4>1, HistoryGrows
    <3>2. ShownAsBefore(sending.m)
      BY <1>1, <1>4, <2>3, ObjectsStep
         DEF Written, MarkedFailed, TakenFromLoad, SendMessage, ShowError, ShowLoaded, LetsGo,
             CloseChat, DeleteMessage, MessageDeleted, Restart, UiFree, UiTaskIs
    <3> QED BY <1>4, <2>1, <3>1, <3>2 DEF SenderShows, ShownAsBefore
  <2> QED BY <2>2, <2>3
<1>5. CASE sending = Resting /\ sending' # Resting
  <2>1. sending.at = "rest"
    BY <1>5 DEF Resting
  <2>2. SendMessage
    BY <1>5, <2>1
       DEF Next, SendSteps, UiSteps, StorageSteps, TransmitOk, TransmitFails, TransmitAborts,
           QueueUpdate, OpenChat, CloseChat, ShowError, ErrorNotShown, ShowAck, ShowLoaded,
           InsertRow, UpdateRow, LoadRows, BeginScan, NextUnsent, ResendOk, ResendLooksFailed,
           ResendFails, ResendAborts, QueueUpdates, SessionOpens, Established, ConnectionLost,
           DeleteMessage, PeerReceives, ReceiptMissed, ReceiptArrives, Killed, Restart, vars,
           threadVars
  <2> QED BY <1>3, <2>2
<1> QED BY <1>2, <1>4, <1>5

LEMMA NumberedStep ==
  ASSUME TypeOK, EarnedInv, PeerHasSent, SenderShows, Numbered, [Next]_vars
  PROVE  Numbered'
<1>1. storageQueue \in Seq(Task) /\ storageQueue' \in Seq(Task) /\ last \in Nat /\ last' \in Nat /\ last' >= last
  <2>1. last' = last \/ SendMessage
    BY DEF Next, SendSteps, UiSteps, StorageSteps, TransmitOk, TransmitFails, TransmitAborts,
         QueueUpdate, OpenChat, CloseChat, ShowError, ErrorNotShown, ShowAck, ShowLoaded,
         InsertRow, UpdateRow, LoadRows, BeginScan, NextUnsent, ResendOk, ResendLooksFailed,
         ResendFails, ResendAborts, QueueUpdates, SessionOpens, Established, ConnectionLost,
         DeleteMessage, PeerReceives, ReceiptMissed, ReceiptArrives, Killed, Restart, vars
  <2> QED BY <2>1, StorageQueueTyped, RowTyped DEF TypeOK, SendMessage
<1>2. Queued \subseteq Task /\ Queued' \subseteq Task
  BY <1>1, SinceWhole DEF Queued
<1>3. ASSUME NEW m \in Msg, row'[m] # None
      PROVE  m <= last'
  <2>1. row[m] # None => m <= last
    BY DEF Numbered
  <2>2. (\E t \in Queued : About(t, m)) => m <= last
    BY DEF Numbered, About
  <2> QED BY <1>1, <1>3, <2>1, <2>2, RowStep DEF Msg
<1>4. ASSUME NEW m \in Msg, chat'[m] # "no"
      PROVE  m <= last'
  <2>1. CASE UNCHANGED chat
    BY <1>1, <1>4, <2>1 DEF Numbered, Msg
  <2>2. CASE SendMessage
    <3>1. last' = last + 1 /\ chat' = [chat EXCEPT ![last + 1] = "mine"]
      BY <2>2 DEF SendMessage
    <3>2. CASE m = last + 1
      BY <1>1, <3>1, <3>2
    <3>3. CASE m # last + 1
      <4>1. chat'[m] = chat[m]
        BY <3>1, <3>3 DEF TypeOK
      <4>2. m <= last
        BY <1>4, <4>1 DEF Numbered
      <4> QED BY <1>1, <4>2 DEF Msg
    <3> QED BY <3>2, <3>3
  <2>3. CASE ShowLoaded
    <3>1. uiTasks # <<>> /\ Head(uiTasks).op = "loaded" /\ Head(uiTasks) = uiTasks[1] /\ 1 \in DOMAIN uiTasks
      BY <2>3, InTail DEF ShowLoaded, UiTaskIs, TypeOK
    <3>2. Head(uiTasks).rows[m] # None => m <= last
      BY <3>1 DEF Numbered, LoadedOf
    <3> QED BY <1>1, <1>4, <2>3, <3>2 DEF ShowLoaded, Numbered, Msg
  <2>4. CASE CloseChat \/ Restart
    BY <1>4, <2>4 DEF CloseChat, Restart
  <2>5. ASSUME NEW n \in Msg, DeleteMessage(n)
        PROVE  m <= last'
    BY <1>1, <1>4, <2>5 DEF DeleteMessage, MessageDeleted, Numbered, Msg, TypeOK
  <2> QED
    BY <2>1, <2>2, <2>3, <2>4, <2>5
       DEF Next, SendSteps, UiSteps, StorageSteps, TransmitOk, TransmitFails, TransmitAborts,
           QueueUpdate, OpenChat, ShowError, ErrorNotShown, ShowAck, InsertRow, UpdateRow,
           LoadRows, BeginScan, NextUnsent, ResendOk, ResendLooksFailed, ResendFails,
           ResendAborts, QueueUpdates, SessionOpens, Established, ConnectionLost, DeleteMessage,
           PeerReceives, ReceiptMissed, ReceiptArrives, Killed, vars, chatVars
<1>5. ASSUME NEW m \in Msg, InListNext(m) \/ (scan'.at \in {"transmit", "update"} /\ scan'.m = m)
      PROVE  m <= last'
  <2>1. CASE UNCHANGED scan
    BY <1>1, <1>5, <2>1 DEF InList, InListNext, Numbered, Msg
  <2>2. CASE BeginScan
    BY <1>1, <1>5, <2>2 DEF BeginScan, Unsent, Resting, InListNext, Numbered, Msg, None
  <2>3. ASSUME NEW n \in Msg, NextUnsent(n)
        PROVE  m <= last'
    BY <1>1, <1>5, <2>3 DEF NextUnsent, ScanGoesOn, Resting, InList, InListNext, Numbered, Msg
  <2>4. CASE ResendOk \/ ResendLooksFailed \/ ResendFails
    BY <1>1, <1>5, <2>4
       DEF ResendOk, ResendLooksFailed, ResendFails, ScanSent, InList, InListNext, Numbered, Msg
  <2>5. CASE QueueUpdates
    BY <1>1, <1>5, <2>5 DEF QueueUpdates, ScanGoesOn, Resting, InList, InListNext, Numbered, Msg
  <2>6. CASE Restart
    BY <1>5, <2>6 DEF Restart, Resting, InListNext
  <2> QED
    BY <2>1, <2>2, <2>3, <2>4, <2>5, <2>6
       DEF Next, SendSteps, UiSteps, StorageSteps, SendMessage, TransmitOk, TransmitFails,
           TransmitAborts, QueueUpdate, OpenChat, CloseChat, ShowError, ErrorNotShown, ShowAck,
           ShowLoaded, InsertRow, UpdateRow, LoadRows, ResendAborts, SessionOpens, Established,
           ConnectionLost, DeleteMessage, PeerReceives, ReceiptMissed, ReceiptArrives, Killed,
           vars, threadVars
<1>6. ASSUME NEW t \in Queued', t.op \in {"insert", "update"}
      PROVE  t.m <= last'
  <2> DEFINE m == t.m
  <2>1. m \in Msg /\ About(t, m)
    BY <1>2, <1>6 DEF Task, About
  <2>2. {} \in SUBSET {Scan, Load}
    OBVIOUS
  <2>3. t \in Queued \/ PostedFor(t, m) \/ Frozen(t, m, {})
    BY <1>6, <2>1, <2>2, TasksFrom DEF Queued
  <2>4. CASE t \in Queued
    BY <1>1, <1>6, <2>1, <2>4 DEF Numbered, Msg
  <2>5. CASE PostedFor(t, m)
    BY <1>4, <2>1, <2>5 DEF PostedFor
  <2>6. CASE Frozen(t, m, {})
    <3>1. Update(m, "copy") \in Queued /\ Update(m, "copy").op = "update" /\ Update(m, "copy").m = m
      BY <2>6 DEF Frozen, Queued, Update
    <3> QED BY <1>1, <2>1, <3>1 DEF Numbered, Msg
  <2> QED BY <2>3, <2>4, <2>5, <2>6
<1>7. ASSUME NEW i \in DOMAIN uiTasks', LoadedOf(uiTasks'[i]), NEW m \in Msg, uiTasks'[i].rows[m] # None
      PROVE  m <= last'
  <2>1. CASE \E j \in DOMAIN uiTasks : uiTasks[j] = uiTasks'[i]
    BY <1>1, <1>7, <2>1 DEF Numbered, Msg
  <2>2. CASE uiTasks'[i].rows = row
    BY <1>1, <1>7, <2>2 DEF Numbered, Msg
  <2> QED BY <1>7, <2>1, <2>2, LoadedStep
<1> QED BY <1>3, <1>4, <1>5, <1>6, <1>7 DEF Numbered, InList, InListNext

LEMMA OneLoadStep ==
  ASSUME TypeOK, OneLoad, [Next]_vars
  PROVE  OneLoad'
<1> DEFINE q == storageQueue
           r == storageQueue'
           Alone(s) == \A i, j \in DOMAIN s : s[i] = Load /\ s[j] = Load => i = j
<1>1. q \in Seq(Task) /\ uiTasks \in Seq(UiTask) /\ Scan \in Task /\ Load \in Task /\ Scan # Load
  BY TasksAreTyped, NotScans DEF TypeOK
<1>2. \A t : Row(t) => t # Scan /\ t # Load
  BY DEF Row, Scan, Load
<1>3. Alone(q)
  BY DEF OneLoad
<1>4. Alone(r)
  <2>1. CASE UNCHANGED storageQueue
    BY <1>3, <2>1
  <2>2. CASE QueueTaken
    BY <1>1, <1>3, <2>2, InTail DEF QueueTaken
  <2>3. ASSUME NEW t \in Task, t # Load, PostStorage(<<t>>)
        PROVE  Alone(r)
    BY <1>1, <1>3, <2>3, InPosted DEF PostStorage
  <2>4. CASE PostStorage(<<Load>>) /\ OpenChat
    <3>1. \A i \in DOMAIN q : q[i] # Load
      BY <2>4 DEF OpenChat
    <3>2. DOMAIN r = DOMAIN q \cup {Len(q) + 1} /\ \A i \in DOMAIN q : r[i] = q[i]
      BY <1>1, <2>4 DEF PostStorage
    <3> QED BY <3>1, <3>2
  <2>5. ASSUME NEW t \in Task, NEW u \in Task, Row(t), Row(u), PostStorage(<<t, u>>)
        PROVE  Alone(r)
    <3>1. r = q \o <<t, u>> /\ t # Load /\ u # Load
      BY <1>2, <2>5 DEF PostStorage
    <3> QED BY <1>1, <1>3, <3>1, InPosted
  <2>6. CASE Same(q, r)
    BY <1>2, <1>3, <2>6 DEF Same
  <2>7. CASE Restart
    BY <2>7 DEF Restart
  <2> HIDE DEF Alone
  <2> QED BY <1>1, <1>2, <2>1, <2>2, <2>3, <2>4, <2>5, <2>6, <2>7, QueueStep
<1>5. ASSUME NEW i \in DOMAIN uiTasks', LoadedOf(uiTasks'[i])
      PROVE  Load \notin Queued'
  <2>1. CASE \E j \in DOMAIN uiTasks : uiTasks[j] = uiTasks'[i]
    <3>1. Load \notin Queued
      BY <1>5, <2>1 DEF OneLoad
    <3>2. ~OpenChat
      BY <1>5, <2>1 DEF OpenChat, LoadedOf
    <3> QED BY <3>1, <3>2, QueuedFrom
  <2>2. CASE LoadRows
    <3>1. q # <<>> /\ Head(q).op = "load" /\ r = Tail(q)
      BY <2>2 DEF LoadRows, TaskIs
    <3>2. Head(q) \in Task /\ Head(q) = q[1] /\ 1 \in DOMAIN q
      BY <1>1, <3>1, InTail
    <3>3. Head(q) = Load
      BY <3>1, <3>2 DEF Task, Load
    <3>4. \A k \in DOMAIN r : k + 1 \in DOMAIN q /\ k + 1 # 1 /\ r[k] = q[k + 1]
      BY <1>1, <3>1, InTail
    <3>5. \A k \in DOMAIN r : r[k] # Load
      BY <1>3, <3>2, <3>3, <3>4
    <3> QED BY <3>5 DEF Queued, Since
  <2> QED BY <1>5, <2>1, <2>2, LoadedStep
<1> QED BY <1>4, <1>5 DEF OneLoad

\* What the chat shows.
LEMMA ChatStep ==
  ASSUME TypeOK, [Next]_vars, NEW m \in Msg
  PROVE  \/ chat'[m] = chat[m] /\ ~LetsGo(m)
         \/ chat'[m] = "mine" /\ SendMessage /\ m = last + 1
         \/ chat'[m] = "no" /\ (LetsGo(m) \/ Restart)
         \/ /\ chat[m] = "no" /\ chat'[m] = "copy"
            /\ ShowLoaded /\ chatOpen /\ loading /\ ~loading'
            /\ uiTasks # <<>> /\ LoadedOf(Head(uiTasks)) /\ Head(uiTasks).rows[m] # None
<1>1. CASE LetsGo(m) \/ Restart
  BY <1>1 DEF LetsGo, DeleteMessage, MessageDeleted, CloseChat, Restart, TypeOK
<1>2. CASE SendMessage
  BY <1>1, <1>2 DEF SendMessage, TypeOK
<1>3. CASE ShowLoaded
  BY <1>1, <1>3 DEF ShowLoaded, UiTaskIs, LoadedOf, TypeOK
<1>4. CASE UNCHANGED chat
  BY <1>1, <1>4
<1>5. ASSUME NEW n \in Msg, DeleteMessage(n)
      PROVE  LetsGo(m) \/ (chat'[m] = chat[m] /\ ~LetsGo(m))
  BY <1>5 DEF LetsGo, DeleteMessage, MessageDeleted, CloseChat, TypeOK
<1>6. CASE CloseChat
  BY <1>1, <1>6 DEF LetsGo
<1> QED
  BY <1>1, <1>2, <1>3, <1>4, <1>5, <1>6
     DEF Next, SendSteps, UiSteps, StorageSteps, TransmitOk, TransmitFails, TransmitAborts,
         QueueUpdate, OpenChat, ShowError, ErrorNotShown, ShowAck, InsertRow, UpdateRow,
         LoadRows, BeginScan, NextUnsent, ResendOk, ResendLooksFailed, ResendFails,
         ResendAborts, QueueUpdates, SessionOpens, Established, ConnectionLost,
         PeerReceives, ReceiptMissed, ReceiptArrives, Killed, vars, chatVars

\* When a load waits to be shown, everything queued is behind it.
LEMMA LoadIsPast ==
  ASSUME TypeOK, OneLoad, NEW i \in DOMAIN uiTasks, LoadedOf(uiTasks[i])
  PROVE  SinceLoad = Queued /\ SinceBoth = SinceScan
<1>1. storageQueue \in Seq(Task) /\ Load \notin Queued
  BY DEF TypeOK, OneLoad
<1> QED BY <1>1, SinceWhole, SinceBothIs DEF Queued, SinceLoad, SinceBoth, SinceScan

LEMMA HeadWaits ==
  ASSUME TypeOK, uiTasks # <<>>
  PROVE  1 \in DOMAIN uiTasks /\ Head(uiTasks) = uiTasks[1]
BY InTail DEF TypeOK

\* The tasks of a queue, and what those that name a message name.
LEMMA QueuedTyped ==
  ASSUME TypeOK, [Next]_vars, NEW S
  PROVE  /\ Since(storageQueue, S) \subseteq Task /\ Since(storageQueue', S) \subseteq Task
         /\ Since(storageQueue, S) \subseteq Queued /\ Since(storageQueue', S) \subseteq Queued'
         /\ \A t \in Task : t.op \in {"insert", "update"} => t.m \in Msg /\ About(t, t.m)
BY StorageQueueTyped, SinceWhole DEF TypeOK, Queued, Task, About

\* What the load brings it knows all about.
LEMMA LoadBrings ==
  ASSUME TypeOK, LoadSeesAll, chatOpen, loading, NEW m \in Msg,
         NEW i \in DOMAIN uiTasks, LoadedOf(uiTasks[i]), uiTasks[i].rows[m] # None
  PROVE  chat[m] = "no" /\ LoadKnows(m)
<1>1. ~LoadMisses(m)
  BY DEF LoadMisses
<1> QED BY <1>1 DEF LoadSeesAll

LEMMA RefsShownStep ==
  ASSUME TypeOK, EarnedInv, PeerHasSent, SenderShows, Numbered, RefsShown, LoadSeesAll, OneLoad,
         [Next]_vars
  PROVE  RefsShown'
<1>1. SUFFICES ASSUME NEW t \in Queued', t.op \in {"insert", "update"}
               PROVE  /\ t.op = "update" /\ t.from = "copy" => chat'[t.m] = "copy"
                      /\ chat'[t.m] = "copy" => t.op = "update" /\ t.from # "mine"
  BY DEF RefsShown
<1> DEFINE m == t.m
<1>2. t \in Task /\ m \in Msg /\ About(t, m) /\ last \in Nat
  BY <1>1, QueuedTyped DEF Queued, TypeOK
<1>3. chat'[m] \in {"no", "mine", "copy"} /\ copy[m] \in SendState \cup {None}
  BY <1>2, ChatTyped DEF TypeOK
<1>4. CASE Restart
  BY <1>1, <1>4, SinceNone DEF Restart, Queued
<1>5. CASE CloseChat
  <2>1. chat'[m] = "no"
    BY <1>2, <1>5 DEF CloseChat
  <2>2. PICK i \in DOMAIN storageQueue : t = storageQueue'[i]
    BY <1>5 DEF CloseChat, Queued, Since
  <2>3. storageQueue[i] \in Task
    BY <2>2 DEF TypeOK
  <2>4. storageQueue[i].op = "update" => copy[storageQueue[i].m] # "copy"
    BY <2>3 DEF Task, TypeOK, SendState, None
  <2>5. ~(t.op = "update" /\ t.from = "copy")
    BY <1>5, <2>2, <2>4 DEF CloseChat, Update
  <2> QED BY <2>1, <2>5
<1>6. CASE t \in Queued /\ ~LetsGo(m) /\ ~Restart
  <2>1. /\ t.op = "update" /\ t.from = "copy" => chat[m] = "copy"
        /\ chat[m] = "copy" => t.op = "update" /\ t.from # "mine"
        /\ m <= last
    BY <1>1, <1>6 DEF RefsShown, Numbered
  <2>2. CASE chat'[m] = chat[m]
    BY <2>1, <2>2
  <2>3. CASE m = last + 1
    BY <1>2, <2>1, <2>3
  <2>4. CASE /\ chat[m] = "no" /\ chat'[m] = "copy" /\ chatOpen /\ loading
             /\ uiTasks # <<>> /\ LoadedOf(Head(uiTasks)) /\ Head(uiTasks).rows[m] # None
    <3>1. t \in SinceLoad
      BY <1>6, <2>4, HeadWaits, LoadIsPast
    <3>2. LoadKnows(m)
      BY <1>2, <2>4, HeadWaits, LoadBrings
    <3> QED BY <1>2, <2>1, <2>4, <3>1, <3>2 DEF LoadKnows, Literal
  <2> QED BY <1>2, <1>6, <2>2, <2>3, <2>4, ChatStep
<1>7. CASE PostedFor(t, m)
  BY <1>3, <1>7 DEF PostedFor, Update, Insert
<1>8. CASE DeleteMessage(m)
  <2>1. chat'[m] = "no"
    BY <1>2, <1>8 DEF DeleteMessage, MessageDeleted, TypeOK
  <2>2. PICK i \in DOMAIN storageQueue : t = storageQueue'[i]
    BY <1>8 DEF DeleteMessage, MessageDeleted, Queued, Since
  <2>3. t = IF storageQueue[i] = Update(m, "copy") THEN Update(m, copy[m]) ELSE storageQueue[i]
    BY <1>8, <2>2 DEF DeleteMessage, MessageDeleted
  <2>4. copy[m] # "copy"
    BY <1>3 DEF SendState, None
  <2>5. t # Update(m, "copy")
    BY <2>3, <2>4 DEF Update
  <2>6. ~(t.op = "update" /\ t.from = "copy")
    BY <1>2, <2>5 DEF Task, Update
  <2> QED BY <2>1, <2>6
<1> QED
  <2>1. t \in Queued \/ PostedFor(t, m) \/ Frozen(t, m, {})
    BY <1>1, <1>2, TasksFrom DEF Queued
  <2> QED BY <1>4, <1>5, <1>6, <1>7, <1>8, <2>1 DEF Frozen, LetsGo

LEMMA ShownHaveNoLiteralStep ==
  ASSUME TypeOK, EarnedInv, PeerHasSent, SenderShows, Numbered, LoadSeesAll, OneLoad,
         ShownHaveNoLiteral, [Next]_vars
  PROVE  ShownHaveNoLiteral'
<1>1. SUFFICES ASSUME NEW m \in Msg, chat'[m] # "no", Fresh(m)',
                      NEW t \in SinceScan', About(t, m), Literal(t)
               PROVE  t.from # "SENDING"
  BY DEF ShownHaveNoLiteral
<1>2. last \in Nat
  BY DEF TypeOK
<1>3. ~Established
  BY <1>1, NothingSince DEF SinceScan
<1>4. Fresh(m)
  BY <1>1, <1>3, FreshStep
<1>5. CASE PostedFor(t, m)
  BY <1>1, <1>5 DEF PostedFor, Literal, Fresh, Update, Insert
<1>6. CASE LetsGo(m) \/ Restart
  BY <1>1, <1>6 DEF LetsGo, DeleteMessage, MessageDeleted, CloseChat, Restart, TypeOK
<1>7. CASE t \in SinceScan
  <2>1. m <= last
    <3>1. t \in Queued
      BY <1>7, QueuedTyped DEF SinceScan
    <3> QED BY <1>1, <3>1 DEF Numbered, About
  <2>2. CASE chat'[m] = chat[m]
    BY <1>1, <1>4, <1>7, <2>2 DEF ShownHaveNoLiteral
  <2>3. CASE m = last + 1
    BY <1>2, <2>1, <2>3
  <2>4. CASE /\ chat[m] = "no" /\ chat'[m] = "copy" /\ chatOpen /\ loading
             /\ uiTasks # <<>> /\ LoadedOf(Head(uiTasks)) /\ Head(uiTasks).rows[m] # None
    <3>1. t \in SinceBoth
      BY <1>7, <2>4, HeadWaits, LoadIsPast
    <3>2. LoadKnows(m)
      BY <1>1, <2>4, HeadWaits, LoadBrings
    <3> QED BY <1>1, <1>4, <3>1, <3>2 DEF LoadKnows
  <2> QED BY <1>1, <1>6, <2>2, <2>3, <2>4, ChatStep
<1> QED
  <2>1. t \in SinceScan \/ PostedFor(t, m) \/ Frozen(t, m, {Scan})
    BY <1>1, TasksFrom DEF SinceScan
  <2> QED BY <1>5, <1>6, <1>7, <2>1 DEF Frozen

\* What the load misses it goes on missing.
LEMMA LoadMissesStep ==
  ASSUME TypeOK, OneLoad, [Next]_vars, ~OpenChat, ~Restart, NEW m \in Msg, LoadMisses(m)
  PROVE  LoadMisses(m)'
<1> DEFINE q == storageQueue
           r == storageQueue'
           Behind(s) == \A i, j \in DOMAIN s : s[j] = Load /\ About(s[i], m) => j < i
<1>1. q \in Seq(Task) /\ Scan \in Task /\ Scan # Load
  BY TasksAreTyped, NotScans DEF TypeOK
<1>2. \A t : Row(t) => t # Load
  BY DEF Row, Load
<1>3. Behind(q)
  BY DEF LoadMisses
<1>4. Behind(r)
  <2>1. CASE UNCHANGED storageQueue
    BY <1>3, <2>1
  <2>2. CASE QueueTaken
    <3>1. q # <<>> /\ r = Tail(q)
      BY <2>2 DEF QueueTaken
    <3>2. \A k \in DOMAIN r : k \in Nat /\ k + 1 \in DOMAIN q /\ r[k] = q[k + 1]
      <4>1. \A k \in DOMAIN r : k + 1 \in DOMAIN q /\ r[k] = q[k + 1]
        BY <1>1, <3>1, InTail
      <4>2. r \in Seq(Task)
        BY <1>1, <3>1
      <4> QED BY <4>1, <4>2
    <3> SUFFICES ASSUME NEW i \in DOMAIN r, NEW j \in DOMAIN r, r[j] = Load, About(r[i], m)
                 PROVE  j < i
      OBVIOUS
    <3>3. j + 1 < i + 1
      BY <1>3, <3>2
    <3> QED BY <3>2, <3>3
  <2>3. ASSUME NEW t \in Task, t # Load, PostStorage(<<t>>)
        PROVE  Behind(r)
    <3>1. /\ DOMAIN r = 1..(Len(q) + 1) /\ DOMAIN q = 1..Len(q) /\ Len(q) \in Nat
          /\ \A k \in 1..Len(q) : r[k] = q[k]
          /\ r[Len(q) + 1] = t
      BY <1>1, <2>3 DEF PostStorage
    <3> HIDE DEF q, r
    <3> SUFFICES ASSUME NEW i \in DOMAIN r, NEW j \in DOMAIN r, r[j] = Load, About(r[i], m)
                 PROVE  j < i
      OBVIOUS
    <3>2. j \in 1..Len(q) /\ q[j] = Load
      BY <2>3, <3>1
    <3>3. CASE i \in 1..Len(q)
      BY <1>3, <3>1, <3>2, <3>3
    <3>4. CASE i \notin 1..Len(q)
      BY <3>1, <3>2, <3>4
    <3> QED BY <3>3, <3>4
  <2>4. ASSUME NEW t \in Task, NEW u \in Task, Row(t), Row(u), PostStorage(<<t, u>>)
        PROVE  Behind(r)
    <3>1. /\ DOMAIN r = 1..(Len(q) + 2) /\ DOMAIN q = 1..Len(q) /\ Len(q) \in Nat
          /\ \A k \in 1..Len(q) : r[k] = q[k]
          /\ r[Len(q) + 1] = t /\ r[Len(q) + 2] = u
      BY <1>1, <2>4 DEF PostStorage
    <3>2. t # Load /\ u # Load
      BY <1>2, <2>4
    <3> HIDE DEF q, r
    <3> SUFFICES ASSUME NEW i \in DOMAIN r, NEW j \in DOMAIN r, r[j] = Load, About(r[i], m)
                 PROVE  j < i
      OBVIOUS
    <3>3. j \in 1..Len(q) /\ q[j] = Load
      BY <3>1, <3>2
    <3>4. CASE i \in 1..Len(q)
      BY <1>3, <3>1, <3>3, <3>4
    <3>5. CASE i \notin 1..Len(q)
      BY <3>1, <3>3, <3>5
    <3> QED BY <3>4, <3>5
  <2>5. CASE Same(q, r)
    <3> SUFFICES ASSUME NEW i \in DOMAIN r, NEW j \in DOMAIN r, r[j] = Load, About(r[i], m)
                 PROVE  j < i
      OBVIOUS
    <3>1. i \in DOMAIN q /\ j \in DOMAIN q
      BY <2>5 DEF Same
    <3>2. q[j] = Load
      BY <1>2, <2>5, <3>1 DEF Same
    <3>3. About(q[i], m)
      BY <2>5, <3>1 DEF Same, About, Row
    <3> QED BY <1>3, <3>1, <3>2, <3>3
  <2> HIDE DEF Behind
  <2> QED BY <1>1, <1>2, <2>1, <2>2, <2>3, <2>4, <2>5, QueueStep
<1>5. ASSUME Load \in Queued'
      PROVE  row'[m] = None
  <2>1. Load \in Queued
    BY <1>5, QueuedFrom
  <2>2. row[m] = None
    BY <2>1 DEF LoadMisses
  <2>3. ASSUME NEW t, storageQueue # <<>>, t = Head(storageQueue), About(t, m)
        PROVE  FALSE
    <3>1. PICK j \in DOMAIN q : q[j] = Load
      BY <2>1 DEF Queued, Since
    <3>2. DOMAIN q = 1..Len(q) /\ Len(q) \in Nat /\ 1 \in DOMAIN q /\ Head(q) = q[1]
      BY <1>1, <2>3
    <3>3. j < 1
      BY <1>3, <2>3, <3>1, <3>2
    <3> QED BY <3>1, <3>2, <3>3
  <2> QED BY <2>2, <2>3, RowStep
<1>6. ASSUME NEW i \in DOMAIN uiTasks', LoadedOf(uiTasks'[i])
      PROVE  uiTasks'[i].rows[m] = None
  <2>1. CASE \E j \in DOMAIN uiTasks : uiTasks[j] = uiTasks'[i]
    BY <1>6, <2>1 DEF LoadMisses
  <2>2. CASE LoadRows /\ uiTasks'[i].rows = row
    <3>1. q # <<>> /\ Head(q).op = "load"
      BY <2>2 DEF LoadRows, TaskIs
    <3>2. Head(q) \in Task /\ Head(q) = q[1] /\ 1 \in DOMAIN q
      BY <1>1, <3>1, InTail
    <3>3. Head(q) = Load
      BY <3>1, <3>2 DEF Task, Load
    <3>4. Load \in Queued
      BY <3>2, <3>3 DEF Queued, Since
    <3> QED BY <2>2, <3>4 DEF LoadMisses
  <2> QED BY <1>6, <2>1, <2>2, LoadedStep
<1> QED BY <1>4, <1>5, <1>6 DEF LoadMisses

\* And it misses what is written while the chat waits for it.
LEMMA LoadMissesWritten ==
  ASSUME TypeOK, Numbered, SendMessage, NEW m \in Msg, m = last + 1
  PROVE  LoadMisses(m)'
<1> DEFINE q == storageQueue
           r == storageQueue'
<1>1. q \in Seq(Task) /\ last \in Nat /\ m > last
  BY DEF TypeOK
<1>2. r = q \o <<Insert(m), Update(m, "mine")>> /\ UNCHANGED <<row, uiTasks>>
  BY DEF SendMessage, PostStorage
<1>3. row[m] = None
  BY <1>1 DEF Numbered
<1>4. \A i \in DOMAIN uiTasks : LoadedOf(uiTasks[i]) => uiTasks[i].rows[m] = None
  BY <1>1 DEF Numbered
<1>5. \A i \in DOMAIN q : ~About(q[i], m)
  BY <1>1 DEF Numbered, About, Queued, Since
<1>6. Insert(m) # Load /\ Update(m, "mine") # Load
  BY DEF Insert, Update, Load
<1>7. /\ DOMAIN r = 1..(Len(q) + 2) /\ DOMAIN q = 1..Len(q) /\ Len(q) \in Nat
      /\ \A k \in 1..Len(q) : r[k] = q[k]
      /\ r[Len(q) + 1] = Insert(m) /\ r[Len(q) + 2] = Update(m, "mine")
  BY <1>1, <1>2
<1>8. ASSUME NEW i \in DOMAIN r, NEW j \in DOMAIN r, r[j] = Load, About(r[i], m)
      PROVE  j < i
  <2> HIDE DEF q, r
  <2>1. j \in 1..Len(q)
    BY <1>6, <1>7, <1>8
  <2>2. i \notin 1..Len(q)
    BY <1>5, <1>7, <1>8
  <2> QED BY <1>7, <1>8, <2>1, <2>2
<1>9. UNCHANGED uiTasks /\ row'[m] = None
  BY <1>2, <1>3
<1> QED BY <1>4, <1>8, <1>9 DEF LoadMisses

LEMMA LoadSeesAllStep ==
  ASSUME TypeOK, EarnedInv, PeerHasSent, SenderShows, Numbered, OneLoad, LoadSeesAll, [Next]_vars
  PROVE  LoadSeesAll'
<1>1. ASSUME ~chatOpen', NEW m \in Msg
      PROVE  chat'[m] = "no"
  <2>1. CASE CloseChat \/ Restart
    BY <2>1 DEF CloseChat, Restart
  <2>2. CASE ~chatOpen /\ chat[m] = "no"
    BY <1>1, <2>2, ChatStep DEF SendMessage
  <2> QED BY <1>1, <2>1, <2>2, LoadingStep DEF LoadSeesAll
<1>2. ASSUME OpenChat, NEW m \in Msg
      PROVE  chat'[m] = "no" /\ LoadKnows(m)'
  <2>1. SinceLoad' = {} /\ SinceBoth' = {}
    BY <1>2, NothingSince DEF SinceLoad, SinceBoth
  <2>2. chat'[m] = "no"
    BY <1>2 DEF OpenChat, LoadSeesAll
  <2> QED BY <2>1, <2>2 DEF LoadKnows
<1>3. ASSUME chatOpen', loading', chatOpen, loading, NEW m \in Msg
      PROVE  LoadMisses(m)' \/ (chat'[m] = "no" /\ LoadKnows(m)')
  <2>1. ~OpenChat /\ ~CloseChat /\ ~Restart
    BY <1>3 DEF OpenChat, CloseChat, Restart
  <2>2. CASE LoadMisses(m)
    BY <2>1, <2>2, LoadMissesStep
  <2>3. CASE SendMessage /\ m = last + 1
    BY <2>3, LoadMissesWritten
  <2>4. CASE chat[m] = "no" /\ LoadKnows(m) /\ chat'[m] = "no"
    <3>1. ~LetsGo(m)
      BY <2>1, <2>4 DEF LetsGo, DeleteMessage, Shown
    <3>2. ASSUME NEW t, PostedFor(t, m)
          PROVE  Literal(t) /\ (sends'[m] = 0 => t.from = "SENDING") /\ ~Fresh(m)'
      BY <2>4, <3>2 DEF PostedFor, Literal, Fresh, Update
    <3>3. sends'[m] = 0 => sends[m] = 0
      BY HistoryGrows DEF TypeOK
    <3>4. ASSUME NEW t \in SinceLoad', About(t, m)
          PROVE  Literal(t) /\ (sends'[m] = 0 => t.from = "SENDING")
      <4>1. t \in SinceLoad \/ PostedFor(t, m)
        BY <3>1, <3>4, TasksFrom DEF SinceLoad, Frozen
      <4>2. CASE t \in SinceLoad
        BY <2>4, <3>3, <3>4, <4>2 DEF LoadKnows
      <4> QED BY <3>2, <4>1, <4>2
    <3>5. ASSUME NEW t \in SinceBoth', About(t, m)
          PROVE  ~Fresh(m)'
      <4>1. t \in SinceBoth \/ PostedFor(t, m)
        BY <3>1, <3>5, TasksFrom DEF SinceBoth, Frozen
      <4>2. ~Established
        BY <3>5, NothingSince DEF SinceBoth
      <4>3. CASE t \in SinceBoth
        BY <2>4, <3>5, <4>2, <4>3, FreshStep DEF LoadKnows
      <4> QED BY <3>2, <4>1, <4>3
    <3> QED BY <2>4, <3>4, <3>5 DEF LoadKnows
  <2>5. chat[m] = "no" => chat'[m] = "no" \/ (SendMessage /\ m = last + 1)
    BY <1>3, ChatStep
  <2> QED BY <1>3, <2>2, <2>3, <2>4, <2>5 DEF LoadSeesAll
<1> QED BY <1>1, <1>2, <1>3, LoadingStep DEF LoadSeesAll

\* What the tasks that are queued write.
LEMMA WritesAre ==
  ASSUME NEW t \in Task, NEW m \in Msg, About(t, m)
  PROVE  /\ t.op = "insert" \/ t.from = "mine" => Writes(t) = mine[m] /\ Writes(t)' = mine'[m]
         /\ t.op = "update" /\ t.from = "copy" => Writes(t) = copy[m] /\ Writes(t)' = copy'[m]
         /\ Literal(t) => Writes(t) = t.from /\ Writes(t)' = t.from
         /\ \/ t.op = "insert" \/ (t.op = "update" /\ t.from = "mine")
            \/ (t.op = "update" /\ t.from = "copy") \/ Literal(t)
<1>1. t.op \in {"insert", "update"} /\ t.m = m
  BY DEF About
<1> QED BY <1>1 DEF Writes, StateOf, Literal

\* A message of which everything says SENDING stays so while the object the
\* chat shows does.
LEMMA AllSendingStep ==
  ASSUME TypeOK, EarnedInv, PeerHasSent, SenderShows, Numbered, RefsShown', [Next]_vars,
         NEW m \in Msg, sends'[m] = 0, AllSending(m),
         chat'[m] = "mine" => mine'[m] = "SENDING",
         chat'[m] = "copy" => copy'[m] = "SENDING"
  PROVE  AllSending(m)'
<1>1. row'[m] \in {None, "SENDING"}
  BY RowStep DEF AllSending
<1>2. SUFFICES ASSUME NEW t \in Queued', About(t, m)
               PROVE  Writes(t)' = "SENDING"
  BY <1>1 DEF AllSending
<1>3. /\ t \in Task
      /\ t.op \in {"insert", "update"} /\ t.m = m
      /\ copy[m] \notin {"mine", "copy"}
  BY <1>2, QueuedTyped DEF Queued, About, TypeOK, SendState, None
<1>4. t \in Queued \/ PostedFor(t, m) \/ Frozen(t, m, {})
  BY <1>2, TasksFrom DEF Queued
<1>5. t \in Queued => Writes(t) = "SENDING"
  BY <1>2 DEF AllSending
<1>6. CASE t.op = "update" /\ t.from = "copy"
  <2>1. chat'[m] = "copy"
    BY <1>2, <1>3, <1>6 DEF RefsShown
  <2> QED BY <1>2, <1>3, <1>6, <2>1, WritesAre
<1>7. CASE Literal(t)
  <2>1. CASE t \in Queued
    BY <1>2, <1>3, <1>5, <1>7, <2>1, WritesAre
  <2>2. CASE PostedFor(t, m)
    <3>1. t.from = "SENDING"
      BY <1>7, <2>2 DEF PostedFor, Literal, Update, Insert
    <3> QED BY <1>2, <1>3, <1>7, <3>1, WritesAre
  <2>3. CASE Frozen(t, m, {})
    <3>1. Update(m, "copy") \in Queued /\ Update(m, "copy") \in Task
      BY <2>3, TasksAreTyped DEF Frozen, Queued, Source
    <3>2. Writes(Update(m, "copy")) = copy[m]
      BY DEF Writes, StateOf, Update
    <3>3. copy[m] = "SENDING"
      BY <3>1, <3>2 DEF AllSending, About, Update
    <3>4. t.from = "SENDING"
      BY <2>3, <3>3 DEF Frozen, Update
    <3> QED BY <1>2, <1>3, <1>7, <3>4, WritesAre
  <2> QED BY <1>4, <2>1, <2>2, <2>3
<1>8. CASE t.op = "insert" \/ (t.op = "update" /\ t.from = "mine")
  <2>1. Writes(t)' = mine'[m] /\ Writes(t) = mine[m]
    BY <1>2, <1>3, <1>8, WritesAre
  <2>2. CASE t \in Queued
    <3>1. ~Restart
      BY <1>2, SinceNone DEF Restart, Queued
    <3>2. mine[m] = "SENDING"
      BY <1>5, <2>1, <2>2
    <3>3. mine'[m] = "SENDING"
      BY <3>1, <3>2, ObjectsStep DEF ShownAsBefore, Written, MarkedFailed, TakenFromLoad
    <3> QED BY <2>1, <3>3
  <2>3. CASE PostedFor(t, m)
    BY <1>8, <2>1, <2>3 DEF PostedFor, Update
  <2>4. ~Frozen(t, m, {})
    BY <1>3, <1>8 DEF Frozen, Update
  <2> QED BY <1>4, <2>2, <2>3, <2>4
<1> QED BY <1>2, <1>3, <1>6, <1>7, <1>8, WritesAre

LEMMA ObjectsAgreeStep ==
  ASSUME TypeOK, EarnedInv, PeerHasSent, SenderShows, Numbered, OneLoad, OneLoad',
         RefsShown', LoadSeesAll, LoadSeesAll', ObjectsAgree, [Next]_vars
  PROVE  ObjectsAgree'
<1>1. SUFFICES ASSUME NEW m \in Msg, sends'[m] = 0
               PROVE  /\ chat'[m] = "mine" /\ mine'[m] = "SENDING" => AllSending(m)'
                      /\ chat'[m] = "copy" /\ copy'[m] = "SENDING" => AllSending(m)'
                      /\ chatOpen' /\ loading' /\ chat'[m] = "no" =>
                           \A i \in DOMAIN uiTasks' :
                             LoadedOf(uiTasks'[i]) /\ uiTasks'[i].rows[m] = "SENDING"
                               => AllSending(m)'
  BY DEF ObjectsAgree
<1>2. sends[m] = 0 /\ last \in Nat
  BY <1>1, HistoryGrows DEF TypeOK
<1>3. /\ chat[m] = "mine" /\ mine[m] = "SENDING" => AllSending(m)
      /\ chat[m] = "copy" /\ copy[m] = "SENDING" => AllSending(m)
      /\ chatOpen /\ loading /\ chat[m] = "no" =>
           \A i \in DOMAIN uiTasks :
             LoadedOf(uiTasks[i]) /\ uiTasks[i].rows[m] = "SENDING" => AllSending(m)
  BY <1>2 DEF ObjectsAgree
<1>4. CASE Written(m)
  <2>1. row'[m] = None /\ \A t \in Queued : ~About(t, m)
    <3>1. row[m] = None /\ \A t \in Queued : ~About(t, m)
      BY <1>2, <1>4 DEF Written, Numbered, About
    <3> QED BY <1>4, <3>1 DEF Written, SendMessage
  <2>2. ASSUME NEW t \in Queued', About(t, m)
        PROVE  Writes(t)' = "SENDING"
    <3>1. t \in Task
      BY <2>2, QueuedTyped DEF Queued
    <3>2. ~LetsGo(m)
      BY <1>4 DEF Written, LetsGo, DeleteMessage, MessageDeleted, CloseChat, TypeOK
    <3>3. PostedFor(t, m)
      BY <2>1, <2>2, <3>2, TasksFrom DEF Queued, Frozen
    <3>4. t.op = "insert" \/ t.from = "mine" \/ (Literal(t) /\ t.from = "SENDING")
      BY <1>1, <1>4, <3>3 DEF PostedFor, Written, Update, Insert, Literal
    <3> QED BY <1>4, <2>2, <3>1, <3>4, WritesAre DEF Written
  <2>3. AllSending(m)'
    BY <2>1, <2>2 DEF AllSending
  <2> QED BY <1>4, <2>3 DEF Written
<1>5. CASE chat'[m] = "mine" /\ mine'[m] = "SENDING" /\ ~Written(m)
  <2>1. chat[m] = "mine" /\ mine[m] = "SENDING"
    BY <1>1, <1>5, ObjectsStep DEF ShownAsBefore, MarkedFailed, TakenFromLoad, Restart
  <2> QED BY <1>1, <1>3, <1>5, <2>1, AllSendingStep
<1>6. CASE chat'[m] = "copy" /\ copy'[m] = "SENDING"
  <2>1. CASE chat[m] = "copy" /\ copy[m] = "SENDING"
    BY <1>1, <1>3, <1>6, <2>1, AllSendingStep
  <2>2. CASE TakenFromLoad(m)
    <3>1. AllSending(m)
      BY <1>3, <1>6, <2>2, HeadWaits DEF TakenFromLoad
    <3> QED BY <1>1, <1>6, <3>1, AllSendingStep
  <2>3. ShownAsBefore(m) \/ TakenFromLoad(m)
    BY <1>1, <1>6, ObjectsStep DEF Written, MarkedFailed, Restart
  <2> QED BY <1>6, <2>1, <2>2, <2>3 DEF ShownAsBefore
<1>7. ASSUME chatOpen', loading', chat'[m] = "no", NEW i \in DOMAIN uiTasks',
             LoadedOf(uiTasks'[i]), uiTasks'[i].rows[m] = "SENDING"
      PROVE  AllSending(m)'
  <2>1. CASE \E j \in DOMAIN uiTasks : uiTasks[j] = uiTasks'[i]
    <3>1. ~OpenChat
      BY <1>7, <2>1 DEF OpenChat, LoadedOf
    <3>2. chatOpen /\ loading /\ chat[m] = "no"
      BY <1>7, <2>1, <3>1, LoadingStep, LoadBrings DEF None
    <3>3. AllSending(m)
      BY <1>3, <1>7, <2>1, <3>2
    <3> QED BY <1>1, <1>7, <3>3, AllSendingStep
  <2>2. CASE LoadRows /\ uiTasks'[i].rows = row
    <3>1. row'[m] = "SENDING"
      BY <1>7, <2>2 DEF LoadRows
    <3>2. SinceLoad' = Queued'
      <4>1. storageQueue' \in Seq(Task) /\ Load \notin Queued'
        BY <1>7, StorageQueueTyped DEF OneLoad
      <4> QED BY <4>1, SinceWhole DEF SinceLoad, Queued
    <3>3. LoadKnows(m)'
      BY <1>7 DEF LoadSeesAll, LoadMisses, None
    <3>4. \A t \in Queued' : About(t, m) => Literal(t) /\ t.from = "SENDING"
      BY <1>1, <3>2, <3>3 DEF LoadKnows
    <3>5. \A t \in Queued' : About(t, m) => Writes(t)' = "SENDING"
      BY <3>4, QueuedTyped, WritesAre DEF Queued
    <3> QED BY <3>1, <3>5 DEF AllSending
  <2> QED BY <1>7, <2>1, <2>2, LoadedStep
<1> QED BY <1>4, <1>5, <1>6, <1>7

LEMMA ScanCoversStep ==
  ASSUME TypeOK, UnsentInv, EarnedInv, RefsShown', ObjectsAgree', ShownHaveNoLiteral', [Next]_vars
  PROVE  ScanCovers'
<1>1. SUFFICES ASSUME NEW m \in Text, Fresh(m)', ~(sending'.at = "transmit" /\ sending'.m = m)
               PROVE  Covered(m)'
  BY DEF ScanCovers
<1>2. /\ m \in Msg /\ conn' = "up" /\ sends'[m] = 0 /\ sends[m] = 0
      /\ storageQueue \in Seq(Task) /\ copy[m] \notin {"mine", "copy"}
      /\ chat'[m] \in {"no", "mine", "copy"}
  <2>1. m \in Msg
    BY BoundsAssumption DEF Msg
  <2>2. conn' = "up" /\ sends'[m] = 0
    BY <1>1 DEF Fresh
  <2>3. sends[m] = 0
    BY <2>1, <2>2, HistoryGrows DEF TypeOK
  <2>4. storageQueue \in Seq(Task) /\ copy[m] \notin {"mine", "copy"}
    BY <2>1 DEF TypeOK, SendState, None
  <2> QED BY <2>1, <2>2, <2>3, <2>4, ChatTyped
<1>3. PeerHasSent /\ SenderShows /\ Numbered /\ ScanCovers
  BY DEF UnsentInv
<1>4. CASE Established
  <2>1. SinceScan' = {} /\ Scan \in Queued'
    BY <1>4, NothingSince DEF SinceScan
  <2> QED BY <2>1 DEF Covered
<1>5. CASE ~Established
  <2>1. Covered(m)
    BY <1>1, <1>2, <1>3, <1>5, FreshStep, SendKeeps DEF ScanCovers
  <2>2. ~Restart /\ ~Written(m)
    BY <1>1, <1>2 DEF Restart, Written
  <2>3. ASSUME AllSending(m), chat'[m] = "no"
        PROVE  AllSending(m)'
    BY <1>2, <1>3, <2>3, AllSendingStep
  <2>4. ASSUME NEW t \in SinceScan', About(t, m)
        PROVE  t.op = "update" /\ (Writes(t)' = "SENDING" => AllSending(m)')
    <3>1. t \in Task /\ t \in Queued' /\ t.m = m
      BY <2>4, QueuedTyped DEF SinceScan, About
    <3>2. t \in SinceScan \/ PostedFor(t, m) \/ Frozen(t, m, {Scan})
      BY <1>2, <1>3, <2>4, TasksFrom DEF SinceScan
    <3>3. t.op = "update"
      <4>1. CASE t \in SinceScan
        BY <2>1, <2>4, <4>1 DEF Covered
      <4>2. CASE PostedFor(t, m)
        BY <1>1, <4>2 DEF PostedFor, Update
      <4>3. CASE Frozen(t, m, {Scan})
        BY <4>3 DEF Frozen, Update
      <4> QED BY <3>2, <4>1, <4>2, <4>3
    <3>4. ASSUME Writes(t)' = "SENDING"
          PROVE  AllSending(m)'
      <4>1. /\ chat'[m] = "mine" /\ mine'[m] = "SENDING" => AllSending(m)'
            /\ chat'[m] = "copy" /\ copy'[m] = "SENDING" => AllSending(m)'
        BY <1>2 DEF ObjectsAgree
      <4>2. CASE t.from = "copy"
        <5>1. chat'[m] = "copy"
          BY <3>1, <3>3, <4>2 DEF RefsShown
        <5> QED BY <1>2, <2>4, <3>1, <3>3, <3>4, <4>1, <4>2, <5>1, WritesAre
      <4>3. CASE t.from = "mine"
        <5>1. mine'[m] = "SENDING"
          BY <1>2, <2>4, <3>1, <3>4, <4>3, WritesAre
        <5>2. chat'[m] # "copy"
          BY <3>1, <3>3, <4>3 DEF RefsShown
        <5>3. CASE chat'[m] = "no"
          <6>1. mine[m] = "SENDING"
            BY <1>2, <1>3, <2>2, <5>1, <5>3, ObjectsStep
               DEF ShownAsBefore, MarkedFailed, TakenFromLoad
          <6>2. t \in SinceScan
            BY <3>2, <4>3, <5>3, <1>2 DEF PostedFor, Frozen, Update
          <6>3. Writes(t) = "SENDING"
            BY <1>2, <2>4, <3>1, <4>3, <6>1, WritesAre
          <6>4. AllSending(m)
            BY <2>1, <2>4, <6>2, <6>3 DEF Covered
          <6> QED BY <2>3, <5>3, <6>4
        <5> QED BY <1>2, <4>1, <5>1, <5>2, <5>3
      <4>4. CASE t.from \notin {"mine", "copy"}
        <5>1. Literal(t) /\ t.from = "SENDING"
          BY <1>2, <2>4, <3>1, <3>3, <3>4, <4>4, WritesAre DEF Literal
        <5>2. chat'[m] = "no"
          BY <1>1, <1>2, <2>4, <5>1 DEF ShownHaveNoLiteral
        <5>3. ~PostedFor(t, m)
          BY <1>1, <5>1, <5>2 DEF PostedFor, Fresh, Update, Insert, Literal
        <5>4. CASE t \in SinceScan
          <6>1. Writes(t) = "SENDING"
            BY <1>2, <2>4, <3>1, <5>1, WritesAre
          <6> QED BY <2>1, <2>3, <2>4, <5>2, <5>4, <6>1 DEF Covered
        <5>5. CASE Frozen(t, m, {Scan})
          <6>1. Update(m, "copy") \in SinceScan /\ copy[m] = "SENDING"
            BY <5>1, <5>5 DEF Frozen, SinceScan, Update
          <6>2. Writes(Update(m, "copy")) = "SENDING" /\ About(Update(m, "copy"), m)
            BY <6>1 DEF Writes, StateOf, Update, About
          <6> QED BY <2>1, <2>3, <5>2, <6>1, <6>2 DEF Covered
        <5> QED BY <3>2, <5>3, <5>4, <5>5
      <4> QED BY <4>2, <4>3, <4>4
    <3> QED BY <3>3, <3>4
  <2>5. ASSUME Scan \notin Queued', ~InListNext(m), ~UnderWayNext(m)
        PROVE  row'[m] # "SENDING"
    <3>1. CASE Scan \in Queued
      BY <2>2, <2>5, <3>1, QueuedFrom, ScanBegins
    <3>2. CASE InList(m) \/ UnderWay(m)
      BY <1>2, <2>5, <3>2, ScanKeeps
    <3>3. CASE Scan \notin Queued /\ ~InList(m) /\ ~UnderWay(m)
      <4>1. row[m] # "SENDING"
        BY <2>1, <3>3 DEF Covered
      <4>2. SinceScan = Queued
        BY <1>2, <3>3, SinceWhole DEF SinceScan, Queued
      <4>3. ASSUME NEW t \in Queued, About(t, m), row'[m] = Writes(t), t.op = "update" => row[m] # None
            PROVE  row'[m] # "SENDING"
        <5>1. t.op = "update" /\ (Writes(t) = "SENDING" => row[m] \in {None, "SENDING"})
          BY <2>1, <4>2, <4>3 DEF Covered, AllSending
        <5> QED BY <4>1, <4>3, <5>1
      <4> QED BY <1>2, <4>1, <4>3, RowStep DEF None
    <3> QED BY <3>1, <3>2, <3>3
  <2>6. InList(m)' = InListNext(m) /\ UnderWay(m)' = UnderWayNext(m)
    BY DEF InList, InListNext, UnderWay, UnderWayNext
  <2> QED BY <2>4, <2>5, <2>6 DEF Covered
<1> QED BY <1>4, <1>5

-----------------------------------------------------------------------------
LEMMA UnsentInvInit == Init => UnsentInv
<1> SUFFICES ASSUME Init
             PROVE  UnsentInv
  OBVIOUS
<1>1. Queued = {} /\ SinceScan = {} /\ SinceLoad = {} /\ SinceBoth = {}
  BY SinceNone DEF Init, Queued, SinceScan, SinceLoad, SinceBoth
<1>2. Numbered /\ PeerHasSent /\ SenderShows
  BY <1>1 DEF Init, Numbered, PeerHasSent, SenderShows, InList, Resting
<1>3. RefsShown /\ ShownHaveNoLiteral /\ LoadSeesAll
  BY <1>1 DEF Init, RefsShown, ShownHaveNoLiteral, LoadSeesAll
<1>4. OneLoad /\ ObjectsAgree
  BY <1>1 DEF Init, OneLoad, ObjectsAgree
<1>5. ScanCovers
  BY DEF Init, ScanCovers, Fresh
<1> QED BY <1>2, <1>3, <1>4, <1>5 DEF UnsentInv

LEMMA UnsentInvStep ==
  ASSUME TypeOK, EarnedInv, UnsentInv, [Next]_vars
  PROVE  UnsentInv'
<1> USE DEF UnsentInv
<1>1. Numbered' /\ PeerHasSent' /\ SenderShows' /\ OneLoad'
  BY NumberedStep, PeerHasSentStep, SenderShowsStep, OneLoadStep
<1>2. RefsShown' /\ ShownHaveNoLiteral' /\ LoadSeesAll'
  BY RefsShownStep, ShownHaveNoLiteralStep, LoadSeesAllStep
<1>3. ObjectsAgree'
  BY <1>1, <1>2, ObjectsAgreeStep
<1>4. ScanCovers'
  BY <1>2, <1>3, ScanCoversStep
<1> QED BY <1>1, <1>2, <1>3, <1>4

\* In a session that has queued its scan, a text that was never handed over
\* and whose failure was not stored too late has a task, a scan or a send to
\* look after it: no order of the three threads leaves its row SENDING with
\* nobody at work.
THEOREM UnsentIsSeenTo == Spec => []UnsentHasSender
<1>1. TypeOK /\ UnsentInv => UnsentHasSender
  <2> SUFFICES ASSUME UnsentInv, NEW m \in Text,
                      row[m] = "SENDING", Fresh(m),
                      storageQueue = <<>>, scan = Resting, sending = Resting
               PROVE  FALSE
    BY DEF UnsentHasSender, Fresh
  <2>1. ~InList(m) /\ ~UnderWay(m) /\ sending.at # "transmit"
    BY DEF InList, UnderWay, Resting
  <2>2. Scan \notin Queued
    BY SinceNone DEF Queued
  <2> QED BY <2>1, <2>2 DEF UnsentInv, ScanCovers, Covered
<1>2. TypeOK /\ EarnedInv /\ UnsentInv /\ [Next]_vars => UnsentInv'
  BY UnsentInvStep
<1> QED BY TypeCorrect, EarnedHolds, UnsentInvInit, <1>1, <1>2, PTL DEF Spec
=============================================================================
