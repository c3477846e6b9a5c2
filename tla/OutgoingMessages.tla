-------------------------- MODULE OutgoingMessages --------------------------
(***************************************************************************)
(* A text message from the chat to the peer: XMPPManager.sendMessage, the  *)
(* rows of MessagesStorage, the resending of unsent rows after a login and *)
(* the receipts of XmppNotifications.                                      *)
(*                                                                         *)
(* The UI thread sends, shows and deletes; the storage thread runs queued  *)
(* tasks and, for the unsent rows, sends too; Smack's reader thread brings *)
(* receipts.  The row of a message is written from a Messages object as it *)
(* is when the task runs.  There are three kinds of such objects: the one  *)
(* sendMessage made, which the chat shows and the queued tasks share; the  *)
(* copy a chat loaded from the row; and copies nobody else refers to, for  *)
(* which the task holds the state itself.                                  *)
(*                                                                         *)
(* Messages are numbered in the order they are written.                    *)
(***************************************************************************)
EXTENDS Integers, Sequences

CONSTANTS
  MaxMsg,    \* bound: messages written
  Text,      \* those of type 0; the others are locations, type 4
  MaxLosses, \* bound: sessions lost and processes killed
  MaxOpens,  \* bound: times the chat is opened
  MaxEvents  \* bound: all of these together

ASSUME BoundsAssumption ==
  /\ MaxMsg \in Nat /\ MaxLosses \in Nat /\ MaxOpens \in Nat /\ MaxEvents \in Nat
  /\ Text \subseteq 1..MaxMsg

Msg == 1..MaxMsg

\* MESSAGE_SEND_STATE_*: none here is "no row" or "no object".
SendState == {"SENDING", "SENT", "SEND_ERROR", "AKN"}

VARIABLES
  last,         \* messages 1..last have been written
  row,          \* the table MESSAGES, of which the column SEND_STATE
  mine,         \* per message: the object made by sendMessage
  copy,         \* per message: the object the open chat loaded
  chat,         \* per message: what the chat shows, "no", "mine" or "copy"
  chatOpen,     \* is there a ChatActivity, registered for notifications?
  opens,        \* times the chat was opened
  loading,      \* does the open chat wait for its first load?
  storageQueue, \* tasks of MessagesStorage.storageQueue
  uiTasks,      \* tasks of the main looper
  sending,      \* the UI thread in sendTextMessage
  scan,         \* the storage thread in processUnsentMessages
  conn,         \* "none" (null), "down" or "up" (isConnected)
  swept,        \* has this session run onConnectionEstablished?
  late,         \* resendings that failed before, and were stored after, that
  logins,       \* sessions opened
  losses,       \* sessions lost and processes killed
  wire,         \* stanzas Smack has taken and the server not yet
  delivered,    \* messages the peer has
  receipts,     \* receipts on their way
  sends         \* per message: times Smack took it (history)

chatVars == <<mine, copy, chat, chatOpen, opens, loading>>
threadVars == <<storageQueue, uiTasks, sending, scan>>
netVars == <<conn, swept, late, logins, losses>>
peerVars == <<wire, delivered, receipts, sends>>
vars == <<last, row, chatVars, threadVars, netVars, peerVars>>

None == "none"

Source == {"mine", "copy", None} \cup SendState
Task ==
  [op : {"insert"}, m : Msg]
    \cup [op : {"update"}, m : Msg, from : Source]
    \cup [op : {"scan", "load"}]
UiTask ==
  [op : {"error", "ack"}, m : Msg]
    \cup [op : {"loaded"}, rows : [Msg -> SendState \cup {None}]]

Resting == [at |-> "rest"]
Sending == {Resting} \cup [at : {"transmit", "update"}, m : Msg]
Scanning ==
  {Resting} \cup [at : {"next"}, left : SUBSET Msg]
            \cup [at : {"transmit"}, left : SUBSET Msg, m : Msg]
            \cup [at : {"update"}, left : SUBSET Msg, m : Msg,
                  state : {"SENDING", "SENT"}]

TypeOK ==
  /\ last \in 0..MaxMsg
  /\ row \in [Msg -> SendState \cup {None}]
  /\ mine \in [Msg -> SendState \cup {None}]
  /\ copy \in [Msg -> SendState \cup {None}]
  /\ chat \in [Msg -> {"no", "mine", "copy"}]
  /\ chatOpen \in BOOLEAN /\ loading \in BOOLEAN
  /\ opens \in 0..MaxOpens
  /\ storageQueue \in Seq(Task)
  /\ uiTasks \in Seq(UiTask)
  /\ sending \in Sending
  /\ scan \in Scanning
  /\ conn \in {"none", "down", "up"}
  /\ swept \in BOOLEAN
  /\ late \subseteq Msg
  /\ logins \in Nat
  /\ losses \in 0..MaxLosses
  /\ wire \subseteq Msg /\ delivered \subseteq Msg /\ receipts \subseteq Msg
  /\ sends \in [Msg -> Nat]

-----------------------------------------------------------------------------
(* Shared operations.                                                      *)

Insert(m) == [op |-> "insert", m |-> m]
Update(m, from) == [op |-> "update", m |-> m, from |-> from]
Scan == [op |-> "scan"]
Load == [op |-> "load"]

PostStorage(tasks) == storageQueue' = storageQueue \o tasks
PostUi(task) == uiTasks' = Append(uiTasks, task)

\* Mutant: what is stored is the reference of the task.
ReferenceOf(m, from) == from

\* The state of a Messages object when a task reads it.
StateOf(m, from) ==
  CASE from = "mine" -> mine[m]
    [] from = "copy" -> copy[m]
    [] OTHER -> from

\* The chat writes s into the object it shows for m, if it shows one.
ChatWrites(m, s, objects) ==
  /\ mine' = IF chat[m] = "mine" THEN [objects EXCEPT ![m] = s] ELSE objects
  /\ copy' = IF chat[m] = "copy" THEN [copy EXCEPT ![m] = s] ELSE copy

\* What chat.sendMessage does when Smack accepts the stanza.
Accepted(m) ==
  /\ wire' = wire \cup {m}
  /\ sends' = [sends EXCEPT ![m] = @ + 1]
  /\ UNCHANGED <<delivered, receipts>>

UiFree == sending = Resting
Shown == {m \in Msg : chat[m] # "no"}

-----------------------------------------------------------------------------
(* The UI thread.                                                          *)

Bounded == last + losses + opens < MaxEvents

\* sendMessage, up to chat.sendMessage: the row is queued, the chat adds the
\* object to its list and queues its own update.
SendMessage ==
  LET m == last + 1
  IN /\ UiFree /\ chatOpen /\ last < MaxMsg /\ Bounded
     /\ last' = m
     /\ mine' = [mine EXCEPT ![m] = "SENDING"]
     /\ chat' = [chat EXCEPT ![m] = "mine"]
     /\ PostStorage(<<Insert(m), Update(m, "mine")>>)
     /\ sending' = [at |-> "transmit", m |-> m]
     /\ UNCHANGED <<row, copy, chatOpen, opens, loading, uiTasks, scan, netVars, peerVars>>

\* chat.sendMessage returns.  A broken stream that may be resumed takes the
\* stanza too.
TransmitOk ==
  LET m == sending.m
  IN /\ sending.at = "transmit" /\ conn # "none"
     /\ Accepted(m)
     /\ ChatWrites(m, "SENT", [mine EXCEPT ![m] = "SENT"])
     /\ sending' = [sending EXCEPT !.at = "update"]
     /\ UNCHANGED <<last, row, chat, chatOpen, opens, loading, storageQueue,
                    uiTasks, scan, netVars>>

\* chat.sendMessage throws NotConnectedException.
TransmitFails ==
  LET m == sending.m
  IN /\ sending.at = "transmit" /\ conn = "down"
     /\ mine' = [mine EXCEPT ![m] = "SENDING"]
     /\ PostUi([op |-> "error", m |-> m])
     /\ sending' = [sending EXCEPT !.at = "update"]
     /\ UNCHANGED <<last, row, copy, chat, chatOpen, opens, loading,
                    storageQueue, scan, netVars, peerVars>>

\* ChatManager.getInstanceFor(null) throws out of sendTextMessage.
TransmitAborts ==
  /\ sending.at = "transmit" /\ conn = "none"
  /\ sending' = Resting
  /\ UNCHANGED <<last, row, chatVars, storageQueue, uiTasks, scan, netVars, peerVars>>

\* The end of sendTextMessage.
QueueUpdate ==
  /\ sending.at = "update"
  /\ PostStorage(<<Update(sending.m, "mine")>>)
  /\ sending' = Resting
  /\ UNCHANGED <<last, row, chatVars, uiTasks, scan, netVars, peerVars>>

\* messagesDeleted: the chat lets go of its object for m, as in CloseChat.
MessageDeleted(m) ==
  /\ chat' = [chat EXCEPT ![m] = "no"]
  /\ copy' = [copy EXCEPT ![m] = None]
  /\ storageQueue' =
       [i \in DOMAIN storageQueue |->
          IF storageQueue[i] = Update(m, "copy") THEN Update(m, copy[m]) ELSE storageQueue[i]]

\* MessagesStorage.deleteMessages, on the thread of its caller, and then the
\* chat; a row that is still to be inserted is not there to be deleted.
DeleteMessage(m) ==
  /\ UiFree /\ m \in Shown
  /\ row' = [row EXCEPT ![m] = None]
  /\ MessageDeleted(m)
  /\ UNCHANGED <<last, mine, chatOpen, opens, loading, uiTasks, sending, scan,
                 netVars, peerVars>>

OpenChat ==
  /\ UiFree /\ ~chatOpen /\ opens < MaxOpens /\ Bounded
  /\ \A i \in DOMAIN storageQueue : storageQueue[i] # Load
  /\ \A i \in DOMAIN uiTasks : uiTasks[i].op # "loaded"
  /\ chatOpen' = TRUE /\ loading' = TRUE /\ opens' = opens + 1
  /\ PostStorage(<<Load>>)
  /\ UNCHANGED <<last, row, mine, copy, chat, uiTasks, sending, scan, netVars, peerVars>>

\* The chat lets go of its objects: nobody writes a loaded copy any more, so
\* a queued task that refers to it may hold its state itself.
CloseChat ==
  /\ UiFree /\ chatOpen
  /\ chatOpen' = FALSE /\ loading' = FALSE
  /\ chat' = [m \in Msg |-> "no"]
  /\ copy' = [m \in Msg |-> None]
  /\ storageQueue' =
       [i \in DOMAIN storageQueue |->
          LET t == storageQueue[i]
          IN IF t.op = "update" /\ t.from = "copy" THEN Update(t.m, copy[t.m]) ELSE t]
  /\ UNCHANGED <<last, row, mine, opens, uiTasks, sending, scan, netVars, peerVars>>

UiTaskIs(op) == UiFree /\ uiTasks # <<>> /\ Head(uiTasks).op = op

\* messageSendError, with the chat closed or showing the message.
ShowError ==
  LET m == Head(uiTasks).m
  IN /\ UiTaskIs("error")
     /\ m \in Shown \/ ~chatOpen
     /\ ChatWrites(m, "SEND_ERROR", mine)
     /\ uiTasks' = Tail(uiTasks)
     /\ UNCHANGED <<last, row, chat, chatOpen, opens, loading, storageQueue,
                    sending, scan, netVars, peerVars>>

\* messageReceivedByAck
ShowAck ==
  /\ UiTaskIs("ack")
  /\ ChatWrites(Head(uiTasks).m, "AKN", mine)
  /\ uiTasks' = Tail(uiTasks)
  /\ UNCHANGED <<last, row, chat, chatOpen, opens, loading, storageQueue,
                 sending, scan, netVars, peerVars>>

\* messagesDidLoadedd: the chat takes the copies of messages it does not show
\* yet, and markDialogAsRead queues an update of the newest one it shows.
ShowLoaded ==
  LET rows  == Head(uiTasks).rows
      fresh == {m \in Msg : rows[m] # None /\ chat[m] = "no"}
      all   == Shown \cup fresh
  IN /\ UiTaskIs("loaded")
     /\ uiTasks' = Tail(uiTasks)
     /\ IF chatOpen /\ loading
        THEN /\ loading' = FALSE
             /\ chat' = [m \in Msg |-> IF m \in fresh THEN "copy" ELSE chat[m]]
             /\ copy' = [m \in Msg |-> IF m \in fresh THEN rows[m] ELSE copy[m]]
             /\ \/ all = {} /\ UNCHANGED storageQueue
                \/ \E newest \in all :
                     /\ \A m \in all : m <= newest
                     /\ PostStorage(<<Update(newest, chat'[newest])>>)
        ELSE UNCHANGED <<loading, chat, copy, storageQueue>>
     /\ UNCHANGED <<last, row, mine, chatOpen, opens, sending, scan, netVars, peerVars>>

-----------------------------------------------------------------------------
(* The storage thread.                                                     *)

TaskIs(op) == scan = Resting /\ storageQueue # <<>> /\ Head(storageQueue).op = op

\* putMessage
InsertRow ==
  LET m == Head(storageQueue).m
  IN /\ TaskIs("insert")
     /\ row' = [row EXCEPT ![m] = mine[m]]
     /\ storageQueue' = Tail(storageQueue)
     /\ UNCHANGED <<last, chatVars, uiTasks, sending, scan, netVars, peerVars>>

\* updateMessage: an UPDATE of a row that is not there changes nothing.
UpdateRow ==
  LET t == Head(storageQueue)
  IN /\ TaskIs("update")
     /\ row' = IF row[t.m] = None THEN row
               ELSE [row EXCEPT ![t.m] = StateOf(t.m, t.from)]
     /\ storageQueue' = Tail(storageQueue)
     /\ UNCHANGED <<last, chatVars, uiTasks, sending, scan, netVars, peerVars>>

\* getMessages
LoadRows ==
  /\ TaskIs("load")
  /\ PostUi([op |-> "loaded", rows |-> row])
  /\ storageQueue' = Tail(storageQueue)
  /\ UNCHANGED <<last, row, chatVars, sending, scan, netVars, peerVars>>

\* Mutant: whatever its type.
UnsentOfAnyType == {m \in Msg : row[m] = "SENDING"}

\* getUnsentMessages; only type 0 is resent.
Unsent == {m \in Text : row[m] = "SENDING"}

BeginScan ==
  /\ TaskIs("scan")
  /\ scan' = IF Unsent = {} THEN Resting ELSE [at |-> "next", left |-> Unsent]
  /\ storageQueue' = Tail(storageQueue)
  /\ UNCHANGED <<last, row, chatVars, uiTasks, sending, netVars, peerVars>>

ScanGoesOn(left) == scan' = IF left = {} THEN Resting ELSE [at |-> "next", left |-> left]

\* sendOfflineMessage, for the next of the list; passed over when offline.
NextUnsent(m) ==
  /\ scan.at = "next" /\ m \in scan.left
  /\ IF conn = "up"
     THEN scan' = [at |-> "transmit", left |-> scan.left \ {m}, m |-> m]
     ELSE ScanGoesOn(scan.left \ {m})
  /\ UNCHANGED <<last, row, chatVars, storageQueue, uiTasks, sending, netVars, peerVars>>

ScanSent(state) == scan' = [at |-> "update", left |-> scan.left, m |-> scan.m, state |-> state]

\* chat.sendMessage returns and the chat is told, on the storage thread.
ResendOk ==
  /\ scan.at = "transmit" /\ conn # "none"
  /\ Accepted(scan.m)
  /\ ChatWrites(scan.m, "SENT", mine)
  /\ ScanSent("SENT")
  /\ UNCHANGED <<last, row, chat, chatOpen, opens, loading, storageQueue,
                 uiTasks, sending, netVars>>

\* The chat draws on a thread that may not draw: the exception is taken for
\* one of sendMessage, although the stanza has gone.
ResendLooksFailed ==
  /\ scan.at = "transmit" /\ conn # "none" /\ scan.m \in Shown
  /\ Accepted(scan.m)
  /\ ChatWrites(scan.m, "SENT", mine)
  /\ ScanSent("SENDING")
  /\ PostUi([op |-> "error", m |-> scan.m])
  /\ UNCHANGED <<last, row, chat, chatOpen, opens, loading, storageQueue,
                 sending, netVars>>

ResendFails ==
  /\ scan.at = "transmit" /\ conn = "down"
  /\ ScanSent("SENDING")
  /\ PostUi([op |-> "error", m |-> scan.m])
  /\ UNCHANGED <<last, row, chatVars, storageQueue, sending, netVars, peerVars>>

\* sendTextMessage and sendOfflineMessage both queue an update of the copy.
QueueUpdates ==
  /\ scan.at = "update"
  /\ PostStorage(<<Update(scan.m, scan.state), Update(scan.m, scan.state)>>)
  /\ ScanGoesOn(scan.left)
  /\ late' = IF swept /\ scan.state = "SENDING" THEN late \cup {scan.m} ELSE late
  /\ UNCHANGED <<last, row, chatVars, uiTasks, sending, conn, swept, logins, losses, peerVars>>

-----------------------------------------------------------------------------
(* The connection, the peer and Smack's reader thread.                     *)

SessionOpens ==
  /\ conn # "up"
  /\ conn' = "up" /\ swept' = FALSE /\ late' = {} /\ logins' = logins + 1
  /\ UNCHANGED <<last, row, chatVars, threadVars, losses, peerVars>>

\* Mutant: the unsent rows are not looked for after a login.
EstablishedWithoutScan ==
  /\ conn = "up" /\ ~swept
  /\ swept' = TRUE
  /\ UNCHANGED storageQueue
  /\ UNCHANGED <<last, row, chatVars, uiTasks, sending, scan, conn, late, logins, losses, peerVars>>

\* onConnectionEstablished calls sendUnsentMessages.  A session that the
\* task of connectionClosed opens again does not run it.
Established ==
  /\ conn = "up" /\ ~swept
  /\ swept' = TRUE
  /\ PostStorage(<<Scan>>)
  /\ UNCHANGED <<last, row, chatVars, uiTasks, sending, scan, conn, late, logins, losses, peerVars>>

\* Some of what Smack had taken is lost with the session, unless resumed.
ConnectionLost ==
  /\ conn = "up" /\ losses < MaxLosses /\ Bounded
  /\ losses' = losses + 1
  /\ conn' \in {"none", "down"}
  /\ \E kept \in SUBSET wire : wire' = kept
  /\ swept' = FALSE
  /\ UNCHANGED <<last, row, chatVars, threadVars, late, logins, delivered, receipts, sends>>

\* The stanza reaches the peer, who answers with a receipt.
PeerReceives(m) ==
  /\ m \in wire
  /\ wire' = wire \ {m}
  /\ delivered' = delivered \cup {m}
  /\ receipts' = receipts \cup {m}
  /\ UNCHANGED <<last, row, chatVars, threadVars, netVars, sends>>

\* A receipt lost, or come before the listener is registered.
ReceiptMissed(m) ==
  /\ m \in receipts
  /\ receipts' = receipts \ {m}
  /\ UNCHANGED <<last, row, chatVars, threadVars, netVars, wire, delivered, sends>>

\* Mutant: the update is queued for whatever message was written last.
ReceiptForLast(m) ==
  /\ m \in receipts /\ conn = "up"
  /\ receipts' = receipts \ {m}
  /\ IF row[last] = None THEN UNCHANGED storageQueue
     ELSE PostStorage(<<Update(last, "AKN")>>)
  /\ PostUi([op |-> "ack", m |-> m])
  /\ UNCHANGED <<last, row, chatVars, sending, scan, netVars, wire, delivered, sends>>

\* onReceiptReceived: updateMessageSendState fails on a row not inserted yet,
\* and is content; the chat is told all the same.
ReceiptArrives(m) ==
  /\ m \in receipts /\ conn = "up"
  /\ receipts' = receipts \ {m}
  /\ IF row[m] = None THEN UNCHANGED storageQueue
     ELSE PostStorage(<<Update(m, "AKN")>>)
  /\ PostUi([op |-> "ack", m |-> m])
  /\ UNCHANGED <<last, row, chatVars, sending, scan, netVars, wire, delivered, sends>>

\* The process ends and starts again; the rows stay.
Restart ==
  /\ conn' = "none" /\ swept' = FALSE
  /\ \E kept \in SUBSET wire : wire' = kept
  /\ mine' = [m \in Msg |-> None] /\ copy' = [m \in Msg |-> None]
  /\ chat' = [m \in Msg |-> "no"]
  /\ chatOpen' = FALSE /\ loading' = FALSE
  /\ storageQueue' = <<>> /\ uiTasks' = <<>>
  /\ sending' = Resting /\ scan' = Resting
  /\ UNCHANGED <<last, row, opens, late, logins, delivered, receipts, sends>>

Killed == losses < MaxLosses /\ Bounded /\ losses' = losses + 1 /\ Restart

\* messageSendError in a chat that does not show the message.
ErrorNotShown ==
  /\ UiTaskIs("error")
  /\ chatOpen /\ Head(uiTasks).m \notin Shown
  /\ Restart /\ UNCHANGED losses

\* The connection became null after sendOfflineMessage had looked at it.
ResendAborts == scan.at = "transmit" /\ conn = "none" /\ Restart /\ UNCHANGED losses

-----------------------------------------------------------------------------
Init ==
  /\ last = 0
  /\ row = [m \in Msg |-> None]
  /\ mine = [m \in Msg |-> None]
  /\ copy = [m \in Msg |-> None]
  /\ chat = [m \in Msg |-> "no"]
  /\ chatOpen = FALSE /\ loading = FALSE /\ opens = 0
  /\ storageQueue = <<>> /\ uiTasks = <<>>
  /\ sending = Resting /\ scan = Resting
  /\ conn = "none" /\ swept = FALSE /\ late = {} /\ logins = 0 /\ losses = 0
  /\ wire = {} /\ delivered = {} /\ receipts = {}
  /\ sends = [m \in Msg |-> 0]

SendSteps == TransmitOk \/ TransmitFails \/ TransmitAborts \/ QueueUpdate

UiSteps == ShowError \/ ErrorNotShown \/ ShowAck \/ ShowLoaded

StorageSteps ==
  \/ InsertRow \/ UpdateRow \/ LoadRows \/ BeginScan
  \/ \E m \in Msg : NextUnsent(m)
  \/ ResendOk \/ ResendLooksFailed \/ ResendFails \/ ResendAborts
  \/ QueueUpdates

Next ==
  \/ SendMessage \/ SendSteps \/ UiSteps
  \/ OpenChat \/ CloseChat
  \/ \E m \in Msg : DeleteMessage(m)
  \/ StorageSteps
  \/ SessionOpens \/ Established \/ ConnectionLost
  \/ \E m \in Msg : PeerReceives(m) \/ ReceiptMissed(m) \/ ReceiptArrives(m)
  \/ Killed

Spec == Init /\ [][Next]_vars

(***************************************************************************)
(* The UI thread and the storage thread run what is posted to them, Smack  *)
(* answers sendMessage, and a login goes on to onConnectionEstablished.    *)
(* Nothing is assumed of the user, the network, the server or the peer.    *)
(***************************************************************************)
Fairness ==
  /\ WF_vars(SendSteps)
  /\ WF_vars(UiSteps)
  /\ WF_vars(StorageSteps)
  /\ WF_vars(Established)

FairSpec == Spec /\ Fairness

-----------------------------------------------------------------------------
(* Properties.                                                             *)

\* A state is earned: SENT says that Smack took the message at least once,
\* AKN that the peer has it.
Earned(m, s) ==
  /\ s = "SENT" => sends[m] > 0
  /\ s = "AKN" => m \in delivered

\* Neither a row nor anything a chat shows claims what has not happened,
\* whichever thread's copy was written last.
StatesAreEarned ==
  \A m \in Msg : Earned(m, row[m]) /\ Earned(m, mine[m]) /\ Earned(m, copy[m])

\* In a session that looked for unsent rows, a text that was never handed to
\* Smack has somebody working on it: a row SENDING with no send, no scan and
\* no task left would wait for the next login.  Only a late one does: its
\* failure, met in a session that broke, was stored behind the next scan,
\* which saw it SEND_ERROR.
UnsentHasSender ==
  \A m \in Text :
    row[m] = "SENDING" /\ sends[m] = 0 /\ conn = "up" /\ swept /\ m \notin late
      => storageQueue # <<>> \/ scan # Resting \/ sending # Resting

\* A message is handed to Smack once by sendMessage and at most once per
\* session by the scan, whatever stale states are written meanwhile; a
\* location is never sent again.
ResentOncePerSession ==
  \A m \in Msg : sends[m] <= 1 + (IF m \in Text THEN logins ELSE 0)

\* If a session lasts that ran onConnectionEstablished, a text stored as
\* SENDING is handed to Smack, marked as failed, deleted, or one of those
\* whose failed resending was stored too late for this session's scan.
UnsentIsDealtWith ==
  <>[](conn = "up" /\ swept)
    => \A m \in Text : []<>(row[m] # "SENDING" \/ sends[m] > 0 \/ m \in late)
=============================================================================
