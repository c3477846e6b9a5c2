---------------------------- MODULE FileTransfers ----------------------------
(***************************************************************************)
(* The transfers of FileLoader: uploads and downloads (FileOperation) and  *)
(* loads of attachments (FileLoadOperation), which share two counters of   *)
(* slots and the thread fileLoaderQueue.                                   *)
(*                                                                         *)
(* A FileOperation runs inside the task that starts it, so the thread does *)
(* nothing else until the HTTP request has ended and, for an upload, until *)
(* XMPP is connected.  A FileLoadOperation only posts: its end comes back  *)
(* over cacheOutQueue and stageQueue, while the UI thread may cancel it.   *)
(*                                                                         *)
(* Operations are numbered in the order they are created.                  *)
(***************************************************************************)
EXTENDS Integers, Sequences, FiniteSets, SequencesExt

CONSTANTS
  Path,        \* files to upload
  Url,         \* files a peer has announced
  Attachment,  \* file names of attachments to load
  MaxRequests, \* bound: transfers asked for
  MaxCancels   \* bound: cancellations asked for

ASSUME TransfersAssumption ==
  /\ MaxRequests \in Nat /\ MaxCancels \in Nat
  /\ Path \cap Url = {} /\ Path \cap Attachment = {} /\ Url \cap Attachment = {}

Key == Path \cup Url \cup Attachment
Op == 1..MaxRequests
Lane == {"upload", "download", "load"}
Slots == 2
None == 0

VARIABLES
  requests, cancels, \* asked for so far
  created,   \* operations 1..created exist
  key,       \* per operation: its path, URL or file name
  state,     \* per operation: 0 idle, 1 started, 2 cancelled, 3 done
  paths,     \* uploadOperationPaths and loadOperationPaths: the operation of a key
  waiting,   \* uploadOperationQueue, dwonloadOperationQueue, loadOperationQueue
  count,     \* currentUploadOperationsCount and currentLoadOperationsCount
  tasks,     \* tasks of fileLoaderQueue
  thread,    \* what fileLoaderQueue's thread is in the middle of
  cacheOut,  \* loads with a task in cacheOutQueue
  stage,     \* loads with a failure in stageQueue
  online     \* is XMPP connected and authenticated?

asked == <<requests, cancels>>
opVars == <<created, key, paths>>
loadVars == <<cacheOut, stage>>
vars == <<asked, opVars, state, waiting, count, tasks, thread, loadVars, online>>

Free == [at |-> "free"]
Task ==
  [do : {"request", "cancel"}, key : Key] \cup [do : {"release"}, op : Op]
Thread == {Free} \cup [at : {"transfer", "await", "announce"}, op : Op]

TypeOK ==
  /\ requests \in 0..MaxRequests /\ cancels \in 0..MaxCancels
  /\ created \in 0..MaxRequests
  /\ key \in [1..created -> Key]
  /\ state \in [Op -> 0..3]
  /\ paths \in [Key -> Op \cup {None}]
  /\ waiting \in [Lane -> Seq(Op)]
  /\ count["upload"] \in 0..Slots /\ count["load"] \in Int
  /\ tasks \in Seq(Task)
  /\ thread \in Thread
  /\ cacheOut \subseteq Op /\ stage \subseteq Op
  /\ online \in BOOLEAN

LaneOf(k) ==
  CASE k \in Path -> "upload" [] k \in Url -> "download" [] OTHER -> "load"

-----------------------------------------------------------------------------
(* Asking for transfers, from any thread.                                  *)

Post(task) == tasks' = Append(tasks, task)

\* uploadFile, loadFile
Request(k) ==
  /\ requests < MaxRequests
  /\ requests' = requests + 1
  /\ Post([do |-> "request", key |-> k])
  /\ UNCHANGED <<cancels, opVars, state, waiting, count, thread, loadVars, online>>

\* cancelUploadFile
CancelUpload(k) ==
  /\ cancels < MaxCancels
  /\ cancels' = cancels + 1
  /\ Post([do |-> "cancel", key |-> k])
  /\ UNCHANGED <<requests, opVars, state, waiting, count, thread, loadVars, online>>

\* List.remove: the first occurrence of an operation, if there is one.
WithoutOp(queue, o) ==
  IF \E i \in DOMAIN queue : queue[i] = o
  THEN RemoveAt(queue, CHOOSE i \in DOMAIN queue :
                         queue[i] = o /\ \A j \in 1..(i - 1) : queue[j] # o)
  ELSE queue

\* Mutant: the state is not looked at.
CancelAgain(o, queue) ==
  /\ state' = [state EXCEPT ![o] = 2]
  /\ tasks' = Append(queue, [do |-> "release", op |-> o])

\* FileOperation.cancel and FileLoadOperation.cancel, which call back at
\* once: the slot is given back by a task of its own.
Cancel(o, queue) ==
  IF state[o] = 1
  THEN /\ state' = [state EXCEPT ![o] = 2]
       /\ tasks' = Append(queue, [do |-> "release", op |-> o])
  ELSE UNCHANGED state /\ tasks' = queue

\* cancelLoadFile, on the thread of its caller.
CancelLoad(k) ==
  /\ cancels < MaxCancels /\ paths[k] # None
  /\ cancels' = cancels + 1
  /\ waiting' = [waiting EXCEPT !["load"] = WithoutOp(@, paths[k])]
  /\ Cancel(paths[k], tasks)
  /\ UNCHANGED <<requests, opVars, count, thread, loadVars, online>>

-----------------------------------------------------------------------------
(* The thread of fileLoaderQueue.                                          *)

\* start of a FileOperation, which keeps the thread, or of a
\* FileLoadOperation, which fails later or, as its request is commented out,
\* stays as it is.
Start(o, k) ==
  /\ state' = [state EXCEPT ![o] = 1]
  /\ IF LaneOf(k) = "load"
     THEN /\ UNCHANGED thread
          /\ \/ UNCHANGED <<cacheOut, stage>>
             \/ cacheOut' = cacheOut \cup {o} /\ UNCHANGED stage
             \/ stage' = stage \cup {o} /\ UNCHANGED cacheOut
     ELSE thread' = [at |-> "transfer", op |-> o] /\ UNCHANGED loadVars

\* A new operation is started if the counter it looks at allows.  A download
\* looks at the uploads and is counted with the loads.
LooksAt(lane) == IF lane = "download" THEN "upload" ELSE lane
CountedAs(lane) == IF lane = "download" THEN "load" ELSE lane

\* Mutant: one more than the limit.
AdmitOneMore(o, k) ==
  LET lane == LaneOf(k)
  IN IF count[LooksAt(lane)] <= Slots
     THEN /\ count' = [count EXCEPT ![CountedAs(lane)] = @ + 1]
          /\ Start(o, k)
          /\ UNCHANGED waiting
     ELSE /\ waiting' = [waiting EXCEPT ![lane] = Append(@, o)]
          /\ UNCHANGED <<count, state, thread, loadVars>>

Admit(o, k) ==
  LET lane == LaneOf(k)
  IN IF count[LooksAt(lane)] < Slots
     THEN /\ count' = [count EXCEPT ![CountedAs(lane)] = @ + 1]
          /\ Start(o, k)
          /\ UNCHANGED waiting
     ELSE /\ waiting' = [waiting EXCEPT ![lane] = Append(@, o)]
          /\ UNCHANGED <<count, state, thread, loadVars>>

TaskIs(do) == thread = Free /\ tasks # <<>> /\ Head(tasks).do = do

\* Mutant: a key in use is not refused.
Acceptable(k) == TRUE

\* The same upload or load is not begun twice; downloads are never found
\* in the map that loadFile searches.
IsNew(k) == k \in Url \/ paths[k] = None

Drop ==
  /\ TaskIs("request") /\ ~IsNew(Head(tasks).key)
  /\ tasks' = Tail(tasks)
  /\ UNCHANGED <<asked, opVars, state, waiting, count, thread, loadVars, online>>

Begin ==
  LET k == Head(tasks).key
      o == created + 1
  IN /\ TaskIs("request") /\ IsNew(k)
     /\ tasks' = Tail(tasks)
     /\ created' = o
     /\ key' = [p \in 1..o |-> IF p = o THEN k ELSE key[p]]
     /\ paths' = IF k \in Url THEN paths ELSE [paths EXCEPT ![k] = o]
     /\ Admit(o, k)
     /\ UNCHANGED <<asked, online>>

\* The task of cancelUploadFile.
CancelTask ==
  LET o == paths[Head(tasks).key]
  IN /\ TaskIs("cancel")
     /\ IF o = None
        THEN tasks' = Tail(tasks) /\ UNCHANGED <<state, waiting>>
        ELSE /\ waiting' = [waiting EXCEPT !["upload"] = WithoutOp(@, o)]
             /\ Cancel(o, Tail(tasks))
     /\ UNCHANGED <<asked, opVars, count, thread, loadVars, online>>

\* Mutant: the next one is left waiting.
ReleaseOnly ==
  LET o    == Head(tasks).op
      lane == LaneOf(key[o])
  IN /\ TaskIs("release")
     /\ tasks' = Tail(tasks)
     /\ paths' = [paths EXCEPT ![key[o]] = None]
     /\ count' = [count EXCEPT ![lane] = @ - 1]
     /\ UNCHANGED <<waiting, state, thread, loadVars, asked, created, key, online>>

\* The task of didFinish... and didFailed...: whatever operation is
\* registered for the key is forgotten, the slot is given back and the first
\* that waits takes it.
Release ==
  LET o    == Head(tasks).op
      lane == LaneOf(key[o])
      left == count[lane] - 1
  IN /\ TaskIs("release")
     /\ tasks' = Tail(tasks)
     /\ paths' = [paths EXCEPT ![key[o]] = None]
     /\ IF left < Slots /\ waiting[lane] # <<>>
        THEN /\ waiting' = [waiting EXCEPT ![lane] = Tail(@)]
             /\ Start(Head(waiting[lane]), key[Head(waiting[lane])])
             /\ UNCHANGED count
        ELSE /\ count' = [count EXCEPT ![lane] = left]
             /\ UNCHANGED <<waiting, state, thread, loadVars>>
     /\ UNCHANGED <<asked, created, key, online>>

At(place) == thread.at = place
Uploading == LaneOf(key[thread.op]) = "upload"

\* The server has answered the POST.
Uploaded ==
  /\ At("transfer") /\ Uploading
  /\ thread' = [thread EXCEPT !.at = "await"]
  /\ UNCHANGED <<asked, opVars, state, waiting, count, tasks, loadVars, online>>

\* downloadFile has stored the message; its delegate is never told.
Downloaded ==
  /\ At("transfer") /\ ~Uploading
  /\ state' = [state EXCEPT ![thread.op] = 3]
  /\ thread' = Free
  /\ UNCHANGED <<asked, opVars, waiting, count, tasks, loadVars, online>>

\* The exception is logged and nobody is told.  A video that has no
\* thumbnail ends a download in the same way.
TransferThrows ==
  /\ At("transfer")
  /\ thread' = Free
  /\ UNCHANGED <<asked, opVars, state, waiting, count, tasks, loadVars, online>>

\* The loop that sleeps until XMPP is connected ends.
Connected ==
  /\ At("await") /\ online
  /\ thread' = [thread EXCEPT !.at = "announce"]
  /\ UNCHANGED <<asked, opVars, state, waiting, count, tasks, loadVars, online>>

\* sendOutOfBandMessage returns, having announced the file or not, or is
\* not called because the answer was not 200.
Finish ==
  /\ At("announce")
  /\ state' = [state EXCEPT ![thread.op] = 3]
  /\ Post([do |-> "release", op |-> thread.op])
  /\ thread' = Free
  /\ UNCHANGED <<asked, opVars, waiting, count, loadVars, online>>

\* The connection is null where the loop, or sendOutOfBandMessage after it,
\* follows the reference again.
ConnectionGone ==
  /\ At("await") \/ At("announce")
  /\ ~online
  /\ thread' = Free
  /\ UNCHANGED <<asked, opVars, state, waiting, count, tasks, loadVars, online>>

-----------------------------------------------------------------------------
(* The other queues and the connection.                                    *)

\* The cached file holds no bitmap for a load that did not want one.
CacheRead(o) ==
  /\ o \in cacheOut
  /\ cacheOut' = cacheOut \ {o}
  /\ stage' = IF state[o] = 1 THEN stage \cup {o} ELSE stage
  /\ UNCHANGED <<asked, opVars, state, waiting, count, tasks, thread, online>>

\* didFailedLoadingFile, of a load that may have been cancelled meanwhile.
LoadFails(o) ==
  /\ o \in stage
  /\ stage' = stage \ {o}
  /\ Post([do |-> "release", op |-> o])
  /\ UNCHANGED <<asked, opVars, state, waiting, count, thread, cacheOut, online>>

ConnectionChanges ==
  /\ online' = ~online
  /\ UNCHANGED <<asked, opVars, state, waiting, count, tasks, thread, loadVars>>

-----------------------------------------------------------------------------
Init ==
  /\ requests = 0 /\ cancels = 0 /\ created = 0
  /\ key = <<>>
  /\ state = [o \in Op |-> 0]
  /\ paths = [k \in Key |-> None]
  /\ waiting = [lane \in Lane |-> <<>>]
  /\ count = [c \in {"upload", "load"} |-> 0]
  /\ tasks = <<>> /\ thread = Free
  /\ cacheOut = {} /\ stage = {}
  /\ online = FALSE

QueueSteps ==
  \/ Drop \/ Begin \/ CancelTask \/ Release
  \/ Uploaded \/ Downloaded \/ TransferThrows
  \/ Connected \/ Finish \/ ConnectionGone

OtherQueues == \E o \in Op : CacheRead(o) \/ LoadFails(o)

Next ==
  \/ \E k \in Key : Request(k)
  \/ \E k \in Path : CancelUpload(k)
  \/ \E k \in Attachment : CancelLoad(k)
  \/ QueueSteps
  \/ OtherQueues
  \/ ConnectionChanges

Spec == Init /\ [][Next]_vars

(***************************************************************************)
(* The threads run what is posted to them, and an HTTP request ends: with  *)
(* an answer or with an exception.                                         *)
(***************************************************************************)
FairSpec == Spec /\ WF_vars(QueueSteps) /\ WF_vars(OtherQueues)

-----------------------------------------------------------------------------
(* Properties.                                                             *)

ToRelease(o) ==
  \E i \in DOMAIN tasks : tasks[i].do = "release" /\ tasks[i].op = o

IsUpload(o) == o <= created /\ key[o] \in Path

\* The uploads that hold a slot: started and not ended, or ended with the
\* task that gives the slot back still queued.
Holding == {o \in Op : IsUpload(o) /\ (state[o] = 1 \/ ToRelease(o))}

Queued(lane) == {waiting[lane][i] : i \in DOMAIN waiting[lane]}

\* currentUploadOperationsCount counts the uploads under way: no slot is
\* given back twice, by an end and a cancellation, and none is given back
\* while its transfer still runs.
UploadsAreCounted == count["upload"] = Cardinality(Holding)

\* A file is not uploaded by two operations at once, however often it is
\* sent, cancelled and sent again.
OneUploadPerPath ==
  \A o, p \in Holding \cup Queued("upload") : key[o] = key[p] => o = p

\* Nobody waits in vain: while an upload or a load waits, two slots of its
\* counter are taken.
WaitsOnlyForSlots ==
  \A lane \in {"upload", "load"} : waiting[lane] # <<>> => count[lane] >= Slots

\* The uploads are a pool of two slots, given out in order.
Uploads == INSTANCE SlotPool WITH busy <- Holding, waiting <- waiting["upload"]
UploadsAreAPool == Uploads!Spec

\* Uploads that threw: they keep their slot until they are cancelled.
Stuck == {o \in Holding : state[o] = 1 /\ (thread = Free \/ thread.op # o)}

\* If XMPP stays connected, an upload that waits is started, unless both
\* slots are held by uploads that threw or it is cancelled.
WaitingUploadStarts ==
  <>[]online =>
    \A o \in Op :
      o \in Queued("upload") ~> o \notin Queued("upload") \/ Cardinality(Stuck) >= Slots
=============================================================================
