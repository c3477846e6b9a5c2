----------------------------- MODULE MessageIds -----------------------------
(***************************************************************************)
(* The local ids of messages.  UserConfig counts them down in memory, a    *)
(* save writes the counter to the preferences, a start of the process      *)
(* reads it back.  Threads take an id, store a row under it and save, in   *)
(* one order or the other; MessagesStorage inserts the rows on its own     *)
(* thread, where an id that has a row already ends the process.  Logging   *)
(* out starts the count again and leaves the rows.                         *)
(***************************************************************************)
EXTENDS Integers, Sequences, FiniteSets

CONSTANTS
  Thread,     \* the threads that send or receive
  Base,       \* the first id: -210000
  MaxIds,     \* bound: ids below Base
  MaxTasks,   \* bound: rows waiting for the storage thread
  MaxKills,   \* bound: times the process is killed
  MaxLogouts  \* bound: times the user logs out

ASSUME IdsAssumption ==
  /\ Base \in Int /\ MaxIds \in Nat /\ MaxTasks \in Nat
  /\ MaxKills \in Nat /\ MaxLogouts \in Nat

VARIABLES
  last,    \* lastSendMessageId
  user,    \* currentUser is not null
  saved,   \* the preference "lastSendMessageId"
  known,   \* the preference "user" is there
  hand,    \* what each thread is doing, and the id it took for it
  tasks,   \* the rows waiting for the storage thread
  rows,    \* the rows of the database
  clears,  \* how far a thread is in clearConfig and after it
  joins,   \* clearConfig was called to register an account
  kills,   \* processes killed so far
  logouts  \* logouts so far

config == <<last, user>>
prefs == <<saved, known>>
counts == <<kills, logouts>>
clearing == <<clears, joins>>
vars == <<last, user, saved, known, hand, tasks, rows, clears, joins, kills,
          logouts>>

Id == (Base - MaxIds)..Base
\* early: the counter was saved before the row was queued.
Row == [id : Id, early : BOOLEAN]

Steps == {"idle",
          "received",  \* an incoming message has its id
          "saved",     \* and the counter is saved
          "sending",   \* an outgoing message or a file has its id
          "queued"}    \* and its row is queued

-----------------------------------------------------------------------------
\* A mutant: a save without a user leaves the stored one alone.
SaveKeepsUser(withFile) ==
  /\ saved' = last
  /\ known' = (known \/ (user /\ withFile))

\* saveConfig holds the lock: it writes what memory has at one moment.  The
\* user is written only by saveConfig(true) and removed by every save that
\* finds none.
Save(withFile) ==
  /\ saved' = last
  /\ known' = (user /\ (withFile \/ known))

\* loadConfig, from the preferences.  It never forgets a user it has.
Load == last' = saved /\ user' = (user \/ known)

\* A mutant: the counter is not read back.
BootFromBase ==
  /\ last' = Base /\ user' = known
  /\ hand' = [t \in Thread |-> [at |-> "idle", id |-> Base]]
  /\ tasks' = <<>>
  /\ clears' = "no"
  /\ UNCHANGED <<prefs, joins, logouts>>

\* A new process has no user until ApplicationLoader has loaded one.
Boot ==
  /\ last' = saved /\ user' = known
  /\ hand' = [t \in Thread |-> [at |-> "idle", id |-> Base]]
  /\ tasks' = <<>>
  /\ clears' = "no"
  /\ UNCHANGED <<prefs, joins, logouts>>

\* Messages are sent and received by somebody who has an account, and come
\* in after a logout too, for it does not end the session.
HasAccount == (user /\ clears # "joined") \/ logouts > 0

\* Mutants: the id is read and counted down without the lock; it is counted up.
TakeUnlocked(t, step) ==
  /\ hand[t].at = "idle" /\ HasAccount
  /\ last > Base - MaxIds /\ Len(tasks) < MaxTasks
  /\ hand' = [hand EXCEPT ![t] = [at |-> step, id |-> last]]
  /\ last' \in {last, last - 1}
  /\ UNCHANGED <<user, prefs, tasks, rows, clearing, counts>>

TakeUpwards(t, step) ==
  /\ hand[t].at = "idle" /\ HasAccount
  /\ last > Base - MaxIds /\ Len(tasks) < MaxTasks
  /\ hand' = [hand EXCEPT ![t] = [at |-> step, id |-> last]]
  /\ last' = last + 1
  /\ UNCHANGED <<user, prefs, tasks, rows, clearing, counts>>

\* getNewMessageId.
Take(t, step) ==
  /\ hand[t].at = "idle" /\ HasAccount
  /\ last > Base - MaxIds /\ Len(tasks) < MaxTasks
  /\ hand' = [hand EXCEPT ![t] = [at |-> step, id |-> last]]
  /\ last' = last - 1
  /\ UNCHANGED <<user, prefs, tasks, rows, clearing, counts>>

Receive(t) == Take(t, "received")
Send(t) == Take(t, "sending")

Goes(t, from, to) == hand[t].at = from /\ hand' = [hand EXCEPT ![t].at = to]

Queued(t, early) == tasks' = Append(tasks, [id |-> hand[t].id, early |-> early])

\* A mutant: nothing is saved before the row is queued.
ReceivedUnsaved(t) ==
  /\ Goes(t, "received", "saved")
  /\ UNCHANGED <<config, prefs, tasks, rows, clearing, counts>>

\* A text or a location that comes in: saved, then stored.
SaveReceived(t) ==
  /\ Goes(t, "received", "saved")
  /\ Save(FALSE)
  /\ UNCHANGED <<config, tasks, rows, clearing, counts>>

PutReceived(t) ==
  /\ Goes(t, "saved", "idle")
  /\ Queued(t, TRUE)
  /\ UNCHANGED <<config, prefs, rows, clearing, counts>>

\* A call that comes in leaves its id unused.
Discard(t) ==
  /\ Goes(t, "received", "idle")
  /\ UNCHANGED <<config, prefs, tasks, rows, clearing, counts>>

\* A message sent, or a file received: stored, then saved.
PutSent(t) ==
  /\ Goes(t, "sending", "queued")
  /\ Queued(t, FALSE)
  /\ UNCHANGED <<config, prefs, rows, clearing, counts>>

SaveSent(t) ==
  /\ Goes(t, "queued", "idle")
  /\ Save(FALSE)
  /\ UNCHANGED <<config, tasks, rows, clearing, counts>>

\* The settings, the files and loadConfig itself save too, at any moment.
SaveElsewhere ==
  /\ \E withFile \in BOOLEAN : Save(withFile)
  /\ UNCHANGED <<config, hand, tasks, rows, clearing, counts>>

Taken(id) == \E r \in rows : r.id = id

\* The task of putMessage: a plain INSERT.
Insert ==
  /\ tasks # <<>> /\ ~Taken(Head(tasks).id)
  /\ rows' = rows \cup {Head(tasks)}
  /\ tasks' = Tail(tasks)
  /\ UNCHANGED <<config, prefs, hand, clearing, counts>>

\* Nothing catches what the INSERT throws, and the process ends.
InsertFails ==
  /\ tasks # <<>> /\ Taken(Head(tasks).id)
  /\ Boot
  /\ UNCHANGED <<rows, kills>>

Kill ==
  /\ kills < MaxKills /\ kills' = kills + 1
  /\ Boot
  /\ UNCHANGED rows

-----------------------------------------------------------------------------
\* clearConfig, for a logout or before an account is registered.  It takes no
\* lock until it saves.
Clear(join) ==
  /\ clears = "no" /\ joins' = join
  /\ user' = FALSE /\ clears' = "forgotten"
  /\ UNCHANGED <<last, prefs, hand, tasks, rows, kills>>

Logout ==
  /\ user /\ logouts < MaxLogouts
  /\ logouts' = logouts + 1
  /\ Clear(FALSE)

Register ==
  /\ ~user
  /\ Clear(TRUE)
  /\ UNCHANGED logouts

ResetCounter ==
  /\ clears = "forgotten"
  /\ last' = Base /\ clears' = "reset"
  /\ UNCHANGED <<user, prefs, hand, tasks, rows, joins, counts>>

SaveCleared ==
  /\ clears = "reset"
  /\ Save(TRUE) /\ clears' = IF joins THEN "cleared" ELSE "no"
  /\ UNCHANGED <<config, hand, tasks, rows, joins, counts>>

SetUser ==
  /\ clears = "cleared"
  /\ user' = TRUE /\ clears' = "joined"
  /\ UNCHANGED <<last, prefs, hand, tasks, rows, joins, counts>>

SaveUser ==
  /\ clears = "joined"
  /\ Save(TRUE) /\ clears' = "no"
  /\ UNCHANGED <<config, hand, tasks, rows, joins, counts>>

\* connectAndAuth finds no user and reads the preferences again.
Reload ==
  /\ ~user
  /\ Load
  /\ UNCHANGED <<prefs, hand, tasks, rows, clearing, counts>>

Init ==
  /\ last = Base /\ saved = Base
  /\ user \in BOOLEAN /\ known = user
  /\ hand = [t \in Thread |-> [at |-> "idle", id |-> Base]]
  /\ tasks = <<>> /\ rows = {}
  /\ clears = "no" /\ joins = FALSE /\ kills = 0 /\ logouts = 0

OfThread(t) ==
  \/ Receive(t) \/ SaveReceived(t) \/ PutReceived(t) \/ Discard(t)
  \/ Send(t) \/ PutSent(t) \/ SaveSent(t)

Next ==
  \/ \E t \in Thread : OfThread(t)
  \/ SaveElsewhere \/ Insert \/ InsertFails \/ Kill
  \/ Logout \/ Register \/ ResetCounter \/ SaveCleared \/ SetUser \/ SaveUser
  \/ Reload

Spec == Init /\ [][Next]_vars

-----------------------------------------------------------------------------
\* Every variable has its type.
TypeOK ==
  /\ last \in (Base - MaxIds)..Base /\ saved \in (Base - MaxIds)..Base
  /\ user \in BOOLEAN /\ known \in BOOLEAN
  /\ hand \in [Thread -> [at : Steps, id : Id]]
  /\ tasks \in Seq(Row) /\ rows \subseteq Row
  /\ clears \in {"no", "forgotten", "reset", "cleared", "joined"}
  /\ joins \in BOOLEAN
  /\ kills \in 0..MaxKills /\ logouts \in 0..MaxLogouts

Holds(t) == hand[t].at \in {"received", "saved", "sending"}

(* While nobody logs out, the ids that threads hold and the ids of the rows *)
(* on their way to the database are all different and all spent: the        *)
(* counter is below each of them (UserConfig.getNewMessageId under the      *)
(* lock, and every reload of the counter that this needs to survive).       *)
IdsInFlightDiffer ==
  logouts = 0 =>
    /\ \A t \in Thread : Holds(t) => hand[t].id > last
    /\ \A t, u \in Thread :
         Holds(t) /\ Holds(u) /\ t # u => hand[t].id # hand[u].id
    /\ \A i \in DOMAIN tasks :
         /\ tasks[i].id > last
         /\ \A t \in Thread : Holds(t) => hand[t].id # tasks[i].id
         /\ \A j \in DOMAIN tasks : i # j => tasks[i].id # tasks[j].id

(* While nobody logs out, a message that was received keeps its id for      *)
(* good: whatever is killed and whenever, the saved counter has passed it,  *)
(* so that no later process gives it to another message.                    *)
ReceivedIdsAreSpent ==
  logouts = 0 =>
    /\ \A t \in Thread : hand[t].at = "saved" => hand[t].id > saved
    /\ \A i \in DOMAIN tasks : tasks[i].early => tasks[i].id > saved
    /\ \A r \in rows : r.early => r.id > saved

(* The saved counter never goes back to ids it has passed, except when      *)
(* somebody has logged out: a save after a restart writes what was loaded,  *)
(* not what the class starts with (UserConfig.lastSendMessageId).           *)
SavedNeverGoesBack == [][saved' <= saved \/ logouts > 0]_vars

(* Whenever nobody is in the middle of logging out or of registering, a     *)
(* process that is killed starts again with a user exactly if it has one    *)
(* now: clearConfig and loadConfig may interleave, and other threads save   *)
(* meanwhile, and the preferences still agree with memory in the end.       *)
SameUserAfterRestart == clears = "no" => (user <=> known)

(* XMPPManager.sendMessage saves the configuration "to save the last        *)
(* message id": no row is queued under an id that has a row already.        *)
NoIdIsUsedTwice == \A i \in DOMAIN tasks : ~Taken(tasks[i].id)
=============================================================================
