-------------------------- MODULE MessageIds_proofs -------------------------
(***************************************************************************)
(* Theorems about MessageIds, for every set of threads and every value of  *)
(* the bounds.                                                             *)
(***************************************************************************)
EXTENDS MessageIds, TLAPS

-----------------------------------------------------------------------------
\* Sequences of rows: what a task taken off or put on the queue leaves.
LEMMA TailOfTasks ==
  ASSUME NEW q \in Seq(Row), q # <<>>
  PROVE  /\ Head(q) \in Row /\ Tail(q) \in Seq(Row)
         /\ Head(q) = q[1] /\ 1 \in DOMAIN q
         /\ \A i \in DOMAIN Tail(q) : i + 1 \in DOMAIN q /\ Tail(q)[i] = q[i + 1]
OBVIOUS

LEMMA AppendedTasks ==
  ASSUME NEW q \in Seq(Row), NEW r \in Row
  PROVE  /\ Append(q, r) \in Seq(Row)
         /\ \A i \in DOMAIN Append(q, r) :
              (i \in DOMAIN q /\ Append(q, r)[i] = q[i]) \/ Append(q, r)[i] = r
OBVIOUS

\* The types of the counter, in memory and saved, and of what threads hold.
Counters ==
  /\ last \in (Base - MaxIds)..Base /\ saved \in (Base - MaxIds)..Base
  /\ hand \in [Thread -> [at : Steps, id : Id]]

LEMMA CountersStep ==
  ASSUME Counters, [Next]_vars
  PROVE  Counters'
<1> USE IdsAssumption DEF Counters, config, prefs
<1>1. ASSUME NEW t \in Thread, OfThread(t)
      PROVE  Counters'
  <2>1. CASE Receive(t) \/ Send(t)
    BY <2>1 DEF Receive, Send, Take, Id, Steps
  <2>2. CASE SaveReceived(t) \/ SaveSent(t)
    BY <2>2 DEF SaveReceived, SaveSent, Save, Goes, Steps
  <2>3. CASE PutReceived(t) \/ Discard(t) \/ PutSent(t)
    BY <2>3 DEF PutReceived, Discard, PutSent, Goes, Steps
  <2>4. QED
    BY <1>1, <2>1, <2>2, <2>3 DEF OfThread
<1>2. CASE SaveElsewhere \/ SaveCleared \/ SaveUser
  BY <1>2 DEF SaveElsewhere, SaveCleared, SaveUser, Save
<1>3. CASE InsertFails \/ Kill
  BY <1>3 DEF InsertFails, Kill, Boot, Id, Steps
<1>4. CASE ResetCounter \/ Reload
  BY <1>4 DEF ResetCounter, Reload, Load
<1>5. CASE UNCHANGED <<last, saved, hand>>
  BY <1>5
<1>6. QED
  BY <1>1, <1>2, <1>3, <1>4, <1>5
  DEF Next, Insert, Logout, Register, Clear, SetUser, vars

\* The types of the flags.
Flags == user \in BOOLEAN /\ known \in BOOLEAN /\ joins \in BOOLEAN

LEMMA FlagsStep ==
  ASSUME Flags, [Next]_vars
  PROVE  Flags'
<1> USE DEF Flags, config, prefs, clearing
<1>1. CASE \E t \in Thread : SaveReceived(t) \/ SaveSent(t)
  BY <1>1, Zenon DEF SaveReceived, SaveSent, Save
<1>2. CASE SaveElsewhere \/ SaveCleared \/ SaveUser
  BY <1>2, Zenon DEF SaveElsewhere, SaveCleared, SaveUser, Save
<1>3. CASE InsertFails \/ Kill
  BY <1>3, Zenon DEF InsertFails, Kill, Boot
<1>4. CASE Logout \/ Register
  BY <1>4, Zenon DEF Logout, Register, Clear
<1>5. CASE SetUser \/ Reload
  BY <1>5, Zenon DEF SetUser, Reload, Load
<1>6. CASE UNCHANGED <<user, known, joins>>
  BY <1>6
<1>7. QED
  BY <1>1, <1>2, <1>3, <1>4, <1>5, <1>6
  DEF Next, OfThread, Receive, Send, Take, PutReceived, Discard, PutSent,
      Insert, ResetCounter, vars

\* The types of the storage thread's queue, the rows and the bookkeeping.
Stores ==
  /\ tasks \in Seq(Row) /\ rows \subseteq Row
  /\ clears \in {"no", "forgotten", "reset", "cleared", "joined"}
  /\ kills \in 0..MaxKills /\ logouts \in 0..MaxLogouts

LEMMA StoresStep ==
  ASSUME Counters, Stores, [Next]_vars
  PROVE  Stores'
<1> USE IdsAssumption DEF Stores, counts
<1>1. ASSUME NEW t \in Thread, PutReceived(t) \/ PutSent(t)
      PROVE  Stores'
  <2>1. [id |-> hand[t].id, early |-> TRUE] \in Row
        /\ [id |-> hand[t].id, early |-> FALSE] \in Row
    BY DEF Counters, Row, Id
  <2>2. tasks' \in Seq(Row)
    BY <1>1, <2>1, AppendedTasks DEF PutReceived, PutSent, Queued
  <2>3. QED
    BY <1>1, <2>2 DEF PutReceived, PutSent, clearing
<1>2. CASE Insert
  BY <1>2, TailOfTasks DEF Insert, clearing
<1>3. CASE InsertFails
  BY <1>3 DEF InsertFails, Boot
<1>4. CASE Kill
  <2>1. kills' \in 0..MaxKills
    BY <1>4 DEF Kill
  <2>2. QED
    BY <1>4, <2>1 DEF Kill, Boot
<1>5. CASE Logout
  <2>1. logouts' \in 0..MaxLogouts
    BY <1>5 DEF Logout
  <2>2. QED
    BY <1>5, <2>1 DEF Logout, Clear
<1>6. CASE Register
  BY <1>6 DEF Register, Clear
<1>7. CASE ResetCounter \/ SaveCleared \/ SetUser \/ SaveUser
  BY <1>7 DEF ResetCounter, SaveCleared, SetUser, SaveUser
<1>8. CASE UNCHANGED <<tasks, rows, clears, kills, logouts>>
  BY <1>8
<1>9. QED
  BY <1>1, <1>2, <1>3, <1>4, <1>5, <1>6, <1>7, <1>8
  DEF Next, OfThread, Receive, Send, Take, SaveReceived, Discard, SaveSent,
      SaveElsewhere, Reload, vars, clearing

\* Every variable of the counter of ids has its type, in every state: what
\* UserConfig, the threads that use it and the database hold.
THEOREM TypeCorrect == Spec => []TypeOK
<1> DEFINE Types == Counters /\ Flags /\ Stores
<1>1. Init => Types
  <2>1. Init => Counters
    BY IdsAssumption DEF Init, Counters, Id, Steps
  <2>2. Init => Flags
    BY DEF Init, Flags
  <2>3. Init => Stores
    BY IdsAssumption DEF Init, Stores
  <2>4. QED
    BY <2>1, <2>2, <2>3
<1>2. Types /\ [Next]_vars => Types'
  BY CountersStep, FlagsStep, StoresStep
<1>3. Types => TypeOK
  BY DEF Counters, Flags, Stores, TypeOK
<1>4. QED
  BY <1>1, <1>2, <1>3, PTL DEF Spec

-----------------------------------------------------------------------------
\* No id has been given out since the counter started.
Fresh ==
  /\ last = Base /\ saved = Base /\ rows = {} /\ tasks = <<>>
  /\ \A t \in Thread : hand[t].at = "idle"

\* Who is logged in, while nobody has logged out: the preferences lose the
\* user only where no account has been used yet.
Users ==
  /\ user => known \/ clears = "joined"
  /\ ~user => ~known
  /\ clears \in {"forgotten", "reset", "cleared"} => ~user

\* The counter, while nobody has logged out: it is at or below the saved one,
\* and it starts again, for a registration, only in a Fresh state.
Counting ==
  /\ last <= saved
  /\ \A t \in Thread : Holds(t) => hand[t].id > last
  /\ \A t \in Thread : hand[t].at = "saved" => hand[t].id > saved
  /\ \A i \in DOMAIN tasks : tasks[i].early => tasks[i].id > saved
  /\ \A r \in rows : r.early => r.id > saved
  /\ ~HasAccount => Fresh

CountInv == logouts = 0 => Users /\ Counting

\* The count of logouts is not taken back.
LEMMA LogoutsGrow ==
  ASSUME TypeOK, [Next]_vars, logouts' = 0
  PROVE  logouts = 0
<1>1. CASE Logout
  BY <1>1, IdsAssumption DEF Logout, TypeOK
<1>2. CASE UNCHANGED logouts
  BY <1>2
<1>3. QED
  BY <1>1, <1>2
  DEF Next, OfThread, Receive, Send, Take, SaveReceived, PutReceived, Discard,
      PutSent, SaveSent, SaveElsewhere, Insert, InsertFails, Kill, Boot,
      Register, Clear, ResetCounter, SaveCleared, SetUser, SaveUser, Reload,
      vars, counts

LEMMA UsersStep ==
  ASSUME TypeOK, Users, logouts = 0, logouts' = 0, [Next]_vars
  PROVE  Users'
<1> USE DEF Users, config, prefs, clearing, counts
<1>1. CASE SaveElsewhere \/ \E t \in Thread : SaveReceived(t) \/ SaveSent(t)
  <2>1. user' = user /\ clears' = clears /\ (~user => ~known')
        /\ (user /\ known => known')
    BY <1>1, Zenon DEF SaveElsewhere, SaveReceived, SaveSent, Save
  <2>2. QED
    BY <2>1
<1>2. CASE SaveCleared \/ SaveUser
  <2>1. known' = user /\ user' = user /\ clears' \in {"no", "cleared"}
    BY <1>2, Zenon DEF SaveCleared, SaveUser, Save, TypeOK
  <2>2. clears = "reset" => ~user
    OBVIOUS
  <2>3. clears' = "cleared" => clears = "reset"
    BY <1>2 DEF SaveCleared, SaveUser
  <2>4. QED
    BY <2>1, <2>2, <2>3
<1>3. CASE InsertFails \/ Kill
  BY <1>3 DEF InsertFails, Kill, Boot
<1>4. CASE Logout
  BY <1>4, IdsAssumption DEF Logout, TypeOK
<1>5. CASE Register \/ ResetCounter \/ SetUser
  BY <1>5 DEF Register, Clear, ResetCounter, SetUser
<1>6. CASE Reload
  BY <1>6 DEF Reload, Load
<1>7. CASE UNCHANGED <<user, known, clears>>
  BY <1>7
<1>8. QED
  BY <1>1, <1>2, <1>3, <1>4, <1>5, <1>6, <1>7
  DEF Next, OfThread, Receive, Send, Take, PutReceived, Discard, PutSent,
      Insert, vars

\* A save writes what is in memory, and no id of a received message is below.
LEMMA SaveKeepsCounting ==
  ASSUME TypeOK, Counting, saved' = last,
         UNCHANGED <<last, tasks, rows>>,
         \A t \in Thread : hand'[t].id = hand[t].id,
         \A t \in Thread : Holds(t)' => Holds(t),
         ~HasAccount' => ~HasAccount /\ UNCHANGED hand
  PROVE  Counting'
<1>1. last \in Int /\ saved \in Int
      /\ \A t \in Thread : hand[t].id \in Int
  BY IdsAssumption DEF TypeOK, Id
<1>2. \A i \in DOMAIN tasks : tasks[i].id \in Int
  <2>1. \A i \in DOMAIN tasks : tasks[i] \in Row
    BY DEF TypeOK
  <2>2. QED
    BY <2>1, IdsAssumption DEF Row, Id
<1>3. \A r \in rows : r.id \in Int
  BY IdsAssumption DEF TypeOK, Row, Id
<1>4. \A t \in Thread : hand'[t].at = "saved" => Holds(t)'
  BY DEF Holds
<1>5. ~HasAccount' => Fresh'
  BY DEF Counting, Fresh
<1>6. QED
  BY <1>1, <1>2, <1>3, <1>4, <1>5 DEF Counting

LEMMA CountingStep ==
  ASSUME TypeOK, Users, Counting, logouts = 0, logouts' = 0, [Next]_vars
  PROVE  Counting'
<1>1. last \in Int /\ saved \in Int /\ tasks \in Seq(Row)
      /\ \A t \in Thread : hand[t].id \in Int
  BY IdsAssumption DEF TypeOK, Id
<1>2. ASSUME NEW t \in Thread, Receive(t) \/ Send(t)
      PROVE  Counting'
  <2>1. HasAccount /\ HasAccount'
    BY <1>2 DEF Receive, Send, Take, HasAccount, clearing, counts
  <2>2. /\ last' = last - 1 /\ UNCHANGED <<saved, tasks, rows>>
        /\ hand'[t].id = last /\ hand'[t].at # "saved"
        /\ \A u \in Thread : u # t => hand'[u] = hand[u]
    BY <1>2 DEF Receive, Send, Take, TypeOK, prefs
  <2>3. QED
    BY <1>1, <2>1, <2>2 DEF Counting, Holds
<1>3. ASSUME NEW t \in Thread, SaveReceived(t) \/ SaveSent(t)
      PROVE  Counting'
  <2>1. HasAccount /\ HasAccount'
    BY <1>3 DEF SaveReceived, SaveSent, Goes, Counting, Fresh, HasAccount, config,
                clearing, counts
  <2>2. /\ saved' = last /\ UNCHANGED <<last, tasks, rows>>
        /\ \A u \in Thread : hand'[u].id = hand[u].id
        /\ \A u \in Thread : Holds(u)' => Holds(u)
    BY <1>3 DEF SaveReceived, SaveSent, Save, Goes, Holds, TypeOK, config
  <2>3. QED
    BY <2>1, <2>2, SaveKeepsCounting
<1>4. CASE SaveElsewhere \/ SaveCleared \/ SaveUser
  <2>1. saved' = last /\ UNCHANGED <<last, tasks, rows, hand>>
    BY <1>4 DEF SaveElsewhere, SaveCleared, SaveUser, Save, config
  <2>2. ~HasAccount' => ~HasAccount
    BY <1>4 DEF SaveElsewhere, SaveCleared, SaveUser, HasAccount, Users, config,
                clearing, counts
  <2>3. QED
    BY <2>1, <2>2, SaveKeepsCounting DEF Holds
<1>5. ASSUME NEW t \in Thread, NEW early \in BOOLEAN,
             \/ early /\ PutReceived(t)
             \/ ~early /\ PutSent(t)
      PROVE  Counting'
  <2>1. HasAccount /\ HasAccount'
    BY <1>5 DEF PutReceived, PutSent, Goes, Counting, Fresh, HasAccount, config,
                clearing, counts
  <2>2. /\ UNCHANGED <<last, saved, rows>>
        /\ \A u \in Thread : hand'[u].id = hand[u].id
        /\ \A u \in Thread : Holds(u)' => Holds(u)
        /\ \A u \in Thread : hand'[u].at = "saved" => hand[u].at = "saved"
    <3>1. PutReceived(t) \/ PutSent(t)
      BY <1>5
    <3>2. \/ hand' = [hand EXCEPT ![t].at = "idle"] /\ hand[t].at = "saved"
          \/ hand' = [hand EXCEPT ![t].at = "queued"] /\ hand[t].at = "sending"
      BY <3>1 DEF PutReceived, PutSent, Goes
    <3>3. UNCHANGED <<last, saved, rows>>
      BY <3>1 DEF PutReceived, PutSent, config, prefs
    <3>4. QED
      BY <3>2, <3>3 DEF Holds, TypeOK
  <2>3. tasks' = Append(tasks, [id |-> hand[t].id, early |-> early])
    BY <1>5 DEF PutReceived, PutSent, Queued
  <2>4. early => hand[t].id > saved
    BY <1>5 DEF PutReceived, Goes, Counting
  <2>5. [id |-> hand[t].id, early |-> early] \in Row
    BY DEF TypeOK, Row
  <2>6. \A i \in DOMAIN tasks' : tasks'[i].early => tasks'[i].id > saved
    BY <1>1, <2>3, <2>4, <2>5, AppendedTasks DEF Counting
  <2>7. QED
    BY <2>1, <2>2, <2>6 DEF Counting
<1>6. ASSUME NEW t \in Thread, Discard(t)
      PROVE  Counting'
  <2>1. HasAccount /\ HasAccount'
    BY <1>6 DEF Discard, Goes, Counting, Fresh, HasAccount, config, clearing, counts
  <2>2. QED
    BY <1>6, <2>1 DEF Discard, Goes, Holds, TypeOK, config, prefs, Counting
<1>7. CASE Insert
  <2>1. HasAccount /\ HasAccount'
    BY <1>7 DEF Insert, Counting, Fresh, HasAccount, config, clearing, counts
  <2>2. UNCHANGED <<last, saved, hand>>
    BY <1>7 DEF Insert, config, prefs
  <2>3. \A i \in DOMAIN tasks' : tasks'[i].early => tasks'[i].id > saved
    BY <1>1, <1>7, TailOfTasks DEF Insert, Counting
  <2>4. \A r \in rows' : r.early => r.id > saved
    BY <1>1, <1>7, TailOfTasks DEF Insert, Counting
  <2>5. QED
    BY <2>1, <2>2, <2>3, <2>4 DEF Counting, Holds
<1>8. CASE InsertFails \/ Kill
  <2>1. /\ last' = saved /\ UNCHANGED <<saved, rows>> /\ tasks' = <<>>
        /\ \A t \in Thread : hand'[t].at = "idle"
        /\ user' = known /\ clears' = "no"
    BY <1>8 DEF InsertFails, Kill, Boot, prefs
  <2>2. ~HasAccount' => ~HasAccount
    BY <2>1 DEF HasAccount, Users
  <2>3. ~HasAccount' => Fresh'
    BY <2>1, <2>2 DEF Counting, Fresh
  <2>4. QED
    BY <1>1, <2>1, <2>3 DEF Counting, Holds
<1>9. CASE Logout
  BY <1>9, IdsAssumption DEF Logout, TypeOK
<1>10. CASE Register \/ ResetCounter \/ SetUser \/ Reload
  <2>1. Fresh
    <3>1. ~user
      BY <1>10 DEF Register, ResetCounter, SetUser, Reload, Users
    <3>2. QED
      BY <3>1 DEF Counting, HasAccount
  <2>2. last' = Base /\ UNCHANGED <<saved, hand, tasks, rows>>
    BY <1>10, <2>1 DEF Register, Clear, ResetCounter, SetUser, Reload, Load, Fresh, prefs
  <2>3. QED
    BY <1>1, <2>1, <2>2 DEF Counting, Fresh, Holds
<1>11. CASE UNCHANGED vars
  BY <1>11 DEF vars, Counting, Fresh, Holds, HasAccount
<1>12. QED
  BY <1>2, <1>3, <1>4, <1>5, <1>6, <1>7, <1>8, <1>9, <1>10, <1>11 DEF Next, OfThread

\* The invariant is inductive.
LEMMA CountInvHolds == Spec => []CountInv
<1>1. Init => CountInv
  BY IdsAssumption DEF Init, CountInv, Users, Counting, Fresh, Holds, HasAccount
<1>2. TypeOK /\ CountInv /\ [Next]_vars => CountInv'
  BY LogoutsGrow, UsersStep, CountingStep DEF CountInv
<1>3. QED
  BY <1>1, <1>2, TypeCorrect, PTL DEF Spec

\* A received message keeps its id for good: in every state the saved counter
\* is below it, so that no later process gives it to another message.
THEOREM ReceivedIdsSpent == Spec => []ReceivedIdsAreSpent
<1>1. CountInv => ReceivedIdsAreSpent
  BY DEF CountInv, Counting, ReceivedIdsAreSpent
<1>2. QED
  BY <1>1, CountInvHolds, PTL

\* The saved counter never goes back before somebody logs out, whatever order
\* the saves, loads, registrations and kills come in.
THEOREM SavedFalls == Spec => SavedNeverGoesBack
<1>1. TypeOK /\ CountInv /\ [Next]_vars => [saved' <= saved \/ logouts > 0]_vars
  <2> SUFFICES ASSUME TypeOK, CountInv, [Next]_vars, logouts = 0
               PROVE  saved' <= saved
    BY IdsAssumption DEF TypeOK
  <2>1. saved \in Int /\ last <= saved
    BY IdsAssumption DEF TypeOK, CountInv, Counting
  <2>2. saved' \in {saved, last}
    BY DEF Next, OfThread, Receive, Send, Take, SaveReceived, PutReceived,
           Discard, PutSent, SaveSent, SaveElsewhere, Save, Insert, InsertFails,
           Kill, Boot, Logout, Register, Clear, ResetCounter, SaveCleared,
           SetUser, SaveUser, Reload, vars, prefs
  <2>3. QED
    BY <2>1, <2>2
<1>2. QED
  BY <1>1, TypeCorrect, CountInvHolds, PTL DEF Spec, SavedNeverGoesBack

\* When no logout and no registration is under way, memory and preferences
\* agree on whether there is a user: a killed process comes back as it was.
THEOREM SameUser == Spec => []SameUserAfterRestart
<1>1. Init => SameUserAfterRestart
  BY DEF Init, SameUserAfterRestart
<1>2. TypeOK /\ SameUserAfterRestart /\ [Next]_vars => SameUserAfterRestart'
  <2> SUFFICES ASSUME TypeOK, SameUserAfterRestart, [Next]_vars
               PROVE  SameUserAfterRestart'
    OBVIOUS
  <2> USE DEF SameUserAfterRestart
  <2>1. CASE SaveElsewhere \/ \E t \in Thread : SaveReceived(t) \/ SaveSent(t)
    BY <2>1, Zenon DEF SaveElsewhere, SaveReceived, SaveSent, Save, config, clearing,
                       TypeOK
  <2>2. CASE SaveCleared \/ SaveUser
    BY <2>2, Zenon DEF SaveCleared, SaveUser, Save, config, TypeOK
  <2>3. CASE InsertFails \/ Kill
    BY <2>3 DEF InsertFails, Kill, Boot, prefs
  <2>4. CASE Logout \/ Register \/ ResetCounter \/ SetUser
    BY <2>4 DEF Logout, Register, Clear, ResetCounter, SetUser, clearing
  <2>5. CASE Reload
    BY <2>5, Zenon DEF Reload, Load, prefs, clearing, TypeOK
  <2>6. CASE UNCHANGED <<user, known, clears>>
    BY <2>6
  <2>7. QED
    BY <2>1, <2>2, <2>3, <2>4, <2>5, <2>6
    DEF Next, OfThread, Receive, Send, Take, PutReceived, Discard, PutSent,
        Insert, vars, config, prefs, clearing
<1>3. QED
  BY <1>1, <1>2, TypeCorrect, PTL DEF Spec

-----------------------------------------------------------------------------
\* What threads hold and what is queued are different ids above the counter.
Differ ==
  /\ \A t \in Thread : Holds(t) => hand[t].id > last
  /\ \A t, u \in Thread :
       Holds(t) /\ Holds(u) /\ t # u => hand[t].id # hand[u].id
  /\ \A i \in DOMAIN tasks :
       /\ tasks[i].id > last
       /\ \A t \in Thread : Holds(t) => hand[t].id # tasks[i].id
       /\ \A j \in DOMAIN tasks : i # j => tasks[i].id # tasks[j].id

\* A step that takes no id and queues nothing.
LEMMA NothingTaken ==
  ASSUME Differ, UNCHANGED <<last, tasks>>,
         \A t \in Thread : hand'[t].id = hand[t].id,
         \A t \in Thread : Holds(t)' => Holds(t)
  PROVE  Differ'
BY DEF Differ

\* A step after which nobody holds an id and nothing is queued.
LEMMA NothingInFlight ==
  ASSUME tasks' = <<>>, \A t \in Thread : hand'[t].at = "idle"
  PROVE  Differ'
BY DEF Differ, Holds

LEMMA DifferStep ==
  ASSUME TypeOK, Users, Counting, Differ, logouts = 0, logouts' = 0, [Next]_vars
  PROVE  Differ'
<1>1. last \in Int /\ tasks \in Seq(Row) /\ \A t \in Thread : hand[t].id \in Int
  BY IdsAssumption DEF TypeOK, Id
<1>2. \A i \in DOMAIN tasks : tasks[i].id \in Int
  <2>1. \A i \in DOMAIN tasks : tasks[i] \in Row
    BY <1>1
  <2>2. QED
    BY <2>1, IdsAssumption DEF Row, Id
<1>3. ASSUME NEW t \in Thread, Receive(t) \/ Send(t)
      PROVE  Differ'
  <2>1. /\ last' = last - 1 /\ UNCHANGED tasks
        /\ hand'[t].id = last
        /\ \A u \in Thread : u # t => hand'[u] = hand[u]
    BY <1>3 DEF Receive, Send, Take, TypeOK
  <2>2. \A u \in Thread : Holds(u)' => u = t \/ Holds(u)
    BY <2>1 DEF Holds
  <2>3. \A u \in Thread : Holds(u)' => hand'[u].id > last'
    BY <1>1, <2>1, <2>2 DEF Differ
  <2>4. \A u \in Thread : Holds(u)' /\ u # t => hand'[u].id > last
    BY <2>1, <2>2 DEF Differ
  <2>5. \A u, v \in Thread :
          Holds(u)' /\ Holds(v)' /\ u # v => hand'[u].id # hand'[v].id
    BY <1>1, <2>1, <2>2, <2>4 DEF Differ
  <2>6. \A i \in DOMAIN tasks :
          /\ tasks[i].id > last'
          /\ \A u \in Thread : Holds(u)' => hand'[u].id # tasks[i].id
    BY <1>1, <1>2, <2>1, <2>2 DEF Differ
  <2>7. QED
    BY <2>1, <2>3, <2>5, <2>6 DEF Differ
<1>4. ASSUME NEW t \in Thread, SaveReceived(t) \/ SaveSent(t) \/ Discard(t)
      PROVE  Differ'
  <2>1. UNCHANGED <<last, tasks>>
    BY <1>4 DEF SaveReceived, SaveSent, Discard, config
  <2>2. /\ \A u \in Thread : hand'[u].id = hand[u].id
        /\ \A u \in Thread : Holds(u)' => Holds(u)
    <3>1. hand[t].at \in {"received", "queued"}
      BY <1>4 DEF SaveReceived, SaveSent, Discard, Goes
    <3>2. PICK to \in {"saved", "idle"} : hand' = [hand EXCEPT ![t].at = to]
      BY <1>4 DEF SaveReceived, SaveSent, Discard, Goes
    <3>3. hand[t].at = "queued" => to = "idle"
      BY <1>4, <3>2 DEF SaveReceived, SaveSent, Discard, Goes, TypeOK
    <3>4. /\ hand'[t].id = hand[t].id /\ hand'[t].at = to
          /\ \A u \in Thread : u # t => hand'[u] = hand[u]
      BY <3>2 DEF TypeOK
    <3>5. QED
      BY <3>1, <3>3, <3>4 DEF Holds
  <2>3. QED
    BY <2>1, <2>2, NothingTaken
<1>5. ASSUME NEW t \in Thread, PutReceived(t) \/ PutSent(t)
      PROVE  Differ'
  <2>1. PICK early \in BOOLEAN : tasks' = Append(tasks, [id |-> hand[t].id, early |-> early])
    BY <1>5 DEF PutReceived, PutSent, Queued
  <2>2. [id |-> hand[t].id, early |-> early] \in Row
    BY DEF TypeOK, Row
  <2>3. UNCHANGED last
    BY <1>5 DEF PutReceived, PutSent, config
  <2>4. Holds(t)
    BY <1>5 DEF PutReceived, PutSent, Goes, Holds
  <2>5. /\ \A u \in Thread : hand'[u].id = hand[u].id
        /\ \A u \in Thread : Holds(u)' => Holds(u) /\ u # t
    <3>1. PICK to \in {"queued", "idle"} : hand' = [hand EXCEPT ![t].at = to]
      BY <1>5 DEF PutReceived, PutSent, Goes
    <3>2. /\ hand'[t].id = hand[t].id /\ hand'[t].at = to
          /\ \A u \in Thread : u # t => hand'[u] = hand[u]
      BY <3>1 DEF TypeOK
    <3>3. QED
      BY <3>2 DEF Holds
  <2>6. \A i \in DOMAIN tasks' :
          \/ i \in DOMAIN tasks /\ tasks'[i] = tasks[i]
          \/ i = Len(tasks) + 1 /\ tasks'[i].id = hand[t].id
    BY <1>1, <2>1, <2>2
  <2>7. \A i \in DOMAIN tasks' :
          /\ tasks'[i].id > last'
          /\ \A u \in Thread : Holds(u)' => hand'[u].id # tasks'[i].id
    BY <2>3, <2>4, <2>5, <2>6 DEF Differ
  <2>8. \A i, j \in DOMAIN tasks' : i # j => tasks'[i].id # tasks'[j].id
    BY <2>4, <2>6 DEF Differ
  <2>9. QED
    BY <2>3, <2>5, <2>7, <2>8 DEF Differ
<1>6. CASE Insert
  <2>1. tasks # <<>> /\ tasks' = Tail(tasks) /\ UNCHANGED <<last, hand>>
    BY <1>6 DEF Insert, config
  <2>2. \A i \in DOMAIN tasks' : i + 1 \in DOMAIN tasks /\ tasks'[i] = tasks[i + 1]
    BY <1>1, <2>1, TailOfTasks
  <2>3. \A i \in DOMAIN tasks' : i \in Int
    BY <1>1, <2>1
  <2>4. \A i, j \in DOMAIN tasks' : i # j => tasks'[i].id # tasks'[j].id
    BY <2>2, <2>3 DEF Differ
  <2>5. QED
    BY <2>1, <2>2, <2>4 DEF Differ, Holds
<1>7. CASE InsertFails \/ Kill
  BY <1>7, NothingInFlight DEF InsertFails, Kill, Boot
<1>8. CASE Logout
  BY <1>8, IdsAssumption DEF Logout, TypeOK
<1>9. CASE Register \/ ResetCounter \/ SetUser \/ Reload
  <2>1. Fresh
    <3>1. ~user
      BY <1>9 DEF Register, ResetCounter, SetUser, Reload, Users
    <3>2. QED
      BY <3>1 DEF Counting, HasAccount
  <2>2. UNCHANGED <<hand, tasks>>
    BY <1>9 DEF Register, Clear, ResetCounter, SetUser, Reload
  <2>3. QED
    BY <2>1, <2>2, NothingInFlight DEF Fresh
<1>10. CASE SaveElsewhere \/ SaveCleared \/ SaveUser \/ UNCHANGED vars
  <2>1. UNCHANGED <<last, tasks, hand>>
    BY <1>10 DEF SaveElsewhere, SaveCleared, SaveUser, config, vars
  <2>2. QED
    BY <2>1, NothingTaken DEF Holds
<1>11. QED
  BY <1>3, <1>4, <1>5, <1>6, <1>7, <1>8, <1>9, <1>10 DEF Next, OfThread

\* While nobody logs out, no two threads and no two rows on their way have
\* one id, and the counter is below all of them: getNewMessageId's lock, and
\* the loads of the counter, which only go where no id was given yet.
THEOREM IdsDiffer == Spec => []IdsInFlightDiffer
<1>1. Init => (logouts = 0 => Differ)
  BY DEF Init, Differ, Holds
<1>2. TypeOK /\ CountInv /\ (logouts = 0 => Differ) /\ [Next]_vars
        => (logouts = 0 => Differ)'
  BY LogoutsGrow, DifferStep DEF CountInv
<1>3. (logouts = 0 => Differ) <=> IdsInFlightDiffer
  BY DEF Differ, IdsInFlightDiffer
<1>4. QED
  BY <1>1, <1>2, <1>3, TypeCorrect, CountInvHolds, PTL DEF Spec
=============================================================================
