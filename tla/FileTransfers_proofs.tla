------------------------- MODULE FileTransfers_proofs -------------------------
(* Theorems about FileTransfers, for any number of requests and            *)
(* cancellations: the counter of uploads is exact, a file is uploaded by   *)
(* one operation, nobody waits in vain, and the uploads are a SlotPool.    *)
EXTENDS FileTransfers, FiniteSetTheorems, TLAPS

-----------------------------------------------------------------------------
(* The invariant.                                                          *)

\* The tasks of a queue that will create an operation.
Requesting(queue) == {i \in DOMAIN queue : queue[i].do = "request"}

Types ==
  /\ requests \in 0..MaxRequests /\ cancels \in 0..MaxCancels
  /\ created \in Nat
  /\ created + Cardinality(Requesting(tasks)) <= requests
  /\ key \in [1..created -> Key]
  /\ state \in [Op -> 0..3]
  /\ paths \in [Key -> Op \cup {None}]
  /\ waiting \in [Lane -> Seq(Op)]
  /\ count \in [{"upload", "load"} -> Int]
  /\ tasks \in Seq(Task)
  /\ thread \in Thread
  /\ cacheOut \subseteq Op /\ stage \subseteq Op
  /\ online \in BOOLEAN

\* Whoever names an operation names one that exists, of the right lane.
Is(o, lane) == o \in 1..created /\ LaneOf(key[o]) = lane

NoneTwice(queue) == \A i, j \in DOMAIN queue : queue[i] = queue[j] => i = j

PathsNamed ==
  \A k \in Key : paths[k] # None => paths[k] \in 1..created /\ key[paths[k]] = k

WaitingNamed ==
  \A lane \in Lane :
    /\ NoneTwice(waiting[lane])
    /\ \A i \in DOMAIN waiting[lane] : Is(waiting[lane][i], lane)

TasksNamed ==
  \A i \in DOMAIN tasks :
    /\ tasks[i].do = "release" => Is(tasks[i].op, "upload") \/ Is(tasks[i].op, "load")
    /\ tasks[i].do = "cancel" => tasks[i].key \in Path

ThreadNamed ==
  thread # Free =>
    /\ Is(thread.op, "upload") \/ Is(thread.op, "download")
    /\ thread.at # "transfer" => Is(thread.op, "upload")

LoadsNamed == \A o \in cacheOut \cup stage : Is(o, "load")

Lanes == PathsNamed /\ WaitingNamed /\ TasksNamed /\ ThreadNamed /\ LoadsNamed

\* An upload holds its path from when it waits until its slot is given back,
\* which one task does.
Releases(queue, o) ==
  \E i \in DOMAIN queue : queue[i].do = "release" /\ queue[i].op = o

ReleasesOnce(queue, o) ==
  \A i, j \in DOMAIN queue :
    /\ queue[i].do = "release" /\ queue[i].op = o
    /\ queue[j].do = "release" /\ queue[j].op = o
    => i = j

Owns(o) == paths[key[o]] = o

NewAreIdle == \A o \in Op : o > created => state[o] = 0

WaitingOwn ==
  \A i \in DOMAIN waiting["upload"] :
    state[waiting["upload"][i]] = 0 /\ Owns(waiting["upload"][i])

EndsOnce ==
  \A o \in Op : Is(o, "upload") =>
    /\ state[o] = 1 => Owns(o)
    /\ Releases(tasks, o) => state[o] \in {2, 3} /\ Owns(o)
    /\ ReleasesOnce(tasks, o)

ThreadWorks == thread # Free /\ Is(thread.op, "upload") => state[thread.op] = 1

Lives == NewAreIdle /\ WaitingOwn /\ EndsOnce /\ ThreadWorks

\* The uploads are counted, within the limit.
Counted == UploadsAreCounted /\ count["upload"] <= Slots

Inv == Types /\ Lanes /\ Lives /\ Counted /\ WaitsOnlyForSlots

-----------------------------------------------------------------------------
(* Keys, queues of tasks and queues of operations.                         *)

LEMMA LaneOfKey ==
  ASSUME NEW k \in Key
  PROVE  /\ LaneOf(k) \in Lane
         /\ LaneOf(k) = "upload" <=> k \in Path
         /\ LaneOf(k) = "download" <=> k \in Url
         /\ LaneOf(k) = "load" <=> k \in Attachment
BY TransfersAssumption DEF Key, LaneOf, Lane

LEMMA TasksMade ==
  /\ \A k \in Key : [do |-> "request", key |-> k] \in Task
  /\ \A k \in Key : [do |-> "cancel", key |-> k] \in Task
  /\ \A o \in Op : [do |-> "release", op |-> o] \in Task
BY DEF Task

LEMMA TaskFields ==
  ASSUME NEW t \in Task
  PROVE  /\ t.do \in {"request", "cancel", "release"}
         /\ t.do \in {"request", "cancel"} => t.key \in Key
         /\ t.do = "release" => t.op \in Op
BY DEF Task

LEMMA RequestingIsFinite ==
  ASSUME NEW q \in Seq(Task)
  PROVE  IsFiniteSet(Requesting(q)) /\ Cardinality(Requesting(q)) \in Nat
<1>1. IsFiniteSet(1..Len(q))
  BY FS_Interval
<1>2. Requesting(q) \subseteq 1..Len(q)
  BY DEF Requesting
<1>3. IsFiniteSet(Requesting(q))
  BY <1>1, <1>2, FS_Subset
<1> QED BY <1>3, FS_CardinalityType

\* A task more.
LEMMA AppendTask ==
  ASSUME NEW q \in Seq(Task), NEW t \in Task
  PROVE  /\ Append(q, t) \in Seq(Task)
         /\ \A i \in DOMAIN Append(q, t) :
              Append(q, t)[i] = t \/ (i \in DOMAIN q /\ Append(q, t)[i] = q[i])
         /\ \A o : Releases(Append(q, t), o)
                     <=> Releases(q, o) \/ (t.do = "release" /\ t.op = o)
         /\ \A o : ReleasesOnce(q, o) /\ ~(t.do = "release" /\ t.op = o)
                     => ReleasesOnce(Append(q, t), o)
         /\ \A o : ~Releases(q, o) => ReleasesOnce(Append(q, t), o)
         /\ Cardinality(Requesting(Append(q, t)))
              = Cardinality(Requesting(q)) + IF t.do = "request" THEN 1 ELSE 0
<1>1. /\ Append(q, t) \in Seq(Task) /\ DOMAIN Append(q, t) = 1..(Len(q) + 1)
      /\ \A i \in 1..Len(q) : Append(q, t)[i] = q[i]
      /\ Append(q, t)[Len(q) + 1] = t
      /\ DOMAIN q = 1..Len(q) /\ Len(q) \in Nat
  OBVIOUS
<1>2. Requesting(Append(q, t))
        = IF t.do = "request" THEN Requesting(q) \cup {Len(q) + 1} ELSE Requesting(q)
  BY <1>1 DEF Requesting
<1>3. Len(q) + 1 \notin Requesting(q)
  BY <1>1 DEF Requesting
<1>4. Cardinality(Requesting(Append(q, t)))
        = Cardinality(Requesting(q)) + IF t.do = "request" THEN 1 ELSE 0
  <2>1. CASE t.do = "request"
    BY <2>1, <1>2, <1>3, RequestingIsFinite, FS_AddElement
  <2>2. CASE t.do # "request"
    BY <2>2, <1>2, RequestingIsFinite
  <2> QED BY <2>1, <2>2
<1> DEFINE a == Append(q, t)
<1> HIDE DEF a
<1>5. /\ DOMAIN a = 1..(Len(q) + 1) /\ DOMAIN q = 1..Len(q) /\ Len(q) \in Nat
      /\ \A i \in 1..Len(q) : a[i] = q[i]
      /\ a[Len(q) + 1] = t
  BY <1>1 DEF a
<1>6. \A i \in DOMAIN a : a[i] = t \/ (i \in DOMAIN q /\ a[i] = q[i])
  BY <1>5
<1>7. \A o : Releases(a, o) <=> Releases(q, o) \/ (t.do = "release" /\ t.op = o)
  <2> TAKE o
  <2>1. ASSUME Releases(a, o)
        PROVE  Releases(q, o) \/ (t.do = "release" /\ t.op = o)
    BY <2>1, <1>6 DEF Releases
  <2>2. ASSUME Releases(q, o)
        PROVE  Releases(a, o)
    <3>1. PICK i \in 1..Len(q) : q[i].do = "release" /\ q[i].op = o
      BY <2>2, <1>5 DEF Releases
    <3>2. i \in DOMAIN a /\ a[i] = q[i]
      BY <1>5, <3>1
    <3> QED BY <3>1, <3>2 DEF Releases
  <2>3. ASSUME t.do = "release" /\ t.op = o
        PROVE  Releases(a, o)
    <3>1. Len(q) + 1 \in DOMAIN a
      BY <1>5
    <3> QED BY <3>1, <2>3, <1>5 DEF Releases
  <2> QED BY <2>1, <2>2, <2>3
<1>8. \A o : ReleasesOnce(q, o) /\ ~(t.do = "release" /\ t.op = o) => ReleasesOnce(a, o)
  BY <1>6 DEF ReleasesOnce
<1>9. \A o : ~Releases(q, o) => ReleasesOnce(a, o)
  BY <1>5 DEF Releases, ReleasesOnce
<1> QED BY <1>1, <1>4, <1>6, <1>7, <1>8, <1>9 DEF a

\* A task less.
LEMMA TailTask ==
  ASSUME NEW q \in Seq(Task), q # <<>>
  PROVE  /\ Head(q) \in Task /\ Tail(q) \in Seq(Task)
         /\ 1 \in DOMAIN q /\ Head(q) = q[1]
         /\ \A i \in DOMAIN Tail(q) : i + 1 \in DOMAIN q /\ Tail(q)[i] = q[i + 1]
         /\ \A o : Releases(q, o)
                     <=> \/ Releases(Tail(q), o)
                         \/ (Head(q).do = "release" /\ Head(q).op = o)
         /\ \A o : ReleasesOnce(q, o) => ReleasesOnce(Tail(q), o)
         /\ \A o : ReleasesOnce(q, o) /\ Head(q).do = "release" /\ Head(q).op = o
                     => ~Releases(Tail(q), o)
         /\ Cardinality(Requesting(q))
              = Cardinality(Requesting(Tail(q)))
                  + IF Head(q).do = "request" THEN 1 ELSE 0
<1>1. /\ Head(q) \in Task /\ Tail(q) \in Seq(Task)
      /\ DOMAIN q = 1..Len(q) /\ Len(q) \in Nat /\ Len(q) > 0
      /\ DOMAIN Tail(q) = 1..(Len(q) - 1)
      /\ Head(q) = q[1]
      /\ \A i \in 1..(Len(q) - 1) : Tail(q)[i] = q[i + 1]
  OBVIOUS
<1>2. \A i \in 2..Len(q) : i - 1 \in 1..(Len(q) - 1) /\ q[i] = Tail(q)[i - 1]
  BY <1>1
<1>3. \A o : Releases(q, o)
               <=> Releases(Tail(q), o) \/ (Head(q).do = "release" /\ Head(q).op = o)
  <2> TAKE o
  <2>1. ASSUME Releases(q, o)
        PROVE  Releases(Tail(q), o) \/ (Head(q).do = "release" /\ Head(q).op = o)
    <3>1. PICK i \in 1..Len(q) : q[i].do = "release" /\ q[i].op = o
      BY <2>1, <1>1 DEF Releases
    <3>2. CASE i = 1
      BY <3>1, <3>2, <1>1
    <3>3. CASE i # 1
      <4>1. i - 1 \in DOMAIN Tail(q) /\ Tail(q)[i - 1] = q[i]
        BY <3>3, <1>1, <1>2
      <4> QED BY <3>1, <4>1 DEF Releases
    <3> QED BY <3>2, <3>3
  <2>2. ASSUME Releases(Tail(q), o) \/ (Head(q).do = "release" /\ Head(q).op = o)
        PROVE  Releases(q, o)
    BY <2>2, <1>1 DEF Releases
  <2> QED BY <2>1, <2>2
<1>4. \A o : ReleasesOnce(q, o) => ReleasesOnce(Tail(q), o)
  <2> SUFFICES ASSUME NEW o, ReleasesOnce(q, o),
                      NEW i \in DOMAIN Tail(q), NEW j \in DOMAIN Tail(q),
                      Tail(q)[i].do = "release" /\ Tail(q)[i].op = o,
                      Tail(q)[j].do = "release" /\ Tail(q)[j].op = o
               PROVE  i = j
    BY DEF ReleasesOnce
  <2>1. i + 1 \in DOMAIN q /\ j + 1 \in DOMAIN q /\ i \in Int /\ j \in Int
    BY <1>1
  <2>2. i + 1 = j + 1
    BY <1>1, <2>1 DEF ReleasesOnce
  <2> QED BY <2>1, <2>2
<1>5. \A o : ReleasesOnce(q, o) /\ Head(q).do = "release" /\ Head(q).op = o
               => ~Releases(Tail(q), o)
  <2> SUFFICES ASSUME NEW o, ReleasesOnce(q, o), Head(q).do = "release", Head(q).op = o,
                      NEW i \in DOMAIN Tail(q),
                      Tail(q)[i].do = "release", Tail(q)[i].op = o
               PROVE  FALSE
    BY DEF Releases
  <2>1. i + 1 \in DOMAIN q /\ 1 \in DOMAIN q /\ i \in Nat \ {0}
    BY <1>1
  <2>2. i + 1 = 1
    BY <1>1, <2>1 DEF ReleasesOnce
  <2> QED BY <2>1, <2>2
<1>6. Cardinality(Requesting(q))
        = Cardinality(Requesting(Tail(q))) + IF Head(q).do = "request" THEN 1 ELSE 0
  <2> DEFINE R == Requesting(q)
             T == Requesting(Tail(q))
             f == [i \in T |-> i + 1]
  <2>1. IsFiniteSet(R) /\ IsFiniteSet(T) /\ IsFiniteSet(R \ {1})
    BY <1>1, RequestingIsFinite, FS_RemoveElement
  <2>2. \A i \in T : i \in Int /\ f[i] \in R \ {1}
    BY <1>1 DEF Requesting
  <2>3. \A i \in R \ {1} : i - 1 \in T /\ f[i - 1] = i
    BY <1>1, <1>2 DEF Requesting
  <2>4. f \in Bijection(T, R \ {1})
    <3>1. f \in [T -> R \ {1}]
      BY <2>2
    <3>2. \A i, j \in T : f[i] = f[j] => i = j
      BY <2>2
    <3>3. \A i \in R \ {1} : \E j \in T : f[j] = i
      BY <2>3
    <3> QED BY <3>1, <3>2, <3>3 DEF Bijection, Injection, Surjection, IsInjective
  <2>5. Cardinality(T) = Cardinality(R \ {1})
    BY <2>1, <2>4, FS_Bijection DEF ExistsBijection
  <2>6. 1 \in R <=> Head(q).do = "request"
    BY <1>1 DEF Requesting
  <2>7. Cardinality(R) \in Nat
    BY RequestingIsFinite
  <2>8. Cardinality(R \ {1}) = IF 1 \in R THEN Cardinality(R) - 1 ELSE Cardinality(R)
    BY <2>1, FS_RemoveElement
  <2> HIDE DEF R, T
  <2>9. Cardinality(R) = Cardinality(T) + IF Head(q).do = "request" THEN 1 ELSE 0
    BY <2>5, <2>6, <2>7, <2>8
  <2> QED BY <2>9 DEF R, T
<1>7. \A i \in DOMAIN Tail(q) : i + 1 \in DOMAIN q /\ Tail(q)[i] = q[i + 1]
  BY <1>1
<1>8. 1 \in DOMAIN q
  BY <1>1
<1> QED BY <1>1, <1>3, <1>4, <1>5, <1>6, <1>7, <1>8, Zenon

\* Queues of operations in which nobody is twice: one more, the first gone,
\* one taken off.
LEMMA AppendOp ==
  ASSUME NEW q \in Seq(Op), NEW o \in Op, NoneTwice(q), \A i \in DOMAIN q : q[i] # o
  PROVE  /\ Append(q, o) \in Seq(Op) /\ NoneTwice(Append(q, o))
         /\ Append(q, o) # <<>>
         /\ \A i \in DOMAIN Append(q, o) :
              Append(q, o)[i] = o \/ (i \in DOMAIN q /\ Append(q, o)[i] = q[i])
BY DEF NoneTwice

LEMMA TailOp ==
  ASSUME NEW q \in Seq(Op), q # <<>>, NoneTwice(q)
  PROVE  /\ Head(q) \in Op /\ 1 \in DOMAIN q /\ Head(q) = q[1]
         /\ Tail(q) \in Seq(Op) /\ NoneTwice(Tail(q))
         /\ \A i \in DOMAIN Tail(q) :
              i + 1 \in DOMAIN q /\ Tail(q)[i] = q[i + 1] /\ Tail(q)[i] # Head(q)
<1>1. /\ Head(q) \in Op /\ Tail(q) \in Seq(Op) /\ 1 \in DOMAIN q /\ Head(q) = q[1]
      /\ \A i \in DOMAIN Tail(q) :
           i \in Nat \ {0} /\ i + 1 \in DOMAIN q /\ Tail(q)[i] = q[i + 1]
  OBVIOUS
<1>2. \A i \in DOMAIN Tail(q) : Tail(q)[i] # Head(q)
  BY <1>1 DEF NoneTwice
<1>3. NoneTwice(Tail(q))
  <2> SUFFICES ASSUME NEW i \in DOMAIN Tail(q), NEW j \in DOMAIN Tail(q),
                      Tail(q)[i] = Tail(q)[j]
               PROVE  i = j
    BY DEF NoneTwice
  <2>1. i + 1 = j + 1
    BY <1>1 DEF NoneTwice
  <2> QED BY <1>1, <2>1
<1> QED BY <1>1, <1>2, <1>3

LEMMA WithoutSomeOp ==
  ASSUME NEW q \in Seq(Op), NoneTwice(q), NEW n \in DOMAIN q
  PROVE  WithoutOp(q, q[n]) = RemoveAt(q, n)
<1>1. \A i \in DOMAIN q : q[i] = q[n] <=> i = n
  BY DEF NoneTwice
<1>2. \A j \in 1..(n - 1) : q[j] # q[n]
  <2>1. \A j \in 1..(n - 1) : j \in DOMAIN q /\ j # n
    OBVIOUS
  <2> QED BY <2>1, <1>1
<1>3. n = CHOOSE i \in DOMAIN q : q[i] = q[n] /\ \A j \in 1..(i - 1) : q[j] # q[n]
  BY <1>1, <1>2
<1> QED BY <1>3 DEF WithoutOp

LEMMA WithoutOthers ==
  ASSUME NEW q \in Seq(Op), NEW o, \A i \in DOMAIN q : q[i] # o
  PROVE  WithoutOp(q, o) = q
BY DEF WithoutOp

\* The end of a queue.
LEMMA LastOnes ==
  ASSUME NEW q \in Seq(Op), NEW m \in 1..(Len(q) + 1)
  PROVE  /\ SubSeq(q, m, Len(q)) \in Seq(Op)
         /\ Len(SubSeq(q, m, Len(q))) = Len(q) - m + 1
         /\ \A i \in 1..(Len(q) - m + 1) : SubSeq(q, m, Len(q))[i] = q[m + i - 1]
<1>1. \A i \in m..Len(q) : q[i] \in Op
  OBVIOUS
<1> QED BY <1>1

LEMMA RemovedAt ==
  ASSUME NEW q \in Seq(Op), NoneTwice(q), NEW n \in DOMAIN q
  PROVE  /\ RemoveAt(q, n) \in Seq(Op) /\ NoneTwice(RemoveAt(q, n))
         /\ \A i \in DOMAIN RemoveAt(q, n) :
              RemoveAt(q, n)[i] # q[n] /\ \E j \in DOMAIN q : RemoveAt(q, n)[i] = q[j]
<1> DEFINE r == RemoveAt(q, n)
           at(i) == IF i < n THEN i ELSE i + 1
<1>1. /\ n \in 1..Len(q) /\ Len(q) \in Nat /\ DOMAIN q = 1..Len(q)
      /\ \A i \in 1..Len(q) : q[i] \in Op
  OBVIOUS
<1>2. /\ r \in Seq(Op) /\ DOMAIN r = 1..(Len(q) - 1)
      /\ \A i \in 1..(Len(q) - 1) : r[i] = q[at(i)]
  <2>1. /\ SubSeq(q, 1, n - 1) \in Seq(Op) /\ Len(SubSeq(q, 1, n - 1)) = n - 1
        /\ \A i \in 1..(n - 1) : SubSeq(q, 1, n - 1)[i] = q[i]
    BY <1>1
  <2>2. /\ SubSeq(q, n + 1, Len(q)) \in Seq(Op) /\ Len(SubSeq(q, n + 1, Len(q))) = Len(q) - n
        /\ \A i \in 1..(Len(q) - n) : SubSeq(q, n + 1, Len(q))[i] = q[n + i]
    <3>1. PICK m \in 1..(Len(q) + 1) : m = n + 1
      BY <1>1
    <3>2. /\ SubSeq(q, m, Len(q)) \in Seq(Op) /\ Len(SubSeq(q, m, Len(q))) = Len(q) - n
          /\ \A i \in 1..(Len(q) - m + 1) : SubSeq(q, m, Len(q))[i] = q[m + i - 1]
      BY <1>1, <3>1, LastOnes
    <3>3. \A i \in 1..(Len(q) - n) : SubSeq(q, m, Len(q))[i] = q[n + i]
      <4> TAKE i \in 1..(Len(q) - n)
      <4>1. i \in 1..(Len(q) - m + 1) /\ m + i - 1 = n + i
        BY <1>1, <3>1
      <4> QED BY <3>2, <4>1
    <3> QED BY <3>1, <3>2, <3>3
  <2> DEFINE u == SubSeq(q, 1, n - 1)
             v == SubSeq(q, n + 1, Len(q))
  <2> HIDE DEF u, v
  <2>3. /\ u \in Seq(Op) /\ Len(u) = n - 1 /\ \A i \in 1..(n - 1) : u[i] = q[i]
        /\ v \in Seq(Op) /\ Len(v) = Len(q) - n /\ \A i \in 1..(Len(q) - n) : v[i] = q[n + i]
    BY <2>1, <2>2 DEF u, v
  <2>4. /\ u \o v \in Seq(Op) /\ Len(u \o v) = Len(q) - 1
        /\ \A i \in 1..(Len(q) - 1) : (u \o v)[i] = IF i < n THEN u[i] ELSE v[i - (n - 1)]
    <3>1. /\ u \o v \in Seq(Op) /\ Len(u \o v) = Len(u) + Len(v)
          /\ \A i \in 1..(Len(u) + Len(v)) :
               (u \o v)[i] = IF i <= Len(u) THEN u[i] ELSE v[i - Len(u)]
      BY <2>3
    <3> QED BY <3>1, <2>3, <1>1
  <2>5. \A i \in 1..(Len(q) - 1) : (u \o v)[i] = q[at(i)]
    <3> TAKE i \in 1..(Len(q) - 1)
    <3>1. CASE i < n
      BY <3>1, <2>3, <2>4, <1>1
    <3>2. CASE ~(i < n)
      <4>1. i - (n - 1) \in 1..(Len(q) - n) /\ n + (i - (n - 1)) = i + 1
        BY <3>2, <1>1
      <4> QED BY <3>2, <4>1, <2>3, <2>4
    <3> QED BY <3>1, <3>2
  <2>6. r = u \o v
    BY DEF u, v, RemoveAt
  <2> QED BY <2>4, <2>5, <2>6
<1> HIDE DEF r
<1>3. \A i \in DOMAIN r : at(i) \in DOMAIN q /\ at(i) # n
  BY <1>1, <1>2
<1>4. \A i, j \in DOMAIN r : at(i) = at(j) => i = j
  BY <1>1, <1>2
<1>5. \A i \in DOMAIN r : r[i] # q[n] /\ \E j \in DOMAIN q : r[i] = q[j]
  BY <1>2, <1>3 DEF NoneTwice
<1>6. NoneTwice(r)
  BY <1>2, <1>3, <1>4 DEF NoneTwice
<1> QED BY <1>2, <1>5, <1>6 DEF r

\* What is left without an operation, listed or not.
LEMMA Without ==
  ASSUME NEW q \in Seq(Op), NEW o, NoneTwice(q)
  PROVE  /\ WithoutOp(q, o) \in Seq(Op) /\ NoneTwice(WithoutOp(q, o))
         /\ q = <<>> => WithoutOp(q, o) = <<>>
         /\ \A i \in DOMAIN WithoutOp(q, o) :
              /\ WithoutOp(q, o)[i] # o
              /\ \E j \in DOMAIN q : WithoutOp(q, o)[i] = q[j]
<1>1. CASE \E i \in DOMAIN q : q[i] = o
  BY <1>1, WithoutSomeOp, RemovedAt
<1>2. CASE \A i \in DOMAIN q : q[i] # o
  BY <1>2, WithoutOthers
<1> QED BY <1>1, <1>2

-----------------------------------------------------------------------------
(* Types.                                                                  *)

\* The task that the thread takes.
LEMMA TheHead ==
  ASSUME Types, Lanes, tasks # <<>>
  PROVE  /\ Head(tasks) \in Task /\ Tail(tasks) \in Seq(Task)
         /\ Head(tasks).do \in {"request", "cancel"} => Head(tasks).key \in Key
         /\ Head(tasks).do = "cancel" => Head(tasks).key \in Path
         /\ Head(tasks).do = "release" =>
              /\ Head(tasks).op \in Op
              /\ Is(Head(tasks).op, "upload") \/ Is(Head(tasks).op, "load")
<1>1. tasks \in Seq(Task)
  BY DEF Types
<1>2. Head(tasks) \in Task /\ Tail(tasks) \in Seq(Task) /\ 1 \in DOMAIN tasks /\ Head(tasks) = tasks[1]
  BY <1>1, TailTask
<1> QED BY <1>2, TaskFields DEF Lanes, TasksNamed

\* An operation that begins has a number of its own.
LEMMA NewOp ==
  ASSUME Types, Lanes, Begin
  PROVE  /\ created + 1 \in Op /\ created + 1 \notin 1..created
         /\ Head(tasks).key \in Key
         /\ created' = created + 1
         /\ key' \in [1..created' -> Key]
         /\ key'[created + 1] = Head(tasks).key
         /\ \A p \in 1..created : p \in 1..created' /\ key'[p] = key[p]
<1>1. tasks # <<>> /\ Head(tasks).do = "request"
  BY DEF Begin, TaskIs
<1>2. Head(tasks).key \in Key
  BY <1>1, TheHead
<1>3. /\ Cardinality(Requesting(tasks)) = Cardinality(Requesting(Tail(tasks))) + 1
      /\ Cardinality(Requesting(Tail(tasks))) \in Nat
  BY <1>1, TailTask, TheHead, RequestingIsFinite DEF Types
<1>4. created + 1 <= MaxRequests /\ created + 1 \in Op /\ created + 1 \notin 1..created
  BY <1>3, TransfersAssumption DEF Types, Op
<1>5. created' = created + 1
  BY DEF Begin
<1>6. key' = [p \in 1..(created + 1) |-> IF p = created + 1 THEN Head(tasks).key ELSE key[p]]
  BY DEF Begin
<1>7. key' \in [1..created' -> Key] /\ key'[created + 1] = Head(tasks).key
  BY <1>2, <1>5, <1>6 DEF Types
<1>8. \A p \in 1..created : p \in 1..created' /\ key'[p] = key[p]
  BY <1>5, <1>6 DEF Types
<1> QED BY <1>2, <1>4, <1>5, <1>7, <1>8

Started == state' \in [Op -> 0..3] /\ thread' \in Thread /\ cacheOut' \subseteq Op /\ stage' \subseteq Op

LEMMA StartTyped ==
  ASSUME Types, NEW o \in Op, NEW k \in Key, Start(o, k)
  PROVE  Started
<1>1. CASE LaneOf(k) = "load"
  BY <1>1 DEF Start, Started, Types
<1>2. CASE LaneOf(k) # "load"
  BY <1>2 DEF Start, Started, Types, Thread, loadVars
<1> QED BY <1>1, <1>2

LEMMA LanesTyped ==
  ASSUME NEW k \in Key
  PROVE  /\ LooksAt(LaneOf(k)) \in {"upload", "load"}
         /\ CountedAs(LaneOf(k)) \in {"upload", "load"}
BY LaneOfKey DEF LooksAt, CountedAs, Lane

\* Who asks and when.
LEMMA AskedTyped ==
  ASSUME Types, Lanes, [Next]_vars
  PROVE  /\ requests' \in 0..MaxRequests /\ cancels' \in 0..MaxCancels
         /\ created' \in Nat
         /\ created' + Cardinality(Requesting(tasks')) <= requests'
         /\ tasks' \in Seq(Task)
<1> DEFINE Goal == /\ requests' \in 0..MaxRequests /\ cancels' \in 0..MaxCancels
                   /\ created' \in Nat
                   /\ created' + Cardinality(Requesting(tasks')) <= requests'
                   /\ tasks' \in Seq(Task)
<1>1. /\ requests \in 0..MaxRequests /\ cancels \in 0..MaxCancels
      /\ created \in Nat /\ tasks \in Seq(Task)
      /\ created + Cardinality(Requesting(tasks)) <= requests
      /\ Cardinality(Requesting(tasks)) \in Nat
      /\ MaxRequests \in Nat /\ MaxCancels \in Nat
  BY RequestingIsFinite, TransfersAssumption DEF Types
<1>2. ASSUME NEW o \in Op, tasks' = Append(tasks, [do |-> "release", op |-> o])
      PROVE  /\ Cardinality(Requesting(tasks')) = Cardinality(Requesting(tasks))
             /\ tasks' \in Seq(Task)
  <2>1. [do |-> "release", op |-> o] \in Task
    BY TasksMade
  <2> QED BY <1>1, <1>2, <2>1, AppendTask
<1>3. ASSUME tasks # <<>>, tasks' = Tail(tasks)
      PROVE  /\ Cardinality(Requesting(tasks'))
                  = Cardinality(Requesting(tasks)) - IF Head(tasks).do = "request" THEN 1 ELSE 0
             /\ tasks' \in Seq(Task)
  <2>1. Tail(tasks) \in Seq(Task)
    BY <1>1, <1>3, TailTask
  <2>2. Cardinality(Requesting(Tail(tasks))) \in Nat
    BY <2>1, RequestingIsFinite
  <2>3. Cardinality(Requesting(tasks))
          = Cardinality(Requesting(Tail(tasks))) + IF Head(tasks).do = "request" THEN 1 ELSE 0
    BY <1>1, <1>3, TailTask
  <2> QED BY <1>3, <2>1, <2>2, <2>3
<1>4. ASSUME NEW k \in Key, Request(k)
      PROVE  Goal
  <2>1. [do |-> "request", key |-> k] \in Task
    BY TasksMade
  <2> QED BY <1>1, <1>4, <2>1, AppendTask DEF Request, Post, opVars
<1>5. ASSUME NEW k \in Path, CancelUpload(k)
      PROVE  Goal
  <2>1. [do |-> "cancel", key |-> k] \in Task
    BY TasksMade DEF Key
  <2> QED BY <1>1, <1>5, <2>1, AppendTask DEF CancelUpload, Post, opVars
<1>6. ASSUME NEW k \in Attachment, CancelLoad(k)
      PROVE  Goal
  <2>1. paths[k] \in Op
    BY <1>6 DEF CancelLoad, Types, Key
  <2> QED BY <1>1, <1>2, <1>6, <2>1 DEF CancelLoad, Cancel, opVars
<1>7. CASE Drop
  BY <1>1, <1>3, <1>7, RequestingIsFinite DEF Drop, TaskIs, asked, opVars
<1>8. CASE Begin
  BY <1>1, <1>3, <1>8, RequestingIsFinite DEF Begin, TaskIs, asked
<1>9. CASE CancelTask
  <2> DEFINE o == paths[Head(tasks).key]
  <2>1. tasks # <<>> /\ Head(tasks).do = "cancel"
    BY <1>9 DEF CancelTask, TaskIs
  <2>2. o # None => o \in Op
    BY <2>1, TheHead DEF Types
  <2>3. UNCHANGED <<requests, cancels, created>>
    BY <1>9 DEF CancelTask, asked, opVars
  <2>4. \/ tasks' = Tail(tasks)
        \/ o # None /\ tasks' = Append(Tail(tasks), [do |-> "release", op |-> o])
    BY <1>9 DEF CancelTask, Cancel
  <2>5. Tail(tasks) \in Seq(Task) /\ Cardinality(Requesting(Tail(tasks))) = Cardinality(Requesting(tasks))
    <3>1. Tail(tasks) \in Seq(Task)
      BY <1>1, <2>1, TailTask
    <3>2. Cardinality(Requesting(Tail(tasks))) \in Nat
      BY <3>1, RequestingIsFinite
    <3>3. Cardinality(Requesting(tasks)) = Cardinality(Requesting(Tail(tasks))) + 0
      BY <1>1, <2>1, TailTask
    <3> QED BY <3>1, <3>2, <3>3
  <2>6. o # None => [do |-> "release", op |-> o] \in Task
    BY <2>2, TasksMade
  <2> HIDE DEF o
  <2>7. tasks' \in Seq(Task) /\ Cardinality(Requesting(tasks')) = Cardinality(Requesting(tasks))
    <3> DEFINE t == [do |-> "release", op |-> o]
    <3>1. CASE tasks' = Tail(tasks)
      BY <3>1, <2>5
    <3>2. CASE o # None /\ tasks' = Append(Tail(tasks), t)
      <4>1. t \in Task /\ t.do = "release"
        BY <3>2, <2>6
      <4> HIDE DEF t
      <4>2. /\ tasks' \in Seq(Task)
            /\ Cardinality(Requesting(tasks')) = Cardinality(Requesting(Tail(tasks))) + 0
        BY <3>2, <4>1, <2>5, AppendTask
      <4> QED BY <4>2, <2>5, <1>1
    <3> QED BY <3>1, <3>2, <2>4
  <2> QED BY <1>1, <2>3, <2>7
<1>10. CASE Release
  BY <1>1, <1>3, <1>10, RequestingIsFinite DEF Release, TaskIs, asked
<1>11. CASE Finish
  <2>1. thread.op \in Op
    BY <1>11 DEF Finish, At, Types, Thread, Free
  <2> QED BY <1>1, <1>2, <1>11, <2>1 DEF Finish, Post, asked, opVars
<1>12. ASSUME NEW o \in Op, LoadFails(o)
       PROVE  Goal
  BY <1>1, <1>2, <1>12 DEF LoadFails, Post, asked, opVars
<1>13. CASE UNCHANGED <<requests, cancels, created, tasks>>
  BY <1>1, <1>13
<1> QED
  BY <1>4, <1>5, <1>6, <1>7, <1>8, <1>9, <1>10, <1>11, <1>12, <1>13
     DEF Next, QueueSteps, OtherQueues, Uploaded, Downloaded, TransferThrows, Connected,
         ConnectionGone, CacheRead, ConnectionChanges, vars, asked, opVars

\* What an action leaves of the operations, the queues and the thread.
OpsTyped ==
  /\ key' \in [1..created' -> Key]
  /\ state' \in [Op -> 0..3]
  /\ paths' \in [Key -> Op \cup {None}]
  /\ waiting' \in [Lane -> Seq(Op)]
  /\ count' \in [{"upload", "load"} -> Int]
  /\ thread' \in Thread
  /\ cacheOut' \subseteq Op /\ stage' \subseteq Op
  /\ online' \in BOOLEAN

LEMMA WithoutLane ==
  ASSUME Types, Lanes, NEW lane \in Lane, NEW o
  PROVE  [waiting EXCEPT ![lane] = WithoutOp(@, o)] \in [Lane -> Seq(Op)]
BY Without DEF Types, Lanes, WaitingNamed

LEMMA AdmitTyped ==
  ASSUME Types, Lanes, NEW o \in Op, NEW k \in Key, Admit(o, k)
  PROVE  Started /\ waiting' \in [Lane -> Seq(Op)] /\ count' \in [{"upload", "load"} -> Int]
<1>1. CASE count[LooksAt(LaneOf(k))] < Slots
  <2>1. Start(o, k) /\ UNCHANGED waiting
        /\ count' = [count EXCEPT ![CountedAs(LaneOf(k))] = @ + 1]
    BY <1>1 DEF Admit
  <2>2. Started
    BY <2>1, StartTyped
  <2>3. count[CountedAs(LaneOf(k))] + 1 \in Int
    BY LanesTyped DEF Types
  <2> QED BY <2>1, <2>2, <2>3 DEF Types
<1>2. CASE ~(count[LooksAt(LaneOf(k))] < Slots)
  <2>1. UNCHANGED <<count, state, thread, cacheOut, stage>>
        /\ waiting' = [waiting EXCEPT ![LaneOf(k)] = Append(@, o)]
    BY <1>2 DEF Admit, loadVars
  <2>2. LaneOf(k) \in Lane /\ Append(waiting[LaneOf(k)], o) \in Seq(Op)
    BY LaneOfKey DEF Types
  <2> QED BY <2>1, <2>2 DEF Types, Started
<1> QED BY <1>1, <1>2

LEMMA BeginTyped ==
  ASSUME Types, Lanes, Begin
  PROVE  OpsTyped
<1>1. created + 1 \in Op /\ Head(tasks).key \in Key /\ key' \in [1..created' -> Key]
  BY NewOp
<1>2. Admit(created + 1, Head(tasks).key)
  BY DEF Begin
<1>3. Started /\ waiting' \in [Lane -> Seq(Op)] /\ count' \in [{"upload", "load"} -> Int]
  BY <1>1, <1>2, AdmitTyped
<1>4. paths' \in [Key -> Op \cup {None}] /\ online' \in BOOLEAN
  BY <1>1 DEF Begin, Types
<1> QED BY <1>1, <1>3, <1>4 DEF OpsTyped, Started

\* The slot that a task gives back is counted and has a queue.
LEMMA ReleasedLane ==
  ASSUME Types, Lanes, Release
  PROVE  /\ tasks # <<>> /\ Head(tasks).do = "release"
         /\ Head(tasks).op \in Op /\ Head(tasks).op \in 1..created
         /\ key[Head(tasks).op] \in Key
         /\ LaneOf(key[Head(tasks).op]) \in {"upload", "load"}
         /\ waiting[LaneOf(key[Head(tasks).op])] \in Seq(Op)
         /\ count[LaneOf(key[Head(tasks).op])] \in Int
<1>1. tasks # <<>> /\ Head(tasks).do = "release"
  BY DEF Release, TaskIs
<1>2. /\ Head(tasks).op \in Op
      /\ Is(Head(tasks).op, "upload") \/ Is(Head(tasks).op, "load")
  BY <1>1, TheHead
<1> QED BY <1>1, <1>2 DEF Is, Types, Lane

\* The first that waits in a queue.
LEMMA FirstWaits ==
  ASSUME Types, Lanes, NEW lane \in Lane, waiting[lane] # <<>>
  PROVE  /\ Head(waiting[lane]) \in Op /\ Is(Head(waiting[lane]), lane)
         /\ key[Head(waiting[lane])] \in Key
         /\ Tail(waiting[lane]) \in Seq(Op)
         /\ 1 \in DOMAIN waiting[lane] /\ Head(waiting[lane]) = waiting[lane][1]
<1>1. waiting[lane] \in Seq(Op) /\ NoneTwice(waiting[lane])
  BY DEF Types, Lanes, WaitingNamed
<1>2. /\ Head(waiting[lane]) \in Op /\ Tail(waiting[lane]) \in Seq(Op)
      /\ 1 \in DOMAIN waiting[lane] /\ Head(waiting[lane]) = waiting[lane][1]
  BY <1>1, TailOp
<1>3. Is(Head(waiting[lane]), lane)
  BY <1>2 DEF Lanes, WaitingNamed
<1> QED BY <1>2, <1>3 DEF Is, Types

LEMMA ReleaseTyped ==
  ASSUME Types, Lanes, Release
  PROVE  OpsTyped
<1> DEFINE o == Head(tasks).op
           lane == LaneOf(key[o])
<1>1. /\ o \in Op /\ key[o] \in Key /\ lane \in {"upload", "load"} /\ lane \in Lane
      /\ count[lane] \in Int
  BY ReleasedLane DEF Lane
<1>2. /\ paths' = [paths EXCEPT ![key[o]] = None]
      /\ UNCHANGED <<created, key, online>>
      /\ \/ /\ waiting[lane] # <<>>
            /\ waiting' = [waiting EXCEPT ![lane] = Tail(@)]
            /\ Start(Head(waiting[lane]), key[Head(waiting[lane])])
            /\ UNCHANGED count
         \/ /\ count' = [count EXCEPT ![lane] = count[lane] - 1]
            /\ UNCHANGED <<waiting, state, thread, cacheOut, stage>>
  BY DEF Release, loadVars
<1> HIDE DEF o, lane
<1>3. key' \in [1..created' -> Key] /\ paths' \in [Key -> Op \cup {None}] /\ online' \in BOOLEAN
  BY <1>1, <1>2 DEF Types
<1>4. CASE /\ waiting[lane] # <<>>
           /\ waiting' = [waiting EXCEPT ![lane] = Tail(@)]
           /\ Start(Head(waiting[lane]), key[Head(waiting[lane])])
           /\ UNCHANGED count
  <2>1. Started
    BY <1>1, <1>4, FirstWaits, StartTyped
  <2>2. waiting' \in [Lane -> Seq(Op)] /\ count' \in [{"upload", "load"} -> Int]
    BY <1>1, <1>4, FirstWaits DEF Types
  <2> QED BY <1>3, <2>1, <2>2 DEF OpsTyped, Started
<1>5. CASE /\ count' = [count EXCEPT ![lane] = count[lane] - 1]
           /\ UNCHANGED <<waiting, state, thread, cacheOut, stage>>
  <2>1. count' \in [{"upload", "load"} -> Int]
    BY <1>1, <1>5 DEF Types
  <2> QED BY <1>3, <1>5, <2>1 DEF OpsTyped, Types
<1> QED BY <1>2, <1>4, <1>5

LEMMA CancelTyped ==
  ASSUME Types, NEW o, NEW queue, Cancel(o, queue)
  PROVE  state' \in [Op -> 0..3]
<1>1. \/ state' = [state EXCEPT ![o] = 2]
      \/ UNCHANGED state
  BY DEF Cancel
<1> QED BY <1>1 DEF Types

LEMMA OpsStep ==
  ASSUME Types, Lanes, [Next]_vars
  PROVE  OpsTyped
<1> USE DEF OpsTyped
<1>1. ASSUME NEW k \in Attachment, CancelLoad(k)
      PROVE  OpsTyped
  <2>1. waiting' \in [Lane -> Seq(Op)]
    BY <1>1, WithoutLane DEF CancelLoad, Lane
  <2>2. state' \in [Op -> 0..3]
    BY <1>1, CancelTyped DEF CancelLoad
  <2> QED BY <1>1, <2>1, <2>2 DEF CancelLoad, Types, opVars, loadVars
<1>2. CASE CancelTask
  <2>1. waiting' \in [Lane -> Seq(Op)]
    BY <1>2, WithoutLane DEF CancelTask, Lane, Types
  <2>2. state' \in [Op -> 0..3]
    BY <1>2, CancelTyped DEF CancelTask, Types
  <2> QED BY <1>2, <2>1, <2>2 DEF CancelTask, Types, opVars, loadVars
<1>3. CASE Uploaded \/ Downloaded \/ TransferThrows \/ Connected \/ Finish \/ ConnectionGone
  <2>1. thread # Free => thread \in [at : {"transfer", "await", "announce"}, op : Op]
    BY DEF Types, Thread
  <2>2. thread # Free
    BY <1>3 DEF Uploaded, Downloaded, TransferThrows, Connected, Finish, ConnectionGone, At, Free
  <2>3. thread' \in Thread
    BY <1>3, <2>1, <2>2
       DEF Uploaded, Downloaded, TransferThrows, Connected, Finish, ConnectionGone, Thread
  <2>4. state' \in [Op -> 0..3]
    BY <1>3, <2>1, <2>2
       DEF Uploaded, Downloaded, TransferThrows, Connected, Finish, ConnectionGone, Types
  <2> QED
    BY <1>3, <2>3, <2>4
       DEF Uploaded, Downloaded, TransferThrows, Connected, Finish, ConnectionGone, Types,
           opVars, loadVars
<1>4. ASSUME NEW o \in Op, CacheRead(o) \/ LoadFails(o)
      PROVE  OpsTyped
  BY <1>4 DEF CacheRead, LoadFails, Types, opVars
<1>5. CASE ConnectionChanges
  BY <1>5 DEF ConnectionChanges, Types, opVars, loadVars
<1>6. ASSUME NEW k \in Key, Request(k) \/ CancelUpload(k)
      PROVE  OpsTyped
  BY <1>6 DEF Request, CancelUpload, Types, opVars, loadVars
<1>7. CASE Drop \/ UNCHANGED vars
  BY <1>7 DEF Drop, vars, Types, opVars, loadVars
<1> QED
  BY <1>1, <1>2, <1>3, <1>4, <1>5, <1>6, <1>7, BeginTyped, ReleaseTyped
     DEF Next, QueueSteps, OtherQueues, Key

LEMMA TypesStep ==
  ASSUME Types, Lanes, [Next]_vars
  PROVE  Types'
BY AskedTyped, OpsStep DEF Types, OpsTyped

-----------------------------------------------------------------------------
(* Who names whom.                                                         *)

\* An operation stays what it is.
LEMMA OpsStay ==
  ASSUME Types, Lanes, [Next]_vars
  PROVE  \A o \in 1..created : o \in 1..created' /\ key'[o] = key[o]
<1>1. CASE Begin
  BY <1>1, NewOp
<1>2. CASE UNCHANGED <<created, key>>
  BY <1>2
<1> QED
  BY <1>1, <1>2
     DEF Next, QueueSteps, OtherQueues, Request, CancelUpload, CancelLoad, Drop, CancelTask,
         Release, Uploaded, Downloaded, TransferThrows, Connected, Finish, ConnectionGone,
         CacheRead, LoadFails, ConnectionChanges, vars, opVars

\* Is, after the step.
WillBe(o, lane) == o \in 1..created' /\ LaneOf(key'[o]) = lane

LEMMA IsStays ==
  ASSUME Types, Lanes, [Next]_vars
  PROVE  \A o, lane : Is(o, lane) => WillBe(o, lane)
BY OpsStay DEF Is, WillBe

\* The operation that begins is of the lane of its key.
LEMMA BeginsInLane ==
  ASSUME Types, Lanes, Begin
  PROVE  WillBe(created + 1, LaneOf(Head(tasks).key))
<1>1. /\ created' = created + 1 /\ created \in Nat
      /\ key'[created + 1] = Head(tasks).key
  BY NewOp DEF Types
<1>2. created + 1 \in 1..created'
  BY <1>1
<1> QED BY <1>1, <1>2 DEF WillBe

LEMMA PathsNamedStep ==
  ASSUME Types, Lanes, [Next]_vars
  PROVE  PathsNamed'
<1>1. PathsNamed /\ \A k \in Key : paths[k] \in Op \cup {None}
  BY DEF Lanes, Types
<1>2. CASE \A k \in Key : paths'[k] = paths[k] \/ paths'[k] = None
  BY <1>1, <1>2, OpsStay DEF PathsNamed
<1>3. CASE Begin
  <2> DEFINE k == Head(tasks).key
  <2>1. /\ k \in Key /\ key'[created + 1] = k
        /\ created + 1 \in 1..created'
    BY <1>3, NewOp, BeginsInLane DEF WillBe
  <2>2. \A l \in Key : paths'[l] = paths[l] \/ (l = k /\ paths'[l] = created + 1)
    BY <1>3 DEF Begin, Types
  <2> HIDE DEF k
  <2> QED BY <1>1, <2>1, <2>2, OpsStay DEF PathsNamed
<1>4. CASE Release
  <2>1. \A k \in Key : paths'[k] = paths[k] \/ paths'[k] = None
    BY <1>4 DEF Release, Types
  <2> QED BY <1>2, <2>1
<1> QED
  BY <1>2, <1>3, <1>4
     DEF Next, QueueSteps, OtherQueues, Request, CancelUpload, CancelLoad, Drop, CancelTask,
         Uploaded, Downloaded, TransferThrows, Connected, Finish, ConnectionGone,
         CacheRead, LoadFails, ConnectionChanges, vars, opVars

\* An operation taken off a queue.
LEMMA WithoutNamed ==
  ASSUME Types, Lanes, [Next]_vars, NEW lane \in Lane, NEW o,
         waiting' = [waiting EXCEPT ![lane] = WithoutOp(@, o)]
  PROVE  WaitingNamed'
<1>1. WaitingNamed /\ waiting \in [Lane -> Seq(Op)]
  BY DEF Lanes, Types
<1>2. \A l \in Lane : waiting'[l] = IF l = lane THEN WithoutOp(waiting[lane], o) ELSE waiting[l]
  BY <1>1
<1>3. /\ NoneTwice(WithoutOp(waiting[lane], o))
      /\ \A i \in DOMAIN WithoutOp(waiting[lane], o) :
           \E j \in DOMAIN waiting[lane] : WithoutOp(waiting[lane], o)[i] = waiting[lane][j]
  BY <1>1, Without DEF WaitingNamed
<1>4. \A i \in DOMAIN WithoutOp(waiting[lane], o) : WillBe(WithoutOp(waiting[lane], o)[i], lane)
  BY <1>1, <1>3, IsStays DEF WaitingNamed
<1> QED BY <1>1, <1>2, <1>3, <1>4, IsStays DEF WaitingNamed, Is, WillBe

LEMMA WaitingNamedStep ==
  ASSUME Types, Lanes, [Next]_vars
  PROVE  WaitingNamed'
<1>1. WaitingNamed /\ waiting \in [Lane -> Seq(Op)]
  BY DEF Lanes, Types
<1>2. CASE UNCHANGED waiting
  BY <1>1, <1>2, IsStays DEF WaitingNamed, Is, WillBe
<1>3. ASSUME NEW k \in Attachment, CancelLoad(k)
      PROVE  WaitingNamed'
  BY <1>3, WithoutNamed DEF CancelLoad, Lane
<1>4. CASE CancelTask
  <2>1. CASE UNCHANGED waiting
    BY <2>1, <1>2
  <2>2. CASE waiting' = [waiting EXCEPT !["upload"] = WithoutOp(@, paths[Head(tasks).key])]
    BY <2>2, WithoutNamed DEF Lane
  <2> QED BY <1>4, <2>1, <2>2 DEF CancelTask
<1>5. CASE Begin
  <2> DEFINE o == created + 1
             lane == LaneOf(Head(tasks).key)
             q == Append(waiting[lane], o)
  <2>1. o \in Op /\ o \notin 1..created /\ lane \in Lane /\ WillBe(o, lane)
    BY <1>5, NewOp, BeginsInLane, LaneOfKey
  <2>2. \/ UNCHANGED waiting
        \/ waiting' = [waiting EXCEPT ![lane] = q]
    BY <1>5 DEF Begin, Admit
  <2> HIDE DEF o, lane
  <2>3. \A i \in DOMAIN waiting[lane] : waiting[lane][i] # o
    BY <1>1, <2>1 DEF WaitingNamed, Is
  <2>4. /\ NoneTwice(q)
        /\ \A i \in DOMAIN q : q[i] = o \/ (i \in DOMAIN waiting[lane] /\ q[i] = waiting[lane][i])
    BY <1>1, <2>1, <2>3, AppendOp DEF WaitingNamed
  <2> HIDE DEF q
  <2>5. CASE waiting' = [waiting EXCEPT ![lane] = q]
    <3>1. \A i \in DOMAIN q : WillBe(q[i], lane)
      BY <1>1, <2>1, <2>4, IsStays DEF WaitingNamed
    <3>2. \A l \in Lane : waiting'[l] = IF l = lane THEN q ELSE waiting[l]
      BY <1>1, <2>5
    <3> QED BY <1>1, <2>4, <3>1, <3>2, IsStays DEF WaitingNamed, Is, WillBe
  <2> QED BY <1>2, <2>2, <2>5
<1>6. CASE Release
  <2> DEFINE lane == LaneOf(key[Head(tasks).op])
             q == Tail(waiting[lane])
  <2>1. lane \in Lane
    BY <1>6, ReleasedLane DEF Lane
  <2>2. \/ UNCHANGED waiting
        \/ waiting[lane] # <<>> /\ waiting' = [waiting EXCEPT ![lane] = q]
    BY <1>6 DEF Release
  <2> HIDE DEF lane
  <2>3. CASE waiting[lane] # <<>> /\ waiting' = [waiting EXCEPT ![lane] = q]
    <3>1. /\ NoneTwice(q)
          /\ \A i \in DOMAIN q : i + 1 \in DOMAIN waiting[lane] /\ q[i] = waiting[lane][i + 1]
      BY <1>1, <2>1, <2>3, TailOp DEF WaitingNamed
    <3> HIDE DEF q
    <3>2. \A i \in DOMAIN q : WillBe(q[i], lane)
      BY <1>1, <2>1, <3>1, IsStays DEF WaitingNamed
    <3>3. \A l \in Lane : waiting'[l] = IF l = lane THEN q ELSE waiting[l]
      BY <1>1, <2>3
    <3> QED BY <1>1, <3>1, <3>2, <3>3, IsStays DEF WaitingNamed, Is, WillBe
  <2> QED BY <1>2, <2>2, <2>3
<1> QED
  BY <1>2, <1>3, <1>4, <1>5, <1>6
     DEF Next, QueueSteps, OtherQueues, Request, CancelUpload, Drop,
         Uploaded, Downloaded, TransferThrows, Connected, Finish, ConnectionGone,
         CacheRead, LoadFails, ConnectionChanges, vars

\* A task that names what it may, after the step.
TaskWillBe(t) ==
  /\ t.do = "release" => WillBe(t.op, "upload") \/ WillBe(t.op, "load")
  /\ t.do = "cancel" => t.key \in Path

LEMMA TasksStay ==
  ASSUME Types, Lanes, [Next]_vars
  PROVE  /\ \A i \in DOMAIN tasks : TaskWillBe(tasks[i])
         /\ tasks # <<>> => \A i \in DOMAIN Tail(tasks) : TaskWillBe(Tail(tasks)[i])
<1>1. \A i \in DOMAIN tasks : TaskWillBe(tasks[i])
  BY IsStays DEF Lanes, TasksNamed, TaskWillBe
<1>2. ASSUME tasks # <<>>
      PROVE  \A i \in DOMAIN Tail(tasks) :
               i + 1 \in DOMAIN tasks /\ Tail(tasks)[i] = tasks[i + 1]
  BY <1>2, TailTask DEF Types
<1> QED BY <1>1, <1>2

\* Of a queue of tasks that name what they may, one more like them.
LEMMA AppendWillBe ==
  ASSUME NEW q \in Seq(Task), NEW t \in Task, TaskWillBe(t),
         \A i \in DOMAIN q : TaskWillBe(q[i]), tasks' = Append(q, t)
  PROVE  TasksNamed'
<1>1. \A i \in DOMAIN tasks' : tasks'[i] = t \/ (i \in DOMAIN q /\ tasks'[i] = q[i])
  BY AppendTask
<1>2. \A i \in DOMAIN tasks' : TaskWillBe(tasks'[i])
  BY <1>1
<1> QED BY <1>2 DEF TasksNamed, TaskWillBe, WillBe, Is

LEMMA CancelNamed ==
  ASSUME Types, Lanes, [Next]_vars, NEW o \in Op, NEW q \in Seq(Task),
         Is(o, "upload") \/ Is(o, "load"),
         \A i \in DOMAIN q : TaskWillBe(q[i]), Cancel(o, q)
  PROVE  TasksNamed'
<1>1. tasks' = q \/ tasks' = Append(q, [do |-> "release", op |-> o])
  BY DEF Cancel
<1>2. [do |-> "release", op |-> o] \in Task
  BY TasksMade
<1>3. TaskWillBe([do |-> "release", op |-> o])
  BY IsStays DEF TaskWillBe
<1>4. CASE tasks' = q
  BY <1>4 DEF TasksNamed, TaskWillBe, WillBe, Is
<1> QED BY <1>1, <1>2, <1>3, <1>4, AppendWillBe

\* The operation of a path.
LEMMA OfPath ==
  ASSUME Types, Lanes, NEW k \in Key, paths[k] # None
  PROVE  paths[k] \in Op /\ Is(paths[k], LaneOf(k))
BY DEF Types, Lanes, PathsNamed, Is

LEMMA TasksNamedStep ==
  ASSUME Types, Lanes, [Next]_vars
  PROVE  TasksNamed'
<1>1. tasks \in Seq(Task) /\ \A i \in DOMAIN tasks : TaskWillBe(tasks[i])
  BY TasksStay DEF Types
<1>2. tasks # <<>> =>
        /\ Tail(tasks) \in Seq(Task)
        /\ \A i \in DOMAIN Tail(tasks) : TaskWillBe(Tail(tasks)[i])
  BY <1>1, TasksStay
<1>3. ASSUME NEW o \in Op, Is(o, "upload") \/ Is(o, "load"),
             tasks' = Append(tasks, [do |-> "release", op |-> o])
      PROVE  TasksNamed'
  <2>1. [do |-> "release", op |-> o] \in Task
    BY TasksMade
  <2>2. TaskWillBe([do |-> "release", op |-> o])
    BY <1>3, IsStays DEF TaskWillBe
  <2> QED BY <1>1, <1>3, <2>1, <2>2, AppendWillBe
<1>4. ASSUME tasks # <<>>, tasks' = Tail(tasks)
      PROVE  TasksNamed'
  <2>1. \A i \in DOMAIN tasks' : TaskWillBe(tasks'[i])
    BY <1>2, <1>4
  <2> QED BY <2>1 DEF TasksNamed, TaskWillBe, WillBe, Is
<1>5. ASSUME NEW k \in Key, Request(k)
      PROVE  TasksNamed'
  <2>1. [do |-> "request", key |-> k] \in Task /\ TaskWillBe([do |-> "request", key |-> k])
    BY TasksMade DEF TaskWillBe
  <2> QED BY <1>1, <1>5, <2>1, AppendWillBe DEF Request, Post
<1>6. ASSUME NEW k \in Path, CancelUpload(k)
      PROVE  TasksNamed'
  <2>1. [do |-> "cancel", key |-> k] \in Task /\ TaskWillBe([do |-> "cancel", key |-> k])
    BY TasksMade DEF TaskWillBe, Key
  <2> QED BY <1>1, <1>6, <2>1, AppendWillBe DEF CancelUpload, Post
<1>7. ASSUME NEW k \in Attachment, CancelLoad(k)
      PROVE  TasksNamed'
  <2>1. k \in Key /\ LaneOf(k) = "load"
    BY LaneOfKey DEF Key
  <2>2. paths[k] \in Op /\ Is(paths[k], "load")
    BY <1>7, <2>1, OfPath DEF CancelLoad
  <2> QED BY <1>1, <1>7, <2>2, CancelNamed DEF CancelLoad
<1>8. CASE Drop \/ Begin \/ Release
  BY <1>4, <1>8 DEF Drop, Begin, Release, TaskIs
<1>9. CASE CancelTask
  <2> DEFINE k == Head(tasks).key
  <2>1. tasks # <<>> /\ Head(tasks).do = "cancel"
    BY <1>9 DEF CancelTask, TaskIs
  <2>2. k \in Key /\ LaneOf(k) = "upload"
    BY <2>1, TheHead, LaneOfKey
  <2>3. \/ tasks' = Tail(tasks)
        \/ paths[k] # None /\ Cancel(paths[k], Tail(tasks))
    BY <1>9 DEF CancelTask
  <2> HIDE DEF k
  <2>4. CASE paths[k] # None /\ Cancel(paths[k], Tail(tasks))
    <3>1. paths[k] \in Op /\ Is(paths[k], "upload")
      BY <2>2, <2>4, OfPath
    <3> QED BY <1>2, <2>1, <2>4, <3>1, CancelNamed
  <2> QED BY <1>4, <2>1, <2>3, <2>4
<1>10. CASE Finish
  <2>1. thread.op \in Op /\ Is(thread.op, "upload")
    BY <1>10 DEF Finish, At, Types, Lanes, ThreadNamed, Thread, Free
  <2> QED BY <1>3, <1>10, <2>1 DEF Finish, Post
<1>11. ASSUME NEW o \in Op, LoadFails(o)
       PROVE  TasksNamed'
  <2>1. Is(o, "load")
    BY <1>11 DEF LoadFails, Lanes, LoadsNamed
  <2> QED BY <1>3, <1>11, <2>1 DEF LoadFails, Post
<1>12. CASE UNCHANGED tasks
  BY <1>1, <1>12 DEF TasksNamed, TaskWillBe, WillBe, Is
<1> QED
  BY <1>5, <1>6, <1>7, <1>8, <1>9, <1>10, <1>11, <1>12
     DEF Next, QueueSteps, OtherQueues, Uploaded, Downloaded, TransferThrows, Connected,
         ConnectionGone, CacheRead, ConnectionChanges, vars

\* What starts, and what the thread then holds.
LEMMA StartNames ==
  ASSUME Types, Lanes, [Next]_vars, NEW o, NEW k \in Key, WillBe(o, LaneOf(k)), Start(o, k)
  PROVE  ThreadNamed' /\ LoadsNamed'
<1>1. CASE LaneOf(k) = "load"
  <2>1. /\ UNCHANGED thread
        /\ cacheOut' \cup stage' \subseteq cacheOut \cup stage \cup {o}
    BY <1>1 DEF Start
  <2>2. \A p \in cacheOut' \cup stage' : WillBe(p, "load")
    BY <1>1, <2>1, IsStays DEF Lanes, LoadsNamed
  <2>3. ThreadNamed'
    BY <2>1, IsStays DEF Lanes, ThreadNamed, WillBe, Is
  <2> QED BY <2>2, <2>3 DEF LoadsNamed, WillBe, Is
<1>2. CASE LaneOf(k) # "load"
  <2>1. /\ thread' = [at |-> "transfer", op |-> o]
        /\ UNCHANGED <<cacheOut, stage>>
    BY <1>2 DEF Start, loadVars
  <2>2. WillBe(o, "upload") \/ WillBe(o, "download")
    BY <1>2, LaneOfKey DEF Lane
  <2>3. ThreadNamed'
    BY <2>1, <2>2 DEF ThreadNamed, WillBe, Is
  <2>4. \A p \in cacheOut' \cup stage' : WillBe(p, "load")
    BY <2>1, IsStays DEF Lanes, LoadsNamed
  <2> QED BY <2>3, <2>4 DEF LoadsNamed, WillBe, Is
<1> QED BY <1>1, <1>2

LEMMA ThreadAndLoadsStep ==
  ASSUME Types, Lanes, [Next]_vars
  PROVE  ThreadNamed' /\ LoadsNamed'
<1>1. ASSUME UNCHANGED thread
      PROVE  ThreadNamed'
  BY <1>1, IsStays DEF Lanes, ThreadNamed, WillBe, Is
<1>2. ASSUME cacheOut' \cup stage' \subseteq cacheOut \cup stage
      PROVE  LoadsNamed'
  <2>1. \A p \in cacheOut' \cup stage' : WillBe(p, "load")
    BY <1>2, IsStays DEF Lanes, LoadsNamed
  <2> QED BY <2>1 DEF LoadsNamed, WillBe, Is
<1>3. CASE Begin
  <2> DEFINE k == Head(tasks).key
             o == created + 1
  <2>1. k \in Key /\ WillBe(o, LaneOf(k))
    BY <1>3, NewOp, BeginsInLane
  <2>2. Start(o, k) \/ UNCHANGED <<thread, cacheOut, stage>>
    BY <1>3 DEF Begin, Admit, loadVars
  <2> HIDE DEF o, k
  <2> QED BY <1>1, <1>2, <2>1, <2>2, StartNames
<1>4. CASE Release
  <2> DEFINE lane == LaneOf(key[Head(tasks).op])
             o == Head(waiting[lane])
             k == key[o]
  <2>1. lane \in Lane
    BY <1>4, ReleasedLane DEF Lane
  <2>2. \/ waiting[lane] # <<>> /\ Start(o, k)
        \/ UNCHANGED <<thread, cacheOut, stage>>
    BY <1>4 DEF Release, loadVars
  <2> HIDE DEF lane
  <2>3. ASSUME waiting[lane] # <<>>, Start(o, k)
        PROVE  ThreadNamed' /\ LoadsNamed'
    <3>1. Is(o, lane) /\ k \in Key
      BY <2>1, <2>3, FirstWaits
    <3>2. WillBe(o, LaneOf(k))
      BY <3>1, IsStays DEF Is
    <3> HIDE DEF o, k
    <3> QED BY <2>3, <3>1, <3>2, StartNames
  <2> QED BY <1>1, <1>2, <2>2, <2>3
<1>5. CASE Uploaded \/ Downloaded \/ TransferThrows \/ Connected \/ Finish \/ ConnectionGone
  <2>1. thread # Free /\ thread \in [at : {"transfer", "await", "announce"}, op : Op]
    BY <1>5 DEF Uploaded, Downloaded, TransferThrows, Connected, Finish, ConnectionGone, At,
                Free, Types, Thread
  <2>2. /\ Is(thread.op, "upload") \/ Is(thread.op, "download")
        /\ thread.at # "transfer" => Is(thread.op, "upload")
    BY <2>1 DEF Lanes, ThreadNamed
  <2>3. \/ thread' = Free
        \/ /\ thread' = [thread EXCEPT !.at = "await"] \/ thread' = [thread EXCEPT !.at = "announce"]
           /\ Is(thread.op, "upload")
    BY <1>5, <2>1, <2>2
       DEF Uploaded, Uploading, Downloaded, TransferThrows, Connected, Finish, ConnectionGone,
           At, Is
  <2>4. thread' = Free \/ WillBe(thread'.op, "upload")
    BY <2>1, <2>3, IsStays
  <2>5. ThreadNamed'
    BY <2>4 DEF ThreadNamed, WillBe, Is
  <2>6. UNCHANGED <<cacheOut, stage>>
    BY <1>5 DEF Uploaded, Downloaded, TransferThrows, Connected, Finish, ConnectionGone, loadVars
  <2> QED BY <1>2, <2>5, <2>6
<1>6. ASSUME NEW o \in Op, CacheRead(o) \/ LoadFails(o)
      PROVE  ThreadNamed' /\ LoadsNamed'
  <2>1. UNCHANGED thread /\ cacheOut' \cup stage' \subseteq cacheOut \cup stage
    BY <1>6 DEF CacheRead, LoadFails
  <2> QED BY <1>1, <1>2, <2>1
<1>7. CASE UNCHANGED <<thread, cacheOut, stage>>
  BY <1>1, <1>2, <1>7
<1> QED
  BY <1>3, <1>4, <1>5, <1>6, <1>7
     DEF Next, QueueSteps, OtherQueues, Request, CancelUpload, CancelLoad, Drop, CancelTask,
         ConnectionChanges, vars, loadVars

LEMMA LanesStep ==
  ASSUME Types, Lanes, [Next]_vars
  PROVE  Lanes'
BY PathsNamedStep, WaitingNamedStep, TasksNamedStep, ThreadAndLoadsStep DEF Lanes

-----------------------------------------------------------------------------
(* Uploads, from request to release.                                       *)

\* Who holds a slot, before and after a step.
LEMMA HoldingIs ==
  ASSUME Types, NEW o \in Op
  PROVE  o \in Holding <=> Is(o, "upload") /\ (state[o] = 1 \/ Releases(tasks, o))
<1>1. IsUpload(o) <=> Is(o, "upload")
  BY LaneOfKey DEF IsUpload, Is, Types, Op
<1> QED BY <1>1 DEF Holding, ToRelease, Releases

LEMMA HoldingWillBe ==
  ASSUME Types', NEW o \in Op
  PROVE  o \in Holding' <=> WillBe(o, "upload") /\ (state'[o] = 1 \/ Releases(tasks', o))
<1>1. IsUpload(o)' <=> WillBe(o, "upload")
  BY LaneOfKey DEF IsUpload, WillBe, Types, Op
<1> QED BY <1>1 DEF Holding, ToRelease, Releases

\* The tasks of a step that has nothing to do with the end of upload o.
SameEnd(o) ==
  /\ Releases(tasks', o) <=> Releases(tasks, o)
  /\ ReleasesOnce(tasks, o) => ReleasesOnce(tasks', o)

LEMMA SameEndAppend ==
  ASSUME Types, NEW t \in Task, NEW o, t.do = "release" => t.op # o,
         tasks' = Append(tasks, t)
  PROVE  SameEnd(o)
BY AppendTask DEF Types, SameEnd

LEMMA SameEndTail ==
  ASSUME Types, NEW o, tasks # <<>>, Head(tasks).do = "release" => Head(tasks).op # o,
         tasks' = Tail(tasks)
  PROVE  SameEnd(o)
BY TailTask DEF Types, SameEnd

\* What has not begun is idle.
LEMMA IdleStep ==
  ASSUME Types, Lanes, NewAreIdle, [Next]_vars
  PROVE  NewAreIdle'
<1>1. /\ created \in Nat /\ created' \in Nat /\ created' >= created
      /\ state \in [Op -> 0..3]
  <2>1. created' = created \/ created' = created + 1
    BY NewOp
       DEF Next, QueueSteps, OtherQueues, Request, CancelUpload, CancelLoad, Drop, CancelTask,
           Release, Uploaded, Downloaded, TransferThrows, Connected, Finish, ConnectionGone,
           CacheRead, LoadFails, ConnectionChanges, vars, opVars
  <2> QED BY <2>1 DEF Types
<1>2. ASSUME NEW o \in Op, WillBe(o, "upload") \/ WillBe(o, "download") \/ WillBe(o, "load"),
             \A p \in Op : p # o => state'[p] = state[p]
      PROVE  NewAreIdle'
  BY <1>1, <1>2 DEF NewAreIdle, WillBe, Op
<1>3. CASE UNCHANGED state
  BY <1>1, <1>3 DEF NewAreIdle, Op
<1>4. ASSUME NEW k \in Key, paths[k] # None, NEW q, Cancel(paths[k], q)
      PROVE  NewAreIdle'
  <2>1. paths[k] \in Op /\ Is(paths[k], LaneOf(k)) /\ LaneOf(k) \in Lane
    BY <1>4, OfPath, LaneOfKey
  <2>2. \A p \in Op : p # paths[k] => state'[p] = state[p]
    BY <1>1, <1>4 DEF Cancel
  <2> QED BY <1>2, <2>1, <2>2, IsStays DEF Lane
<1>5. ASSUME NEW o \in Op, NEW k \in Key, WillBe(o, LaneOf(k)), Start(o, k)
      PROVE  NewAreIdle'
  <2>1. \A p \in Op : p # o => state'[p] = state[p]
    BY <1>1, <1>5 DEF Start
  <2> QED BY <1>2, <1>5, <2>1, LaneOfKey DEF Lane
<1>6. CASE Begin
  <2>1. /\ Head(tasks).key \in Key /\ created + 1 \in Op
        /\ WillBe(created + 1, LaneOf(Head(tasks).key))
    BY <1>6, NewOp, BeginsInLane
  <2> QED BY <1>3, <1>5, <1>6, <2>1 DEF Begin, Admit
<1>7. CASE Release
  <2> DEFINE lane == LaneOf(key[Head(tasks).op])
             o == Head(waiting[lane])
  <2>1. lane \in Lane
    BY <1>7, ReleasedLane DEF Lane
  <2>2. (waiting[lane] # <<>> /\ Start(o, key[o])) \/ UNCHANGED state
    BY <1>7 DEF Release
  <2> HIDE DEF lane
  <2>3. ASSUME waiting[lane] # <<>>, Start(o, key[o])
        PROVE  NewAreIdle'
    <3>1. o \in Op /\ Is(o, lane) /\ key[o] \in Key
      BY <2>1, <2>3, FirstWaits
    <3>2. WillBe(o, LaneOf(key[o]))
      BY <3>1, IsStays DEF Is
    <3> HIDE DEF o
    <3> QED BY <1>5, <2>3, <3>1, <3>2
  <2> QED BY <1>3, <2>2, <2>3
<1>8. CASE Finish \/ Downloaded
  <2>1. /\ thread.op \in Op
        /\ Is(thread.op, "upload") \/ Is(thread.op, "download")
    BY <1>8 DEF Finish, Downloaded, At, Types, Lanes, ThreadNamed, Thread, Free
  <2>2. \A p \in Op : p # thread.op => state'[p] = state[p]
    BY <1>1, <1>8 DEF Finish, Downloaded
  <2> QED BY <1>2, <2>1, <2>2, IsStays
<1>9. ASSUME NEW k \in Attachment, CancelLoad(k)
      PROVE  NewAreIdle'
  BY <1>4, <1>9 DEF CancelLoad, Key
<1>10. CASE CancelTask
  <2>1. Head(tasks).key \in Key
    BY <1>10, TheHead DEF CancelTask, TaskIs
  <2> QED BY <1>3, <1>4, <1>10, <2>1 DEF CancelTask
<1> QED
  BY <1>3, <1>6, <1>7, <1>8, <1>9, <1>10
     DEF Next, QueueSteps, OtherQueues, Request, CancelUpload, Drop, Uploaded, TransferThrows,
         Connected, ConnectionGone, CacheRead, LoadFails, ConnectionChanges, vars

\* A step that leaves the uploads as they are.
LEMMA Undisturbed ==
  ASSUME Types, Lanes, Lives, Types', NewAreIdle', [Next]_vars,
         \A o \in Op : WillBe(o, "upload") => Is(o, "upload"),
         \A o \in Op : Is(o, "upload") =>
           state'[o] = state[o] /\ paths'[key[o]] = paths[key[o]] /\ SameEnd(o),
         waiting'["upload"] = waiting["upload"],
         \/ thread' = Free
         \/ thread # Free /\ thread'.op = thread.op
         \/ ~WillBe(thread'.op, "upload")
  PROVE  Lives' /\ Holding' = Holding
<1>1. Holding' = Holding
  <2>1. \A o \in Op : o \in Holding' <=> o \in Holding
    BY HoldingIs, HoldingWillBe, IsStays DEF SameEnd
  <2> QED BY <2>1 DEF Holding
<1>2. \A o \in Op : Is(o, "upload") => key'[o] = key[o]
  BY OpsStay DEF Is
<1>3. WaitingOwn'
  <2>1. \A i \in DOMAIN waiting["upload"] :
          waiting["upload"][i] \in Op /\ Is(waiting["upload"][i], "upload")
    BY DEF Types, Lanes, WaitingNamed, Lane
  <2> QED BY <1>2, <2>1 DEF WaitingOwn, Lives, Owns
<1>4. EndsOnce'
  <2>1. \A o \in Op : WillBe(o, "upload") =>
          /\ state'[o] = 1 => paths'[key'[o]] = o
          /\ Releases(tasks', o) => state'[o] \in {2, 3} /\ paths'[key'[o]] = o
          /\ ReleasesOnce(tasks', o)
    BY <1>2 DEF EndsOnce, Lives, Owns, SameEnd
  <2> QED BY <2>1 DEF EndsOnce, Owns, WillBe, Is
<1>5. ThreadWorks'
  <2>1. thread' # Free /\ WillBe(thread'.op, "upload") =>
          thread # Free /\ thread'.op = thread.op /\ thread'.op \in Op
    BY DEF Types, Thread
  <2>2. thread' # Free /\ WillBe(thread'.op, "upload") => state'[thread'.op] = 1
    BY <2>1 DEF ThreadWorks, Lives
  <2> QED BY <2>2 DEF ThreadWorks, WillBe, Is
<1> QED BY <1>1, <1>3, <1>4, <1>5 DEF Lives

\* The end of one upload, after a step.
EndWillBe(o) ==
  /\ state'[o] = 1 => paths'[key'[o]] = o
  /\ Releases(tasks', o) => state'[o] \in {2, 3} /\ paths'[key'[o]] = o
  /\ ReleasesOnce(tasks', o)

LEMMA EndStays ==
  ASSUME Types, Lanes, Lives, [Next]_vars, NEW o \in Op, Is(o, "upload"),
         state'[o] = state[o], SameEnd(o), Owns(o) => paths'[key[o]] = o
  PROVE  EndWillBe(o)
<1>1. key'[o] = key[o]
  BY OpsStay DEF Is
<1> QED BY <1>1 DEF EndWillBe, EndsOnce, Lives, SameEnd

LEMMA EndsWillBe ==
  ASSUME \A o \in Op : WillBe(o, "upload") => EndWillBe(o)
  PROVE  EndsOnce'
BY DEF EndsOnce, EndWillBe, WillBe, Is, Owns

\* The uploads that wait exist, own their paths and hold no slot.
LEMMA WhoWaits ==
  ASSUME Types, Lanes, Lives, NEW i \in DOMAIN waiting["upload"]
  PROVE  /\ waiting["upload"][i] \in Op /\ Is(waiting["upload"][i], "upload")
         /\ state[waiting["upload"][i]] = 0 /\ Owns(waiting["upload"][i])
         /\ waiting["upload"][i] \notin Holding
<1>1. /\ waiting["upload"][i] \in Op /\ Is(waiting["upload"][i], "upload")
      /\ state[waiting["upload"][i]] = 0 /\ Owns(waiting["upload"][i])
  BY DEF Types, Lanes, WaitingNamed, Lane, WaitingOwn, Lives
<1>2. ~Releases(tasks, waiting["upload"][i])
  BY <1>1 DEF EndsOnce, Lives
<1> QED BY <1>1, <1>2, HoldingIs

LEMMA HoldingIsFinite ==
  ASSUME Types
  PROVE  Holding \subseteq Op /\ IsFiniteSet(Holding) /\ Cardinality(Holding) \in Nat
<1>1. Holding \subseteq Op /\ IsFiniteSet(Op)
  BY FS_Interval, TransfersAssumption DEF Holding, Op
<1> QED BY <1>1, FS_Subset, FS_CardinalityType

\* The pool counts and removes as this module does.
LEMMA PoolCounts == \A S : Uploads!Cardinality(S) = Cardinality(S)
BY DEF Uploads!Cardinality, Cardinality

LEMMA PoolRemoves == \A q, i : Uploads!RemoveAt(q, i) = RemoveAt(q, i)
BY DEF Uploads!RemoveAt, RemoveAt

\* A step of the pool of uploads.
PoolStep == [Uploads!Next]_<<Holding, waiting["upload"]>>

LEMMA UploadBegins ==
  ASSUME Inv, Types', NewAreIdle', [Next]_vars, Begin, Head(tasks).key \in Path
  PROVE  Lives' /\ PoolStep /\ Counted'
<1> DEFINE k == Head(tasks).key
           o == created + 1
<1>1. /\ Types /\ Lanes /\ Lives /\ Counted /\ WaitsOnlyForSlots
      /\ waiting["upload"] \in Seq(Op) /\ state \in [Op -> 0..3] /\ paths \in [Key -> Op \cup {None}]
      /\ count \in [{"upload", "load"} -> Int] /\ "upload" \in Lane
  BY DEF Inv, Types, Lane
<1>2. /\ o \in Op /\ o \notin 1..created /\ k \in Key /\ k \in Path
      /\ LaneOf(k) = "upload" /\ key'[o] = k
  BY <1>1, NewOp, LaneOfKey
<1>3. /\ tasks # <<>> /\ Head(tasks).do = "request" /\ tasks' = Tail(tasks) /\ thread = Free
      /\ paths[k] = None /\ paths' = [paths EXCEPT ![k] = o]
      /\ Admit(o, k)
  BY <1>2, TransfersAssumption DEF Begin, TaskIs, IsNew
<1>4. WillBe(o, "upload")
  BY <1>1, <1>2, BeginsInLane
<1>5. ~Is(o, "upload") /\ o \notin Holding /\ \A i \in DOMAIN waiting["upload"] : waiting["upload"][i] # o
  <2>1. ~Is(o, "upload")
    BY <1>2 DEF Is
  <2> QED BY <1>1, <1>2, <2>1, HoldingIs, WhoWaits
<1>6. \A p \in Op : WillBe(p, "upload") => p = o \/ Is(p, "upload")
  <2>1. \A p \in 1..created' : p = o \/ p \in 1..created
    BY <1>1, <1>3, NewOp DEF Types
  <2> QED BY <1>1, <2>1, OpsStay DEF WillBe, Is
<1>7. \A p : SameEnd(p)
  BY <1>1, <1>3, SameEndTail
<1>8. ~Releases(tasks, o) /\ ~Releases(tasks', o) /\ ReleasesOnce(tasks', o)
  <2>1. ~Releases(tasks, o)
    BY <1>1, <1>2 DEF Releases, Lanes, TasksNamed, Is
  <2>2. ReleasesOnce(tasks, o)
    BY <2>1 DEF Releases, ReleasesOnce
  <2> QED BY <1>7, <2>1, <2>2 DEF SameEnd
<1>9. \A p \in Op : Is(p, "upload") /\ Owns(p) => key[p] # k /\ paths'[key[p]] = p
  BY <1>1, <1>3 DEF Owns, Is, Types, Op, None
<1>10. state[o] = 0
  BY <1>1, <1>2 DEF Lives, NewAreIdle, Types, Op
<1>11. /\ count["upload"] = Cardinality(Holding) /\ count["upload"] <= 2
       /\ waiting["upload"] # <<>> => count["upload"] >= 2
       /\ IsFiniteSet(Holding) /\ Cardinality(Holding) \in Nat
  BY <1>1, HoldingIsFinite DEF Counted, UploadsAreCounted, WaitsOnlyForSlots, Slots
<1>12. o \in Op /\ (\A p \in Op : Is(p, "upload") => WillBe(p, "upload"))
  BY <1>1, <1>2, IsStays
<1> HIDE DEF o, k
<1>13. CASE count["upload"] < 2
  <2>1. /\ count' = [count EXCEPT !["upload"] = @ + 1]
        /\ state' = [state EXCEPT ![o] = 1]
        /\ thread' = [at |-> "transfer", op |-> o]
        /\ UNCHANGED waiting
    BY <1>2, <1>3, <1>13 DEF Admit, LooksAt, CountedAs, Start, Slots
  <2>2. \A p \in Op : p # o => state'[p] = state[p]
    BY <1>1, <2>1
  <2>3. state'[o] = 1
    BY <1>1, <1>2, <2>1
  <2>4. EndWillBe(o)
    BY <1>1, <1>2, <1>3, <1>8, <2>3 DEF EndWillBe
  <2>5. \A p \in Op : Is(p, "upload") => EndWillBe(p)
    BY <1>1, <1>5, <1>7, <1>9, <2>2, EndStays
  <2>6. EndsOnce'
    BY <1>6, <2>4, <2>5, EndsWillBe
  <2>7. waiting["upload"] = <<>> /\ waiting'["upload"] = <<>>
    BY <1>11, <1>13, <2>1
  <2>8. WaitingOwn'
    BY <2>7 DEF WaitingOwn
  <2>9. ThreadWorks'
    BY <2>1, <2>3 DEF ThreadWorks
  <2>10. Holding' = Holding \cup {o}
    <3>1. \A p \in Op : p \in Holding' <=> p \in Holding \cup {o}
      BY <1>1, <1>2, <1>4, <1>6, <1>7, <1>12, <2>2, <2>3, HoldingIs, HoldingWillBe DEF SameEnd
    <3>2. Holding' \subseteq Op /\ Holding \subseteq Op
      BY DEF Holding
    <3> QED BY <1>2, <3>1, <3>2
  <2>11. Cardinality(Holding') = Cardinality(Holding) + 1
    BY <1>5, <1>11, <2>10, FS_AddElement
  <2>12. count'["upload"] = count["upload"] + 1
    BY <1>1, <2>1
  <2>13. Counted'
    BY <1>11, <1>13, <2>11, <2>12 DEF Counted, UploadsAreCounted, Slots
  <2>14. Uploads!TakeSlot(o)
    BY <1>5, <1>11, <1>13, <2>7, <2>10, PoolCounts DEF Uploads!TakeSlot, Slots
  <2>15. PoolStep
    BY <1>2, <2>14 DEF PoolStep, Uploads!Next
  <2> QED BY <2>6, <2>8, <2>9, <2>13, <2>15 DEF Lives
<1>14. CASE ~(count["upload"] < 2)
  <2> DEFINE q == Append(waiting["upload"], o)
  <2>1. /\ UNCHANGED <<count, state, thread>>
        /\ waiting' = [waiting EXCEPT !["upload"] = q]
    BY <1>2, <1>3, <1>14 DEF Admit, LooksAt, CountedAs, Slots
  <2>2. EndWillBe(o)
    BY <1>8, <1>10, <2>1 DEF EndWillBe
  <2>3. \A p \in Op : Is(p, "upload") => EndWillBe(p)
    BY <1>1, <1>7, <1>9, <2>1, EndStays
  <2>4. EndsOnce'
    BY <1>6, <2>2, <2>3, EndsWillBe
  <2>5. waiting'["upload"] = q
    BY <1>1, <2>1 DEF Types
  <2>6. \A i \in DOMAIN q :
          q[i] = o \/ (i \in DOMAIN waiting["upload"] /\ q[i] = waiting["upload"][i])
    BY <1>1, <1>2, <1>5, AppendOp DEF Lanes, WaitingNamed
  <2> HIDE DEF q
  <2>7. \A i \in DOMAIN q : state'[q[i]] = 0 /\ paths'[key'[q[i]]] = q[i]
    <3>1. state'[o] = 0 /\ paths'[key'[o]] = o
      BY <1>1, <1>2, <1>3, <1>10, <2>1
    <3>2. \A i \in DOMAIN waiting["upload"] :
            /\ state'[waiting["upload"][i]] = 0
            /\ paths'[key'[waiting["upload"][i]]] = waiting["upload"][i]
      BY <1>1, <1>9, <2>1, WhoWaits, OpsStay DEF Is
    <3> QED BY <2>6, <3>1, <3>2
  <2>8. WaitingOwn'
    BY <2>5, <2>7 DEF WaitingOwn, Owns
  <2>9. ThreadWorks'
    BY <1>3, <2>1 DEF ThreadWorks
  <2>10. Holding' = Holding
    <3>1. \A p \in Op : p \in Holding' <=> p \in Holding
      BY <1>1, <1>2, <1>5, <1>6, <1>7, <1>8, <1>10, <1>12, <2>1, HoldingIs, HoldingWillBe
         DEF SameEnd
    <3>2. Holding' \subseteq Op /\ Holding \subseteq Op
      BY DEF Holding
    <3> QED BY <3>1, <3>2
  <2>11. Counted'
    BY <1>1, <2>1, <2>10 DEF Counted, UploadsAreCounted
  <2>12. Uploads!Queue(o)
    BY <1>5, <1>11, <1>14, <2>5, <2>10, PoolCounts DEF Uploads!Queue, Uploads!Listed, q, Slots
  <2>13. PoolStep
    BY <1>2, <2>12 DEF PoolStep, Uploads!Next
  <2> QED BY <2>4, <2>8, <2>9, <2>11, <2>13 DEF Lives
<1> QED BY <1>11, <1>13, <1>14

\* An upload ends, by itself or because it is cancelled: its slot is given
\* back by the task that is then queued.
LEMMA UploadEnds ==
  ASSUME Inv, Types', NewAreIdle', [Next]_vars,
         NEW o \in Op, Is(o, "upload"), state[o] = 1,
         NEW s \in {2, 3}, state' = [state EXCEPT ![o] = s],
         NEW q \in Seq(Task), tasks' = Append(q, [do |-> "release", op |-> o]),
         \A p : Releases(q, p) <=> Releases(tasks, p),
         \A p : ReleasesOnce(tasks, p) => ReleasesOnce(q, p),
         UNCHANGED <<created, key, paths, count>>,
         waiting'["upload"] = waiting["upload"],
         thread' = Free
  PROVE  Lives' /\ PoolStep /\ Counted'
<1>1. /\ Types /\ Lanes /\ Lives /\ Counted /\ state \in [Op -> 0..3]
      /\ state'[o] = s /\ \A p \in Op : p # o => state'[p] = state[p]
  BY DEF Inv, Types
<1>2. [do |-> "release", op |-> o] \in Task
  BY TasksMade
<1>3. ~Releases(tasks, o) /\ ~Releases(q, o) /\ Owns(o)
  BY <1>1 DEF Lives, EndsOnce
<1>4. Releases(tasks', o) /\ ReleasesOnce(tasks', o)
  BY <1>2, <1>3, AppendTask
<1>5. \A p : p # o => SameEnd(p)
  BY <1>2, AppendTask DEF SameEnd
<1>6. \A p, lane : WillBe(p, lane) <=> Is(p, lane)
  BY DEF WillBe, Is
<1>7. EndsOnce'
  <2>1. EndWillBe(o)
    BY <1>1, <1>3, <1>4 DEF EndWillBe, Owns
  <2>2. \A p \in Op : Is(p, "upload") /\ p # o => EndWillBe(p)
    BY <1>1, <1>5, EndStays DEF Owns
  <2> QED BY <1>6, <2>1, <2>2, EndsWillBe
<1>8. WaitingOwn'
  <2>1. \A i \in DOMAIN waiting["upload"] :
          /\ waiting["upload"][i] \in Op /\ waiting["upload"][i] # o
          /\ state[waiting["upload"][i]] = 0 /\ Owns(waiting["upload"][i])
    BY <1>1, WhoWaits
  <2> QED BY <1>1, <2>1 DEF WaitingOwn, Owns
<1>9. ThreadWorks'
  BY DEF ThreadWorks
<1>10. Holding' = Holding
  <2>1. \A p \in Op : p \in Holding' <=> p \in Holding
    BY <1>1, <1>4, <1>5, <1>6, HoldingIs, HoldingWillBe DEF SameEnd
  <2>2. Holding' \subseteq Op /\ Holding \subseteq Op
    BY DEF Holding
  <2> QED BY <2>1, <2>2
<1> QED
  BY <1>1, <1>7, <1>8, <1>9, <1>10 DEF Lives, Counted, UploadsAreCounted, PoolStep

\* An upload that waits is cancelled.
LEMMA UploadWithdrawn ==
  ASSUME Inv, Types', NewAreIdle', [Next]_vars,
         NEW n \in DOMAIN waiting["upload"],
         waiting' = [waiting EXCEPT !["upload"] = RemoveAt(@, n)],
         tasks # <<>>, Head(tasks).do # "release", tasks' = Tail(tasks),
         UNCHANGED <<created, key, paths, state, count, thread>>
  PROVE  Lives' /\ PoolStep /\ Counted'
<1>1. /\ Types /\ Lanes /\ Lives /\ Counted
      /\ waiting["upload"] \in Seq(Op) /\ NoneTwice(waiting["upload"])
      /\ waiting'["upload"] = RemoveAt(waiting["upload"], n)
  BY DEF Inv, Types, Lane, Lanes, WaitingNamed
<1>2. \A p : SameEnd(p)
  BY <1>1, SameEndTail
<1>3. \A p, lane : WillBe(p, lane) <=> Is(p, lane)
  BY DEF WillBe, Is
<1>4. EndsOnce'
  <2>1. \A p \in Op : Is(p, "upload") => EndWillBe(p)
    BY <1>1, <1>2, EndStays DEF Owns
  <2> QED BY <1>3, <2>1, EndsWillBe
<1>5. WaitingOwn'
  <2> DEFINE q == RemoveAt(waiting["upload"], n)
  <2>1. \A i \in DOMAIN q : \E j \in DOMAIN waiting["upload"] : q[i] = waiting["upload"][j]
    BY <1>1, RemovedAt
  <2> HIDE DEF q
  <2>2. \A i \in DOMAIN q : state[q[i]] = 0 /\ Owns(q[i])
    BY <1>1, <2>1, WhoWaits
  <2>3. waiting'["upload"] = q
    BY <1>1 DEF q
  <2> QED BY <2>2, <2>3 DEF WaitingOwn, Owns
<1>6. ThreadWorks'
  BY <1>1 DEF Lives, ThreadWorks, Is
<1>7. Holding' = Holding
  <2>1. \A p \in Op : p \in Holding' <=> p \in Holding
    BY <1>1, <1>2, <1>3, HoldingIs, HoldingWillBe DEF SameEnd
  <2>2. Holding' \subseteq Op /\ Holding \subseteq Op
    BY DEF Holding
  <2> QED BY <2>1, <2>2
<1>8. Uploads!Withdraw(waiting["upload"][n])
  BY <1>1, <1>7, PoolRemoves DEF Uploads!Withdraw
<1>9. waiting["upload"][n] \in Op
  BY <1>1, WhoWaits
<1>10. PoolStep
  BY <1>8, <1>9 DEF PoolStep, Uploads!Next
<1> QED
  BY <1>1, <1>4, <1>5, <1>6, <1>7, <1>10 DEF Lives, Counted, UploadsAreCounted

\* The task that gives back the slot of an upload.
LEMMA UploadReleased ==
  ASSUME Inv, Types', NewAreIdle', [Next]_vars, Release, Is(Head(tasks).op, "upload")
  PROVE  Lives' /\ PoolStep /\ Counted'
<1> DEFINE o == Head(tasks).op
           q == waiting["upload"]
           next == Head(q)
<1>1. /\ Types /\ Lanes /\ Lives /\ Counted /\ WaitsOnlyForSlots
      /\ q \in Seq(Op) /\ NoneTwice(q) /\ state \in [Op -> 0..3] /\ paths \in [Key -> Op \cup {None}]
      /\ count \in [{"upload", "load"} -> Int] /\ "upload" \in Lane
      /\ tasks \in Seq(Task)
  BY DEF Inv, Types, Lane, Lanes, WaitingNamed
<1>2. /\ tasks # <<>> /\ Head(tasks).do = "release" /\ tasks' = Tail(tasks) /\ thread = Free
      /\ o \in Op /\ key[o] \in Key /\ LaneOf(key[o]) = "upload"
      /\ paths' = [paths EXCEPT ![key[o]] = None]
      /\ UNCHANGED <<created, key>>
  BY <1>1, ReleasedLane DEF Release, TaskIs, Is
<1>3. Releases(tasks, o) /\ ReleasesOnce(tasks, o) /\ ~Releases(tasks', o) /\ ReleasesOnce(tasks', o)
  <2>1. Releases(tasks, o)
    BY <1>1, <1>2, TailTask
  <2>2. ReleasesOnce(tasks, o)
    BY <1>1, <1>2 DEF Lives, EndsOnce
  <2> QED BY <1>1, <1>2, <2>1, <2>2, TailTask
<1>4. state[o] \in {2, 3} /\ Owns(o) /\ o \in Holding
  BY <1>1, <1>2, <1>3, HoldingIs DEF Lives, EndsOnce
<1>5. \A p : p # o => SameEnd(p)
  BY <1>1, <1>2, SameEndTail
<1>6. \A p, lane : WillBe(p, lane) <=> Is(p, lane)
  BY <1>2 DEF WillBe, Is
<1>7. \A p \in Op : Is(p, "upload") /\ Owns(p) /\ p # o => paths'[key[p]] = p
  BY <1>1, <1>2, <1>4 DEF Owns, Is, Types
<1>8. /\ count["upload"] = Cardinality(Holding) /\ count["upload"] <= 2
      /\ IsFiniteSet(Holding) /\ Cardinality(Holding) \in Nat
      /\ IsFiniteSet(Holding \ {o}) /\ Cardinality(Holding \ {o}) = Cardinality(Holding) - 1
  BY <1>1, <1>4, HoldingIsFinite, FS_RemoveElement DEF Counted, UploadsAreCounted, Slots
<1>9. \A i \in DOMAIN q : q[i] \in Op /\ Is(q[i], "upload") /\ state[q[i]] = 0 /\ Owns(q[i]) /\ q[i] # o
  BY <1>1, <1>4, WhoWaits
<1>10. \/ /\ q # <<>> /\ waiting' = [waiting EXCEPT !["upload"] = Tail(@)]
          /\ Start(next, key[next]) /\ UNCHANGED count
       \/ /\ q = <<>> /\ count' = [count EXCEPT !["upload"] = count["upload"] - 1]
          /\ UNCHANGED <<waiting, state, thread>>
  BY <1>1, <1>2, <1>8 DEF Release, Slots
<1> HIDE DEF o
<1>11. ASSUME q # <<>>, waiting' = [waiting EXCEPT !["upload"] = Tail(@)],
              Start(next, key[next]), UNCHANGED count
       PROVE  Lives' /\ PoolStep /\ Counted'
  <2>1. /\ next \in Op /\ Is(next, "upload") /\ key[next] \in Key /\ LaneOf(key[next]) = "upload"
        /\ 1 \in DOMAIN q /\ next = q[1]
    BY <1>1, <1>11, FirstWaits DEF Is
  <2>2. /\ state' = [state EXCEPT ![next] = 1]
        /\ thread' = [at |-> "transfer", op |-> next]
    BY <1>11, <2>1 DEF Start
  <2>3. /\ state[next] = 0 /\ Owns(next) /\ next # o /\ next \notin Holding
    BY <1>1, <1>9, <2>1, WhoWaits
  <2>4. state'[next] = 1 /\ \A p \in Op : p # next => state'[p] = state[p]
    BY <1>1, <2>1, <2>2
  <2>5. /\ waiting'["upload"] = Tail(q)
        /\ \A i \in DOMAIN Tail(q) :
             i + 1 \in DOMAIN q /\ Tail(q)[i] = q[i + 1] /\ Tail(q)[i] # next
    <3>1. waiting'["upload"] = Tail(q)
      BY <1>1, <1>11 DEF Types
    <3>2. \A i \in DOMAIN Tail(q) :
            i + 1 \in DOMAIN q /\ Tail(q)[i] = q[i + 1] /\ Tail(q)[i] # next
      BY <1>1, <1>11, TailOp
    <3> QED BY <3>1, <3>2
  <2>6. WaitingOwn'
    <3>1. \A i \in DOMAIN Tail(q) :
            state'[Tail(q)[i]] = 0 /\ paths'[key'[Tail(q)[i]]] = Tail(q)[i]
      BY <1>2, <1>7, <1>9, <2>4, <2>5
    <3> QED BY <2>5, <3>1 DEF WaitingOwn, Owns
  <2>7. EndsOnce'
    <3>1. EndWillBe(o)
      BY <1>2, <1>3, <1>4, <2>3, <2>4 DEF EndWillBe
    <3>2. ~Releases(tasks', next) /\ ReleasesOnce(tasks', next)
      BY <1>1, <1>5, <2>1, <2>3 DEF Lives, EndsOnce, SameEnd
    <3>3. EndWillBe(next)
      BY <1>2, <1>7, <2>1, <2>3, <2>4, <3>2 DEF EndWillBe
    <3>4. \A p \in Op : Is(p, "upload") /\ p # o /\ p # next => EndWillBe(p)
      BY <1>1, <1>5, <1>7, <2>4, EndStays
    <3> QED BY <1>6, <3>1, <3>3, <3>4, EndsWillBe
  <2>8. ThreadWorks'
    BY <2>2, <2>4 DEF ThreadWorks
  <2>9. Holding' = (Holding \ {o}) \cup {next}
    <3>1. \A p \in Op : p \in Holding' <=> p \in (Holding \ {o}) \cup {next}
      BY <1>1, <1>2, <1>3, <1>4, <1>5, <1>6, <2>1, <2>3, <2>4, HoldingIs, HoldingWillBe
         DEF SameEnd
    <3>2. Holding' \subseteq Op /\ Holding \subseteq Op
      BY DEF Holding
    <3> QED BY <2>1, <3>1, <3>2
  <2>10. Cardinality(Holding') = Cardinality(Holding)
    <3>1. next \notin Holding \ {o}
      BY <2>3
    <3>2. Cardinality(Holding') = Cardinality(Holding \ {o}) + 1
      BY <1>8, <2>9, <3>1, FS_AddElement
    <3> QED BY <1>8, <3>2
  <2>11. Counted'
    BY <1>1, <1>11, <2>10 DEF Counted, UploadsAreCounted
  <2>12. Uploads!GiveUp(o)
    BY <1>4, <1>11, <2>5, <2>9 DEF Uploads!GiveUp
  <2>13. PoolStep
    BY <1>2, <2>12 DEF PoolStep, Uploads!Next
  <2> QED BY <2>6, <2>7, <2>8, <2>11, <2>13 DEF Lives
<1>12. ASSUME q = <<>>, count' = [count EXCEPT !["upload"] = count["upload"] - 1],
              UNCHANGED <<waiting, state, thread>>
       PROVE  Lives' /\ PoolStep /\ Counted'
  <2>1. WaitingOwn'
    BY <1>12 DEF WaitingOwn
  <2>2. EndsOnce'
    <3>1. EndWillBe(o)
      BY <1>2, <1>3, <1>4, <1>12 DEF EndWillBe
    <3>2. \A p \in Op : Is(p, "upload") /\ p # o => EndWillBe(p)
      BY <1>1, <1>5, <1>7, <1>12, EndStays
    <3> QED BY <1>6, <3>1, <3>2, EndsWillBe
  <2>3. ThreadWorks'
    BY <1>2, <1>12 DEF ThreadWorks
  <2>4. Holding' = Holding \ {o}
    <3>1. \A p \in Op : p \in Holding' <=> p \in Holding \ {o}
      BY <1>1, <1>2, <1>3, <1>4, <1>5, <1>6, <1>12, HoldingIs, HoldingWillBe DEF SameEnd
    <3>2. Holding' \subseteq Op /\ Holding \subseteq Op
      BY DEF Holding
    <3> QED BY <3>1, <3>2
  <2>5. count'["upload"] = count["upload"] - 1
    BY <1>1, <1>12
  <2>6. Counted'
    BY <1>8, <2>4, <2>5 DEF Counted, UploadsAreCounted, Slots
  <2>7. Uploads!GiveUp(o)
    BY <1>4, <1>12, <2>4 DEF Uploads!GiveUp
  <2>8. PoolStep
    BY <1>2, <2>7 DEF PoolStep, Uploads!Next
  <2> QED BY <2>1, <2>2, <2>3, <2>6, <2>8 DEF Lives
<1> QED BY <1>10, <1>11, <1>12

\* The steps that leave the uploads as they are, one by one.
LEMMA PoolStutters ==
  ASSUME Inv, Lives', Holding' = Holding,
         waiting'["upload"] = waiting["upload"], count'["upload"] = count["upload"]
  PROVE  PoolStep /\ Counted'
BY DEF Inv, Counted, UploadsAreCounted, PoolStep

\* A transfer of another lane ends or is begun.
LEMMA NotUpload ==
  ASSUME NEW o, NEW p, NEW lane, Is(o, lane), Is(p, "upload"), lane # "upload"
  PROVE  o # p /\ key[o] # key[p]
BY DEF Is

LEMMA LoadCancelled ==
  ASSUME Inv, Types', NewAreIdle', [Next]_vars, NEW k \in Attachment, CancelLoad(k)
  PROVE  Lives' /\ PoolStep /\ Counted'
<1> DEFINE o == paths[k]
<1>1. /\ Types /\ Lanes /\ Lives
      /\ state \in [Op -> 0..3] /\ waiting \in [Lane -> Seq(Op)] /\ "load" # "upload"
  BY DEF Inv, Types
<1>2. o \in Op /\ Is(o, "load")
  <2>1. k \in Key /\ LaneOf(k) = "load"
    BY LaneOfKey DEF Key
  <2> QED BY <1>1, <2>1, OfPath DEF CancelLoad
<1>3. /\ UNCHANGED <<created, key, paths, count, thread>>
      /\ Cancel(o, tasks)
      /\ waiting' = [waiting EXCEPT !["load"] = WithoutOp(@, o)]
  BY DEF CancelLoad, opVars
<1> HIDE DEF o
<1>4. waiting'["upload"] = waiting["upload"]
  BY <1>1, <1>3 DEF Lane
<1>5. \A p \in Op : Is(p, "upload") => state'[p] = state[p] /\ SameEnd(p)
  <2> SUFFICES ASSUME NEW p \in Op, Is(p, "upload")
               PROVE  state'[p] = state[p] /\ SameEnd(p)
    OBVIOUS
  <2>1. p # o
    BY <1>2, NotUpload
  <2>2. state'[p] = state[p]
    BY <1>1, <1>3, <2>1 DEF Cancel
  <2>3. tasks' = tasks \/ tasks' = Append(tasks, [do |-> "release", op |-> o])
    BY <1>3 DEF Cancel
  <2>4. [do |-> "release", op |-> o] \in Task
    BY <1>2, TasksMade
  <2>5. SameEnd(p)
    <3>1. CASE tasks' = tasks
      BY <3>1 DEF SameEnd
    <3>2. CASE tasks' = Append(tasks, [do |-> "release", op |-> o])
      BY <1>1, <2>1, <2>4, <3>2, SameEndAppend
    <3> QED BY <2>3, <3>1, <3>2
  <2> QED BY <2>2, <2>5
<1>6. \A p, lane : WillBe(p, lane) <=> Is(p, lane)
  BY <1>3 DEF WillBe, Is
<1>7. Lives' /\ Holding' = Holding
  <2>1. thread' = Free \/ (thread # Free /\ thread'.op = thread.op)
    BY <1>3
  <2> QED BY <1>1, <1>3, <1>4, <1>5, <1>6, <2>1, Undisturbed
<1> QED BY <1>3, <1>4, <1>7, PoolStutters

LEMMA CancelTaskStep ==
  ASSUME Inv, Types', NewAreIdle', [Next]_vars, CancelTask
  PROVE  Lives' /\ PoolStep /\ Counted'
<1> DEFINE o == paths[Head(tasks).key]
           q == waiting["upload"]
<1>1. /\ Types /\ Lanes /\ Lives
      /\ state \in [Op -> 0..3] /\ waiting \in [Lane -> Seq(Op)] /\ tasks \in Seq(Task)
      /\ q \in Seq(Op) /\ NoneTwice(q)
  BY DEF Inv, Types, Lane, Lanes, WaitingNamed
<1>2. /\ tasks # <<>> /\ Head(tasks).do = "cancel" /\ thread = Free
      /\ UNCHANGED <<created, key, paths, count, thread>>
      /\ \/ /\ o = None /\ tasks' = Tail(tasks) /\ UNCHANGED <<state, waiting>>
         \/ /\ o # None /\ waiting' = [waiting EXCEPT !["upload"] = WithoutOp(@, o)]
            /\ Cancel(o, Tail(tasks))
  BY DEF CancelTask, TaskIs, opVars
<1>3. o # None => o \in Op /\ Is(o, "upload")
  <2>1. Head(tasks).key \in Key /\ LaneOf(Head(tasks).key) = "upload"
    BY <1>1, <1>2, TheHead, LaneOfKey
  <2> QED BY <1>1, <2>1, OfPath
<1>4. \A p, lane : WillBe(p, lane) <=> Is(p, lane)
  BY <1>2 DEF WillBe, Is
<1> HIDE DEF o
<1>5. ASSUME tasks' = Tail(tasks), UNCHANGED state, waiting'["upload"] = waiting["upload"]
      PROVE  Lives' /\ PoolStep /\ Counted'
  <2>1. \A p : SameEnd(p)
    BY <1>1, <1>2, <1>5, SameEndTail
  <2>2. Lives' /\ Holding' = Holding
    BY <1>1, <1>2, <1>4, <1>5, <2>1, Undisturbed
  <2> QED BY <1>2, <1>5, <2>2, PoolStutters
<1>6. ASSUME o # None, state[o] = 1, Cancel(o, Tail(tasks)),
             waiting' = [waiting EXCEPT !["upload"] = WithoutOp(@, o)]
      PROVE  Lives' /\ PoolStep /\ Counted'
  <2>1. \A i \in DOMAIN q : q[i] # o
    BY <1>1, <1>6, WhoWaits
  <2>2. waiting'["upload"] = waiting["upload"]
    BY <1>1, <1>6, <2>1, WithoutOthers DEF Lane
  <2>3. /\ state' = [state EXCEPT ![o] = 2]
        /\ tasks' = Append(Tail(tasks), [do |-> "release", op |-> o])
    BY <1>6 DEF Cancel
  <2>4. /\ Tail(tasks) \in Seq(Task)
        /\ \A p : Releases(Tail(tasks), p) <=> Releases(tasks, p)
        /\ \A p : ReleasesOnce(tasks, p) => ReleasesOnce(Tail(tasks), p)
    BY <1>1, <1>2, TailTask
  <2> QED BY <1>2, <1>3, <1>6, <2>2, <2>3, <2>4, UploadEnds
<1>7. ASSUME o # None, state[o] # 1, Cancel(o, Tail(tasks)),
             waiting' = [waiting EXCEPT !["upload"] = WithoutOp(@, o)]
      PROVE  Lives' /\ PoolStep /\ Counted'
  <2>1. UNCHANGED state /\ tasks' = Tail(tasks)
    BY <1>7 DEF Cancel
  <2>2. CASE \A i \in DOMAIN q : q[i] # o
    <3>1. waiting'["upload"] = waiting["upload"]
      BY <1>1, <1>7, <2>2, WithoutOthers DEF Lane
    <3> QED BY <1>5, <2>1, <3>1
  <2>3. CASE \E i \in DOMAIN q : q[i] = o
    <3>1. PICK n \in DOMAIN q : q[n] = o
      BY <2>3
    <3>2. waiting' = [waiting EXCEPT !["upload"] = RemoveAt(@, n)]
      BY <1>1, <1>7, <3>1, WithoutSomeOp
    <3> QED BY <1>2, <2>1, <3>2, UploadWithdrawn
  <2> QED BY <2>2, <2>3
<1> QED BY <1>2, <1>5, <1>6, <1>7

\* Begin and Release of downloads and loads.
LEMMA OtherBegins ==
  ASSUME Inv, Types', NewAreIdle', [Next]_vars, Begin, Head(tasks).key \notin Path
  PROVE  Lives' /\ PoolStep /\ Counted'
<1> DEFINE k == Head(tasks).key
           o == created + 1
           lane == LaneOf(k)
<1>1. /\ Types /\ Lanes /\ Lives
      /\ state \in [Op -> 0..3] /\ waiting \in [Lane -> Seq(Op)] /\ tasks \in Seq(Task)
      /\ count \in [{"upload", "load"} -> Int] /\ paths \in [Key -> Op \cup {None}]
  BY DEF Inv, Types
<1>2. /\ o \in Op /\ o \notin 1..created /\ k \in Key /\ lane \in Lane /\ lane # "upload"
      /\ WillBe(o, lane)
  BY <1>1, NewOp, LaneOfKey, BeginsInLane
<1>3. /\ tasks # <<>> /\ Head(tasks).do = "request" /\ tasks' = Tail(tasks) /\ thread = Free
      /\ UNCHANGED paths \/ paths' = [paths EXCEPT ![k] = o]
      /\ Admit(o, k)
  BY DEF Begin, TaskIs
<1>4. \A p \in Op : WillBe(p, "upload") => Is(p, "upload")
  <2>1. \A p \in 1..created' : p = o \/ p \in 1..created
    BY <1>1, NewOp DEF Types
  <2> QED BY <1>1, <1>2, <2>1, OpsStay DEF WillBe, Is
<1>5. \A p \in Op : Is(p, "upload") => p # o /\ key[p] # k /\ key[p] \in Key
  BY <1>1, <1>2 DEF Is, Types
<1>6. \A p : SameEnd(p)
  BY <1>1, <1>3, SameEndTail
<1>7. /\ count'["upload"] = count["upload"] /\ waiting'["upload"] = waiting["upload"]
      /\ \A p \in Op : p # o => state'[p] = state[p]
      /\ thread' = Free \/ ~WillBe(thread'.op, "upload")
  <2>1. CountedAs(lane) = "load"
    BY <1>2 DEF CountedAs, Lane
  <2> HIDE DEF o
  <2>2. CASE count[LooksAt(lane)] < Slots
    <3>1. /\ count' = [count EXCEPT !["load"] = @ + 1]
          /\ UNCHANGED waiting /\ Start(o, k)
      BY <1>3, <2>1, <2>2 DEF Admit
    <3>2. /\ state' = [state EXCEPT ![o] = 1]
          /\ thread' = Free \/ thread' = [at |-> "transfer", op |-> o]
      BY <1>3, <3>1 DEF Start
    <3>3. thread' = Free \/ ~WillBe(thread'.op, "upload")
      BY <1>2, <3>2 DEF WillBe
    <3> QED BY <1>1, <3>1, <3>2, <3>3
  <2>3. CASE ~(count[LooksAt(lane)] < Slots)
    BY <1>1, <1>2, <1>3, <2>3 DEF Admit, Lane
  <2> QED BY <2>2, <2>3
<1>8. \A p \in Op : Is(p, "upload") =>
        state'[p] = state[p] /\ paths'[key[p]] = paths[key[p]] /\ SameEnd(p)
  BY <1>1, <1>3, <1>5, <1>6, <1>7
<1>9. Lives' /\ Holding' = Holding
  BY <1>1, <1>4, <1>7, <1>8, Undisturbed
<1> QED BY <1>7, <1>9, PoolStutters

LEMMA OtherReleased ==
  ASSUME Inv, Types', NewAreIdle', [Next]_vars, Release, ~Is(Head(tasks).op, "upload")
  PROVE  Lives' /\ PoolStep /\ Counted'
<1> DEFINE o == Head(tasks).op
           next == Head(waiting["load"])
<1>1. /\ Types /\ Lanes /\ Lives
      /\ state \in [Op -> 0..3] /\ waiting \in [Lane -> Seq(Op)] /\ tasks \in Seq(Task)
      /\ count \in [{"upload", "load"} -> Int] /\ paths \in [Key -> Op \cup {None}]
      /\ "load" \in Lane /\ "upload" \in Lane /\ "load" # "upload"
  BY DEF Inv, Types, Lane
<1>2. /\ tasks # <<>> /\ Head(tasks).do = "release" /\ tasks' = Tail(tasks) /\ thread = Free
      /\ o \in Op /\ Is(o, "load") /\ key[o] \in Key /\ LaneOf(key[o]) = "load"
      /\ paths' = [paths EXCEPT ![key[o]] = None]
      /\ UNCHANGED <<created, key>>
  BY <1>1, ReleasedLane, TheHead DEF Release, TaskIs, Is
<1>3. \A p, lane : WillBe(p, lane) <=> Is(p, lane)
  BY <1>2 DEF WillBe, Is
<1>4. \/ /\ waiting["load"] # <<>> /\ waiting' = [waiting EXCEPT !["load"] = Tail(@)]
         /\ Start(next, key[next]) /\ UNCHANGED count
      \/ /\ count' = [count EXCEPT !["load"] = count["load"] - 1]
         /\ UNCHANGED <<waiting, state, thread>>
  BY <1>2 DEF Release
<1>5. \A p \in Op : Is(p, "upload") => p # o /\ key[p] # key[o] /\ key[p] \in Key /\ SameEnd(p)
  <2>1. \A p \in Op : Is(p, "upload") => p # o /\ key[p] # key[o] /\ key[p] \in Key
    BY <1>1, <1>2 DEF Is, Types
  <2> QED BY <1>1, <1>2, <2>1, SameEndTail
<1> HIDE DEF o
<1>6. /\ count'["upload"] = count["upload"] /\ waiting'["upload"] = waiting["upload"]
      /\ thread' = Free
      /\ \A p \in Op : Is(p, "upload") => state'[p] = state[p]
  <2>1. ASSUME waiting["load"] # <<>>, waiting' = [waiting EXCEPT !["load"] = Tail(@)],
               Start(next, key[next]), UNCHANGED count
        PROVE  /\ waiting'["upload"] = waiting["upload"]
               /\ thread' = Free
               /\ \A p \in Op : Is(p, "upload") => state'[p] = state[p]
    <3>1. next \in Op /\ Is(next, "load") /\ LaneOf(key[next]) = "load"
      BY <1>1, <2>1, FirstWaits DEF Is
    <3>2. UNCHANGED thread /\ state' = [state EXCEPT ![next] = 1]
      BY <2>1, <3>1 DEF Start
    <3>3. \A p \in Op : Is(p, "upload") => p # next
      BY <1>1, <3>1 DEF Is
    <3> HIDE DEF next
    <3> QED BY <1>1, <1>2, <2>1, <3>2, <3>3
  <2>2. CASE /\ count' = [count EXCEPT !["load"] = count["load"] - 1]
             /\ UNCHANGED <<waiting, state, thread>>
    BY <1>1, <1>2, <2>2
  <2> QED BY <1>4, <2>1, <2>2
<1>7. \A p \in Op : Is(p, "upload") => paths'[key[p]] = paths[key[p]]
  BY <1>1, <1>2, <1>5
<1>8. Lives' /\ Holding' = Holding
  BY <1>1, <1>3, <1>5, <1>6, <1>7, Undisturbed
<1> QED BY <1>6, <1>8, PoolStutters

\* The thread's upload ends by itself.
LEMMA UploadFinishes ==
  ASSUME Inv, Types', NewAreIdle', [Next]_vars, Finish
  PROVE  Lives' /\ PoolStep /\ Counted'
<1>1. Types /\ Lanes /\ Lives /\ tasks \in Seq(Task)
  BY DEF Inv, Types
<1>2. /\ thread # Free /\ thread.at # "transfer" /\ thread.op \in Op
  BY <1>1 DEF Finish, At, Types, Thread, Free
<1>3. Is(thread.op, "upload") /\ state[thread.op] = 1
  BY <1>1, <1>2 DEF Lanes, ThreadNamed, Lives, ThreadWorks
<1>4. /\ state' = [state EXCEPT ![thread.op] = 3]
      /\ tasks' = Append(tasks, [do |-> "release", op |-> thread.op])
      /\ UNCHANGED <<created, key, paths, count, waiting>>
      /\ thread' = Free
  BY DEF Finish, Post, opVars
<1> QED BY <1>1, <1>2, <1>3, <1>4, UploadEnds

\* A task is posted or dropped that ends no upload, and the thread goes on
\* with what it does or is free.
LEMMA NothingEnds ==
  ASSUME Inv, Types', NewAreIdle', [Next]_vars,
         UNCHANGED <<created, key, paths, state, waiting, count>>,
         \/ UNCHANGED tasks
         \/ \E t \in Task : /\ t.do = "release" => ~Is(t.op, "upload")
                            /\ tasks' = Append(tasks, t)
         \/ tasks # <<>> /\ Head(tasks).do # "release" /\ tasks' = Tail(tasks),
         thread' = Free \/ (thread # Free /\ thread'.op = thread.op)
  PROVE  Lives' /\ PoolStep /\ Counted'
<1>1. Types /\ Lanes /\ Lives
  BY DEF Inv
<1>2. \A p, lane : WillBe(p, lane) <=> Is(p, lane)
  BY DEF WillBe, Is
<1>3. \A p \in Op : Is(p, "upload") => SameEnd(p)
  <2> SUFFICES ASSUME NEW p \in Op, Is(p, "upload")
               PROVE  SameEnd(p)
    OBVIOUS
  <2>1. CASE UNCHANGED tasks
    BY <2>1 DEF SameEnd
  <2>2. ASSUME NEW t \in Task, t.do = "release" => ~Is(t.op, "upload"), tasks' = Append(tasks, t)
        PROVE  SameEnd(p)
    BY <1>1, <2>2, SameEndAppend
  <2>3. CASE tasks # <<>> /\ Head(tasks).do # "release" /\ tasks' = Tail(tasks)
    BY <1>1, <2>3, SameEndTail
  <2> QED BY <2>1, <2>2, <2>3
<1>4. Lives' /\ Holding' = Holding
  BY <1>1, <1>2, <1>3, Undisturbed
<1> QED BY <1>4, PoolStutters

\* A download ends.
LEMMA DownloadEnds ==
  ASSUME Inv, Types', NewAreIdle', [Next]_vars, Downloaded
  PROVE  Lives' /\ PoolStep /\ Counted'
<1>1. Types /\ Lanes /\ Lives /\ state \in [Op -> 0..3]
  BY DEF Inv, Types
<1>2. /\ state' = [state EXCEPT ![thread.op] = 3] /\ thread' = Free
      /\ UNCHANGED <<created, key, paths, waiting, count, tasks>>
      /\ LaneOf(key[thread.op]) # "upload"
  BY DEF Downloaded, Uploading, opVars
<1>3. \A p, lane : WillBe(p, lane) <=> Is(p, lane)
  BY <1>2 DEF WillBe, Is
<1>4. \A p \in Op : Is(p, "upload") => state'[p] = state[p] /\ SameEnd(p)
  BY <1>1, <1>2 DEF Is, SameEnd
<1>5. Lives' /\ Holding' = Holding
  BY <1>1, <1>2, <1>3, <1>4, Undisturbed
<1> QED BY <1>2, <1>5, PoolStutters

\* A step keeps the invariant of uploads and is a step of their pool.
LEMMA UploadsStep ==
  ASSUME Inv, [Next]_vars
  PROVE  Types' /\ Lanes' /\ Lives' /\ PoolStep /\ Counted'
<1> DEFINE Goal == Lives' /\ PoolStep /\ Counted'
<1>1. /\ Types /\ Lanes /\ Lives /\ Types' /\ Lanes' /\ NewAreIdle'
      /\ tasks \in Seq(Task) /\ thread \in Thread
  BY TypesStep, LanesStep, IdleStep DEF Inv, Lives, Types
<1>2. ASSUME NEW k \in Key, Request(k)
      PROVE  Goal
  <2>1. [do |-> "request", key |-> k] \in Task
    BY TasksMade
  <2> QED BY <1>1, <1>2, <2>1, NothingEnds DEF Request, Post, opVars
<1>3. ASSUME NEW k \in Path, CancelUpload(k)
      PROVE  Goal
  <2>1. [do |-> "cancel", key |-> k] \in Task
    BY TasksMade DEF Key
  <2> QED BY <1>1, <1>3, <2>1, NothingEnds DEF CancelUpload, Post, opVars
<1>4. ASSUME NEW k \in Attachment, CancelLoad(k)
      PROVE  Goal
  BY <1>1, <1>4, LoadCancelled
<1>5. CASE Drop
  BY <1>1, <1>5, NothingEnds DEF Drop, TaskIs, opVars
<1>6. CASE Begin
  BY <1>1, <1>6, UploadBegins, OtherBegins
<1>7. CASE CancelTask
  BY <1>1, <1>7, CancelTaskStep
<1>8. CASE Release
  BY <1>1, <1>8, UploadReleased, OtherReleased
<1>9. CASE Uploaded \/ Connected
  <2>1. /\ thread # Free /\ thread'.op = thread.op
        /\ UNCHANGED <<created, key, paths, state, waiting, count, tasks>>
    BY <1>1, <1>9 DEF Uploaded, Connected, At, Free, Thread, opVars
  <2> QED BY <1>1, <2>1, NothingEnds
<1>10. CASE Downloaded
  BY <1>1, <1>10, DownloadEnds
<1>11. CASE TransferThrows \/ ConnectionGone
  BY <1>1, <1>11, NothingEnds DEF TransferThrows, ConnectionGone, opVars
<1>12. CASE Finish
  BY <1>1, <1>12, UploadFinishes
<1>13. ASSUME NEW o \in Op, LoadFails(o)
       PROVE  Goal
  <2>1. [do |-> "release", op |-> o] \in Task
    BY TasksMade
  <2>2. Is(o, "load") /\ ~Is(o, "upload")
    BY <1>1, <1>13 DEF LoadFails, Lanes, LoadsNamed, Is
  <2>3. /\ UNCHANGED <<created, key, paths, state, waiting, count, thread>>
        /\ tasks' = Append(tasks, [do |-> "release", op |-> o])
    BY <1>13 DEF LoadFails, Post, opVars
  <2> QED BY <1>1, <2>1, <2>2, <2>3, NothingEnds
<1>14. CASE UNCHANGED <<created, key, paths, state, waiting, count, tasks, thread>>
  BY <1>1, <1>14, NothingEnds
<1>15. ASSUME NEW o \in Op, CacheRead(o)
       PROVE  Goal
  BY <1>14, <1>15 DEF CacheRead, opVars
<1>16. CASE ConnectionChanges \/ UNCHANGED vars
  BY <1>14, <1>16 DEF ConnectionChanges, vars, opVars
<1> QED
  BY <1>1, <1>2, <1>3, <1>4, <1>5, <1>6, <1>7, <1>8, <1>9, <1>10, <1>11, <1>12, <1>13, <1>15, <1>16
     DEF Next, QueueSteps, OtherQueues

-----------------------------------------------------------------------------
(* Nobody waits in vain.                                                   *)

\* What two states do to whoever waits in a lane.
Held(lane) == waiting[lane] # <<>> => count[lane] >= 2
WillBeHeld(lane) == waiting'[lane] # <<>> => count'[lane] >= 2

LEMMA AllHeld ==
  /\ WaitsOnlyForSlots <=> Held("upload") /\ Held("load")
  /\ WaitsOnlyForSlots' <=> WillBeHeld("upload") /\ WillBeHeld("load")
BY DEF WaitsOnlyForSlots, Held, WillBeHeld, Slots

LEMMA WaitsStep ==
  ASSUME Inv, [Next]_vars
  PROVE  WaitsOnlyForSlots'
<1>1. /\ Types /\ Lanes /\ Held("upload") /\ Held("load")
      /\ count \in [{"upload", "load"} -> Int] /\ waiting \in [Lane -> Seq(Op)]
      /\ "upload" \in Lane /\ "load" \in Lane /\ "download" \in Lane
  BY AllHeld DEF Inv, Types, Lane
<1>2. SUFFICES WillBeHeld("upload") /\ WillBeHeld("load")
  BY AllHeld
<1>3. CASE UNCHANGED <<waiting, count>>
  BY <1>1, <1>3 DEF Held, WillBeHeld
<1>4. ASSUME NEW lane \in {"upload", "load"}, NEW o, UNCHANGED count,
             waiting' = [waiting EXCEPT ![lane] = WithoutOp(@, o)]
      PROVE  WillBeHeld("upload") /\ WillBeHeld("load")
  <2>1. waiting[lane] = <<>> => WithoutOp(waiting[lane], o) = <<>>
    BY <1>1, Without DEF Lanes, WaitingNamed, Lane
  <2>2. waiting'[lane] = WithoutOp(waiting[lane], o)
    BY <1>1, <1>4 DEF Lane
  <2>3. WillBeHeld(lane)
    BY <1>1, <1>4, <2>1, <2>2 DEF Held, WillBeHeld
  <2>4. \A other \in {"upload", "load"} : other # lane => WillBeHeld(other)
    BY <1>1, <1>4 DEF Held, WillBeHeld
  <2> QED BY <2>3, <2>4
<1>5. CASE Begin
  <2> DEFINE k == Head(tasks).key
             lane == LaneOf(k)
  <2>1. k \in Key /\ lane \in Lane /\ Admit(created + 1, k)
    BY <1>1, <1>5, NewOp, LaneOfKey DEF Begin
  <2> HIDE DEF k
  <2>2. CASE count[LooksAt(lane)] < 2
    <3>1. /\ UNCHANGED waiting
          /\ count' = [count EXCEPT ![CountedAs(lane)] = @ + 1]
      BY <2>1, <2>2 DEF Admit, Slots
    <3>2. CountedAs(lane) \in {"upload", "load"}
      BY <2>1, LanesTyped
    <3>3. count'["upload"] >= count["upload"] /\ count'["load"] >= count["load"]
      BY <1>1, <3>1, <3>2
    <3>4. count'["upload"] \in Int /\ count'["load"] \in Int
      BY <1>1, <3>1, <3>2
    <3> QED BY <1>1, <3>1, <3>3, <3>4 DEF Held, WillBeHeld
  <2>3. CASE ~(count[LooksAt(lane)] < 2)
    <3>1. /\ UNCHANGED count
          /\ waiting' = [waiting EXCEPT ![lane] = Append(@, created + 1)]
      BY <2>1, <2>3 DEF Admit, Slots
    <3>2. lane \in {"upload", "load"} => count[lane] >= 2
      BY <1>1, <2>3 DEF LooksAt
    <3>3. \A other \in {"upload", "load"} : other # lane => WillBeHeld(other)
      BY <1>1, <2>1, <3>1 DEF Held, WillBeHeld
    <3> QED BY <3>1, <3>2, <3>3 DEF WillBeHeld
  <2> QED BY <2>2, <2>3
<1>6. CASE Release
  <2> DEFINE lane == LaneOf(key[Head(tasks).op])
  <2>1. lane \in {"upload", "load"}
    BY <1>1, <1>6, ReleasedLane
  <2>2. \/ /\ waiting[lane] # <<>> /\ UNCHANGED count
           /\ waiting' = [waiting EXCEPT ![lane] = Tail(@)]
        \/ /\ waiting[lane] = <<>> \/ ~(count[lane] - 1 < 2)
           /\ UNCHANGED waiting /\ count' = [count EXCEPT ![lane] = count[lane] - 1]
    BY <1>6 DEF Release, Slots
  <2> HIDE DEF lane
  <2>3. \A other \in {"upload", "load"} : other # lane => WillBeHeld(other)
    BY <1>1, <2>1, <2>2 DEF Held, WillBeHeld
  <2>4. WillBeHeld(lane)
    BY <1>1, <2>1, <2>2 DEF Held, WillBeHeld
  <2> QED BY <2>3, <2>4
<1>7. ASSUME NEW k \in Attachment, CancelLoad(k)
      PROVE  WillBeHeld("upload") /\ WillBeHeld("load")
  BY <1>4, <1>7 DEF CancelLoad
<1>8. CASE CancelTask
  BY <1>3, <1>4, <1>8 DEF CancelTask
<1> QED
  BY <1>3, <1>5, <1>6, <1>7, <1>8
     DEF Next, QueueSteps, OtherQueues, Request, CancelUpload, Drop, Uploaded, Downloaded,
         TransferThrows, Connected, Finish, ConnectionGone, CacheRead, LoadFails,
         ConnectionChanges, vars

-----------------------------------------------------------------------------
(* The invariant holds, and what follows from it.                          *)

LEMMA InvInit ==
  ASSUME Init
  PROVE  Inv
<1>1. /\ MaxRequests \in Nat /\ MaxCancels \in Nat
  BY TransfersAssumption
<1>2. Cardinality(Requesting(tasks)) = 0
  <2>1. Requesting(tasks) = {}
    BY DEF Init, Requesting
  <2> QED BY <2>1, FS_EmptySet
<1>3. Types
  <2>1. key \in [1..created -> Key]
    BY DEF Init
  <2>2. waiting \in [Lane -> Seq(Op)] /\ tasks \in Seq(Task)
    BY DEF Init
  <2>3. thread \in Thread
    BY DEF Init, Thread
  <2>4. state \in [Op -> 0..3] /\ paths \in [Key -> Op \cup {None}]
    BY DEF Init
  <2>5. /\ requests \in 0..MaxRequests /\ cancels \in 0..MaxCancels
        /\ created \in Nat /\ created + Cardinality(Requesting(tasks)) <= requests
    BY <1>1, <1>2 DEF Init
  <2>6. count \in [{"upload", "load"} -> Int]
    BY DEF Init
  <2>7. cacheOut \subseteq Op /\ stage \subseteq Op
    BY DEF Init
  <2>8. online \in BOOLEAN
    BY DEF Init
  <2> QED BY <2>1, <2>2, <2>3, <2>4, <2>5, <2>6, <2>7, <2>8 DEF Types
<1>4. Lanes
  BY DEF Init, Lanes, PathsNamed, WaitingNamed, NoneTwice, TasksNamed, ThreadNamed, LoadsNamed, Lane
<1>5. Lives
  BY DEF Init, Lives, NewAreIdle, WaitingOwn, EndsOnce, ThreadWorks, Is, Lane
<1>6. Holding = {}
  BY DEF Init, Holding, IsUpload, Op
<1>7. Cardinality(Holding) = 0
  BY <1>6, FS_EmptySet
<1>8. Counted
  BY <1>7 DEF Init, Counted, UploadsAreCounted, Slots
<1>9. WaitsOnlyForSlots
  BY DEF Init, WaitsOnlyForSlots, Lane
<1> QED BY <1>3, <1>4, <1>5, <1>8, <1>9 DEF Inv

LEMMA InvStep ==
  ASSUME Inv, [Next]_vars
  PROVE  Inv'
BY UploadsStep, WaitsStep DEF Inv

LEMMA InvHolds == Spec => []Inv
<1>1. Init => Inv
  BY InvInit
<1>2. Inv /\ [Next]_vars => Inv'
  BY InvStep
<1> QED BY <1>1, <1>2, PTL DEF Spec

\* The bound on the operations comes from the requests that are still queued.
\* Every variable of FileLoader keeps its type: no operation is created beyond
\* the requests, and the counter of uploads stays between 0 and 2.
THEOREM TypeCorrect == Spec => []TypeOK
<1>1. Inv => TypeOK
  <2> SUFFICES ASSUME Inv
               PROVE  TypeOK
    OBVIOUS
  <2>1. Types /\ Cardinality(Requesting(tasks)) \in Nat
    BY RequestingIsFinite DEF Inv, Types
  <2>2. created \in 0..MaxRequests
    BY <2>1, TransfersAssumption DEF Types
  <2>3. count["upload"] = Cardinality(Holding) /\ Cardinality(Holding) \in Nat
    BY <2>1, HoldingIsFinite DEF Inv, Counted, UploadsAreCounted
  <2>4. count["upload"] \in 0..Slots /\ count["load"] \in Int
    BY <2>1, <2>3 DEF Inv, Counted, Types, Slots
  <2> QED BY <2>1, <2>2, <2>4 DEF Types, TypeOK
<1> QED BY <1>1, InvHolds, PTL

\* currentUploadOperationsCount is the number of uploads under way, whatever
\* ends and cancellations overlap: no slot is given back twice and none while
\* its transfer still runs.
THEOREM CounterIsExact == Spec => []UploadsAreCounted
<1>1. Inv => UploadsAreCounted
  BY DEF Inv, Counted
<1> QED BY <1>1, InvHolds, PTL

\* A file is not uploaded, or queued for it, by two operations at once: the
\* path stays registered until the one task that gives the slot back.
THEOREM OneUploadOfAPath == Spec => []OneUploadPerPath
<1>1. Inv => OneUploadPerPath
  <2> SUFFICES ASSUME Inv
               PROVE  OneUploadPerPath
    OBVIOUS
  <2>1. Types /\ Lanes /\ Lives
    BY DEF Inv
  <2>2. \A o \in Holding : Owns(o)
    BY <2>1, HoldingIs DEF Holding, Lives, EndsOnce
  <2>3. \A o \in Queued("upload") : Owns(o)
    BY <2>1, WhoWaits DEF Queued
  <2> QED BY <2>2, <2>3 DEF OneUploadPerPath, Owns
<1> QED BY <1>1, InvHolds, PTL

\* While an upload or a load waits, two slots of its counter are taken: the end
\* of a transfer never leaves a free slot beside a queue.
THEOREM NobodyWaitsInVain == Spec => []WaitsOnlyForSlots
<1>1. Inv => WaitsOnlyForSlots
  BY DEF Inv
<1> QED BY <1>1, InvHolds, PTL

\* The uploads of FileLoader implement a pool of two slots that are given out
\* in the order of the requests.
THEOREM UploadsImplementAPool == Spec => UploadsAreAPool
<1>1. Init => Uploads!Init
  <2> SUFFICES ASSUME Init
               PROVE  Uploads!Init
    OBVIOUS
  <2>1. Holding = {}
    BY DEF Init, Holding, IsUpload, Op
  <2> QED BY <2>1 DEF Init, Uploads!Init, Lane
<1>2. Inv /\ [Next]_vars => [Uploads!Next]_<<Holding, waiting["upload"]>>
  BY UploadsStep DEF PoolStep
<1> QED BY <1>1, <1>2, InvHolds, PTL DEF Spec, UploadsAreAPool, Uploads!Spec
=============================================================================
