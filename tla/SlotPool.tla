------------------------------ MODULE SlotPool ------------------------------
(***************************************************************************)
(* What FileLoader promises about uploads: at most Slots of them are under *)
(* way, the others wait in the order they came, a slot given up goes to    *)
(* the first that waits, and nobody waits while a slot is free.            *)
(***************************************************************************)
EXTENDS Integers, Sequences, FiniteSets, SequencesExt

CONSTANTS Op, Slots

VARIABLES
  busy,    \* the set of operations that hold a slot
  waiting  \* the queue of those that wait for one

Listed(o) == \E i \in DOMAIN waiting : waiting[i] = o

TakeSlot(o) ==
  /\ o \notin busy /\ waiting = <<>> /\ Cardinality(busy) < Slots
  /\ busy' = busy \cup {o}
  /\ UNCHANGED waiting

Queue(o) ==
  /\ o \notin busy /\ ~Listed(o) /\ Cardinality(busy) >= Slots
  /\ waiting' = Append(waiting, o)
  /\ UNCHANGED busy

\* Give a slot up, to the first that waits if there is one.
GiveUp(o) ==
  /\ o \in busy
  /\ IF waiting = <<>>
     THEN busy' = busy \ {o} /\ UNCHANGED waiting
     ELSE /\ busy' = (busy \ {o}) \cup {Head(waiting)}
          /\ waiting' = Tail(waiting)

Withdraw(o) ==
  /\ \E i \in DOMAIN waiting : waiting[i] = o /\ waiting' = RemoveAt(waiting, i)
  /\ UNCHANGED busy

Init == busy = {} /\ waiting = <<>>

Next == \E o \in Op : TakeSlot(o) \/ Queue(o) \/ GiveUp(o) \/ Withdraw(o)

Spec == Init /\ [][Next]_<<busy, waiting>>
=============================================================================
