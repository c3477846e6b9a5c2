-------------------------- MODULE VoicePlayer_proofs --------------------------
(* Theorems about VoicePlayer, for any number of buffers of any size, notes *)
(* of any length, and any number of plays, seeks and pauses: the types, that *)
(* no buffer is lost or doubled, and that what is heard is in order.         *)
EXTENDS VoicePlayer, FiniteSetTheorems, TLAPS

-----------------------------------------------------------------------------
(* The types.                                                              *)

DecodeTask == [is : {"open", "start", "decode"}] \cup [is : {"seek"}, pos : Nat]
ViewTask == [is : {"opened", "seekDone", "marker"}]

QueueTypes ==
  /\ decodeQ \in Seq(DecodeTask)
  /\ playQ \in Seq({Play})
  /\ uiQ \in Seq(ViewTask)

\* The player is cleaned up before a note is opened.
ViewTypes ==
  /\ progress \in [Note -> Nat]
  /\ opening \in 0..MaxNotes /\ playing \in 0..MaxNotes
  /\ track \in {"none", "playing", "paused"}
  /\ marker \in BOOLEAN /\ isPaused \in BOOLEAN
  /\ playing # NoNote <=> track # "none"
  /\ opening # NoNote => playing = NoNote
  /\ isPaused => track = "paused"
  /\ marker => track # "none"

\* Whoever works on a buffer has one.
BufferTypes ==
  /\ free \in Seq(Buffer) /\ used \in Seq(Buffer)
  /\ decoding \in [at : {"idle", "take", "put"}, b : 0..Buffers, was : BOOLEAN]
  /\ decoding.at = "put" => decoding.b \in Buffer
  /\ writing \in [at : {"idle", "take", "write", "free"}, b : 0..Buffers, was : {FALSE}]
  /\ writing.at \in {"write", "free"} => writing.b \in Buffer

File == [note : 0..MaxNotes, pos : Nat, gen : Nat, from : Nat, finished : BOOLEAN,
         failed : {"no", "inside", "between"}]

\* The file is never read from behind its end.
AudioTypes ==
  /\ buf \in [Buffer -> Piece]
  /\ \A b \in Buffer : buf[b].to - buf[b].from \in 0..Capacity
  /\ heard \in Seq(Piece)
  /\ native \in File
  /\ native.note # NoNote => native.pos <= Total[native.note]
  /\ decodingFinished \in BOOLEAN

GhostTypes ==
  /\ clean \in BOOLEAN
  /\ late \in BOOLEAN
  /\ starts \in Nat

Types == QueueTypes /\ ViewTypes /\ BufferTypes /\ AudioTypes /\ GhostTypes

-----------------------------------------------------------------------------
(* Each buffer is in one place.                                            *)

NoneTwice(s) == \A i, j \in 1..Len(s) : s[i] = s[j] => i = j

OnePlace ==
  /\ NoneTwice(free) /\ NoneTwice(used)
  /\ Listed(free) \cap Listed(used) = {}
  /\ Listed(free) \cap Held = {}
  /\ Listed(used) \cap Held = {}
  /\ decoding.at = "put" /\ writing.at \in {"write", "free"} => decoding.b # writing.b
  /\ Listed(free) \cup Listed(used) \cup Held = Buffer

-----------------------------------------------------------------------------
(* What the track will have taken when it has taken all there is.          *)

InHand == IF writing.at = "write" THEN 1 ELSE 0
PipeLen == Len(heard) + InHand + Len(used)
Pipe(i) ==
  IF i <= Len(heard) THEN heard[i]
  ELSE IF i <= Len(heard) + InHand THEN buf[writing.b]
  ELSE buf[used[i - Len(heard) - InHand]]

\* What one piece is: of the note, and the last one only where the note ends
\* or reading failed.
EndsWell(p, f) ==
  p.finished =>
    /\ f.finished
    /\ \/ p.to = Total[p.note]
       \/ /\ (Total[p.note] - p.from) % Capacity = 0
          /\ p.to = Total[p.note] - Capacity
       \/ f.failed = "inside" /\ Short(p.to - p.from)

Follows(p, q) == p.gen <= q.gen /\ (p.gen = q.gen => q.from = p.to)

\* The first piece of the reading under way begins where the reading did.
Begins ==
  /\ \A i \in 1..PipeLen :
       Pipe(i).gen = native.gen /\ (i = 1 \/ Pipe(i - 1).gen < native.gen) =>
         Pipe(i).from = native.from
  /\ PipeLen = 0 \/ Pipe(PipeLen).gen < native.gen => native.pos = native.from

\* What waits to be played is of the reading under way.
WaitsOfNow == \A j \in 1..Len(used) : buf[used[j]].gen = native.gen

\* Nothing is between two pieces of one reading, nor between the last one
\* and where the file is.
PipeInOrder ==
  /\ \A i \in 1..PipeLen :
       /\ Pipe(i).note = playing /\ Pipe(i).gen <= native.gen
       /\ EndsWell(Pipe(i), native)
  /\ \A i \in 2..PipeLen : Follows(Pipe(i - 1), Pipe(i))
  /\ PipeLen > 0 /\ Pipe(PipeLen).gen = native.gen => Pipe(PipeLen).to = native.pos
  /\ Begins \/ SeekAwaited
  /\ WaitsOfNow

-----------------------------------------------------------------------------
(* A playing that began when the queues had nothing to do.                 *)

Resting == playQ = <<>> /\ decoding = Idle /\ writing = Idle

\* Its file is being opened.
Opening ==
  /\ opening # NoNote /\ Resting
  /\ \/ decodeQ = <<[is |-> "open"]>> /\ uiQ = <<>>
     \/ /\ decodeQ = <<>> /\ uiQ = <<[is |-> "opened"]>>
        /\ native.note = opening /\ native.pos = native.from

SeeksInside ==
  \A i \in 1..Len(decodeQ) :
    decodeQ[i].is = "seek" => decodeQ[i].pos < Total[playing]

\* The decoding queue has yet to begin: nothing is heard of it.
Starting ==
  /\ opening = NoNote /\ Resting /\ uiQ = <<>>
  /\ decodeQ # <<>> /\ decodeQ[1].is = "start"
  /\ \A i \in 2..Len(decodeQ) : decodeQ[i].is = "seek"
  /\ heard = <<>>
  /\ playing # NoNote =>
       native.note = playing /\ native.pos = native.from /\ SeeksInside

Running ==
  /\ opening = NoNote
  /\ \A i \in 1..Len(decodeQ) : decodeQ[i].is \in {"decode", "seek"}
  /\ \A i \in 1..Len(uiQ) : uiQ[i].is # "opened"
  /\ playing # NoNote => native.note = playing /\ SeeksInside /\ PipeInOrder

Orderly ==
  /\ playing = NoNote => heard = <<>>
  /\ clean => Opening \/ Starting \/ Running

Inv == Types /\ OnePlace /\ Tasks <= starts /\ Orderly

-----------------------------------------------------------------------------
(* The types hold.                                                         *)

LEMMA Constants ==
  /\ Buffers \in Nat /\ Buffers > 0 /\ Capacity \in Nat /\ Capacity > 0
  /\ MaxNotes \in Nat /\ MaxNotes > 0 /\ Total \in [Note -> Nat]
  /\ \A n \in Note : Total[n] > 0
BY PlayerAssumption DEF Note

LEMMA Posted ==
  ASSUME NEW S, NEW q \in Seq(S), NEW t \in S
  PROVE  /\ Append(q, t) \in Seq(S)
         /\ Len(Append(q, t)) = Len(q) + 1
         /\ \A i \in 1..Len(q) : Append(q, t)[i] = q[i]
         /\ Append(q, t)[Len(q) + 1] = t
OBVIOUS

LEMMA Taken ==
  ASSUME NEW S, NEW q \in Seq(S), q # <<>>
  PROVE  /\ q[1] \in S /\ Len(q) \in Nat /\ Len(q) > 0
         /\ Tail(q) \in Seq(S)
         /\ Len(Tail(q)) = Len(q) - 1
         /\ \A i \in 1..(Len(q) - 1) : Tail(q)[i] = q[i + 1]
OBVIOUS

LEMMA QueueTypesStep ==
  ASSUME QueueTypes, [Next]_vars
  PROVE  QueueTypes'
<1> DEFINE G == QueueTypes'
<1>1. /\ Append(decodeQ, Decode) \in Seq(DecodeTask)
      /\ Append(decodeQ, [is |-> "open"]) \in Seq(DecodeTask)
      /\ Append(decodeQ, [is |-> "start"]) \in Seq(DecodeTask)
      /\ \A pos \in Nat : Append(decodeQ, [is |-> "seek", pos |-> pos]) \in Seq(DecodeTask)
      /\ decodeQ # <<>> => Tail(decodeQ) \in Seq(DecodeTask)
  BY Posted, Taken DEF QueueTypes, DecodeTask, Decode
<1>2. /\ Append(playQ, Play) \in Seq({Play})
      /\ playQ # <<>> => Tail(playQ) \in Seq({Play})
  BY Posted, Taken DEF QueueTypes
<1>3. /\ Append(uiQ, [is |-> "marker"]) \in Seq(ViewTask)
      /\ Append(uiQ, [is |-> "seekDone"]) \in Seq(ViewTask)
      /\ <<[is |-> "opened"]>> \o uiQ \in Seq(ViewTask)
      /\ uiQ # <<>> => Tail(uiQ) \in Seq(ViewTask)
  BY Posted, Taken DEF QueueTypes, ViewTask
<1>4. ASSUME NEW n \in Note, PlayNote(n) PROVE G
  BY <1>4, <1>1, <1>2, <1>3 DEF PlayNote, QueueTypes, vars, uiVars, lists, ghosts, counters, DecodeTaskIs, DecodeEnd
<1>5. ASSUME NEW pos \in 0..(Total[playing] - 1), playing # NoNote, Seek(pos) PROVE G
  BY <1>5, <1>1, <1>2, <1>3 DEF Seek, QueueTypes, vars, uiVars, lists, ghosts, counters, DecodeTaskIs, DecodeEnd
<1>6. CASE Pause
  BY <1>6, <1>1, <1>2, <1>3 DEF Pause, QueueTypes, vars, uiVars, lists, ghosts, counters, DecodeTaskIs, DecodeEnd
<1>7. CASE Resume
  BY <1>7, <1>1, <1>2, <1>3 DEF Resume, QueueTypes, vars, uiVars, lists, ghosts, counters, DecodeTaskIs, DecodeEnd
<1>8. CASE Stop
  BY <1>8, <1>1, <1>2, <1>3 DEF Stop, QueueTypes, vars, uiVars, lists, ghosts, counters, DecodeTaskIs, DecodeEnd
<1>9. CASE ProgressTimer
  BY <1>9, <1>1, <1>2, <1>3 DEF ProgressTimer, QueueTypes, vars, uiVars, lists, ghosts, counters, DecodeTaskIs, DecodeEnd
<1>10. CASE PlayOpened
  BY <1>10, <1>1, <1>2, <1>3 DEF PlayOpened, QueueTypes, vars, uiVars, lists, ghosts, counters, DecodeTaskIs, DecodeEnd
<1>11. CASE SeekDone
  BY <1>11, <1>1, <1>2, <1>3 DEF SeekDone, QueueTypes, vars, uiVars, lists, ghosts, counters, DecodeTaskIs, DecodeEnd
<1>12. CASE SetMarker
  BY <1>12, <1>1, <1>2, <1>3 DEF SetMarker, QueueTypes, vars, uiVars, lists, ghosts, counters, DecodeTaskIs, DecodeEnd
<1>13. CASE MarkerReached
  BY <1>13, <1>1, <1>2, <1>3 DEF MarkerReached, QueueTypes, vars, uiVars, lists, ghosts, counters, DecodeTaskIs, DecodeEnd
<1>14. CASE Open
  BY <1>14, <1>1, <1>2, <1>3 DEF Open, QueueTypes, vars, uiVars, lists, ghosts, counters, DecodeTaskIs, DecodeEnd
<1>15. CASE Begin
  BY <1>15, <1>1, <1>2, <1>3 DEF Begin, QueueTypes, vars, uiVars, lists, ghosts, counters, DecodeTaskIs, DecodeEnd
<1>16. CASE SeekFile
  BY <1>16, <1>1, <1>2, <1>3 DEF SeekFile, QueueTypes, vars, uiVars, lists, ghosts, counters, DecodeTaskIs, DecodeEnd
<1>17. CASE DecodeNothing
  BY <1>17, <1>1, <1>2, <1>3 DEF DecodeNothing, QueueTypes, vars, uiVars, lists, ghosts, counters, DecodeTaskIs, DecodeEnd
<1>18. CASE DecodeBegin
  BY <1>18, <1>1, <1>2, <1>3 DEF DecodeBegin, QueueTypes, vars, uiVars, lists, ghosts, counters, DecodeTaskIs, DecodeEnd
<1>19. CASE DecodeTake
  BY <1>19, <1>1, <1>2, <1>3 DEF DecodeTake, QueueTypes, vars, uiVars, lists, ghosts, counters, DecodeTaskIs, DecodeEnd
<1>20. ASSUME NEW to \in Readable, Put(to) PROVE G
  BY <1>20, <1>1, <1>2, <1>3 DEF Put, QueueTypes, vars, uiVars, lists, ghosts, counters, DecodeTaskIs, DecodeEnd
<1>21. CASE PlayCheck
  BY <1>21, <1>1, <1>2, <1>3 DEF PlayCheck, QueueTypes, vars, uiVars, lists, ghosts, counters, DecodeTaskIs, DecodeEnd
<1>22. CASE PlayTake
  BY <1>22, <1>1, <1>2, <1>3 DEF PlayTake, QueueTypes, vars, uiVars, lists, ghosts, counters, DecodeTaskIs, DecodeEnd
<1>23. CASE PlayWrite
  BY <1>23, <1>1, <1>2, <1>3 DEF PlayWrite, QueueTypes, vars, uiVars, lists, ghosts, counters, DecodeTaskIs, DecodeEnd
<1>24. CASE PlayFree
  BY <1>24, <1>1, <1>2, <1>3 DEF PlayFree, QueueTypes, vars, uiVars, lists, ghosts, counters, DecodeTaskIs, DecodeEnd
<1>25. CASE UNCHANGED vars
  BY <1>25, <1>1, <1>2, <1>3 DEF QueueTypes, vars, uiVars, lists, ghosts, counters, DecodeTaskIs, DecodeEnd
<1> QED
  BY <1>4, <1>5, <1>6, <1>7, <1>8, <1>9, <1>10, <1>11, <1>12, <1>13, <1>14, <1>15, <1>16, <1>17, <1>18, <1>19, <1>20, <1>21, <1>22, <1>23, <1>24, <1>25 DEF Next, UiTask, DecodingQueue, DecodePut, PlayerQueue

LEMMA ViewTypesStep ==
  ASSUME Types, [Next]_vars
  PROVE  ViewTypes'
<1> DEFINE G == ViewTypes'
<1>1. ViewTypes /\ NoNote = 0 /\ NoNote \notin Note /\ Note = 1..MaxNotes
  BY DEF Types, NoNote, Note
<1>2. heard # <<>> => heard[Len(heard)].from \in Nat
  <2>1. heard \in Seq(Piece)
    BY DEF Types, AudioTypes
  <2>2. heard # <<>> => heard[Len(heard)] \in Piece
    BY <2>1
  <2> QED BY <2>2 DEF Piece
<1>3. ASSUME NEW n \in Note, PlayNote(n) PROVE G
  <2>1. progress' \in [Note -> Nat]
    BY <1>3, <1>1 DEF PlayNote, ViewTypes
  <2>2. opening' \in 0..MaxNotes /\ playing' = NoNote /\ track' = "none"
        /\ marker' = FALSE /\ isPaused' = FALSE
    BY <1>3, <1>1, Constants DEF PlayNote, CleanUp
  <2> QED BY <2>1, <2>2, <1>1, Constants DEF ViewTypes
<1>4. ASSUME NEW pos \in 0..(Total[playing] - 1), playing # NoNote, Seek(pos) PROVE G
  BY <1>4, <1>1, <1>2, Constants DEF Seek, ViewTypes, CleanUp, vars, uiVars, lists, ghosts, counters
<1>5. CASE Pause
  BY <1>5, <1>1, <1>2, Constants DEF Pause, ViewTypes, CleanUp, vars, uiVars, lists, ghosts, counters
<1>6. CASE Resume
  BY <1>6, <1>1, <1>2, Constants DEF Resume, ViewTypes, CleanUp, vars, uiVars, lists, ghosts, counters
<1>7. CASE Stop
  BY <1>7, <1>1, <1>2, Constants DEF Stop, ViewTypes, CleanUp, vars, uiVars, lists, ghosts, counters
<1>8. CASE ProgressTimer
  BY <1>8, <1>1, <1>2, Constants DEF ProgressTimer, ViewTypes, CleanUp, vars, uiVars, lists, ghosts, counters
<1>9. CASE PlayOpened
  BY <1>9, <1>1, <1>2, Constants DEF PlayOpened, ViewTypes, CleanUp, vars, uiVars, lists, ghosts, counters
<1>10. CASE SeekDone
  BY <1>10, <1>1, <1>2, Constants DEF SeekDone, ViewTypes, CleanUp, vars, uiVars, lists, ghosts, counters
<1>11. CASE SetMarker
  BY <1>11, <1>1, <1>2, Constants DEF SetMarker, ViewTypes, CleanUp, vars, uiVars, lists, ghosts, counters
<1>12. CASE MarkerReached
  BY <1>12, <1>1, <1>2, Constants DEF MarkerReached, ViewTypes, CleanUp, vars, uiVars, lists, ghosts, counters
<1>13. CASE Open
  BY <1>13, <1>1, <1>2, Constants DEF Open, ViewTypes, CleanUp, vars, uiVars, lists, ghosts, counters
<1>14. CASE Begin
  BY <1>14, <1>1, <1>2, Constants DEF Begin, ViewTypes, CleanUp, vars, uiVars, lists, ghosts, counters
<1>15. CASE SeekFile
  BY <1>15, <1>1, <1>2, Constants DEF SeekFile, ViewTypes, CleanUp, vars, uiVars, lists, ghosts, counters
<1>16. CASE DecodeNothing
  BY <1>16, <1>1, <1>2, Constants DEF DecodeNothing, ViewTypes, CleanUp, vars, uiVars, lists, ghosts, counters
<1>17. CASE DecodeBegin
  BY <1>17, <1>1, <1>2, Constants DEF DecodeBegin, ViewTypes, CleanUp, vars, uiVars, lists, ghosts, counters
<1>18. CASE DecodeTake
  BY <1>18, <1>1, <1>2, Constants DEF DecodeTake, ViewTypes, CleanUp, vars, uiVars, lists, ghosts, counters
<1>19. ASSUME NEW to \in Readable, Put(to) PROVE G
  BY <1>19, <1>1, <1>2, Constants DEF Put, ViewTypes, CleanUp, vars, uiVars, lists, ghosts, counters
<1>20. CASE PlayCheck
  BY <1>20, <1>1, <1>2, Constants DEF PlayCheck, ViewTypes, CleanUp, vars, uiVars, lists, ghosts, counters
<1>21. CASE PlayTake
  BY <1>21, <1>1, <1>2, Constants DEF PlayTake, ViewTypes, CleanUp, vars, uiVars, lists, ghosts, counters
<1>22. CASE PlayWrite
  BY <1>22, <1>1, <1>2, Constants DEF PlayWrite, ViewTypes, CleanUp, vars, uiVars, lists, ghosts, counters
<1>23. CASE PlayFree
  BY <1>23, <1>1, <1>2, Constants DEF PlayFree, ViewTypes, CleanUp, vars, uiVars, lists, ghosts, counters
<1>24. CASE UNCHANGED vars
  BY <1>24, <1>1, <1>2, Constants DEF ViewTypes, CleanUp, vars, uiVars, lists, ghosts, counters
<1> QED
  BY <1>3, <1>4, <1>5, <1>6, <1>7, <1>8, <1>9, <1>10, <1>11, <1>12, <1>13, <1>14, <1>15, <1>16, <1>17, <1>18, <1>19, <1>20, <1>21, <1>22, <1>23, <1>24 DEF Next, UiTask, DecodingQueue, DecodePut, PlayerQueue

LEMMA GhostTypesStep ==
  ASSUME Types, [Next]_vars
  PROVE  GhostTypes'
<1> DEFINE G == GhostTypes'
<1>1. GhostTypes
  BY DEF Types
<1>2. ASSUME NEW n \in Note, PlayNote(n) PROVE G
  BY <1>2, <1>1 DEF PlayNote, GhostTypes, Quiet, vars, uiVars, lists, ghosts, counters
<1>3. ASSUME NEW pos \in 0..(Total[playing] - 1), playing # NoNote, Seek(pos) PROVE G
  BY <1>3, <1>1 DEF Seek, GhostTypes, Quiet, vars, uiVars, lists, ghosts, counters
<1>4. CASE Pause
  BY <1>4, <1>1 DEF Pause, GhostTypes, Quiet, vars, uiVars, lists, ghosts, counters
<1>5. CASE Resume
  BY <1>5, <1>1 DEF Resume, GhostTypes, Quiet, vars, uiVars, lists, ghosts, counters
<1>6. CASE Stop
  BY <1>6, <1>1 DEF Stop, GhostTypes, Quiet, vars, uiVars, lists, ghosts, counters
<1>7. CASE ProgressTimer
  BY <1>7, <1>1 DEF ProgressTimer, GhostTypes, Quiet, vars, uiVars, lists, ghosts, counters
<1>8. CASE PlayOpened
  BY <1>8, <1>1 DEF PlayOpened, GhostTypes, Quiet, vars, uiVars, lists, ghosts, counters
<1>9. CASE SeekDone
  BY <1>9, <1>1 DEF SeekDone, GhostTypes, Quiet, vars, uiVars, lists, ghosts, counters
<1>10. CASE SetMarker
  BY <1>10, <1>1 DEF SetMarker, GhostTypes, Quiet, vars, uiVars, lists, ghosts, counters
<1>11. CASE MarkerReached
  BY <1>11, <1>1 DEF MarkerReached, GhostTypes, Quiet, vars, uiVars, lists, ghosts, counters
<1>12. CASE Open
  BY <1>12, <1>1 DEF Open, GhostTypes, Quiet, vars, uiVars, lists, ghosts, counters
<1>13. CASE Begin
  BY <1>13, <1>1 DEF Begin, GhostTypes, Quiet, vars, uiVars, lists, ghosts, counters
<1>14. CASE SeekFile
  BY <1>14, <1>1 DEF SeekFile, GhostTypes, Quiet, vars, uiVars, lists, ghosts, counters
<1>15. CASE DecodeNothing
  BY <1>15, <1>1 DEF DecodeNothing, GhostTypes, Quiet, vars, uiVars, lists, ghosts, counters
<1>16. CASE DecodeBegin
  BY <1>16, <1>1 DEF DecodeBegin, GhostTypes, Quiet, vars, uiVars, lists, ghosts, counters
<1>17. CASE DecodeTake
  BY <1>17, <1>1 DEF DecodeTake, GhostTypes, Quiet, vars, uiVars, lists, ghosts, counters
<1>18. ASSUME NEW to \in Readable, Put(to) PROVE G
  BY <1>18, <1>1 DEF Put, GhostTypes, Quiet, vars, uiVars, lists, ghosts, counters
<1>19. CASE PlayCheck
  BY <1>19, <1>1 DEF PlayCheck, GhostTypes, Quiet, vars, uiVars, lists, ghosts, counters
<1>20. CASE PlayTake
  BY <1>20, <1>1 DEF PlayTake, GhostTypes, Quiet, vars, uiVars, lists, ghosts, counters
<1>21. CASE PlayWrite
  BY <1>21, <1>1 DEF PlayWrite, GhostTypes, Quiet, vars, uiVars, lists, ghosts, counters
<1>22. CASE PlayFree
  BY <1>22, <1>1 DEF PlayFree, GhostTypes, Quiet, vars, uiVars, lists, ghosts, counters
<1>23. CASE UNCHANGED vars
  BY <1>23, <1>1 DEF GhostTypes, Quiet, vars, uiVars, lists, ghosts, counters
<1> QED
  BY <1>2, <1>3, <1>4, <1>5, <1>6, <1>7, <1>8, <1>9, <1>10, <1>11, <1>12, <1>13, <1>14, <1>15, <1>16, <1>17, <1>18, <1>19, <1>20, <1>21, <1>22, <1>23 DEF Next, UiTask, DecodingQueue, DecodePut, PlayerQueue

LEMMA BufferTypesStep ==
  ASSUME Types, [Next]_vars
  PROVE  BufferTypes'
<1> DEFINE G == BufferTypes'
<1>1. BufferTypes
  BY DEF Types
<1>2. /\ free # <<>> => free[1] \in Buffer /\ Tail(free) \in Seq(Buffer)
      /\ used # <<>> => used[1] \in Buffer /\ Tail(used) \in Seq(Buffer)
      /\ \A b \in Buffer : Append(free, b) \in Seq(Buffer) /\ Append(used, b) \in Seq(Buffer)
      /\ free \o used \in Seq(Buffer) /\ <<>> \in Seq(Buffer)
  BY <1>1, Posted, Taken DEF BufferTypes
<1>3. Buffer \subseteq 0..Buffers /\ NoBuffer \in 0..Buffers
  BY Constants DEF Buffer, NoBuffer
<1>4. ASSUME NEW n \in Note, PlayNote(n) PROVE G
  BY <1>4, <1>1, <1>2, <1>3 DEF PlayNote, BufferTypes, Idle, FreeAll, DecodeEnd, vars, uiVars, lists, ghosts, counters
<1>5. ASSUME NEW pos \in 0..(Total[playing] - 1), playing # NoNote, Seek(pos) PROVE G
  BY <1>5, <1>1, <1>2, <1>3 DEF Seek, BufferTypes, Idle, FreeAll, DecodeEnd, vars, uiVars, lists, ghosts, counters
<1>6. CASE Pause
  BY <1>6, <1>1, <1>2, <1>3 DEF Pause, BufferTypes, Idle, FreeAll, DecodeEnd, vars, uiVars, lists, ghosts, counters
<1>7. CASE Resume
  BY <1>7, <1>1, <1>2, <1>3 DEF Resume, BufferTypes, Idle, FreeAll, DecodeEnd, vars, uiVars, lists, ghosts, counters
<1>8. CASE Stop
  BY <1>8, <1>1, <1>2, <1>3 DEF Stop, BufferTypes, Idle, FreeAll, DecodeEnd, vars, uiVars, lists, ghosts, counters
<1>9. CASE ProgressTimer
  BY <1>9, <1>1, <1>2, <1>3 DEF ProgressTimer, BufferTypes, Idle, FreeAll, DecodeEnd, vars, uiVars, lists, ghosts, counters
<1>10. CASE PlayOpened
  BY <1>10, <1>1, <1>2, <1>3 DEF PlayOpened, BufferTypes, Idle, FreeAll, DecodeEnd, vars, uiVars, lists, ghosts, counters
<1>11. CASE SeekDone
  BY <1>11, <1>1, <1>2, <1>3 DEF SeekDone, BufferTypes, Idle, FreeAll, DecodeEnd, vars, uiVars, lists, ghosts, counters
<1>12. CASE SetMarker
  BY <1>12, <1>1, <1>2, <1>3 DEF SetMarker, BufferTypes, Idle, FreeAll, DecodeEnd, vars, uiVars, lists, ghosts, counters
<1>13. CASE MarkerReached
  BY <1>13, <1>1, <1>2, <1>3 DEF MarkerReached, BufferTypes, Idle, FreeAll, DecodeEnd, vars, uiVars, lists, ghosts, counters
<1>14. CASE Open
  BY <1>14, <1>1, <1>2, <1>3 DEF Open, BufferTypes, Idle, FreeAll, DecodeEnd, vars, uiVars, lists, ghosts, counters
<1>15. CASE Begin
  BY <1>15, <1>1, <1>2, <1>3 DEF Begin, BufferTypes, Idle, FreeAll, DecodeEnd, vars, uiVars, lists, ghosts, counters
<1>16. CASE SeekFile
  BY <1>16, <1>1, <1>2, <1>3 DEF SeekFile, BufferTypes, Idle, FreeAll, DecodeEnd, vars, uiVars, lists, ghosts, counters
<1>17. CASE DecodeNothing
  BY <1>17, <1>1, <1>2, <1>3 DEF DecodeNothing, BufferTypes, Idle, FreeAll, DecodeEnd, vars, uiVars, lists, ghosts, counters
<1>18. CASE DecodeBegin
  BY <1>18, <1>1, <1>2, <1>3 DEF DecodeBegin, BufferTypes, Idle, FreeAll, DecodeEnd, vars, uiVars, lists, ghosts, counters
<1>19. CASE DecodeTake
  <2>1. CASE free = <<>>
    <3>1. decoding' = Idle /\ UNCHANGED <<free, used, writing>>
      BY <2>1, <1>19 DEF DecodeTake, DecodeEnd
    <3> QED BY <3>1, <1>1, <1>3 DEF BufferTypes, Idle
  <2>2. CASE free # <<>>
    <3>1. /\ decoding' = [at |-> "put", b |-> free[1], was |-> (decoding.was \/ used # <<>>)]
          /\ free' = Tail(free) /\ UNCHANGED <<used, writing>>
      BY <2>2, <1>19 DEF DecodeTake
    <3>2. decoding.was \in BOOLEAN /\ free[1] \in Buffer /\ free[1] \in 0..Buffers
      BY <2>2, <1>1, <1>2, <1>3 DEF BufferTypes
    <3> QED BY <2>2, <3>1, <3>2, <1>1, <1>2 DEF BufferTypes
  <2> QED BY <2>1, <2>2
<1>20. ASSUME NEW to \in Readable, Put(to) PROVE G
  <2>1. decoding.b \in Buffer /\ UNCHANGED writing
    BY <1>20, <1>1 DEF Put, BufferTypes
  <2>2. CASE Read(to).to # Read(to).from
    <3>1. /\ decoding' = [at |-> "take", b |-> NoBuffer, was |-> TRUE]
          /\ used' = Append(used, decoding.b) /\ UNCHANGED free
      BY <2>2, <1>20 DEF Put
    <3> QED BY <2>1, <3>1, <1>1, <1>2, <1>3 DEF BufferTypes
  <2>3. CASE Read(to).to = Read(to).from
    <3>1. decoding' = Idle /\ free' = Append(free, decoding.b) /\ UNCHANGED used
      BY <2>3, <1>20 DEF Put, DecodeEnd
    <3> QED BY <2>1, <3>1, <1>1, <1>2, <1>3 DEF BufferTypes, Idle
  <2> QED BY <2>2, <2>3
<1>21. CASE PlayCheck
  BY <1>21, <1>1, <1>2, <1>3 DEF PlayCheck, BufferTypes, Idle, FreeAll, DecodeEnd, vars, uiVars, lists, ghosts, counters
<1>22. CASE PlayTake
  <2>1. CASE used = <<>>
    <3>1. writing' = Idle /\ UNCHANGED <<free, used, decoding>>
      BY <2>1, <1>22 DEF PlayTake
    <3> QED BY <3>1, <1>1, <1>3 DEF BufferTypes, Idle
  <2>2. CASE used # <<>>
    <3>1. /\ writing' = [at |-> "write", b |-> used[1], was |-> FALSE]
          /\ used' = Tail(used) /\ UNCHANGED <<free, decoding>>
      BY <2>2, <1>22 DEF PlayTake, Idle
    <3> QED BY <2>2, <3>1, <1>1, <1>2, <1>3 DEF BufferTypes
  <2> QED BY <2>1, <2>2
<1>23. CASE PlayWrite
  BY <1>23, <1>1, <1>2, <1>3 DEF PlayWrite, BufferTypes, Idle, FreeAll, DecodeEnd, vars, uiVars, lists, ghosts, counters
<1>24. CASE PlayFree
  BY <1>24, <1>1, <1>2, <1>3 DEF PlayFree, BufferTypes, Idle, FreeAll, DecodeEnd, vars, uiVars, lists, ghosts, counters
<1>25. CASE UNCHANGED vars
  BY <1>25, <1>1, <1>2, <1>3 DEF BufferTypes, Idle, FreeAll, DecodeEnd, vars, uiVars, lists, ghosts, counters
<1> QED
  BY <1>4, <1>5, <1>6, <1>7, <1>8, <1>9, <1>10, <1>11, <1>12, <1>13, <1>14, <1>15, <1>16, <1>17, <1>18, <1>19, <1>20, <1>21, <1>22, <1>23, <1>24, <1>25 DEF Next, UiTask, DecodingQueue, DecodePut, PlayerQueue


FileTypes(f) ==
  f \in File /\ (f.note # NoNote => f.note \in Note /\ f.pos <= Total[f.note])

\* A seek leaves the file where the note is.
LEMMA SeekTypes ==
  ASSUME FileTypes(native), NEW pos \in Nat
  PROVE  /\ FileTypes(Sought(pos)) /\ Sought(pos).note = native.note
         /\ native.note # NoNote /\ pos < Total[native.note] =>
              /\ Sought(pos).gen = native.gen + 1
              /\ Sought(pos).pos = pos /\ Sought(pos).from = pos
         /\ native.note # NoNote /\ ~(pos < Total[native.note]) => Sought(pos) = native
         /\ native.pos = native.from => Sought(pos).pos = Sought(pos).from
         /\ Sought(pos).finished = native.finished /\ Sought(pos).failed = native.failed
<1>1. native.note # NoNote => Total[native.note] \in Nat
  BY Constants DEF FileTypes
<1>2. CASE native.note = NoNote \/ pos >= Total[native.note]
  <2>1. Sought(pos) = native
    BY <1>2 DEF Sought
  <2> QED BY <1>1, <1>2, <2>1
<1>3. CASE ~(native.note = NoNote \/ pos >= Total[native.note])
  <2>1. Sought(pos) = [native EXCEPT !.pos = pos, !.gen = native.gen + 1, !.from = pos]
    BY <1>3 DEF Sought
  <2>2. native \in File /\ native.gen + 1 \in Nat
    BY DEF FileTypes, File
  <2>3. /\ Sought(pos) \in File /\ Sought(pos).note = native.note
        /\ Sought(pos).gen = native.gen + 1
        /\ Sought(pos).pos = pos /\ Sought(pos).from = pos
        /\ Sought(pos).finished = native.finished /\ Sought(pos).failed = native.failed
    BY <2>1, <2>2 DEF File
  <2> QED BY <1>1, <1>3, <2>3 DEF FileTypes
<1> QED BY <1>2, <1>3

\* What is read is a piece of the note from where the file is to where it
\* goes, no longer than a buffer.
LEMMA ReadTypes ==
  ASSUME FileTypes(native), NEW to \in Readable
  PROVE  /\ Read(to) \in Piece
         /\ Read(to).to - Read(to).from \in 0..Capacity
         /\ native.note # NoNote =>
              /\ Read(to).note = native.note /\ Read(to).gen = native.gen
              /\ Read(to).from = native.pos /\ Read(to).to = to
              /\ to \in Nat /\ to <= Total[native.note]
<1>1. CASE native.note = NoNote
  BY <1>1, Constants DEF FileTypes, File, Readable, Read, Piece, NoNote
<1>2. CASE native.note # NoNote
  <2> DEFINE T == Total[native.note]
  <2>1. T \in Nat /\ native.pos \in Nat /\ native.pos <= T /\ native.gen \in Nat
        /\ native.note \in 0..MaxNotes /\ native.finished \in BOOLEAN
    BY <1>2, Constants DEF FileTypes, File
  <2>2. \/ to = native.pos
        \/ to \in native.pos..Least(native.pos + Capacity, T)
    BY <1>2 DEF Readable
  <2>3. to \in Nat /\ to - native.pos \in 0..Capacity /\ to <= T
    BY <2>1, <2>2, Constants DEF Least
  <2>4. /\ Read(to).note = native.note /\ Read(to).gen = native.gen
        /\ Read(to).from = native.pos /\ Read(to).to = to
    BY <1>2 DEF Read
  <2>5. \E fin \in BOOLEAN : Read(to) = [note |-> native.note, gen |-> native.gen,
                                       from |-> native.pos, to |-> to, finished |-> fin]
    BY <1>2 DEF Read
  <2>6. Read(to) \in Piece
    BY <2>1, <2>3, <2>5 DEF Piece
  <2> QED BY <2>3, <2>4, <2>6
<1> QED BY <1>1, <1>2

\* How a read leaves the file: where the piece ends.
LEMMA FileRead ==
  ASSUME FileTypes(native), native.note # NoNote, NEW to \in Readable, Put(to)
  PROVE  /\ FileTypes(native')
         /\ native'.note = native.note /\ native'.gen = native.gen
         /\ native'.from = native.from /\ native'.pos = to
         /\ native'.finished = Read(to).finished /\ native'.failed = Failure(to)
<1>1. /\ native' = [native EXCEPT !.pos = to, !.finished = Read(to).finished,
                                 !.failed = Failure(to)]
      /\ native \in File
  BY DEF Put, FileTypes
<1>2. Failure(to) \in {"no", "inside", "between"}
  BY <1>1 DEF Failure, File
<1>3. to \in Nat /\ to <= Total[native.note] /\ Read(to).finished \in BOOLEAN
  BY ReadTypes DEF Piece
<1>4. native' \in File
  BY <1>1, <1>2, <1>3 DEF File
<1> QED BY <1>1, <1>3, <1>4 DEF FileTypes, File

LEMMA AudioTypesStep ==
  ASSUME Types, [Next]_vars
  PROVE  AudioTypes'
<1> DEFINE G == AudioTypes'
           Fits(bs) == \A b \in Buffer : bs[b].to - bs[b].from \in 0..Capacity
<1>1. FileTypes(native)
  BY DEF Types, AudioTypes, FileTypes, File, Note, NoNote
<1>2. buf \in [Buffer -> Piece] /\ Fits(buf) /\ heard \in Seq(Piece) /\ decodingFinished \in BOOLEAN
  BY DEF Types, AudioTypes
<1>3. ASSUME FileTypes(native)', buf' \in [Buffer -> Piece], Fits(buf'), heard' \in Seq(Piece),
             decodingFinished' \in BOOLEAN
      PROVE  G
  BY <1>3 DEF AudioTypes, FileTypes, File
<1>4. ASSUME NEW n \in Note, PlayNote(n) PROVE G
  BY <1>4, <1>1, <1>2, <1>3 DEF PlayNote, CleanUp, FileTypes, vars, uiVars, lists, ghosts, counters
<1>5. ASSUME NEW pos \in 0..(Total[playing] - 1), playing # NoNote, Seek(pos) PROVE G
  BY <1>5, <1>1, <1>2, <1>3 DEF Seek, CleanUp, FileTypes, vars, uiVars, lists, ghosts, counters
<1>6. CASE Pause
  BY <1>6, <1>1, <1>2, <1>3 DEF Pause, CleanUp, FileTypes, vars, uiVars, lists, ghosts, counters
<1>7. CASE Resume
  BY <1>7, <1>1, <1>2, <1>3 DEF Resume, CleanUp, FileTypes, vars, uiVars, lists, ghosts, counters
<1>8. CASE Stop
  BY <1>8, <1>1, <1>2, <1>3 DEF Stop, CleanUp, FileTypes, vars, uiVars, lists, ghosts, counters
<1>9. CASE ProgressTimer
  BY <1>9, <1>1, <1>2, <1>3 DEF ProgressTimer, CleanUp, FileTypes, vars, uiVars, lists, ghosts, counters
<1>10. CASE PlayOpened
  BY <1>10, <1>1, <1>2, <1>3 DEF PlayOpened, CleanUp, FileTypes, vars, uiVars, lists, ghosts, counters
<1>11. CASE SeekDone
  BY <1>11, <1>1, <1>2, <1>3 DEF SeekDone, CleanUp, FileTypes, vars, uiVars, lists, ghosts, counters
<1>12. CASE SetMarker
  BY <1>12, <1>1, <1>2, <1>3 DEF SetMarker, CleanUp, FileTypes, vars, uiVars, lists, ghosts, counters
<1>13. CASE MarkerReached
  BY <1>13, <1>1, <1>2, <1>3 DEF MarkerReached, CleanUp, FileTypes, vars, uiVars, lists, ghosts, counters
<1>14. CASE Open
  <2>1. FileTypes(Opened(opening))
    BY <1>1, Constants DEF Types, ViewTypes, Opened, FileTypes, File, Note, NoNote
  <2> QED BY <1>14, <2>1, <1>2, <1>3 DEF Open, lists, ghosts, FileTypes
<1>15. CASE Begin
  <2>1. playing # NoNote => progress[playing] \in Nat
    BY DEF Types, ViewTypes, Note, NoNote
  <2>2. FileTypes(native')
    BY <1>15, <2>1, <1>1, SeekTypes DEF Begin
  <2> QED BY <1>15, <2>2, <1>2, <1>3 DEF Begin, ghosts, FileTypes
<1>16. CASE SeekFile
  <2>1. decodeQ[1].pos \in Nat
    <3>1. decodeQ \in Seq(DecodeTask) /\ decodeQ # <<>> /\ decodeQ[1].is = "seek"
      BY <1>16 DEF SeekFile, DecodeTaskIs, Types, QueueTypes
    <3>2. decodeQ[1] \in DecodeTask
      BY <3>1, Taken
    <3> QED BY <3>1, <3>2 DEF DecodeTask
  <2>2. FileTypes(native')
    BY <1>16, <2>1, <1>1, SeekTypes DEF SeekFile
  <2> QED BY <1>16, <2>2, <1>2, <1>3 DEF SeekFile, FileTypes
<1>17. CASE DecodeNothing
  BY <1>17, <1>1, <1>2, <1>3 DEF DecodeNothing, CleanUp, FileTypes, vars, uiVars, lists, ghosts, counters
<1>18. CASE DecodeBegin
  BY <1>18, <1>1, <1>2, <1>3 DEF DecodeBegin, CleanUp, FileTypes, vars, uiVars, lists, ghosts, counters
<1>19. CASE DecodeTake
  BY <1>19, <1>1, <1>2, <1>3 DEF DecodeTake, CleanUp, FileTypes, vars, uiVars, lists, ghosts, counters
<1>20. ASSUME NEW to \in Readable, Put(to) PROVE G
  <2>1. Read(to) \in Piece /\ Read(to).to - Read(to).from \in 0..Capacity
    BY <1>1, ReadTypes
  <2>2. buf' \in [Buffer -> Piece] /\ Fits(buf')
    BY <1>20, <1>2, <2>1 DEF Put
  <2>3. FileTypes(native')
    <3>1. CASE native.note = NoNote
      BY <1>20, <3>1, <1>1 DEF Put
    <3>2. CASE native.note # NoNote
      BY <1>20, <3>2, <1>1, FileRead
    <3> QED BY <3>1, <3>2
  <2>4. decodingFinished' \in BOOLEAN /\ heard' = heard
    BY <1>20, <1>2, <2>1 DEF Put, Piece, ghosts
  <2> QED BY <2>2, <2>3, <2>4, <1>2, <1>3 DEF FileTypes
<1>21. CASE PlayCheck
  BY <1>21, <1>1, <1>2, <1>3 DEF PlayCheck, CleanUp, FileTypes, vars, uiVars, lists, ghosts, counters
<1>22. CASE PlayTake
  BY <1>22, <1>1, <1>2, <1>3 DEF PlayTake, CleanUp, FileTypes, vars, uiVars, lists, ghosts, counters
<1>23. CASE PlayWrite
  <2>1. buf[writing.b] \in Piece
    BY <1>23, <1>2 DEF PlayWrite, Types, BufferTypes
  <2>2. heard' \in Seq(Piece)
    BY <1>23, <2>1, <1>2, Posted DEF PlayWrite
  <2> QED BY <1>23, <2>2, <1>1, <1>2, <1>3 DEF PlayWrite, lists, FileTypes
<1>24. CASE PlayFree
  BY <1>24, <1>1, <1>2, <1>3 DEF PlayFree, CleanUp, FileTypes, vars, uiVars, lists, ghosts, counters
<1>25. CASE UNCHANGED vars
  BY <1>25, <1>1, <1>2, <1>3 DEF CleanUp, FileTypes, vars, uiVars, lists, ghosts, counters
<1> QED
  BY <1>4, <1>5, <1>6, <1>7, <1>8, <1>9, <1>10, <1>11, <1>12, <1>13, <1>14, <1>15, <1>16, <1>17, <1>18, <1>19, <1>20, <1>21, <1>22, <1>23, <1>24, <1>25 DEF Next, UiTask, DecodingQueue, DecodePut, PlayerQueue

LEMMA TypesInit == Init => Types
<1> SUFFICES ASSUME Init PROVE Types
  OBVIOUS
<1>1. QueueTypes
  BY DEF Init, QueueTypes
<1>2. ViewTypes
  <2>1. progress \in [Note -> Nat]
    BY DEF Init
  <2>2. /\ opening = NoNote /\ playing = NoNote /\ NoNote \in 0..MaxNotes
        /\ track = "none" /\ marker = FALSE /\ isPaused = FALSE
    BY Constants DEF Init, NoNote
  <2> QED BY <2>1, <2>2 DEF ViewTypes
<1>3. BufferTypes
  <2>1. [i \in Buffer |-> i] \in Seq(Buffer)
    BY Constants DEF Buffer
  <2> QED BY <2>1, Constants DEF Init, BufferTypes, Idle, NoBuffer, Buffer
<1>4. AudioTypes
  <2>1. [note |-> NoNote, gen |-> 0, from |-> 0, to |-> 0, finished |-> FALSE] \in Piece
    BY Constants DEF Piece, NoNote
  <2>2. buf \in [Buffer -> Piece] /\ \A b \in Buffer : buf[b].to - buf[b].from \in 0..Capacity
    BY <2>1, Constants DEF Init
  <2>3. /\ native \in File
        /\ native.note = NoNote /\ heard = <<>> /\ decodingFinished = FALSE
    BY Constants DEF Init, File, NoNote
  <2>4. heard \in Seq(Piece) /\ decodingFinished \in BOOLEAN
    <3>1. heard = <<>> /\ decodingFinished = FALSE
      BY DEF Init
    <3>2. <<>> \in Seq(Piece) /\ FALSE \in BOOLEAN
      OBVIOUS
    <3> QED BY <3>1, <3>2, Zenon
  <2> QED BY <2>2, <2>3, <2>4 DEF AudioTypes
<1>5. GhostTypes
  BY DEF Init, GhostTypes
<1> QED BY <1>1, <1>2, <1>3, <1>4, <1>5 DEF Types

LEMMA TypesStep == Types /\ [Next]_vars => Types'
BY QueueTypesStep, ViewTypesStep, BufferTypesStep, AudioTypesStep, GhostTypesStep DEF Types

LEMMA TypesHold == Spec => []Types
BY TypesInit, TypesStep, PTL DEF Spec

LEMMA TypesImplyTypeOK == Types => TypeOK
BY DEF Types, QueueTypes, ViewTypes, BufferTypes, AudioTypes, TypeOK

\* The types are as declared: in particular a buffer never holds more than it
\* can, whatever file its reading was of and wherever the file was sought to,
\* and the track exists when a note plays.
THEOREM TypeCorrect == Spec => []TypeOK
BY TypesHold, TypesImplyTypeOK, PTL

-----------------------------------------------------------------------------
(* Each buffer stays in one place.                                         *)

LEMMA ListedPosted ==
  ASSUME NEW s \in Seq(Buffer), NEW b \in Buffer
  PROVE  /\ Listed(Append(s, b)) = Listed(s) \cup {b}
         /\ NoneTwice(s) /\ b \notin Listed(s) => NoneTwice(Append(s, b))
<1>1. /\ Append(s, b) \in Seq(Buffer) /\ Len(s) \in Nat
      /\ Len(Append(s, b)) = Len(s) + 1
      /\ \A i \in 1..Len(s) : Append(s, b)[i] = s[i]
      /\ Append(s, b)[Len(s) + 1] = b
  BY Posted
<1>2. \A i \in 1..(Len(s) + 1) : i \in 1..Len(s) \/ i = Len(s) + 1
  BY <1>1
<1>3. Listed(Append(s, b)) = Listed(s) \cup {b}
  BY <1>1, <1>2 DEF Listed
<1>4. ASSUME NoneTwice(s), b \notin Listed(s)
      PROVE  NoneTwice(Append(s, b))
  BY <1>1, <1>2, <1>4 DEF NoneTwice, Listed
<1> QED BY <1>3, <1>4

LEMMA ListedTaken ==
  ASSUME NEW s \in Seq(Buffer), s # <<>>
  PROVE  /\ Listed(s) = Listed(Tail(s)) \cup {s[1]}
         /\ NoneTwice(s) => NoneTwice(Tail(s)) /\ s[1] \notin Listed(Tail(s))
<1>1. /\ Len(s) \in Nat /\ Len(s) > 0 /\ Len(Tail(s)) = Len(s) - 1
      /\ \A i \in 1..(Len(s) - 1) : Tail(s)[i] = s[i + 1]
  BY Taken
<1>2. \A i \in 1..Len(s) : i = 1 \/ (i - 1 \in 1..(Len(s) - 1) /\ s[i] = Tail(s)[i - 1])
  BY <1>1
<1>3. Listed(s) = Listed(Tail(s)) \cup {s[1]}
  <2>1. Listed(s) \subseteq Listed(Tail(s)) \cup {s[1]}
    BY <1>1, <1>2 DEF Listed
  <2>2. Listed(Tail(s)) \cup {s[1]} \subseteq Listed(s)
    BY <1>1 DEF Listed
  <2> QED BY <2>1, <2>2
<1>4. ASSUME NoneTwice(s)
      PROVE  NoneTwice(Tail(s)) /\ s[1] \notin Listed(Tail(s))
  BY <1>1, <1>4 DEF NoneTwice, Listed
<1> QED BY <1>3, <1>4

LEMMA ListedJoined ==
  ASSUME NEW s \in Seq(Buffer), NEW t \in Seq(Buffer)
  PROVE  /\ Listed(s \o t) = Listed(s) \cup Listed(t)
         /\ NoneTwice(s) /\ NoneTwice(t) /\ Listed(s) \cap Listed(t) = {} => NoneTwice(s \o t)
<1>1. /\ Len(s) \in Nat /\ Len(t) \in Nat /\ Len(s \o t) = Len(s) + Len(t)
      /\ \A i \in 1..Len(s) : (s \o t)[i] = s[i]
      /\ \A i \in 1..Len(t) : (s \o t)[Len(s) + i] = t[i]
  OBVIOUS
<1>2. \A i \in 1..(Len(s) + Len(t)) :
        \/ i \in 1..Len(s) /\ (s \o t)[i] = s[i]
        \/ i - Len(s) \in 1..Len(t) /\ (s \o t)[i] = t[i - Len(s)]
  BY <1>1
<1>3. Listed(s \o t) = Listed(s) \cup Listed(t)
  <2>1. Listed(s \o t) \subseteq Listed(s) \cup Listed(t)
    BY <1>1, <1>2 DEF Listed
  <2>2. Listed(s) \subseteq Listed(s \o t)
    BY <1>1 DEF Listed
  <2>3. Listed(t) \subseteq Listed(s \o t)
    <3>1. \A i \in 1..Len(t) : Len(s) + i \in 1..(Len(s) + Len(t))
      BY <1>1
    <3> QED BY <1>1, <3>1 DEF Listed
  <2> QED BY <2>1, <2>2, <2>3
<1>4. ASSUME NoneTwice(s), NoneTwice(t), Listed(s) \cap Listed(t) = {}
      PROVE  NoneTwice(s \o t)
  <2>1. \A i \in 1..Len(s), j \in 1..Len(t) : s[i] # t[j]
    BY <1>4 DEF Listed
  <2> SUFFICES ASSUME NEW i \in 1..(Len(s) + Len(t)), NEW j \in 1..(Len(s) + Len(t)),
                      (s \o t)[i] = (s \o t)[j]
               PROVE  i = j
    BY <1>1 DEF NoneTwice
  <2> QED BY <1>1, <1>2, <1>4, <2>1 DEF NoneTwice
<1> QED BY <1>3, <1>4

DecodeHolds == IF decoding.at = "put" THEN {decoding.b} ELSE {}
WriteHolds == IF writing.at \in {"write", "free"} THEN {writing.b} ELSE {}

\* The four places, as sets.
Parted(f, u, d, w) ==
  /\ f \cap u = {} /\ f \cap d = {} /\ f \cap w = {}
  /\ u \cap d = {} /\ u \cap w = {} /\ d \cap w = {}
  /\ f \cup u \cup d \cup w = Buffer

LEMMA PlacesAreParts ==
  OnePlace <=> /\ NoneTwice(free) /\ NoneTwice(used)
               /\ Parted(Listed(free), Listed(used), DecodeHolds, WriteHolds)
<1>1. Held = DecodeHolds \cup WriteHolds
  BY DEF Held, DecodeHolds, WriteHolds
<1>2. DecodeHolds \cap WriteHolds = {} <=>
        (decoding.at = "put" /\ writing.at \in {"write", "free"} => decoding.b # writing.b)
  BY DEF DecodeHolds, WriteHolds
<1> QED BY <1>1, <1>2 DEF OnePlace, Parted

LEMMA OnePlaceStep ==
  ASSUME Types, OnePlace, [Next]_vars
  PROVE  OnePlace'
<1> DEFINE G == OnePlace'
           P == Parted(Listed(free), Listed(used), DecodeHolds, WriteHolds)
<1>1. NoneTwice(free) /\ NoneTwice(used) /\ P
  BY PlacesAreParts
<1>2. free \in Seq(Buffer) /\ used \in Seq(Buffer)
  BY DEF Types, BufferTypes
<1>3. ASSUME NoneTwice(free'), NoneTwice(used'),
             Parted(Listed(free'), Listed(used'), DecodeHolds', WriteHolds')
      PROVE  G
  BY <1>3 DEF OnePlace, Held, DecodeHolds, WriteHolds, Parted, NoneTwice, Listed
<1>4. ASSUME UNCHANGED <<free, used>>, DecodeHolds' = DecodeHolds, WriteHolds' = WriteHolds
      PROVE  G
  BY <1>1, <1>3, <1>4
<1>5. ASSUME FreeAll, UNCHANGED <<decoding, writing>>
      PROVE  G
  <2>1. /\ Listed(free') = Listed(free) \cup Listed(used) /\ NoneTwice(free')
        /\ Listed(used') = {} /\ NoneTwice(used')
    <3>1. free' = free \o used /\ used' = <<>>
      BY <1>5 DEF FreeAll
    <3>2. Listed(free) \cap Listed(used) = {}
      BY <1>1 DEF Parted
    <3>3. Listed(<<>>) = {} /\ NoneTwice(<<>>)
      BY DEF Listed, NoneTwice
    <3> QED BY <1>1, <1>2, <3>1, <3>2, <3>3, ListedJoined
  <2>2. DecodeHolds' = DecodeHolds /\ WriteHolds' = WriteHolds
    BY <1>5 DEF DecodeHolds, WriteHolds
  <2> QED BY <1>1, <1>3, <2>1, <2>2 DEF Parted
<1>6. ASSUME NEW n \in Note, PlayNote(n) PROVE G
  BY <1>6, <1>4 DEF PlayNote, lists, DecodeHolds, WriteHolds
<1>7. ASSUME NEW pos \in 0..(Total[playing] - 1), playing # NoNote, Seek(pos) PROVE G
  BY <1>7, <1>4 DEF Seek, lists, DecodeHolds, WriteHolds
<1>8. CASE Pause
  BY <1>8, <1>4 DEF Pause, lists, DecodeHolds, WriteHolds
<1>9. CASE Resume
  BY <1>9, <1>4 DEF Resume, lists, DecodeHolds, WriteHolds
<1>10. CASE Stop
  BY <1>10, <1>4 DEF Stop, lists, DecodeHolds, WriteHolds
<1>11. CASE ProgressTimer
  BY <1>11, <1>4 DEF ProgressTimer, lists, DecodeHolds, WriteHolds
<1>12. CASE PlayOpened
  BY <1>12, <1>4 DEF PlayOpened, lists, DecodeHolds, WriteHolds
<1>13. CASE SeekDone
  BY <1>13, <1>4 DEF SeekDone, lists, DecodeHolds, WriteHolds
<1>14. CASE SetMarker
  BY <1>14, <1>4 DEF SetMarker, lists, DecodeHolds, WriteHolds
<1>15. CASE MarkerReached
  BY <1>15, <1>4 DEF MarkerReached, lists, DecodeHolds, WriteHolds
<1>16. CASE Open
  BY <1>16, <1>4 DEF Open, lists, DecodeHolds, WriteHolds
<1>17. CASE Begin
  BY <1>17, <1>5 DEF Begin
<1>18. CASE SeekFile
  BY <1>18, <1>5 DEF SeekFile
<1>19. CASE DecodeNothing
  BY <1>19, <1>4 DEF DecodeNothing, lists, DecodeHolds, WriteHolds
<1>20. CASE DecodeBegin
  BY <1>20, <1>4 DEF DecodeBegin, DecodeTaskIs, Idle, lists, DecodeHolds, WriteHolds
<1>21. CASE DecodeTake
  <2>1. CASE free = <<>>
    BY <1>21, <2>1, <1>4 DEF DecodeTake, DecodeEnd, Idle, DecodeHolds, WriteHolds
  <2>2. CASE free # <<>>
    <3>1. /\ free' = Tail(free) /\ used' = used /\ DecodeHolds = {}
          /\ DecodeHolds' = {free[1]} /\ WriteHolds' = WriteHolds
      BY <1>21, <2>2 DEF DecodeTake, DecodeHolds, WriteHolds
    <3>2. /\ Listed(free) = Listed(free') \cup {free[1]}
          /\ NoneTwice(free') /\ free[1] \notin Listed(free')
      BY <1>1, <1>2, <2>2, <3>1, ListedTaken
    <3> QED BY <1>1, <1>3, <3>1, <3>2 DEF Parted
  <2> QED BY <2>1, <2>2
<1>22. ASSUME NEW to \in Readable, Put(to) PROVE G
  <2>1. /\ decoding.b \in Buffer /\ DecodeHolds = {decoding.b}
        /\ DecodeHolds' = {} /\ WriteHolds' = WriteHolds
    <3>1. decoding'.at # "put" /\ writing' = writing /\ decoding.at = "put"
      BY <1>22 DEF Put, DecodeEnd, Idle
    <3> QED BY <3>1 DEF DecodeHolds, WriteHolds, Types, BufferTypes
  <2>2. decoding.b \notin Listed(free) /\ decoding.b \notin Listed(used)
    BY <1>1, <2>1 DEF Parted
  <2>3. CASE Read(to).to # Read(to).from
    <3>1. used' = Append(used, decoding.b) /\ free' = free
      BY <1>22, <2>3 DEF Put
    <3>2. Listed(used') = Listed(used) \cup {decoding.b} /\ NoneTwice(used')
      BY <1>1, <1>2, <2>1, <2>2, <3>1, ListedPosted
    <3> QED BY <1>1, <1>3, <2>1, <3>1, <3>2 DEF Parted
  <2>4. CASE Read(to).to = Read(to).from
    <3>1. free' = Append(free, decoding.b) /\ used' = used
      BY <1>22, <2>4 DEF Put
    <3>2. Listed(free') = Listed(free) \cup {decoding.b} /\ NoneTwice(free')
      BY <1>1, <1>2, <2>1, <2>2, <3>1, ListedPosted
    <3> QED BY <1>1, <1>3, <2>1, <3>1, <3>2 DEF Parted
  <2> QED BY <2>3, <2>4
<1>23. CASE PlayCheck
  BY <1>23, <1>4 DEF PlayCheck, Idle, lists, DecodeHolds, WriteHolds
<1>24. CASE PlayTake
  <2>1. CASE used = <<>>
    BY <1>24, <2>1, <1>4 DEF PlayTake, Idle, DecodeHolds, WriteHolds
  <2>2. CASE used # <<>>
    <3>1. /\ used' = Tail(used) /\ free' = free /\ WriteHolds = {}
          /\ WriteHolds' = {used[1]} /\ DecodeHolds' = DecodeHolds
      BY <1>24, <2>2 DEF PlayTake, Idle, DecodeHolds, WriteHolds
    <3>2. /\ Listed(used) = Listed(used') \cup {used[1]}
          /\ NoneTwice(used') /\ used[1] \notin Listed(used')
      BY <1>1, <1>2, <2>2, <3>1, ListedTaken
    <3> QED BY <1>1, <1>3, <3>1, <3>2 DEF Parted
  <2> QED BY <2>1, <2>2
<1>25. CASE PlayWrite
  <2>1. writing.at = "write" /\ writing'.at = "free" /\ writing'.b = writing.b
    BY <1>25 DEF PlayWrite, Types, BufferTypes
  <2>2. UNCHANGED <<free, used, decoding>>
    BY <1>25 DEF PlayWrite, lists
  <2> QED BY <2>1, <2>2, <1>4 DEF DecodeHolds, WriteHolds
<1>26. CASE PlayFree
  <2>1. /\ free' = Append(free, writing.b) /\ used' = used
        /\ writing.b \in Buffer /\ WriteHolds = {writing.b}
        /\ WriteHolds' = {} /\ DecodeHolds' = DecodeHolds
    BY <1>26 DEF PlayFree, Idle, DecodeHolds, WriteHolds, Types, BufferTypes
  <2>2. writing.b \notin Listed(free)
    BY <1>1, <2>1 DEF Parted
  <2>3. Listed(free') = Listed(free) \cup {writing.b} /\ NoneTwice(free')
    BY <1>1, <1>2, <2>1, <2>2, ListedPosted
  <2> QED BY <1>1, <1>3, <2>1, <2>3 DEF Parted
<1>27. CASE UNCHANGED vars
  BY <1>27, <1>4 DEF vars, lists, DecodeHolds, WriteHolds
<1> QED
  BY <1>6, <1>7, <1>8, <1>9, <1>10, <1>11, <1>12, <1>13, <1>14, <1>15, <1>16, <1>17, <1>18, <1>19, <1>20, <1>21, <1>22, <1>23, <1>24, <1>25, <1>26, <1>27 DEF Next, UiTask, DecodingQueue, DecodePut, PlayerQueue


-----------------------------------------------------------------------------
(* The tasks are paid for.                                                 *)

One(p) == IF p THEN 1 ELSE 0
Of(s, task) == {i \in 1..Len(s) : s[i].is = task}

LEMMA OfIsFinite ==
  ASSUME NEW S, NEW s \in Seq(S), NEW task
  PROVE  IsFiniteSet(Of(s, task)) /\ Count(s, task) \in Nat /\ Count(s, task) = Cardinality(Of(s, task))
<1>1. IsFiniteSet(1..Len(s)) /\ Of(s, task) \subseteq 1..Len(s)
  BY FS_Interval DEF Of
<1>2. Count(s, task) = Cardinality(Of(s, task))
  BY DEF Count, Of
<1> QED BY <1>1, <1>2, FS_Subset, FS_CardinalityType

LEMMA CountPosted ==
  ASSUME NEW S, NEW s \in Seq(S), NEW e \in S, NEW task
  PROVE  Count(Append(s, e), task) = Count(s, task) + One(e.is = task)
<1>1. /\ Append(s, e) \in Seq(S) /\ Len(s) \in Nat
      /\ Len(Append(s, e)) = Len(s) + 1
      /\ \A i \in 1..Len(s) : Append(s, e)[i] = s[i]
      /\ Append(s, e)[Len(s) + 1] = e
  BY Posted
<1>2. \A i \in 1..(Len(s) + 1) : i \in 1..Len(s) \/ i = Len(s) + 1
  BY <1>1
<1>3. Len(s) + 1 \notin Of(s, task)
  BY <1>1 DEF Of
<1>4. /\ Count(Append(s, e), task) = Cardinality(Of(Append(s, e), task))
      /\ Count(s, task) = Cardinality(Of(s, task)) /\ Count(s, task) \in Nat
      /\ IsFiniteSet(Of(s, task))
  <2>1. Count(Append(s, e), task) = Cardinality(Of(Append(s, e), task))
    BY <1>1, OfIsFinite
  <2> QED BY <2>1, OfIsFinite
<1>5. CASE e.is = task
  <2>1. Of(Append(s, e), task) = Of(s, task) \cup {Len(s) + 1}
    BY <1>1, <1>2, <1>5 DEF Of
  <2>2. Cardinality(Of(s, task) \cup {Len(s) + 1}) = Cardinality(Of(s, task)) + 1
    BY <1>3, <1>4, FS_AddElement
  <2> QED BY <1>5, <1>4, <2>1, <2>2 DEF One
<1>6. CASE e.is # task
  <2>1. Of(Append(s, e), task) = Of(s, task)
    BY <1>1, <1>2, <1>6 DEF Of
  <2> QED BY <1>6, <1>4, <2>1 DEF One
<1> QED BY <1>5, <1>6

LEMMA CountTaken ==
  ASSUME NEW S, NEW s \in Seq(S), s # <<>>, NEW task
  PROVE  Count(s, task) = Count(Tail(s), task) + One(s[1].is = task)
<1> DEFINE R == Of(s, task)
           T == Of(Tail(s), task)
           f == [i \in T |-> i + 1]
<1>1. /\ Len(s) \in Nat /\ Len(s) > 0 /\ Tail(s) \in Seq(S)
      /\ Len(Tail(s)) = Len(s) - 1
      /\ \A i \in 1..(Len(s) - 1) : Tail(s)[i] = s[i + 1]
  BY Taken
<1>2. \A i \in 2..Len(s) : i - 1 \in 1..(Len(s) - 1) /\ s[i] = Tail(s)[i - 1]
  BY <1>1
<1>3. /\ IsFiniteSet(R) /\ IsFiniteSet(T) /\ IsFiniteSet(R \ {1}) /\ Cardinality(R) \in Nat
      /\ Count(s, task) = Cardinality(R) /\ Count(Tail(s), task) = Cardinality(T)
  <2>1. IsFiniteSet(R) /\ Count(s, task) \in Nat /\ Count(s, task) = Cardinality(R)
    BY OfIsFinite
  <2>2. IsFiniteSet(T) /\ Count(Tail(s), task) = Cardinality(T)
    BY <1>1, OfIsFinite
  <2> QED BY <2>1, <2>2, FS_RemoveElement
<1>4. \A i \in T : i \in Int /\ f[i] \in R \ {1}
  BY <1>1 DEF Of
<1>5. \A i \in R \ {1} : i - 1 \in T /\ f[i - 1] = i
  BY <1>1, <1>2 DEF Of
<1>6. f \in Bijection(T, R \ {1})
  <2>1. f \in [T -> R \ {1}]
    BY <1>4
  <2>2. \A i, j \in T : f[i] = f[j] => i = j
    BY <1>4
  <2>3. \A i \in R \ {1} : \E j \in T : f[j] = i
    BY <1>5
  <2> QED BY <2>1, <2>2, <2>3 DEF Bijection, Injection, Surjection, IsInjective
<1>7. Cardinality(T) = Cardinality(R \ {1})
  BY <1>3, <1>6, FS_Bijection DEF ExistsBijection
<1>8. 1 \in R <=> s[1].is = task
  BY <1>1 DEF Of
<1>9. Cardinality(R \ {1}) = IF 1 \in R THEN Cardinality(R) - 1 ELSE Cardinality(R)
  BY <1>3, FS_RemoveElement
<1> HIDE DEF R, T
<1>10. Cardinality(R) = Cardinality(T) + One(s[1].is = task)
  BY <1>3, <1>7, <1>8, <1>9 DEF One
<1> QED BY <1>3, <1>10 DEF R, T

LEMMA TasksStep ==
  ASSUME Types, Tasks <= starts, [Next]_vars
  PROVE  (Tasks <= starts)'
<1> DEFINE G == (Tasks <= starts)'
           P == Count(playQ, "play")
           D == Count(decodeQ, "decode")
           S == Count(decodeQ, "start")
<1>1. playQ \in Seq({Play}) /\ decodeQ \in Seq(DecodeTask) /\ starts \in Nat
      /\ P \in Nat /\ D \in Nat /\ S \in Nat
  BY OfIsFinite DEF Types, QueueTypes, GhostTypes
<1>2. /\ Count(Append(playQ, Play), "play") = P + 1
      /\ playQ # <<>> => P = Count(Tail(playQ), "play") + 1
  <2>1. Play.is = "play"
    BY DEF Play
  <2>2. playQ # <<>> => playQ[1] = Play
    BY <1>1, Taken
  <2>3. Count(Append(playQ, Play), "play") = P + One(Play.is = "play")
    BY <1>1, CountPosted
  <2>4. playQ # <<>> => P = Count(Tail(playQ), "play") + One(playQ[1].is = "play")
    BY <1>1, CountTaken
  <2> QED BY <2>1, <2>2, <2>3, <2>4 DEF One
<1>3. ASSUME NEW e \in DecodeTask
      PROVE  /\ Count(Append(decodeQ, e), "decode") = D + One(e.is = "decode")
             /\ Count(Append(decodeQ, e), "start") = S + One(e.is = "start")
  BY <1>1, CountPosted
<1>4. /\ Decode \in DecodeTask /\ Decode.is = "decode"
      /\ [is |-> "open"] \in DecodeTask /\ [is |-> "start"] \in DecodeTask
      /\ \A pos \in Nat : [is |-> "seek", pos |-> pos] \in DecodeTask
  BY DEF Decode, DecodeTask
<1>5. /\ Count(Append(decodeQ, Decode), "decode") = D + 1
      /\ Count(Append(decodeQ, Decode), "start") = S
      /\ Count(Append(decodeQ, [is |-> "open"]), "decode") = D
      /\ Count(Append(decodeQ, [is |-> "open"]), "start") = S
      /\ Count(Append(decodeQ, [is |-> "start"]), "decode") = D
      /\ Count(Append(decodeQ, [is |-> "start"]), "start") = S + 1
      /\ \A pos \in Nat :
           /\ Count(Append(decodeQ, [is |-> "seek", pos |-> pos]), "decode") = D
           /\ Count(Append(decodeQ, [is |-> "seek", pos |-> pos]), "start") = S
  BY <1>1, <1>3, <1>4 DEF One
<1>6. decodeQ # <<>> =>
        /\ D = Count(Tail(decodeQ), "decode") + One(decodeQ[1].is = "decode")
        /\ S = Count(Tail(decodeQ), "start") + One(decodeQ[1].is = "start")
        /\ Count(Tail(decodeQ), "decode") \in Nat /\ Count(Tail(decodeQ), "start") \in Nat
  BY <1>1, CountTaken, OfIsFinite, Taken
<1>7. playQ # <<>> => Count(Tail(playQ), "play") \in Nat
  BY <1>1, OfIsFinite, Taken
<1> HIDE DEF P, D, S
<1>8. ASSUME NEW n \in Note, PlayNote(n) PROVE G
  BY <1>8, <1>1, <1>2, <1>5, <1>6, <1>7 DEF PlayNote, One, Idle, DecodeTaskIs, DecodeEnd, P, D, S, Tasks, vars, uiVars, lists, ghosts, counters
<1>9. ASSUME NEW pos \in 0..(Total[playing] - 1), playing # NoNote, Seek(pos) PROVE G
  BY <1>9, <1>1, <1>2, <1>5, <1>6, <1>7 DEF Seek, One, Idle, DecodeTaskIs, DecodeEnd, P, D, S, Tasks, vars, uiVars, lists, ghosts, counters
<1>10. CASE Pause
  BY <1>10, <1>1, <1>2, <1>5, <1>6, <1>7 DEF Pause, One, Idle, DecodeTaskIs, DecodeEnd, P, D, S, Tasks, vars, uiVars, lists, ghosts, counters
<1>11. CASE Resume
  BY <1>11, <1>1, <1>2, <1>5, <1>6, <1>7 DEF Resume, One, Idle, DecodeTaskIs, DecodeEnd, P, D, S, Tasks, vars, uiVars, lists, ghosts, counters
<1>12. CASE Stop
  BY <1>12, <1>1, <1>2, <1>5, <1>6, <1>7 DEF Stop, One, Idle, DecodeTaskIs, DecodeEnd, P, D, S, Tasks, vars, uiVars, lists, ghosts, counters
<1>13. CASE ProgressTimer
  BY <1>13, <1>1, <1>2, <1>5, <1>6, <1>7 DEF ProgressTimer, One, Idle, DecodeTaskIs, DecodeEnd, P, D, S, Tasks, vars, uiVars, lists, ghosts, counters
<1>14. CASE PlayOpened
  BY <1>14, <1>1, <1>2, <1>5, <1>6, <1>7 DEF PlayOpened, One, Idle, DecodeTaskIs, DecodeEnd, P, D, S, Tasks, vars, uiVars, lists, ghosts, counters
<1>15. CASE SeekDone
  <2>1. UNCHANGED <<decodeQ, decoding, writing>>
    BY <1>15 DEF SeekDone
  <2>2. \/ UNCHANGED <<playQ, starts>>
        \/ playQ' = Append(playQ, Play) /\ starts' = starts + 1
    BY <1>15 DEF SeekDone
  <2>3. \/ Count(playQ', "play") = P /\ starts' = starts
        \/ Count(playQ', "play") = P + 1 /\ starts' = starts + 1
    BY <2>2, <1>2 DEF P
  <2> QED BY <2>1, <2>3, <1>1 DEF One, P, D, S, Tasks
<1>16. CASE SetMarker
  BY <1>16, <1>1, <1>2, <1>5, <1>6, <1>7 DEF SetMarker, One, Idle, DecodeTaskIs, DecodeEnd, P, D, S, Tasks, vars, uiVars, lists, ghosts, counters
<1>17. CASE MarkerReached
  BY <1>17, <1>1, <1>2, <1>5, <1>6, <1>7 DEF MarkerReached, One, Idle, DecodeTaskIs, DecodeEnd, P, D, S, Tasks, vars, uiVars, lists, ghosts, counters
<1>18. CASE Open
  BY <1>18, <1>1, <1>2, <1>5, <1>6, <1>7 DEF Open, One, Idle, DecodeTaskIs, DecodeEnd, P, D, S, Tasks, vars, uiVars, lists, ghosts, counters
<1>19. CASE Begin
  BY <1>19, <1>1, <1>2, <1>5, <1>6, <1>7 DEF Begin, One, Idle, DecodeTaskIs, DecodeEnd, P, D, S, Tasks, vars, uiVars, lists, ghosts, counters
<1>20. CASE SeekFile
  BY <1>20, <1>1, <1>2, <1>5, <1>6, <1>7 DEF SeekFile, One, Idle, DecodeTaskIs, DecodeEnd, P, D, S, Tasks, vars, uiVars, lists, ghosts, counters
<1>21. CASE DecodeNothing
  BY <1>21, <1>1, <1>2, <1>5, <1>6, <1>7 DEF DecodeNothing, One, Idle, DecodeTaskIs, DecodeEnd, P, D, S, Tasks, vars, uiVars, lists, ghosts, counters
<1>22. CASE DecodeBegin
  BY <1>22, <1>1, <1>2, <1>5, <1>6, <1>7 DEF DecodeBegin, One, Idle, DecodeTaskIs, DecodeEnd, P, D, S, Tasks, vars, uiVars, lists, ghosts, counters
<1>23. CASE DecodeTake
  <2>1. UNCHANGED <<decodeQ, writing, starts>> /\ decoding.at = "take"
    BY <1>23 DEF DecodeTake, ghosts
  <2>2. \/ decoding'.at = "put" /\ playQ' = playQ
        \/ decoding'.at = "idle" /\ playQ' \in {playQ, Append(playQ, Play)}
    BY <1>23 DEF DecodeTake, DecodeEnd, Idle
  <2>3. \/ decoding'.at = "put" /\ Count(playQ', "play") = P
        \/ decoding'.at = "idle" /\ Count(playQ', "play") \in {P, P + 1}
    BY <2>2, <1>2 DEF P
  <2> QED BY <2>1, <2>3, <1>1 DEF One, P, D, S, Tasks
<1>24. ASSUME NEW to \in Readable, Put(to) PROVE G
  <2>1. UNCHANGED <<decodeQ, writing, starts>> /\ decoding.at = "put"
    BY <1>24 DEF Put, ghosts
  <2>2. \/ decoding'.at = "take" /\ playQ' = playQ
        \/ decoding'.at = "idle" /\ playQ' \in {playQ, Append(playQ, Play)}
    BY <1>24 DEF Put, DecodeEnd, Idle
  <2>3. \/ decoding'.at = "take" /\ Count(playQ', "play") = P
        \/ decoding'.at = "idle" /\ Count(playQ', "play") \in {P, P + 1}
    BY <2>2, <1>2 DEF P
  <2> QED BY <2>1, <2>3, <1>1 DEF One, P, D, S, Tasks
<1>25. CASE PlayCheck
  BY <1>25, <1>1, <1>2, <1>5, <1>6, <1>7 DEF PlayCheck, One, Idle, DecodeTaskIs, DecodeEnd, P, D, S, Tasks, vars, uiVars, lists, ghosts, counters
<1>26. CASE PlayTake
  <2>1. UNCHANGED <<playQ, decoding, starts>> /\ writing.at = "take"
    BY <1>26 DEF PlayTake, ghosts
  <2>2. \/ writing'.at = "write" /\ decodeQ' = decodeQ
        \/ writing'.at = "idle" /\ decodeQ' = Append(decodeQ, Decode)
    <3>1. CASE used = <<>>
      BY <1>26, <3>1 DEF PlayTake, Idle
    <3>2. CASE used # <<>>
      BY <1>26, <3>2 DEF PlayTake, Idle
    <3> QED BY <3>1, <3>2
  <2>3. /\ Count(decodeQ', "start") = S
        /\ \/ writing'.at = "write" /\ Count(decodeQ', "decode") = D
           \/ writing'.at = "idle" /\ Count(decodeQ', "decode") = D + 1
    BY <2>2, <1>5 DEF D, S
  <2> QED BY <2>1, <2>3, <1>1 DEF One, P, D, S, Tasks
<1>27. CASE PlayWrite
  <2>1. /\ UNCHANGED decoding /\ starts' = starts + 1
        /\ writing.at = "write" /\ writing'.at = "free"
    BY <1>27 DEF PlayWrite, Types, BufferTypes
  <2>2. \/ UNCHANGED <<playQ, decodeQ>>
        \/ playQ' = Append(playQ, Play) /\ decodeQ' = Append(decodeQ, Decode)
    BY <1>27 DEF PlayWrite
  <2>3. /\ Count(decodeQ', "start") = S
        /\ \/ Count(playQ', "play") = P /\ Count(decodeQ', "decode") = D
           \/ Count(playQ', "play") = P + 1 /\ Count(decodeQ', "decode") = D + 1
    BY <2>2, <1>2, <1>5 DEF P, D, S
  <2> QED BY <2>1, <2>3, <1>1 DEF One, P, D, S, Tasks
<1>28. CASE PlayFree
  BY <1>28, <1>1, <1>2, <1>5, <1>6, <1>7 DEF PlayFree, One, Idle, DecodeTaskIs, DecodeEnd, P, D, S, Tasks, vars, uiVars, lists, ghosts, counters
<1>29. CASE UNCHANGED vars
  BY <1>29, <1>1, <1>2, <1>5, <1>6, <1>7 DEF One, Idle, DecodeTaskIs, DecodeEnd, P, D, S, Tasks, vars, uiVars, lists, ghosts, counters
<1> QED
  BY <1>8, <1>9, <1>10, <1>11, <1>12, <1>13, <1>14, <1>15, <1>16, <1>17, <1>18, <1>19, <1>20, <1>21, <1>22, <1>23, <1>24, <1>25, <1>26, <1>27, <1>28, <1>29 DEF Next, UiTask, DecodingQueue, DecodePut, PlayerQueue

-----------------------------------------------------------------------------
(* No buffer is lost.                                                      *)

LEMMA ListedSize ==
  ASSUME NEW s \in Seq(Buffer), NoneTwice(s)
  PROVE  IsFiniteSet(Listed(s)) /\ Cardinality(Listed(s)) = Len(s)
<1>1. Len(s) \in Nat /\ DOMAIN s = 1..Len(s) /\ s \in [1..Len(s) -> Listed(s)]
  BY DEF Listed
<1>2. s \in Bijection(1..Len(s), Listed(s))
  BY <1>1 DEF NoneTwice, Listed, Bijection, Injection, Surjection, IsInjective
<1>3. IsFiniteSet(1..Len(s)) /\ Cardinality(1..Len(s)) = Len(s)
  BY <1>1, FS_Interval
<1> QED BY <1>2, <1>3, FS_Bijection DEF ExistsBijection

LEMMA PlacesAddUp ==
  ASSUME Types, OnePlace
  PROVE  Len(free) + Len(used) + Cardinality(Held) = Buffers
<1>1. /\ free \in Seq(Buffer) /\ used \in Seq(Buffer)
      /\ Len(free) \in Nat /\ Len(used) \in Nat
  BY DEF Types, BufferTypes
<1>2. /\ IsFiniteSet(Listed(free)) /\ Cardinality(Listed(free)) = Len(free)
      /\ IsFiniteSet(Listed(used)) /\ Cardinality(Listed(used)) = Len(used)
  BY <1>1, ListedSize DEF OnePlace
<1>3. IsFiniteSet(Buffer) /\ Cardinality(Buffer) = Buffers
  BY Constants, FS_Interval DEF Buffer
<1>4. IsFiniteSet(Held) /\ Cardinality(Held) \in Nat
  <2>1. Held \subseteq Buffer
    BY DEF OnePlace
  <2> QED BY <1>3, <2>1, FS_Subset, FS_CardinalityType
<1>5. /\ IsFiniteSet(Listed(free) \cup Listed(used))
      /\ Cardinality(Listed(free) \cup Listed(used)) = Len(free) + Len(used)
  <2>1. Cardinality(Listed(free) \cap Listed(used)) = 0
    <3>1. Listed(free) \cap Listed(used) = {}
      BY DEF OnePlace
    <3> QED BY <3>1, FS_EmptySet, Zenon
  <2>2. /\ IsFiniteSet(Listed(free) \cup Listed(used))
        /\ Cardinality(Listed(free) \cup Listed(used))
             = Cardinality(Listed(free)) + Cardinality(Listed(used))
                 - Cardinality(Listed(free) \cap Listed(used))
    BY <1>2, FS_Union
  <2> QED BY <1>1, <1>2, <2>1, <2>2
<1>6. Cardinality((Listed(free) \cup Listed(used)) \cup Held)
        = Len(free) + Len(used) + Cardinality(Held)
  <2>1. Cardinality((Listed(free) \cup Listed(used)) \cap Held) = 0
    <3>1. (Listed(free) \cup Listed(used)) \cap Held = {}
      BY DEF OnePlace
    <3> QED BY <3>1, FS_EmptySet, Zenon
  <2>2. Cardinality((Listed(free) \cup Listed(used)) \cup Held)
          = Cardinality(Listed(free) \cup Listed(used)) + Cardinality(Held)
              - Cardinality((Listed(free) \cup Listed(used)) \cap Held)
    BY <1>4, <1>5, FS_Union
  <2> QED BY <1>1, <1>4, <1>5, <2>1, <2>2
<1> QED BY <1>3, <1>6 DEF OnePlace

LEMMA PlacesInit == Init => OnePlace /\ Tasks <= starts
<1> SUFFICES ASSUME Init PROVE OnePlace /\ Tasks <= starts
  OBVIOUS
<1>1. /\ free = [i \in Buffer |-> i] /\ used = <<>> /\ decoding = Idle /\ writing = Idle
      /\ decodeQ = <<>> /\ playQ = <<>> /\ starts = 0
  BY DEF Init
<1>2. Buffer = 1..Buffers /\ Len(free) = Buffers /\ \A i \in Buffer : free[i] = i
  BY <1>1, Constants DEF Buffer
<1>3. Listed(free) = Buffer /\ NoneTwice(free)
  BY <1>2 DEF Listed, NoneTwice
<1>4. Listed(used) = {} /\ NoneTwice(used) /\ Held = {}
  BY <1>1 DEF Listed, NoneTwice, Held, Idle
<1>5. OnePlace
  BY <1>1, <1>3, <1>4 DEF OnePlace, Idle
<1>6. \A task : Count(<<>>, task) = 0
  <2>1. \A task : {i \in 1..Len(<<>>) : <<>>[i].is = task} = {}
    OBVIOUS
  <2> QED BY <2>1, FS_EmptySet DEF Count
<1>7. Tasks = 0
  BY <1>1, <1>6 DEF Tasks, Idle
<1> QED BY <1>1, <1>5, <1>7

\* No buffer is lost and none is in two places, and the tasks with which the
\* two queues start each other never become more than those who started them,
\* however the user plays, pauses, seeks and stops.
THEOREM BuffersKept == Spec => []BuffersAreKept
<1> DEFINE Kept == Types /\ OnePlace /\ Tasks <= starts
<1>1. Init => Kept
  BY TypesInit, PlacesInit
<1>2. Kept /\ [Next]_vars => Kept'
  BY TypesStep, OnePlaceStep, TasksStep
<1>3. Kept => BuffersAreKept
  BY PlacesAddUp DEF BuffersAreKept, OnePlace
<1> QED BY <1>1, <1>2, <1>3, PTL DEF Spec
-----------------------------------------------------------------------------
(* What is heard is in order: the pieces on their way.                     *)

LEMMA PipeTypes ==
  ASSUME Types
  PROVE  /\ Len(heard) \in Nat /\ Len(used) \in Nat /\ InHand \in {0, 1} /\ PipeLen \in Nat
         /\ \A i \in 1..PipeLen : Pipe(i) \in Piece
<1>1. heard \in Seq(Piece) /\ used \in Seq(Buffer) /\ buf \in [Buffer -> Piece]
      /\ (writing.at = "write" => writing.b \in Buffer)
  BY DEF Types, AudioTypes, BufferTypes
<1>2. /\ Len(heard) \in Nat /\ Len(used) \in Nat /\ InHand \in {0, 1} /\ PipeLen \in Nat
      /\ \A i \in 1..Len(heard) : heard[i] \in Piece
      /\ \A i \in 1..Len(used) : used[i] \in Buffer
  BY <1>1 DEF InHand, PipeLen
<1>3. ASSUME NEW i \in 1..PipeLen PROVE Pipe(i) \in Piece
  <2>1. CASE i <= Len(heard)
    BY <1>2, <2>1 DEF Pipe
  <2>2. CASE ~(i <= Len(heard)) /\ i <= Len(heard) + InHand
    <3>1. writing.at = "write" /\ Pipe(i) = buf[writing.b]
      BY <1>2, <2>2 DEF InHand, Pipe
    <3> QED BY <1>1, <3>1
  <2>3. CASE ~(i <= Len(heard) + InHand)
    <3>1. i - Len(heard) - InHand \in 1..Len(used)
      BY <1>2, <2>3 DEF PipeLen
    <3>2. Pipe(i) = buf[used[i - Len(heard) - InHand]]
      BY <1>2, <2>3 DEF Pipe
    <3> QED BY <1>1, <1>2, <3>1, <3>2
  <2> QED BY <1>2, <2>1, <2>2, <2>3
<1> QED BY <1>2, <1>3

\* The same pieces, of the same reading.
LEMMA PipeKept ==
  ASSUME Types, PipeInOrder, playing' = playing,
         native'.gen = native.gen, native'.pos = native.pos, native'.from = native.from,
         native.finished => native'.finished /\ native'.failed = native.failed,
         SeekAwaited => SeekAwaited', WaitsOfNow',
         PipeLen' = PipeLen, \A i \in 1..PipeLen : Pipe(i)' = Pipe(i)
  PROVE  PipeInOrder'
<1>1. PipeLen \in Nat /\ PipeLen > 0 => PipeLen \in 1..PipeLen /\ 1 \in 1..PipeLen
  BY PipeTypes
<1>2. \A i \in 2..PipeLen : i \in 1..PipeLen /\ i - 1 \in 1..PipeLen
  BY PipeTypes
<1>3. PipeLen \in Nat
  BY PipeTypes
<1>4. \A i \in 1..PipeLen : EndsWell(Pipe(i)', native')
  BY DEF PipeInOrder, EndsWell
<1>5. /\ \A i \in 1..PipeLen : Pipe(i)'.note = playing /\ Pipe(i)'.gen <= native.gen
      /\ \A i \in 2..PipeLen : Follows(Pipe(i - 1)', Pipe(i)')
      /\ PipeLen > 0 /\ Pipe(PipeLen)'.gen = native.gen => Pipe(PipeLen)'.to = native.pos
  BY <1>1, <1>2, <1>3 DEF PipeInOrder
<1>6. ASSUME Begins PROVE Begins'
  <2>1. ASSUME NEW i \in 1..PipeLen, Pipe(i)'.gen = native.gen,
               i = 1 \/ Pipe(i - 1)'.gen < native.gen
        PROVE  Pipe(i)'.from = native.from
    <3>1. i = 1 \/ (i - 1 \in 1..PipeLen /\ Pipe(i - 1)' = Pipe(i - 1))
      BY <1>3
    <3> QED BY <1>6, <2>1, <3>1 DEF Begins
  <2>2. PipeLen = 0 \/ Pipe(PipeLen)'.gen < native.gen => native.pos = native.from
    BY <1>1, <1>3, <1>6 DEF Begins
  <2> QED BY <2>1, <2>2 DEF Begins
<1>7. Begins' \/ SeekAwaited'
  BY <1>6 DEF PipeInOrder
<1> QED BY <1>4, <1>5, <1>7 DEF PipeInOrder, Follows

\* What waits is taken, or left.
LEMMA WaitsLeft ==
  ASSUME Types, WaitsOfNow, native'.gen = native.gen, UNCHANGED buf,
         used' = used \/ (used # <<>> /\ used' = Tail(used))
  PROVE  WaitsOfNow'
<1>1. used \in Seq(Buffer)
  BY DEF Types, BufferTypes
<1>2. CASE used' = used
  BY <1>2 DEF WaitsOfNow
<1>3. CASE used # <<>> /\ used' = Tail(used)
  <2>1. /\ Len(used') = Len(used) - 1 /\ Len(used) \in Nat
        /\ \A j \in 1..(Len(used) - 1) : used'[j] = used[j + 1] /\ j + 1 \in 1..Len(used)
    BY <1>1, <1>3, Taken
  <2> QED BY <2>1 DEF WaitsOfNow
<1> QED BY <1>2, <1>3

\* What the track takes was on its way; what the player queue takes stays
\* there.
LEMMA PipeSame ==
  ASSUME Types, UNCHANGED <<heard, used, buf>>,
         writing' = writing \/ (writing.at # "write" /\ writing'.at # "write")
  PROVE  PipeLen' = PipeLen /\ \A i \in 1..PipeLen : Pipe(i)' = Pipe(i)
<1>1. InHand' = InHand /\ (InHand = 1 => writing' = writing)
  BY DEF InHand
<1>2. Len(heard) \in Nat /\ Len(used) \in Nat /\ InHand \in {0, 1} /\ PipeLen \in Nat
  BY PipeTypes
<1> QED BY <1>1, <1>2 DEF PipeLen, Pipe

LEMMA PipePlayTake ==
  ASSUME Types, PlayTake
  PROVE  PipeLen' = PipeLen /\ \A i \in 1..PipeLen : Pipe(i)' = Pipe(i)
<1>1. Len(heard) \in Nat /\ Len(used) \in Nat /\ InHand = 0
      /\ used \in Seq(Buffer) /\ UNCHANGED <<heard, buf>>
  BY PipeTypes DEF PlayTake, InHand, ghosts, Types, BufferTypes
<1>2. CASE used = <<>>
  <2>1. writing.at # "write" /\ writing'.at # "write" /\ used' = used
    BY <1>2 DEF PlayTake, Idle
  <2> QED BY <1>1, <2>1, PipeSame
<1>3. CASE used # <<>>
  <2>1. writing'.at = "write" /\ writing'.b = used[1] /\ used' = Tail(used)
    BY <1>3 DEF PlayTake, Idle
  <2>2. /\ Len(used') = Len(used) - 1 /\ Len(used) > 0
        /\ \A i \in 1..(Len(used) - 1) : used'[i] = used[i + 1]
    BY <1>1, <1>3, <2>1, Taken
  <2>3. InHand' = 1 /\ PipeLen' = PipeLen /\ PipeLen = Len(heard) + Len(used)
    <3>1. InHand' = 1 /\ Len(heard') = Len(heard)
      BY <1>1, <2>1 DEF InHand
    <3>2. PipeLen' = Len(heard') + InHand' + Len(used')
      BY DEF PipeLen
    <3>3. PipeLen = Len(heard) + InHand + Len(used)
      BY DEF PipeLen
    <3> QED BY <1>1, <2>2, <3>1, <3>2, <3>3
  <2>4. ASSUME NEW i \in 1..PipeLen PROVE Pipe(i)' = Pipe(i)
    <3>1. CASE i <= Len(heard)
      BY <1>1, <3>1 DEF Pipe
    <3>2. CASE i = Len(heard) + 1
      <4>1. Pipe(i) = buf[used[1]]
        BY <1>1, <3>2 DEF Pipe
      <4>2. Pipe(i)' = buf[used[1]]
        BY <1>1, <2>1, <2>3, <3>2 DEF Pipe
      <4> QED BY <4>1, <4>2
    <3>3. CASE i > Len(heard) + 1
      <4>1. i - Len(heard) - 1 \in 1..(Len(used) - 1)
            /\ used'[i - Len(heard) - 1] = used[i - Len(heard)]
        BY <1>1, <2>2, <2>3, <3>3
      <4>2. Pipe(i) = buf[used[i - Len(heard)]]
        BY <1>1, <3>3 DEF Pipe
      <4>3. Pipe(i)' = buf[used'[i - Len(heard) - 1]]
        BY <1>1, <2>3, <3>3 DEF Pipe
      <4> QED BY <4>1, <4>2, <4>3
    <3> QED BY <1>1, <2>3, <3>1, <3>2, <3>3
  <2> QED BY <2>3, <2>4
<1> QED BY <1>2, <1>3

LEMMA PipePlayWrite ==
  ASSUME Types, PlayWrite, track # "none"
  PROVE  PipeLen' = PipeLen /\ \A i \in 1..PipeLen : Pipe(i)' = Pipe(i)
<1>1. Len(heard) \in Nat /\ Len(used) \in Nat /\ heard \in Seq(Piece)
      /\ UNCHANGED <<used, buf>>
  BY PipeTypes DEF PlayWrite, lists, Types, AudioTypes
<1>2. writing.at = "write" /\ writing'.at = "free"
  BY DEF PlayWrite, Types, BufferTypes
<1>3. heard' = Append(heard, buf[writing.b]) /\ buf[writing.b] \in Piece
  BY <1>2 DEF PlayWrite, Types, BufferTypes, AudioTypes
<1>4. /\ Len(heard') = Len(heard) + 1
      /\ \A i \in 1..Len(heard) : heard'[i] = heard[i]
      /\ heard'[Len(heard) + 1] = buf[writing.b]
  BY <1>1, <1>3, Posted
<1>5. InHand = 1 /\ InHand' = 0
  BY <1>2 DEF InHand
<1>6. PipeLen' = PipeLen
  BY <1>1, <1>4, <1>5 DEF PipeLen
<1>7. ASSUME NEW i \in 1..PipeLen PROVE Pipe(i)' = Pipe(i)
  BY <1>1, <1>4, <1>5 DEF Pipe
<1> QED BY <1>6, <1>7

\* A seek of the user takes what was heard away.
LEMMA PipeSeek ==
  ASSUME Types, PipeInOrder, NEW pos \in Nat, Seek(pos)
  PROVE  PipeInOrder'
<1> DEFINE n == Len(heard)
<1>1. /\ UNCHANGED <<used, buf, writing, playing, native>> /\ heard' = <<>>
  BY DEF Seek, lists
<1>2. /\ n \in Nat /\ Len(used) \in Nat /\ InHand \in {0, 1} /\ PipeLen \in Nat
      /\ PipeLen = n + InHand + Len(used)
  BY PipeTypes DEF PipeLen
<1>3. InHand' = InHand /\ Len(heard') = 0 /\ Len(used') = Len(used)
  BY <1>1 DEF InHand
<1>4. PipeLen' = PipeLen - n /\ PipeLen' = InHand + Len(used) /\ PipeLen' \in Nat
  BY <1>2, <1>3 DEF PipeLen
<1>5. ASSUME NEW i \in 1..PipeLen'
      PROVE  i + n \in 1..PipeLen /\ Pipe(i)' = Pipe(i + n)
  <2>1. i + n \in 1..PipeLen /\ i \in Nat /\ i > 0
    BY <1>2, <1>4
  <2>2. CASE i <= InHand
    <3>1. Pipe(i)' = buf[writing.b]
      BY <1>1, <1>2, <1>3, <2>1, <2>2 DEF Pipe
    <3>2. Pipe(i + n) = buf[writing.b]
      BY <1>2, <2>1, <2>2 DEF Pipe
    <3> QED BY <2>1, <3>1, <3>2
  <2>3. CASE ~(i <= InHand)
    <3>1. Pipe(i)' = buf[used[i - InHand]]
      BY <1>1, <1>2, <1>3, <2>1, <2>3 DEF Pipe
    <3>2. Pipe(i + n) = buf[used[(i + n) - n - InHand]]
      BY <1>2, <2>1, <2>3 DEF Pipe
    <3>3. (i + n) - n - InHand = i - InHand
      BY <1>2, <2>1
    <3> QED BY <2>1, <3>1, <3>2, <3>3
  <2> QED BY <2>2, <2>3
<1>6. \A i \in 1..PipeLen' :
        /\ Pipe(i)'.note = playing /\ Pipe(i)'.gen <= native.gen
        /\ EndsWell(Pipe(i)', native)
  BY <1>5 DEF PipeInOrder
<1>7. ASSUME NEW i \in 2..PipeLen'
      PROVE  Follows(Pipe(i - 1)', Pipe(i)')
  <2>1. /\ i \in 1..PipeLen' /\ i - 1 \in 1..PipeLen'
        /\ i + n \in 2..PipeLen /\ (i - 1) + n = (i + n) - 1
    BY <1>2, <1>4
  <2>2. Follows(Pipe((i + n) - 1), Pipe(i + n))
    BY <2>1 DEF PipeInOrder
  <2> QED BY <1>5, <2>1, <2>2
<1>8. ASSUME PipeLen' > 0, Pipe(PipeLen)'.gen = native.gen
      PROVE  Pipe(PipeLen)'.to = native.pos
  <2>1. PICK k \in 1..PipeLen' : k = PipeLen'
    BY <1>4, <1>8
  <2>2. Pipe(PipeLen)' = Pipe(k)'
    BY <2>1 DEF Pipe
  <2>3. Pipe(k)' = Pipe(k + n) /\ k + n = PipeLen /\ PipeLen > 0
    BY <1>2, <1>4, <1>5, <2>1
  <2> QED BY <1>8, <2>2, <2>3 DEF PipeInOrder
<1>9. SeekAwaited'
  <2> DEFINE e == [is |-> "seek", pos |-> pos]
  <2>1. decodeQ \in Seq(DecodeTask) /\ decodeQ' = Append(decodeQ, e)
    BY DEF Seek, Types, QueueTypes
  <2>2. e \in DecodeTask /\ e.is = "seek"
    BY DEF DecodeTask
  <2> HIDE DEF e
  <2>3. /\ Len(decodeQ') = Len(decodeQ) + 1 /\ Len(decodeQ) \in Nat
        /\ decodeQ'[Len(decodeQ) + 1] = e
    BY <2>1, <2>2, Posted
  <2> QED BY <2>2, <2>3 DEF SeekAwaited
<1>10. WaitsOfNow'
  BY <1>1 DEF PipeInOrder, WaitsOfNow
<1> QED BY <1>1, <1>4, <1>6, <1>7, <1>8, <1>9, <1>10 DEF PipeInOrder, EndsWell, Follows

\* The seek of the file takes away what waits to be played.
LEMMA PipeSeekFile ==
  ASSUME Types, PipeInOrder, SeeksInside, playing # NoNote, native.note = playing, SeekFile
  PROVE  PipeInOrder' /\ native'.note = playing
<1> DEFINE m == Len(heard) + InHand
<1>1. /\ UNCHANGED <<heard, buf, writing, playing>> /\ used' = <<>>
      /\ native' = Sought(decodeQ[1].pos)
      /\ decodeQ # <<>> /\ decodeQ[1].is = "seek"
  BY DEF SeekFile, DecodeTaskIs, FreeAll, uiVars
<1>2. decodeQ[1].pos \in Nat /\ decodeQ[1].pos < Total[playing]
  <2>1. decodeQ \in Seq(DecodeTask)
    BY DEF Types, QueueTypes
  <2>2. decodeQ[1] \in DecodeTask /\ 1 \in 1..Len(decodeQ)
    BY <1>1, <2>1, Taken
  <2> QED BY <1>1, <2>2 DEF DecodeTask, SeeksInside
<1>3. /\ native'.gen = native.gen + 1 /\ native'.note = playing /\ native.gen \in Nat
      /\ native'.pos = native'.from
      /\ native'.finished = native.finished /\ native'.failed = native.failed
  <2>1. FileTypes(native) /\ native.gen \in Nat
    BY DEF Types, AudioTypes, FileTypes, File, Note, NoNote
  <2> QED BY <1>1, <1>2, <2>1, SeekTypes
<1>4. /\ Len(heard) \in Nat /\ Len(used) \in Nat /\ InHand \in {0, 1} /\ PipeLen \in Nat
      /\ PipeLen = m + Len(used) /\ m \in Nat
  BY PipeTypes DEF PipeLen
<1>5. InHand' = InHand /\ Len(heard') = Len(heard) /\ Len(used') = 0
  BY <1>1 DEF InHand
<1>6. PipeLen' = m
  BY <1>4, <1>5 DEF PipeLen
<1>7. ASSUME NEW i \in 1..m
      PROVE  i \in 1..PipeLen /\ Pipe(i)' = Pipe(i)
  BY <1>1, <1>4, <1>5 DEF Pipe
<1>8. \A i \in 1..m :
        /\ Pipe(i)'.note = playing /\ Pipe(i)'.gen < native'.gen
        /\ EndsWell(Pipe(i)', native')
  <2>1. \A i \in 1..PipeLen : Pipe(i).gen \in Nat
    BY PipeTypes DEF Piece
  <2>2. \A i \in 1..m : EndsWell(Pipe(i)', native')
    BY <1>3, <1>7 DEF PipeInOrder, EndsWell
  <2> QED BY <1>3, <1>7, <2>1, <2>2 DEF PipeInOrder
<1>9. ASSUME NEW i \in 2..m
      PROVE  Follows(Pipe(i - 1)', Pipe(i)')
  <2>1. i \in 1..m /\ i - 1 \in 1..m /\ i \in 2..PipeLen
    BY <1>4
  <2> QED BY <1>7, <2>1 DEF PipeInOrder
<1>10. ~(PipeLen' > 0 /\ Pipe(PipeLen)'.gen = native'.gen)
  <2>1. SUFFICES ASSUME PipeLen' > 0, Pipe(PipeLen)'.gen = native'.gen PROVE FALSE
    OBVIOUS
  <2>2. PICK k \in 1..m : k = PipeLen'
    BY <1>4, <1>6, <2>1
  <2>3. Pipe(PipeLen)' = Pipe(k)'
    BY <2>2 DEF Pipe
  <2>4. Pipe(k).gen \in Nat /\ Pipe(k).gen <= native.gen /\ Pipe(k)' = Pipe(k)
    BY <1>7, PipeTypes DEF Piece, PipeInOrder
  <2> QED BY <1>3, <2>1, <2>3, <2>4
<1>11. /\ \A i \in 1..PipeLen' :
            /\ Pipe(i)'.note = playing' /\ Pipe(i)'.gen <= native'.gen
            /\ EndsWell(Pipe(i)', native')
       /\ \A i \in 2..PipeLen' : Follows(Pipe(i - 1)', Pipe(i)')
  <2>1. \A i \in 1..m : Pipe(i)'.gen <= native'.gen
    BY <1>3, <1>7, PipeTypes DEF Piece, PipeInOrder
  <2> QED BY <1>1, <1>2, <1>6, <1>8, <1>9, <2>1
<1>12. Begins' /\ WaitsOfNow'
  <2>1. \A i \in 1..PipeLen' : Pipe(i)'.gen # native'.gen
    <3>1. \A i \in 1..m : Pipe(i).gen \in Nat /\ Pipe(i)' = Pipe(i) /\ Pipe(i).gen <= native.gen
      BY <1>7, PipeTypes DEF Piece, PipeInOrder
    <3> QED BY <1>3, <1>6, <3>1
  <2> QED BY <1>3, <1>5, <2>1 DEF Begins, WaitsOfNow
<1> QED BY <1>3, <1>10, <1>11, <1>12 DEF PipeInOrder, Follows

\* A note that is not at its end gives a piece that ends where it may.
LEMMA ReadEndsWell ==
  ASSUME FileTypes(native), native.note # NoNote, NEW to \in Readable,
         Read(to).to # Read(to).from,
         NEW f, f.finished = Read(to).finished, f.failed = Failure(to)
  PROVE  EndsWell(Read(to), f)
<1> DEFINE T == Total[native.note]
           p == native.pos
<1>1. T \in Nat /\ p \in Nat /\ p <= T /\ Capacity \in Nat /\ Capacity > 0
  BY Constants DEF FileTypes, File
<1>2. Read(to).note = native.note /\ Read(to).from = p /\ Read(to).to = to /\ to # p /\ to \in Nat
  BY ReadTypes
<1>3. ~native.finished /\ to \in p..Least(p + Capacity, T)
  BY <1>2 DEF Readable
<1>4. Read(to).finished => Short(to - p) \/ p + SampleBytes * (to - p) = T
  BY <1>3 DEF Read
<1>5. CASE to # Least(p + Capacity, T)
  <2>1. f.failed = "inside"
    BY <1>2, <1>3, <1>5 DEF Failure
  <2>2. Short(to - p)
    BY <1>1, <1>2, <1>3, <1>5 DEF Least, Short
  <2> QED BY <1>2, <2>1, <2>2 DEF EndsWell
<1>6. CASE to = p + Capacity /\ p + Capacity < T
  <2>1. Read(to).finished => T - p = 2 * Capacity
    BY <1>1, <1>4, <1>6 DEF Short, SampleBytes
  <2>2. (2 * Capacity) % Capacity = 0
    BY <1>1
  <2>3. Read(to).finished => to = T - Capacity
    BY <1>1, <1>6, <2>1
  <2>4. Read(to).finished => (T - p) % Capacity = 0
    BY <2>1, <2>2, Zenon
  <2> QED BY <1>2, <2>3, <2>4 DEF EndsWell
<1>7. CASE to = T
  BY <1>2, <1>7 DEF EndsWell
<1> QED BY <1>1, <1>5, <1>6, <1>7 DEF Least

\* What is read goes behind the last piece.
LEMMA PipeDecodePut ==
  ASSUME Types, OnePlace, PipeInOrder, playing # NoNote, native.note = playing,
         NEW to \in Readable, Put(to)
  PROVE  PipeInOrder' /\ native'.note = playing
<1> DEFINE b == decoding.b
<1>1. /\ UNCHANGED <<heard, writing, playing, decodeQ>>
      /\ buf' = [buf EXCEPT ![b] = Read(to)]
      /\ decoding.at = "put" /\ b \in Buffer
  BY DEF Put, uiVars, ghosts, Types, BufferTypes
<1>2. FileTypes(native) /\ native \in File
  BY DEF Types, AudioTypes, FileTypes, File, Note, NoNote
<1>3. /\ native'.note = playing /\ native'.gen = native.gen /\ native'.from = native.from
      /\ native'.pos = Read(to).to /\ native.gen \in Nat
      /\ native'.finished = Read(to).finished /\ native'.failed = Failure(to)
  BY <1>2, FileRead, ReadTypes DEF File
<1>4. /\ Read(to) \in Piece /\ Read(to).note = playing /\ Read(to).gen = native.gen /\ Read(to).from = native.pos
  BY <1>2, ReadTypes
<1>11. /\ native.finished => native'.finished /\ native'.failed = native.failed
       /\ SeekAwaited => SeekAwaited'
  <2>1. native.finished => Read(to).finished /\ Failure(to) = native.failed
    BY DEF Read, Failure
  <2> QED BY <1>1, <1>3, <2>1 DEF SeekAwaited
<1>5. /\ \A i \in 1..Len(used) : used[i] # b /\ used[i] \in Buffer
      /\ writing.at = "write" => writing.b # b /\ writing.b \in Buffer
  BY <1>1 DEF OnePlace, Held, Listed, Types, BufferTypes
<1>6. buf \in [Buffer -> Piece] /\ buf'[b] = Read(to) /\ \A c \in Buffer : c # b => buf'[c] = buf[c]
  BY <1>1 DEF Types, AudioTypes
<1>7. /\ Len(heard) \in Nat /\ Len(used) \in Nat /\ InHand \in {0, 1} /\ PipeLen \in Nat
      /\ PipeLen = Len(heard) + InHand + Len(used) /\ used \in Seq(Buffer)
  BY PipeTypes DEF PipeLen, Types, BufferTypes
<1>8. InHand' = InHand /\ Len(heard') = Len(heard) /\ (InHand = 1 => writing.at = "write")
  BY <1>1 DEF InHand
<1>9. CASE Read(to).to = Read(to).from
  <2>1. used' = used /\ Len(used') = Len(used)
    BY <1>9 DEF Put
  <2>2. PipeLen' = PipeLen
    BY <1>7, <1>8, <2>1 DEF PipeLen
  <2>3. ASSUME NEW i \in 1..PipeLen PROVE Pipe(i)' = Pipe(i)
    <3>1. CASE i <= Len(heard)
      BY <1>1, <1>8, <3>1 DEF Pipe
    <3>2. CASE ~(i <= Len(heard)) /\ i <= Len(heard) + InHand
      <4>1. writing.at = "write" /\ Pipe(i) = buf[writing.b]
        BY <1>7, <1>8, <3>2 DEF Pipe
      <4>2. Pipe(i)' = buf'[writing.b]
        BY <1>1, <1>7, <1>8, <3>2 DEF Pipe
      <4> QED BY <1>5, <1>6, <4>1, <4>2
    <3>3. CASE ~(i <= Len(heard) + InHand)
      <4>1. i - Len(heard) - InHand \in 1..Len(used)
        BY <1>7, <3>3
      <4>2. Pipe(i) = buf[used[i - Len(heard) - InHand]]
        BY <1>7, <3>3 DEF Pipe
      <4>3. Pipe(i)' = buf'[used[i - Len(heard) - InHand]]
        BY <1>7, <1>8, <2>1, <3>3 DEF Pipe
      <4> QED BY <1>5, <1>6, <4>1, <4>2, <4>3
    <3> QED BY <1>7, <3>1, <3>2, <3>3
  <2>4. native'.pos = native.pos
    BY <1>3, <1>4, <1>9
  <2>5. WaitsOfNow'
    BY <1>3, <1>5, <1>6, <2>1 DEF PipeInOrder, WaitsOfNow
  <2> QED BY <1>1, <1>3, <1>11, <2>2, <2>3, <2>4, <2>5, PipeKept
<1>10. CASE Read(to).to # Read(to).from
  <2>1. used' = Append(used, b)
    BY <1>10 DEF Put
  <2>2. /\ Len(used') = Len(used) + 1 /\ used'[Len(used) + 1] = b
        /\ \A i \in 1..Len(used) : used'[i] = used[i]
    BY <1>1, <1>7, <2>1, Posted
  <2>3. PipeLen' = PipeLen + 1
    BY <1>7, <1>8, <2>2 DEF PipeLen
  <2>4. ASSUME NEW i \in 1..PipeLen PROVE Pipe(i)' = Pipe(i)
    <3>1. CASE i <= Len(heard)
      BY <1>1, <1>8, <3>1 DEF Pipe
    <3>2. CASE ~(i <= Len(heard)) /\ i <= Len(heard) + InHand
      <4>1. writing.at = "write" /\ Pipe(i) = buf[writing.b]
        BY <1>7, <1>8, <3>2 DEF Pipe
      <4>2. Pipe(i)' = buf'[writing.b]
        BY <1>1, <1>7, <1>8, <3>2 DEF Pipe
      <4> QED BY <1>5, <1>6, <4>1, <4>2
    <3>3. CASE ~(i <= Len(heard) + InHand)
      <4>1. i - Len(heard) - InHand \in 1..Len(used)
        BY <1>7, <3>3
      <4>2. Pipe(i) = buf[used[i - Len(heard) - InHand]]
        BY <1>7, <3>3 DEF Pipe
      <4>3. Pipe(i)' = buf'[used'[i - Len(heard) - InHand]]
        BY <1>7, <1>8, <3>3 DEF Pipe
      <4> QED BY <1>5, <1>6, <2>2, <4>1, <4>2, <4>3
    <3> QED BY <1>7, <3>1, <3>2, <3>3
  <2>5. ASSUME NEW k, k = PipeLen + 1 PROVE Pipe(k)' = Read(to)
    <3>1. ~(k <= Len(heard)) /\ ~(k <= Len(heard) + InHand)
          /\ k - Len(heard) - InHand = Len(used) + 1
      BY <1>7, <2>5
    <3>2. Pipe(k)' = buf'[used'[k - Len(heard) - InHand]]
      BY <1>8, <3>1 DEF Pipe
    <3> QED BY <1>6, <2>2, <3>1, <3>2
  <2>6. EndsWell(Read(to), native')
    BY <1>2, <1>3, <1>10, ReadEndsWell
  <2>7. \A i \in 1..PipeLen' : i \in 1..PipeLen \/ i = PipeLen + 1
    BY <1>7, <2>3
  <2>8. ASSUME NEW i \in 1..PipeLen'
        PROVE  /\ Pipe(i)'.note = playing /\ Pipe(i)'.gen <= native.gen
               /\ EndsWell(Pipe(i)', native')
    <3>1. CASE i \in 1..PipeLen
      BY <1>11, <2>4, <3>1 DEF PipeInOrder, EndsWell
    <3>2. CASE i = PipeLen + 1
      BY <1>3, <1>4, <2>5, <2>6, <3>2
    <3> QED BY <2>7, <3>1, <3>2
  <2>9. ASSUME NEW i \in 2..PipeLen'
        PROVE  Follows(Pipe(i - 1)', Pipe(i)')
    <3>1. i - 1 \in 1..PipeLen /\ Pipe(i - 1)' = Pipe(i - 1)
      BY <1>7, <2>3, <2>4
    <3>2. CASE i \in 1..PipeLen
      BY <1>7, <2>4, <3>1, <3>2 DEF PipeInOrder
    <3>3. CASE i = PipeLen + 1
      <4>1. i - 1 = PipeLen /\ PipeLen > 0 /\ Pipe(i)' = Read(to)
        BY <1>7, <2>5, <3>1, <3>3
      <4>2. Pipe(PipeLen).gen <= native.gen
            /\ (Pipe(PipeLen).gen = native.gen => Pipe(PipeLen).to = native.pos)
        BY <3>1, <4>1 DEF PipeInOrder
      <4> QED BY <1>4, <3>1, <4>1, <4>2 DEF Follows
    <3> QED BY <1>7, <2>3, <3>2, <3>3
  <2>10. Pipe(PipeLen)'.to = native'.pos
    <3>1. PICK k : k = PipeLen + 1
      OBVIOUS
    <3>2. Pipe(PipeLen)' = Pipe(k)'
      BY <2>3, <3>1 DEF Pipe
    <3> QED BY <1>3, <2>5, <3>1, <3>2
  <2>11. ASSUME Begins PROVE Begins'
    <3>1. ASSUME NEW i \in 1..PipeLen', Pipe(i)'.gen = native.gen,
                 i = 1 \/ Pipe(i - 1)'.gen < native.gen
          PROVE  Pipe(i)'.from = native.from
      <4>1. i = 1 \/ (i - 1 \in 1..PipeLen /\ Pipe(i - 1)' = Pipe(i - 1))
        BY <1>7, <2>3, <2>4
      <4>2. CASE i \in 1..PipeLen
        BY <2>4, <2>11, <3>1, <4>1, <4>2 DEF Begins
      <4>3. CASE i = PipeLen + 1
        <5>1. PipeLen = 0 \/ Pipe(PipeLen).gen < native.gen
          BY <1>7, <3>1, <4>1, <4>3
        <5>2. native.pos = native.from
          BY <2>11, <5>1 DEF Begins
        <5> QED BY <1>4, <2>5, <4>3, <5>2
      <4> QED BY <2>7, <4>2, <4>3
    <3>2. PipeLen' # 0 /\ ~(Pipe(PipeLen)'.gen < native.gen)
      <4>1. PICK k : k = PipeLen + 1
        OBVIOUS
      <4>2. Pipe(PipeLen)' = Pipe(k)' /\ Pipe(k)' = Read(to)
        BY <2>3, <2>5, <4>1 DEF Pipe
      <4> QED BY <1>3, <1>4, <1>7, <2>3, <4>2
    <3> QED BY <1>3, <3>1, <3>2 DEF Begins
  <2>12. Begins' \/ SeekAwaited'
    BY <1>11, <2>11 DEF PipeInOrder
  <2>13. WaitsOfNow'
    <3>1. ASSUME NEW j \in 1..Len(used') PROVE buf'[used'[j]].gen = native.gen
      <4>1. CASE j \in 1..Len(used)
        BY <1>5, <1>6, <2>2, <4>1 DEF PipeInOrder, WaitsOfNow
      <4>2. CASE j = Len(used) + 1
        BY <1>4, <1>6, <2>2, <4>2
      <4> QED BY <1>7, <2>2, <4>1, <4>2
    <3> QED BY <1>3, <3>1 DEF WaitsOfNow
  <2> QED BY <1>1, <1>3, <2>8, <2>9, <2>10, <2>12, <2>13 DEF PipeInOrder, Follows
<1> QED BY <1>9, <1>10

-----------------------------------------------------------------------------
(* What is heard is in order: a playing from its beginning.                *)

HeardOfNote == playing = NoNote => heard = <<>>

LEMMA HeardOfNoteStep ==
  ASSUME Types, HeardOfNote, [Next]_vars
  PROVE  HeardOfNote'
<1> DEFINE G == HeardOfNote'
<1>1. ViewTypes
  BY DEF Types
<1>2. ASSUME NEW n \in Note, PlayNote(n) PROVE G
  BY <1>2, <1>1 DEF PlayNote, HeardOfNote, CleanUp, ViewTypes, vars, uiVars, lists, ghosts, counters
<1>3. ASSUME NEW pos \in 0..(Total[playing] - 1), playing # NoNote, Seek(pos) PROVE G
  BY <1>3, <1>1 DEF Seek, HeardOfNote, CleanUp, ViewTypes, vars, uiVars, lists, ghosts, counters
<1>4. CASE Pause
  BY <1>4, <1>1 DEF Pause, HeardOfNote, CleanUp, ViewTypes, vars, uiVars, lists, ghosts, counters
<1>5. CASE Resume
  BY <1>5, <1>1 DEF Resume, HeardOfNote, CleanUp, ViewTypes, vars, uiVars, lists, ghosts, counters
<1>6. CASE Stop
  BY <1>6, <1>1 DEF Stop, HeardOfNote, CleanUp, ViewTypes, vars, uiVars, lists, ghosts, counters
<1>7. CASE ProgressTimer
  BY <1>7, <1>1 DEF ProgressTimer, HeardOfNote, CleanUp, ViewTypes, vars, uiVars, lists, ghosts, counters
<1>8. CASE PlayOpened
  BY <1>8, <1>1 DEF PlayOpened, HeardOfNote, CleanUp, ViewTypes, vars, uiVars, lists, ghosts, counters
<1>9. CASE SeekDone
  BY <1>9, <1>1 DEF SeekDone, HeardOfNote, CleanUp, ViewTypes, vars, uiVars, lists, ghosts, counters
<1>10. CASE SetMarker
  BY <1>10, <1>1 DEF SetMarker, HeardOfNote, CleanUp, ViewTypes, vars, uiVars, lists, ghosts, counters
<1>11. CASE MarkerReached
  BY <1>11, <1>1 DEF MarkerReached, HeardOfNote, CleanUp, ViewTypes, vars, uiVars, lists, ghosts, counters
<1>12. CASE Open
  BY <1>12, <1>1 DEF Open, HeardOfNote, CleanUp, ViewTypes, vars, uiVars, lists, ghosts, counters
<1>13. CASE Begin
  BY <1>13, <1>1 DEF Begin, HeardOfNote, CleanUp, ViewTypes, vars, uiVars, lists, ghosts, counters
<1>14. CASE SeekFile
  BY <1>14, <1>1 DEF SeekFile, HeardOfNote, CleanUp, ViewTypes, vars, uiVars, lists, ghosts, counters
<1>15. CASE DecodeNothing
  BY <1>15, <1>1 DEF DecodeNothing, HeardOfNote, CleanUp, ViewTypes, vars, uiVars, lists, ghosts, counters
<1>16. CASE DecodeBegin
  BY <1>16, <1>1 DEF DecodeBegin, HeardOfNote, CleanUp, ViewTypes, vars, uiVars, lists, ghosts, counters
<1>17. CASE DecodeTake
  BY <1>17, <1>1 DEF DecodeTake, HeardOfNote, CleanUp, ViewTypes, vars, uiVars, lists, ghosts, counters
<1>18. ASSUME NEW to \in Readable, Put(to) PROVE G
  BY <1>18, <1>1 DEF Put, HeardOfNote, CleanUp, ViewTypes, vars, uiVars, lists, ghosts, counters
<1>19. CASE PlayCheck
  BY <1>19, <1>1 DEF PlayCheck, HeardOfNote, CleanUp, ViewTypes, vars, uiVars, lists, ghosts, counters
<1>20. CASE PlayTake
  BY <1>20, <1>1 DEF PlayTake, HeardOfNote, CleanUp, ViewTypes, vars, uiVars, lists, ghosts, counters
<1>21. CASE PlayWrite
  BY <1>21, <1>1 DEF PlayWrite, HeardOfNote, CleanUp, ViewTypes, vars, uiVars, lists, ghosts, counters
<1>22. CASE PlayFree
  BY <1>22, <1>1 DEF PlayFree, HeardOfNote, CleanUp, ViewTypes, vars, uiVars, lists, ghosts, counters
<1>23. CASE UNCHANGED vars
  BY <1>23, <1>1 DEF HeardOfNote, CleanUp, ViewTypes, vars, uiVars, lists, ghosts, counters
<1> QED
  BY <1>2, <1>3, <1>4, <1>5, <1>6, <1>7, <1>8, <1>9, <1>10, <1>11, <1>12, <1>13, <1>14, <1>15, <1>16, <1>17, <1>18, <1>19, <1>20, <1>21, <1>22, <1>23 DEF Next, UiTask, DecodingQueue, DecodePut, PlayerQueue


\* A playing begins well when both queues have nothing to do.
LEMMA PlayBegins ==
  ASSUME Types, NEW n \in Note, PlayNote(n), clean'
  PROVE  Opening'
<1>1. Quiet /\ decodeQ' = Append(decodeQ, [is |-> "open"]) /\ opening' = n
      /\ UNCHANGED <<playQ, uiQ, decoding, writing>>
  BY DEF PlayNote
<1>2. decodeQ' = <<[is |-> "open"]>>
  BY <1>1 DEF Quiet
<1>3. n # NoNote
  BY DEF Note, NoNote
<1> QED BY <1>1, <1>2, <1>3 DEF Opening, Quiet, Resting, Idle

LEMMA OpeningStep ==
  ASSUME Types, HeardOfNote, Opening, [Next]_vars
  PROVE  Opening' \/ Starting'
<1> DEFINE G == Opening' \/ Starting'
<1>1. /\ opening # NoNote /\ playing = NoNote /\ heard = <<>>
      /\ playQ = <<>> /\ decoding = Idle /\ writing = Idle
  BY DEF Opening, Resting, HeardOfNote, Types, ViewTypes
<1>2. \/ decodeQ = <<[is |-> "open"]>> /\ uiQ = <<>>
      \/ /\ decodeQ = <<>> /\ uiQ = <<[is |-> "opened"]>>
         /\ native.note = opening /\ native.pos = native.from
  BY DEF Opening
<1>3. /\ decodeQ # <<>> => decodeQ[1].is = "open" /\ Tail(decodeQ) = <<>> /\ uiQ = <<>>
      /\ uiQ # <<>> => uiQ[1].is = "opened" /\ Tail(uiQ) = <<>> /\ decodeQ = <<>>
  <2>1. CASE decodeQ = <<[is |-> "open"]>> /\ uiQ = <<>>
    BY <2>1
  <2>2. CASE decodeQ = <<>> /\ uiQ = <<[is |-> "opened"]>>
    BY <2>2
  <2> QED BY <1>2, <2>1, <2>2
<1>4. Idle.at = "idle"
  BY DEF Idle
<1>5. ASSUME NEW n \in Note, PlayNote(n) PROVE G
  BY <1>5, <1>1, <1>3, <1>4 DEF PlayNote, DecodeTaskIs
<1>6. ASSUME NEW pos \in 0..(Total[playing] - 1), playing # NoNote, Seek(pos) PROVE G
  BY <1>6, <1>1, <1>3, <1>4 DEF Seek, DecodeTaskIs
<1>7. CASE Pause
  BY <1>7, <1>1, <1>3, <1>4 DEF Pause, DecodeTaskIs
<1>8. CASE Resume
  BY <1>8, <1>1, <1>3, <1>4 DEF Resume, DecodeTaskIs
<1>9. CASE Stop
  BY <1>9, <1>1, <1>3, <1>4 DEF Stop, DecodeTaskIs
<1>10. CASE ProgressTimer
  BY <1>10, <1>1, <1>3, <1>4 DEF ProgressTimer, DecodeTaskIs
<1>11. CASE PlayOpened
  <2>1. /\ decodeQ = <<>> /\ native.note = opening /\ native.pos = native.from
        /\ uiQ' = <<>> /\ decodeQ' = <<[is |-> "start"]>>
    BY <1>11, <1>2, <1>3 DEF PlayOpened
  <2>2. /\ opening' = NoNote /\ playing' = opening
        /\ UNCHANGED <<playQ, decoding, writing, native, heard>>
    BY <1>11 DEF PlayOpened
  <2>3. Len(decodeQ') = 1 /\ decodeQ'[1] = [is |-> "start"]
    BY <2>1
  <2>4. SeeksInside'
    BY <2>3 DEF SeeksInside
  <2> QED BY <1>1, <2>1, <2>2, <2>3, <2>4 DEF Starting, Resting, Idle
<1>12. CASE SeekDone
  BY <1>12, <1>1, <1>3, <1>4 DEF SeekDone, DecodeTaskIs
<1>13. CASE SetMarker
  BY <1>13, <1>1, <1>3, <1>4 DEF SetMarker, DecodeTaskIs
<1>14. CASE MarkerReached
  BY <1>14, <1>1, <1>3, <1>4 DEF MarkerReached, DecodeTaskIs
<1>15. CASE Open
  <2>1. decodeQ' = <<>> /\ uiQ' = <<[is |-> "opened"]>>
    BY <1>15, <1>3 DEF Open, DecodeTaskIs
  <2>2. native'.note = opening /\ native'.pos = native'.from
    BY <1>15 DEF Open, Opened
  <2>3. UNCHANGED <<opening, playQ, decoding, writing>>
    BY <1>15 DEF Open, uiVars
  <2> QED BY <1>1, <2>1, <2>2, <2>3 DEF Opening, Resting, Idle
<1>16. CASE Begin
  BY <1>16, <1>1, <1>3, <1>4 DEF Begin, DecodeTaskIs
<1>17. CASE SeekFile
  BY <1>17, <1>1, <1>3, <1>4 DEF SeekFile, DecodeTaskIs
<1>18. CASE DecodeNothing
  BY <1>18, <1>1, <1>3, <1>4 DEF DecodeNothing, DecodeTaskIs
<1>19. CASE DecodeBegin
  BY <1>19, <1>1, <1>3, <1>4 DEF DecodeBegin, DecodeTaskIs
<1>20. CASE DecodeTake
  BY <1>20, <1>1, <1>3, <1>4 DEF DecodeTake, DecodeTaskIs
<1>21. ASSUME NEW to \in Readable, Put(to) PROVE G
  BY <1>21, <1>1, <1>3, <1>4 DEF Put, DecodeTaskIs
<1>22. CASE PlayCheck
  BY <1>22, <1>1, <1>3, <1>4 DEF PlayCheck, DecodeTaskIs
<1>23. CASE PlayTake
  BY <1>23, <1>1, <1>3, <1>4 DEF PlayTake, DecodeTaskIs
<1>24. CASE PlayWrite
  BY <1>24, <1>1, <1>3, <1>4 DEF PlayWrite, DecodeTaskIs
<1>25. CASE PlayFree
  BY <1>25, <1>1, <1>3, <1>4 DEF PlayFree, DecodeTaskIs
<1>26. CASE UNCHANGED vars
  BY <1>26 DEF Opening, Resting, Idle, vars, uiVars
<1> QED
  BY <1>5, <1>6, <1>7, <1>8, <1>9, <1>10, <1>11, <1>12, <1>13, <1>14, <1>15, <1>16, <1>17, <1>18, <1>19, <1>20, <1>21, <1>22, <1>23, <1>24, <1>25, <1>26 DEF Next, UiTask, DecodingQueue, DecodePut, PlayerQueue


\* Nothing reads or hears before the decoding queue has begun, unless the
\* user resumes it: then it does not count as a playing that began well.
LEMMA StartingStep ==
  ASSUME Types, HeardOfNote, Starting, clean', [Next]_vars
  PROVE  Starting' \/ Running'
<1> DEFINE G == Starting' \/ Running'
<1>1. /\ opening = NoNote /\ playQ = <<>> /\ uiQ = <<>> /\ decoding = Idle /\ writing = Idle
      /\ decodeQ # <<>> /\ decodeQ[1].is = "start"
      /\ \A i \in 2..Len(decodeQ) : decodeQ[i].is = "seek"
      /\ heard = <<>>
      /\ playing # NoNote =>
           native.note = playing /\ native.pos = native.from /\ SeeksInside
  BY DEF Starting, Resting
<1>2. Idle.at = "idle"
  BY DEF Idle
<1>3. decodeQ \in Seq(DecodeTask) /\ Len(decodeQ) \in Nat /\ Len(decodeQ) > 0
  <2>1. decodeQ \in Seq(DecodeTask)
    BY DEF Types, QueueTypes
  <2> QED BY <1>1, <2>1, Taken
<1>4. ASSUME UNCHANGED <<opening, playQ, uiQ, decoding, writing, decodeQ, heard>>,
             playing' = NoNote \/ UNCHANGED <<playing, native>>
      PROVE  G
  BY <1>1, <1>4 DEF Starting, Resting, Idle, SeeksInside
<1>5. ASSUME NEW n \in Note, PlayNote(n) PROVE G
  BY <1>5, <1>1 DEF PlayNote, Quiet
<1>6. ASSUME NEW pos \in 0..(Total[playing] - 1), playing # NoNote, Seek(pos) PROVE G
  <2>1. /\ decodeQ' = Append(decodeQ, [is |-> "seek", pos |-> pos])
        /\ heard' = <<>>
        /\ UNCHANGED <<opening, playQ, uiQ, decoding, writing, playing, native>>
    BY <1>6 DEF Seek
  <2>2. [is |-> "seek", pos |-> pos] \in DecodeTask
    <3>1. pos \in Nat
      BY <1>6, Constants DEF Types, ViewTypes, Note, NoNote
    <3> QED BY <3>1 DEF DecodeTask
  <2>3. /\ Len(decodeQ') = Len(decodeQ) + 1
        /\ \A i \in 1..Len(decodeQ) : decodeQ'[i] = decodeQ[i]
        /\ decodeQ'[Len(decodeQ) + 1] = [is |-> "seek", pos |-> pos]
    BY <1>3, <2>1, <2>2, Posted
  <2>4. \A i \in 1..Len(decodeQ') : i \in 1..Len(decodeQ) \/ i = Len(decodeQ) + 1
    BY <1>3, <2>3
  <2>5. \A i \in 2..Len(decodeQ') : decodeQ'[i].is = "seek"
    <3>1. \A i \in 2..Len(decodeQ') : i \in 2..Len(decodeQ) \/ i = Len(decodeQ) + 1
      BY <1>3, <2>3
    <3>2. \A i \in 2..Len(decodeQ) : i \in 1..Len(decodeQ)
      BY <1>3
    <3> QED BY <1>1, <2>3, <3>1, <3>2
  <2>6. decodeQ' # <<>> /\ decodeQ'[1].is = "start"
    BY <1>1, <1>3, <2>3
  <2>7. SeeksInside'
    <3>1. pos < Total[playing] /\ playing # NoNote
      BY <1>6, Constants DEF Types, ViewTypes, Note, NoNote
    <3>2. SeeksInside
      BY <1>1, <3>1
    <3>3. ASSUME NEW i \in 1..Len(decodeQ'), decodeQ'[i].is = "seek"
          PROVE  decodeQ'[i].pos < Total[playing']
      BY <2>1, <2>3, <2>4, <3>1, <3>2, <3>3 DEF SeeksInside
    <3> QED BY <2>1, <3>3 DEF SeeksInside
  <2> QED BY <1>1, <2>1, <2>5, <2>6, <2>7 DEF Starting, Resting, Idle
<1>7. CASE Pause
  BY <1>7, <1>4 DEF Pause, ghosts
<1>8. CASE Resume
  <2>1. ~(\A i \in 1..Len(decodeQ) : decodeQ[i].is # "start")
    BY <1>1, <1>3
  <2>2. clean' => \A i \in 1..Len(decodeQ) : decodeQ[i].is # "start"
    BY <1>8, Zenon DEF Resume
  <2> QED BY <2>1, <2>2
<1>9. CASE Stop
  BY <1>9, <1>1, <1>4 DEF Stop, CleanUp
<1>10. CASE ProgressTimer
  BY <1>10, <1>1 DEF ProgressTimer
<1>11. CASE PlayOpened
  BY <1>11, <1>1, <1>2 DEF PlayOpened, DecodeTaskIs
<1>12. CASE SeekDone
  BY <1>12, <1>1, <1>2 DEF SeekDone, DecodeTaskIs
<1>13. CASE SetMarker
  BY <1>13, <1>1, <1>2 DEF SetMarker, DecodeTaskIs
<1>14. CASE MarkerReached
  BY <1>14, <1>1, <1>4 DEF MarkerReached, CleanUp
<1>15. CASE Open
  BY <1>15, <1>1, <1>2 DEF Open, DecodeTaskIs
<1>16. CASE Begin
  <2>1. /\ native' = IF playing # NoNote /\ progress[playing] # 0
                       THEN Sought(progress[playing]) ELSE native
        /\ used' = <<>> /\ decodeQ' = Tail(decodeQ)
        /\ UNCHANGED <<opening, playing, uiQ, writing, heard>>
    BY <1>16 DEF Begin, FreeAll, uiVars, ghosts
  <2>2. /\ Len(decodeQ') = Len(decodeQ) - 1
        /\ \A i \in 1..(Len(decodeQ) - 1) : decodeQ'[i] = decodeQ[i + 1]
    BY <1>1, <1>3, <2>1, Taken
  <2>3. \A i \in 1..Len(decodeQ') : i + 1 \in 2..Len(decodeQ) /\ i + 1 \in 1..Len(decodeQ)
    BY <1>3, <2>2
  <2>4. \A i \in 1..Len(decodeQ') : decodeQ'[i].is = "seek"
    BY <1>1, <2>2, <2>3
  <2>5. ASSUME playing # NoNote
        PROVE  native'.note = playing /\ native'.pos = native'.from
    <3>1. FileTypes(native) /\ progress[playing] \in Nat
      BY <2>5 DEF Types, ViewTypes, AudioTypes, FileTypes, File, Note, NoNote
    <3> QED BY <1>1, <2>1, <2>5, <3>1, SeekTypes
  <2>6. ASSUME playing # NoNote
        PROVE  SeeksInside'
    BY <1>1, <2>1, <2>2, <2>3, <2>6 DEF SeeksInside
  <2>7. PipeLen' = 0
    <3>1. InHand' = 0 /\ Len(heard') = 0 /\ Len(used') = 0
      BY <1>1, <2>1 DEF InHand, Idle
    <3> QED BY <3>1 DEF PipeLen
  <2>8. ASSUME playing # NoNote
        PROVE  PipeInOrder'
    <3>1. Len(used') = 0
      BY <2>1
    <3> QED BY <2>5, <2>7, <2>8, <3>1 DEF PipeInOrder, Begins, WaitsOfNow
  <2>9. Running'
    BY <1>1, <2>1, <2>4, <2>5, <2>6, <2>8 DEF Running
  <2> QED BY <2>9
<1>17. CASE SeekFile
  BY <1>17, <1>1, <1>2 DEF SeekFile, DecodeTaskIs
<1>18. CASE DecodeNothing
  BY <1>18, <1>1, <1>2 DEF DecodeNothing, DecodeTaskIs
<1>19. CASE DecodeBegin
  BY <1>19, <1>1, <1>2 DEF DecodeBegin, DecodeTaskIs
<1>20. CASE DecodeTake
  BY <1>20, <1>1, <1>2 DEF DecodeTake, DecodeTaskIs
<1>21. ASSUME NEW to \in Readable, Put(to) PROVE G
  BY <1>21, <1>1, <1>2 DEF Put, DecodeTaskIs
<1>22. CASE PlayCheck
  BY <1>22, <1>1, <1>2 DEF PlayCheck, DecodeTaskIs
<1>23. CASE PlayTake
  BY <1>23, <1>1, <1>2 DEF PlayTake, DecodeTaskIs
<1>24. CASE PlayWrite
  BY <1>24, <1>1, <1>2 DEF PlayWrite, DecodeTaskIs
<1>25. CASE PlayFree
  BY <1>25, <1>1, <1>2 DEF PlayFree, DecodeTaskIs
<1>26. CASE UNCHANGED vars
  BY <1>26, <1>4 DEF vars, uiVars, ghosts
<1> QED
  BY <1>5, <1>6, <1>7, <1>8, <1>9, <1>10, <1>11, <1>12, <1>13, <1>14, <1>15, <1>16, <1>17, <1>18, <1>19, <1>20, <1>21, <1>22, <1>23, <1>24, <1>25, <1>26 DEF Next, UiTask, DecodingQueue, DecodePut, PlayerQueue


\* The tasks of a playing that has begun.
Awaits(q) == \E i \in 1..Len(q) : q[i].is = "seek"
Ordinary(q) == \A i \in 1..Len(q) : q[i].is \in {"decode", "seek"}
Inside(q) ==
  \A i \in 1..Len(q) : q[i].is = "seek" => q[i].pos < Total[playing]

LEMMA OrdinaryPosted ==
  ASSUME NEW q \in Seq(DecodeTask), Ordinary(q)
  PROVE  /\ Ordinary(Append(q, Decode))
         /\ \A pos \in Nat : Ordinary(Append(q, [is |-> "seek", pos |-> pos]))
         /\ q # <<>> => Ordinary(Tail(q))
         /\ Inside(q) => Inside(Append(q, Decode)) /\ (q # <<>> => Inside(Tail(q)))
         /\ Awaits(q) => Awaits(Append(q, Decode))
         /\ q # <<>> /\ q[1].is # "seek" /\ Awaits(q) => Awaits(Tail(q))
<1>1. Decode \in DecodeTask /\ Decode.is = "decode" /\ Len(q) \in Nat
  BY DEF Decode, DecodeTask
<1>2. \A i \in 1..(Len(q) + 1) : i \in 1..Len(q) \/ i = Len(q) + 1
  BY <1>1
<1>3. /\ Len(Append(q, Decode)) = Len(q) + 1
      /\ \A i \in 1..Len(q) : Append(q, Decode)[i] = q[i]
      /\ Append(q, Decode)[Len(q) + 1] = Decode
  BY <1>1, Posted
<1>4. /\ Ordinary(Append(q, Decode)) /\ (Inside(q) => Inside(Append(q, Decode)))
      /\ Awaits(q) => Awaits(Append(q, Decode))
  BY <1>1, <1>2, <1>3 DEF Ordinary, Inside, Awaits
<1>5. ASSUME NEW pos \in Nat PROVE Ordinary(Append(q, [is |-> "seek", pos |-> pos]))
  <2> DEFINE e == [is |-> "seek", pos |-> pos]
  <2>1. e \in DecodeTask /\ e.is = "seek"
    BY DEF DecodeTask
  <2> HIDE DEF e
  <2>2. /\ Len(Append(q, e)) = Len(q) + 1
        /\ \A i \in 1..Len(q) : Append(q, e)[i] = q[i]
        /\ Append(q, e)[Len(q) + 1] = e
    BY <2>1, Posted
  <2>3. Ordinary(Append(q, e))
    BY <1>2, <2>1, <2>2 DEF Ordinary
  <2> QED BY <2>3 DEF e
<1>6. ASSUME q # <<>> PROVE Ordinary(Tail(q)) /\ (Inside(q) => Inside(Tail(q)))
  <2>1. /\ Len(Tail(q)) = Len(q) - 1
        /\ \A i \in 1..(Len(q) - 1) : Tail(q)[i] = q[i + 1] /\ i + 1 \in 1..Len(q)
    BY <1>1, <1>6, Taken
  <2> QED BY <2>1 DEF Ordinary, Inside
<1>7. ASSUME q # <<>>, q[1].is # "seek", Awaits(q) PROVE Awaits(Tail(q))
  <2>1. PICK i \in 1..Len(q) : q[i].is = "seek"
    BY <1>7 DEF Awaits
  <2>2. i - 1 \in 1..(Len(q) - 1) /\ (i - 1) + 1 = i
    BY <1>1, <1>7, <2>1
  <2>3. Len(Tail(q)) = Len(q) - 1 /\ Tail(q)[i - 1] = q[i]
    BY <1>7, <2>2, Taken
  <2> QED BY <2>1, <2>2, <2>3 DEF Awaits
<1> QED BY <1>4, <1>5, <1>6, <1>7

NotOpened(q) == \A i \in 1..Len(q) : q[i].is # "opened"

LEMMA NotOpenedPosted ==
  ASSUME NEW q \in Seq(ViewTask), NotOpened(q)
  PROVE  /\ NotOpened(Append(q, [is |-> "seekDone"])) /\ NotOpened(Append(q, [is |-> "marker"]))
         /\ q # <<>> => NotOpened(Tail(q)) /\ q[1].is # "opened"
<1>1. Len(q) \in Nat /\ \A i \in 1..(Len(q) + 1) : i \in 1..Len(q) \/ i = Len(q) + 1
  OBVIOUS
<1>2. ASSUME NEW e \in ViewTask, e.is # "opened" PROVE NotOpened(Append(q, e))
  <2>1. /\ Len(Append(q, e)) = Len(q) + 1
        /\ \A i \in 1..Len(q) : Append(q, e)[i] = q[i]
        /\ Append(q, e)[Len(q) + 1] = e
    BY Posted
  <2> QED BY <1>1, <1>2, <2>1 DEF NotOpened
<1>3. ASSUME q # <<>> PROVE NotOpened(Tail(q)) /\ q[1].is # "opened"
  <2>1. /\ Len(Tail(q)) = Len(q) - 1 /\ 1 \in 1..Len(q)
        /\ \A i \in 1..(Len(q) - 1) : Tail(q)[i] = q[i + 1] /\ i + 1 \in 1..Len(q)
    BY <1>1, <1>3, Taken
  <2> QED BY <2>1 DEF NotOpened
<1>4. [is |-> "seekDone"] \in ViewTask /\ [is |-> "marker"] \in ViewTask
  BY DEF ViewTask
<1> QED BY <1>2, <1>3, <1>4

\* Whatever the user does while the note plays: what is on its way stays in
\* order, until the note is stopped or another begins.
LEMMA RunningStep ==
  ASSUME Types, OnePlace, HeardOfNote, Running, clean', [Next]_vars
  PROVE  Opening' \/ Running'
<1> DEFINE G == Opening' \/ Running'
           Moves == writing' = writing \/ (writing.at # "write" /\ writing'.at # "write")
<1>1. /\ opening = NoNote /\ Ordinary(decodeQ) /\ NotOpened(uiQ)
      /\ playing # NoNote => native.note = playing /\ Inside(decodeQ) /\ PipeInOrder
  BY DEF Running, Ordinary, NotOpened, SeeksInside, Inside
<1>2. /\ decodeQ \in Seq(DecodeTask) /\ uiQ \in Seq(ViewTask)
      /\ (playing # NoNote <=> track # "none")
      /\ playing # NoNote => playing \in Note
  BY DEF Types, QueueTypes, ViewTypes, Note, NoNote
<1>3. ASSUME opening' = NoNote, Ordinary(decodeQ'), NotOpened(uiQ'),
             playing' # NoNote => native'.note = playing' /\ SeeksInside' /\ PipeInOrder'
      PROVE  G
  <2>1. Running'
    BY <1>3 DEF Running, Ordinary, NotOpened
  <2> QED BY <2>1
<1>4. /\ Ordinary(Append(decodeQ, Decode))
      /\ \A pos \in Nat : Ordinary(Append(decodeQ, [is |-> "seek", pos |-> pos]))
      /\ decodeQ # <<>> => Ordinary(Tail(decodeQ))
      /\ Inside(decodeQ) => /\ Inside(Append(decodeQ, Decode))
                            /\ decodeQ # <<>> => Inside(Tail(decodeQ))
      /\ SeekAwaited => Awaits(Append(decodeQ, Decode))
      /\ decodeQ # <<>> /\ decodeQ[1].is # "seek" /\ SeekAwaited => Awaits(Tail(decodeQ))
  <2>1. SeekAwaited <=> Awaits(decodeQ)
    BY DEF SeekAwaited, Awaits
  <2> QED BY <1>1, <1>2, <2>1, OrdinaryPosted
<1>5. /\ NotOpened(Append(uiQ, [is |-> "seekDone"])) /\ NotOpened(Append(uiQ, [is |-> "marker"]))
      /\ uiQ # <<>> => NotOpened(Tail(uiQ)) /\ uiQ[1].is # "opened"
  BY <1>1, <1>2, NotOpenedPosted
<1>6. decodeQ # <<>> => decodeQ[1].is \in {"decode", "seek"}
  <2>1. decodeQ # <<>> => 1 \in 1..Len(decodeQ)
    BY <1>2, Taken
  <2> QED BY <1>1, <2>1 DEF Ordinary
<1>7. ASSUME UNCHANGED <<heard, used, buf, native, playing, opening>>, Moves,
             \/ decodeQ' = decodeQ
             \/ decodeQ # <<>> /\ decodeQ[1].is # "seek" /\ decodeQ' = Tail(decodeQ),
             uiQ' = uiQ \/ (uiQ # <<>> /\ uiQ' = Tail(uiQ))
      PROVE  G
  <2>1. Ordinary(decodeQ') /\ NotOpened(uiQ') /\ (Inside(decodeQ) => Inside(decodeQ'))
    BY <1>1, <1>4, <1>5, <1>7
  <2>4. SeekAwaited => SeekAwaited'
    BY <1>4, <1>7 DEF SeekAwaited, Awaits
  <2>5. PipeInOrder => WaitsOfNow'
    BY <1>7, WaitsLeft DEF PipeInOrder
  <2>2. playing # NoNote => PipeInOrder'
    BY <1>1, <1>7, <2>4, <2>5, PipeSame, PipeKept
  <2>3. playing # NoNote => SeeksInside'
    BY <1>1, <1>7, <2>1 DEF Inside, SeeksInside
  <2> QED BY <1>1, <1>3, <1>7, <2>1, <2>2, <2>3
<1> HIDE DEF Moves
<1>8. ASSUME NEW n \in Note, PlayNote(n) PROVE G
  BY <1>8, PlayBegins
<1>9. ASSUME NEW pos \in 0..(Total[playing] - 1), playing # NoNote, Seek(pos) PROVE G
  <2>1. pos \in Nat /\ pos < Total[playing] /\ playing # NoNote
    BY <1>9, <1>2, Constants
  <2>2. /\ decodeQ' = Append(decodeQ, [is |-> "seek", pos |-> pos])
        /\ UNCHANGED <<opening, uiQ, playing, native>>
    BY <1>9 DEF Seek
  <2>3. Ordinary(decodeQ') /\ PipeInOrder'
    BY <1>9, <1>1, <1>4, <2>1, <2>2, PipeSeek
  <2>4. SeeksInside'
    <3>1. [is |-> "seek", pos |-> pos] \in DecodeTask
      BY <2>1 DEF DecodeTask
    <3>2. /\ Len(decodeQ') = Len(decodeQ) + 1 /\ Len(decodeQ) \in Nat
          /\ \A i \in 1..Len(decodeQ) : decodeQ'[i] = decodeQ[i]
          /\ decodeQ'[Len(decodeQ) + 1].pos = pos
      BY <1>2, <2>2, <3>1, Posted
    <3>3. \A i \in 1..Len(decodeQ') : i \in 1..Len(decodeQ) \/ i = Len(decodeQ) + 1
      BY <3>2
    <3> QED BY <1>1, <2>1, <2>2, <3>2, <3>3 DEF Inside, SeeksInside
  <2> QED BY <1>1, <1>3, <2>2, <2>3, <2>4
<1>10. CASE Pause
  BY <1>10, <1>7 DEF Pause, lists, ghosts, Moves
<1>11. CASE Resume
  BY <1>11, <1>7 DEF Resume, lists, ghosts, Moves
<1>12. CASE Stop
  BY <1>12, <1>1, <1>3 DEF Stop, CleanUp
<1>13. CASE ProgressTimer
  BY <1>13, <1>7 DEF ProgressTimer, lists, ghosts, Moves
<1>14. CASE PlayOpened
  BY <1>14, <1>1 DEF PlayOpened
<1>15. CASE SeekDone
  BY <1>15, <1>7 DEF SeekDone, lists, ghosts, Moves
<1>16. CASE SetMarker
  BY <1>16, <1>7 DEF SetMarker, lists, ghosts, Moves
<1>17. CASE MarkerReached
  BY <1>17, <1>1, <1>3 DEF MarkerReached, CleanUp
<1>18. CASE Open
  BY <1>18, <1>6 DEF Open, DecodeTaskIs
<1>19. CASE Begin
  BY <1>19, <1>6 DEF Begin, DecodeTaskIs
<1>20. CASE SeekFile
  <2>1. /\ decodeQ # <<>> /\ decodeQ' = Tail(decodeQ)
        /\ uiQ' = Append(uiQ, [is |-> "seekDone"]) /\ UNCHANGED <<opening, playing>>
    BY <1>20 DEF SeekFile, DecodeTaskIs, uiVars
  <2>2. Ordinary(decodeQ') /\ NotOpened(uiQ')
    BY <1>4, <1>5, <2>1
  <2>3. ASSUME playing # NoNote
        PROVE  native'.note = playing /\ SeeksInside' /\ PipeInOrder'
    <3>1. SeeksInside
      BY <1>1, <2>3 DEF SeeksInside, Inside
    <3>2. native'.note = playing /\ PipeInOrder'
      BY <1>20, <1>1, <2>3, <3>1, PipeSeekFile
    <3>3. Inside(decodeQ')
      BY <1>1, <1>4, <2>1, <2>3
    <3> QED BY <2>1, <3>2, <3>3 DEF Inside, SeeksInside
  <2> QED BY <1>1, <1>3, <2>1, <2>2, <2>3
<1>21. CASE DecodeNothing
  BY <1>21, <1>7 DEF DecodeNothing, DecodeTaskIs, uiVars, lists, ghosts, Moves
<1>22. CASE DecodeBegin
  BY <1>22, <1>7 DEF DecodeBegin, DecodeTaskIs, uiVars, lists, ghosts, Moves
<1>23. CASE DecodeTake
  BY <1>23, <1>7 DEF DecodeTake, uiVars, ghosts, Moves
<1>24. ASSUME NEW to \in Readable, Put(to) PROVE G
  <2>1. UNCHANGED <<decodeQ, uiQ, opening, playing>>
    BY <1>24 DEF Put, uiVars, ghosts
  <2>2. playing # NoNote => native'.note = playing /\ PipeInOrder'
    BY <1>24, <1>1, PipeDecodePut
  <2>3. playing # NoNote => SeeksInside'
    BY <1>1, <2>1 DEF Inside, SeeksInside
  <2> QED BY <1>1, <1>3, <2>1, <2>2, <2>3
<1>25. CASE PlayCheck
  BY <1>25, <1>7 DEF PlayCheck, Idle, uiVars, lists, ghosts, Moves
<1>26. CASE PlayTake
  <2>1. /\ decodeQ' \in {decodeQ, Append(decodeQ, Decode)}
        /\ UNCHANGED <<uiQ, opening, playing, native>>
    BY <1>26 DEF PlayTake, uiVars
  <2>5. SeekAwaited => SeekAwaited'
    BY <1>4, <2>1 DEF SeekAwaited, Awaits
  <2>6. PipeInOrder => WaitsOfNow'
    <3>1. UNCHANGED buf /\ (used' = used \/ (used # <<>> /\ used' = Tail(used)))
      BY <1>26 DEF PlayTake
    <3> QED BY <2>1, <3>1, WaitsLeft DEF PipeInOrder
  <2>2. playing # NoNote => PipeInOrder'
    BY <1>26, <1>1, <2>1, <2>5, <2>6, PipePlayTake, PipeKept
  <2>3. Ordinary(decodeQ') /\ (Inside(decodeQ) => Inside(decodeQ'))
    BY <1>1, <1>4, <2>1
  <2>4. playing # NoNote => SeeksInside'
    BY <1>1, <2>1, <2>3 DEF Inside, SeeksInside
  <2> QED BY <1>1, <1>3, <2>1, <2>2, <2>3, <2>4
<1>27. CASE PlayWrite
  <2>1. /\ decodeQ' \in {decodeQ, Append(decodeQ, Decode)}
        /\ uiQ' \in {uiQ, Append(uiQ, [is |-> "marker"])}
        /\ UNCHANGED <<opening, playing, native>>
    BY <1>27 DEF PlayWrite, uiVars
  <2>5. SeekAwaited => SeekAwaited'
    BY <1>4, <2>1 DEF SeekAwaited, Awaits
  <2>6. PipeInOrder => WaitsOfNow'
    BY <1>27, <2>1, WaitsLeft DEF PlayWrite, lists, PipeInOrder
  <2>2. playing # NoNote => PipeInOrder'
    BY <1>27, <1>1, <1>2, <2>1, <2>5, <2>6, PipePlayWrite, PipeKept
  <2>3. /\ Ordinary(decodeQ') /\ NotOpened(uiQ')
        /\ Inside(decodeQ) => Inside(decodeQ')
    BY <1>1, <1>4, <1>5, <2>1
  <2>4. playing # NoNote => SeeksInside'
    BY <1>1, <2>1, <2>3 DEF Inside, SeeksInside
  <2> QED BY <1>1, <1>3, <2>1, <2>2, <2>3, <2>4
<1>28. CASE PlayFree
  BY <1>28, <1>7 DEF PlayFree, Idle, uiVars, ghosts, Moves
<1>29. CASE UNCHANGED vars
  BY <1>29, <1>7 DEF vars, uiVars, lists, ghosts, Moves
<1> QED
  BY <1>8, <1>9, <1>10, <1>11, <1>12, <1>13, <1>14, <1>15, <1>16, <1>17, <1>18, <1>19, <1>20, <1>21, <1>22, <1>23, <1>24, <1>25, <1>26, <1>27, <1>28, <1>29 DEF Next, UiTask, DecodingQueue, DecodePut, PlayerQueue


LEMMA OrderlyInit == Init => Orderly
<1> SUFFICES ASSUME Init PROVE Orderly
  OBVIOUS
<1> QED BY DEF Init, Orderly

LEMMA OrderlyStep ==
  ASSUME Types, OnePlace, Orderly, [Next]_vars
  PROVE  Orderly'
<1>1. HeardOfNote /\ (clean => Opening \/ Starting \/ Running)
  BY DEF Orderly, HeardOfNote
<1>2. HeardOfNote'
  BY <1>1, HeardOfNoteStep
<1>3. ASSUME clean'
      PROVE  Opening' \/ Starting' \/ Running'
  <2>1. CASE \E n \in Note : PlayNote(n)
    BY <1>3, <2>1, PlayBegins
  <2>2. CASE ~ \E n \in Note : PlayNote(n)
    <3>1. clean' => clean
      <4>1. CASE Resume
        BY <4>1, Zenon DEF Resume
      <4>2. CASE ~Resume
        <5>1. clean' = clean
          BY <2>2, <4>2 DEF Next, UiTask, DecodingQueue, PlayerQueue, Pause, Stop, ProgressTimer,
             Seek, PlayOpened, SeekDone, SetMarker, MarkerReached, Open, Begin, SeekFile,
             DecodeNothing, DecodeBegin, DecodeTake, DecodePut, Put, PlayCheck, PlayTake, PlayWrite,
             PlayFree, vars, ghosts
        <5> QED BY <5>1, Zenon
      <4> QED BY <4>1, <4>2
    <3>2. Opening \/ Starting \/ Running
      BY <1>1, <1>3, <3>1, Zenon
    <3>3. CASE Opening
      BY <1>1, <3>3, OpeningStep
    <3>4. CASE Starting
      BY <1>1, <1>3, <3>4, StartingStep
    <3>5. CASE Running
      BY <1>1, <1>3, <3>5, RunningStep
    <3> QED BY <3>2, <3>3, <3>4, <3>5
  <2> QED BY <2>1, <2>2
<1> QED BY <1>2, <1>3, Zenon DEF Orderly, HeardOfNote

LEMMA OrderlyImpliesInOrder ==
  ASSUME Types, Orderly
  PROVE  HeardInOrder
<1> SUFFICES ASSUME clean, NEW i \in 1..Len(heard)
             PROVE  LET h == heard[i]
                    IN  /\ h.note \in {playing, opening}
                        /\ i > 1 => h.gen >= heard[i - 1].gen
                        /\ i > 1 /\ h.gen = heard[i - 1].gen => h.from = heard[i - 1].to
                        /\ h.gen = native.gen /\ (i = 1 \/ heard[i - 1].gen < native.gen) =>
                             h.from = native.from \/ SeekAwaited
                        /\ h.finished =>
                             \/ h.to = Total[h.note]
                             \/ /\ (Total[h.note] - h.from) % Capacity = 0
                                /\ h.to = Total[h.note] - Capacity
                             \/ native.failed = "inside" /\ Short(h.to - h.from)
                        /\ \A j \in 1..Len(used) : buf[used[j]].gen = native.gen
  BY DEF HeardInOrder
<1>1. heard \in Seq(Piece) /\ Len(heard) \in Nat /\ heard # <<>>
  BY DEF Types, AudioTypes
<1>2. Running /\ playing # NoNote
  BY <1>1 DEF Orderly, Opening, Starting, Types, ViewTypes
<1>3. PipeInOrder
  BY <1>2 DEF Running
<1>4. \A k \in 1..Len(heard) : k \in 1..PipeLen /\ Pipe(k) = heard[k] /\ heard[k] \in Piece
  <2>1. PipeLen >= Len(heard) /\ PipeLen \in Nat
    BY PipeTypes DEF PipeLen
  <2> QED BY <1>1, <2>1 DEF Pipe
<1>5. i \in 1..PipeLen /\ Pipe(i) = heard[i] /\ heard[i] \in Piece
  BY <1>4
<1>6. heard[i].note = playing /\ EndsWell(heard[i], native)
  BY <1>3, <1>5 DEF PipeInOrder
<1>7. i > 1 => i - 1 \in 1..Len(heard) /\ i \in 2..PipeLen /\ Pipe(i - 1) = heard[i - 1]
               /\ heard[i - 1] \in Piece
  BY <1>1, <1>4
<1>8. i > 1 => Follows(heard[i - 1], heard[i])
  BY <1>3, <1>5, <1>7 DEF PipeInOrder
<1>9. /\ i > 1 => heard[i].gen >= heard[i - 1].gen
      /\ i > 1 /\ heard[i].gen = heard[i - 1].gen => heard[i].from = heard[i - 1].to
  BY <1>5, <1>7, <1>8 DEF Follows, Piece
<1>10. ASSUME heard[i].gen = native.gen, i = 1 \/ heard[i - 1].gen < native.gen, ~SeekAwaited
       PROVE  heard[i].from = native.from
  <2>1. Begins
    BY <1>3, <1>10 DEF PipeInOrder
  <2>2. i = 1 \/ Pipe(i - 1).gen < native.gen
    BY <1>1, <1>7, <1>10
  <2> QED BY <1>5, <1>10, <2>1, <2>2 DEF Begins
<1>11. \A j \in 1..Len(used) : buf[used[j]].gen = native.gen
  BY <1>3 DEF PipeInOrder, WaitsOfNow
<1> QED BY <1>6, <1>9, <1>10, <1>11 DEF EndsWell

\* A playing that begins when nothing is left to do of an earlier one is heard
\* in order from where it was begun or sought last, whatever the user pauses,
\* resumes and seeks: the three threads that pass its buffers on lose, double
\* and mix none of them.  Where it ends the note does, reading failed, or one
\* full buffer is missing.
THEOREM InOrder == Spec => []HeardInOrder
<1>1. Init => Inv
  BY TypesInit, PlacesInit, OrderlyInit DEF Inv
<1>2. Inv /\ [Next]_vars => Inv'
  BY TypesStep, OnePlaceStep, TasksStep, OrderlyStep DEF Inv
<1>3. Inv => HeardInOrder
  BY OrderlyImpliesInOrder DEF Inv
<1> QED BY <1>1, <1>2, <1>3, PTL DEF Spec
=============================================================================
