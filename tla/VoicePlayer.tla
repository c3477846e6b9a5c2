---------------------------- MODULE VoicePlayer -----------------------------
(***************************************************************************)
(* Playing a voice note: the decoding queue and the player queue of        *)
(* MediaController, which hand three buffers to and fro and start each     *)
(* other, the player of audio.c behind the first, Android's AudioTrack     *)
(* behind the second, and the UI thread, where the user plays, pauses,     *)
(* seeks and stops.                                                        *)
(*                                                                         *)
(* A buffer's audio is where it begins and ends in its file, in samples.   *)
(* What was written to the track counts as heard.                          *)
(***************************************************************************)
EXTENDS Integers, Sequences, FiniteSets

CONSTANTS
  Buffers,     \* how many there are: 3
  Capacity,    \* samples a buffer holds: playerBufferSize / 2
  MaxNotes,    \* voice notes of the chat
  Total,       \* samples of each
  MaxPlays,    \* bound: calls of playAudio that open a file
  MaxSeeks,    \* bound: calls of seekToProgress
  MaxPauses,   \* bound: calls of pauseAudio
  MaxActs      \* bound: all these together, where a seek counts twice

ASSUME PlayerAssumption ==
  /\ {Buffers, Capacity, MaxNotes} \subseteq Nat \ {0}
  /\ Total \in [1..MaxNotes -> Nat \ {0}]
  /\ {MaxPlays, MaxSeeks, MaxPauses, MaxActs} \subseteq Nat

Note == 1..MaxNotes
NoNote == 0
Buffer == 1..Buffers
NoBuffer == 0
SampleBytes == 2

VARIABLES
  progress,  \* audioProgress, as a sample
  decodeQ, playQ, uiQ,  \* tasks of fileDecodingQueue, playerQueue, the UI thread
  opening,   \* the note playAudio waits to be opened, NoNote if none
  playing,   \* playingMessageObject
  track,     \* audioTrackPlayer: "none", "playing" or "paused"
  marker,    \* its notification marker is set
  isPaused,
  free, used,  \* freePlayerBuffers, usedPlayerBuffers
  buf,       \* what each buffer holds
  decoding,  \* the run of the decoding queue: where it is, its buffer, was
  writing,   \* the run of the player queue: where it is, its buffer
  decodingFinished,
  native,    \* globals of audio.c: the file open, the position, _finished; and
             \* whether an error of op_read ended it, inside a buffer or between
             \* two of them
  heard,     \* what the track took since it was opened or flushed
  clean,     \* no task was left of an earlier playing when this one began, and
             \* the user did not pause and resume it before it had begun
  late,      \* a seek of this playing found the file read to its end
  starts,    \* times somebody outside the two queues started them, and buffers
             \* the player queue is done with
  plays, seeks, pauses

lists == <<free, used, buf>>
uiVars == <<opening, playing, track, marker, isPaused, progress>>
ghosts == <<heard, clean, late, starts>>
counters == <<plays, seeks, pauses>>
vars == <<decodeQ, playQ, uiQ, uiVars, lists, decoding, writing,
          decodingFinished, native, ghosts, counters>>

-----------------------------------------------------------------------------
(* audio.c                                                                 *)

Idle == [at |-> "idle", b |-> NoBuffer, was |-> FALSE]

\* cleanupPlayer, and initPlayer of a file that opens.  gen tells what was
\* read since the last opening or seek from what was read before.
Opened(n) == [note |-> n, pos |-> 0, gen |-> native.gen + 1, from |-> 0,
              finished |-> FALSE, failed |-> "no"]

\* seekPlayer: _finished stays what it is.  A seek behind the end fails.
Sought(pos) ==
  IF native.note = NoNote \/ pos >= Total[native.note] THEN native
  ELSE [native EXCEPT !.pos = pos, !.gen = @ + 1, !.from = pos]

FullRead(a, b) ==  \* Mutant: what fits into the buffer is not looked at.
  b

Least(a, b) == IF a < b THEN a ELSE b

\* fillBuffer: as many samples as fit or the file still has, unless op_read
\* fails before that, say at a hole of the page numbers: then as many as it
\* gave.  With no file open there is silence.
Readable ==
  IF native.note = NoNote THEN {Capacity}
  ELSE IF native.finished THEN {native.pos}
  ELSE native.pos..Least(native.pos + Capacity, Total[native.note])

\* The end is noticed when a read comes short, for an error too, or when the
\* position, in samples, and the size, in bytes, add up to the length, in
\* samples.
Short(n) == n < Capacity

Read(to) ==
  IF native.note = NoNote
  THEN [note |-> NoNote, gen |-> native.gen, from |-> 0, to |-> to, finished |-> FALSE]
  ELSE [note |-> native.note, gen |-> native.gen, from |-> native.pos, to |-> to,
        finished |-> \/ native.finished
                     \/ Short(to - native.pos)
                     \/ native.pos + SampleBytes * (to - native.pos) = Total[native.note]]

Failure(to) ==
  IF native.finished \/ to = Least(native.pos + Capacity, Total[native.note])
  THEN native.failed
  ELSE IF to = native.pos THEN "between" ELSE "inside"

-----------------------------------------------------------------------------
Init ==
  /\ progress = [n \in Note |-> 0]
  /\ decodeQ = <<>> /\ playQ = <<>> /\ uiQ = <<>>
  /\ opening = NoNote /\ playing = NoNote
  /\ track = "none" /\ marker = FALSE /\ isPaused = FALSE
  /\ free = [i \in Buffer |-> i] /\ used = <<>>
  /\ buf = [b \in Buffer |-> [note |-> NoNote, gen |-> 0, from |-> 0, to |-> 0,
                              finished |-> FALSE]]
  /\ decoding = Idle /\ writing = Idle
  /\ decodingFinished = FALSE
  /\ native = [note |-> NoNote, pos |-> 0, gen |-> 0, from |-> 0, finished |-> FALSE,
               failed |-> "no"]
  /\ heard = <<>> /\ clean = FALSE /\ late = FALSE
  /\ starts = 0
  /\ plays = 0 /\ seeks = 0 /\ pauses = 0

Decode == [is |-> "decode"]
Play == [is |-> "play"]

-----------------------------------------------------------------------------
(* The UI thread, while playAudio does not wait on it.                     *)

Room(acts) == plays + 2 * seeks + pauses + acts <= MaxActs

Quiet == decodeQ = <<>> /\ playQ = <<>> /\ uiQ = <<>> /\ decoding = Idle /\ writing = Idle

\* clenupPlayer: pause, flush, release.
CleanUp ==
  /\ track' = "none"
  /\ marker' = FALSE
  /\ isPaused' = FALSE
  /\ playing' = NoNote
  /\ heard' = <<>>

\* playAudio of a note that is not the one playing: the player is cleaned up
\* and the file is opened on the decoding queue.
PlayNote(n) ==
  /\ opening = NoNote
  /\ plays < MaxPlays /\ Room(1)
  /\ playing # n
  /\ plays' = plays + 1
  /\ CleanUp
  /\ progress' = IF playing = NoNote THEN progress ELSE [progress EXCEPT ![playing] = 0]
  /\ opening' = n
  /\ clean' = Quiet
  /\ late' = FALSE
  /\ decodeQ' = Append(decodeQ, [is |-> "open"])
  /\ UNCHANGED <<playQ, uiQ, lists, decoding, writing, decodingFinished,
                 native, starts, seeks, pauses>>

\* playAudio goes on once the file is open: the track plays, and the decoding
\* queue is to begin anew.
PlayOpened ==
  /\ opening # NoNote
  /\ uiQ # <<>> /\ uiQ[1].is = "opened"
  /\ uiQ' = Tail(uiQ)
  /\ opening' = NoNote
  /\ playing' = opening
  /\ track' = "playing"
  /\ decodeQ' = Append(decodeQ, [is |-> "start"])
  /\ starts' = starts + 1
  /\ UNCHANGED <<playQ, marker, isPaused, progress, lists, decoding, writing,
                 decodingFinished, native, heard, clean, late, counters>>

Pause ==
  /\ opening = NoNote /\ playing # NoNote
  /\ pauses < MaxPauses /\ Room(1)
  /\ pauses' = pauses + 1
  /\ track' = "paused"
  /\ isPaused' = TRUE
  /\ UNCHANGED <<decodeQ, playQ, uiQ, opening, playing, marker, progress,
                 lists, decoding, writing, decodingFinished, native, ghosts, plays,
                 seeks>>

Resume ==
  /\ opening = NoNote /\ playing # NoNote
  /\ isPaused
  /\ track' = "playing"
  /\ isPaused' = FALSE
  /\ playQ' = Append(playQ, Play)
  /\ clean' = (clean /\ \A i \in 1..Len(decodeQ) : decodeQ[i].is # "start")
  /\ starts' = starts + 1
  /\ UNCHANGED <<decodeQ, uiQ, opening, playing, marker, progress, lists,
                 decoding, writing, decodingFinished, native, heard, late,
                 counters>>

\* stopAudio: how far it got stays with the note.
Stop ==
  /\ opening = NoNote /\ playing # NoNote
  /\ CleanUp
  /\ UNCHANGED <<decodeQ, playQ, uiQ, opening, progress, lists, decoding, writing,
                 decodingFinished, native, clean, late, starts, counters>>

\* The task of progressTimer.
ProgressTimer ==
  /\ opening = NoNote /\ playing # NoNote /\ ~isPaused /\ heard # <<>>
  /\ progress' = [progress EXCEPT ![playing] = heard[Len(heard)].from]
  /\ UNCHANGED <<decodeQ, playQ, uiQ, opening, playing, track, marker, isPaused, lists,
                 decoding, writing, decodingFinished, native, ghosts, counters>>

\* seekOpusPlayer: the track is paused and flushed, the seek is queued.
Seek(pos) ==
  /\ opening = NoNote /\ playing # NoNote
  /\ seeks < MaxSeeks /\ Room(2)
  /\ pos \in 0..(Total[playing] - 1)
  /\ seeks' = seeks + 1
  /\ track' = "paused"
  /\ heard' = <<>>
  /\ decodeQ' = Append(decodeQ, [is |-> "seek", pos |-> pos])
  /\ UNCHANGED <<playQ, uiQ, opening, playing, marker, isPaused, progress,
                 lists, decoding, writing, decodingFinished, native, clean,
                 late, starts, plays, pauses>>

\* The end of a seek: the track plays on, unless the user paused meanwhile.
SeekDone ==
  /\ opening = NoNote
  /\ uiQ # <<>> /\ uiQ[1].is = "seekDone"
  /\ uiQ' = Tail(uiQ)
  /\ IF isPaused THEN UNCHANGED <<track, playQ, starts>>
     ELSE /\ track' = IF track = "none" THEN "none" ELSE "playing"
          /\ playQ' = Append(playQ, Play)
          /\ starts' = starts + 1
  /\ UNCHANGED <<decodeQ, opening, playing, marker, isPaused, progress, lists,
                 decoding, writing, decodingFinished, native, heard, clean, late,
                 counters>>

\* After the last buffer: the marker of the track there is by now.
SetMarker ==
  /\ opening = NoNote
  /\ uiQ # <<>> /\ uiQ[1].is = "marker"
  /\ uiQ' = Tail(uiQ)
  /\ marker' = (marker \/ track # "none")
  /\ UNCHANGED <<decodeQ, playQ, opening, playing, track, isPaused, progress,
                 lists, decoding, writing, decodingFinished, native, ghosts, counters>>

\* onMarkerReached: the note has ended.
MarkerReached ==
  /\ opening = NoNote /\ playing # NoNote
  /\ marker /\ track = "playing"
  /\ CleanUp
  /\ progress' = [progress EXCEPT ![playing] = 0]
  /\ UNCHANGED <<decodeQ, playQ, uiQ, opening, lists, decoding, writing,
                 decodingFinished, native, clean, late, starts, counters>>

-----------------------------------------------------------------------------
(* fileDecodingQueue.                                                      *)

DecodeTaskIs(kind) == decoding = Idle /\ decodeQ # <<>> /\ decodeQ[1].is = kind

FreeAllTwice ==  \* Mutant: the buffers stay in both lists.
  /\ free' = free \o used
  /\ UNCHANGED used

FreeNone ==  \* Mutant: what was decoded before stays.
  UNCHANGED <<free, used>>

\* What was decoded and not yet played is dropped.
FreeAll ==
  /\ free' = free \o used
  /\ used' = <<>>

\* The semaphore lets the UI thread go on, before its other tasks.
Open ==
  /\ DecodeTaskIs("open")
  /\ native' = Opened(opening)
  /\ uiQ' = <<[is |-> "opened"]>> \o uiQ
  /\ decodeQ' = Tail(decodeQ)
  /\ UNCHANGED <<playQ, uiVars, lists, decoding, writing, decodingFinished,
                 ghosts, counters>>

Begin ==
  /\ DecodeTaskIs("start")
  /\ native' = IF playing # NoNote /\ progress[playing] # 0
               THEN Sought(progress[playing]) ELSE native
  /\ FreeAll
  /\ decodingFinished' = FALSE
  /\ playQ' = Append(playQ, Play)
  /\ decodeQ' = Tail(decodeQ)
  /\ UNCHANGED <<uiQ, uiVars, buf, decoding, writing, ghosts, counters>>

SeekFile ==
  /\ DecodeTaskIs("seek")
  /\ native' = Sought(decodeQ[1].pos)
  /\ late' = (late \/ native.finished \/ decodingFinished)
  /\ FreeAll
  /\ uiQ' = Append(uiQ, [is |-> "seekDone"])
  /\ decodeQ' = Tail(decodeQ)
  /\ UNCHANGED <<playQ, uiVars, buf, decoding, writing, decodingFinished,
                 heard, clean, starts, counters>>

\* checkDecoderQueue's task: nothing to decode any more.
DecodeNothing ==
  /\ DecodeTaskIs("decode")
  /\ decodingFinished
  /\ decodeQ' = Tail(decodeQ)
  /\ playQ' = Append(playQ, Play)
  /\ UNCHANGED <<uiQ, uiVars, lists, decoding, writing, decodingFinished,
                 native, ghosts, counters>>

DecodeBegin ==
  /\ DecodeTaskIs("decode")
  /\ ~decodingFinished
  /\ decoding' = [Idle EXCEPT !.at = "take"]
  /\ decodeQ' = Tail(decodeQ)
  /\ UNCHANGED <<playQ, uiQ, uiVars, lists, writing, decodingFinished, native,
                 ghosts, counters>>

DecodeEndQuiet(was) ==  \* Mutant: the player is not started.
  decoding' = Idle /\ UNCHANGED playQ

\* The end of the run: the player is to look, if there was anything.
DecodeEnd(was) ==
  /\ decoding' = Idle
  /\ playQ' = IF was THEN Append(playQ, Play) ELSE playQ

DecodeTake ==
  /\ decoding.at = "take"
  /\ LET was == decoding.was \/ used # <<>>
     IN  IF free = <<>>
         THEN DecodeEnd(was) /\ UNCHANGED free
         ELSE /\ decoding' = [at |-> "put", b |-> free[1], was |-> was]
              /\ free' = Tail(free)
              /\ UNCHANGED playQ
  /\ UNCHANGED <<decodeQ, uiQ, uiVars, used, buf, writing, decodingFinished,
                 native, ghosts, counters>>

\* readOpusFile into the buffer, which is queued if it got anything.
Put(to) ==
  /\ decoding.at = "put"
  /\ buf' = [buf EXCEPT ![decoding.b] = Read(to)]
  /\ native' = IF native.note = NoNote THEN native
               ELSE [native EXCEPT !.pos = to, !.finished = Read(to).finished,
                                   !.failed = Failure(to)]
  /\ decodingFinished' = (decodingFinished \/ Read(to).finished)
  /\ IF Read(to).to # Read(to).from
     THEN /\ used' = Append(used, decoding.b)
          /\ decoding' = [at |-> "take", b |-> NoBuffer, was |-> TRUE]
          /\ UNCHANGED <<free, playQ>>
     ELSE /\ free' = Append(free, decoding.b)
          /\ DecodeEnd(decoding.was)
          /\ UNCHANGED used
  /\ UNCHANGED <<decodeQ, uiQ, uiVars, writing, ghosts, counters>>

DecodePut == \E to \in Readable : Put(to)

DecodingQueue ==
  \/ Open \/ Begin \/ SeekFile \/ DecodeNothing \/ DecodeBegin \/ DecodeTake \/ DecodePut

-----------------------------------------------------------------------------
(* playerQueue.                                                            *)

\* checkPlayerQueue's task looks at the track; playAudio holds the lock while
\* it waits.
PlayCheck ==
  /\ writing = Idle /\ playQ # <<>>
  /\ opening = NoNote
  /\ playQ' = Tail(playQ)
  /\ writing' = IF track = "playing" THEN [Idle EXCEPT !.at = "take"] ELSE Idle
  /\ UNCHANGED <<decodeQ, uiQ, uiVars, lists, decoding, decodingFinished,
                 native, ghosts, counters>>

PlayTake ==
  /\ writing.at = "take"
  /\ IF used = <<>>
     THEN /\ writing' = Idle
          /\ decodeQ' = Append(decodeQ, Decode)
          /\ UNCHANGED used
     ELSE /\ writing' = [Idle EXCEPT !.at = "write", !.b = used[1]]
          /\ used' = Tail(used)
          /\ UNCHANGED decodeQ
  /\ UNCHANGED <<playQ, uiQ, uiVars, free, buf, decoding, decodingFinished,
                 native, ghosts, counters>>

\* The buffer is written to the track there is by now, which takes nothing if
\* it is gone; then each queue is started again, unless it was the last one.
PlayWrite ==
  /\ writing.at = "write"
  /\ LET b == buf[writing.b]
     IN  /\ heard' = IF track = "none" THEN heard ELSE Append(heard, b)
         /\ uiQ' = IF track # "none" /\ b.finished THEN Append(uiQ, [is |-> "marker"])
                   ELSE uiQ
         /\ IF b.finished THEN UNCHANGED <<playQ, decodeQ>>
            ELSE playQ' = Append(playQ, Play) /\ decodeQ' = Append(decodeQ, Decode)
  /\ writing' = [writing EXCEPT !.at = "free"]
  /\ starts' = starts + 1
  /\ UNCHANGED <<uiVars, lists, decoding, decodingFinished, native, clean,
                 late, counters>>

PlayFree ==
  /\ writing.at = "free"
  /\ free' = Append(free, writing.b)
  /\ writing' = Idle
  /\ UNCHANGED <<decodeQ, playQ, uiQ, uiVars, used, buf, decoding,
                 decodingFinished, native, ghosts, counters>>

PlayerQueue == PlayCheck \/ PlayTake \/ PlayWrite \/ PlayFree
UiTask == PlayOpened \/ SeekDone \/ SetMarker

-----------------------------------------------------------------------------
Next ==
  \/ \E n \in Note : PlayNote(n)
  \/ Pause \/ Resume \/ Stop \/ ProgressTimer
  \/ playing # NoNote /\ \E pos \in 0..(Total[playing] - 1) : Seek(pos)
  \/ UiTask
  \/ MarkerReached
  \/ DecodingQueue
  \/ PlayerQueue

Spec == Init /\ [][Next]_vars

\* Each queue and the UI thread work through their tasks; a write to a paused
\* track may wait for as long as it is paused.
FairSpec ==
  /\ Spec
  /\ WF_vars(UiTask)
  /\ WF_vars(MarkerReached)
  /\ WF_vars(DecodingQueue)
  /\ WF_vars(PlayerQueue /\ ~(writing.at = "write" /\ track = "paused"))

-----------------------------------------------------------------------------
Piece == [note : 0..MaxNotes, gen : Nat, from : Nat, to : Nat, finished : BOOLEAN]

TypeOK ==
  /\ progress \in [Note -> Nat]
  /\ opening \in 0..MaxNotes /\ playing \in 0..MaxNotes
  /\ track \in {"none", "playing", "paused"}
  /\ free \in Seq(Buffer) /\ used \in Seq(Buffer)
  /\ buf \in [Buffer -> Piece]
  /\ \A b \in Buffer : buf[b].to - buf[b].from \in 0..Capacity
  /\ decoding.at \in {"idle", "take", "put"} /\ decoding.b \in 0..Buffers
  /\ writing.at \in {"idle", "take", "write", "free"} /\ writing.b \in 0..Buffers
  /\ playing # NoNote <=> track # "none"
  /\ isPaused => track = "paused"
  /\ marker => track # "none"

Held == (IF decoding.at = "put" THEN {decoding.b} ELSE {})
          \cup (IF writing.at \in {"write", "free"} THEN {writing.b} ELSE {})
Listed(s) == {s[i] : i \in 1..Len(s)}

\* The tasks with which the queues keep each other going.
Count(s, task) == Cardinality({i \in 1..Len(s) : s[i].is = task})
Tasks ==
  Count(playQ, "play") + Count(decodeQ, "decode") + Count(decodeQ, "start")
    + (IF decoding.at # "idle" THEN 1 ELSE 0)
    + (IF writing.at \in {"take", "write"} THEN 1 ELSE 0)

\* No buffer is lost and none is in two places, whatever the user does while
\* both queues work: each is free, waits to be played, or is in the hands of
\* the run of one queue.  And of the tasks there is one more for each buffer
\* played and each time somebody else starts them, but no more.
BuffersAreKept ==
  /\ Listed(free) \cup Listed(used) \cup Held = Buffer
  /\ Len(free) + Len(used) + Cardinality(Held) = Buffers
  /\ Tasks <= starts

SeekAwaited == \E i \in 1..Len(decodeQ) : decodeQ[i].is = "seek"

\* What is heard of a note is its audio in order, with no buffer lost or
\* repeated, from where it was begun or sought: the first piece read since then
\* begins there, unless the user seeks again and the file is yet to be moved.  A
\* rest of the old place may come before it, but never later, and only what was
\* in hand when the file was moved: what waits is of the new place.  The buffer
\* that ends the playing is the one that ends the note, unless op_read failed
\* within it, or the audio fills its buffers exactly: then it is the one before.
\* Not so when tasks of an earlier playing were left when this one began, or it
\* was resumed before it began.
HeardInOrder ==
  clean =>
    \A i \in 1..Len(heard) :
      LET h == heard[i]
      IN  /\ h.note \in {playing, opening}
          /\ i > 1 => h.gen >= heard[i - 1].gen
          /\ i > 1 /\ h.gen = heard[i - 1].gen => h.from = heard[i - 1].to
          /\ h.gen = native.gen /\ (i = 1 \/ heard[i - 1].gen < native.gen) =>
               h.from = native.from \/ SeekAwaited
          /\ h.finished =>
               \/ h.to = Total[h.note]
               \/ /\ (Total[h.note] - h.from) % Capacity = 0
                  /\ h.to = Total[h.note] - Capacity
               \/ native.failed = "inside" /\ Short(h.to - h.from)
          /\ \A j \in 1..Len(used) : buf[used[j]].gen = native.gen

\* A note that plays comes to its end, or the user pauses it: unless it was
\* sought after the file was read to its end, exactly one buffer was left of it
\* where it was begun or sought, or op_read failed just where a buffer begins.
PlayingEnds ==
  (playing # NoNote /\ clean) ~>
    \/ playing = NoNote \/ isPaused \/ late
    \/ native.from + Capacity = Total[playing] \/ native.failed = "between"
    \/ ~clean
=============================================================================
