---------------------------- MODULE VoiceRecorder ---------------------------
(***************************************************************************)
(* Recording a voice note: MediaController's record and encoding queues,   *)
(* the buffer between them, and the recorder of audio.c with its globals   *)
(* (initRecorder, writeFrame, cleanupRecorder), which both queues call.    *)
(*                                                                         *)
(* Time is counted in samples read from the microphone; a sample is the    *)
(* recording it belongs to and its number.  Every recording is made in a   *)
(* chat of its own, so a chat is named by its recording.  The encoded      *)
(* packet of a frame is the frame.  The pool of record buffers is left     *)
(* out: a buffer goes back only after its data was encoded.                *)
(***************************************************************************)
EXTENDS OggFraming, FiniteSetsExt

CONSTANTS
  Frame,      \* samples of one frame, and of fileBuffer: 960
  ReadSize,   \* samples of a full read: 2048 or recordBufferSize
  PreSkip,    \* samples the header tells the decoder to drop
  MinFrames,  \* a note of at most this many frames is not sent: 11 (700 ms)
  MaxStarts,  \* bound: recordings
  MaxStops,   \* bound: calls of stopRecording
  MaxReads,   \* bound: reads that give samples
  MaxFails    \* bound: failures of the file, the encoder or the microphone

ASSUME RecorderAssumption ==
  /\ {Frame, ReadSize} \subseteq Nat \ {0}
  /\ Frame \div Full < MaxVals
  /\ {PreSkip, MinFrames, MaxStarts, MaxStops, MaxReads, MaxFails} \subseteq Nat

Rec == 1..MaxStarts
NoRec == 0
Silence == [r |-> NoRec, k |-> 0]

VARIABLES
  recordQ,     \* tasks of recordQueue
  encodeQ,     \* tasks of fileEncodingQueue
  uiQ,         \* tasks of the UI thread: recordings to be sent or deleted
  busy,        \* the buffer fileEncodingQueue is working through, <<>> if none
  mic,         \* audioRecorder: "none", "recording" or "stopped"
  current,     \* recordingAudio, recordingAudioFile
  sendAfterDone,
  timeCount,   \* recordTimeCount, in frames
  dialog,      \* recordDialogId
  fileBuffer,  \* contents, and position
  pos,
  native,      \* globals of audio.c: encoder, file, samples, positions
  os,          \* the ogg_stream_state there
  files,       \* the pages written to the file of each recording
  outcome,     \* what became of a recording
  sentTo,      \* the chat it was sent to
  crashed,     \* the process died in native code
  starts, stops, reads, fails,
  spoken,      \* the samples the microphone gave to each recording
  asked,       \* recordings the user asked to send
  flaws        \* what went wrong with a recording

queues == <<recordQ, encodeQ, uiQ, busy>>
javaVars == <<mic, current, sendAfterDone, timeCount, dialog>>
bufferVars == <<fileBuffer, pos>>
nativeVars == <<native, os, files>>
ghosts == <<spoken, asked, flaws>>
counters == <<starts, stops, reads, fails>>
vars == <<queues, javaVars, bufferVars, nativeVars, outcome, sentTo, crashed,
          counters, ghosts>>

-----------------------------------------------------------------------------
(* audio.c                                                                 *)

\* What cleanupRecorder leaves: a last flush makes a page nobody writes.
Closed == [encoder |-> FALSE, file |-> NoRec, total |-> 0, granule |-> 0]

\* ogg_stream_flush_fill: max_ogg_delay is 0, so a packet is always flushed at
\* once, and it fits on one page: the stream holds nothing between calls.
Nominal == 255 * 255
Flushed(s) == PageOut(s, Nominal)
Rest(s)    == AfterPage(s, Nominal)

\* initRecorder of a file that takes both header packets, each on its page.
Header(r) == PacketIn(StreamInit(r), <<[r |-> r, k |-> -2]>>, FALSE, 0)
Tags(r)   == PacketIn(Rest(Header(r)), <<[r |-> r, k |-> -1]>>, FALSE, 0)
Opened(r) == [Closed EXCEPT !.encoder = TRUE, !.file = r]

\* The frame that n samples of the buffer make: cut or padded with silence.
FrameOf(buffer, n) ==
  IF n = 0 THEN <<>>
  ELSE [i \in 1..Frame |-> IF i <= n THEN buffer[i] ELSE Silence]

EncodedUncounted(n) ==  \* Mutant: the samples are not counted.
  [native EXCEPT !.granule = IF n = 0 THEN @ ELSE @ + Frame]

\* writeFrame: n samples of the buffer as the next packet.  Fewer samples
\* than a frame end the stream, at a position counted from the samples.
Encoded(n) ==
  [native EXCEPT !.total = @ + n, !.granule = IF n = 0 THEN @ ELSE @ + Frame]
Framed(buffer, n) ==
  PacketIn(os, FrameOf(buffer, n), n < Frame,
           IF n < Frame THEN Encoded(n).total + PreSkip ELSE Encoded(n).granule)

-----------------------------------------------------------------------------
Init ==
  /\ recordQ = <<>> /\ encodeQ = <<>> /\ uiQ = <<>> /\ busy = <<>>
  /\ mic = "none" /\ current = NoRec /\ sendAfterDone = FALSE
  /\ timeCount = 0 /\ dialog = NoRec
  /\ fileBuffer = [i \in 1..Frame |-> Silence] /\ pos = 0
  /\ native = Closed /\ os = StreamInit(NoRec)
  /\ files = [r \in Rec |-> <<>>]
  /\ outcome = [r \in Rec |-> "none"]
  /\ sentTo = [r \in Rec |-> NoRec]
  /\ crashed = FALSE
  /\ starts = 0 /\ stops = 0 /\ reads = 0 /\ fails = 0
  /\ spoken = [r \in Rec |-> <<>>]
  /\ asked = {}
  /\ flaws = [r \in Rec |-> {}]

\* What can be wrong with a recording: "overlap", it was started or encoded
\* while another one used the recorder; "cut", a short read did not begin a
\* frame or was not the only one; "mic", the microphone failed; "write", the
\* encoder or the file did.
FlawsWith(rs, flaw) ==
  [r \in Rec |-> IF r \in rs THEN flaws[r] \cup {flaw} ELSE flaws[r]]

-----------------------------------------------------------------------------
(* The user.                                                               *)

\* startRecording and stopRecording post to recordQueue.
AskStart ==
  /\ starts < MaxStarts
  /\ starts' = starts + 1
  /\ recordQ' = Append(recordQ, [is |-> "start", r |-> starts + 1])
  /\ UNCHANGED <<encodeQ, uiQ, busy, javaVars, bufferVars, nativeVars, outcome,
                 sentTo, crashed, stops, reads, fails, ghosts>>

AskStop(send) ==
  /\ stops < MaxStops
  /\ stops' = stops + 1
  /\ recordQ' = Append(recordQ, [is |-> "stop", send |-> send])
  /\ UNCHANGED <<encodeQ, uiQ, busy, javaVars, bufferVars, nativeVars, outcome,
                 sentTo, crashed, starts, reads, fails, ghosts>>

-----------------------------------------------------------------------------
(* recordQueue.                                                            *)

TaskIs(kind) == recordQ # <<>> /\ recordQ[1].is = kind

\* A recorder that is in use is not started again.
StartRefused ==
  /\ TaskIs("start")
  /\ mic # "none"
  /\ recordQ' = Tail(recordQ)
  /\ UNCHANGED <<encodeQ, uiQ, busy, javaVars, bufferVars, nativeVars, outcome,
                 sentTo, crashed, counters, ghosts>>

\* Recordings whose encoding or sending is still under way.
Pending == {r \in Rec : outcome[r] = "recording"}
Behind ==
  {encodeQ[i].r : i \in 1..Len(encodeQ)}
    \cup (IF busy = <<>> THEN {} ELSE {busy[1].r})

\* The globals are taken over whoever still uses them: a recording not dealt
\* with is disturbed, and so is the new one by what is left to encode.
TakeOver(r) ==
  flaws' = FlawsWith(Pending \cup (IF Behind # {} THEN {r} ELSE {}), "overlap")

\* startRecord and the microphone both work; the buffer is rewound.
Start ==
  /\ TaskIs("start")
  /\ mic = "none"
  /\ LET r == recordQ[1].r
     IN  /\ current' = r
         /\ dialog' = r
         /\ native' = Opened(r)
         /\ os' = Rest(Tags(r))
         /\ files' = [files EXCEPT ![r] = <<Flushed(Header(r)), Flushed(Tags(r))>>]
         /\ outcome' = [outcome EXCEPT ![r] = "recording"]
         /\ TakeOver(r)
  /\ mic' = "recording"
  /\ timeCount' = 0
  /\ pos' = 0
  /\ recordQ' = Append(Tail(recordQ), [is |-> "read"])
  /\ UNCHANGED <<encodeQ, uiQ, busy, sendAfterDone, fileBuffer, sentTo, crashed,
                 counters, spoken, asked>>

\* startRecord fails: the recorder before it is closed all the same, and the
\* names of the recording stay set.
StartFails(opened) ==
  /\ TaskIs("start")
  /\ mic = "none"
  /\ fails < MaxFails
  /\ fails' = fails + 1
  /\ LET r == recordQ[1].r
     IN  /\ current' = r
         /\ native' = IF opened THEN Opened(r) ELSE Closed
         /\ os' = IF opened THEN Rest(Header(r)) ELSE StreamInit(NoRec)
         /\ outcome' = [outcome EXCEPT ![r] = "refused"]
         /\ TakeOver(r)
  /\ recordQ' = Tail(recordQ)
  /\ UNCHANGED <<encodeQ, uiQ, busy, mic, sendAfterDone, timeCount, dialog,
                 bufferVars, files, sentTo, crashed, starts, stops, reads, spoken,
                 asked>>

\* The microphone cannot be had, or does not start, when the counters of the
\* recording are reset: stopRecord, on this queue, and the file is deleted.
MicFails ==
  /\ TaskIs("start")
  /\ mic = "none"
  /\ fails < MaxFails
  /\ fails' = fails + 1
  /\ LET r == recordQ[1].r
     IN  /\ \/ UNCHANGED <<timeCount, dialog, pos>>
            \/ timeCount' = 0 /\ dialog' = r /\ pos' = 0
         /\ outcome' = [outcome EXCEPT ![r] = "refused"]
         /\ TakeOver(r)
  /\ current' = NoRec
  /\ native' = Closed
  /\ os' = StreamInit(NoRec)
  /\ recordQ' = Tail(recordQ)
  /\ UNCHANGED <<encodeQ, uiQ, busy, mic, sendAfterDone, fileBuffer, files,
                 sentTo, crashed, starts, stops, reads, spoken, asked>>

\* The recorder is opened while the other thread is inside the encoder: the
\* globals are freed under it.
StartRaces ==
  /\ TaskIs("start")
  /\ mic = "none"
  /\ busy # <<>> \/ (encodeQ # <<>> /\ encodeQ[1].is = "close")
  /\ flaws' = FlawsWith({recordQ[1].r}, "overlap")
  /\ crashed' = TRUE
  /\ UNCHANGED <<queues, javaVars, bufferVars, nativeVars, outcome, sentTo,
                 counters, spoken, asked>>

ReleaseAlways(send, q) ==  \* Mutant: a cancelled one is sent too.
  /\ encodeQ' = Append(encodeQ, [is |-> "close", r |-> current])
  /\ outcome' = IF send THEN outcome
                ELSE [outcome EXCEPT ![current] = "cancelled"]
  /\ mic' = "none"
  /\ current' = NoRec
  /\ recordQ' = q

ReleaseFirst(send, q) ==  \* Mutant: closed before the data queued.
  /\ encodeQ' = IF send THEN <<[is |-> "close", r |-> current]>> \o encodeQ
                ELSE encodeQ
  /\ outcome' = IF send THEN outcome
                ELSE [outcome EXCEPT ![current] = "cancelled"]
  /\ mic' = "none"
  /\ current' = NoRec
  /\ recordQ' = q

\* stopRecordingInternal: what is sent is closed behind the data queued; what
\* is not sent stays open.
Release(send, q) ==
  /\ encodeQ' = IF send THEN Append(encodeQ, [is |-> "close", r |-> current])
                ELSE encodeQ
  /\ outcome' = IF send THEN outcome
                ELSE [outcome EXCEPT ![current] = "cancelled"]
  /\ mic' = "none"
  /\ current' = NoRec
  /\ recordQ' = q

\* recordRunnable reads n samples and queues them; a read that does not fill
\* the buffer flushes.  Once stopped, the microphone gives what it has left.
ReadMic(n) ==
  /\ TaskIs("read")
  /\ mic \in {"recording", "stopped"}
  /\ n \in 1..ReadSize
  /\ mic = "recording" => n = ReadSize
  /\ reads < MaxReads
  /\ reads' = reads + 1
  /\ LET k    == Len(spoken[current])
         data == [i \in 1..n |-> [r |-> current, k |-> k + i]]
     IN  /\ spoken' = [spoken EXCEPT ![current] = @ \o data]
         /\ encodeQ' = Append(encodeQ, [is |-> "data", r |-> current, data |-> data,
                                        flush |-> n # ReadSize])
         /\ flaws' =
              IF \/ n # ReadSize /\ (k % Frame # 0 \/ n > Frame)
                 \/ k % ReadSize # 0
              THEN FlawsWith({current}, "cut") ELSE flaws
  /\ recordQ' = Append(Tail(recordQ), [is |-> "read"])
  /\ UNCHANGED <<uiQ, busy, javaVars, bufferVars, nativeVars, outcome, sentTo,
                 crashed, starts, stops, fails, asked>>

\* Nothing more to read: the recording ends the way the last stop said.
ReadNothing ==
  /\ TaskIs("read")
  /\ mic = "stopped"
  /\ Release(sendAfterDone, Tail(recordQ))
  /\ UNCHANGED <<uiQ, busy, sendAfterDone, timeCount, dialog, bufferVars,
                 nativeVars, sentTo, crashed, counters, ghosts>>

\* The microphone fails while it records: the same, with a flag that the
\* last stop of an earlier recording set.
ReadFails ==
  /\ TaskIs("read")
  /\ mic = "recording"
  /\ fails < MaxFails
  /\ fails' = fails + 1
  /\ flaws' = FlawsWith({current}, "mic")
  /\ Release(sendAfterDone, Tail(recordQ))
  /\ UNCHANGED <<uiQ, busy, sendAfterDone, timeCount, dialog, bufferVars,
                 nativeVars, sentTo, crashed, starts, stops, reads, spoken, asked>>

\* The runnable finds no recorder and does not post itself again.
ReadNoMic ==
  /\ TaskIs("read")
  /\ mic = "none"
  /\ recordQ' = Tail(recordQ)
  /\ UNCHANGED <<encodeQ, uiQ, busy, javaVars, bufferVars, nativeVars, outcome,
                 sentTo, crashed, counters, ghosts>>

StopNoMic ==
  /\ TaskIs("stop")
  /\ mic = "none"
  /\ recordQ' = Tail(recordQ)
  /\ UNCHANGED <<encodeQ, uiQ, busy, javaVars, bufferVars, nativeVars, outcome,
                 sentTo, crashed, counters, ghosts>>

StopToSend ==
  /\ TaskIs("stop")
  /\ mic # "none"
  /\ recordQ[1].send
  /\ sendAfterDone' = TRUE
  /\ mic' = "stopped"
  /\ asked' = asked \cup {current}
  /\ recordQ' = Tail(recordQ)
  /\ UNCHANGED <<encodeQ, uiQ, busy, current, timeCount, dialog, bufferVars,
                 nativeVars, outcome, sentTo, crashed, counters, spoken,
                 flaws>>

StopToCancel ==
  /\ TaskIs("stop")
  /\ mic # "none"
  /\ ~recordQ[1].send
  /\ sendAfterDone' = FALSE
  /\ Release(FALSE, Tail(recordQ))
  /\ UNCHANGED <<uiQ, busy, timeCount, dialog, bufferVars, nativeVars, sentTo,
                 crashed, counters, ghosts>>

RecordQueue ==
  \/ StartRefused \/ Start \/ (\E b \in BOOLEAN : StartFails(b)) \/ MicFails
  \/ StartRaces
  \/ (\E n \in 1..ReadSize : ReadMic(n)) \/ ReadNothing \/ ReadFails \/ ReadNoMic
  \/ StopNoMic \/ StopToSend \/ StopToCancel

-----------------------------------------------------------------------------
(* fileEncodingQueue.                                                      *)

\* The next buffer is begun.
TakeBuffer ==
  /\ busy = <<>>
  /\ encodeQ # <<>> /\ encodeQ[1].is = "data"
  /\ busy' = <<[r |-> encodeQ[1].r, data |-> encodeQ[1].data,
                flush |-> encodeQ[1].flush, at |-> 0]>>
  /\ encodeQ' = Tail(encodeQ)
  /\ UNCHANGED <<recordQ, uiQ, javaVars, bufferVars, nativeVars, outcome, sentTo,
                 crashed, counters, ghosts>>

\* One turn of the loop moves as many samples as fileBuffer has room for.
MovedAll == Len(busy[1].data) - busy[1].at  \* Mutant: room is not looked at.

Moved ==
  LET b == busy[1]
  IN  IF Len(b.data) - b.at > Frame - pos THEN Frame - pos ELSE Len(b.data) - b.at
FilledFromStart ==  \* Mutant: the buffer is copied from its beginning.
  [i \in 1..Frame |-> IF i \in (pos + 1)..(pos + Moved)
                      THEN busy[1].data[i - pos] ELSE fileBuffer[i]]

Filled ==
  [i \in 1..Frame |-> IF i \in (pos + 1)..(pos + Moved)
                      THEN busy[1].data[busy[1].at + i - pos] ELSE fileBuffer[i]]
FrameIsDue == pos + Moved = Frame \/ busy[1].flush

\* The length given to writeFrame: when flushing, the position in the buffer
\* that was read and not the one in fileBuffer.
FrameLength == IF busy[1].flush THEN busy[1].at + Moved ELSE Frame

Advance ==
  /\ busy' = IF busy[1].at + Moved = Len(busy[1].data) THEN <<>>
             ELSE <<[busy[1] EXCEPT !.at = @ + Moved]>>
  /\ fileBuffer' = Filled

FillBuffer ==
  /\ busy # <<>>
  /\ ~FrameIsDue
  /\ Advance
  /\ pos' = pos + Moved
  /\ UNCHANGED <<recordQ, encodeQ, uiQ, javaVars, nativeVars, outcome, sentTo,
                 crashed, counters, ghosts>>

\* writeFrame succeeds: the page is in whatever file the recorder has open.
\* A stream that was cleared takes no packet.
WriteFrame ==
  /\ busy # <<>>
  /\ FrameIsDue
  /\ native.encoder \/ FrameLength = 0
  /\ Advance
  /\ pos' = 0
  /\ timeCount' = timeCount + 1
  /\ native' = Encoded(FrameLength)
  /\ IF native.file = NoRec THEN UNCHANGED <<os, files>>
     ELSE LET s == Framed(Filled, FrameLength)
          IN  /\ os' = Rest(s)
              /\ files' = [files EXCEPT ![native.file] = Append(@, Flushed(s))]
  /\ UNCHANGED <<recordQ, encodeQ, uiQ, mic, current, sendAfterDone, dialog,
                 outcome, sentTo, crashed, counters, ghosts>>

\* It fails: the encoder does, or the page cannot be written.  The buffer is
\* not rewound, so the loop tries again while it has samples left.
WriteFails(encoded) ==
  /\ busy # <<>>
  /\ FrameIsDue
  /\ native.encoder
  /\ fails < MaxFails
  /\ fails' = fails + 1
  /\ flaws' = FlawsWith({busy[1].r}, "write")
  /\ Advance
  /\ pos' = pos + Moved
  /\ IF encoded
     THEN /\ native' = Encoded(FrameLength)
          /\ os' = Rest(Framed(Filled, FrameLength))
     ELSE /\ native' = [native EXCEPT !.total = @ + FrameLength]
          /\ UNCHANGED os
  /\ UNCHANGED <<recordQ, encodeQ, uiQ, javaVars, files, outcome, sentTo, crashed,
                 starts, stops, reads, spoken, asked>>

\* opus_encode of an encoder that was destroyed: the process dies.
WriteCrashes ==
  /\ busy # <<>>
  /\ FrameIsDue
  /\ ~native.encoder /\ FrameLength # 0
  /\ crashed' = TRUE
  /\ UNCHANGED <<queues, javaVars, bufferVars, nativeVars, outcome, sentTo,
                 counters, ghosts>>

\* The task of stopRecordingInternal: the recorder is closed, whosever it is
\* by now, and the UI thread is told.
CloseRecorder ==
  /\ busy = <<>>
  /\ encodeQ # <<>> /\ encodeQ[1].is = "close"
  /\ native' = Closed
  /\ os' = StreamInit(NoRec)
  /\ uiQ' = Append(uiQ, encodeQ[1].r)
  /\ encodeQ' = Tail(encodeQ)
  /\ UNCHANGED <<recordQ, busy, javaVars, bufferVars, files, outcome, sentTo,
                 crashed, counters, ghosts>>

EncodingQueue ==
  \/ TakeBuffer \/ FillBuffer \/ WriteFrame \/ (\E b \in BOOLEAN : WriteFails(b))
  \/ WriteCrashes \/ CloseRecorder

\* The UI thread sends the file, to the chat that is named now, when the
\* duration counted by now is long enough.
SendOrDelete ==
  /\ uiQ # <<>>
  /\ LET r == uiQ[1]
     IN  IF timeCount > MinFrames
         THEN /\ outcome' = [outcome EXCEPT ![r] = "sent"]
              /\ sentTo' = [sentTo EXCEPT ![r] = dialog]
         ELSE /\ outcome' = [outcome EXCEPT ![r] = "deleted"]
              /\ UNCHANGED sentTo
  /\ uiQ' = Tail(uiQ)
  /\ UNCHANGED <<recordQ, encodeQ, busy, javaVars, bufferVars, nativeVars, crashed,
                 counters, ghosts>>

-----------------------------------------------------------------------------
\* Nothing runs in a process that died.
Next ==
  /\ ~crashed
  /\ \/ AskStart
     \/ \E send \in BOOLEAN : AskStop(send)
     \/ RecordQueue
     \/ EncodingQueue
     \/ SendOrDelete

Spec == Init /\ [][Next]_vars

\* Every queue is a thread with a looper, and it works through its tasks.
FairSpec ==
  /\ Spec
  /\ WF_vars(~crashed /\ RecordQueue)
  /\ WF_vars(~crashed /\ EncodingQueue)
  /\ WF_vars(~crashed /\ SendOrDelete)

-----------------------------------------------------------------------------
Outcomes == {"none", "refused", "recording", "cancelled", "sent", "deleted"}
Flaws == {"overlap", "cut", "mic", "write"}
Sample == [r : 0..MaxStarts, k : -2..(MaxReads * ReadSize)]

TypeOK ==
  /\ mic \in {"none", "recording", "stopped"}
  /\ current \in 0..MaxStarts /\ dialog \in 0..MaxStarts
  /\ {sendAfterDone, crashed} \subseteq BOOLEAN
  /\ fileBuffer \in [1..Frame -> Sample]
  /\ pos \in 0..Frame
  /\ native.file \in 0..MaxStarts
  /\ os.lacing = <<>> /\ os.body = <<>>
  /\ outcome \in [Rec -> Outcomes]
  /\ sentTo \in [Rec -> 0..MaxStarts]
  /\ flaws \in [Rec -> SUBSET Flaws]
  /\ mic # "none" => outcome[current] = "recording"

\* The audio of a file: its pages but the two headers, without the padding.
Unpadded(body) ==
  SubSeq(body, 1, Max({0} \cup {i \in 1..Len(body) : body[i] # Silence}))
AudioOf(pages) ==
  LET audio[i \in 2..Len(pages)] ==
        IF i = 2 THEN <<>> ELSE audio[i - 1] \o Unpadded(pages[i].body)
  IN  audio[Len(pages)]
Audio(r) == AudioOf(files[r])

\* A recording that is sent holds what was said, from the first sample on, in
\* order and with nothing of another recording; at most the beginning of a
\* last frame is missing.  Not so when another recording took the recorder
\* over, when the last read was short in the middle of a frame, or when
\* writing failed.
SentAsSpoken ==
  \A r \in Rec :
    outcome[r] = "sent" /\ flaws[r] \cap {"overlap", "cut", "write"} = {} =>
      /\ Len(Audio(r)) \in (Len(spoken[r]) - Frame + 1)..Len(spoken[r])
      /\ Audio(r) = SubSeq(spoken[r], 1, Len(Audio(r)))

\* A recording is sent only if the user asked for it, and to the chat it was
\* made in, and one that was long enough is not thrown away: unless another
\* one was started before it was dealt with, or the microphone failed and the
\* answer to an earlier recording was taken for this one.
SentAsAsked ==
  \A r \in Rec :
    /\ outcome[r] = "sent" /\ flaws[r] \cap {"overlap", "mic"} = {} =>
         r \in asked /\ sentTo[r] = r
    /\ outcome[r] = "deleted" /\ flaws[r] \cap {"overlap", "write"} = {} =>
         Len(spoken[r]) < (MinFrames + 1) * Frame

\* The file of a recording that nobody disturbed is one Ogg stream: its own
\* pages, numbered without a gap, at positions that do not go back, ended by
\* the first page that says so, whose position is the audio's length.
FileIsAStream ==
  \A r \in Rec :
    flaws[r] = {} =>
      \A i \in 1..Len(files[r]) :
        LET page == files[r][i]
        IN  /\ page.serialno = r
            /\ page.pageno = i - 1
            /\ page.bos <=> i = 1
            /\ i > 1 => page.granulepos >= files[r][i - 1].granulepos
            /\ page.eos => /\ i = Len(files[r])
                           /\ page.granulepos = Len(Audio(r)) + PreSkip

\* A recording the user stopped is sent, deleted or cancelled in the end, unless
\* the process dies: native code called on a recorder that is gone.  That
\* takes a recording that was started before the one before it was encoded.
StopIsAnswered ==
  \A r \in Rec :
    r \in asked ~> \/ outcome[r] \in {"sent", "deleted", "cancelled"}
                   \/ crashed /\ \E other \in Rec : "overlap" \in flaws[other]
=============================================================================
