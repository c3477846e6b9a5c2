------------------------- MODULE VoiceRecorder_proofs -------------------------
(* Theorems about VoiceRecorder, for frames and reads of any size and any    *)
(* number of recordings, stops, reads and failures: the types, and that what *)
(* is sent is what was said, when it was asked for and to whom, in a file    *)
(* that is one stream.                                                       *)
EXTENDS VoiceRecorder, OggFraming_proofs

-----------------------------------------------------------------------------
(* The audio of a file.                                                    *)

IsAudio(g, pages, n) ==
  g = [i \in 2..n |-> IF i = 2 THEN <<>> ELSE g[i - 1] \o Unpadded(pages[i].body)]

LEMMA AudioExists ==
  ASSUME NEW pages, NEW n \in Nat, n >= 2
  PROVE  \E g : IsAudio(g, pages, n)
<1> DEFINE T == {m \in Nat : m >= 2 /\ ~ \E g : IsAudio(g, pages, m)}
<1> SUFFICES ASSUME T # {} PROVE FALSE
  OBVIOUS
<1>1. PICK m \in T : \A k \in T : m <= k
  BY LeastNat
<1>2. IsAudio([i \in 2..2 |-> <<>>], pages, 2)
  BY DEF IsAudio
<1>3. m > 2
  BY <1>1, <1>2
<1>4. PICK g : IsAudio(g, pages, m - 1)
  BY <1>1, <1>3
<1> DEFINE h == [i \in 2..m |-> IF i < m THEN g[i]
                                ELSE g[m - 1] \o Unpadded(pages[m].body)]
<1>5. IsAudio(h, pages, m)
  BY <1>1, <1>3, <1>4 DEF IsAudio
<1> QED
  BY <1>1, <1>5

LEMMA AudioIsUnique ==
  ASSUME NEW pages, NEW n \in Nat, NEW g, NEW h,
         IsAudio(g, pages, n), IsAudio(h, pages, n)
  PROVE  g = h
<1> DEFINE T == {m \in 2..n : g[m] # h[m]}
<1>1. g = [i \in 2..n |-> g[i]] /\ h = [i \in 2..n |-> h[i]]
  BY DEF IsAudio
<1>2. SUFFICES ASSUME T # {} PROVE FALSE
  BY <1>1
<1>3. T \subseteq Nat
  OBVIOUS
<1>4. PICK m \in T : \A k \in T : m <= k
  <2> HIDE DEF T
  <2> QED
    BY <1>2, <1>3, LeastNat
<1>5. m # 2
  <2>1. CASE m = 2
    <3>1. g[2] = <<>> /\ h[2] = <<>>
      BY <1>4, <2>1 DEF IsAudio
    <3> QED
      BY <1>4, <2>1, <3>1
  <2> QED
    BY <2>1
<1>6. m - 1 \in 2..n /\ g[m - 1] = h[m - 1]
  BY <1>4, <1>5
<1>7. /\ g[m] = g[m - 1] \o Unpadded(pages[m].body)
      /\ h[m] = h[m - 1] \o Unpadded(pages[m].body)
  BY <1>4, <1>5 DEF IsAudio
<1> QED
  BY <1>4, <1>6, <1>7

\* The headers have no audio, and every page adds its own.
LEMMA AudioGrows ==
  ASSUME NEW S, NEW pages \in Seq(S), NEW page \in S, Len(pages) >= 2
  PROVE  AudioOf(Append(pages, page)) = AudioOf(pages) \o Unpadded(page.body)
<1> DEFINE n == Len(pages)
           more == Append(pages, page)
           A(ps, k) == CHOOSE g : IsAudio(g, ps, k)
<1>1. /\ n \in Nat /\ n >= 2 /\ Len(more) = n + 1 /\ more[n + 1] = page
      /\ \A i \in 1..n : more[i] = pages[i]
  OBVIOUS
<1>2. AudioOf(pages) = A(pages, n)[n] /\ AudioOf(more) = A(more, n + 1)[n + 1]
  BY <1>1 DEF AudioOf, IsAudio
<1>3. IsAudio(A(pages, n), pages, n)
  BY <1>1, AudioExists
<1>4. IsAudio(A(more, n + 1), more, n + 1)
  BY <1>1, AudioExists
<1> HIDE DEF A, more, n
<1> DEFINE g == [i \in 2..n |-> A(more, n + 1)[i]]
<1>5. IsAudio(g, pages, n)
  <2>1. \A i \in 2..(n + 1) :
          A(more, n + 1)[i] =
            IF i = 2 THEN <<>> ELSE A(more, n + 1)[i - 1] \o Unpadded(more[i].body)
    BY <1>4 DEF IsAudio
  <2>2. \A i \in 2..n : /\ i \in 2..(n + 1) /\ i \in 1..n
                       /\ i # 2 => i - 1 \in 2..n
    BY <1>1
  <2>3. \A i \in 2..n :
          g[i] = IF i = 2 THEN <<>> ELSE g[i - 1] \o Unpadded(pages[i].body)
    BY <1>1, <2>1, <2>2
  <2>4. g = [i \in 2..n |-> g[i]]
    OBVIOUS
  <2> HIDE DEF g
  <2> QED
    BY <2>3, <2>4 DEF IsAudio
<1>6. g = A(pages, n)
  BY <1>1, <1>3, <1>5, AudioIsUnique
<1>7. A(more, n + 1)[n + 1] = A(more, n + 1)[n] \o Unpadded(page.body)
  BY <1>1, <1>4 DEF IsAudio
<1>8. A(more, n + 1)[n] = A(pages, n)[n]
  BY <1>1, <1>6
<1> QED
  BY <1>2, <1>7, <1>8 DEF more

LEMMA HeadersAreSilent ==
  ASSUME NEW pages, Len(pages) = 2
  PROVE  AudioOf(pages) = <<>>
<1> DEFINE A == CHOOSE g : IsAudio(g, pages, 2)
<1>1. AudioOf(pages) = A[2]
  BY DEF AudioOf, IsAudio
<1>2. IsAudio(A, pages, 2)
  BY AudioExists
<1> HIDE DEF A
<1> QED
  BY <1>1, <1>2 DEF IsAudio

\* A frame without its padding is the samples it was made of.
LEMMA FrameHolds ==
  ASSUME NEW buffer \in [1..Frame -> Sample], NEW n \in 1..Frame,
         \A i \in 1..n : buffer[i] # Silence
  PROVE  /\ Unpadded(FrameOf(buffer, n)) \in Seq(Sample)
         /\ Len(Unpadded(FrameOf(buffer, n))) = n
         /\ \A i \in 1..n : Unpadded(FrameOf(buffer, n))[i] = buffer[i]
<1> DEFINE body == FrameOf(buffer, n)
           Heard == {0} \cup {i \in 1..Len(body) : body[i] # Silence}
<1>1. Frame \in Nat \ {0} /\ MaxStarts \in Nat
  BY RecorderAssumption
<1>2. body = [i \in 1..Frame |-> IF i <= n THEN buffer[i] ELSE Silence]
  BY <1>1 DEF FrameOf
<1>3. Silence \in Sample
  BY <1>1, RecorderAssumption DEF Silence, Sample, NoRec
<1>4. body \in Seq(Sample) /\ Len(body) = Frame
  BY <1>1, <1>2, <1>3
<1>5. n \in Heard /\ \A i \in Heard : n >= i
  BY <1>1, <1>2, <1>4
<1>6. Max(Heard) = n
  <2>1. Heard \subseteq Nat
    BY <1>4
  <2> HIDE DEF Heard
  <2>2. \A x \in Heard : (\A y \in Heard : x >= y) => x = n
    BY <1>5, <2>1
  <2>3. (CHOOSE x \in Heard : \A y \in Heard : x >= y) = n
    BY <1>5, <2>2
  <2> QED
    BY <2>3 DEF Max
<1>7. Unpadded(body) = SubSeq(body, 1, n)
  BY <1>6 DEF Unpadded
<1>8. \A i \in 1..n : body[i] = buffer[i]
  BY <1>1, <1>2
<1> HIDE DEF body
<1>9. /\ SubSeq(body, 1, n) \in Seq(Sample) /\ Len(SubSeq(body, 1, n)) = n
      /\ \A i \in 1..n : SubSeq(body, 1, n)[i] = body[i]
  BY <1>1, <1>4
<1> QED
  BY <1>7, <1>8, <1>9 DEF body
-----------------------------------------------------------------------------
(* The types.                                                              *)

RecordTask ==
  [is : {"start"}, r : Rec] \cup [is : {"stop"}, send : BOOLEAN] \cup [is : {"read"}]
EncodeTask ==
  [is : {"data"}, r : Rec, data : Seq(Sample), flush : BOOLEAN]
    \cup [is : {"close"}, r : Rec]
InWork == [r : Rec, data : Seq(Sample), flush : BOOLEAN, at : Nat]

TaskTypes ==
  /\ recordQ \in Seq(RecordTask)
  /\ encodeQ \in Seq(EncodeTask)
  /\ uiQ \in Seq(Rec)
  /\ busy # <<>> => busy = <<busy[1]>> /\ busy[1] \in InWork

JavaTypes ==
  /\ mic \in {"none", "recording", "stopped"}
  /\ current \in 0..MaxStarts /\ dialog \in 0..MaxStarts
  /\ sendAfterDone \in BOOLEAN /\ crashed \in BOOLEAN
  /\ timeCount \in Nat
  /\ fileBuffer \in [1..Frame -> Sample]
  /\ pos \in 0..Frame

NativeTypes ==
  /\ native \in [encoder : BOOLEAN, file : 0..MaxStarts, total : Nat, granule : Nat]
  /\ os \in Rested
  /\ os.serialno \in 0..MaxStarts
  /\ files \in [Rec -> Seq(Page(Sample))]

GhostTypes ==
  /\ outcome \in [Rec -> Outcomes]
  /\ sentTo \in [Rec -> 0..MaxStarts]
  /\ starts \in 0..MaxStarts /\ stops \in Nat /\ reads \in 0..MaxReads /\ fails \in Nat
  /\ spoken \in [Rec -> Seq(Sample)]
  /\ asked \subseteq Rec
  /\ flaws \in [Rec -> SUBSET Flaws]
  /\ mic # "none" => current \in Rec

\* What is queued and spoken is numbered: a sample says where it was said.
Before(data) == data[1].k - 1
Numbered(data, r, k) ==
  \A i \in 1..Len(data) : data[i] = [r |-> r, k |-> k + i]

\* A buffer holds a read: all of one recording, of which n samples were spoken.
IsRead(b, n) ==
  /\ Len(b.data) \in 1..ReadSize
  /\ b.flush = (Len(b.data) # ReadSize)
  /\ Before(b.data) \in Nat
  /\ Before(b.data) + Len(b.data) <= n
  /\ Numbered(b.data, b.r, Before(b.data))

SampleTypes ==
  /\ \A r \in Rec : Len(spoken[r]) <= reads * ReadSize /\ Numbered(spoken[r], r, 0)
  /\ \A i \in 1..Len(encodeQ) : encodeQ[i].is = "data" =>
       IsRead(encodeQ[i], Len(spoken[encodeQ[i].r]))
  /\ busy # <<>> =>
       IsRead(busy[1], Len(spoken[busy[1].r])) /\ busy[1].at < Len(busy[1].data)

Types == TaskTypes /\ JavaTypes /\ NativeTypes /\ GhostTypes /\ SampleTypes

-----------------------------------------------------------------------------
(* Each recording is begun and dealt with once.                            *)

IsStart(i) == recordQ[i].is = "start"
IsClose(i) == encodeQ[i].is = "close"

\* A start that is queued is the only one of its recording, which was not
\* begun yet.
StartsWait ==
  /\ \A i \in 1..Len(recordQ) : IsStart(i) =>
       recordQ[i].r <= starts /\ outcome[recordQ[i].r] = "none"
  /\ \A i, j \in 1..Len(recordQ) :
       IsStart(i) /\ IsStart(j) /\ recordQ[i].r = recordQ[j].r => i = j
  /\ \A r \in Rec : r > starts => outcome[r] = "none"

\* A recording that was not begun has left no trace.
NoTrace ==
  \A r \in Rec : outcome[r] = "none" =>
    spoken[r] = <<>> /\ files[r] = <<>> /\ native.file # r

OnlyBegun ==
  /\ \A i \in 1..Len(encodeQ) : outcome[encodeQ[i].r] # "none"
  /\ busy # <<>> => outcome[busy[1].r] # "none"

BegunOnce == StartsWait /\ NoTrace /\ OnlyBegun

\* A recording to be sent: it is over, and the user asked, or the microphone
\* failed.
ToSend(r) ==
  /\ outcome[r] = "recording"
  /\ mic # "none" => current # r
  /\ r \in asked \/ "mic" \in flaws[r]

\* The microphone's recording.
MicIsOn ==
  /\ mic # "none" => outcome[current] = "recording"
  /\ mic = "stopped" => sendAfterDone /\ current \in asked

WaitToSend ==
  /\ \A i \in 1..Len(encodeQ) : IsClose(i) => ToSend(encodeQ[i].r)
  /\ \A i \in 1..Len(uiQ) : ToSend(uiQ[i])

WaitOnce ==
  /\ \A i, j \in 1..Len(encodeQ) :
       IsClose(i) /\ IsClose(j) /\ encodeQ[i].r = encodeQ[j].r => i = j
  /\ \A i, j \in 1..Len(uiQ) : uiQ[i] = uiQ[j] => i = j
  /\ \A i \in 1..Len(encodeQ), j \in 1..Len(uiQ) : IsClose(i) => encodeQ[i].r # uiQ[j]

ClosedOnce == MicIsOn /\ WaitToSend /\ WaitOnce

-----------------------------------------------------------------------------
(* A recording no other one overlaps with has the recorder to itself.      *)

Alone(r) == "overlap" \notin flaws[r]
Begun(r) == outcome[r] \in {"recording", "cancelled"}
Closing(r) == \E i \in 1..Len(uiQ) : uiQ[i] = r

\* The recorder is open for it, and all there is to encode is its.
HasRecorder(r) ==
  /\ native.encoder
  /\ Begun(r) \/ (outcome[r] = "refused" /\ encodeQ = <<>> /\ busy = <<>>)
  /\ \A i \in 1..Len(encodeQ) : encodeQ[i].r = r
  /\ busy # <<>> => busy[1].r = r
  /\ mic # "none" => current = r
  /\ \A i \in 1..Len(encodeQ) : IsClose(i) => i = Len(encodeQ) /\ mic = "none"

\* It was closed, and waits for the UI thread.
LeftRecorder(r) ==
  native = Closed /\ mic = "none" /\ encodeQ = <<>> /\ busy = <<>>

OwnedBy(r) ==
  Alone(r) =>
    /\ native.file = r => HasRecorder(r)
    /\ outcome[r] = "recording" =>
         /\ dialog = r
         /\ IF Closing(r) THEN LeftRecorder(r) ELSE native.file = r

Owned == \A r \in Rec : OwnedBy(r)

Live(r) == Alone(r) /\ Begun(r) /\ (native.file = r \/ outcome[r] = "recording")

-----------------------------------------------------------------------------
(* What is spoken is encoded in order.                                     *)

\* How much of a recording comes before the i-th task.
From(r, i) ==
  IF i <= Len(encodeQ) /\ encodeQ[i].is = "data" THEN Before(encodeQ[i].data)
  ELSE Len(spoken[r])

\* How much of it went into fileBuffer.
Consumed(r) ==
  IF busy # <<>> THEN Before(busy[1].data) + busy[1].at ELSE From(r, 1)

Follow(r) ==
  /\ busy # <<>> => Before(busy[1].data) + Len(busy[1].data) = From(r, 1)
  /\ \A i \in 1..Len(encodeQ) : encodeQ[i].is = "data" =>
       Before(encodeQ[i].data) + Len(encodeQ[i].data) = From(r, i + 1)

InSequence == \A r \in Rec : Live(r) => Follow(r)

\* The frames counted and the buffer hold at least that.
Counted ==
  \A r \in Rec : Live(r) /\ "write" \notin flaws[r] =>
    /\ pos < Frame
    /\ Consumed(r) <= timeCount * Frame + pos

-----------------------------------------------------------------------------
(* What is encoded is what was spoken.                                     *)

Clean(r) == flaws[r] \cap {"overlap", "cut", "write"} = {}

\* A short read is the last one of the n samples, and begins a frame.
LastRead(b, n) ==
  b.flush =>
    /\ Before(b.data) % Frame = 0
    /\ Len(b.data) <= Frame
    /\ Before(b.data) + Len(b.data) = n
    /\ n % ReadSize # 0

InOrder(r) ==
  /\ \A i \in 1..Len(encodeQ) : encodeQ[i].is = "data" => LastRead(encodeQ[i], Len(spoken[r]))
  /\ busy # <<>> => LastRead(busy[1], Len(spoken[r])) /\ (busy[1].flush => busy[1].at = 0)

ShortReadIsLast == \A r \in Rec : Live(r) /\ Clean(r) => InOrder(r)

\* The file, and then fileBuffer, hold what was consumed.
Holds(r) ==
  /\ Len(files[r]) >= 2
  /\ Audio(r) \in Seq(Sample)
  /\ Len(Audio(r)) + pos = Consumed(r)
  /\ Numbered(Audio(r), r, 0)
  /\ \A i \in 1..pos : fileBuffer[i] = [r |-> r, k |-> Len(Audio(r)) + i]

InFile == \A r \in Rec : Live(r) /\ Clean(r) => Holds(r)

\* The stream of the recorder goes on where the file ends.
GoesOn(r) ==
  /\ os.serialno = r /\ os.pageno = Len(files[r]) /\ os.bos = TRUE
  /\ native.total = Len(Audio(r))
  /\ os.eos => /\ Consumed(r) = Len(spoken[r]) /\ pos = 0
               /\ Len(spoken[r]) % ReadSize # 0
  /\ ~os.eos =>
       /\ native.granule = native.total
       /\ \E m \in Nat : native.total = m * Frame
       /\ \A i \in 1..Len(files[r]) :
            ~files[r][i].eos /\ files[r][i].granulepos <= native.granule

StreamGoesOn == \A r \in Rec : Live(r) /\ Clean(r) /\ native.file = r => GoesOn(r)

Stream(r) ==
  \A i \in 1..Len(files[r]) :
    LET page == files[r][i]
    IN  /\ page.serialno = r
        /\ page.pageno = i - 1
        /\ page.bos <=> i = 1
        /\ i > 1 => page.granulepos >= files[r][i - 1].granulepos
        /\ page.eos => /\ i = Len(files[r])
                       /\ page.granulepos = Len(Audio(r)) + PreSkip

Streams == \A r \in Rec : Clean(r) => Stream(r)

-----------------------------------------------------------------------------
(* The types hold.                                                         *)

LEMMA Constants ==
  /\ Frame \in Nat \ {0} /\ ReadSize \in Nat \ {0}
  /\ PreSkip \in Nat /\ MinFrames \in Nat /\ MaxStarts \in Nat /\ MaxReads \in Nat
  /\ Rec \subseteq Nat /\ Rec = 1..MaxStarts /\ NoRec = 0 /\ Silence \in Sample
<1>1. /\ Frame \in Nat \ {0} /\ ReadSize \in Nat \ {0}
      /\ PreSkip \in Nat /\ MinFrames \in Nat /\ MaxStarts \in Nat /\ MaxReads \in Nat
  BY RecorderAssumption
<1>2. MaxReads * ReadSize \in Nat
  BY <1>1
<1> QED
  BY <1>1, <1>2 DEF Rec, NoRec, Silence, Sample

LEMMA Posted ==
  ASSUME NEW S, NEW q \in Seq(S), NEW t \in S
  PROVE  /\ Append(q, t) \in Seq(S)
         /\ Len(Append(q, t)) = Len(q) + 1
         /\ \A i \in 1..Len(q) : Append(q, t)[i] = q[i]
         /\ Append(q, t)[Len(q) + 1] = t
OBVIOUS

LEMMA Taken ==
  ASSUME NEW S, NEW q \in Seq(S), q # <<>>
  PROVE  /\ q[1] \in S /\ Len(q) \in Nat /\ Len(q) > 0
         /\ Tail(q) \in Seq(S)
         /\ Len(Tail(q)) = Len(q) - 1
         /\ \A i \in 1..(Len(q) - 1) : Tail(q)[i] = q[i + 1]
OBVIOUS

LEMMA FlawsWithType ==
  ASSUME flaws \in [Rec -> SUBSET Flaws], NEW rs, NEW f \in Flaws
  PROVE  /\ FlawsWith(rs, f) \in [Rec -> SUBSET Flaws]
         /\ \A r \in Rec : FlawsWith(rs, f)[r] = IF r \in rs THEN flaws[r] \cup {f}
                                                 ELSE flaws[r]
BY DEF FlawsWith

\* A full read of samples is still a sample's number.
LEMMA ReadsFit ==
  ASSUME NEW m \in Nat, NEW n \in Nat, m < n
  PROVE  m * ReadSize + ReadSize <= n * ReadSize
<1>1. ReadSize \in Nat
  BY Constants
<1>2. m * ReadSize + ReadSize = (m + 1) * ReadSize
  BY <1>1
<1>3. PICK d \in Nat : n = (m + 1) + d
  <2>1. n - (m + 1) \in Nat /\ n = (m + 1) + (n - (m + 1))
    OBVIOUS
  <2> QED
    BY <2>1
<1>4. n * ReadSize = (m + 1) * ReadSize + d * ReadSize
  BY <1>1, <1>3
<1>5. d * ReadSize \in Nat /\ (m + 1) * ReadSize \in Nat /\ n * ReadSize \in Nat
  BY <1>1
<1> QED
  BY <1>2, <1>4, <1>5

LEMMA MovedFits ==
  ASSUME Types, busy # <<>>
  PROVE  /\ busy = <<busy[1]>> /\ busy[1] \in InWork
         /\ Moved \in Nat /\ pos + Moved <= Frame
         /\ Moved <= Len(busy[1].data) - busy[1].at
         /\ pos < Frame => Moved > 0
         /\ pos + Moved = Frame \/ busy[1].at + Moved = Len(busy[1].data)
         /\ FrameLength \in Nat
<1>2. busy = <<busy[1]>> /\ busy[1] \in InWork
  BY DEF Types, TaskTypes
<1>3. busy[1].at \in Nat /\ busy[1].data \in Seq(Sample)
  BY <1>2 DEF InWork
<1>4. busy[1].at < Len(busy[1].data)
  BY DEF Types, SampleTypes
<1>5. pos \in 0..Frame /\ Frame \in Nat
  BY Constants DEF Types, JavaTypes
<1> QED
  BY <1>2, <1>3, <1>4, <1>5 DEF Moved, FrameLength

\* The samples of a read.
Spoken(n) ==
  [i \in 1..n |-> [r |-> current, k |-> Len(spoken[current]) + i]]

LEMMA ReadIsSamples ==
  ASSUME Types, NEW n \in 1..ReadSize, ReadMic(n)
  PROVE  /\ current \in Rec /\ n \in Nat /\ n > 0
         /\ Spoken(n) \in Seq(Sample) /\ Len(Spoken(n)) = n
         /\ Len(spoken[current]) \in Nat
         /\ spoken' = [spoken EXCEPT ![current] = spoken[current] \o Spoken(n)]
         /\ encodeQ' = Append(encodeQ, [is |-> "data", r |-> current, data |-> Spoken(n),
                                         flush |-> n # ReadSize])
<1>1. /\ reads \in 0..MaxReads /\ Len(spoken[current]) <= reads * ReadSize
      /\ spoken[current] \in Seq(Sample) /\ current \in Rec
  BY DEF ReadMic, Types, GhostTypes, SampleTypes
<1> DEFINE k == Len(spoken[current])
<1>2. \A i \in 1..n : [r |-> current, k |-> k + i] \in Sample
  <2>1. reads * ReadSize + ReadSize <= MaxReads * ReadSize
    BY <1>1, Constants, ReadsFit DEF ReadMic
  <2>2. reads * ReadSize \in Nat /\ MaxReads * ReadSize \in Nat /\ k \in Nat
    BY <1>1, Constants
  <2>3. \A i \in 1..n : k + i \in -2..(MaxReads * ReadSize)
    BY <1>1, <2>1, <2>2, Constants
  <2>4. current \in 0..MaxStarts
    BY <1>1, Constants
  <2> QED
    BY <2>3, <2>4 DEF Sample
<1>3. Spoken(n) \in Seq(Sample) /\ Len(Spoken(n)) = n
  BY <1>2, Constants DEF Spoken
<1>4. /\ spoken' = [spoken EXCEPT ![current] = spoken[current] \o Spoken(n)]
      /\ encodeQ' = Append(encodeQ, [is |-> "data", r |-> current, data |-> Spoken(n),
                                      flush |-> n # ReadSize])
  BY DEF ReadMic, Spoken
<1> QED
  BY <1>1, <1>3, <1>4, Constants

LEMMA TaskTypesStep ==
  ASSUME Types, [Next]_vars
  PROVE  TaskTypes'
<1> DEFINE G == TaskTypes'
<1>1. TaskTypes
  BY DEF Types
<1>2. /\ recordQ # <<>> => Tail(recordQ) \in Seq(RecordTask) /\ recordQ[1] \in RecordTask
      /\ Append(recordQ, [is |-> "read"]) \in Seq(RecordTask)
      /\ \A q \in Seq(RecordTask) : Append(q, [is |-> "read"]) \in Seq(RecordTask)
  BY <1>1, Posted, Taken DEF TaskTypes, RecordTask
<1>3. /\ encodeQ # <<>> => Tail(encodeQ) \in Seq(EncodeTask) /\ encodeQ[1] \in EncodeTask
      /\ \A r \in Rec : Append(encodeQ, [is |-> "close", r |-> r]) \in Seq(EncodeTask)
  BY <1>1, Posted, Taken DEF TaskTypes, EncodeTask
<1>4. /\ uiQ # <<>> => Tail(uiQ) \in Seq(Rec)
      /\ \A r \in Rec : Append(uiQ, r) \in Seq(Rec)
  BY <1>1, Posted, Taken DEF TaskTypes
<1>5. mic # "none" => current \in Rec
  BY DEF Types, GhostTypes
<1>6. ASSUME busy # <<>>, Advance
      PROVE  busy' # <<>> => busy' = <<busy'[1]>> /\ busy'[1] \in InWork
  <2> DEFINE b == [busy[1] EXCEPT !.at = busy[1].at + Moved]
  <2>1. b \in InWork
    BY <1>6, MovedFits DEF InWork
  <2>2. busy' = <<>> \/ busy' = <<b>>
    BY <1>6 DEF Advance
  <2> HIDE DEF b
  <2> QED
    BY <2>1, <2>2
<1>7. CASE AskStart
  <2>1. [is |-> "start", r |-> starts + 1] \in RecordTask
    <3>1. starts + 1 \in Rec
      BY <1>7, Constants DEF AskStart, Types, GhostTypes
    <3> QED
      BY <3>1 DEF RecordTask
  <2>2. recordQ' \in Seq(RecordTask)
    BY <1>7, <1>1, <2>1, Posted DEF AskStart, TaskTypes
  <2> QED
    BY <1>7, <1>1, <2>2 DEF AskStart, TaskTypes
<1>8. ASSUME NEW send \in BOOLEAN, AskStop(send) PROVE G
  <2>1. [is |-> "stop", send |-> send] \in RecordTask
    BY DEF RecordTask
  <2>2. recordQ' \in Seq(RecordTask)
    BY <1>8, <1>1, <2>1, Posted DEF AskStop, TaskTypes
  <2> QED
    BY <1>8, <1>1, <2>2 DEF AskStop, TaskTypes
<1>9. CASE StartRefused
  BY <1>9, <1>1, <1>2, <1>3, <1>4, <1>5 DEF StartRefused, TaskTypes, vars, queues, javaVars, bufferVars, nativeVars, counters, ghosts, TaskIs, Release
<1>10. CASE Start
  BY <1>10, <1>1, <1>2, <1>3, <1>4, <1>5 DEF Start, TaskTypes, vars, queues, javaVars, bufferVars, nativeVars, counters, ghosts, TaskIs, Release
<1>11. ASSUME NEW b \in BOOLEAN, StartFails(b) PROVE G
  BY <1>11, <1>1, <1>2, <1>3, <1>4, <1>5 DEF StartFails, TaskTypes, vars, queues, javaVars, bufferVars, nativeVars, counters, ghosts, TaskIs, Release
<1>12. CASE MicFails
  BY <1>12, <1>1, <1>2, <1>3, <1>4, <1>5 DEF MicFails, TaskTypes, vars, queues, javaVars, bufferVars, nativeVars, counters, ghosts, TaskIs, Release
<1>13. CASE StartRaces
  BY <1>13, <1>1, <1>2, <1>3, <1>4, <1>5 DEF StartRaces, TaskTypes, vars, queues, javaVars, bufferVars, nativeVars, counters, ghosts, TaskIs, Release
<1>14. ASSUME NEW n \in 1..ReadSize, ReadMic(n) PROVE G
  <2> DEFINE t == [is |-> "data", r |-> current, data |-> Spoken(n), flush |-> n # ReadSize]
  <2>1. t \in EncodeTask /\ encodeQ' = Append(encodeQ, t)
    BY <1>14, ReadIsSamples DEF EncodeTask
  <2>2. encodeQ' \in Seq(EncodeTask)
    <3> HIDE DEF t
    <3> QED
      BY <1>1, <2>1, Posted DEF TaskTypes
  <2>3. recordQ # <<>> /\ UNCHANGED <<uiQ, busy>>
        /\ recordQ' = Append(Tail(recordQ), [is |-> "read"])
    BY <1>14 DEF ReadMic, TaskIs
  <2> QED
    BY <1>1, <1>2, <2>2, <2>3 DEF TaskTypes
<1>15. CASE ReadNothing
  BY <1>15, <1>1, <1>2, <1>3, <1>4, <1>5 DEF ReadNothing, TaskTypes, vars, queues, javaVars, bufferVars, nativeVars, counters, ghosts, TaskIs, Release
<1>16. CASE ReadFails
  BY <1>16, <1>1, <1>2, <1>3, <1>4, <1>5 DEF ReadFails, TaskTypes, vars, queues, javaVars, bufferVars, nativeVars, counters, ghosts, TaskIs, Release
<1>17. CASE ReadNoMic
  BY <1>17, <1>1, <1>2, <1>3, <1>4, <1>5 DEF ReadNoMic, TaskTypes, vars, queues, javaVars, bufferVars, nativeVars, counters, ghosts, TaskIs, Release
<1>18. CASE StopNoMic
  BY <1>18, <1>1, <1>2, <1>3, <1>4, <1>5 DEF StopNoMic, TaskTypes, vars, queues, javaVars, bufferVars, nativeVars, counters, ghosts, TaskIs, Release
<1>19. CASE StopToSend
  BY <1>19, <1>1, <1>2, <1>3, <1>4, <1>5 DEF StopToSend, TaskTypes, vars, queues, javaVars, bufferVars, nativeVars, counters, ghosts, TaskIs, Release
<1>20. CASE StopToCancel
  BY <1>20, <1>1, <1>2, <1>3, <1>4, <1>5 DEF StopToCancel, TaskTypes, vars, queues, javaVars, bufferVars, nativeVars, counters, ghosts, TaskIs, Release
<1>21. CASE TakeBuffer
  <2>1. /\ encodeQ[1].r \in Rec /\ encodeQ[1].data \in Seq(Sample)
        /\ encodeQ[1].flush \in BOOLEAN
    BY <1>21, <1>3 DEF TakeBuffer, EncodeTask
  <2>2. [r |-> encodeQ[1].r, data |-> encodeQ[1].data, flush |-> encodeQ[1].flush,
         at |-> 0] \in InWork
    BY <2>1 DEF InWork
  <2>3. busy' = <<busy'[1]>> /\ busy'[1] \in InWork
    BY <1>21, <2>2 DEF TakeBuffer
  <2> QED
    BY <1>21, <1>1, <1>3, <2>3 DEF TakeBuffer, TaskTypes
<1>22. CASE FillBuffer
  BY <1>22, <1>1, <1>6 DEF FillBuffer, TaskTypes
<1>23. CASE WriteFrame
  BY <1>23, <1>1, <1>6 DEF WriteFrame, TaskTypes
<1>24. ASSUME NEW b \in BOOLEAN, WriteFails(b) PROVE G
  BY <1>24, <1>1, <1>6 DEF WriteFails, TaskTypes
<1>25. CASE WriteCrashes
  BY <1>25, <1>1, <1>2, <1>3, <1>4, <1>5 DEF WriteCrashes, TaskTypes, vars, queues, javaVars, bufferVars, nativeVars, counters, ghosts, TaskIs, Release
<1>26. CASE CloseRecorder
  <2>1. encodeQ[1].r \in Rec
    BY <1>26, <1>3 DEF CloseRecorder, EncodeTask
  <2> QED
    BY <1>26, <1>1, <1>3, <1>4, <2>1 DEF CloseRecorder, TaskTypes
<1>27. CASE SendOrDelete
  BY <1>27, <1>1, <1>2, <1>3, <1>4, <1>5 DEF SendOrDelete, TaskTypes, vars, queues, javaVars, bufferVars, nativeVars, counters, ghosts, TaskIs, Release
<1>28. CASE UNCHANGED vars
  BY <1>28, <1>1, <1>2, <1>3, <1>4, <1>5 DEF TaskTypes, vars, queues, javaVars, bufferVars, nativeVars, counters, ghosts, TaskIs, Release
<1> QED
  BY <1>7, <1>8, <1>9, <1>10, <1>11, <1>12, <1>13, <1>14, <1>15, <1>16, <1>17,
     <1>18, <1>19, <1>20, <1>21, <1>22, <1>23, <1>24, <1>25, <1>26, <1>27,
     <1>28 DEF Next, RecordQueue, EncodingQueue


LEMMA FilledIsSamples ==
  ASSUME Types, busy # <<>>
  PROVE  Filled \in [1..Frame -> Sample]
<1>1. JavaTypes /\ Frame \in Nat \ {0}
  BY Constants DEF Types
<1>2. /\ busy[1].data \in Seq(Sample) /\ busy[1].at \in Nat /\ Moved \in Nat
      /\ Moved <= Len(busy[1].data) - busy[1].at /\ pos + Moved <= Frame
      /\ pos \in Nat
  BY <1>1, MovedFits DEF InWork, JavaTypes
<1>3. \A i \in (pos + 1)..(pos + Moved) : busy[1].data[busy[1].at + i - pos] \in Sample
  <2> SUFFICES ASSUME NEW i \in (pos + 1)..(pos + Moved)
               PROVE  busy[1].data[busy[1].at + i - pos] \in Sample
    OBVIOUS
  <2>1. busy[1].at + i - pos \in 1..Len(busy[1].data)
    BY <1>2
  <2> QED
    BY <1>2, <2>1
<1> QED
  BY <1>1, <1>3 DEF Filled, JavaTypes

LEMMA JavaTypesStep ==
  ASSUME Types, [Next]_vars
  PROVE  JavaTypes'
<1> DEFINE G == JavaTypes'
<1>1. JavaTypes /\ Frame \in Nat \ {0} /\ MaxStarts \in Nat
  BY Constants DEF Types
<1>2. NoRec \in 0..MaxStarts
  BY <1>1, Constants
<1>3. mic # "none" => current \in Rec
  BY DEF Types, GhostTypes
<1>4. TaskIs("start") => recordQ[1].r \in 0..MaxStarts
  <2> SUFFICES ASSUME TaskIs("start") PROVE recordQ[1].r \in 0..MaxStarts
    OBVIOUS
  <2>1. recordQ[1] \in RecordTask /\ recordQ[1].is = "start"
    BY Taken DEF Types, TaskTypes, TaskIs
  <2>2. recordQ[1].r \in Rec
    BY <2>1 DEF RecordTask
  <2> QED
    BY <2>2, Constants
<1>5. ASSUME busy # <<>>, Advance
      PROVE  /\ fileBuffer' \in [1..Frame -> Sample]
             /\ pos + Moved \in 0..Frame
  BY <1>1, <1>5, MovedFits, FilledIsSamples DEF Advance, JavaTypes
<1>6. CASE AskStart
  BY <1>6, <1>1, <1>2, <1>3, <1>4 DEF AskStart, JavaTypes, vars, queues, javaVars, bufferVars, nativeVars, counters, ghosts, Release
<1>7. ASSUME NEW send \in BOOLEAN, AskStop(send) PROVE G
  BY <1>7, <1>1, <1>2, <1>3, <1>4 DEF AskStop, JavaTypes, vars, queues, javaVars, bufferVars, nativeVars, counters, ghosts, Release
<1>8. CASE StartRefused
  BY <1>8, <1>1, <1>2, <1>3, <1>4 DEF StartRefused, JavaTypes, vars, queues, javaVars, bufferVars, nativeVars, counters, ghosts, Release
<1>9. CASE Start
  BY <1>9, <1>1, <1>2, <1>3, <1>4 DEF Start, JavaTypes, vars, queues, javaVars, bufferVars, nativeVars, counters, ghosts, Release
<1>10. ASSUME NEW b \in BOOLEAN, StartFails(b) PROVE G
  BY <1>10, <1>1, <1>2, <1>3, <1>4 DEF StartFails, JavaTypes, vars, queues, javaVars, bufferVars, nativeVars, counters, ghosts, Release
<1>11. CASE MicFails
  BY <1>11, <1>1, <1>2, <1>3, <1>4 DEF MicFails, JavaTypes, vars, queues, javaVars, bufferVars, nativeVars, counters, ghosts, Release
<1>12. CASE StartRaces
  BY <1>12, <1>1, <1>2, <1>3, <1>4 DEF StartRaces, JavaTypes, vars, queues, javaVars, bufferVars, nativeVars, counters, ghosts, Release
<1>13. ASSUME NEW n \in 1..ReadSize, ReadMic(n) PROVE G
  BY <1>13, <1>1, <1>2, <1>3, <1>4 DEF ReadMic, JavaTypes, vars, queues, javaVars, bufferVars, nativeVars, counters, ghosts, Release
<1>14. CASE ReadNothing
  BY <1>14, <1>1, <1>2, <1>3, <1>4 DEF ReadNothing, JavaTypes, vars, queues, javaVars, bufferVars, nativeVars, counters, ghosts, Release
<1>15. CASE ReadFails
  BY <1>15, <1>1, <1>2, <1>3, <1>4 DEF ReadFails, JavaTypes, vars, queues, javaVars, bufferVars, nativeVars, counters, ghosts, Release
<1>16. CASE ReadNoMic
  BY <1>16, <1>1, <1>2, <1>3, <1>4 DEF ReadNoMic, JavaTypes, vars, queues, javaVars, bufferVars, nativeVars, counters, ghosts, Release
<1>17. CASE StopNoMic
  BY <1>17, <1>1, <1>2, <1>3, <1>4 DEF StopNoMic, JavaTypes, vars, queues, javaVars, bufferVars, nativeVars, counters, ghosts, Release
<1>18. CASE StopToSend
  BY <1>18, <1>1, <1>2, <1>3, <1>4 DEF StopToSend, JavaTypes, vars, queues, javaVars, bufferVars, nativeVars, counters, ghosts, Release
<1>19. CASE StopToCancel
  BY <1>19, <1>1, <1>2, <1>3, <1>4 DEF StopToCancel, JavaTypes, vars, queues, javaVars, bufferVars, nativeVars, counters, ghosts, Release
<1>20. CASE TakeBuffer
  BY <1>20, <1>1, <1>2, <1>3, <1>4 DEF TakeBuffer, JavaTypes, vars, queues, javaVars, bufferVars, nativeVars, counters, ghosts, Release
<1>21. CASE FillBuffer
  BY <1>21, <1>1, <1>5 DEF FillBuffer, JavaTypes, javaVars
<1>22. CASE WriteFrame
  BY <1>22, <1>1, <1>5 DEF WriteFrame, JavaTypes, javaVars
<1>23. ASSUME NEW b \in BOOLEAN, WriteFails(b) PROVE G
  BY <1>23, <1>1, <1>5 DEF WriteFails, JavaTypes, javaVars
<1>24. CASE WriteCrashes
  BY <1>24, <1>1, <1>2, <1>3, <1>4 DEF WriteCrashes, JavaTypes, vars, queues, javaVars, bufferVars, nativeVars, counters, ghosts, Release
<1>25. CASE CloseRecorder
  BY <1>25, <1>1, <1>2, <1>3, <1>4 DEF CloseRecorder, JavaTypes, vars, queues, javaVars, bufferVars, nativeVars, counters, ghosts, Release
<1>26. CASE SendOrDelete
  BY <1>26, <1>1, <1>2, <1>3, <1>4 DEF SendOrDelete, JavaTypes, vars, queues, javaVars, bufferVars, nativeVars, counters, ghosts, Release
<1>27. CASE UNCHANGED vars
  BY <1>27, <1>1, <1>2, <1>3, <1>4 DEF JavaTypes, vars, queues, javaVars, bufferVars, nativeVars, counters, ghosts, Release
<1> QED
  BY <1>6, <1>7, <1>8, <1>9, <1>10, <1>11, <1>12, <1>13, <1>14, <1>15, <1>16,
     <1>17, <1>18, <1>19, <1>20, <1>21, <1>22, <1>23, <1>24, <1>25, <1>26,
     <1>27 DEF Next, RecordQueue, EncodingQueue

LEMMA GhostTypesStep ==
  ASSUME Types, [Next]_vars
  PROVE  GhostTypes'
<1> DEFINE G == GhostTypes'
<1>1. GhostTypes /\ MaxStarts \in Nat /\ NoRec = 0
  BY Constants DEF Types
<1>2. TaskIs("start") => recordQ[1].r \in Rec
  <2> SUFFICES ASSUME TaskIs("start") PROVE recordQ[1].r \in Rec
    OBVIOUS
  <2>1. recordQ[1] \in RecordTask /\ recordQ[1].is = "start"
    BY Taken DEF Types, TaskTypes, TaskIs
  <2> QED
    BY <2>1 DEF RecordTask
<1>3. \A rs, f : f \in Flaws => FlawsWith(rs, f) \in [Rec -> SUBSET Flaws]
  BY <1>1, FlawsWithType DEF GhostTypes
<1>4. "overlap" \in Flaws /\ "cut" \in Flaws /\ "mic" \in Flaws /\ "write" \in Flaws
  BY DEF Flaws
<1>5. /\ "recording" \in Outcomes /\ "refused" \in Outcomes /\ "cancelled" \in Outcomes
      /\ "sent" \in Outcomes /\ "deleted" \in Outcomes
  BY DEF Outcomes
<1>6. uiQ # <<>> => uiQ[1] \in Rec
  BY Taken DEF Types, TaskTypes
<1>7. dialog \in 0..MaxStarts
  BY DEF Types, JavaTypes
<1>8. CASE AskStart
  BY <1>8, <1>1, <1>2, <1>3, <1>4, <1>5, <1>6, <1>7 DEF AskStart, GhostTypes, vars, queues, javaVars, bufferVars, nativeVars, counters, ghosts, TakeOver, Release
<1>9. ASSUME NEW send \in BOOLEAN, AskStop(send) PROVE G
  BY <1>9, <1>1, <1>2, <1>3, <1>4, <1>5, <1>6, <1>7 DEF AskStop, GhostTypes, vars, queues, javaVars, bufferVars, nativeVars, counters, ghosts, TakeOver, Release
<1>10. CASE StartRefused
  BY <1>10, <1>1, <1>2, <1>3, <1>4, <1>5, <1>6, <1>7 DEF StartRefused, GhostTypes, vars, queues, javaVars, bufferVars, nativeVars, counters, ghosts, TakeOver, Release
<1>11. CASE Start
  BY <1>11, <1>1, <1>2, <1>3, <1>4, <1>5, <1>6, <1>7 DEF Start, GhostTypes, vars, queues, javaVars, bufferVars, nativeVars, counters, ghosts, TakeOver, Release
<1>12. ASSUME NEW b \in BOOLEAN, StartFails(b) PROVE G
  BY <1>12, <1>1, <1>2, <1>3, <1>4, <1>5, <1>6, <1>7 DEF StartFails, GhostTypes, vars, queues, javaVars, bufferVars, nativeVars, counters, ghosts, TakeOver, Release
<1>13. CASE MicFails
  BY <1>13, <1>1, <1>2, <1>3, <1>4, <1>5, <1>6, <1>7 DEF MicFails, GhostTypes, vars, queues, javaVars, bufferVars, nativeVars, counters, ghosts, TakeOver, Release
<1>14. CASE StartRaces
  BY <1>14, <1>1, <1>2, <1>3, <1>4, <1>5, <1>6, <1>7 DEF StartRaces, GhostTypes, vars, queues, javaVars, bufferVars, nativeVars, counters, ghosts, TakeOver, Release
<1>15. ASSUME NEW n \in 1..ReadSize, ReadMic(n) PROVE G
  <2>1. spoken' \in [Rec -> Seq(Sample)]
    <3>1. spoken[current] \o Spoken(n) \in Seq(Sample)
      <4>1. spoken[current] \in Seq(Sample) /\ Spoken(n) \in Seq(Sample)
        BY <1>15, <1>1, ReadIsSamples DEF GhostTypes
      <4> QED
        BY <4>1
    <3> QED
      BY <1>15, <1>1, <3>1, ReadIsSamples DEF GhostTypes
  <2>2. flaws' \in [Rec -> SUBSET Flaws]
    BY <1>15, <1>1, <1>3, <1>4 DEF ReadMic, GhostTypes
  <2>3. UNCHANGED <<mic, current, outcome, sentTo, starts, stops, fails, asked>>
        /\ reads' = reads + 1 /\ reads < MaxReads
    BY <1>15 DEF ReadMic, javaVars
  <2> QED
    BY <1>1, <2>1, <2>2, <2>3, Constants DEF GhostTypes
<1>16. CASE ReadNothing
  BY <1>16, <1>1, <1>2, <1>3, <1>4, <1>5, <1>6, <1>7 DEF ReadNothing, GhostTypes, vars, queues, javaVars, bufferVars, nativeVars, counters, ghosts, TakeOver, Release
<1>17. CASE ReadFails
  BY <1>17, <1>1, <1>2, <1>3, <1>4, <1>5, <1>6, <1>7 DEF ReadFails, GhostTypes, vars, queues, javaVars, bufferVars, nativeVars, counters, ghosts, TakeOver, Release
<1>18. CASE ReadNoMic
  BY <1>18, <1>1, <1>2, <1>3, <1>4, <1>5, <1>6, <1>7 DEF ReadNoMic, GhostTypes, vars, queues, javaVars, bufferVars, nativeVars, counters, ghosts, TakeOver, Release
<1>19. CASE StopNoMic
  BY <1>19, <1>1, <1>2, <1>3, <1>4, <1>5, <1>6, <1>7 DEF StopNoMic, GhostTypes, vars, queues, javaVars, bufferVars, nativeVars, counters, ghosts, TakeOver, Release
<1>20. CASE StopToSend
  BY <1>20, <1>1, <1>2, <1>3, <1>4, <1>5, <1>6, <1>7 DEF StopToSend, GhostTypes, vars, queues, javaVars, bufferVars, nativeVars, counters, ghosts, TakeOver, Release
<1>21. CASE StopToCancel
  BY <1>21, <1>1, <1>2, <1>3, <1>4, <1>5, <1>6, <1>7 DEF StopToCancel, GhostTypes, vars, queues, javaVars, bufferVars, nativeVars, counters, ghosts, TakeOver, Release
<1>22. CASE TakeBuffer
  BY <1>22, <1>1, <1>2, <1>3, <1>4, <1>5, <1>6, <1>7 DEF TakeBuffer, GhostTypes, vars, queues, javaVars, bufferVars, nativeVars, counters, ghosts, TakeOver, Release
<1>23. CASE FillBuffer
  BY <1>23, <1>1, <1>2, <1>3, <1>4, <1>5, <1>6, <1>7 DEF FillBuffer, GhostTypes, vars, queues, javaVars, bufferVars, nativeVars, counters, ghosts, TakeOver, Release
<1>24. CASE WriteFrame
  BY <1>24, <1>1, <1>2, <1>3, <1>4, <1>5, <1>6, <1>7 DEF WriteFrame, GhostTypes, vars, queues, javaVars, bufferVars, nativeVars, counters, ghosts, TakeOver, Release
<1>25. ASSUME NEW b \in BOOLEAN, WriteFails(b) PROVE G
  BY <1>25, <1>1, <1>2, <1>3, <1>4, <1>5, <1>6, <1>7 DEF WriteFails, GhostTypes, vars, queues, javaVars, bufferVars, nativeVars, counters, ghosts, TakeOver, Release
<1>26. CASE WriteCrashes
  BY <1>26, <1>1, <1>2, <1>3, <1>4, <1>5, <1>6, <1>7 DEF WriteCrashes, GhostTypes, vars, queues, javaVars, bufferVars, nativeVars, counters, ghosts, TakeOver, Release
<1>27. CASE CloseRecorder
  BY <1>27, <1>1, <1>2, <1>3, <1>4, <1>5, <1>6, <1>7 DEF CloseRecorder, GhostTypes, vars, queues, javaVars, bufferVars, nativeVars, counters, ghosts, TakeOver, Release
<1>28. CASE SendOrDelete
  BY <1>28, <1>1, <1>2, <1>3, <1>4, <1>5, <1>6, <1>7 DEF SendOrDelete, GhostTypes, vars, queues, javaVars, bufferVars, nativeVars, counters, ghosts, TakeOver, Release
<1>29. CASE UNCHANGED vars
  BY <1>29, <1>1, <1>2, <1>3, <1>4, <1>5, <1>6, <1>7 DEF GhostTypes, vars, queues, javaVars, bufferVars, nativeVars, counters, ghosts, TakeOver, Release
<1> QED
  BY <1>8, <1>9, <1>10, <1>11, <1>12, <1>13, <1>14, <1>15, <1>16, <1>17,
     <1>18, <1>19, <1>20, <1>21, <1>22, <1>23, <1>24, <1>25, <1>26, <1>27,
     <1>28, <1>29 DEF Next, RecordQueue, EncodingQueue



\* What a read adds to what was spoken.
LEMMA SpokenGrows ==
  ASSUME Types, NEW n \in 1..ReadSize, ReadMic(n), NEW r \in Rec
  PROVE  /\ spoken[r] \in Seq(Sample) /\ spoken'[r] \in Seq(Sample)
         /\ Len(spoken[r]) \in Nat
         /\ Len(spoken'[r]) = IF r = current THEN Len(spoken[r]) + n ELSE Len(spoken[r])
         /\ \A i \in 1..Len(spoken[r]) : spoken'[r][i] = spoken[r][i]
         /\ Numbered(spoken'[r], r, 0)
<1>1. /\ spoken \in [Rec -> Seq(Sample)] /\ current \in Rec /\ n \in Nat
      /\ Spoken(n) \in Seq(Sample) /\ Len(Spoken(n)) = n
      /\ spoken' = [spoken EXCEPT ![current] = spoken[current] \o Spoken(n)]
  BY ReadIsSamples DEF Types, GhostTypes
<1>2. Numbered(spoken[r], r, 0)
  BY DEF Types, SampleTypes
<1>3. CASE r # current
  <2>1. spoken'[r] = spoken[r]
    BY <1>1, <1>3
  <2> QED
    BY <1>1, <1>2, <1>3, <2>1
<1>4. CASE r = current
  <2>1. spoken'[r] = spoken[r] \o Spoken(n) /\ spoken[r] \in Seq(Sample)
    BY <1>1, <1>4
  <2>2. /\ spoken'[r] \in Seq(Sample)
        /\ Len(spoken[r]) \in Nat
        /\ Len(spoken'[r]) = Len(spoken[r]) + n
        /\ \A i \in 1..Len(spoken[r]) : spoken'[r][i] = spoken[r][i]
        /\ \A i \in 1..n : spoken'[r][Len(spoken[r]) + i] = Spoken(n)[i]
    BY <1>1, <2>1
  <2>3. \A i \in 1..n : Spoken(n)[i] = [r |-> r, k |-> Len(spoken[r]) + i]
    BY <1>4 DEF Spoken
  <2>4. Numbered(spoken'[r], r, 0)
    <3> SUFFICES ASSUME NEW i \in 1..Len(spoken'[r])
                 PROVE  spoken'[r][i] = [r |-> r, k |-> 0 + i]
      BY DEF Numbered
    <3>1. CASE i <= Len(spoken[r])
      BY <1>2, <2>2, <3>1 DEF Numbered
    <3>2. CASE i > Len(spoken[r])
      <4>1. i - Len(spoken[r]) \in 1..n
        BY <1>1, <2>2, <3>2
      <4>2. Spoken(n)[i - Len(spoken[r])]
              = [r |-> r, k |-> Len(spoken[r]) + (i - Len(spoken[r]))]
        BY <2>3, <4>1
      <4>3. spoken'[r][Len(spoken[r]) + (i - Len(spoken[r]))] = Spoken(n)[i - Len(spoken[r])]
        BY <2>2, <4>1
      <4>4. Len(spoken[r]) + (i - Len(spoken[r])) = i /\ 0 + i = i
        BY <2>2
      <4> QED
        BY <4>2, <4>3, <4>4
    <3> QED
      BY <2>2, <3>1, <3>2
  <2> QED
    BY <1>4, <2>1, <2>2, <2>4
<1> QED
  BY <1>3, <1>4

\* The buffer of a read.
LEMMA ReadIsQueued ==
  ASSUME Types, NEW n \in 1..ReadSize, ReadMic(n)
  PROVE  LET t == encodeQ'[Len(encodeQ) + 1]
         IN  /\ encodeQ' \in Seq(EncodeTask)
             /\ Len(encodeQ) \in Nat /\ Len(encodeQ') = Len(encodeQ) + 1
             /\ \A i \in 1..Len(encodeQ) : encodeQ'[i] = encodeQ[i]
             /\ t.is = "data" /\ t.r = current /\ t.flush = (n # ReadSize)
             /\ Len(t.data) = n /\ Before(t.data) = Len(spoken[current])
             /\ Numbered(t.data, current, Len(spoken[current]))
<1> DEFINE t == [is |-> "data", r |-> current, data |-> Spoken(n), flush |-> n # ReadSize]
<1>1. /\ current \in Rec /\ n \in Nat /\ n > 0
      /\ Spoken(n) \in Seq(Sample) /\ Len(Spoken(n)) = n
      /\ Len(spoken[current]) \in Nat
      /\ encodeQ' = Append(encodeQ, t)
  BY ReadIsSamples
<1>2. t \in EncodeTask /\ encodeQ \in Seq(EncodeTask)
  BY <1>1 DEF EncodeTask, Types, TaskTypes
<1>3. t.is = "data" /\ t.r = current /\ t.flush = (n # ReadSize) /\ t.data = Spoken(n)
  OBVIOUS
<1> HIDE DEF t
<1>4. /\ encodeQ' \in Seq(EncodeTask) /\ Len(encodeQ) \in Nat
      /\ Len(encodeQ') = Len(encodeQ) + 1
      /\ \A i \in 1..Len(encodeQ) : encodeQ'[i] = encodeQ[i]
      /\ encodeQ'[Len(encodeQ) + 1] = t
  BY <1>1, <1>2, Posted
<1>5. \A i \in 1..n : Spoken(n)[i] = [r |-> current, k |-> Len(spoken[current]) + i]
  BY DEF Spoken
<1>6. Spoken(n)[1].k - 1 = Len(spoken[current])
  BY <1>1, <1>5
<1> QED
  BY <1>1, <1>3, <1>4, <1>5, <1>6 DEF Before, Numbered

LEMMA SampleTypesStep ==
  ASSUME Types, [Next]_vars
  PROVE  SampleTypes'
<1> DEFINE G == SampleTypes'
<1>1. SampleTypes /\ encodeQ \in Seq(EncodeTask)
  BY DEF Types, TaskTypes
<1>2. ASSUME UNCHANGED <<spoken, reads, encodeQ, busy>>
      PROVE  G
  BY <1>1, <1>2 DEF SampleTypes, IsRead
<1>3. ASSUME NEW r \in Rec, encodeQ' = Append(encodeQ, [is |-> "close", r |-> r]),
             UNCHANGED <<spoken, reads, busy>>
      PROVE  G
  <2>1. [is |-> "close", r |-> r] \in EncodeTask
    BY DEF EncodeTask
  <2>2. \A i \in 1..Len(encodeQ') :
          \/ i \in 1..Len(encodeQ) /\ encodeQ'[i] = encodeQ[i]
          \/ encodeQ'[i].is = "close"
    BY <1>1, <1>3, <2>1, Posted
  <2> QED
    BY <1>1, <1>3, <2>2 DEF SampleTypes, IsRead
<1>4. ASSUME encodeQ # <<>>, encodeQ' = Tail(encodeQ), busy = <<>>,
             UNCHANGED <<spoken, reads>>,
             \/ busy' = <<>>
             \/ /\ encodeQ[1].is = "data"
                /\ busy' = <<[r |-> encodeQ[1].r, data |-> encodeQ[1].data,
                              flush |-> encodeQ[1].flush, at |-> 0]>>
      PROVE  G
  <2>1. \A i \in 1..Len(encodeQ') : i + 1 \in 1..Len(encodeQ) /\ encodeQ'[i] = encodeQ[i + 1]
    BY <1>1, <1>4, Taken
  <2>2. 1 \in 1..Len(encodeQ)
    BY <1>1, <1>4, Taken
  <2>3. \A i \in 1..Len(encodeQ') : encodeQ'[i].is = "data" => IsRead(encodeQ'[i], Len(spoken'[encodeQ'[i].r]))
    BY <1>1, <1>4, <2>1 DEF SampleTypes, IsRead
  <2>4. busy' # <<>> => IsRead(busy'[1], Len(spoken'[busy'[1].r])) /\ busy'[1].at < Len(busy'[1].data)
    <3> SUFFICES ASSUME busy' # <<>>
                 PROVE  IsRead(busy'[1], Len(spoken'[busy'[1].r])) /\ busy'[1].at < Len(busy'[1].data)
      OBVIOUS
    <3>1. /\ busy'[1].r = encodeQ[1].r /\ busy'[1].data = encodeQ[1].data
          /\ busy'[1].flush = encodeQ[1].flush /\ busy'[1].at = 0
          /\ IsRead(encodeQ[1], Len(spoken[encodeQ[1].r]))
      BY <1>1, <1>4, <2>2 DEF SampleTypes
    <3> QED
      BY <1>4, <3>1, Constants DEF IsRead
  <2> QED
    BY <1>1, <1>4, <2>3, <2>4 DEF SampleTypes
<1>5. ASSUME busy # <<>>, Advance, UNCHANGED <<spoken, reads, encodeQ>>
      PROVE  G
  <2>1. /\ busy[1].data \in Seq(Sample) /\ busy[1].at \in Nat /\ Moved \in Nat
        /\ Moved <= Len(busy[1].data) - busy[1].at /\ busy[1] \in InWork
    BY <1>5, MovedFits DEF InWork
  <2>2. busy' # <<>> =>
          /\ busy'[1] = [busy[1] EXCEPT !.at = busy[1].at + Moved]
          /\ busy[1].at + Moved # Len(busy[1].data)
    BY <1>5 DEF Advance
  <2>3. busy' # <<>> =>
          /\ busy'[1].data = busy[1].data /\ busy'[1].r = busy[1].r
          /\ busy'[1].flush = busy[1].flush /\ busy'[1].at = busy[1].at + Moved
          /\ busy[1].at + Moved < Len(busy[1].data)
    BY <2>1, <2>2 DEF InWork
  <2>4. IsRead(busy[1], Len(spoken[busy[1].r]))
    BY <1>1, <1>5 DEF SampleTypes
  <2>5. busy' # <<>> => IsRead(busy'[1], Len(spoken'[busy'[1].r])) /\ busy'[1].at < Len(busy'[1].data)
    BY <1>5, <2>3, <2>4 DEF IsRead
  <2> QED
    BY <1>1, <1>5, <2>5 DEF SampleTypes, IsRead
<1>6. mic # "none" => current \in Rec
  BY DEF Types, GhostTypes
<1>7. CASE AskStart
  BY <1>7, <1>2 DEF AskStart, vars, queues, javaVars, bufferVars, nativeVars, counters, ghosts
<1>8. ASSUME NEW send \in BOOLEAN, AskStop(send) PROVE G
  BY <1>8, <1>2 DEF AskStop, vars, queues, javaVars, bufferVars, nativeVars, counters, ghosts
<1>9. CASE StartRefused
  BY <1>9, <1>2 DEF StartRefused, vars, queues, javaVars, bufferVars, nativeVars, counters, ghosts
<1>10. CASE Start
  BY <1>10, <1>2 DEF Start, vars, queues, javaVars, bufferVars, nativeVars, counters, ghosts
<1>11. ASSUME NEW b \in BOOLEAN, StartFails(b) PROVE G
  BY <1>11, <1>2 DEF StartFails, vars, queues, javaVars, bufferVars, nativeVars, counters, ghosts
<1>12. CASE MicFails
  BY <1>12, <1>2 DEF MicFails, vars, queues, javaVars, bufferVars, nativeVars, counters, ghosts
<1>13. CASE StartRaces
  BY <1>13, <1>2 DEF StartRaces, vars, queues, javaVars, bufferVars, nativeVars, counters, ghosts
<1>14. ASSUME NEW n \in 1..ReadSize, ReadMic(n) PROVE G
  <2>1. /\ Len(encodeQ') = Len(encodeQ) + 1 /\ Len(encodeQ) \in Nat
        /\ \A i \in 1..Len(encodeQ) : encodeQ'[i] = encodeQ[i]
    BY <1>14, ReadIsQueued
  <2>2. \A r \in Rec : Len(spoken'[r]) \in Nat /\ Len(spoken[r]) \in Nat
          /\ Len(spoken'[r]) >= Len(spoken[r]) /\ Numbered(spoken'[r], r, 0)
    BY <1>14, SpokenGrows, Constants
  <2>3. \A b, l, m : IsRead(b, l) /\ l \in Nat /\ m \in Nat /\ m >= l => IsRead(b, m)
    BY DEF IsRead
  <2>4. \A i \in 1..Len(encodeQ) : encodeQ[i].r \in Rec
    <3> SUFFICES ASSUME NEW i \in 1..Len(encodeQ) PROVE encodeQ[i].r \in Rec
      OBVIOUS
    <3>1. encodeQ[i] \in EncodeTask
      BY <1>1
    <3> QED
      BY <3>1 DEF EncodeTask
  <2> DEFINE t == encodeQ'[Len(encodeQ) + 1]
  <2>5. IsRead(t, Len(spoken'[t.r]))
    <3>1. /\ t.r = current /\ t.flush = (n # ReadSize)
          /\ Len(t.data) = n /\ Before(t.data) = Len(spoken[current])
          /\ Numbered(t.data, current, Len(spoken[current]))
      BY <1>14, ReadIsQueued
    <3>2. /\ current \in Rec /\ Len(spoken[current]) \in Nat
          /\ Len(spoken'[current]) = Len(spoken[current]) + n
      BY <1>14, ReadIsSamples, SpokenGrows
    <3> HIDE DEF t
    <3> QED
      BY <3>1, <3>2, Constants DEF IsRead
  <2>6. \A i \in 1..Len(encodeQ') : encodeQ'[i].is = "data" => IsRead(encodeQ'[i], Len(spoken'[encodeQ'[i].r]))
    <3> SUFFICES ASSUME NEW i \in 1..Len(encodeQ'), encodeQ'[i].is = "data"
                 PROVE  IsRead(encodeQ'[i], Len(spoken'[encodeQ'[i].r]))
      OBVIOUS
    <3>1. CASE i = Len(encodeQ) + 1
      BY <2>5, <3>1
    <3>2. CASE i # Len(encodeQ) + 1
      <4>1. i \in 1..Len(encodeQ) /\ encodeQ'[i] = encodeQ[i]
        BY <2>1, <3>2
      <4>2. IsRead(encodeQ[i], Len(spoken[encodeQ[i].r])) /\ encodeQ[i].r \in Rec
        BY <1>1, <2>4, <4>1 DEF SampleTypes
      <4>3. IsRead(encodeQ[i], Len(spoken'[encodeQ[i].r]))
        BY <2>2, <2>3, <4>2
      <4> QED
        BY <4>1, <4>3
    <3> QED
      BY <3>1, <3>2
  <2>7. \A r \in Rec : Len(spoken'[r]) <= reads' * ReadSize
    <3> SUFFICES ASSUME NEW r \in Rec PROVE Len(spoken'[r]) <= reads' * ReadSize
      OBVIOUS
    <3>1. Len(spoken'[r]) <= Len(spoken[r]) + ReadSize /\ Len(spoken[r]) \in Nat
      <4>1. /\ Len(spoken[r]) \in Nat
            /\ Len(spoken'[r]) = IF r = current THEN Len(spoken[r]) + n ELSE Len(spoken[r])
        BY <1>14, SpokenGrows
      <4>2. n \in Nat /\ n <= ReadSize /\ ReadSize \in Nat
        BY Constants
      <4> QED
        BY <4>1, <4>2
    <3>2. Len(spoken[r]) <= reads * ReadSize
      BY <1>1 DEF SampleTypes
    <3>3. reads' = reads + 1 /\ reads \in Nat /\ reads' \in Nat
      BY <1>14, Constants DEF ReadMic, Types, GhostTypes
    <3>4. reads * ReadSize + ReadSize <= reads' * ReadSize
      BY <3>3, ReadsFit
    <3>5. reads * ReadSize \in Nat /\ reads' * ReadSize \in Nat /\ ReadSize \in Nat
          /\ Len(spoken'[r]) \in Nat
      BY <2>2, <3>3, Constants
    <3> QED
      BY <3>1, <3>2, <3>4, <3>5
  <2>8. busy' # <<>> => IsRead(busy'[1], Len(spoken'[busy'[1].r])) /\ busy'[1].at < Len(busy'[1].data)
    <3> SUFFICES ASSUME busy' # <<>>
                 PROVE  IsRead(busy'[1], Len(spoken'[busy'[1].r])) /\ busy'[1].at < Len(busy'[1].data)
      OBVIOUS
    <3>1. busy' = busy
      BY <1>14 DEF ReadMic
    <3>2. busy[1] \in InWork /\ IsRead(busy[1], Len(spoken[busy[1].r])) /\ busy[1].at < Len(busy[1].data)
      BY <1>1, <3>1 DEF Types, TaskTypes, SampleTypes
    <3>3. busy[1].r \in Rec
      BY <3>2 DEF InWork
    <3>4. IsRead(busy[1], Len(spoken'[busy[1].r]))
      BY <2>2, <2>3, <3>2, <3>3
    <3> QED
      BY <3>1, <3>2, <3>4
  <2> QED
    BY <2>2, <2>6, <2>7, <2>8 DEF SampleTypes
<1>15. CASE ReadNothing
  BY <1>15, <1>2, <1>3, <1>6 DEF ReadNothing, Release, vars, queues, javaVars, bufferVars, nativeVars, counters, ghosts
<1>16. CASE ReadFails
  BY <1>16, <1>2, <1>3, <1>6 DEF ReadFails, Release, vars, queues, javaVars, bufferVars, nativeVars, counters, ghosts
<1>17. CASE ReadNoMic
  BY <1>17, <1>2 DEF ReadNoMic, vars, queues, javaVars, bufferVars, nativeVars, counters, ghosts
<1>18. CASE StopNoMic
  BY <1>18, <1>2 DEF StopNoMic, vars, queues, javaVars, bufferVars, nativeVars, counters, ghosts
<1>19. CASE StopToSend
  BY <1>19, <1>2 DEF StopToSend, vars, queues, javaVars, bufferVars, nativeVars, counters, ghosts
<1>20. CASE StopToCancel
  BY <1>20, <1>2, <1>3, <1>6 DEF StopToCancel, Release, vars, queues, javaVars, bufferVars, nativeVars, counters, ghosts
<1>21. CASE TakeBuffer
  BY <1>21, <1>4 DEF TakeBuffer, vars, queues, javaVars, bufferVars, nativeVars, counters, ghosts
<1>22. CASE FillBuffer
  BY <1>22, <1>5 DEF FillBuffer, vars, queues, javaVars, bufferVars, nativeVars, counters, ghosts
<1>23. CASE WriteFrame
  BY <1>23, <1>5 DEF WriteFrame, vars, queues, javaVars, bufferVars, nativeVars, counters, ghosts
<1>24. ASSUME NEW b \in BOOLEAN, WriteFails(b) PROVE G
  BY <1>24, <1>5 DEF WriteFails, vars, queues, javaVars, bufferVars, nativeVars, counters, ghosts
<1>25. CASE WriteCrashes
  BY <1>25, <1>2 DEF WriteCrashes, vars, queues, javaVars, bufferVars, nativeVars, counters, ghosts
<1>26. CASE CloseRecorder
  BY <1>26, <1>4 DEF CloseRecorder, vars, queues, javaVars, bufferVars, nativeVars, counters, ghosts
<1>27. CASE SendOrDelete
  BY <1>27, <1>2 DEF SendOrDelete, vars, queues, javaVars, bufferVars, nativeVars, counters, ghosts
<1>28. CASE UNCHANGED vars
  BY <1>28, <1>2 DEF vars, queues, javaVars, bufferVars, nativeVars, counters, ghosts
<1> QED
  BY <1>7, <1>8, <1>9, <1>10, <1>11, <1>12, <1>13, <1>14, <1>15, <1>16, <1>17,
     <1>18, <1>19, <1>20, <1>21, <1>22, <1>23, <1>24, <1>25, <1>26, <1>27,
     <1>28 DEF Next, RecordQueue, EncodingQueue


-----------------------------------------------------------------------------
(* The pages of a recording.                                               *)

LEMMA FitsOnPage ==
  ASSUME NEW n \in 0..Frame
  PROVE  n \div Full < MaxVals
<1>1. Full \in Nat \ {0} /\ Frame \in Nat /\ Frame \div Full < MaxVals /\ MaxVals \in Nat
  BY FramingAssumption, RecorderAssumption
<1>2. n \div Full <= Frame \div Full
  BY <1>1
<1>3. n \div Full \in Nat /\ Frame \div Full \in Nat
  BY <1>1
<1> QED
  BY <1>1, <1>2, <1>3

\* One packet on a stream at rest.
Flushes(s, data, eos, g, p) ==
  /\ p = PacketIn(s, data, eos, g)
  /\ Delivers(Sample, s, data, eos, g, Rest(p), Flushed(p))

LEMMA OnePage ==
  ASSUME NEW s \in Rested, NEW data \in Seq(Sample), Len(data) <= Frame,
         NEW eos \in BOOLEAN, NEW g \in Nat
  PROVE  Flushes(s, data, eos, g, PacketIn(s, data, eos, g))
<1>1. Len(data) \in 0..Frame
  BY Constants
<1>2. Len(data) \div Full < MaxVals
  BY <1>1, FitsOnPage
<1> QED
  BY <1>2, OnePacketOnePage DEF Flushes, Rest, Flushed

LEMMA HeaderPages ==
  ASSUME NEW r \in Rec
  PROVE  /\ StreamInit(r) \in Rested /\ StreamInit(NoRec) \in Rested
         /\ Rest(Header(r)) \in Rested /\ Rest(Header(r)).serialno = r
         /\ Rest(Tags(r)) \in Rested /\ Rest(Tags(r)).serialno = r
         /\ Rest(Tags(r)).pageno = 2
         /\ Rest(Tags(r)).bos = TRUE /\ Rest(Tags(r)).eos = FALSE
         /\ Flushed(Header(r)) \in Page(Sample) /\ Flushed(Tags(r)) \in Page(Sample)
         /\ Flushed(Header(r)).serialno = r /\ Flushed(Tags(r)).serialno = r
         /\ Flushed(Header(r)).pageno = 0 /\ Flushed(Tags(r)).pageno = 1
         /\ Flushed(Header(r)).bos = TRUE /\ Flushed(Tags(r)).bos = FALSE
         /\ Flushed(Header(r)).eos = FALSE /\ Flushed(Tags(r)).eos = FALSE
         /\ Flushed(Header(r)).granulepos = 0 /\ Flushed(Tags(r)).granulepos = 0
<1> DEFINE head == [r |-> r, k |-> -2]
           tags == [r |-> r, k |-> -1]
           first == StreamInit(r)
<1>1. r \in Nat /\ NoRec \in Nat /\ Frame \in Nat \ {0}
  BY Constants
<1>2. head \in Sample /\ tags \in Sample
  <2>1. r \in 0..MaxStarts /\ MaxReads * ReadSize \in Nat
    BY Constants
  <2> QED
    BY <2>1 DEF Sample
<1>3. <<head>> \in Seq(Sample) /\ Len(<<head>>) = 1 /\ <<tags>> \in Seq(Sample) /\ Len(<<tags>>) = 1
  BY <1>2
<1>4. /\ first \in Rested /\ first.serialno = r /\ first.pageno = 0 /\ first.packetno = 0
      /\ first.bos = FALSE /\ first.eos = FALSE /\ StreamInit(NoRec) \in Rested
  BY <1>1 DEF StreamInit, Rested
<1>5. Len(<<head>>) <= Frame /\ Len(<<tags>>) <= Frame
  BY <1>1, <1>3
<1>6. Header(r) = PacketIn(first, <<head>>, FALSE, 0)
      /\ Tags(r) = PacketIn(Rest(Header(r)), <<tags>>, FALSE, 0)
  BY DEF Header, Tags
<1> HIDE DEF head, tags, first
<1>7. Flushes(first, <<head>>, FALSE, 0, Header(r))
  BY <1>3, <1>4, <1>5, <1>6, OnePage
<1> DEFINE second == Rest(Header(r))
<1>8. /\ second.serialno = r /\ second.pageno = 1 /\ second.bos = TRUE
      /\ second.eos = FALSE /\ second \in Rested
  <2>1. /\ second.serialno = first.serialno /\ second.pageno = first.pageno + 1
        /\ second.bos = TRUE /\ second \in Rested
    BY <1>7 DEF Flushes, Delivers
  <2>2. second.eos = (first.eos \/ FALSE)
    BY <1>7 DEF Flushes, Delivers
  <2> HIDE DEF second
  <2>3. second.eos = FALSE
    BY <1>4, <2>2
  <2> QED
    BY <1>4, <2>1, <2>3
<1> HIDE DEF second
<1>9. Flushes(second, <<tags>>, FALSE, 0, Tags(r))
  BY <1>3, <1>5, <1>6, <1>8, OnePage DEF second
<1>10. /\ Rest(Tags(r)).serialno = r /\ Rest(Tags(r)).pageno = 2
       /\ Rest(Tags(r)).bos = TRUE /\ Rest(Tags(r)).eos = FALSE
       /\ Rest(Tags(r)) \in Rested
  <2>1. /\ Rest(Tags(r)).serialno = second.serialno
        /\ Rest(Tags(r)).pageno = second.pageno + 1
        /\ Rest(Tags(r)).bos = TRUE /\ Rest(Tags(r)) \in Rested
    BY <1>9 DEF Flushes, Delivers
  <2>2. Rest(Tags(r)).eos = (second.eos \/ FALSE)
    BY <1>9 DEF Flushes, Delivers
  <2>3. Rest(Tags(r)).eos = FALSE
    BY <1>8, <2>2
  <2> QED
    BY <1>8, <2>1, <2>3
<1>11. /\ Flushed(Header(r)) \in Page(Sample)
       /\ Flushed(Header(r)).bos = TRUE /\ Flushed(Header(r)).eos = FALSE
       /\ Flushed(Header(r)).granulepos = 0
       /\ Flushed(Header(r)).pageno = 0 /\ Flushed(Header(r)).serialno = r
  <2>1. /\ Flushed(Header(r)).bos = ~first.bos
        /\ Flushed(Header(r)).eos = (first.eos \/ FALSE)
        /\ Flushed(Header(r)).granulepos = IF first.bos THEN 0 ELSE 0
    BY <1>7 DEF Flushes, Delivers
  <2>2. /\ Flushed(Header(r)) \in Page(Sample)
        /\ Flushed(Header(r)).pageno = first.pageno
        /\ Flushed(Header(r)).serialno = first.serialno
    BY <1>7 DEF Flushes, Delivers
  <2> QED
    BY <1>4, <2>1, <2>2
<1>12. /\ Flushed(Tags(r)) \in Page(Sample)
       /\ Flushed(Tags(r)).bos = FALSE /\ Flushed(Tags(r)).eos = FALSE
       /\ Flushed(Tags(r)).granulepos = 0
       /\ Flushed(Tags(r)).pageno = 1 /\ Flushed(Tags(r)).serialno = r
  <2>1. /\ Flushed(Tags(r)).bos = ~second.bos
        /\ Flushed(Tags(r)).eos = (second.eos \/ FALSE)
        /\ Flushed(Tags(r)).granulepos = IF second.bos THEN 0 ELSE 0
    BY <1>9 DEF Flushes, Delivers
  <2>2. /\ Flushed(Tags(r)) \in Page(Sample)
        /\ Flushed(Tags(r)).pageno = second.pageno
        /\ Flushed(Tags(r)).serialno = second.serialno
    BY <1>9 DEF Flushes, Delivers
  <2> QED
    BY <1>8, <2>1, <2>2
<1> QED
  BY <1>4, <1>8, <1>10, <1>11, <1>12 DEF first, second

\* The page of a frame.
FrameGranule(n) == IF n < Frame THEN native.total + n + PreSkip ELSE native.granule + Frame

LEMMA FramePage ==
  ASSUME Types, NEW buffer \in [1..Frame -> Sample], NEW n \in Nat
  PROVE  LET s == Framed(buffer, n)
         IN  /\ Encoded(n) \in [encoder : BOOLEAN, file : 0..MaxStarts, total : Nat,
                                 granule : Nat]
             /\ Encoded(n).encoder = native.encoder /\ Encoded(n).file = native.file
             /\ Encoded(n).total = native.total + n
             /\ n # 0 => Encoded(n).granule = native.granule + Frame
             /\ Rest(s) \in Rested /\ Rest(s).serialno = os.serialno
             /\ Rest(s).pageno = os.pageno + 1 /\ Rest(s).bos = TRUE
             /\ Rest(s).eos = (os.eos \/ n < Frame)
             /\ Flushed(s) \in Page(Sample)
             /\ Flushed(s).body = FrameOf(buffer, n)
             /\ Flushed(s).bos = ~os.bos
             /\ Flushed(s).eos = (os.eos \/ n < Frame)
             /\ Flushed(s).pageno = os.pageno
             /\ Flushed(s).serialno = os.serialno
             /\ os.bos /\ n # 0 => Flushed(s).granulepos = FrameGranule(n)
<1> DEFINE data == FrameOf(buffer, n)
           g == IF n < Frame THEN Encoded(n).total + PreSkip ELSE Encoded(n).granule
           s == Framed(buffer, n)
<1>1. /\ Frame \in Nat \ {0} /\ PreSkip \in Nat /\ Silence \in Sample
  BY Constants
<1>2. native \in [encoder : BOOLEAN, file : 0..MaxStarts, total : Nat, granule : Nat]
      /\ os \in Rested
  BY DEF Types, NativeTypes
<1>3. /\ Encoded(n) \in [encoder : BOOLEAN, file : 0..MaxStarts, total : Nat, granule : Nat]
      /\ Encoded(n).encoder = native.encoder /\ Encoded(n).file = native.file
      /\ Encoded(n).total = native.total + n
      /\ n # 0 => Encoded(n).granule = native.granule + Frame
  <2> DEFINE G == IF n = 0 THEN native.granule ELSE native.granule + Frame
             T == native.total + n
  <2>1. native.granule \in Nat /\ native.total \in Nat
    BY <1>2
  <2>2. G \in Nat /\ T \in Nat
    BY <1>1, <2>1
  <2>3. Encoded(n) = [native EXCEPT !.total = T, !.granule = G]
    BY DEF Encoded
  <2>4. T = native.total + n /\ (n # 0 => G = native.granule + Frame)
    OBVIOUS
  <2> HIDE DEF G, T
  <2> QED
    BY <1>2, <2>2, <2>3, <2>4
<1>4. data \in Seq(Sample) /\ Len(data) <= Frame
  <2>1. CASE n = 0
    BY <1>1, <2>1 DEF FrameOf
  <2>2. CASE n # 0
    <3>1. data = [i \in 1..Frame |-> IF i <= n THEN buffer[i] ELSE Silence]
      BY <2>2 DEF FrameOf
    <3>2. \A i \in 1..Frame : data[i] \in Sample
      BY <1>1, <3>1
    <3> HIDE DEF data
    <3> QED
      BY <1>1, <3>1, <3>2
  <2> QED
    BY <2>1, <2>2
<1>5. g \in Nat
  <2>1. Encoded(n).total \in Nat /\ Encoded(n).granule \in Nat
    BY <1>3
  <2> QED
    BY <1>1, <2>1
<1>6. (n < Frame) \in BOOLEAN
  OBVIOUS
<1>7. s = PacketIn(os, data, n < Frame, g)
  BY DEF Framed
<1> HIDE DEF data, g, s
<1>8. Flushes(os, data, n < Frame, g, s)
  BY <1>2, <1>4, <1>5, <1>6, <1>7, OnePage
<1>9. /\ Rest(s) \in Rested
      /\ Rest(s).serialno = os.serialno /\ Rest(s).pageno = os.pageno + 1
      /\ Rest(s).bos = TRUE /\ Rest(s).eos = (os.eos \/ n < Frame)
      /\ Flushed(s) \in Page(Sample)
      /\ Flushed(s).body = data
      /\ Flushed(s).bos = ~os.bos
      /\ Flushed(s).eos = (os.eos \/ n < Frame)
      /\ Flushed(s).pageno = os.pageno
      /\ Flushed(s).serialno = os.serialno
      /\ Flushed(s).granulepos = IF os.bos THEN g ELSE 0
  BY <1>8 DEF Flushes, Delivers
<1>10. os.bos /\ n # 0 => Flushed(s).granulepos = FrameGranule(n)
  BY <1>3, <1>9 DEF FrameGranule, g
<1> QED
  BY <1>3, <1>9, <1>10 DEF s, data

LEMMA StartedIsRec ==
  ASSUME Types, TaskIs("start")
  PROVE  recordQ[1] \in RecordTask /\ recordQ[1].r \in Rec
<1>1. recordQ[1] \in RecordTask /\ recordQ[1].is = "start"
  BY Taken DEF Types, TaskTypes, TaskIs
<1> QED
  BY <1>1 DEF RecordTask

NativeType == [encoder : BOOLEAN, file : 0..MaxStarts, total : Nat, granule : Nat]

LEMMA NativeStates ==
  /\ Closed \in NativeType /\ Closed.file = NoRec /\ Closed.encoder = FALSE
  /\ \A r \in Rec : Opened(r) \in NativeType /\ Opened(r).file = r
                    /\ Opened(r).encoder = TRUE
                    /\ Opened(r).total = 0 /\ Opened(r).granule = 0
<1>1. NoRec \in 0..MaxStarts /\ \A r \in Rec : r \in 0..MaxStarts
  BY Constants
<1> QED
  BY <1>1 DEF Closed, Opened, NativeType

LEMMA NativeTypesStep ==
  ASSUME Types, [Next]_vars
  PROVE  NativeTypes'
<1> DEFINE G == NativeTypes'
<1>1. /\ native \in NativeType /\ os \in Rested /\ os.serialno \in 0..MaxStarts
      /\ files \in [Rec -> Seq(Page(Sample))]
  BY DEF Types, NativeTypes, NativeType
<1>2. /\ StreamInit(NoRec) \in Rested /\ StreamInit(NoRec).serialno \in 0..MaxStarts
      /\ \A r \in Rec : r \in 0..MaxStarts
  BY Constants, HeaderPages DEF StreamInit, Rested
<1>3. \/ UNCHANGED nativeVars
      \/ Start \/ (\E b \in BOOLEAN : StartFails(b)) \/ MicFails
      \/ WriteFrame \/ (\E b \in BOOLEAN : WriteFails(b)) \/ CloseRecorder
  BY DEF Next, RecordQueue, EncodingQueue, AskStart, AskStop, StartRefused, StartRaces,
         ReadMic, ReadNothing, ReadFails, ReadNoMic, StopNoMic, StopToSend,
         StopToCancel, TakeBuffer, FillBuffer, WriteCrashes, SendOrDelete, vars
<1>4. ASSUME UNCHANGED nativeVars PROVE G
  BY <1>1, <1>4 DEF nativeVars, NativeTypes, NativeType
<1>5. CASE Start
  <2> DEFINE r == recordQ[1].r
             head == <<Flushed(Header(r)), Flushed(Tags(r))>>
  <2>1. r \in Rec
    BY <1>5, StartedIsRec DEF Start
  <2>2. /\ Flushed(Header(r)) \in Page(Sample) /\ Flushed(Tags(r)) \in Page(Sample)
        /\ Rest(Tags(r)) \in Rested /\ Rest(Tags(r)).serialno = r
    BY <2>1, HeaderPages
  <2>3. head \in Seq(Page(Sample))
    BY <2>2
  <2>4. /\ native' = Opened(r) /\ os' = Rest(Tags(r))
        /\ files' = [files EXCEPT ![r] = head]
    BY <1>5 DEF Start
  <2> HIDE DEF r, head
  <2>5. files' \in [Rec -> Seq(Page(Sample))]
    BY <1>1, <2>3, <2>4
  <2> QED
    BY <1>2, <2>1, <2>2, <2>4, <2>5, NativeStates DEF NativeTypes, NativeType
<1>6. ASSUME NEW b \in BOOLEAN, StartFails(b) PROVE G
  <2> DEFINE r == recordQ[1].r
  <2>1. r \in Rec
    BY <1>6, StartedIsRec DEF StartFails
  <2>2. Rest(Header(r)) \in Rested /\ Rest(Header(r)).serialno = r
    BY <2>1, HeaderPages
  <2>3. /\ native' = IF b THEN Opened(r) ELSE Closed
        /\ os' = IF b THEN Rest(Header(r)) ELSE StreamInit(NoRec)
        /\ files' = files
    BY <1>6 DEF StartFails
  <2> HIDE DEF r
  <2> QED
    BY <1>1, <1>2, <2>1, <2>2, <2>3, NativeStates DEF NativeTypes, NativeType
<1>7. CASE MicFails
  BY <1>1, <1>2, <1>7, NativeStates DEF MicFails, NativeTypes, NativeType
<1>8. CASE CloseRecorder
  BY <1>1, <1>2, <1>8, NativeStates DEF CloseRecorder, NativeTypes, NativeType
<1>9. busy # <<>> /\ Advance => FrameLength \in Nat /\ Filled \in [1..Frame -> Sample]
  BY FilledIsSamples, MovedFits
<1>10. CASE WriteFrame
  <2> DEFINE s == Framed(Filled, FrameLength)
             page == Flushed(s)
  <2>1. /\ Encoded(FrameLength) \in NativeType
        /\ Rest(s) \in Rested /\ Rest(s).serialno = os.serialno
        /\ page \in Page(Sample)
    BY <1>9, <1>10, FramePage DEF WriteFrame, NativeType
  <2>2. /\ native' = Encoded(FrameLength)
        /\ \/ os' = os /\ files' = files
           \/ /\ native.file # NoRec
              /\ os' = Rest(s)
              /\ files' = [files EXCEPT ![native.file] = Append(files[native.file], page)]
    BY <1>10 DEF WriteFrame
  <2> HIDE DEF s, page
  <2>3. files' \in [Rec -> Seq(Page(Sample))]
    <3>1. native.file # NoRec => native.file \in Rec
      BY <1>1, Constants DEF NativeType
    <3>2. native.file # NoRec => Append(files[native.file], page) \in Seq(Page(Sample))
      BY <1>1, <2>1, <3>1, Posted
    <3> QED
      BY <1>1, <2>2, <3>1, <3>2
  <2> QED
    BY <1>1, <2>1, <2>2, <2>3 DEF NativeTypes, NativeType
<1>11. ASSUME NEW b \in BOOLEAN, WriteFails(b) PROVE G
  <2> DEFINE s == Framed(Filled, FrameLength)
             total == native.total + FrameLength
  <2>1. /\ Encoded(FrameLength) \in NativeType
        /\ Rest(s) \in Rested /\ Rest(s).serialno = os.serialno
    BY <1>9, <1>11, FramePage DEF WriteFails, NativeType
  <2>2. total \in Nat
    BY <1>1, <1>9, <1>11 DEF WriteFails, NativeType
  <2>3. /\ files' = files
        /\ \/ native' = Encoded(FrameLength) /\ os' = Rest(s)
           \/ native' = [native EXCEPT !.total = total] /\ os' = os
    BY <1>11 DEF WriteFails
  <2> HIDE DEF s, total
  <2> QED
    BY <1>1, <2>1, <2>2, <2>3 DEF NativeTypes, NativeType
<1> QED
  BY <1>3, <1>4, <1>5, <1>6, <1>7, <1>8, <1>10, <1>11

\* Every action keeps the types.
LEMMA TypesStep ==
  ASSUME Types, [Next]_vars
  PROVE  Types'
BY TaskTypesStep, JavaTypesStep, NativeTypesStep, GhostTypesStep, SampleTypesStep
   DEF Types

-----------------------------------------------------------------------------
(* Each recording is begun and dealt with once.                            *)

Kept == Types /\ BegunOnce /\ ClosedOnce

\* What an action does to the outcomes: a recording is begun, is cancelled
\* or is dealt with, and keeps what became of it.
LEMMA OutcomeMoves ==
  ASSUME Kept, [Next]_vars, NEW r \in Rec
  PROVE  \/ outcome'[r] = outcome[r]
         \/ /\ outcome[r] = "none" /\ outcome'[r] \in {"recording", "refused"}
            /\ TaskIs("start") /\ recordQ[1].r = r /\ mic = "none"
            /\ Start \/ (\E b \in BOOLEAN : StartFails(b)) \/ MicFails
         \/ /\ outcome[r] = "recording" /\ outcome'[r] = "cancelled"
            /\ mic # "none" /\ r = current
            /\ ReadNothing \/ ReadFails \/ StopToCancel
         \/ /\ outcome[r] = "recording" /\ outcome'[r] \in {"sent", "deleted"}
            /\ uiQ # <<>> /\ r = uiQ[1]
            /\ SendOrDelete
<1> DEFINE G == \/ outcome'[r] = outcome[r]
                \/ /\ outcome[r] = "none" /\ outcome'[r] \in {"recording", "refused"}
                   /\ TaskIs("start") /\ recordQ[1].r = r /\ mic = "none"
                   /\ Start \/ (\E b \in BOOLEAN : StartFails(b)) \/ MicFails
                \/ /\ outcome[r] = "recording" /\ outcome'[r] = "cancelled"
                   /\ mic # "none" /\ r = current
                   /\ ReadNothing \/ ReadFails \/ StopToCancel
                \/ /\ outcome[r] = "recording" /\ outcome'[r] \in {"sent", "deleted"}
                   /\ uiQ # <<>> /\ r = uiQ[1]
                   /\ SendOrDelete
<1>1. /\ outcome \in [Rec -> Outcomes]
      /\ mic # "none" => outcome[current] = "recording" /\ current \in Rec
  BY DEF Kept, Types, GhostTypes, ClosedOnce, MicIsOn
<1>2. TaskIs("start") => outcome[recordQ[1].r] = "none" /\ recordQ[1].r \in Rec
  <2> SUFFICES ASSUME TaskIs("start")
               PROVE  outcome[recordQ[1].r] = "none" /\ recordQ[1].r \in Rec
    OBVIOUS
  <2>1. 1 \in 1..Len(recordQ) /\ IsStart(1)
    BY Taken DEF Kept, Types, TaskTypes, TaskIs, IsStart
  <2> QED
    BY <2>1, StartedIsRec DEF Kept, BegunOnce, StartsWait
<1>3. uiQ # <<>> => outcome[uiQ[1]] = "recording"
  <2> SUFFICES ASSUME uiQ # <<>> PROVE outcome[uiQ[1]] = "recording"
    OBVIOUS
  <2>1. 1 \in 1..Len(uiQ)
    BY Taken DEF Kept, Types, TaskTypes
  <2> QED
    BY <2>1 DEF Kept, ClosedOnce, WaitToSend, ToSend
<1>4. \/ UNCHANGED outcome
      \/ Start \/ (\E b \in BOOLEAN : StartFails(b)) \/ MicFails
      \/ ReadNothing \/ ReadFails \/ StopToCancel \/ SendOrDelete
  BY DEF Next, RecordQueue, EncodingQueue, AskStart, AskStop, StartRefused, StartRaces,
         ReadMic, ReadNoMic, StopNoMic, StopToSend,
         TakeBuffer, FillBuffer, WriteFrame, WriteFails, WriteCrashes, CloseRecorder, vars
<1>5. CASE Start
  BY <1>1, <1>2, <1>5 DEF Start
<1>6. ASSUME NEW b \in BOOLEAN, StartFails(b) PROVE G
  BY <1>1, <1>2, <1>6 DEF StartFails
<1>7. CASE MicFails
  BY <1>1, <1>2, <1>7 DEF MicFails
<1>8. CASE ReadNothing
  BY <1>1, <1>8 DEF ReadNothing, Release
<1>9. CASE ReadFails
  BY <1>1, <1>9 DEF ReadFails, Release
<1>10. CASE StopToCancel
  BY <1>1, <1>10 DEF StopToCancel, Release
<1>11. CASE SendOrDelete
  BY <1>1, <1>3, <1>11 DEF SendOrDelete
<1> QED
  BY <1>4, <1>5, <1>6, <1>7, <1>8, <1>9, <1>10, <1>11

\* Nothing undoes the beginning of a recording.
LEMMA BegunStays ==
  ASSUME Kept, [Next]_vars, NEW r \in Rec, outcome[r] # "none"
  PROVE  outcome'[r] # "none"
BY OutcomeMoves

\* What an action does to recordQ: it posts a task, or takes the first one
\* and may post the next read.
LEMMA RecordMoves ==
  ASSUME Types, [Next]_vars
  PROVE  \/ UNCHANGED <<recordQ, starts>> /\ (UNCHANGED outcome \/ SendOrDelete)
         \/ AskStart
         \/ \E send \in BOOLEAN : AskStop(send)
         \/ /\ recordQ # <<>> /\ starts' = starts
            /\ Len(recordQ') \in Nat
            /\ \A i \in 1..Len(recordQ') : recordQ'[i].is = "start" =>
                 i + 1 \in 1..Len(recordQ) /\ recordQ'[i] = recordQ[i + 1]
<1> DEFINE Takes == /\ recordQ # <<>> /\ starts' = starts
                    /\ \/ recordQ' = Tail(recordQ)
                       \/ recordQ' = Append(Tail(recordQ), [is |-> "read"])
<1>1. ASSUME Takes
      PROVE  /\ Len(recordQ') \in Nat
             /\ \A i \in 1..Len(recordQ') : recordQ'[i].is = "start" =>
                  i + 1 \in 1..Len(recordQ) /\ recordQ'[i] = recordQ[i + 1]
  <2>1. /\ Tail(recordQ) \in Seq(RecordTask) /\ Len(recordQ) \in Nat
        /\ Len(Tail(recordQ)) = Len(recordQ) - 1
        /\ \A i \in 1..(Len(recordQ) - 1) : Tail(recordQ)[i] = recordQ[i + 1]
    BY <1>1, Taken DEF Types, TaskTypes
  <2>2. CASE recordQ' = Tail(recordQ)
    BY <2>1, <2>2
  <2>3. CASE recordQ' = Append(Tail(recordQ), [is |-> "read"])
    <3> DEFINE t == [is |-> "read"]
    <3>1. t \in RecordTask /\ t.is = "read"
      BY DEF RecordTask
    <3> HIDE DEF t
    <3>2. /\ Len(recordQ') = Len(Tail(recordQ)) + 1
          /\ \A i \in 1..Len(Tail(recordQ)) : recordQ'[i] = Tail(recordQ)[i]
          /\ recordQ'[Len(Tail(recordQ)) + 1] = t
      BY <2>1, <2>3, <3>1, Posted DEF t
    <3> QED
      BY <2>1, <3>1, <3>2
  <2> QED
    BY <1>1, <2>2, <2>3
<1>2. \/ UNCHANGED <<recordQ, starts>> /\ (UNCHANGED outcome \/ SendOrDelete)
      \/ AskStart \/ (\E send \in BOOLEAN : AskStop(send)) \/ Takes
  BY DEF Next, RecordQueue, EncodingQueue, StartRefused, Start, StartFails, MicFails,
         StartRaces, ReadMic, ReadNothing, ReadFails, ReadNoMic, StopNoMic, StopToSend,
         StopToCancel, Release, TaskIs, TakeBuffer, FillBuffer, WriteFrame, WriteFails,
         WriteCrashes, CloseRecorder, SendOrDelete, vars, queues, counters
<1> HIDE DEF Takes
<1> QED
  BY <1>1, <1>2 DEF Takes

\* The first of the starts queued is the one an action begins, if it does.
LEMMA BegunIsFirst ==
  ASSUME Kept, [Next]_vars, NEW i \in 1..Len(recordQ), i > 1, IsStart(i)
  PROVE  outcome'[recordQ[i].r] = "none"
<1>1. StartsWait /\ recordQ \in Seq(RecordTask)
  BY DEF Kept, BegunOnce, Types, TaskTypes
<1>2. recordQ[i].r \in Rec /\ outcome[recordQ[i].r] = "none"
  BY <1>1 DEF IsStart, RecordTask, StartsWait
<1>3. TaskIs("start") => recordQ[1].r # recordQ[i].r
  <2>1. 1 \in 1..Len(recordQ)
    BY <1>1
  <2> QED
    BY <1>1, <2>1 DEF TaskIs, StartsWait, IsStart
<1> QED
  BY <1>2, <1>3, OutcomeMoves

LEMMA StartsWaitStep ==
  ASSUME Kept, [Next]_vars
  PROVE  StartsWait'
<1>1. /\ StartsWait /\ recordQ \in Seq(RecordTask) /\ starts \in 0..MaxStarts
      /\ MaxStarts \in Nat /\ outcome \in [Rec -> Outcomes]
  BY Constants DEF Kept, BegunOnce, Types, TaskTypes, GhostTypes
<1>2. \A i \in 1..Len(recordQ) : IsStart(i) => recordQ[i].r \in Rec
  BY <1>1 DEF IsStart, RecordTask
<1>3. uiQ # <<>> => outcome[uiQ[1]] = "recording"
  <2>1. uiQ # <<>> => 1 \in 1..Len(uiQ)
    BY Taken DEF Kept, Types, TaskTypes
  <2> QED
    BY <2>1 DEF Kept, ClosedOnce, WaitToSend, ToSend
<1>4. CASE UNCHANGED <<recordQ, starts>> /\ (UNCHANGED outcome \/ SendOrDelete)
  <2>1. \A r \in Rec : outcome[r] = "none" => outcome'[r] = "none"
    BY <1>1, <1>3, <1>4 DEF SendOrDelete
  <2> QED
    BY <1>1, <1>2, <1>4, <2>1 DEF StartsWait, IsStart
<1>5. CASE AskStart
  <2> DEFINE t == [is |-> "start", r |-> starts + 1]
  <2>1. /\ starts + 1 \in Rec /\ starts' = starts + 1 /\ outcome' = outcome
        /\ recordQ' = Append(recordQ, t)
    BY <1>1, <1>5, Constants DEF AskStart
  <2>2. t \in RecordTask /\ t.r = starts + 1
    BY <2>1 DEF RecordTask
  <2> HIDE DEF t
  <2>3. /\ Len(recordQ') = Len(recordQ) + 1 /\ Len(recordQ) \in Nat
        /\ \A i \in 1..Len(recordQ) : recordQ'[i] = recordQ[i]
        /\ recordQ'[Len(recordQ) + 1] = t
    BY <1>1, <2>1, <2>2, Posted
  <2>4. \A i \in 1..Len(recordQ') :
          \/ i \in 1..Len(recordQ) /\ recordQ'[i] = recordQ[i]
          \/ i = Len(recordQ) + 1 /\ recordQ'[i] = t
    BY <2>3
  <2>5. \A i \in 1..Len(recordQ) : IsStart(i) =>
          recordQ[i].r <= starts /\ outcome[recordQ[i].r] = "none"
    BY <1>1 DEF StartsWait
  <2>6. starts + 1 > starts /\ outcome[starts + 1] = "none"
    BY <1>1, <2>1 DEF StartsWait
  <2>7. \A i \in 1..Len(recordQ') : recordQ'[i].is = "start" =>
          /\ recordQ'[i].r <= starts + 1
          /\ outcome[recordQ'[i].r] = "none"
          /\ recordQ'[i].r = starts + 1 <=> i = Len(recordQ) + 1
    <3> SUFFICES ASSUME NEW i \in 1..Len(recordQ'), recordQ'[i].is = "start"
                 PROVE  /\ recordQ'[i].r <= starts + 1
                        /\ outcome[recordQ'[i].r] = "none"
                        /\ recordQ'[i].r = starts + 1 <=> i = Len(recordQ) + 1
      OBVIOUS
    <3>1. CASE i \in 1..Len(recordQ) /\ recordQ'[i] = recordQ[i]
      <4>1. recordQ[i].r <= starts /\ outcome[recordQ[i].r] = "none" /\ recordQ[i].r \in Rec
        BY <1>2, <2>5, <3>1 DEF IsStart
      <4> QED
        BY <1>1, <2>3, <3>1, <4>1, Constants
    <3>2. CASE i = Len(recordQ) + 1 /\ recordQ'[i] = t
      BY <2>2, <2>6, <1>1, <3>2
    <3> QED
      BY <2>4, <3>1, <3>2
  <2>8. \A i, j \in 1..Len(recordQ') :
          recordQ'[i].is = "start" /\ recordQ'[j].is = "start" /\ recordQ'[i].r = recordQ'[j].r
            => i = j
    <3> SUFFICES ASSUME NEW i \in 1..Len(recordQ'), NEW j \in 1..Len(recordQ'),
                        recordQ'[i].is = "start", recordQ'[j].is = "start",
                        recordQ'[i].r = recordQ'[j].r
                 PROVE  i = j
      OBVIOUS
    <3>1. i = Len(recordQ) + 1 <=> j = Len(recordQ) + 1
      BY <2>7
    <3> QED
      BY <1>1, <2>4, <3>1 DEF StartsWait, IsStart
  <2>9. \A r \in Rec : r > starts + 1 => outcome[r] = "none"
    BY <1>1, Constants DEF StartsWait
  <2> QED
    BY <2>1, <2>7, <2>8, <2>9 DEF StartsWait, IsStart
<1>6. ASSUME NEW send \in BOOLEAN, AskStop(send) PROVE StartsWait'
  <2> DEFINE t == [is |-> "stop", send |-> send]
  <2>1. starts' = starts /\ outcome' = outcome /\ recordQ' = Append(recordQ, t)
    BY <1>6 DEF AskStop
  <2>2. t \in RecordTask /\ t.is = "stop"
    BY DEF RecordTask
  <2> HIDE DEF t
  <2>3. /\ Len(recordQ') = Len(recordQ) + 1 /\ Len(recordQ) \in Nat
        /\ \A i \in 1..Len(recordQ) : recordQ'[i] = recordQ[i]
        /\ recordQ'[Len(recordQ) + 1] = t
    BY <1>1, <2>1, <2>2, Posted
  <2>4. \A i \in 1..Len(recordQ') : recordQ'[i].is = "start" =>
          i \in 1..Len(recordQ) /\ recordQ'[i] = recordQ[i]
    BY <2>2, <2>3
  <2> QED
    BY <1>1, <2>1, <2>4 DEF StartsWait, IsStart
<1>7. CASE /\ recordQ # <<>> /\ starts' = starts
           /\ Len(recordQ') \in Nat
           /\ \A i \in 1..Len(recordQ') : recordQ'[i].is = "start" =>
                i + 1 \in 1..Len(recordQ) /\ recordQ'[i] = recordQ[i + 1]
  <2>1. \A i \in 1..Len(recordQ') : recordQ'[i].is = "start" =>
          recordQ'[i].r <= starts /\ outcome'[recordQ'[i].r] = "none"
    <3> SUFFICES ASSUME NEW i \in 1..Len(recordQ'), recordQ'[i].is = "start"
                 PROVE  recordQ'[i].r <= starts /\ outcome'[recordQ'[i].r] = "none"
      OBVIOUS
    <3>1. i + 1 \in 1..Len(recordQ) /\ recordQ'[i] = recordQ[i + 1] /\ i + 1 > 1
      BY <1>7
    <3>2. IsStart(i + 1)
      BY <3>1 DEF IsStart
    <3> QED
      BY <1>1, <3>1, <3>2, BegunIsFirst DEF StartsWait
  <2>2. \A i, j \in 1..Len(recordQ') :
          recordQ'[i].is = "start" /\ recordQ'[j].is = "start" /\ recordQ'[i].r = recordQ'[j].r
            => i = j
    <3> SUFFICES ASSUME NEW i \in 1..Len(recordQ'), NEW j \in 1..Len(recordQ'),
                        recordQ'[i].is = "start", recordQ'[j].is = "start",
                        recordQ'[i].r = recordQ'[j].r
                 PROVE  i = j
      OBVIOUS
    <3>1. /\ i + 1 \in 1..Len(recordQ) /\ recordQ'[i] = recordQ[i + 1]
          /\ j + 1 \in 1..Len(recordQ) /\ recordQ'[j] = recordQ[j + 1]
      BY <1>7
    <3>2. i + 1 = j + 1
      BY <1>1, <3>1 DEF StartsWait, IsStart
    <3> QED
      BY <3>2
  <2>3. \A r \in Rec : r > starts => outcome'[r] = "none"
    <3> SUFFICES ASSUME NEW r \in Rec, r > starts PROVE outcome'[r] = "none"
      OBVIOUS
    <3>1. outcome[r] = "none"
      BY <1>1 DEF StartsWait
    <3>2. TaskIs("start") => recordQ[1].r # r
      <4>1. recordQ # <<>> => 1 \in 1..Len(recordQ)
        BY <1>1
      <4>2. TaskIs("start") => recordQ[1].r <= starts
        BY <1>1, <4>1 DEF TaskIs, StartsWait, IsStart
      <4>3. TaskIs("start") => recordQ[1].r \in Rec
        BY StartedIsRec DEF Kept
      <4> QED
        BY <1>1, <4>2, <4>3, Constants
    <3> QED
      BY <3>1, <3>2, OutcomeMoves
  <2> QED
    BY <1>7, <2>1, <2>2, <2>3 DEF StartsWait, IsStart
<1>8. Types
  BY DEF Kept
<1> QED
  BY <1>4, <1>5, <1>6, <1>7, <1>8, RecordMoves

LEMMA NoTraceStep ==
  ASSUME Kept, [Next]_vars
  PROVE  NoTrace'
<1> SUFFICES ASSUME NEW r \in Rec, outcome'[r] = "none"
             PROVE  spoken'[r] = <<>> /\ files'[r] = <<>> /\ native'.file # r
  BY DEF NoTrace
<1> DEFINE G == spoken'[r] = <<>> /\ files'[r] = <<>> /\ native'.file # r
<1>1. outcome[r] = "none"
  BY BegunStays
<1>2. /\ spoken[r] = <<>> /\ files[r] = <<>> /\ native.file # r
      /\ spoken \in [Rec -> Seq(Sample)] /\ files \in [Rec -> Seq(Page(Sample))]
      /\ outcome \in [Rec -> Outcomes] /\ native \in NativeType /\ NoRec # r
  <2>1. spoken[r] = <<>> /\ files[r] = <<>> /\ native.file # r
    BY <1>1 DEF Kept, BegunOnce, NoTrace
  <2>2. /\ spoken \in [Rec -> Seq(Sample)] /\ files \in [Rec -> Seq(Page(Sample))]
        /\ outcome \in [Rec -> Outcomes] /\ native \in NativeType
    BY DEF Kept, Types, GhostTypes, NativeTypes, NativeType
  <2>3. NoRec # r
    BY Constants
  <2> QED
    BY <2>1, <2>2, <2>3
<1>3. TaskIs("start") => recordQ[1].r \in Rec
  BY StartedIsRec DEF Kept
<1>4. \/ UNCHANGED <<spoken, nativeVars>>
      \/ Start \/ (\E b \in BOOLEAN : StartFails(b)) \/ MicFails
      \/ (\E n \in 1..ReadSize : ReadMic(n))
      \/ WriteFrame \/ (\E b \in BOOLEAN : WriteFails(b)) \/ CloseRecorder
  BY DEF Next, RecordQueue, EncodingQueue, AskStart, AskStop, StartRefused, StartRaces,
         ReadNothing, ReadFails, ReadNoMic, StopNoMic, StopToSend, StopToCancel,
         TakeBuffer, FillBuffer, WriteCrashes, SendOrDelete, vars, ghosts
<1>5. CASE UNCHANGED <<spoken, nativeVars>>
  BY <1>2, <1>5 DEF nativeVars
<1>6. CASE Start
  <2>1. recordQ[1].r # r
    BY <1>2, <1>6 DEF Start
  <2>2. native'.file = recordQ[1].r
    BY <1>3, <1>6, NativeStates DEF Start
  <2> QED
    BY <1>2, <1>6, <2>1, <2>2 DEF Start
<1>7. ASSUME NEW b \in BOOLEAN, StartFails(b) PROVE G
  <2>1. recordQ[1].r # r
    BY <1>2, <1>7 DEF StartFails
  <2>2. native'.file \in {recordQ[1].r, NoRec}
    BY <1>3, <1>7, NativeStates DEF StartFails
  <2> QED
    BY <1>2, <1>7, <2>1, <2>2 DEF StartFails
<1>8. CASE MicFails
  BY <1>2, <1>8, NativeStates DEF MicFails
<1>9. ASSUME NEW n \in 1..ReadSize, ReadMic(n) PROVE G
  <2>1. current # r
    BY <1>1, <1>9 DEF ReadMic, Kept, ClosedOnce, MicIsOn
  <2> QED
    BY <1>2, <1>9, <2>1 DEF ReadMic, nativeVars
<1>10. CASE WriteFrame
  <2>1. native'.file = native.file
    BY <1>2, <1>10 DEF WriteFrame, Encoded, NativeType
  <2>2. files' = files \/ files' = [files EXCEPT ![native.file] = Append(@, Flushed(Framed(Filled, FrameLength)))]
    BY <1>10 DEF WriteFrame
  <2> QED
    BY <1>2, <1>10, <2>1, <2>2 DEF WriteFrame, ghosts
<1>11. ASSUME NEW b \in BOOLEAN, WriteFails(b) PROVE G
  <2>1. native'.file = native.file
    BY <1>2, <1>11 DEF WriteFails, Encoded, NativeType
  <2> QED
    BY <1>2, <1>11, <2>1 DEF WriteFails
<1>12. CASE CloseRecorder
  BY <1>2, <1>12, NativeStates DEF CloseRecorder, ghosts
<1> QED
  BY <1>4, <1>5, <1>6, <1>7, <1>8, <1>9, <1>10, <1>11, <1>12

\* What an action does to encodeQ and the buffer in work.
Sends ==
  /\ mic # "none" /\ mic' = "none" /\ sendAfterDone /\ current \in Rec
  /\ encodeQ' = Append(encodeQ, [is |-> "close", r |-> current])
  /\ UNCHANGED <<uiQ, busy, outcome>>
  /\ ReadNothing \/ ReadFails

Encodes ==
  /\ FillBuffer \/ WriteFrame \/ \E b \in BOOLEAN : WriteFails(b)
  /\ busy # <<>>
  /\ UNCHANGED <<encodeQ, outcome>>
  /\ \/ busy' = <<>>
     \/ busy' = <<[busy[1] EXCEPT !.at = busy[1].at + Moved]>>

LEMMA EncodeMoves ==
  ASSUME Types, [Next]_vars
  PROVE  \/ UNCHANGED <<encodeQ, busy>>
         \/ Encodes \/ Sends \/ TakeBuffer \/ CloseRecorder
         \/ \E n \in 1..ReadSize : ReadMic(n)
<1>1. mic # "none" => current \in Rec
  BY DEF Types, GhostTypes
<1>2. sendAfterDone \in BOOLEAN
  BY DEF Types, JavaTypes
<1>3. CASE ReadNothing
  BY <1>1, <1>2, <1>3 DEF ReadNothing, Release, Sends, counters
<1>4. CASE ReadFails
  BY <1>1, <1>2, <1>4 DEF ReadFails, Release, Sends
<1>5. CASE FillBuffer \/ WriteFrame \/ \E b \in BOOLEAN : WriteFails(b)
  BY <1>5 DEF FillBuffer, WriteFrame, WriteFails, Advance, Encodes
<1> QED
  BY <1>3, <1>4, <1>5
     DEF Next, RecordQueue, EncodingQueue, AskStart, AskStop, StartRefused, Start,
         StartFails, MicFails, StartRaces, ReadNoMic, StopNoMic, StopToSend,
         StopToCancel, Release, WriteCrashes, SendOrDelete, vars, queues

LEMMA OnlyBegunStep ==
  ASSUME Kept, [Next]_vars
  PROVE  OnlyBegun'
<1>1. /\ encodeQ \in Seq(EncodeTask)
      /\ busy # <<>> => busy = <<busy[1]>> /\ busy[1] \in InWork
      /\ mic # "none" => current \in Rec /\ outcome[current] # "none"
  BY DEF Kept, Types, TaskTypes, GhostTypes, ClosedOnce, MicIsOn
<1>2. \A i \in 1..Len(encodeQ) : encodeQ[i].r \in Rec /\ outcome'[encodeQ[i].r] # "none"
  <2> SUFFICES ASSUME NEW i \in 1..Len(encodeQ)
               PROVE  encodeQ[i].r \in Rec /\ outcome'[encodeQ[i].r] # "none"
    OBVIOUS
  <2>1. encodeQ[i].r \in Rec
    BY <1>1 DEF EncodeTask
  <2>2. outcome[encodeQ[i].r] # "none"
    BY DEF Kept, BegunOnce, OnlyBegun
  <2> QED
    BY <2>1, <2>2, BegunStays
<1>3. busy # <<>> => outcome'[busy[1].r] # "none"
  <2>1. busy # <<>> => busy[1].r \in Rec /\ outcome[busy[1].r] # "none"
    BY <1>1 DEF InWork, Kept, BegunOnce, OnlyBegun
  <2> QED
    BY <2>1, BegunStays
<1>4. mic # "none" => outcome'[current] # "none"
  BY <1>1, BegunStays
<1>5. CASE UNCHANGED <<encodeQ, busy>>
  BY <1>2, <1>3, <1>5 DEF OnlyBegun
<1>6. CASE Encodes
  <2>1. busy'# <<>> => busy'[1].r = busy[1].r
    BY <1>1, <1>6 DEF Encodes, InWork
  <2> QED
    BY <1>2, <1>3, <1>6, <2>1 DEF OnlyBegun, Encodes
<1>7. CASE Sends
  <2> DEFINE t == [is |-> "close", r |-> current]
  <2>1. t \in EncodeTask /\ t.r = current
    BY <1>7 DEF Sends, EncodeTask
  <2>2. encodeQ' = Append(encodeQ, t) /\ busy' = busy /\ mic # "none"
    BY <1>7 DEF Sends
  <2> HIDE DEF t
  <2>3. \A i \in 1..Len(encodeQ') :
          \/ i \in 1..Len(encodeQ) /\ encodeQ'[i] = encodeQ[i]
          \/ encodeQ'[i] = t
    BY <1>1, <2>1, <2>2, Posted
  <2> QED
    BY <1>2, <1>3, <1>4, <2>1, <2>2, <2>3 DEF OnlyBegun
<1>8. CASE TakeBuffer
  <2>1. /\ Len(encodeQ) \in Nat /\ Len(encodeQ) > 0
        /\ Len(encodeQ') = Len(encodeQ) - 1
        /\ \A i \in 1..(Len(encodeQ) - 1) : encodeQ'[i] = encodeQ[i + 1]
    BY <1>1, <1>8, Taken DEF TakeBuffer
  <2>2. busy'[1].r = encodeQ[1].r
    BY <1>8 DEF TakeBuffer
  <2> QED
    BY <1>2, <2>1, <2>2 DEF OnlyBegun
<1>9. CASE CloseRecorder
  <2>1. /\ Len(encodeQ) \in Nat /\ Len(encodeQ) > 0
        /\ Len(encodeQ') = Len(encodeQ) - 1
        /\ \A i \in 1..(Len(encodeQ) - 1) : encodeQ'[i] = encodeQ[i + 1]
        /\ busy' = busy
    BY <1>1, <1>9, Taken DEF CloseRecorder
  <2> QED
    BY <1>2, <1>3, <2>1 DEF OnlyBegun
<1>10. ASSUME NEW n \in 1..ReadSize, ReadMic(n) PROVE OnlyBegun'
  <2>1. /\ Len(encodeQ) \in Nat /\ Len(encodeQ') = Len(encodeQ) + 1
        /\ \A i \in 1..Len(encodeQ) : encodeQ'[i] = encodeQ[i]
        /\ encodeQ'[Len(encodeQ) + 1].r = current
        /\ mic # "none" /\ busy' = busy
    BY <1>10, ReadIsQueued DEF ReadMic, Kept
  <2> QED
    BY <1>2, <1>3, <1>4, <2>1 DEF OnlyBegun
<1>11. Types
  BY DEF Kept
<1> QED
  BY <1>5, <1>6, <1>7, <1>8, <1>9, <1>10, <1>11, EncodeMoves

LEMMA BegunOnceStep ==
  ASSUME Kept, [Next]_vars
  PROVE  BegunOnce'
BY StartsWaitStep, NoTraceStep, OnlyBegunStep DEF BegunOnce

\* What went wrong with a recording, and what the user asked, stays.
LEMMA GhostsGrow ==
  ASSUME Types, [Next]_vars, NEW r \in Rec
  PROVE  flaws[r] \subseteq flaws'[r] /\ asked \subseteq asked'
<1> DEFINE G == flaws[r] \subseteq flaws'[r] /\ asked \subseteq asked'
<1>1. /\ flaws \in [Rec -> SUBSET Flaws]
      /\ {"overlap", "cut", "mic", "write"} \subseteq Flaws
  BY DEF Types, GhostTypes, Flaws
<1>2. \A rs, f : f \in Flaws => flaws[r] \subseteq FlawsWith(rs, f)[r]
  <2> SUFFICES ASSUME NEW rs, NEW f \in Flaws
               PROVE  flaws[r] \subseteq FlawsWith(rs, f)[r]
    OBVIOUS
  <2>1. FlawsWith(rs, f)[r] = IF r \in rs THEN flaws[r] \cup {f} ELSE flaws[r]
    BY <1>1 DEF FlawsWith
  <2> QED
    BY <2>1
<1>3. UNCHANGED <<flaws, asked>> => G
  OBVIOUS
<1>4. /\ (\E rs, f : f \in Flaws /\ flaws' = FlawsWith(rs, f)) => flaws[r] \subseteq flaws'[r]
      /\ flaws' = flaws => flaws[r] \subseteq flaws'[r]
  BY <1>2
<1>5. CASE Start
  BY <1>1, <1>4, <1>5 DEF Start, TakeOver
<1>6. ASSUME NEW b \in BOOLEAN, StartFails(b) PROVE G
  BY <1>1, <1>4, <1>6 DEF StartFails, TakeOver
<1>7. CASE MicFails
  BY <1>1, <1>4, <1>7 DEF MicFails, TakeOver
<1>8. CASE StartRaces
  BY <1>1, <1>4, <1>8 DEF StartRaces
<1>9. ASSUME NEW n \in 1..ReadSize, ReadMic(n) PROVE G
  <2>1. flaws' = flaws \/ flaws' = FlawsWith({current}, "cut")
    BY <1>9 DEF ReadMic
  <2>2. asked' = asked
    BY <1>9 DEF ReadMic
  <2> QED
    BY <1>1, <1>4, <2>1, <2>2
<1>10. CASE ReadFails
  BY <1>1, <1>4, <1>10 DEF ReadFails
<1>11. CASE StopToSend
  BY <1>11 DEF StopToSend
<1>12. ASSUME NEW b \in BOOLEAN, WriteFails(b) PROVE G
  BY <1>1, <1>4, <1>12 DEF WriteFails
<1> QED
  BY <1>3, <1>5, <1>6, <1>7, <1>8, <1>9, <1>10, <1>11, <1>12
     DEF Next, RecordQueue, EncodingQueue, AskStart, AskStop, StartRefused,
         ReadNothing, ReadNoMic, StopNoMic, StopToCancel, TakeBuffer, FillBuffer,
         WriteFrame, WriteCrashes, CloseRecorder, SendOrDelete, vars, ghosts

\* A recording is going on after an action if it was begun or goes on.
LEMMA MicMoves ==
  ASSUME Types, [Next]_vars, mic' # "none"
  PROVE  \/ Start /\ current' = recordQ[1].r /\ mic = "none" /\ mic' = "recording"
         \/ /\ mic # "none" /\ current' = current
            /\ \/ mic' = mic /\ sendAfterDone' = sendAfterDone
               \/ StopToSend
BY DEF Next, RecordQueue, EncodingQueue, AskStart, AskStop, StartRefused, Start,
       StartFails, MicFails, StartRaces, ReadMic, ReadNothing, ReadFails, ReadNoMic,
       StopNoMic, StopToSend, StopToCancel, Release, TakeBuffer, FillBuffer, WriteFrame,
       WriteFails, WriteCrashes, CloseRecorder, SendOrDelete, vars, javaVars

LEMMA StartBegins ==
  ASSUME Kept, TaskIs("start")
  PROVE  recordQ[1].r \in Rec /\ outcome[recordQ[1].r] = "none"
<1>1. 1 \in 1..Len(recordQ) /\ IsStart(1)
  BY Taken DEF Kept, Types, TaskTypes, TaskIs, IsStart
<1> QED
  BY <1>1, StartedIsRec DEF Kept, BegunOnce, StartsWait

LEMMA ToSendStays ==
  ASSUME Kept, [Next]_vars, NEW r \in Rec, ToSend(r), SendOrDelete => r # uiQ[1]
  PROVE  ToSend(r)'
<1>1. outcome[r] = "recording" /\ (mic # "none" => current # r)
  BY DEF ToSend
<1>2. outcome'[r] = "recording"
  BY <1>1, OutcomeMoves
<1>3. mic' # "none" => current' # r
  <2> SUFFICES ASSUME mic' # "none" PROVE current' # r
    OBVIOUS
  <2>1. Start => outcome[recordQ[1].r] = "none"
    BY StartBegins DEF Start
  <2>2. Types
    BY DEF Kept
  <2> QED
    BY <1>1, <2>1, <2>2, MicMoves
<1>4. flaws[r] \subseteq flaws'[r] /\ asked \subseteq asked'
  BY GhostsGrow DEF Kept
<1> QED
  BY <1>2, <1>3, <1>4 DEF ToSend

LEMMA MicIsOnStep ==
  ASSUME Kept, [Next]_vars
  PROVE  MicIsOn'
<1>1. /\ MicIsOn /\ Types /\ outcome \in [Rec -> Outcomes]
      /\ mic # "none" => current \in Rec
  BY DEF Kept, ClosedOnce, Types, GhostTypes
<1>2. mic' # "none" => outcome'[current'] = "recording"
  <2> SUFFICES ASSUME mic' # "none" PROVE outcome'[current'] = "recording"
    OBVIOUS
  <2>1. CASE Start
    <3>1. recordQ[1].r \in Rec
      BY <1>1, <2>1, StartedIsRec DEF Start
    <3> QED
      BY <1>1, <2>1, <3>1 DEF Start
  <2>2. CASE mic # "none" /\ current' = current
    <3>1. current \in Rec /\ outcome[current] = "recording"
      BY <1>1, <2>2 DEF MicIsOn
    <3>2. ~(ReadNothing \/ ReadFails \/ StopToCancel)
      BY DEF ReadNothing, ReadFails, StopToCancel, Release
    <3>3. SendOrDelete => current # uiQ[1]
      <4>1. SendOrDelete => 1 \in 1..Len(uiQ)
        BY <1>1, Taken DEF SendOrDelete, Types, TaskTypes
      <4> QED
        BY <2>2, <4>1 DEF Kept, ClosedOnce, WaitToSend, ToSend
    <3> QED
      BY <2>2, <3>1, <3>2, <3>3, OutcomeMoves
  <2> QED
    BY <1>1, <2>1, <2>2, MicMoves
<1>3. mic' = "stopped" => sendAfterDone' /\ current' \in asked'
  <2> SUFFICES ASSUME mic' = "stopped" PROVE sendAfterDone' /\ current' \in asked'
    OBVIOUS
  <2>1. CASE StopToSend
    BY <1>1, <2>1 DEF StopToSend
  <2>2. CASE mic' = mic /\ sendAfterDone' = sendAfterDone /\ current' = current
    <3>1. current \in Rec
      BY <1>1, <2>2
    <3>2. asked \subseteq asked'
      BY <1>1, <3>1, GhostsGrow
    <3> QED
      BY <1>1, <2>2, <3>2 DEF MicIsOn
  <2> QED
    BY <1>1, <2>1, <2>2, MicMoves
<1> QED
  BY <1>2, <1>3 DEF MicIsOn

\* The closes queued after an action were queued before it, at the same place
\* or one further, or were queued by it.
ShiftBy(d) ==
  \A i \in 1..Len(encodeQ') : encodeQ'[i].is = "close" =>
    \/ i + d \in 1..Len(encodeQ) /\ encodeQ'[i] = encodeQ[i + d]
    \/ d = 0 /\ Sends /\ i = Len(encodeQ) + 1 /\ encodeQ'[i].r = current

LEMMA ClosesMove ==
  ASSUME Types, [Next]_vars
  PROVE  \/ ShiftBy(0) /\ (UNCHANGED uiQ \/ SendOrDelete)
         \/ ShiftBy(1) /\ (UNCHANGED uiQ \/ CloseRecorder)
<1>1. encodeQ \in Seq(EncodeTask)
  BY DEF Types, TaskTypes
<1>2. CASE UNCHANGED <<encodeQ, busy>> \/ Encodes
  <2>1. encodeQ' = encodeQ /\ (UNCHANGED uiQ \/ SendOrDelete \/ CloseRecorder)
    BY <1>2 DEF Encodes, FillBuffer, WriteFrame, WriteFails, Next, RecordQueue,
       EncodingQueue, AskStart, AskStop, StartRefused, Start, StartFails, MicFails,
       StartRaces, ReadMic, ReadNothing, ReadFails, ReadNoMic, StopNoMic, StopToSend,
       StopToCancel, TakeBuffer, WriteCrashes, vars, queues
  <2>2. ~CloseRecorder
    <3> SUFFICES ASSUME CloseRecorder PROVE FALSE
      OBVIOUS
    <3>1. encodeQ # <<>> /\ encodeQ' = Tail(encodeQ)
      BY DEF CloseRecorder
    <3>2. Len(Tail(encodeQ)) = Len(encodeQ) - 1 /\ Len(encodeQ) \in Nat
      BY <1>1, <3>1, Taken
    <3> QED
      BY <2>1, <3>1, <3>2
  <2> QED
    BY <1>1, <2>1, <2>2 DEF ShiftBy
<1>3. CASE Sends
  <2> DEFINE t == [is |-> "close", r |-> current]
  <2>1. t \in EncodeTask /\ t.r = current /\ encodeQ' = Append(encodeQ, t)
    BY <1>3 DEF Sends, EncodeTask
  <2> HIDE DEF t
  <2>2. \A i \in 1..Len(encodeQ') :
          \/ i \in 1..Len(encodeQ) /\ encodeQ'[i] = encodeQ[i]
          \/ i = Len(encodeQ) + 1 /\ encodeQ'[i] = t
    BY <1>1, <2>1, Posted
  <2>3. \A i \in 1..Len(encodeQ) : i + 0 = i
    BY <1>1
  <2> QED
    BY <1>3, <2>1, <2>2, <2>3 DEF ShiftBy, Sends
<1>4. CASE TakeBuffer \/ CloseRecorder
  <2>1. /\ Len(encodeQ) \in Nat /\ Len(encodeQ) > 0
        /\ Len(encodeQ') = Len(encodeQ) - 1
        /\ \A i \in 1..(Len(encodeQ) - 1) : encodeQ'[i] = encodeQ[i + 1]
    BY <1>1, <1>4, Taken DEF TakeBuffer, CloseRecorder
  <2>2. \A i \in 1..Len(encodeQ') : i + 1 \in 1..Len(encodeQ) /\ encodeQ'[i] = encodeQ[i + 1]
    BY <2>1
  <2>3. UNCHANGED uiQ \/ CloseRecorder
    BY <1>4 DEF TakeBuffer
  <2> QED
    BY <2>2, <2>3 DEF ShiftBy
<1>5. ASSUME NEW n \in 1..ReadSize, ReadMic(n)
      PROVE  ShiftBy(0) /\ UNCHANGED uiQ
  <2>1. /\ Len(encodeQ) \in Nat /\ Len(encodeQ') = Len(encodeQ) + 1
        /\ \A i \in 1..Len(encodeQ) : encodeQ'[i] = encodeQ[i]
        /\ encodeQ'[Len(encodeQ) + 1].is = "data"
    BY <1>5, ReadIsQueued
  <2>2. UNCHANGED uiQ
    BY <1>5 DEF ReadMic
  <2>3. \A i \in 1..Len(encodeQ') : encodeQ'[i].is = "close" =>
          i + 0 \in 1..Len(encodeQ) /\ encodeQ'[i] = encodeQ[i + 0]
    BY <2>1
  <2> QED
    BY <2>2, <2>3 DEF ShiftBy
<1> QED
  BY <1>2, <1>3, <1>4, <1>5, EncodeMoves

\* The recordings the UI thread is told of.
LEMMA ToldMove ==
  ASSUME Types, [Next]_vars
  PROVE  \/ UNCHANGED uiQ /\ ~SendOrDelete
         \/ /\ CloseRecorder
            /\ 1 \in 1..Len(encodeQ) /\ IsClose(1) /\ encodeQ[1].r \in Rec
            /\ Len(uiQ) \in Nat /\ Len(uiQ') = Len(uiQ) + 1
            /\ \A i \in 1..Len(uiQ) : uiQ'[i] = uiQ[i]
            /\ uiQ'[Len(uiQ) + 1] = encodeQ[1].r
         \/ /\ SendOrDelete
            /\ 1 \in 1..Len(uiQ)
            /\ Len(uiQ) \in Nat /\ Len(uiQ') = Len(uiQ) - 1
            /\ \A i \in 1..(Len(uiQ) - 1) : uiQ'[i] = uiQ[i + 1]
<1>1. encodeQ \in Seq(EncodeTask) /\ uiQ \in Seq(Rec)
  BY DEF Types, TaskTypes
<1>2. CASE CloseRecorder
  <2>1. encodeQ # <<>> /\ encodeQ[1].is = "close" /\ uiQ' = Append(uiQ, encodeQ[1].r)
    BY <1>2 DEF CloseRecorder
  <2>2. encodeQ[1] \in EncodeTask /\ 1 \in 1..Len(encodeQ)
    BY <1>1, <2>1, Taken
  <2>3. encodeQ[1].r \in Rec
    BY <2>2 DEF EncodeTask
  <2> QED
    BY <1>1, <1>2, <2>1, <2>2, <2>3, Posted DEF IsClose
<1>3. CASE SendOrDelete
  <2>1. uiQ # <<>> /\ uiQ' = Tail(uiQ)
    BY <1>3 DEF SendOrDelete
  <2> QED
    BY <1>1, <1>3, <2>1, Taken
<1>4. CASE ~CloseRecorder /\ ~SendOrDelete
  BY <1>4 DEF FillBuffer, WriteFrame, WriteFails, Next, RecordQueue,
     EncodingQueue, AskStart, AskStop, StartRefused, Start, StartFails, MicFails,
     StartRaces, ReadMic, ReadNothing, ReadFails, ReadNoMic, StopNoMic, StopToSend,
     StopToCancel, TakeBuffer, WriteCrashes, vars, queues
<1> QED
  BY <1>2, <1>3, <1>4

LEMMA CloseIsNotSend ==
  ASSUME Types
  PROVE  ~(CloseRecorder /\ SendOrDelete)
<1>1. uiQ \in Seq(Rec) /\ encodeQ \in Seq(EncodeTask)
  BY DEF Types, TaskTypes
<1>2. SendOrDelete => Len(encodeQ') = Len(encodeQ)
  BY DEF SendOrDelete
<1>3. CloseRecorder => Len(encodeQ') = Len(encodeQ) - 1 /\ Len(encodeQ) \in Nat
  BY <1>1, Taken DEF CloseRecorder
<1> QED
  BY <1>2, <1>3

LEMMA WaitToSendStep ==
  ASSUME Kept, [Next]_vars
  PROVE  WaitToSend'
<1>1. Types /\ WaitToSend /\ WaitOnce /\ MicIsOn
  BY DEF Kept, ClosedOnce
<1>2. /\ \A i \in 1..Len(encodeQ) : encodeQ[i].r \in Rec
      /\ \A i \in 1..Len(uiQ) : uiQ[i] \in Rec
  BY <1>1 DEF Types, TaskTypes, EncodeTask
<1>3. ASSUME NEW r \in Rec, Sends, r = current PROVE ToSend(r)'
  <2>1. outcome'[r] = "recording" /\ mic' = "none"
    BY <1>1, <1>3 DEF Sends, MicIsOn
  <2>2. CASE ReadNothing
    <3>1. r \in asked
      BY <1>1, <1>3, <2>2 DEF ReadNothing, MicIsOn
    <3>2. asked' = asked
      BY <2>2 DEF ReadNothing, ghosts
    <3> QED
      BY <2>1, <3>1, <3>2 DEF ToSend
  <2>3. CASE ReadFails
    <3>1. flaws' = FlawsWith({current}, "mic") /\ "mic" \in Flaws
      BY <2>3 DEF ReadFails, Flaws
    <3>2. "mic" \in flaws'[r]
      BY <1>1, <1>3, <2>1, <3>1 DEF Types, GhostTypes, FlawsWith
    <3> QED
      BY <2>1, <3>2 DEF ToSend
  <2> QED
    BY <1>3, <2>2, <2>3 DEF Sends
<1>4. ASSUME NEW r \in Rec, NEW i \in 1..Len(encodeQ), IsClose(i), r = encodeQ[i].r
      PROVE  ToSend(r)'
  <2>1. SendOrDelete => r # uiQ[1]
    BY <1>1, <1>4, ToldMove, CloseIsNotSend DEF WaitOnce
  <2>2. ToSend(r)
    BY <1>1, <1>4 DEF WaitToSend
  <2> QED
    BY <2>1, <2>2, ToSendStays
<1>5. ASSUME NEW r \in Rec, NEW i \in 1..Len(uiQ), r = uiQ[i], SendOrDelete => i # 1
      PROVE  ToSend(r)'
  <2>1. SendOrDelete => r # uiQ[1]
    BY <1>1, <1>5, ToldMove DEF WaitOnce
  <2>2. ToSend(r)
    BY <1>1, <1>5 DEF WaitToSend
  <2> QED
    BY <2>1, <2>2, ToSendStays
<1>6. ASSUME NEW i \in 1..Len(encodeQ'), encodeQ'[i].is = "close"
      PROVE  \E r \in Rec : r = encodeQ'[i].r /\ ToSend(r)'
  <2>1. CASE ShiftBy(0)
    <3>1. CASE i + 0 \in 1..Len(encodeQ) /\ encodeQ'[i] = encodeQ[i + 0]
      BY <1>2, <1>4, <1>6, <3>1 DEF IsClose
    <3>2. CASE Sends /\ encodeQ'[i].r = current
      BY <1>3, <3>2 DEF Sends
    <3> QED
      BY <1>6, <2>1, <3>1, <3>2 DEF ShiftBy
  <2>2. CASE ShiftBy(1)
    <3>1. i + 1 \in 1..Len(encodeQ) /\ encodeQ'[i] = encodeQ[i + 1]
      BY <1>6, <2>2 DEF ShiftBy
    <3> QED
      BY <1>2, <1>4, <1>6, <3>1 DEF IsClose
  <2> QED
    BY <1>1, <2>1, <2>2, ClosesMove
<1>7. ASSUME NEW i \in 1..Len(uiQ')
      PROVE  \E r \in Rec : r = uiQ'[i] /\ ToSend(r)'
  <2>1. CASE UNCHANGED uiQ /\ ~SendOrDelete
    BY <1>2, <1>5, <2>1
  <2>2. CASE /\ CloseRecorder
             /\ 1 \in 1..Len(encodeQ) /\ IsClose(1) /\ encodeQ[1].r \in Rec
             /\ Len(uiQ) \in Nat /\ Len(uiQ') = Len(uiQ) + 1
             /\ \A j \in 1..Len(uiQ) : uiQ'[j] = uiQ[j]
             /\ uiQ'[Len(uiQ) + 1] = encodeQ[1].r
    <3>1. CASE i \in 1..Len(uiQ)
      <4>1. ~SendOrDelete
        BY <1>1, <2>2, CloseIsNotSend
      <4> QED
        BY <1>2, <1>5, <2>2, <3>1, <4>1
    <3>2. CASE i = Len(uiQ) + 1
      BY <1>4, <2>2, <3>2
    <3> QED
      BY <2>2, <3>1, <3>2
  <2>3. CASE /\ SendOrDelete
             /\ 1 \in 1..Len(uiQ)
             /\ Len(uiQ) \in Nat /\ Len(uiQ') = Len(uiQ) - 1
             /\ \A j \in 1..(Len(uiQ) - 1) : uiQ'[j] = uiQ[j + 1]
    <3>1. i + 1 \in 1..Len(uiQ) /\ i + 1 # 1 /\ uiQ'[i] = uiQ[i + 1]
      BY <2>3
    <3> QED
      BY <1>2, <1>5, <3>1
  <2> QED
    BY <1>1, <2>1, <2>2, <2>3, ToldMove
<1> QED
  BY <1>6, <1>7 DEF WaitToSend, IsClose, ToSend

LEMMA WaitOnceStep ==
  ASSUME Kept, [Next]_vars
  PROVE  WaitOnce'
<1>1. Types /\ WaitToSend /\ WaitOnce
  BY DEF Kept, ClosedOnce
<1>2. Sends => /\ \A i \in 1..Len(encodeQ) : IsClose(i) => encodeQ[i].r # current
               /\ \A i \in 1..Len(uiQ) : uiQ[i] # current
  BY <1>1 DEF Sends, WaitToSend, ToSend
<1>3. PICK d \in {0, 1} : ShiftBy(d) /\ (UNCHANGED uiQ \/ (d = 0 /\ SendOrDelete)
                                                         \/ (d = 1 /\ CloseRecorder))
  BY <1>1, ClosesMove
<1>4. ASSUME NEW i \in 1..Len(encodeQ'), encodeQ'[i].is = "close"
      PROVE  \/ /\ i + d \in 1..Len(encodeQ) /\ IsClose(i + d)
                /\ encodeQ'[i].r = encodeQ[i + d].r
             \/ Sends /\ i = Len(encodeQ) + 1 /\ encodeQ'[i].r = current
  BY <1>3, <1>4 DEF ShiftBy, IsClose
<1>5. ASSUME NEW i \in 1..Len(encodeQ'), NEW j \in 1..Len(encodeQ'),
             encodeQ'[i].is = "close", encodeQ'[j].is = "close",
             encodeQ'[i].r = encodeQ'[j].r
      PROVE  i = j
  <2>1. i + d = j + d => i = j
    BY <1>3
  <2> QED
    BY <1>1, <1>2, <1>4, <1>5, <2>1 DEF WaitOnce
<1>6. ASSUME NEW j \in 1..Len(uiQ')
      PROVE  \/ \E k \in 1..Len(uiQ) : uiQ'[j] = uiQ[k]
             \/ d = 1 /\ 1 \in 1..Len(encodeQ) /\ IsClose(1) /\ uiQ'[j] = encodeQ[1].r
  <2>1. CASE UNCHANGED uiQ
    BY <1>6, <2>1
  <2>2. CASE ~UNCHANGED uiQ /\ d = 1 /\ CloseRecorder
    <3>1. ~SendOrDelete
      BY <2>2, CloseIsNotSend, <1>1
    <3> QED
      BY <1>1, <1>6, <2>2, <3>1, ToldMove
  <2>3. CASE ~UNCHANGED uiQ /\ d = 0 /\ SendOrDelete
    <3>1. ~CloseRecorder
      BY <2>3, CloseIsNotSend, <1>1
    <3> QED
      BY <1>1, <1>6, <2>3, <3>1, ToldMove
  <2> QED
    BY <1>3, <2>1, <2>2, <2>3
<1>7. ASSUME NEW i \in 1..Len(encodeQ'), NEW j \in 1..Len(uiQ'), encodeQ'[i].is = "close"
      PROVE  encodeQ'[i].r # uiQ'[j]
  <2>1. CASE \E k \in 1..Len(uiQ) : uiQ'[j] = uiQ[k]
    BY <1>1, <1>2, <1>4, <1>7, <2>1 DEF WaitOnce
  <2>2. CASE d = 1 /\ 1 \in 1..Len(encodeQ) /\ IsClose(1) /\ uiQ'[j] = encodeQ[1].r
    <3>1. i + 1 \in 1..Len(encodeQ) /\ encodeQ'[i] = encodeQ[i + 1] /\ i + 1 # 1
      BY <1>3, <1>7, <2>2 DEF ShiftBy
    <3> QED
      BY <1>1, <1>7, <2>2, <3>1 DEF WaitOnce, IsClose
  <2> QED
    BY <1>6, <2>1, <2>2
<1>8. ASSUME NEW i \in 1..Len(uiQ'), NEW j \in 1..Len(uiQ'), uiQ'[i] = uiQ'[j]
      PROVE  i = j
  <2>1. CASE UNCHANGED uiQ
    BY <1>1, <1>8, <2>1 DEF WaitOnce
  <2>2. CASE /\ IsClose(1) /\ 1 \in 1..Len(encodeQ)
             /\ Len(uiQ) \in Nat /\ Len(uiQ') = Len(uiQ) + 1
             /\ \A k \in 1..Len(uiQ) : uiQ'[k] = uiQ[k]
             /\ uiQ'[Len(uiQ) + 1] = encodeQ[1].r
    <3>1. \A k \in 1..Len(uiQ) : uiQ[k] # encodeQ[1].r
      BY <1>1, <2>2 DEF WaitOnce
    <3> QED
      BY <1>1, <1>8, <2>2, <3>1 DEF WaitOnce
  <2>3. CASE /\ Len(uiQ) \in Nat /\ Len(uiQ') = Len(uiQ) - 1
             /\ \A k \in 1..(Len(uiQ) - 1) : uiQ'[k] = uiQ[k + 1]
    <3>1. uiQ[i + 1] = uiQ[j + 1] /\ i + 1 \in 1..Len(uiQ) /\ j + 1 \in 1..Len(uiQ)
      BY <1>8, <2>3
    <3>2. i + 1 = j + 1
      BY <1>1, <3>1 DEF WaitOnce
    <3> QED
      BY <3>2
  <2> QED
    BY <1>1, <2>1, <2>2, <2>3, ToldMove
<1> QED
  BY <1>5, <1>7, <1>8 DEF WaitOnce, IsClose

LEMMA KeptStep ==
  ASSUME Kept, [Next]_vars
  PROVE  Kept'
BY TypesStep, BegunOnceStep, MicIsOnStep, WaitToSendStep, WaitOnceStep DEF Kept, ClosedOnce

-----------------------------------------------------------------------------
(* A recording no other one overlaps with has the recorder to itself.      *)

\* Who takes the recorder over disturbs the recordings not dealt with, and
\* is disturbed by what is left to encode.
LEMMA TakesOver ==
  ASSUME Types, NEW q \in Rec, TakeOver(q), NEW r \in Rec, Alone(r)'
  PROVE  /\ outcome[r] # "recording"
         /\ r = q => encodeQ = <<>> /\ busy = <<>>
<1>1. /\ flaws \in [Rec -> SUBSET Flaws] /\ "overlap" \in Flaws
      /\ encodeQ \in Seq(EncodeTask)
  BY DEF Types, GhostTypes, TaskTypes, Flaws
<1> DEFINE rs == Pending \cup (IF Behind # {} THEN {q} ELSE {})
<1>2. flaws' = FlawsWith(rs, "overlap")
  BY DEF TakeOver
<1>3. r \notin rs
  <2> HIDE DEF rs
  <2> QED
    BY <1>1, <1>2 DEF FlawsWith, Alone
<1>4. outcome[r] # "recording"
  BY <1>3 DEF Pending
<1>5. r = q => Behind = {}
  BY <1>3
<1>6. Behind = {} => encodeQ = <<>> /\ busy = <<>>
  <2>1. encodeQ # <<>> => encodeQ[1].r \in {encodeQ[i].r : i \in 1..Len(encodeQ)}
    <3>1. encodeQ # <<>> => 1 \in 1..Len(encodeQ)
      BY <1>1
    <3> QED
      BY <3>1
  <2>2. busy # <<>> => busy[1].r \in Behind
    BY DEF Behind
  <2> QED
    BY <2>1, <2>2 DEF Behind
<1> QED
  BY <1>4, <1>5, <1>6

LEMMA AloneBefore ==
  ASSUME Types, [Next]_vars, NEW r \in Rec, Alone(r)'
  PROVE  Alone(r)
BY GhostsGrow DEF Alone

LEMMA OwnedStep ==
  ASSUME Kept, Owned, [Next]_vars
  PROVE  Owned'
<1> SUFFICES ASSUME NEW r \in Rec, Alone(r)' PROVE OwnedBy(r)'
  BY DEF Owned, OwnedBy
<1> DEFINE G == OwnedBy(r)'
<1>1. Types /\ r \in Nat /\ r # NoRec /\ NoRec = 0
  BY Constants DEF Kept
<1>2. Alone(r)
  BY <1>1, AloneBefore
<1>3. /\ native.file = r => HasRecorder(r)
      /\ outcome[r] = "recording" =>
           /\ dialog = r
           /\ IF Closing(r) THEN LeftRecorder(r) ELSE native.file = r
  BY <1>2 DEF Owned, OwnedBy
<1>4. /\ encodeQ \in Seq(EncodeTask) /\ uiQ \in Seq(Rec)
      /\ outcome \in [Rec -> Outcomes] /\ native \in NativeType
      /\ busy # <<>> => busy = <<busy[1]>> /\ busy[1] \in InWork
  BY <1>1 DEF Types, TaskTypes, GhostTypes, NativeTypes, NativeType
<1>5. mic # "none" => current \in Rec /\ outcome[current] = "recording"
  BY DEF Kept, Types, GhostTypes, ClosedOnce, MicIsOn
\* A microphone that is on, and a recording that is the recorder's.
<1>6. mic # "none" /\ outcome[r] = "recording" => native.file = r /\ ~Closing(r) /\ current = r
  BY <1>3 DEF LeftRecorder, HasRecorder
<1>7. ASSUME UNCHANGED <<native, encodeQ, busy, current, dialog, uiQ>>,
             outcome'[r] = outcome[r], mic' = "none" <=> mic = "none"
      PROVE  G
  BY <1>3, <1>7 DEF OwnedBy, HasRecorder, LeftRecorder, Closing, Begun, IsClose
<1>8. CASE UNCHANGED <<native, encodeQ, busy, current, dialog, uiQ, outcome>>
           /\ (mic' = "none" <=> mic = "none")
  BY <1>7, <1>8
<1>9. CASE Start
  <2> DEFINE q == recordQ[1].r
  <2>1. /\ q \in Rec /\ outcome[q] = "none" /\ TakeOver(q)
        /\ native' = Opened(q) /\ dialog' = q /\ current' = q
        /\ outcome' = [outcome EXCEPT ![q] = "recording"]
        /\ UNCHANGED <<encodeQ, busy, uiQ>>
    BY <1>9, StartBegins DEF Start
  <2> HIDE DEF q
  <2>2. /\ outcome[r] # "recording"
        /\ r = q => encodeQ = <<>> /\ busy = <<>>
    BY <1>1, <2>1, TakesOver
  <2>3. native'.file = q /\ native'.encoder = TRUE
    BY <2>1, NativeStates
  <2>4. CASE r # q
    BY <1>4, <2>1, <2>2, <2>3, <2>4 DEF OwnedBy
  <2>5. CASE r = q
    <3>1. ~Closing(r)
      BY <2>1, <2>5 DEF Closing, Kept, ClosedOnce, WaitToSend, ToSend
    <3>2. outcome'[r] = "recording" /\ encodeQ' = <<>> /\ busy' = <<>> /\ uiQ' = uiQ
      BY <1>4, <2>1, <2>2, <2>5
    <3>3. HasRecorder(r)'
      BY <2>1, <2>3, <2>5, <3>2 DEF HasRecorder, Begun, IsClose
    <3> QED
      BY <2>1, <2>3, <2>5, <3>1, <3>2, <3>3 DEF OwnedBy, Closing
  <2> QED
    BY <2>4, <2>5
<1>10. ASSUME NEW b \in BOOLEAN, StartFails(b) PROVE G
  <2> DEFINE q == recordQ[1].r
  <2>1. /\ q \in Rec /\ outcome[q] = "none" /\ TakeOver(q)
        /\ native' = IF b THEN Opened(q) ELSE Closed
        /\ outcome' = [outcome EXCEPT ![q] = "refused"]
        /\ mic' = "none" /\ UNCHANGED <<encodeQ, busy, uiQ>>
    BY <1>10, StartBegins DEF StartFails
  <2> HIDE DEF q
  <2>2. /\ outcome[r] # "recording"
        /\ r = q => encodeQ = <<>> /\ busy = <<>>
    BY <1>1, <2>1, TakesOver
  <2>3. \/ native'.file = q /\ native'.encoder = TRUE
        \/ native'.file = NoRec
    BY <2>1, NativeStates
  <2>4. outcome'[r] # "recording"
    BY <1>4, <2>1, <2>2
  <2>5. native'.file = r => HasRecorder(r)'
    <3> SUFFICES ASSUME native'.file = r PROVE HasRecorder(r)'
      OBVIOUS
    <3>1. r = q /\ native'.encoder = TRUE
      BY <1>1, <2>3
    <3>2. outcome'[r] = "refused" /\ encodeQ' = <<>> /\ busy' = <<>>
      BY <1>4, <2>1, <2>2, <3>1
    <3> QED
      BY <2>1, <3>1, <3>2 DEF HasRecorder, IsClose
  <2> QED
    BY <2>4, <2>5 DEF OwnedBy
<1>11. CASE MicFails
  <2> DEFINE q == recordQ[1].r
  <2>1. /\ q \in Rec /\ TakeOver(q) /\ native' = Closed
        /\ outcome' = [outcome EXCEPT ![q] = "refused"]
    BY <1>11, StartBegins DEF MicFails
  <2> HIDE DEF q
  <2>2. outcome[r] # "recording"
    BY <1>1, <2>1, TakesOver
  <2>3. native'.file # r
    BY <1>1, <2>1, NativeStates
  <2> QED
    BY <1>4, <2>1, <2>2, <2>3 DEF OwnedBy
<1>12. ASSUME NEW n \in 1..ReadSize, ReadMic(n) PROVE G
  <2>1. /\ Len(encodeQ) \in Nat /\ Len(encodeQ') = Len(encodeQ) + 1
        /\ \A i \in 1..Len(encodeQ) : encodeQ'[i] = encodeQ[i]
        /\ encodeQ'[Len(encodeQ) + 1].r = current
        /\ encodeQ'[Len(encodeQ) + 1].is = "data"
    BY <1>1, <1>12, ReadIsQueued
  <2>2. /\ mic # "none" /\ UNCHANGED <<native, busy, mic, current, dialog, uiQ, outcome>>
    BY <1>12 DEF ReadMic, javaVars, nativeVars
  <2>3. native.file = r => HasRecorder(r)'
    <3> SUFFICES ASSUME native.file = r PROVE HasRecorder(r)'
      OBVIOUS
    <3>1. HasRecorder(r) /\ current = r /\ outcome[r] = "recording"
      BY <1>3, <1>5, <2>2 DEF HasRecorder
    <3>2. \A i \in 1..Len(encodeQ') : encodeQ'[i].r = r /\ encodeQ'[i].is # "close"
      BY <2>1, <2>2, <3>1 DEF HasRecorder, IsClose
    <3> QED
      BY <2>2, <3>1, <3>2 DEF HasRecorder, Begun, IsClose
  <2> QED
    BY <1>3, <1>6, <2>2, <2>3 DEF OwnedBy, Closing
<1>13. CASE Sends
  <2> DEFINE t == [is |-> "close", r |-> current]
  <2>1. /\ t \in EncodeTask /\ t.r = current /\ encodeQ' = Append(encodeQ, t)
        /\ mic # "none" /\ mic' = "none"
    BY <1>13 DEF Sends, EncodeTask
  <2>2. UNCHANGED <<native, busy, dialog, uiQ, outcome>>
    BY <1>13 DEF Sends, ReadNothing, ReadFails, nativeVars
  <2> HIDE DEF t
  <2>3. /\ Len(encodeQ) \in Nat /\ Len(encodeQ') = Len(encodeQ) + 1
        /\ \A i \in 1..Len(encodeQ) : encodeQ'[i] = encodeQ[i]
        /\ encodeQ'[Len(encodeQ) + 1] = t
    BY <1>4, <2>1, Posted
  <2>4. native.file = r => HasRecorder(r)'
    <3> SUFFICES ASSUME native.file = r PROVE HasRecorder(r)'
      OBVIOUS
    <3>1. HasRecorder(r) /\ current = r /\ outcome[r] = "recording"
      BY <1>3, <1>5, <2>1 DEF HasRecorder
    <3>2. \A i \in 1..Len(encodeQ') : encodeQ'[i].r = r
                                     /\ (encodeQ'[i].is = "close" => i = Len(encodeQ'))
      BY <2>1, <2>3, <3>1 DEF HasRecorder, IsClose
    <3> QED
      BY <2>1, <2>2, <3>1, <3>2 DEF HasRecorder, Begun, IsClose
  <2> QED
    BY <1>3, <1>6, <2>1, <2>2, <2>4 DEF OwnedBy, Closing
<1>14. ASSUME mic # "none", mic' = "none", outcome' = [outcome EXCEPT ![current] = "cancelled"],
              UNCHANGED <<native, encodeQ, busy, uiQ>>
       PROVE  G
  <2>1. outcome'[r] # "recording"
    BY <1>4, <1>5, <1>6, <1>14
  <2>2. native.file = r => HasRecorder(r)'
    <3> SUFFICES ASSUME native.file = r PROVE HasRecorder(r)'
      OBVIOUS
    <3>1. HasRecorder(r) /\ current = r
      BY <1>3, <1>14 DEF HasRecorder
    <3>2. outcome'[r] = "cancelled"
      BY <1>4, <1>14, <3>1
    <3> QED
      BY <1>14, <3>1, <3>2 DEF HasRecorder, Begun, IsClose
  <2> QED
    BY <1>14, <2>1, <2>2 DEF OwnedBy
<1>15. CASE TakeBuffer
  <2>1. /\ Len(encodeQ) \in Nat /\ Len(encodeQ) > 0
        /\ Len(encodeQ') = Len(encodeQ) - 1
        /\ \A i \in 1..(Len(encodeQ) - 1) : encodeQ'[i] = encodeQ[i + 1]
        /\ busy'[1].r = encodeQ[1].r /\ encodeQ # <<>>
    BY <1>4, <1>15, Taken DEF TakeBuffer
  <2>2. UNCHANGED <<native, mic, current, dialog, uiQ, outcome>>
    BY <1>15 DEF TakeBuffer, nativeVars, javaVars
  <2>3. native.file = r => HasRecorder(r)'
    <3> SUFFICES ASSUME native.file = r PROVE HasRecorder(r)'
      OBVIOUS
    <3>1. HasRecorder(r) /\ Begun(r)
      BY <1>3, <2>1 DEF HasRecorder
    <3>2. \A i \in 1..Len(encodeQ') : encodeQ'[i].r = r /\
            (encodeQ'[i].is = "close" => i = Len(encodeQ') /\ mic = "none")
      BY <2>1, <3>1 DEF HasRecorder, IsClose
    <3>3. busy'[1].r = r
      BY <2>1, <3>1 DEF HasRecorder
    <3> QED
      BY <2>2, <3>1, <3>2, <3>3 DEF HasRecorder, Begun, IsClose
  <2> QED
    BY <1>3, <2>1, <2>2, <2>3 DEF OwnedBy, Closing, LeftRecorder
<1>16. CASE Encodes
  <2>1. busy # <<>> /\ encodeQ' = encodeQ /\ outcome' = outcome
        /\ (busy' # <<>> => busy'[1].r = busy[1].r)
    BY <1>4, <1>16 DEF Encodes, InWork
  <2>2. UNCHANGED <<mic, current, dialog, uiQ>>
    BY <1>16 DEF Encodes, FillBuffer, WriteFrame, WriteFails, javaVars
  <2>3. native'.file = native.file /\ native'.encoder = native.encoder
    BY <1>4, <1>16 DEF Encodes, FillBuffer, WriteFrame, WriteFails, Encoded, NativeType, nativeVars
  <2> QED
    BY <1>3, <2>1, <2>2, <2>3 DEF OwnedBy, HasRecorder, LeftRecorder, Closing, Begun, IsClose
<1>17. CASE CloseRecorder
  <2>1. /\ Len(encodeQ) \in Nat /\ Len(encodeQ) > 0
        /\ Tail(encodeQ) \in Seq(EncodeTask)
        /\ Len(Tail(encodeQ)) = Len(encodeQ) - 1
        /\ encodeQ' = Tail(encodeQ)
        /\ busy = <<>> /\ encodeQ # <<>>
        /\ 1 \in 1..Len(encodeQ) /\ IsClose(1)
    BY <1>4, <1>17, Taken DEF CloseRecorder, IsClose
  <2>2. UNCHANGED <<mic, dialog, busy, outcome>> /\ native' = Closed /\ native'.file # r
    BY <1>1, <1>17, NativeStates DEF CloseRecorder, javaVars
  <2>3. outcome[r] = "recording" => dialog' = r /\ Closing(r)' /\ LeftRecorder(r)'
    <3> SUFFICES ASSUME outcome[r] = "recording"
                 PROVE  dialog' = r /\ Closing(r)' /\ LeftRecorder(r)'
      OBVIOUS
    <3>1. dialog = r /\ native.file = r /\ HasRecorder(r)
      BY <1>3, <2>1 DEF LeftRecorder
    <3>2. encodeQ[1].r = r /\ mic = "none" /\ 1 = Len(encodeQ)
      BY <2>1, <3>1 DEF HasRecorder
    <3>3. encodeQ' = <<>>
      BY <2>1, <3>2
    <3>4. \E i \in 1..Len(uiQ') : uiQ'[i] = r
      <4>1. /\ Len(uiQ) \in Nat /\ Len(uiQ') = Len(uiQ) + 1
            /\ uiQ'[Len(uiQ) + 1] = encodeQ[1].r
        BY <1>4, <1>17, <3>2, Posted DEF CloseRecorder
      <4> QED
        BY <3>2, <4>1
    <3> QED
      BY <2>1, <2>2, <3>1, <3>2, <3>3, <3>4 DEF Closing, LeftRecorder
  <2> QED
    BY <2>2, <2>3 DEF OwnedBy
<1>18. CASE SendOrDelete
  <2>1. /\ 1 \in 1..Len(uiQ)
        /\ Len(uiQ) \in Nat /\ Len(uiQ') = Len(uiQ) - 1
        /\ \A i \in 1..(Len(uiQ) - 1) : uiQ'[i] = uiQ[i + 1]
    BY <1>1, <1>18, CloseIsNotSend, ToldMove
  <2>2. UNCHANGED <<native, encodeQ, busy, mic, current, dialog>>
    BY <1>18 DEF SendOrDelete, nativeVars, javaVars
  <2>3. CASE r = uiQ[1]
    <3>1. outcome[r] = "recording" /\ Closing(r)
      BY <2>1, <2>3 DEF Closing, Kept, ClosedOnce, WaitToSend, ToSend
    <3>2. outcome'[r] # "recording"
      BY <1>4, <1>18, <2>3 DEF SendOrDelete
    <3>3. native.file # r
      BY <1>1, <1>3, <3>1, NativeStates DEF LeftRecorder
    <3> QED
      BY <2>2, <3>2, <3>3 DEF OwnedBy
  <2>4. CASE r # uiQ[1]
    <3>1. outcome'[r] = outcome[r]
      BY <1>4, <1>18, <2>4 DEF SendOrDelete
    <3>2. Closing(r) <=> Closing(r)'
      <4>1. ASSUME NEW i \in 1..Len(uiQ), uiQ[i] = r PROVE Closing(r)'
        <5>1. i - 1 \in 1..Len(uiQ') /\ uiQ'[i - 1] = uiQ[(i - 1) + 1] /\ (i - 1) + 1 = i
          BY <2>1, <2>4, <4>1
        <5> QED
          BY <4>1, <5>1 DEF Closing
      <4>2. ASSUME NEW i \in 1..Len(uiQ'), uiQ'[i] = r PROVE Closing(r)
        <5>1. i + 1 \in 1..Len(uiQ) /\ uiQ[i + 1] = uiQ'[i]
          BY <2>1
        <5> QED
          BY <4>2, <5>1 DEF Closing
      <4> QED
        BY <4>1, <4>2 DEF Closing
    <3> QED
      BY <1>3, <2>2, <3>1, <3>2 DEF OwnedBy, HasRecorder, LeftRecorder, Begun, IsClose
  <2> QED
    BY <2>3, <2>4
<1>19. CASE ReadNothing \/ ReadFails \/ StopToCancel
  <2>1. \/ Sends
        \/ /\ mic # "none" /\ mic' = "none"
           /\ outcome' = [outcome EXCEPT ![current] = "cancelled"]
           /\ UNCHANGED <<native, encodeQ, busy, uiQ>>
    BY <1>5, <1>19, <1>1 DEF ReadNothing, ReadFails, StopToCancel, Release, Sends, counters,
       nativeVars, Types, JavaTypes
  <2> QED
    BY <1>13, <1>14, <2>1
<1>20. CASE FillBuffer \/ WriteFrame \/ \E b \in BOOLEAN : WriteFails(b)
  BY <1>16, <1>20 DEF FillBuffer, WriteFrame, WriteFails, Advance, Encodes
<1> QED
  BY <1>8, <1>9, <1>10, <1>11, <1>12, <1>15, <1>17, <1>18, <1>19, <1>20
     DEF Next, RecordQueue, EncodingQueue, AskStart, AskStop, StartRefused, StartRaces,
         ReadNoMic, StopNoMic, StopToSend, WriteCrashes, vars, queues, javaVars, nativeVars

-----------------------------------------------------------------------------
(* What is spoken is encoded in order, and counted.                        *)

Starters == Start \/ (\E b \in BOOLEAN : StartFails(b)) \/ MicFails

\* A recording nobody overlaps with has the recorder, or left it, and is the
\* one the microphone is on for.
LEMMA LiveOwns ==
  ASSUME Kept, Owned, NEW r \in Rec, Live(r)
  PROVE  /\ \/ native.file = r /\ HasRecorder(r)
            \/ outcome[r] = "recording" /\ LeftRecorder(r)
         /\ mic # "none" => current = r /\ native.file = r /\ HasRecorder(r)
         /\ native.file # r => LeftRecorder(r)
<1>1. OwnedBy(r) /\ Alone(r)
  BY DEF Owned, Live
<1> QED
  BY <1>1 DEF OwnedBy, Live, LeftRecorder, HasRecorder

\* Who is live after a start is the one that was started, on an empty queue.
LEMMA LiveAfterStart ==
  ASSUME Kept, Starters, NEW r \in Rec, Live(r)'
  PROVE  /\ Start /\ r = recordQ[1].r /\ outcome[r] = "none"
         /\ encodeQ = <<>> /\ busy = <<>>
<1> DEFINE q == recordQ[1].r
<1>1. /\ Types /\ outcome \in [Rec -> Outcomes] /\ r # NoRec
      /\ q \in Rec /\ outcome[q] = "none" /\ TakeOver(q)
  <2>1. TaskIs("start") /\ TakeOver(q)
    BY DEF Starters, Start, StartFails, MicFails
  <2>2. Types /\ outcome \in [Rec -> Outcomes] /\ r # NoRec
    BY Constants DEF Kept, Types, GhostTypes
  <2> QED
    BY <2>1, <2>2, StartBegins
<1>2. /\ outcome[r] # "recording"
      /\ r = q => encodeQ = <<>> /\ busy = <<>>
  <2>1. Alone(r)'
    BY DEF Live
  <2> HIDE DEF q
  <2> QED
    BY <1>1, <2>1, TakesOver
<1>3. native'.file = r \/ outcome'[r] = "recording"
  BY DEF Live
<1>4. outcome'[r] \in {"recording", "cancelled"}
  BY DEF Live, Begun
<1>5. CASE Start
  <2>1. native'.file = q /\ outcome' = [outcome EXCEPT ![q] = "recording"]
    BY <1>1, <1>5, NativeStates DEF Start
  <2> HIDE DEF q
  <2>2. r = q
    BY <1>1, <1>2, <1>3, <2>1
  <2> QED
    BY <1>1, <1>2, <1>5, <2>2 DEF q
<1>6. CASE (\E b \in BOOLEAN : StartFails(b)) \/ MicFails
  <2>1. native'.file \in {q, NoRec} /\ outcome' = [outcome EXCEPT ![q] = "refused"]
    BY <1>1, <1>6, NativeStates DEF StartFails, MicFails
  <2> HIDE DEF q
  <2> QED
    BY <1>1, <1>2, <1>3, <1>4, <2>1
<1> QED
  BY <1>5, <1>6 DEF Starters

LEMMA LiveBefore ==
  ASSUME Kept, [Next]_vars, ~Starters, NEW r \in Rec, Live(r)'
  PROVE  Live(r)
<1>1. Alone(r)
  BY AloneBefore DEF Live, Kept
<1>2. native \in NativeType /\ r # NoRec
  BY Constants DEF Kept, Types, NativeTypes, NativeType
<1>3. native'.file = r => native.file = r
  <2>1. \/ UNCHANGED native
        \/ WriteFrame \/ (\E b \in BOOLEAN : WriteFails(b)) \/ CloseRecorder
    BY DEF Starters, Next, RecordQueue, EncodingQueue, AskStart, AskStop, StartRefused,
           StartRaces, ReadMic, ReadNothing, ReadFails, ReadNoMic, StopNoMic, StopToSend,
           StopToCancel, TakeBuffer, FillBuffer, WriteCrashes, SendOrDelete, vars, nativeVars
  <2>2. WriteFrame \/ (\E b \in BOOLEAN : WriteFails(b)) => native'.file = native.file
    BY <1>2 DEF WriteFrame, WriteFails, Encoded, NativeType
  <2>3. CloseRecorder => native'.file # r
    BY <1>2, NativeStates DEF CloseRecorder
  <2> QED
    BY <2>1, <2>2, <2>3
<1>4. \/ outcome[r] = outcome'[r]
      \/ outcome[r] = "recording"
  BY OutcomeMoves DEF Starters, Live, Begun
<1>5. outcome'[r] \in {"recording", "cancelled"} /\ (native'.file = r \/ outcome'[r] = "recording")
  BY DEF Live, Begun
<1> QED
  BY <1>1, <1>3, <1>4, <1>5 DEF Live, Begun

\* A buffer that is queued or worked through.
LEMMA Buffers ==
  ASSUME Types
  PROVE  /\ encodeQ \in Seq(EncodeTask)
         /\ \A i \in 1..Len(encodeQ) :
              /\ encodeQ[i].is \in {"data", "close"}
              /\ encodeQ[i].is = "data" =>
                   Len(encodeQ[i].data) \in Nat /\ Before(encodeQ[i].data) \in Nat
         /\ busy # <<>> =>
              /\ busy = <<busy[1]>> /\ busy[1] \in InWork
              /\ Len(busy[1].data) \in Nat /\ Before(busy[1].data) \in Nat
              /\ busy[1].at \in Nat
         /\ \A r \in Rec : Len(spoken[r]) \in Nat
<1>1. encodeQ \in Seq(EncodeTask)
  BY DEF Types, TaskTypes
<1>2. ASSUME NEW i \in 1..Len(encodeQ)
      PROVE  /\ encodeQ[i].is \in {"data", "close"}
             /\ encodeQ[i].is = "data" =>
                  Len(encodeQ[i].data) \in Nat /\ Before(encodeQ[i].data) \in Nat
  <2>1. encodeQ[i] \in EncodeTask
    BY <1>1
  <2>2. encodeQ[i].is \in {"data", "close"}
    BY <2>1 DEF EncodeTask
  <2>3. encodeQ[i].is = "data" => IsRead(encodeQ[i], Len(spoken[encodeQ[i].r]))
    BY DEF Types, SampleTypes
  <2> QED
    BY <2>2, <2>3, Constants DEF IsRead
<1>3. busy # <<>> =>
        /\ busy = <<busy[1]>> /\ busy[1] \in InWork
        /\ Len(busy[1].data) \in Nat /\ Before(busy[1].data) \in Nat
        /\ busy[1].at \in Nat
  BY Constants DEF Types, TaskTypes, SampleTypes, IsRead, InWork
<1>4. \A r \in Rec : Len(spoken[r]) \in Nat
  BY DEF Types, GhostTypes
<1> QED
  BY <1>1, <1>2, <1>3, <1>4

LEMMA FollowStep ==
  ASSUME Kept, Owned, InSequence, [Next]_vars, ~Starters,
         NEW r \in Rec, Live(r)'
  PROVE  /\ Follow(r)'
         /\ Consumed(r)' = IF Encodes THEN Consumed(r) + Moved ELSE Consumed(r)
         /\ Consumed(r) \in Nat
         /\ Encodes => busy[1].r = r /\ native.file = r
<1> DEFINE G == /\ Follow(r)'
                /\ Consumed(r)' = IF Encodes THEN Consumed(r) + Moved ELSE Consumed(r)
<1>1. Types /\ Live(r) /\ Follow(r)
  BY LiveBefore DEF Kept, InSequence
<1>2. /\ encodeQ \in Seq(EncodeTask) /\ Len(encodeQ) \in Nat
      /\ \A i \in 1..Len(encodeQ) :
           /\ encodeQ[i].is \in {"data", "close"}
           /\ encodeQ[i].is = "data" =>
                Len(encodeQ[i].data) \in Nat /\ Before(encodeQ[i].data) \in Nat
      /\ busy # <<>> =>
           /\ busy = <<busy[1]>> /\ busy[1] \in InWork
           /\ Len(busy[1].data) \in Nat /\ Before(busy[1].data) \in Nat
           /\ busy[1].at \in Nat
      /\ Len(spoken[r]) \in Nat
  BY <1>1, Buffers
<1>3. Encodes => busy[1].r = r /\ native.file = r
  BY <1>1, LiveOwns DEF HasRecorder, LeftRecorder, Encodes
<1>4. Consumed(r) \in Nat
  BY <1>2 DEF Consumed, From
<1>5. ~((\E n \in 1..ReadSize : ReadMic(n)) \/ TakeBuffer \/ CloseRecorder \/ Sends)
        => UNCHANGED spoken
  BY DEF Starters, Next, RecordQueue, EncodingQueue, AskStart, AskStop, StartRefused,
         StartRaces, ReadNothing, ReadFails, ReadNoMic, StopNoMic, StopToSend,
         StopToCancel, FillBuffer, WriteFrame, WriteFails, WriteCrashes,
         SendOrDelete, vars, ghosts
<1> SUFFICES G
  BY <1>3, <1>4
<1>6. CASE ~Encodes /\ UNCHANGED <<encodeQ, busy, spoken>>
  <2>1. \A i \in Nat : From(r, i)' = From(r, i)
    BY <1>6 DEF From
  <2>2. Consumed(r)' = Consumed(r)
    BY <1>6, <2>1 DEF Consumed
  <2>3. busy # <<>> => Before(busy[1].data) + Len(busy[1].data) = From(r, 1)'
    BY <1>1, <2>1 DEF Follow
  <2>4. \A i \in 1..Len(encodeQ) : encodeQ[i].is = "data" =>
          Before(encodeQ[i].data) + Len(encodeQ[i].data) = From(r, i + 1)'
    BY <1>1, <1>2, <2>1 DEF Follow
  <2>5. Follow(r)'
    BY <1>6, <2>3, <2>4 DEF Follow
  <2> QED
    BY <1>6, <2>2, <2>5
<1>7. CASE Encodes
  <2>1. UNCHANGED spoken
    BY <1>7 DEF Encodes, FillBuffer, WriteFrame, WriteFails, ghosts
  <2>2. From(r, 1) = Before(busy[1].data) + Len(busy[1].data) /\ encodeQ' = encodeQ
    BY <1>1, <1>7 DEF Follow, Encodes
  <2>3. \A i \in 1..(Len(encodeQ) + 1) : From(r, i)' = From(r, i)
    BY <2>1, <2>2 DEF From
  <2>4. \/ busy' = <<>> /\ busy[1].at + Moved = Len(busy[1].data)
        \/ /\ busy' # <<>> /\ busy'[1].data = busy[1].data
           /\ busy'[1].at = busy[1].at + Moved
    BY <1>2, <1>7 DEF Encodes, FillBuffer, WriteFrame, WriteFails, Advance, InWork
  <2>5. Moved \in Nat
    BY <1>1, <1>7, MovedFits DEF Encodes
  <2>6. busy # <<>>
    BY <1>7 DEF Encodes
  <2>7. From(r, 1)' = From(r, 1)
    BY <1>2, <2>3
  <2>8. Consumed(r)' = Consumed(r) + Moved
    BY <1>2, <2>2, <2>4, <2>5, <2>6, <2>7 DEF Consumed
  <2>9. Follow(r)'
    <3>1. busy' # <<>> => Before(busy'[1].data) + Len(busy'[1].data) = From(r, 1)'
      BY <2>2, <2>4, <2>7
    <3>2. \A i \in 1..Len(encodeQ) : encodeQ[i].is = "data" =>
            Before(encodeQ[i].data) + Len(encodeQ[i].data) = From(r, i + 1)'
      BY <1>1, <1>2, <2>3 DEF Follow
    <3> QED
      BY <2>2, <3>1, <3>2 DEF Follow
  <2> QED
    BY <1>7, <2>8, <2>9
<1>8. CASE TakeBuffer
  <2>1. /\ Len(encodeQ) > 0 /\ busy = <<>>
        /\ Len(encodeQ') = Len(encodeQ) - 1
        /\ \A i \in 1..(Len(encodeQ) - 1) : encodeQ'[i] = encodeQ[i + 1]
        /\ encodeQ[1].is = "data" /\ busy' # <<>>
        /\ busy'[1].data = encodeQ[1].data /\ busy'[1].at = 0
        /\ spoken' = spoken
    BY <1>2, <1>8, Taken DEF TakeBuffer, ghosts
  <2>2. \A i \in 1..Len(encodeQ) : From(r, i)' = From(r, i + 1)
    BY <1>2, <2>1 DEF From
  <2>3. ~Encodes
    BY <2>1 DEF Encodes
  <2>4. Consumed(r)' = Consumed(r)
    BY <1>2, <2>1 DEF Consumed, From
  <2>5. Follow(r)'
    <3>1. Before(busy'[1].data) + Len(busy'[1].data) = From(r, 1)'
      BY <1>1, <1>2, <2>1, <2>2 DEF Follow
    <3>2. \A i \in 1..Len(encodeQ') : encodeQ'[i].is = "data" =>
            Before(encodeQ'[i].data) + Len(encodeQ'[i].data) = From(r, i + 1)'
      <4> SUFFICES ASSUME NEW i \in 1..Len(encodeQ'), encodeQ'[i].is = "data"
                   PROVE  Before(encodeQ'[i].data) + Len(encodeQ'[i].data) = From(r, i + 1)'
        OBVIOUS
      <4>1. i + 1 \in 1..Len(encodeQ) /\ encodeQ'[i] = encodeQ[i + 1]
        BY <1>2, <2>1
      <4>2. From(r, i + 1)' = From(r, (i + 1) + 1)
        BY <2>2, <4>1
      <4> QED
        BY <1>1, <4>1, <4>2 DEF Follow
    <3> QED
      BY <3>1, <3>2 DEF Follow
  <2> QED
    BY <2>3, <2>4, <2>5
<1>9. CASE CloseRecorder
  <2>1. /\ Len(encodeQ) > 0 /\ busy = <<>> /\ busy' = <<>>
        /\ Tail(encodeQ) \in Seq(EncodeTask) /\ Len(Tail(encodeQ)) = Len(encodeQ) - 1
        /\ encodeQ' = Tail(encodeQ)
        /\ encodeQ[1].is = "close" /\ native' = Closed /\ spoken' = spoken
    BY <1>2, <1>9, Taken DEF CloseRecorder, ghosts
  <2>2. HasRecorder(r)
    <3>1. ~LeftRecorder(r)
      BY <1>2, <2>1 DEF LeftRecorder
    <3> QED
      BY <1>1, <3>1, LiveOwns
  <2>3. 1 = Len(encodeQ)
    BY <1>2, <2>1, <2>2 DEF HasRecorder, IsClose
  <2>4. encodeQ' = <<>>
    BY <1>2, <2>1, <2>3
  <2>5. Consumed(r) = Len(spoken[r]) /\ Consumed(r)' = Len(spoken[r])
    <3>1. From(r, 1) = Len(spoken[r])
      BY <2>1 DEF From
    <3>2. From(r, 1)' = Len(spoken[r])
      <4>1. Len(encodeQ') = 0
        BY <2>1, <2>3
      <4> QED
        BY <2>1, <4>1 DEF From
    <3> QED
      BY <2>1, <3>1, <3>2 DEF Consumed
  <2>6. Follow(r)' /\ ~Encodes
    BY <2>1, <2>4 DEF Follow, Encodes
  <2> QED
    BY <2>5, <2>6
<1>10. CASE Sends
  <2> DEFINE t == [is |-> "close", r |-> current]
  <2>1. /\ t \in EncodeTask /\ t.is = "close" /\ encodeQ' = Append(encodeQ, t)
    BY <1>10 DEF Sends, EncodeTask
  <2>2. spoken' = spoken /\ busy' = busy
    BY <1>10 DEF Sends, ReadNothing, ReadFails, ghosts
  <2> HIDE DEF t
  <2>3. /\ Len(encodeQ') = Len(encodeQ) + 1
        /\ \A i \in 1..Len(encodeQ) : encodeQ'[i] = encodeQ[i]
        /\ encodeQ'[Len(encodeQ) + 1].is = "close"
    BY <1>2, <2>1, Posted
  <2>4. \A i \in 1..(Len(encodeQ) + 1) : From(r, i)' = From(r, i)
    BY <1>2, <2>2, <2>3 DEF From
  <2>5. Follow(r)'
    <3>1. busy # <<>> => Before(busy[1].data) + Len(busy[1].data) = From(r, 1)'
      BY <1>1, <1>2, <2>4 DEF Follow
    <3>2. \A i \in 1..Len(encodeQ) : encodeQ[i].is = "data" =>
            Before(encodeQ[i].data) + Len(encodeQ[i].data) = From(r, i + 1)'
      BY <1>1, <1>2, <2>4 DEF Follow
    <3>3. \A i \in 1..Len(encodeQ') : encodeQ'[i].is = "data" =>
            i \in 1..Len(encodeQ) /\ encodeQ'[i] = encodeQ[i]
      BY <1>2, <2>3
    <3> QED
      BY <2>2, <3>1, <3>2, <3>3 DEF Follow
  <2>6. ~Encodes
    BY <1>2, <2>3 DEF Encodes
  <2>7. Consumed(r)' = Consumed(r)
    BY <1>2, <2>2, <2>4 DEF Consumed
  <2> QED
    BY <2>5, <2>6, <2>7
<1>11. ASSUME NEW n \in 1..ReadSize, ReadMic(n) PROVE G
  <2> DEFINE t == encodeQ'[Len(encodeQ) + 1]
  <2>1. current = r
    BY <1>1, <1>11, LiveOwns DEF ReadMic
  <2>2. /\ Len(encodeQ') = Len(encodeQ) + 1
        /\ \A i \in 1..Len(encodeQ) : encodeQ'[i] = encodeQ[i]
        /\ t.is = "data" /\ Len(t.data) = n /\ Before(t.data) = Len(spoken[r])
    BY <1>1, <1>11, <2>1, ReadIsQueued
  <2>3. Len(spoken'[r]) = Len(spoken[r]) + n
    BY <1>1, <1>11, <2>1, SpokenGrows
  <2>4. busy' = busy
    BY <1>11 DEF ReadMic
  <2>5. \A i \in 1..Len(encodeQ) : encodeQ[i].is = "data"
    <3>1. HasRecorder(r) /\ mic # "none"
      BY <1>1, <1>11, LiveOwns DEF ReadMic
    <3> QED
      BY <1>2, <3>1 DEF HasRecorder, IsClose
  <2> HIDE DEF t
  <2>6. \A i \in 1..(Len(encodeQ) + 1) : From(r, i)' = From(r, i)
    BY <1>2, <2>2, <2>5 DEF From, t
  <2>7. \A i \in Nat : i = Len(encodeQ) + 2 => From(r, i)' = Len(spoken[r]) + n
    BY <1>2, <2>2, <2>3 DEF From
  <2>8. Follow(r)'
    <3>1. ASSUME NEW i \in 1..Len(encodeQ'), encodeQ'[i].is = "data"
          PROVE  Before(encodeQ'[i].data) + Len(encodeQ'[i].data) = From(r, i + 1)'
      <4>1. CASE i \in 1..Len(encodeQ)
        BY <1>1, <1>2, <2>2, <2>6, <3>1, <4>1 DEF Follow
      <4>2. CASE i = Len(encodeQ) + 1
        <5>1. i + 1 = Len(encodeQ) + 2
          BY <1>2, <4>2
        <5>2. encodeQ'[i] = t
          BY <4>2 DEF t
        <5>3. From(r, i + 1)' = Len(spoken[r]) + n
          BY <1>2, <2>7, <5>1
        <5> QED
          BY <2>2, <5>2, <5>3
      <4> QED
        BY <1>2, <2>2, <4>1, <4>2
    <3>2. busy # <<>> => Before(busy[1].data) + Len(busy[1].data) = From(r, 1)'
      BY <1>1, <1>2, <2>6 DEF Follow
    <3> QED
      BY <2>4, <3>1, <3>2 DEF Follow
  <2>9. ~Encodes
    BY <1>2, <2>2 DEF Encodes
  <2>10. Consumed(r)' = Consumed(r)
    BY <1>2, <2>4, <2>6 DEF Consumed
  <2> QED
    BY <2>8, <2>9, <2>10
<1> QED
  BY <1>1, <1>3, <1>4, <1>5, <1>6, <1>7, <1>8, <1>9, <1>10, <1>11, EncodeMoves

LEMMA InSequenceStep ==
  ASSUME Kept, Owned, InSequence, [Next]_vars
  PROVE  InSequence'
<1> SUFFICES ASSUME NEW r \in Rec, Live(r)' PROVE Follow(r)'
  BY DEF InSequence
<1>1. CASE ~Starters
  BY <1>1, FollowStep
<1>2. CASE Starters
  <2>1. encodeQ = <<>> /\ busy = <<>> /\ Start
    BY <1>2, LiveAfterStart
  <2>2. encodeQ' = <<>> /\ busy' = <<>>
    BY <2>1 DEF Start
  <2> QED
    BY <2>2 DEF Follow
<1> QED
  BY <1>1, <1>2

LEMMA CountedStep ==
  ASSUME Kept, Owned, InSequence, Counted, [Next]_vars
  PROVE  Counted'
<1> SUFFICES ASSUME NEW r \in Rec, Live(r)', "write" \notin flaws'[r]
             PROVE  pos' < Frame /\ Consumed(r)' <= timeCount' * Frame + pos'
  BY DEF Counted
<1>1. Types /\ Frame \in Nat \ {0} /\ pos \in 0..Frame /\ timeCount \in Nat
  BY Constants DEF Kept, Types, JavaTypes
<1>2. CASE Starters
  <2>1. /\ encodeQ = <<>> /\ busy = <<>> /\ Start /\ r = recordQ[1].r
        /\ outcome[r] = "none"
    BY <1>2, LiveAfterStart
  <2>2. spoken[r] = <<>>
    BY <2>1 DEF Kept, BegunOnce, NoTrace
  <2>3. encodeQ' = <<>> /\ busy' = <<>> /\ spoken' = spoken /\ pos' = 0 /\ timeCount' = 0
    BY <2>1 DEF Start
  <2>4. Consumed(r)' = 0
    BY <2>2, <2>3 DEF Consumed, From
  <2> QED
    BY <1>1, <2>3, <2>4
<1>3. CASE ~Starters
  <2>1. /\ Consumed(r)' = IF Encodes THEN Consumed(r) + Moved ELSE Consumed(r)
        /\ Consumed(r) \in Nat
        /\ Encodes => busy[1].r = r
    BY <1>3, FollowStep
  <2>2. pos < Frame /\ Consumed(r) <= timeCount * Frame + pos
    <3>1. Live(r)
      BY <1>3, LiveBefore
    <3>2. "write" \notin flaws[r]
      BY <1>1, GhostsGrow
    <3> QED
      BY <3>1, <3>2 DEF Counted
  <2>3. CASE ~Encodes
    <3>1. pos' = pos /\ timeCount' = timeCount
      BY <1>3, <2>3, MovedFits, <1>1 DEF Starters, Next, RecordQueue, EncodingQueue, AskStart, AskStop, StartRefused,
         StartRaces, ReadMic, ReadNothing, ReadFails, ReadNoMic, StopNoMic, StopToSend,
         StopToCancel, TakeBuffer, FillBuffer, WriteFrame, WriteFails, Advance, Encodes, WriteCrashes, CloseRecorder,
         SendOrDelete, vars, bufferVars, javaVars
    <3> QED
      BY <2>1, <2>2, <2>3, <3>1
  <2>4. CASE Encodes
    <3>1. Moved \in Nat /\ pos + Moved <= Frame
      BY <1>1, <2>4, MovedFits DEF Encodes
    <3>2. Consumed(r)' = Consumed(r) + Moved
      BY <2>1, <2>4
    <3>3. CASE FillBuffer
      <4>1. pos' = pos + Moved /\ timeCount' = timeCount /\ pos + Moved # Frame
        BY <3>3 DEF FillBuffer, FrameIsDue, javaVars
      <4> QED
        BY <1>1, <2>1, <2>2, <3>1, <3>2, <4>1
    <3>4. CASE WriteFrame
      <4>1. pos' = 0 /\ timeCount' = timeCount + 1
        BY <3>4 DEF WriteFrame
      <4>2. (timeCount + 1) * Frame = timeCount * Frame + Frame /\ timeCount * Frame \in Nat
        BY <1>1
      <4> QED
        BY <1>1, <2>1, <2>2, <3>1, <3>2, <4>1, <4>2
    <3>5. ASSUME NEW b \in BOOLEAN, WriteFails(b) PROVE FALSE
      <4>1. flaws' = FlawsWith({busy[1].r}, "write") /\ busy[1].r = r
        BY <2>1, <2>4, <3>5 DEF WriteFails
      <4> QED
        BY <4>1 DEF FlawsWith
    <3> QED
      BY <2>4, <3>3, <3>4, <3>5 DEF Encodes
  <2> QED
    BY <2>3, <2>4
<1> QED
  BY <1>2, <1>3

LEMMA ProductGrows ==
  ASSUME NEW m \in Nat, NEW n \in Nat, m <= n, NEW k \in Nat
  PROVE  m * k <= n * k
<1>1. PICK d \in Nat : n = m + d
  <2>1. n - m \in Nat /\ n = m + (n - m)
    OBVIOUS
  <2> QED
    BY <2>1
<1>2. n * k = m * k + d * k
  BY <1>1
<1>3. d * k \in Nat /\ m * k \in Nat /\ n * k \in Nat
  BY <1>1
<1> QED
  BY <1>2, <1>3

\* Only the recording the microphone is on for is spoken to.
LEMMA SpokenMoves ==
  ASSUME Kept, [Next]_vars, NEW r \in Rec, outcome[r] # "recording"
  PROVE  spoken'[r] = spoken[r]
<1>1. ASSUME NEW n \in 1..ReadSize, ReadMic(n) PROVE spoken'[r] = spoken[r]
  <2>1. current # r
    BY <1>1 DEF ReadMic, Kept, ClosedOnce, MicIsOn
  <2> QED
    BY <1>1, <2>1 DEF ReadMic, Kept, Types, GhostTypes
<1>2. UNCHANGED spoken \/ \E n \in 1..ReadSize : ReadMic(n)
  BY DEF Next, RecordQueue, EncodingQueue, AskStart, AskStop, StartRefused, Start,
         StartFails, MicFails, StartRaces, ReadNothing, ReadFails, ReadNoMic, StopNoMic,
         StopToSend, StopToCancel, TakeBuffer, FillBuffer, WriteFrame, WriteFails,
         WriteCrashes, CloseRecorder, SendOrDelete, vars, ghosts
<1> QED
  BY <1>1, <1>2

\* A recording the UI thread deals with, and what was done to it by then.
LEMMA DealtWith ==
  ASSUME Kept, Owned, SendOrDelete, NEW r \in Rec, r = uiQ[1]
  PROVE  /\ outcome[r] = "recording" /\ (r \in asked \/ "mic" \in flaws[r])
         /\ Alone(r) => dialog = r /\ LeftRecorder(r) /\ Live(r)
                        /\ Consumed(r) = Len(spoken[r])
<1>1. 1 \in 1..Len(uiQ)
  BY Taken DEF SendOrDelete, Kept, Types, TaskTypes
<1>2. ToSend(r) /\ Closing(r)
  BY <1>1 DEF Kept, ClosedOnce, WaitToSend, Closing
<1>3. Alone(r) => dialog = r /\ LeftRecorder(r)
  BY <1>2 DEF Owned, OwnedBy, ToSend
<1>4. LeftRecorder(r) => Consumed(r) = Len(spoken[r])
  <2>1. encodeQ = <<>> => ~(1 <= Len(encodeQ))
    OBVIOUS
  <2> QED
    BY <2>1 DEF LeftRecorder, Consumed, From
<1> QED
  BY <1>2, <1>3, <1>4 DEF ToSend, Live, Begun

LEMMA SentAsAskedStep ==
  ASSUME Kept, Owned, Counted, SentAsAsked, [Next]_vars
  PROVE  SentAsAsked'
<1> SUFFICES ASSUME NEW r \in Rec
             PROVE  /\ outcome'[r] = "sent" /\ flaws'[r] \cap {"overlap", "mic"} = {} =>
                         r \in asked' /\ sentTo'[r] = r
                    /\ outcome'[r] = "deleted" /\ flaws'[r] \cap {"overlap", "write"} = {} =>
                         Len(spoken'[r]) < (MinFrames + 1) * Frame
  BY DEF SentAsAsked
<1>1. /\ Types /\ outcome \in [Rec -> Outcomes] /\ sentTo \in [Rec -> 0..MaxStarts]
      /\ flaws[r] \subseteq flaws'[r] /\ asked \subseteq asked'
  BY GhostsGrow DEF Kept, Types, GhostTypes
<1>2. CASE SendOrDelete /\ r = uiQ[1]
  <2>1. /\ (r \in asked \/ "mic" \in flaws[r])
        /\ Alone(r) => dialog = r /\ LeftRecorder(r) /\ Live(r)
                       /\ Consumed(r) = Len(spoken[r])
    BY <1>2, DealtWith
  <2>2. /\ outcome'[r] = IF timeCount > MinFrames THEN "sent" ELSE "deleted"
        /\ timeCount > MinFrames => sentTo'[r] = dialog
        /\ UNCHANGED <<spoken, flaws, asked>>
    BY <1>1, <1>2 DEF SendOrDelete, ghosts
  <2>3. ASSUME outcome'[r] = "sent", flaws'[r] \cap {"overlap", "mic"} = {}
        PROVE  r \in asked' /\ sentTo'[r] = r
    BY <2>1, <2>2, <2>3 DEF Alone
  <2>4. ASSUME outcome'[r] = "deleted", flaws'[r] \cap {"overlap", "write"} = {}
        PROVE  Len(spoken'[r]) < (MinFrames + 1) * Frame
    <3>1. Live(r) /\ Consumed(r) = Len(spoken[r]) /\ "write" \notin flaws[r]
      BY <2>1, <2>2, <2>4 DEF Alone
    <3>2. pos < Frame /\ Len(spoken[r]) <= timeCount * Frame + pos
      BY <3>1 DEF Counted
    <3>3. /\ timeCount \in Nat /\ MinFrames \in Nat /\ Frame \in Nat /\ pos \in Nat
          /\ Len(spoken[r]) \in Nat
      BY <1>1, Constants DEF Types, JavaTypes, GhostTypes
    <3>4. timeCount <= MinFrames
      BY <2>2, <2>4, <3>3
    <3>5. timeCount * Frame <= MinFrames * Frame
      BY <3>3, <3>4, ProductGrows
    <3>6. /\ (MinFrames + 1) * Frame = MinFrames * Frame + Frame
          /\ MinFrames * Frame \in Nat /\ timeCount * Frame \in Nat
      BY <3>3
    <3>7. Len(spoken[r]) < (MinFrames + 1) * Frame
      BY <3>2, <3>3, <3>5, <3>6
    <3> QED
      BY <2>2, <3>7
  <2> QED
    BY <2>3, <2>4
<1>3. CASE ~(SendOrDelete /\ r = uiQ[1])
  <2>1. outcome'[r] \in {"sent", "deleted"} => outcome[r] = outcome'[r]
    BY <1>3, OutcomeMoves
  <2>2. sentTo'[r] = sentTo[r]
    <3>1. UNCHANGED sentTo \/ SendOrDelete
      BY DEF Next, RecordQueue, EncodingQueue, AskStart, AskStop, StartRefused, Start,
             StartFails, MicFails, StartRaces, ReadMic, ReadNothing, ReadFails, ReadNoMic,
             StopNoMic, StopToSend, StopToCancel, TakeBuffer, FillBuffer, WriteFrame,
             WriteFails, WriteCrashes, CloseRecorder, vars
    <3>2. CASE SendOrDelete
      BY <1>1, <1>3, <3>2 DEF SendOrDelete
    <3> QED
      BY <3>1, <3>2
  <2>3. outcome'[r] = "deleted" => spoken'[r] = spoken[r]
    BY <2>1, SpokenMoves
  <2> QED
    BY <1>1, <2>1, <2>2, <2>3 DEF SentAsAsked
<1> QED
  BY <1>2, <1>3

-----------------------------------------------------------------------------
(* What is encoded is what was spoken.                                     *)

\* A read shorter than the others makes the count of samples a broken one.
LEMMA ShortRead ==
  ASSUME NEW k \in Nat, NEW n \in Nat, NEW m \in Nat \ {0},
         k % m = 0, 0 < n, n < m
  PROVE  (k + n) % m # 0
<1> SUFFICES ASSUME (k + n) % m = 0 PROVE FALSE
  OBVIOUS
<1> DEFINE a == k \div m
           b == (k + n) \div m
<1>1. a \in Nat /\ k = m * a + (k % m)
  BY Division
<1>2. b \in Nat /\ k + n = m * b + ((k + n) % m)
  <2>1. k + n \in Nat
    OBVIOUS
  <2> QED
    BY <2>1, Division
<1> HIDE DEF a, b
<1>3. k = m * a /\ k + n = m * b /\ m * a \in Nat /\ m * b \in Nat
  BY <1>1, <1>2
<1>4. m * a = a * m /\ m * b = b * m /\ (a + 1) * m = a * m + m
  BY <1>1, <1>2
<1>5. CASE b <= a
  <2>1. b * m <= a * m
    BY <1>1, <1>2, <1>5, ProductGrows
  <2> QED
    BY <1>3, <1>4, <2>1
<1>6. CASE a + 1 <= b
  <2>1. (a + 1) * m <= b * m
    BY <1>1, <1>2, <1>6, ProductGrows
  <2> QED
    BY <1>3, <1>4, <2>1
<1> QED
  BY <1>1, <1>2, <1>5, <1>6

\* Less than a frame past a number of frames is no number of frames.
LEMMA WholeFrames ==
  ASSUME NEW m \in Nat, NEW p \in Nat, p < Frame, (m * Frame + p) % Frame = 0
  PROVE  p = 0
<1>1. Frame \in Nat \ {0} /\ m * Frame \in Nat
  BY Constants
<1> DEFINE b == (m * Frame + p) \div Frame
<1>2. b \in Nat /\ m * Frame + p = Frame * b + ((m * Frame + p) % Frame)
  <2>1. m * Frame + p \in Nat
    BY <1>1
  <2> QED
    BY <1>1, <2>1, Division
<1> HIDE DEF b
<1>3. m * Frame + p = b * Frame /\ b * Frame \in Nat
  BY <1>1, <1>2
<1>4. (m + 1) * Frame = m * Frame + Frame
  BY <1>1
<1>5. CASE b <= m
  <2>1. b * Frame <= m * Frame
    BY <1>1, <1>2, <1>5, ProductGrows
  <2> QED
    BY <1>1, <1>3, <2>1
<1>6. CASE m + 1 <= b
  <2>1. (m + 1) * Frame <= b * Frame
    BY <1>1, <1>2, <1>6, ProductGrows
  <2> QED
    BY <1>1, <1>3, <1>4, <2>1
<1> QED
  BY <1>2, <1>5, <1>6

Clear == Kept /\ Owned /\ InSequence /\ Counted
Faithful == ShortReadIsLast /\ InFile /\ StreamGoesOn

LEMMA CleanBefore ==
  ASSUME Types, [Next]_vars, NEW r \in Rec, Clean(r)'
  PROVE  Clean(r)
BY GhostsGrow DEF Clean

LEMMA CleanIsAlone ==
  ASSUME NEW r, Clean(r)
  PROVE  Alone(r) /\ "write" \notin flaws[r] /\ "cut" \notin flaws[r]
BY DEF Clean, Alone

\* What the loop of fileEncodingQueue finds: it works for the recording, on
\* samples that go on where the file and fileBuffer end; a short read is
\* begun with the buffer empty, and is moved as a whole.
Meets(r) ==
  /\ busy[1].r = r /\ native.file = r /\ HasRecorder(r) /\ ~os.eos
  /\ pos < Frame /\ Moved \in 1..Frame /\ pos + Moved <= Frame
  /\ Consumed(r) \in Nat
  /\ Consumed(r) = Before(busy[1].data) + busy[1].at
  /\ Consumed(r) + Moved <= Len(spoken[r])
  /\ busy[1].flush => /\ pos = 0 /\ busy[1].at = 0
                      /\ Moved = Len(busy[1].data)
                      /\ Consumed(r) + Moved = Len(spoken[r])
                      /\ Len(spoken[r]) % ReadSize # 0
  /\ \A i \in 1..Moved :
       busy[1].data[busy[1].at + i] = [r |-> r, k |-> Consumed(r) + i]

LEMMA LoopMeets ==
  ASSUME Clear, Faithful, NEW r \in Rec, Live(r), Clean(r), busy # <<>>
  PROVE  Meets(r)
<1>1. /\ Kept /\ Types /\ Owned /\ Frame \in Nat \ {0} /\ ReadSize \in Nat \ {0}
      /\ Follow(r) /\ InOrder(r) /\ Holds(r)
  BY Constants DEF Clear, Kept, Faithful, InSequence, ShortReadIsLast, InFile
<1>2. busy[1].r = r /\ native.file = r /\ HasRecorder(r)
  BY <1>1, LiveOwns DEF HasRecorder, LeftRecorder
<1>3. GoesOn(r)
  BY <1>2 DEF Faithful, StreamGoesOn
<1>4. pos < Frame /\ pos \in Nat
  BY <1>1, CleanIsAlone DEF Clear, Counted, Types, JavaTypes
<1> DEFINE b == busy[1]
<1>5. /\ Len(b.data) \in Nat /\ Before(b.data) \in Nat /\ b.at \in Nat
      /\ Len(spoken[r]) \in Nat
  BY <1>1, Buffers
<1>6. /\ IsRead(b, Len(spoken[b.r])) /\ b.at < Len(b.data)
  BY <1>1 DEF Types, SampleTypes
<1>7. /\ Moved \in Nat /\ pos + Moved <= Frame /\ Moved <= Len(b.data) - b.at
      /\ Moved > 0
      /\ pos + Moved = Frame \/ b.at + Moved = Len(b.data)
  BY <1>1, <1>4, MovedFits
<1>8. Consumed(r) = Before(b.data) + b.at
  BY DEF Consumed
<1> HIDE DEF b
<1>9. /\ Before(b.data) + Len(b.data) <= Len(spoken[r])
      /\ Numbered(b.data, r, Before(b.data))
  BY <1>2, <1>6 DEF IsRead, b
<1>10. Consumed(r) \in Nat /\ Consumed(r) + Moved <= Len(spoken[r])
       /\ Consumed(r) < Len(spoken[r])
  BY <1>5, <1>6, <1>7, <1>8, <1>9
<1>11. ~os.eos
  BY <1>3, <1>5, <1>10 DEF GoesOn
<1>12. ASSUME b.flush
       PROVE  /\ pos = 0 /\ b.at = 0 /\ Moved = Len(b.data)
              /\ Consumed(r) + Moved = Len(spoken[r])
              /\ Len(spoken[r]) % ReadSize # 0
  <2>1. /\ b.at = 0 /\ Before(b.data) % Frame = 0 /\ Len(b.data) <= Frame
        /\ Before(b.data) + Len(b.data) = Len(spoken[r])
        /\ Len(spoken[r]) % ReadSize # 0
    BY <1>1, <1>12 DEF InOrder, LastRead, b
  <2>2. PICK m \in Nat : native.total = m * Frame
    BY <1>3, <1>11 DEF GoesOn
  <2>3. m * Frame + pos = Consumed(r)
    BY <1>1, <1>3, <2>2 DEF GoesOn, Holds
  <2>4. Consumed(r) = Before(b.data)
    BY <1>5, <1>8, <2>1 DEF b
  <2>5. (m * Frame + pos) % Frame = 0
    BY <2>1, <2>3, <2>4
  <2>6. pos = 0
    BY <1>4, <2>5, WholeFrames
  <2>7. Moved = Len(b.data)
    BY <1>1, <1>5, <1>7, <2>1, <2>6
  <2> QED
    BY <2>1, <2>4, <2>6, <2>7
<1>13. ASSUME NEW i \in 1..Moved
       PROVE  b.data[b.at + i] = [r |-> r, k |-> Consumed(r) + i]
  <2>1. b.at + i \in 1..Len(b.data)
    BY <1>5, <1>7, <1>13
  <2>2. b.data[b.at + i] = [r |-> r, k |-> Before(b.data) + (b.at + i)]
    BY <1>9, <2>1 DEF Numbered
  <2>3. Before(b.data) + (b.at + i) = Consumed(r) + i
    BY <1>5, <1>7, <1>8, <1>13 DEF b
  <2> QED
    BY <2>2, <2>3
<1>14. Moved \in 1..Frame
  BY <1>1, <1>4, <1>7
<1> QED
  BY <1>2, <1>4, <1>7, <1>8, <1>10, <1>11, <1>12, <1>13, <1>14 DEF Meets, b

\* What fileBuffer holds after the loop moved samples into it.
LEMMA FilledIsSpoken ==
  ASSUME Clear, Faithful, NEW r \in Rec, Live(r), Clean(r), busy # <<>>
  PROVE  \A i \in 1..(pos + Moved) : Filled[i] = [r |-> r, k |-> Len(Audio(r)) + i]
<1>1. Meets(r) /\ Holds(r)
  BY LoopMeets DEF Faithful, InFile
<1>2. /\ pos \in Nat /\ Moved \in Nat /\ pos + Moved <= Frame /\ Frame \in Nat
      /\ Len(Audio(r)) \in Nat /\ busy[1].at \in Nat
      /\ Len(Audio(r)) + pos = Consumed(r)
  <2>1. Types /\ Frame \in Nat
    BY Constants DEF Clear, Kept
  <2>2. pos \in Nat /\ busy[1].at \in Nat
    BY <2>1, Buffers DEF Types, JavaTypes
  <2>3. Moved \in Nat /\ pos + Moved <= Frame
    BY <1>1, <2>1 DEF Meets
  <2>4. Len(Audio(r)) \in Nat /\ Len(Audio(r)) + pos = Consumed(r)
    BY <1>1 DEF Holds
  <2> QED
    BY <2>1, <2>2, <2>3, <2>4
<1> SUFFICES ASSUME NEW i \in 1..(pos + Moved)
             PROVE  Filled[i] = [r |-> r, k |-> Len(Audio(r)) + i]
  OBVIOUS
<1>3. Filled[i] = IF i \in (pos + 1)..(pos + Moved)
                  THEN busy[1].data[busy[1].at + i - pos] ELSE fileBuffer[i]
  BY <1>2 DEF Filled
<1>4. CASE i <= pos
  <2>1. i \in 1..pos /\ ~(i \in (pos + 1)..(pos + Moved))
    BY <1>2, <1>4
  <2> QED
    BY <1>1, <1>3, <2>1 DEF Holds
<1>5. CASE i > pos
  <2>1. i - pos \in 1..Moved /\ i \in (pos + 1)..(pos + Moved)
    BY <1>2, <1>5
  <2>2. busy[1].at + i - pos = busy[1].at + (i - pos)
        /\ Consumed(r) + (i - pos) = Len(Audio(r)) + i
    BY <1>2
  <2>3. busy[1].data[busy[1].at + (i - pos)] = [r |-> r, k |-> Consumed(r) + (i - pos)]
    BY <1>1, <2>1 DEF Meets
  <2> QED
    BY <1>3, <2>1, <2>2, <2>3
<1> QED
  BY <1>2, <1>4, <1>5

\* The frame that is written, and what its page adds to the file.
LEMMA FrameIsWritten ==
  ASSUME Clear, Faithful, NEW r \in Rec, Live(r), Clean(r), WriteFrame
  PROVE  LET page == Flushed(Framed(Filled, FrameLength))
         IN  /\ FrameLength = pos + Moved /\ FrameLength \in 1..Frame
             /\ page \in Page(Sample)
             /\ files' = [files EXCEPT ![r] = Append(files[r], page)]
             /\ AudioOf(files'[r]) \in Seq(Sample)
             /\ Len(AudioOf(files'[r])) = Len(Audio(r)) + FrameLength
             /\ Numbered(AudioOf(files'[r]), r, 0)
<1> DEFINE n == FrameLength
           page == Flushed(Framed(Filled, n))
           added == Unpadded(page.body)
           old == AudioOf(files[r])
<1>1. /\ busy # <<>> /\ FrameIsDue /\ Types /\ r # NoRec
      /\ Frame \in Nat \ {0}
  BY Constants DEF WriteFrame, Clear, Kept
<1>2. Meets(r) /\ Holds(r)
  BY <1>1, LoopMeets DEF Faithful, InFile
<1>3. /\ pos \in Nat /\ Moved \in 1..Frame /\ pos + Moved <= Frame
      /\ busy[1].at \in Nat
  BY <1>1, <1>2, Buffers DEF Meets, Types, JavaTypes
<1>4. n = pos + Moved
  BY <1>1, <1>2, <1>3 DEF FrameIsDue, FrameLength, Meets
<1>5. n \in 1..Frame
  BY <1>3, <1>4
<1>6. Filled \in [1..Frame -> Sample]
  BY <1>1, FilledIsSamples
<1>7. page \in Page(Sample) /\ page.body = FrameOf(Filled, n)
  <2>1. n \in Nat
    BY <1>5
  <2> HIDE DEF n
  <2> QED
    BY <1>1, <1>6, <2>1, FramePage
<1>8. files' = [files EXCEPT ![r] = Append(files[r], page)]
  BY <1>1, <1>2 DEF WriteFrame, Meets
<1>9. \A i \in 1..n : Filled[i] = [r |-> r, k |-> Len(old) + i]
  BY <1>1, <1>4, FilledIsSpoken DEF Audio
<1> HIDE DEF n, page, old, added
<1>10. \A i \in 1..n : Filled[i] # Silence
  <2> SUFFICES ASSUME NEW i \in 1..n PROVE Filled[i] # Silence
    OBVIOUS
  <2>1. \A k : [r |-> r, k |-> k] # Silence
    BY <1>1 DEF Silence
  <2>2. Filled[i] = [r |-> r, k |-> Len(old) + i]
    BY <1>9
  <2> QED
    BY <2>1, <2>2
<1>11. /\ added \in Seq(Sample) /\ Len(added) = n
       /\ \A i \in 1..n : added[i] = Filled[i]
  <2>1. added = Unpadded(FrameOf(Filled, n))
    BY <1>7 DEF added
  <2> QED
    BY <1>5, <1>6, <1>10, <2>1, FrameHolds
<1>12. AudioOf(files'[r]) = old \o added
  <2>1. files \in [Rec -> Seq(Page(Sample))]
    BY <1>1 DEF Types, NativeTypes
  <2>2. files[r] \in Seq(Page(Sample)) /\ Len(files[r]) >= 2
    BY <1>2, <2>1 DEF Holds
  <2>3. files'[r] = Append(files[r], page)
    BY <1>8, <2>1
  <2> QED
    BY <1>7, <2>2, <2>3, AudioGrows DEF old, added
<1>13. old \in Seq(Sample) /\ Numbered(old, r, 0)
  BY <1>2 DEF Holds, Audio, old
<1>14. old \o added \in Seq(Sample) /\ Len(old \o added) = Len(old) + n
       /\ Numbered(old \o added, r, 0)
  <2>1. /\ old \o added \in Seq(Sample) /\ Len(old \o added) = Len(old) + n
        /\ Len(old) \in Nat
        /\ \A i \in 1..Len(old) : (old \o added)[i] = old[i]
        /\ \A i \in 1..n : (old \o added)[Len(old) + i] = added[i]
    BY <1>5, <1>11, <1>13
  <2>2. \A i \in 1..(Len(old) + n) : (old \o added)[i] = [r |-> r, k |-> 0 + i]
    <3> SUFFICES ASSUME NEW i \in 1..(Len(old) + n)
                 PROVE  (old \o added)[i] = [r |-> r, k |-> 0 + i]
      OBVIOUS
    <3>1. CASE i <= Len(old)
      BY <1>13, <2>1, <3>1 DEF Numbered
    <3>2. CASE i > Len(old)
      <4>1. i - Len(old) \in 1..n /\ Len(old) + (i - Len(old)) = i /\ 0 + i = i
        BY <1>5, <2>1, <3>2
      <4>2. added[i - Len(old)] = [r |-> r, k |-> Len(old) + (i - Len(old))]
        BY <1>9, <1>11, <4>1
      <4>3. (old \o added)[Len(old) + (i - Len(old))] = added[i - Len(old)]
        BY <2>1, <4>1
      <4> QED
        BY <4>1, <4>2, <4>3
    <3> QED
      BY <1>5, <2>1, <3>1, <3>2
  <2> QED
    BY <2>1, <2>2 DEF Numbered
<1> QED
  BY <1>4, <1>5, <1>7, <1>8, <1>12, <1>14 DEF n, page, old, Audio

\* The stream after it, and its page.
LEMMA StreamAfterFrame ==
  ASSUME Clear, Faithful, NEW r \in Rec, Live(r), Clean(r), WriteFrame
  PROVE  LET page == Flushed(Framed(Filled, FrameLength))
         IN  /\ native'.file = r /\ native'.total = native.total + FrameLength
             /\ native'.granule = native.granule + Frame
             /\ os'.serialno = r /\ os'.pageno = Len(files[r]) + 1 /\ os'.bos = TRUE
             /\ os'.eos <=> FrameLength < Frame
             /\ page.serialno = r /\ page.pageno = Len(files[r])
             /\ ~page.bos /\ (page.eos <=> FrameLength < Frame)
             /\ page.granulepos = FrameGranule(FrameLength)
<1> DEFINE n == FrameLength
           s == Framed(Filled, n)
<1>1. busy # <<>> /\ Types
  BY DEF WriteFrame, Clear, Kept
<1>2. Meets(r) /\ Filled \in [1..Frame -> Sample]
  BY <1>1, LoopMeets, FilledIsSamples
<1>3. GoesOn(r)
  BY <1>2 DEF Meets, Faithful, StreamGoesOn
<1>4. n \in 1..Frame /\ n \in Nat /\ n # 0
  BY FrameIsWritten
<1> HIDE DEF n
<1>5. /\ Encoded(n).file = native.file /\ Encoded(n).total = native.total + n
      /\ Encoded(n).granule = native.granule + Frame
      /\ Rest(s).serialno = os.serialno
      /\ Rest(s).pageno = os.pageno + 1 /\ Rest(s).bos = TRUE
      /\ Rest(s).eos = (os.eos \/ n < Frame)
      /\ Flushed(s).bos = ~os.bos
      /\ Flushed(s).eos = (os.eos \/ n < Frame)
      /\ Flushed(s).pageno = os.pageno
      /\ Flushed(s).serialno = os.serialno
      /\ os.bos => Flushed(s).granulepos = FrameGranule(n)
  BY <1>1, <1>2, <1>4, FramePage
<1> HIDE DEF s
<1>6. native' = Encoded(n) /\ os' = Rest(s)
  <2>1. native.file # NoRec
    BY <1>2, Constants DEF Meets
  <2> QED
    BY <2>1 DEF WriteFrame, n, s
<1>7. os.serialno = r /\ os.pageno = Len(files[r]) /\ os.bos = TRUE /\ native.file = r
  BY <1>2, <1>3 DEF GoesOn, Meets
<1>8. os.eos = FALSE
  <2>1. os.eos \in BOOLEAN
    BY <1>1 DEF Types, NativeTypes, Rested
  <2> QED
    BY <1>2, <2>1 DEF Meets
<1>9. /\ native'.file = r /\ native'.total = native.total + n
      /\ native'.granule = native.granule + Frame
      /\ os'.serialno = r /\ os'.pageno = Len(files[r]) + 1 /\ os'.bos = TRUE
  BY <1>5, <1>6, <1>7
<1>10. os'.eos <=> n < Frame
  BY <1>5, <1>6, <1>8
<1>11. /\ Flushed(s).serialno = r /\ Flushed(s).pageno = Len(files[r])
       /\ Flushed(s).granulepos = FrameGranule(n)
  BY <1>5, <1>7
<1>12. ~Flushed(s).bos /\ (Flushed(s).eos <=> n < Frame)
  BY <1>5, <1>7, <1>8
<1> QED
  BY <1>9, <1>10, <1>11, <1>12 DEF n, s

-----------------------------------------------------------------------------
(* The reads are encoded in order.                                         *)

LEMMA OnlyReadsSpeak ==
  ASSUME [Next]_vars
  PROVE  UNCHANGED spoken \/ \E n \in 1..ReadSize : ReadMic(n)
BY DEF Next, RecordQueue, EncodingQueue, AskStart, AskStop, StartRefused, Start,
       StartFails, MicFails, StartRaces, ReadNothing, ReadFails, ReadNoMic, StopNoMic,
       StopToSend, StopToCancel, TakeBuffer, FillBuffer, WriteFrame, WriteFails,
       WriteCrashes, CloseRecorder, SendOrDelete, vars, ghosts

\* A read that leaves its recording clean.
LEMMA CleanRead ==
  ASSUME Types, NEW n \in 1..ReadSize, ReadMic(n), NEW r \in Rec, r = current,
         Clean(r)'
  PROVE  /\ Len(spoken[r]) % ReadSize = 0
         /\ n # ReadSize => Len(spoken[r]) % Frame = 0 /\ n <= Frame
<1> DEFINE bad == \/ n # ReadSize /\ (Len(spoken[r]) % Frame # 0 \/ n > Frame)
                  \/ Len(spoken[r]) % ReadSize # 0
<1>1. bad => flaws' = FlawsWith({r}, "cut")
  BY DEF ReadMic
<1>2. flaws' # FlawsWith({r}, "cut")
  <2>1. FlawsWith({r}, "cut")[r] = flaws[r] \cup {"cut"}
    BY DEF FlawsWith
  <2> QED
    BY <2>1 DEF Clean
<1>3. ~bad
  BY <1>1, <1>2
<1>4. ~(n > Frame) => n <= Frame
  BY Constants
<1> QED
  BY <1>3, <1>4

LEMMA ShortReadIsLastStep ==
  ASSUME Clear, Faithful, [Next]_vars
  PROVE  ShortReadIsLast'
<1> SUFFICES ASSUME NEW r \in Rec, Live(r)', Clean(r)' PROVE InOrder(r)'
  BY DEF ShortReadIsLast
<1>1. Kept /\ Types /\ Owned
  BY DEF Clear, Kept
<1>2. CASE Starters
  <2>1. encodeQ = <<>> /\ busy = <<>> /\ Start
    BY <1>1, <1>2, LiveAfterStart
  <2>2. encodeQ' = <<>> /\ busy' = <<>>
    BY <2>1 DEF Start
  <2> QED
    BY <2>2 DEF InOrder
<1>3. CASE ~Starters
  <2>1. Live(r) /\ Clean(r) /\ InOrder(r)
    <3>1. Live(r) /\ Clean(r)
      BY <1>1, <1>3, LiveBefore, CleanBefore
    <3> QED
      BY <3>1 DEF Faithful, ShortReadIsLast
  <2>2. /\ encodeQ \in Seq(EncodeTask) /\ Len(encodeQ) \in Nat
        /\ busy # <<>> => busy = <<busy[1]>> /\ busy[1] \in InWork
        /\ Len(spoken[r]) \in Nat
    BY <1>1, Buffers
  <2>3. CASE UNCHANGED <<encodeQ, busy, spoken>>
    BY <2>1, <2>3 DEF InOrder
  <2>4. CASE Encodes
    <3>1. UNCHANGED <<encodeQ, spoken>> /\ busy # <<>>
      BY <2>4 DEF Encodes, FillBuffer, WriteFrame, WriteFails, ghosts
    <3>2. \/ busy' = <<>> /\ busy[1].at + Moved = Len(busy[1].data)
          \/ /\ busy' # <<>> /\ busy'[1].data = busy[1].data
             /\ busy'[1].flush = busy[1].flush
             /\ busy[1].at + Moved # Len(busy[1].data)
      BY <2>2, <2>4 DEF Encodes, FillBuffer, WriteFrame, WriteFails, Advance, InWork
    <3>3. busy[1].flush => busy[1].at + Moved = Len(busy[1].data)
      <4>1. Meets(r)
        BY <2>1, <3>1, LoopMeets
      <4> QED
        BY <4>1 DEF Meets
    <3>4. busy' # <<>> => ~busy'[1].flush
      BY <3>2, <3>3
    <3> QED
      BY <2>1, <3>1, <3>4 DEF InOrder, LastRead
  <2>5. CASE TakeBuffer
    <3>1. /\ Len(encodeQ) > 0
          /\ Len(encodeQ') = Len(encodeQ) - 1
          /\ \A i \in 1..(Len(encodeQ) - 1) : encodeQ'[i] = encodeQ[i + 1]
          /\ encodeQ[1].is = "data" /\ busy' # <<>>
          /\ busy'[1].data = encodeQ[1].data /\ busy'[1].at = 0
          /\ busy'[1].flush = encodeQ[1].flush
          /\ spoken' = spoken
      BY <2>2, <2>5, Taken DEF TakeBuffer, ghosts
    <3>2. LastRead(busy'[1], Len(spoken'[r]))
      <4>1. LastRead(encodeQ[1], Len(spoken[r]))
        BY <2>1, <2>2, <3>1 DEF InOrder
      <4> QED
        BY <3>1, <4>1 DEF LastRead, Before
    <3>3. ASSUME NEW i \in 1..Len(encodeQ'), encodeQ'[i].is = "data"
          PROVE  LastRead(encodeQ'[i], Len(spoken'[r]))
      <4>1. i + 1 \in 1..Len(encodeQ) /\ encodeQ'[i] = encodeQ[i + 1]
        BY <2>2, <3>1
      <4> QED
        BY <2>1, <3>1, <3>3, <4>1 DEF InOrder
    <3> QED
      BY <3>1, <3>2, <3>3 DEF InOrder
  <2>6. CASE CloseRecorder
    <3>1. /\ Len(encodeQ) > 0 /\ busy' = <<>> /\ spoken' = spoken
          /\ Len(encodeQ') = Len(encodeQ) - 1
          /\ \A i \in 1..(Len(encodeQ) - 1) : encodeQ'[i] = encodeQ[i + 1]
      BY <2>2, <2>6, Taken DEF CloseRecorder, ghosts
    <3>2. ASSUME NEW i \in 1..Len(encodeQ'), encodeQ'[i].is = "data"
          PROVE  LastRead(encodeQ'[i], Len(spoken'[r]))
      <4>1. i + 1 \in 1..Len(encodeQ) /\ encodeQ'[i] = encodeQ[i + 1]
        BY <2>2, <3>1
      <4> QED
        BY <2>1, <3>1, <3>2, <4>1 DEF InOrder
    <3> QED
      BY <3>1, <3>2 DEF InOrder
  <2>7. CASE Sends
    <3> DEFINE t == [is |-> "close", r |-> current]
    <3>1. /\ t \in EncodeTask /\ t.is = "close" /\ encodeQ' = Append(encodeQ, t)
          /\ spoken' = spoken /\ busy' = busy
      BY <2>7 DEF Sends, EncodeTask, ReadNothing, ReadFails, ghosts
    <3> HIDE DEF t
    <3>2. /\ Len(encodeQ') = Len(encodeQ) + 1
          /\ \A i \in 1..Len(encodeQ) : encodeQ'[i] = encodeQ[i]
          /\ encodeQ'[Len(encodeQ) + 1].is = "close"
      BY <2>2, <3>1, Posted
    <3>3. \A i \in 1..Len(encodeQ') : encodeQ'[i].is = "data" =>
            i \in 1..Len(encodeQ) /\ encodeQ'[i] = encodeQ[i]
      BY <2>2, <3>2
    <3> QED
      BY <2>1, <3>1, <3>3 DEF InOrder
  <2>8. ASSUME NEW n \in 1..ReadSize, ReadMic(n) PROVE InOrder(r)'
    <3> DEFINE k == Len(spoken[r])
               t == encodeQ'[Len(encodeQ) + 1]
    <3>1. current = r /\ busy' = busy
      BY <1>1, <2>1, <2>8, LiveOwns DEF ReadMic
    <3>2. /\ Len(encodeQ') = Len(encodeQ) + 1
          /\ \A i \in 1..Len(encodeQ) : encodeQ'[i] = encodeQ[i]
          /\ t.flush = (n # ReadSize) /\ Len(t.data) = n /\ Before(t.data) = k
      BY <1>1, <2>8, <3>1, ReadIsQueued
    <3>3. Len(spoken'[r]) = k + n
      BY <1>1, <2>8, <3>1, SpokenGrows
    <3>4. k % ReadSize = 0 /\ (n # ReadSize => k % Frame = 0 /\ n <= Frame)
      BY <1>1, <2>8, <3>1, CleanRead
    <3>5. LastRead(t, k + n)
      <4>1. n # ReadSize => (k + n) % ReadSize # 0
        <5>1. /\ k \in Nat /\ ReadSize \in Nat \ {0} /\ n \in Nat /\ 0 < n
              /\ n # ReadSize => n < ReadSize
          BY <2>2, Constants
        <5>2. k % ReadSize = 0
          BY <3>4
        <5> HIDE DEF k
        <5> SUFFICES ASSUME n # ReadSize PROVE (k + n) % ReadSize # 0
          OBVIOUS
        <5>3. n < ReadSize
          BY <5>1
        <5> QED
          BY <5>1, <5>2, <5>3, ShortRead
      <4> HIDE DEF t, k
      <4> QED
        BY <3>2, <3>4, <4>1 DEF LastRead
    <3>6. \A b : LastRead(b, k) => LastRead(b, k + n)
      BY <3>4 DEF LastRead
    <3> HIDE DEF k
    <3>7. ASSUME NEW i \in 1..Len(encodeQ'), encodeQ'[i].is = "data"
          PROVE  LastRead(encodeQ'[i], k + n)
      <4>1. i \in 1..Len(encodeQ) \/ i = Len(encodeQ) + 1
        BY <2>2, <3>2
      <4>2. CASE i \in 1..Len(encodeQ)
        BY <2>1, <3>2, <3>6, <3>7, <4>2 DEF InOrder, k
      <4>3. CASE i = Len(encodeQ) + 1
        BY <3>5, <4>3
      <4> QED
        BY <4>1, <4>2, <4>3
    <3>8. busy' # <<>> => LastRead(busy'[1], k + n) /\ (busy'[1].flush => busy'[1].at = 0)
      BY <2>1, <3>1, <3>6 DEF InOrder, k
    <3> HIDE DEF t
    <3> QED
      BY <3>3, <3>7, <3>8 DEF InOrder
  <2> QED
    BY <1>1, <2>3, <2>4, <2>5, <2>6, <2>7, <2>8, EncodeMoves, OnlyReadsSpeak
<1> QED
  BY <1>2, <1>3

-----------------------------------------------------------------------------
(* The file holds what was encoded.                                        *)

\* What is done to the recorder while a recording has it and stays clean.
LEMMA CleanStep ==
  ASSUME Clear, Faithful, [Next]_vars, ~Starters, NEW r \in Rec, Live(r)', Clean(r)'
  PROVE  /\ Live(r) /\ Clean(r)
         /\ \/ FillBuffer /\ Encodes
            \/ WriteFrame /\ Encodes
            \/ ~Encodes /\ UNCHANGED <<files, fileBuffer, pos>>
         /\ Consumed(r)' = IF Encodes THEN Consumed(r) + Moved ELSE Consumed(r)
<1>1. Kept /\ Types /\ Owned /\ InSequence
  BY DEF Clear, Kept
<1>2. Live(r) /\ Clean(r)
  BY <1>1, LiveBefore, CleanBefore
<1>3. /\ Consumed(r)' = IF Encodes THEN Consumed(r) + Moved ELSE Consumed(r)
      /\ Encodes => busy[1].r = r
  BY <1>1, FollowStep
<1>4. FillBuffer \/ WriteFrame \/ (\E b \in BOOLEAN : WriteFails(b)) => Encodes
  BY DEF FillBuffer, WriteFrame, WriteFails, Advance, Encodes
<1>5. ASSUME NEW b \in BOOLEAN, WriteFails(b) PROVE FALSE
  <2>1. flaws' = FlawsWith({busy[1].r}, "write") /\ busy[1].r = r
    BY <1>3, <1>4, <1>5 DEF WriteFails
  <2>2. "write" \in flaws'[r]
    BY <2>1 DEF FlawsWith
  <2> QED
    BY <2>2 DEF Clean
<1>6. \/ UNCHANGED <<files, fileBuffer, pos>>
      \/ FillBuffer \/ WriteFrame \/ (\E b \in BOOLEAN : WriteFails(b))
  BY DEF Starters, Next, RecordQueue, EncodingQueue, AskStart, AskStop, StartRefused,
         StartRaces, ReadMic, ReadNothing, ReadFails, ReadNoMic, StopNoMic, StopToSend,
         StopToCancel, TakeBuffer, WriteCrashes, CloseRecorder, SendOrDelete, vars,
         bufferVars, nativeVars
<1>7. Encodes => FillBuffer \/ WriteFrame \/ (\E b \in BOOLEAN : WriteFails(b))
  BY DEF Encodes
<1> QED
  BY <1>2, <1>3, <1>4, <1>5, <1>6, <1>7

\* The file of a recording that is started.
LEMMA StartedFile ==
  ASSUME Kept, Start, NEW r \in Rec, r = recordQ[1].r
  PROVE  /\ files'[r] = <<Flushed(Header(r)), Flushed(Tags(r))>>
         /\ files'[r] \in Seq(Page(Sample)) /\ Len(files'[r]) = 2
         /\ AudioOf(files'[r]) = <<>>
         /\ native' = Opened(r) /\ os' = Rest(Tags(r)) /\ pos' = 0 /\ spoken[r] = <<>>
<1>1. files \in [Rec -> Seq(Page(Sample))] /\ outcome[r] = "none"
  BY StartBegins DEF Kept, Types, NativeTypes, Start
<1>2. files'[r] = <<Flushed(Header(r)), Flushed(Tags(r))>>
  BY <1>1 DEF Start
<1>3. files'[r] \in Seq(Page(Sample)) /\ Len(files'[r]) = 2
  <2>1. Flushed(Header(r)) \in Page(Sample) /\ Flushed(Tags(r)) \in Page(Sample)
    BY HeaderPages
  <2> QED
    BY <1>2, <2>1
<1>4. AudioOf(files'[r]) = <<>>
  BY <1>3, HeadersAreSilent
<1>5. native' = Opened(r) /\ os' = Rest(Tags(r)) /\ pos' = 0
  BY DEF Start
<1>6. spoken[r] = <<>>
  BY <1>1 DEF Kept, BegunOnce, NoTrace
<1> QED
  BY <1>2, <1>3, <1>4, <1>5, <1>6

LEMMA InFileStep ==
  ASSUME Clear, Faithful, [Next]_vars
  PROVE  InFile'
<1> SUFFICES ASSUME NEW r \in Rec, Live(r)', Clean(r)' PROVE Holds(r)'
  BY DEF InFile
<1>1. Kept /\ Types /\ Owned /\ Frame \in Nat \ {0}
  BY Constants DEF Clear, Kept
<1>2. CASE Starters
  <2>1. encodeQ = <<>> /\ busy = <<>> /\ Start /\ r = recordQ[1].r
    BY <1>1, <1>2, LiveAfterStart
  <2>2. encodeQ' = <<>> /\ busy' = <<>> /\ spoken' = spoken
    BY <2>1 DEF Start
  <2>3. Len(files'[r]) = 2 /\ AudioOf(files'[r]) = <<>> /\ pos' = 0 /\ spoken[r] = <<>>
    BY <1>1, <2>1, StartedFile
  <2>4. Consumed(r)' = 0
    BY <2>2, <2>3 DEF Consumed, From
  <2> QED
    BY <2>3, <2>4 DEF Holds, Audio, Numbered
<1>3. CASE ~Starters
  <2>1. /\ Live(r) /\ Clean(r)
        /\ \/ FillBuffer /\ Encodes
           \/ WriteFrame /\ Encodes
           \/ ~Encodes /\ UNCHANGED <<files, fileBuffer, pos>>
        /\ Consumed(r)' = IF Encodes THEN Consumed(r) + Moved ELSE Consumed(r)
    BY <1>3, CleanStep
  <2>2. Holds(r)
    BY <2>1 DEF Faithful, InFile
  <2>3. CASE ~Encodes /\ UNCHANGED <<files, fileBuffer, pos>>
    BY <2>1, <2>2, <2>3 DEF Holds, Audio
  <2>4. CASE FillBuffer /\ Encodes
    <3>1. busy # <<>> /\ UNCHANGED files /\ pos' = pos + Moved /\ fileBuffer' = Filled
      BY <2>4 DEF FillBuffer, Advance, nativeVars
    <3>2. Consumed(r)' = Consumed(r) + Moved
      BY <2>1, <2>4
    <3>3. Audio(r)' = Audio(r)
      BY <3>1 DEF Audio
    <3>4. \A i \in 1..(pos + Moved) : Filled[i] = [r |-> r, k |-> Len(Audio(r)) + i]
      BY <2>1, <3>1, FilledIsSpoken
    <3>5. Len(Audio(r)) + pos' = Consumed(r) + Moved
      <4>1. Len(Audio(r)) \in Nat /\ pos \in Nat /\ Moved \in Nat
        BY <1>1, <2>2, <3>1, MovedFits DEF Holds, Types, JavaTypes
      <4> QED
        BY <2>2, <3>1, <4>1 DEF Holds
    <3> QED
      BY <2>2, <3>1, <3>2, <3>3, <3>4, <3>5 DEF Holds
  <2>5. CASE WriteFrame /\ Encodes
    <3> DEFINE page == Flushed(Framed(Filled, FrameLength))
               old == files[r]
    <3>1. busy # <<>> /\ pos' = 0
      BY <2>5 DEF WriteFrame
    <3>2. /\ FrameLength = pos + Moved
          /\ page \in Page(Sample)
          /\ files' = [files EXCEPT ![r] = Append(old, page)]
          /\ AudioOf(files'[r]) \in Seq(Sample)
          /\ Len(AudioOf(files'[r])) = Len(Audio(r)) + FrameLength
          /\ Numbered(AudioOf(files'[r]), r, 0)
      BY <2>1, <2>5, FrameIsWritten
    <3>3. Consumed(r)' = Consumed(r) + Moved
      BY <2>1, <2>5
    <3>4. files'[r] = Append(old, page) /\ old \in Seq(Page(Sample)) /\ Len(old) >= 2
      BY <1>1, <2>2, <3>2 DEF Holds, Types, NativeTypes
    <3> HIDE DEF page, old
    <3>5. Len(files'[r]) >= 2
      BY <3>2, <3>4
    <3>6. Len(AudioOf(files'[r])) + pos' = Consumed(r)'
      <4>1. Len(Audio(r)) \in Nat /\ pos \in Nat /\ Moved \in Nat
            /\ Len(Audio(r)) + pos = Consumed(r)
        BY <1>1, <2>2, <3>1, MovedFits DEF Holds, Types, JavaTypes
      <4> QED
        BY <3>1, <3>2, <3>3, <4>1
    <3> QED
      BY <3>1, <3>2, <3>5, <3>6 DEF Holds, Audio
  <2> QED
    BY <2>1, <2>3, <2>4, <2>5
<1> QED
  BY <1>2, <1>3

-----------------------------------------------------------------------------
(* The stream goes on.                                                     *)

\* Only writing and starting change the recorder's stream and the files.
LEMMA RecorderMoves ==
  ASSUME Clear, Faithful, [Next]_vars, ~Starters, NEW r \in Rec, Live(r)', Clean(r)',
         native'.file = r
  PROVE  /\ native.file = r
         /\ WriteFrame \/ UNCHANGED <<native, os, files>>
<1>1. native \in NativeType /\ NoRec # r
  BY Constants DEF Clear, Kept, Types, NativeTypes, NativeType
<1>2. ~CloseRecorder
  BY <1>1, NativeStates DEF CloseRecorder
<1>3. ASSUME NEW b \in BOOLEAN, WriteFails(b) PROVE FALSE
  <2>1. Encodes
    BY <1>3 DEF WriteFails, Advance, Encodes
  <2>2. WriteFrame \/ FillBuffer
    BY <2>1, CleanStep
  <2>3. fails' = fails
    BY <2>2 DEF WriteFrame, FillBuffer, counters
  <2>4. fails \in Nat /\ fails' = fails + 1
    BY <1>3 DEF WriteFails, Clear, Kept, Types, GhostTypes
  <2> QED
    BY <2>3, <2>4
<1>4. WriteFrame \/ UNCHANGED <<native, os, files>>
  BY <1>2, <1>3 DEF Starters, Next, RecordQueue, EncodingQueue, AskStart, AskStop,
         StartRefused, StartRaces, ReadMic, ReadNothing, ReadFails, ReadNoMic, StopNoMic,
         StopToSend, StopToCancel, TakeBuffer, FillBuffer, WriteCrashes, SendOrDelete,
         vars, nativeVars
<1>5. WriteFrame => native'.file = native.file
  BY <1>1 DEF WriteFrame, Encoded, NativeType
<1> QED
  BY <1>4, <1>5

\* What the stream is like after a frame, and the page it adds.
LEMMA FrameGoesOn ==
  ASSUME Clear, Faithful, NEW r \in Rec, Live(r), Clean(r), WriteFrame
  PROVE  LET page == Flushed(Framed(Filled, FrameLength))
             total == native.total + FrameLength
         IN  /\ ~os.eos /\ native.total = Len(Audio(r)) /\ native.granule = native.total
             /\ \A i \in 1..Len(files[r]) :
                  ~files[r][i].eos /\ files[r][i].granulepos <= native.granule
             /\ files[r] \in Seq(Page(Sample)) /\ Len(files[r]) >= 2
             /\ files'[r] = Append(files[r], page)
             /\ native.total \in Nat /\ FrameLength \in 1..Frame
             /\ page.granulepos = IF FrameLength < Frame THEN total + PreSkip ELSE total
             /\ FrameLength < Frame =>
                  /\ Consumed(r) + Moved = Len(spoken[r])
                  /\ Len(spoken[r]) % ReadSize # 0
<1> DEFINE page == Flushed(Framed(Filled, FrameLength))
<1>1. /\ busy # <<>> /\ Types /\ PreSkip \in Nat /\ Frame \in Nat
  BY Constants DEF WriteFrame, Clear, Kept
<1>2. Meets(r) /\ Holds(r)
  BY <1>1, LoopMeets DEF Faithful, InFile
<1>3. GoesOn(r) /\ ~os.eos
  BY <1>2 DEF Meets, Faithful, StreamGoesOn
<1>4. /\ native.total = Len(Audio(r)) /\ native.granule = native.total
      /\ \A i \in 1..Len(files[r]) :
           ~files[r][i].eos /\ files[r][i].granulepos <= native.granule
  BY <1>3 DEF GoesOn
<1>5. /\ FrameLength = pos + Moved /\ FrameLength \in 1..Frame
      /\ files' = [files EXCEPT ![r] = Append(files[r], page)]
  BY FrameIsWritten
<1>6. page.granulepos = FrameGranule(FrameLength)
  BY StreamAfterFrame
<1>7. files \in [Rec -> Seq(Page(Sample))] /\ native \in NativeType
  BY <1>1 DEF Types, NativeTypes, NativeType
<1>8. native.total \in Nat /\ native.granule \in Nat
  BY <1>7 DEF NativeType
<1>9. FrameLength < Frame =>
        Consumed(r) + Moved = Len(spoken[r]) /\ Len(spoken[r]) % ReadSize # 0
  <2> SUFFICES ASSUME FrameLength < Frame
               PROVE  Consumed(r) + Moved = Len(spoken[r]) /\ Len(spoken[r]) % ReadSize # 0
    OBVIOUS
  <2>1. busy[1].flush
    BY <1>1, <1>5 DEF WriteFrame, FrameIsDue
  <2> QED
    BY <1>2, <2>1 DEF Meets
<1> HIDE DEF page
<1>10. files'[r] = Append(files[r], page) /\ files[r] \in Seq(Page(Sample))
  BY <1>5, <1>7
<1>11. Len(files[r]) >= 2
  BY <1>2 DEF Holds
<1>12. page.granulepos = IF FrameLength < Frame THEN native.total + FrameLength + PreSkip
                         ELSE native.total + FrameLength
  <2>1. FrameLength = Frame \/ FrameLength < Frame
    BY <1>1, <1>5
  <2>2. CASE FrameLength < Frame
    BY <1>6, <2>2 DEF FrameGranule
  <2>3. CASE FrameLength = Frame
    BY <1>1, <1>4, <1>6, <2>3 DEF FrameGranule
  <2> QED
    BY <2>1, <2>2, <2>3
<1> QED
  BY <1>3, <1>4, <1>5, <1>8, <1>9, <1>10, <1>11, <1>12 DEF page

LEMMA StreamGoesOnStep ==
  ASSUME Clear, Faithful, [Next]_vars
  PROVE  StreamGoesOn'
<1> SUFFICES ASSUME NEW r \in Rec, Live(r)', Clean(r)', native'.file = r PROVE GoesOn(r)'
  BY DEF StreamGoesOn
<1>1. Kept /\ Types /\ Owned /\ Frame \in Nat \ {0}
  BY Constants DEF Clear, Kept
<1>2. CASE Starters
  <2> DEFINE head == Flushed(Header(r))
             tags == Flushed(Tags(r))
  <2>1. Start /\ r = recordQ[1].r
    BY <1>1, <1>2, LiveAfterStart
  <2>2. /\ files'[r] = <<head, tags>> /\ Len(files'[r]) = 2 /\ AudioOf(files'[r]) = <<>>
        /\ native' = Opened(r) /\ os' = Rest(Tags(r))
    BY <1>1, <2>1, StartedFile
  <2>3. os'.serialno = r /\ os'.pageno = Len(files'[r]) /\ os'.bos = TRUE /\ os'.eos = FALSE
    BY <2>2, HeaderPages
  <2>4. native'.total = 0 /\ native'.granule = 0
    BY <2>2, NativeStates
  <2>5. /\ head.eos = FALSE /\ tags.eos = FALSE
        /\ head.granulepos = 0 /\ tags.granulepos = 0
    BY HeaderPages
  <2> HIDE DEF head, tags
  <2>6. \A i \in 1..2 : files'[r][i].eos = FALSE /\ files'[r][i].granulepos = 0
    BY <2>2, <2>5
  <2>7. native'.total = 0 * Frame /\ 0 \in Nat
    BY <1>1, <2>4
  <2>8. Len(Audio(r)') = 0
    BY <2>2 DEF Audio
  <2> QED
    BY <2>2, <2>3, <2>4, <2>6, <2>7, <2>8 DEF GoesOn
<1>3. CASE ~Starters
  <2>1. /\ Live(r) /\ Clean(r)
        /\ \/ FillBuffer /\ Encodes
           \/ WriteFrame /\ Encodes
           \/ ~Encodes /\ UNCHANGED <<files, fileBuffer, pos>>
        /\ Consumed(r)' = IF Encodes THEN Consumed(r) + Moved ELSE Consumed(r)
    BY <1>3, CleanStep
  <2>2. native.file = r /\ (WriteFrame \/ UNCHANGED <<native, os, files>>)
    BY <1>3, RecorderMoves
  <2>3. GoesOn(r)
    BY <2>1, <2>2 DEF Faithful, StreamGoesOn
  <2>4. CASE WriteFrame
    <3> DEFINE n == FrameLength
               page == Flushed(Framed(Filled, n))
    <3>1. /\ native'.total = native.total + n /\ native'.granule = native.granule + Frame
          /\ os'.serialno = r /\ os'.pageno = Len(files[r]) + 1 /\ os'.bos = TRUE
          /\ os'.eos <=> n < Frame
          /\ page.eos <=> n < Frame
      BY <2>1, <2>4, StreamAfterFrame
    <3>2. /\ native.total = Len(Audio(r)) /\ native.granule = native.total
          /\ \A i \in 1..Len(files[r]) :
               ~files[r][i].eos /\ files[r][i].granulepos <= native.granule
          /\ files[r] \in Seq(Page(Sample)) /\ Len(files[r]) >= 2
          /\ files'[r] = Append(files[r], page)
          /\ native.total \in Nat /\ n \in 1..Frame
          /\ page.granulepos = IF n < Frame THEN native.total + n + PreSkip
                               ELSE native.total + n
          /\ n < Frame => /\ Consumed(r) + Moved = Len(spoken[r])
                          /\ Len(spoken[r]) % ReadSize # 0
      BY <2>1, <2>4, FrameGoesOn
    <3>3. page \in Page(Sample) /\ Len(AudioOf(files'[r])) = Len(Audio(r)) + n
      BY <2>1, <2>4, FrameIsWritten
    <3>4. pos' = 0 /\ UNCHANGED spoken /\ Encodes
      BY <2>4 DEF WriteFrame, Advance, Encodes, ghosts
    <3>5. ~os.eos
      BY <2>1, <2>4, FrameGoesOn
    <3> HIDE DEF n, page
    <3>6. /\ Len(files'[r]) = Len(files[r]) + 1 /\ Len(files[r]) \in Nat
          /\ \A i \in 1..Len(files[r]) : files'[r][i] = files[r][i]
          /\ files'[r][Len(files[r]) + 1] = page
      BY <3>2, <3>3
    <3>7. os'.serialno = r /\ os'.pageno = Len(files'[r]) /\ os'.bos = TRUE
      BY <3>1, <3>6
    <3>8. native'.total = Len(Audio(r)')
      BY <3>1, <3>2, <3>3 DEF Audio
    <3>9. CASE n < Frame
      <4>1. Consumed(r)' = Len(spoken'[r]) /\ Len(spoken'[r]) % ReadSize # 0
        BY <2>1, <3>2, <3>4, <3>9
      <4> QED
        BY <3>1, <3>4, <3>7, <3>8, <3>9, <4>1 DEF GoesOn
    <3>10. CASE n = Frame
      <4>1. ~(n < Frame)
        BY <1>1, <3>10
      <4>2. native'.granule = native'.total
        BY <3>1, <3>2, <3>10
      <4>3. \E m \in Nat : native'.total = m * Frame
        <5>1. PICK m \in Nat : native.total = m * Frame
          BY <2>3, <3>5 DEF GoesOn
        <5>2. native'.total = (m + 1) * Frame
          BY <1>1, <3>1, <3>10, <5>1
        <5> QED
          BY <5>2
      <4>4. ASSUME NEW i \in 1..Len(files'[r])
            PROVE  ~files'[r][i].eos /\ files'[r][i].granulepos <= native'.granule
        <5>1. CASE i \in 1..Len(files[r])
          <6>1. files'[r][i] = files[r][i] /\ ~files[r][i].eos
                /\ files[r][i].granulepos <= native.granule
            BY <3>2, <3>6, <5>1
          <6>2. files[r][i] \in Page(Sample)
            BY <3>2, <5>1
          <6>3. files[r][i].granulepos \in Int /\ native.granule \in Nat
            BY <3>2, <6>2 DEF Page
          <6> QED
            BY <1>1, <3>1, <6>1, <6>3
        <5>2. CASE i = Len(files[r]) + 1
          <6>1. files'[r][i] = page /\ ~page.eos
            BY <3>1, <3>6, <4>1, <5>2
          <6>2. page.granulepos = native.total + n
            BY <3>2, <4>1
          <6>3. native'.granule = native.total + n /\ native.total + n \in Nat
            BY <1>1, <3>1, <3>2, <3>10
          <6>4. files'[r][i].granulepos <= native'.granule
            BY <6>1, <6>2, <6>3
          <6> QED
            BY <6>1, <6>4
        <5> QED
          BY <3>6, <5>1, <5>2
      <4>5. ~os'.eos
        BY <3>1, <4>1
      <4> QED
        BY <3>7, <3>8, <4>2, <4>3, <4>4, <4>5 DEF GoesOn
    <3> QED
      BY <1>1, <3>2, <3>9, <3>10
  <2>5. CASE UNCHANGED <<native, os, files>>
    <3>1. Audio(r)' = Audio(r)
      BY <2>5 DEF Audio
    <3>2. CASE ~os.eos
      BY <2>3, <2>5, <3>1, <3>2 DEF GoesOn
    <3>3. CASE os.eos
      <4>1. Len(spoken[r]) % ReadSize # 0 /\ Consumed(r) = Len(spoken[r]) /\ pos = 0
        BY <2>3, <3>3 DEF GoesOn
      <4>2. UNCHANGED spoken
        <5>1. ASSUME NEW n \in 1..ReadSize, ReadMic(n) PROVE FALSE
          <6>1. current = r
            BY <1>1, <2>1, <5>1, LiveOwns DEF ReadMic
          <6> QED
            BY <1>1, <4>1, <5>1, <6>1, CleanRead
        <5> QED
          BY <5>1, OnlyReadsSpeak
      <4>3. ~Encodes
        <5>1. busy = <<>>
          <6>1. busy # <<>> => Meets(r)
            BY <2>1, LoopMeets
          <6> QED
            BY <3>3, <6>1 DEF Meets
        <5> QED
          BY <5>1 DEF Encodes
      <4>4. Consumed(r)' = Consumed(r) /\ pos' = pos
        <5>1. FillBuffer \/ WriteFrame => Encodes
          BY DEF FillBuffer, WriteFrame, Advance, Encodes
        <5> QED
          BY <2>1, <4>3, <5>1
      <4> QED
        BY <2>3, <2>5, <3>1, <3>3, <4>1, <4>2, <4>4 DEF GoesOn
    <3> QED
      BY <3>2, <3>3
  <2> QED
    BY <2>2, <2>4, <2>5
<1> QED
  BY <1>2, <1>3

\* Who writes to a file: the recording that is started, or that has the
\* recorder.
LEMMA FilesMove ==
  ASSUME Kept, [Next]_vars, NEW r \in Rec
  PROVE  \/ files'[r] = files[r]
         \/ Start /\ r = recordQ[1].r
         \/ WriteFrame /\ native.file = r
<1>1. files \in [Rec -> Seq(Page(Sample))]
  BY DEF Kept, Types, NativeTypes
<1>2. UNCHANGED files \/ Start \/ WriteFrame
  BY DEF Next, RecordQueue, EncodingQueue, AskStart, AskStop, StartRefused,
         StartFails, MicFails, StartRaces, ReadMic, ReadNothing, ReadFails, ReadNoMic,
         StopNoMic, StopToSend, StopToCancel, TakeBuffer, FillBuffer, WriteFails,
         WriteCrashes, CloseRecorder, SendOrDelete, vars, nativeVars
<1>3. CASE Start
  <2> DEFINE q == recordQ[1].r
             head == <<Flushed(Header(q)), Flushed(Tags(q))>>
  <2>1. files' = [files EXCEPT ![q] = head]
    BY <1>3 DEF Start
  <2> HIDE DEF q, head
  <2>2. r # q => files'[r] = files[r]
    BY <1>1, <2>1
  <2> QED
    BY <1>3, <2>2 DEF q
<1>4. CASE WriteFrame
  <2> DEFINE added == Flushed(Framed(Filled, FrameLength))
  <2>1. files' = files \/ files' = [files EXCEPT ![native.file] = Append(files[native.file], added)]
    BY <1>4 DEF WriteFrame
  <2> HIDE DEF added
  <2>2. r # native.file => files'[r] = files[r]
    BY <1>1, <2>1
  <2> QED
    BY <1>4, <2>2
<1> QED
  BY <1>2, <1>3, <1>4

\* A recording that keeps the recorder to itself and is written for is live.
LEMMA WrittenIsLive ==
  ASSUME Clear, NEW r \in Rec, Alone(r), WriteFrame, native.file = r
  PROVE  Live(r)
<1>1. HasRecorder(r) /\ busy # <<>>
  BY DEF Clear, Owned, OwnedBy, WriteFrame
<1>2. Begun(r)
  BY <1>1 DEF HasRecorder
<1> QED
  BY <1>2 DEF Live

LEMMA StreamsStep ==
  ASSUME Clear, Faithful, Streams, [Next]_vars
  PROVE  Streams'
<1> SUFFICES ASSUME NEW r \in Rec, Clean(r)' PROVE Stream(r)'
  BY DEF Streams
<1>1. Kept /\ Types /\ PreSkip \in Nat
  BY Constants DEF Clear, Kept
<1>2. Clean(r) /\ Alone(r) /\ Stream(r)
  BY <1>1, CleanBefore, CleanIsAlone DEF Streams
<1>3. CASE files'[r] = files[r]
  BY <1>2, <1>3 DEF Stream, Audio
<1>4. CASE Start /\ r = recordQ[1].r
  <2> DEFINE head == Flushed(Header(r))
             tags == Flushed(Tags(r))
  <2>1. files'[r] = <<head, tags>> /\ Len(files'[r]) = 2
    BY <1>1, <1>4, StartedFile
  <2>2. /\ head.serialno = r /\ head.pageno = 0 /\ head.granulepos = 0
        /\ tags.serialno = r /\ tags.pageno = 1 /\ tags.granulepos = 0
    BY HeaderPages
  <2>3. head.bos = TRUE /\ tags.bos = FALSE /\ head.eos = FALSE /\ tags.eos = FALSE
    BY HeaderPages
  <2> HIDE DEF head, tags
  <2>4. files'[r][1] = head /\ files'[r][2] = tags
    BY <2>1
  <2> SUFFICES ASSUME NEW i \in 1..2
               PROVE  /\ files'[r][i].serialno = r
                      /\ files'[r][i].pageno = i - 1
                      /\ files'[r][i].bos <=> i = 1
                      /\ i > 1 => files'[r][i].granulepos >= files'[r][i - 1].granulepos
                      /\ ~files'[r][i].eos
    BY <2>1 DEF Stream
  <2>5. CASE i = 1
    BY <2>2, <2>3, <2>4, <2>5
  <2>6. CASE i = 2
    BY <2>2, <2>3, <2>4, <2>6
  <2> QED
    BY <2>5, <2>6
<1>5. CASE WriteFrame /\ native.file = r
  <2> DEFINE n == FrameLength
             page == Flushed(Framed(Filled, n))
             m == Len(files[r])
  <2>1. Live(r)
    BY <1>2, <1>5, WrittenIsLive
  <2>2. /\ page.serialno = r /\ page.pageno = Len(files[r])
        /\ ~page.bos /\ (page.eos <=> n < Frame)
    BY <1>2, <1>5, <2>1, StreamAfterFrame
  <2>3. /\ native.total = Len(Audio(r)) /\ native.granule = native.total
        /\ \A i \in 1..Len(files[r]) :
             ~files[r][i].eos /\ files[r][i].granulepos <= native.granule
        /\ files[r] \in Seq(Page(Sample)) /\ Len(files[r]) >= 2
        /\ files'[r] = Append(files[r], page)
        /\ native.total \in Nat /\ n \in 1..Frame
        /\ page.granulepos = IF n < Frame THEN native.total + n + PreSkip
                             ELSE native.total + n
    BY <1>2, <1>5, <2>1, FrameGoesOn
  <2>4. page \in Page(Sample) /\ Len(AudioOf(files'[r])) = Len(Audio(r)) + n
    BY <1>2, <1>5, <2>1, FrameIsWritten
  <2> HIDE DEF n, page
  <2>5. /\ Len(files'[r]) = m + 1 /\ m \in Nat /\ m >= 2
        /\ \A i \in 1..m : files'[r][i] = files[r][i]
        /\ files'[r][m + 1] = page
    BY <2>3, <2>4
  <2>6. page.granulepos >= files[r][m].granulepos
    <3>1. m \in 1..Len(files[r]) /\ files[r][m] \in Page(Sample)
      BY <2>3, <2>5
    <3>2. files[r][m].granulepos \in Int /\ files[r][m].granulepos <= native.total
      BY <2>3, <3>1 DEF Page
    <3>3. native.total <= page.granulepos /\ page.granulepos \in Nat
      BY <1>1, <2>3
    <3> HIDE DEF m
    <3> QED
      BY <2>3, <3>2, <3>3
  <2>7. page.eos => page.granulepos = Len(Audio(r)') + PreSkip
    BY <2>2, <2>3, <2>4 DEF Audio
  <2> SUFFICES ASSUME NEW i \in 1..(m + 1)
               PROVE  /\ files'[r][i].serialno = r
                      /\ files'[r][i].pageno = i - 1
                      /\ files'[r][i].bos <=> i = 1
                      /\ i > 1 => files'[r][i].granulepos >= files'[r][i - 1].granulepos
                      /\ files'[r][i].eos =>
                           /\ i = m + 1
                           /\ files'[r][i].granulepos = Len(Audio(r)') + PreSkip
    BY <2>5 DEF Stream
  <2>8. CASE i \in 1..m
    <3>1. files'[r][i] = files[r][i] /\ ~files[r][i].eos
      BY <2>3, <2>5, <2>8
    <3>2. /\ files[r][i].serialno = r /\ files[r][i].pageno = i - 1
          /\ files[r][i].bos <=> i = 1
          /\ i > 1 => files[r][i].granulepos >= files[r][i - 1].granulepos
      BY <1>2, <2>8 DEF Stream
    <3>3. i > 1 => files'[r][i - 1] = files[r][i - 1]
      BY <2>5, <2>8
    <3> QED
      BY <3>1, <3>2, <3>3
  <2>9. CASE i = m + 1
    <3>1. files'[r][i] = page /\ i # 1 /\ i - 1 = m /\ files'[r][i - 1] = files[r][m]
      BY <2>5, <2>9
    <3>2. files'[r][i].pageno = i - 1
      BY <2>2, <3>1
    <3> QED
      BY <2>2, <2>6, <2>7, <2>9, <3>1, <3>2
  <2> QED
    BY <2>5, <2>8, <2>9
<1> QED
  BY <1>1, <1>3, <1>4, <1>5, FilesMove

-----------------------------------------------------------------------------
(* What is sent.                                                           *)

SentWell(r) ==
  /\ Len(Audio(r)) \in (Len(spoken[r]) - Frame + 1)..Len(spoken[r])
  /\ Audio(r) = SubSeq(spoken[r], 1, Len(Audio(r)))

\* Two sequences of the numbered samples of a recording agree.
LEMMA SameSamples ==
  ASSUME NEW a \in Seq(Sample), NEW s \in Seq(Sample), NEW r,
         Numbered(a, r, 0), Numbered(s, r, 0), Len(a) <= Len(s)
  PROVE  a = SubSeq(s, 1, Len(a))
<1>1. \A i \in 1..Len(a) : i \in 1..Len(s) /\ SubSeq(s, 1, Len(a))[i] = s[i]
  OBVIOUS
<1>2. \A i \in 1..Len(a) : a[i] = SubSeq(s, 1, Len(a))[i]
  BY <1>1 DEF Numbered
<1>3. SubSeq(s, 1, Len(a)) \in Seq(Sample) /\ Len(SubSeq(s, 1, Len(a))) = Len(a)
  OBVIOUS
<1> DEFINE t == SubSeq(s, 1, Len(a))
<1> HIDE DEF t
<1>4. t \in Seq(Sample) /\ Len(t) = Len(a) /\ \A i \in 1..Len(a) : a[i] = t[i]
  BY <1>2, <1>3 DEF t
<1>5. a = t
  BY <1>4
<1> QED
  BY <1>5 DEF t

LEMMA SentAsSpokenStep ==
  ASSUME Clear, Faithful, SentAsSpoken, [Next]_vars
  PROVE  SentAsSpoken'
<1> SUFFICES ASSUME NEW r \in Rec, outcome'[r] = "sent", Clean(r)' PROVE SentWell(r)'
  BY DEF SentAsSpoken, Clean, SentWell
<1>1. Kept /\ Types /\ Owned /\ Frame \in Nat
  BY Constants DEF Clear, Kept
<1>2. Clean(r) /\ Alone(r) /\ "write" \notin flaws[r]
  BY <1>1, CleanBefore, CleanIsAlone
<1>3. CASE outcome[r] = "sent"
  <2>1. SentWell(r)
    BY <1>2, <1>3 DEF SentAsSpoken, Clean, SentWell
  <2>2. spoken'[r] = spoken[r]
    BY <1>1, <1>3, SpokenMoves
  <2>3. files'[r] = files[r]
    <3>1. ~(Start /\ r = recordQ[1].r)
      BY <1>1, <1>3, StartBegins DEF Start
    <3>2. ~(WriteFrame /\ native.file = r)
      BY <1>2, <1>3, WrittenIsLive DEF Live, Begun
    <3> QED
      BY <1>1, <3>1, <3>2, FilesMove
  <2> QED
    BY <2>1, <2>2, <2>3 DEF SentWell, Audio
<1>4. CASE outcome[r] # "sent"
  <2>1. SendOrDelete /\ r = uiQ[1]
    BY <1>1, <1>4, OutcomeMoves
  <2>2. Live(r) /\ Consumed(r) = Len(spoken[r])
    BY <1>1, <1>2, <2>1, DealtWith
  <2>3. Holds(r)
    BY <1>2, <2>2 DEF Faithful, InFile
  <2>4. pos < Frame /\ pos \in Nat
    BY <1>1, <1>2, <2>2 DEF Clear, Counted, Types, JavaTypes
  <2>5. spoken[r] \in Seq(Sample) /\ Numbered(spoken[r], r, 0)
    BY <1>1 DEF Types, GhostTypes, SampleTypes
  <2>6. /\ Audio(r) \in Seq(Sample) /\ Numbered(Audio(r), r, 0)
        /\ Len(Audio(r)) + pos = Len(spoken[r])
    BY <2>2, <2>3 DEF Holds
  <2>7. Len(Audio(r)) \in Nat /\ Len(spoken[r]) \in Nat
    BY <2>5, <2>6
  <2>8. Len(Audio(r)) \in (Len(spoken[r]) - Frame + 1)..Len(spoken[r])
    BY <1>1, <2>4, <2>6, <2>7
  <2>9. Audio(r) = SubSeq(spoken[r], 1, Len(Audio(r)))
    <3>1. Len(Audio(r)) <= Len(spoken[r])
      BY <2>4, <2>6, <2>7
    <3> QED
      BY <2>5, <2>6, <3>1, SameSamples
  <2>10. SentWell(r)
    BY <2>8, <2>9 DEF SentWell
  <2>11. UNCHANGED <<files, spoken>>
    BY <2>1 DEF SendOrDelete, nativeVars, ghosts
  <2> QED
    BY <2>10, <2>11 DEF SentWell, Audio
<1> QED
  BY <1>3, <1>4

-----------------------------------------------------------------------------
(* The theorems.                                                           *)

Recorded == Clear /\ Faithful /\ Streams /\ SentAsAsked /\ SentAsSpoken

LEMMA InitTypes ==
  ASSUME Init
  PROVE  Types
<1>1. /\ MaxStarts \in Nat /\ MaxReads \in Nat /\ Frame \in Nat \ {0}
      /\ ReadSize \in Nat \ {0} /\ NoRec \in 0..MaxStarts /\ Silence \in Sample
  BY Constants
<1>2. recordQ = <<>> /\ encodeQ = <<>> /\ uiQ = <<>> /\ busy = <<>>
  BY DEF Init
<1>3. TaskTypes
  BY <1>2 DEF TaskTypes
<1>4. JavaTypes
  <2>1. fileBuffer \in [1..Frame -> Sample]
    BY <1>1 DEF Init
  <2>2. /\ pos \in 0..Frame /\ timeCount \in Nat
        /\ current \in 0..MaxStarts /\ dialog \in 0..MaxStarts
    BY <1>1 DEF Init
  <2>3. sendAfterDone \in BOOLEAN /\ crashed \in BOOLEAN
    BY DEF Init
  <2>4. mic \in {"none", "recording", "stopped"}
    BY DEF Init
  <2> QED
    BY <2>1, <2>2, <2>3, <2>4 DEF JavaTypes
<1>5. NativeTypes
  <2>1. native \in NativeType
    BY NativeStates DEF Init
  <2>2. os \in Rested /\ os.serialno = NoRec
    <3>1. StreamInit(NoRec).serialno = NoRec /\ NoRec \in Nat
      BY Constants DEF StreamInit
    <3>2. StreamInit(NoRec) \in Rested
      BY <3>1 DEF StreamInit, Rested
    <3> QED
      BY <3>1, <3>2 DEF Init
  <2>3. files \in [Rec -> Seq(Page(Sample))]
    BY DEF Init
  <2> QED
    BY <1>1, <2>1, <2>2, <2>3 DEF NativeTypes, NativeType
<1>6. GhostTypes
  BY <1>1 DEF Init, GhostTypes, Outcomes
<1>7. SampleTypes
  <2>1. \A r \in Rec : spoken[r] = <<>> /\ reads * ReadSize = 0
    BY <1>1 DEF Init
  <2>2. \A r \in Rec : Len(spoken[r]) <= reads * ReadSize /\ Numbered(spoken[r], r, 0)
    BY <2>1 DEF Numbered
  <2> QED
    BY <1>2, <2>2 DEF SampleTypes
<1> QED
  BY <1>3, <1>4, <1>5, <1>6, <1>7 DEF Types

LEMMA InitRecorded ==
  ASSUME Init
  PROVE  Recorded
<1>1. Types
  BY InitTypes
<1>2. /\ recordQ = <<>> /\ encodeQ = <<>> /\ uiQ = <<>> /\ busy = <<>> /\ mic = "none"
      /\ \A r \in Rec : outcome[r] = "none" /\ spoken[r] = <<>> /\ files[r] = <<>>
      /\ native.file = NoRec
  BY NativeStates DEF Init
<1>3. \A r \in Rec : native.file # r /\ ~Live(r)
  BY <1>2, Constants DEF Live, Begun
<1>4. BegunOnce
  BY <1>2, <1>3 DEF BegunOnce, StartsWait, NoTrace, OnlyBegun
<1>5. ClosedOnce
  BY <1>2 DEF ClosedOnce, MicIsOn, WaitToSend, WaitOnce
<1>6. Owned
  BY <1>2, <1>3 DEF Owned, OwnedBy
<1>7. InSequence /\ Counted /\ Faithful
  BY <1>3 DEF InSequence, Counted, Faithful, ShortReadIsLast, InFile, StreamGoesOn
<1>8. Streams
  BY <1>2 DEF Streams, Stream
<1>9. SentAsAsked /\ SentAsSpoken
  BY <1>2 DEF SentAsAsked, SentAsSpoken
<1> QED
  BY <1>1, <1>4, <1>5, <1>6, <1>7, <1>8, <1>9 DEF Recorded, Clear, Kept

LEMMA RecordedStep ==
  ASSUME Recorded, [Next]_vars
  PROVE  Recorded'
<1>1. Clear /\ Kept /\ Owned /\ InSequence /\ Counted /\ Faithful /\ Streams
  BY DEF Recorded, Clear
<1>2. Clear'
  BY <1>1, KeptStep, OwnedStep, InSequenceStep, CountedStep DEF Clear
<1>3. Faithful'
  BY <1>1, ShortReadIsLastStep, InFileStep, StreamGoesOnStep DEF Faithful
<1>4. Streams'
  BY <1>1, StreamsStep
<1>5. SentAsAsked' /\ SentAsSpoken'
  BY <1>1, SentAsAskedStep, SentAsSpokenStep DEF Recorded
<1> QED
  BY <1>2, <1>3, <1>4, <1>5 DEF Recorded

\* In every state the recordings are begun and dealt with once, one that no
\* other overlaps with has the recorder to itself, and its file, the buffer
\* and the queues hold what was spoken, in order.
THEOREM RecordedAlways == Spec => []Recorded
<1>1. Init => Recorded
  BY InitRecorded
<1>2. Recorded /\ [Next]_vars => Recorded'
  BY RecordedStep
<1> QED
  BY <1>1, <1>2, PTL DEF Spec

LEMMA RecordedImplies ==
  ASSUME Recorded
  PROVE  TypeOK /\ SentAsAsked /\ SentAsSpoken /\ FileIsAStream
<1>1. /\ TaskTypes /\ JavaTypes /\ NativeTypes /\ GhostTypes /\ MicIsOn /\ Streams
      /\ SentAsAsked /\ SentAsSpoken
  BY DEF Recorded, Clear, Kept, Types, ClosedOnce
<1>2. os.lacing = <<>> /\ os.body = <<>>
  BY <1>1 DEF NativeTypes, Rested
<1>3. TypeOK
  BY <1>1, <1>2 DEF TypeOK, JavaTypes, NativeTypes, GhostTypes, MicIsOn
<1>4. FileIsAStream
  <2>1. \A r \in Rec : flaws[r] = {} => Clean(r)
    BY DEF Clean
  <2> QED
    BY <1>1, <2>1 DEF FileIsAStream, Streams, Stream
<1> QED
  BY <1>1, <1>3, <1>4

\* The variables have their types; while the microphone is on its recording
\* goes on, and between calls the ogg stream of audio.c holds nothing.
THEOREM TypeCorrect == Spec => []TypeOK
BY RecordedAlways, RecordedImplies, PTL

\* SendOrDelete: a recording is sent only when it was asked for, to its own
\* chat, and is deleted only when it was short, unless another one overlapped
\* with it or the microphone or a write failed.
THEOREM AskedIsSent == Spec => []SentAsAsked
BY RecordedAlways, RecordedImplies, PTL

\* What is sent is what the microphone gave, from the first sample on and in
\* order, but for less than a frame at its end.
THEOREM SpokenIsSent == Spec => []SentAsSpoken
BY RecordedAlways, RecordedImplies, PTL

\* The file of a recording nothing went wrong with is one Ogg stream.
THEOREM OneStream == Spec => []FileIsAStream
BY RecordedAlways, RecordedImplies, PTL
=============================================================================
