------------------------------ MODULE OpusFile ------------------------------
(***************************************************************************)
(* opusfile.c, as audio.c drives it to play a voice note: opening a file,  *)
(* reading decoded samples, seeking to a sample by bisection over the      *)
(* pages, seeking to a byte, and telling the position.  One seekable link, *)
(* an undamaged file and no read errors; packets, pages and the stream     *)
(* state are OggFraming's.                                                 *)
(*                                                                         *)
(* Every packet decodes to Dur samples.  A sample is known by its place in *)
(* the recording, so that what is heard can be held against what was asked *)
(* for; the codec itself is not modelled, only how long it has been fed    *)
(* when a sample comes out.                                                *)
(***************************************************************************)
EXTENDS OggFraming, GranulePos, SequencesExt

CONSTANTS
  Recipes,    \* files to build: sequences of [size, flush, eos, trim]
  Bases,      \* granule positions of the first sample
  Dur,        \* samples of a packet
  PreSkip,    \* samples to drop at the start of the recording
  Preroll,    \* samples decoded before the first one heard after a seek: 80 ms
  Near,       \* a seek less far forward just decodes on: 90 ms
  Second,     \* a page further from the target than this is bisected again
  CurThresh,  \* OP_CUR_TIME_THRESH: the current position is near the target
  Chunk,      \* OP_CHUNK_SIZE, bytes
  ChunkMax,   \* OP_CHUNK_SIZE_MAX, bytes
  ReadBytes,  \* OP_READ_SIZE, bytes
  Rooms,      \* sizes of the caller's buffer, samples
  Raws,       \* bytes to seek to
  MaxSteps    \* guesses and pages looked at by one search

ASSUME OpusAssumption ==
  /\ Bases \subseteq Gp /\ Dur \in Nat \ {0} /\ PreSkip \in Nat
  /\ Preroll \in Nat /\ Near > Preroll
  /\ Chunk \in Nat \ {0} /\ ChunkMax >= Chunk /\ ReadBytes \in Nat \ {0}
  /\ Rooms \subseteq Nat \ {0} /\ Raws \subseteq Nat /\ MaxSteps \in Nat

VARIABLES
  file,    \* the file: its pages and where they are, and what its links say
  of,      \* OggOpusFile
  search,  \* the locals of op_pcm_seek and op_pcm_seek_page, and where they are
  heard,   \* what the op_read just made gave, and what was known before it
  seek     \* the last seek: what it was asked and its result

vars == <<file, of, search, heard, seek>>

None == -1

Lesser(a, b)  == IF a < b THEN a ELSE b
Greater(a, b) == IF a > b THEN a ELSE b

-----------------------------------------------------------------------------
(* The file.                                                               *)

\* The pages that come out of a stream, and the stream after them.
RECURSIVE Emitted(_, _, _)
Emitted(os, force, pages) ==
  IF PageReady(os, force, Full)
  THEN Emitted(AfterPage(os, Full), force, Append(pages, PageOut(os, Full)))
  ELSE [os |-> os, pages |-> pages]

\* The pages of a recipe: a header on a page of its own, then packet k ends
\* k * Dur samples after base, the last one perhaps earlier.
Begun == Emitted(PacketIn(StreamInit(1), <<[p |-> 0, i |-> 1]>>, FALSE, 0), TRUE, <<>>)

WithPacket(w, k, r, base) ==
  LET os == PacketIn(w.os, [i \in 1..r.size |-> [p |-> k, i |-> i]], r.eos,
                     GranAdd(base, k * Dur - r.trim))
  IN  Emitted(os, r.flush \/ PageoutForces(os), w.pages)

Written(recipe, base) ==
  FoldLeftDomain(LAMBDA w, k : WithPacket(w, k, recipe[k], base), Begun, recipe).pages

\* A page takes one byte for its header.
PageSize(page) == 1 + Len(page.body)

FileOf(recipe, base) ==
  LET pages == Written(recipe, base)
      at == FoldLeft(LAMBDA ends, page : Append(ends, Last(ends) + PageSize(page)),
                     <<0>>, pages)
  IN  [pages |-> pages, at |-> at,
       base |-> base,                \* pcm_start
       data |-> at[2],               \* data_offset
       last |-> at[Len(pages)],      \* end_offset: where the last page begins
       end  |-> at[Len(pages) + 1],  \* the size of the file
       final |-> pages[Len(pages)].granulepos]     \* pcm_end

Built == {FileOf(recipe, base) : recipe \in Recipes, base \in Bases}

\* op_find_final_pcm_offset: samples of the link after the pre-skip.
Total(f) == GranDiff(f.final, f.base) - PreSkip

-----------------------------------------------------------------------------
(* Bytes into pages.                                                       *)

\* op_seek_helper
SeekBytes(o, to) ==
  IF to = o.offset THEN o ELSE [o EXCEPT !.offset = to, !.filled = to]

\* op_get_next_page: the first page that begins at the offset or later, before
\* the boundary, and is buffered or ends there; reads go up to the boundary in
\* pieces of ReadBytes.  Page 0 when there is none.
NextPage(o, boundary) ==
  LET limit == Greater(o.filled, boundary)
      later == {j \in 1..Len(file.pages) : file.at[j] >= o.offset}
      j     == Min(later)
      ends  == file.at[j + 1]
      reads == (ends - o.filled + ReadBytes - 1) \div ReadBytes
  IN  IF o.offset >= boundary THEN [page |-> 0, of |-> o]
      ELSE IF later = {} \/ file.at[j] >= boundary \/ ends > limit
      THEN [page |-> 0,
            of |-> [o EXCEPT !.filled = limit,
                             !.offset = IF later = {} THEN limit
                                        ELSE Lesser(file.at[j], limit)]]
      ELSE [page |-> j,
            of |-> [o EXCEPT !.offset = ends,
                             !.filled = IF ends <= @ THEN @
                                        ELSE Lesser(boundary, @ + reads * ReadBytes)]]

-----------------------------------------------------------------------------
(* Pages into packets with granule positions.                              *)

\* op_collect_audio_packets: every whole packet of the stream state.  To
\* op_get_packet_duration a header is 48 frames, too long a packet: ignored.
RECURSIVE Collected(_, _)
Collected(os, ops) ==
  IF ~PacketWaits(os) THEN [os |-> os, ops |-> ops]
  ELSE LET p == FirstPacket(os)
           op == [p |-> p.data[1].p, gp |-> p.granulepos, eos |-> p.eos]
       IN  Collected(AfterPacket(os), IF op.p = 0 THEN ops ELSE Append(ops, op))

\* The packets of the last page, stamped forwards from prev and cut off at the
\* position of the page.
StampedToEnd(ops, prev, pageGp) ==
  [i \in 1..Len(ops) |->
    LET gp   == GranAdd(prev, i * Dur)
        cut  == gp = NoGp \/ GranBefore(pageGp, gp)
    IN  [ops[i] EXCEPT !.gp = IF cut THEN pageGp ELSE gp, !.eos = @ \/ cut]]

\* The packets of another page, stamped backwards from its position.
StampedBack(ops, pageGp) ==
  [i \in 1..Len(ops) |->
    LET start == GranAdd(pageGp, -(Len(ops) - i + 1) * Dur)
    IN  [ops[i] EXCEPT !.gp = GranAdd(IF start = NoGp THEN 0 ELSE start, Dur)]]

\* op_decode_clear
Cleared(o) ==
  [o EXCEPT !.ops = <<>>, !.next = 1, !.size = 0, !.prev = NoGp, !.ready = "opened"]

\* op_make_decode_ready: the decoder starts afresh.
MadeReady(o) ==
  IF o.ready = "initset" THEN o
  ELSE [o EXCEPT !.ready = "initset", !.fedTo = None]

\* op_find_initial_pcm_offset, from the first page of data on: the packets of
\* the first page that completes one; file.base is what it finds pcm_start to be.
RECURSIVE Opened(_)
Opened(o) ==
  LET next == NextPage(o, file.end)
      in   == Collected(PageIn(next.of.os, file.pages[next.page]), <<>>)
      n    == Len(in.ops)
      gp   == in.ops[n].gp
      read == [next.of EXCEPT !.os = in.os]
  IN  IF n = 0 THEN Opened(read)
      ELSE MadeReady(
             [read EXCEPT !.prev = file.base, !.discard = PreSkip, !.next = 1,
                          !.ops = IF in.ops[n].eos
                                  THEN StampedToEnd(in.ops, file.base, gp)
                                  ELSE [i \in 1..n |->
                                         [in.ops[i] EXCEPT !.gp = GranAdd(file.base, i * Dur)]]])

\* The packets of a page are given their positions, forwards from those before
\* it when the page ends the stream too early for them, else backwards.
Placed(ready, in) ==
  LET n       == Len(in.ops)
      read    == [ready EXCEPT !.os = in.os, !.ops = <<>>, !.next = 1]
      gp      == in.ops[n].gp
      eos     == in.ops[n].eos
      raw     == ready.prev = NoGp       \* the first page after a raw seek
      back    == GranAdd(gp, -n * Dur)
      began   == IF back = NoGp THEN file.base ELSE back
      into    == GranDiff(began, file.base)
      prev    == IF raw THEN began ELSE ready.prev
      discard == IF ~raw THEN ready.discard
                 ELSE IF into >= 0 /\ into <= Greater(0, PreSkip - Preroll)
                 THEN PreSkip - into ELSE Preroll
      left    == GranDiff(gp, prev)
  IN  IF n = 0 \/ (raw /\ eos) THEN read
      ELSE IF eos /\ HasDiff(gp, prev) /\ left < n * Dur
      THEN [read EXCEPT !.ops = IF left < 0 THEN <<>> ELSE StampedToEnd(in.ops, prev, gp),
                        !.prev = prev, !.discard = discard]
      ELSE [read EXCEPT !.ops = StampedBack(in.ops, gp),
                        !.prev = IF back = NoGp THEN 0 ELSE back,
                        !.discard = discard]

\* One page, submitted by op_fetch_and_process_page.
Submitted(o, page) ==
  LET atStart == file.at[page] <= file.data
      set     == IF o.ready # "opened" THEN o
                 ELSE [o EXCEPT !.ready = "streamset", !.os = StreamReset(1),
                                !.prev = IF atStart THEN file.base ELSE @,
                                !.discard = IF atStart THEN PreSkip ELSE @]
      ready   == MadeReady(set)
  IN  Placed(ready, Collected(PageIn(ready.os, file.pages[page]), <<>>))

\* op_fetch_and_process_page: pages until one gives packets, the first of them
\* at hand already unless it is page 0.
RECURSIVE Fetched(_, _)
FetchedOn(in) ==
  IF in.ops # <<>> THEN [ret |-> "packets", of |-> in] ELSE Fetched(in, 0)

Fetched(o, page) ==
  LET next == IF page # 0 THEN [page |-> page, of |-> o] ELSE NextPage(o, file.end)
  IN  IF next.page = 0 THEN [ret |-> "eof", of |-> next.of]
      ELSE FetchedOn(Submitted(next.of, next.page))

-----------------------------------------------------------------------------
(* Reading and telling.                                                    *)

Buffered(o) == Greater(o.size - o.pos, 0)

\* Samples wait in the buffer although the position is past them: a short seek
\* forward leaves them there.
Leftover(o) == Buffered(o) > 0 /\ o.discard > 0

\* Mutant: the samples still in the buffer count as read.
PcmTellDecoded(o) ==
  LET gp == GranAdd(o.prev, o.discard)
      at == IF gp = NoGp \/ GranBefore(file.final, gp) THEN file.final ELSE gp
  IN  IF o.prev = NoGp \/ ~GranBefore(file.base, at) THEN 0
      ELSE Greater(GranDiff(at, file.base) - PreSkip, 0)

\* op_pcm_tell
PcmTell(o) ==
  LET gp == GranAdd(GranAdd(o.prev, -Buffered(o)), o.discard)
      at == IF gp = NoGp \/ GranBefore(file.final, gp) THEN file.final ELSE gp
  IN  IF o.prev = NoGp \/ ~GranBefore(file.base, at) THEN 0
      ELSE Greater(GranDiff(at, file.base) - PreSkip, 0)

\* op_read_native decodes a packet into the buffer of the file: the end is cut
\* off the last one, and what is to be discarded is.  fedFrom and fedTo are the
\* samples the decoder was fed without a break.
Decoded(o) ==
  LET p     == o.ops[o.next]
      at    == (p.p - 1) * Dur
      left  == IF GranBefore(o.prev, p.gp) THEN GranDiff(p.gp, o.prev) ELSE 0
      size  == IF p.eos THEN Lesser(left, Dur) ELSE Dur
      skip  == Lesser(size, o.discard)
  IN  [o EXCEPT !.next = @ + 1, !.prev = p.gp, !.discard = @ - skip,
                !.buf = at, !.pos = skip, !.size = size,
                !.fedFrom = IF o.fedTo = at THEN @ ELSE at,
                !.fedTo = at + Dur]

\* op_read_native until samples are buffered or the file has ended.
RECURSIVE Filled(_)
FilledFrom(f) == IF f.ret = "eof" THEN f.of ELSE Filled(f.of)

Filled(o) ==
  IF o.size > o.pos THEN o
  ELSE IF o.ready = "initset" /\ o.next <= Len(o.ops) THEN Filled(Decoded(o))
  ELSE FilledFrom(Fetched(o, 0))

-----------------------------------------------------------------------------
Idle == [at |-> "idle"]

Nothing == [n |-> None]

Fresh == [ready |-> "streamset", offset |-> 0, filled |-> 0, os |-> StreamReset(1),
          ops |-> <<>>, next |-> 1, prev |-> NoGp, discard |-> 0,
          buf |-> 0, pos |-> 0, size |-> 0, fedFrom |-> 0, fedTo |-> None]

\* The stream state once the page of the header has been taken.
Headed == Collected(PageIn(StreamReset(1), file.pages[1]), <<>>).os

Init ==
  /\ file \in Built
  /\ of = Fresh
  /\ search = [at |-> "closed"]
  /\ heard = Nothing
  /\ seek = [to |-> None, ret |-> "none", cold |-> FALSE]

\* op_open_file: the headers are read and the first packets are at hand.
Open ==
  /\ search.at = "closed"
  /\ of' = Opened([of EXCEPT !.os = Headed, !.offset = file.data,
                             !.filled = file.data])
  /\ search' = Idle
  /\ heard' = Nothing
  /\ UNCHANGED <<file, seek>>

Resting == search.at = "idle"

\* op_read with room for some samples.
Read(room) ==
  /\ Resting
  /\ \E o \in {Filled(of)} :
       LET n == Lesser(room, Buffered(o))
       IN /\ of' = [o EXCEPT !.pos = @ + n]
          /\ heard' = [n |-> n, at |-> o.buf + o.pos, fedFrom |-> o.fedFrom,
                       told |-> PcmTell(of), leftover |-> Leftover(of),
                       asked |-> IF seek.ret = "ok" THEN seek.to ELSE None]
  /\ seek' = [to |-> None, ret |-> "none", cold |-> seek.cold]
  /\ UNCHANGED <<file, search>>

\* op_raw_seek
RawSeek(pos) ==
  /\ Resting
  /\ \E f \in {Fetched(SeekBytes(Cleared(of), pos), 0)} :
         of' = IF f.ret = "eof"
               THEN [Cleared(f.of) EXCEPT !.prev = file.final, !.discard = 0]
               ELSE f.of
  /\ seek' = [to |-> None, ret |-> "none", cold |-> FALSE]
  /\ heard' = Nothing
  /\ UNCHANGED <<file, search>>

-----------------------------------------------------------------------------
(* op_pcm_seek                                                             *)

\* op_get_granulepos: the position asked, counted from pcm_start.
Asked(to) == to + PreSkip

\* How far the sample asked is ahead of the next one to be returned.
Ahead(to) == Asked(to) - GranDiff(GranAdd(of.prev, -Buffered(of)), file.base)

\* Mutant: a target a little behind is near as well.
IsNearEither(to) ==
  of.ready = "initset" /\ of.prev # NoGp /\ Ahead(to) < Near

IsNear(to) ==
  /\ of.ready = "initset"
  /\ of.prev # NoGp
  /\ Ahead(to) >= 0 /\ Ahead(to) < Near

\* An offset past the end is refused.
SeekRefused(to) ==
  /\ Resting
  /\ to >= Total(file)
  /\ seek' = [seek EXCEPT !.to = to, !.ret = "einval"]
  /\ heard' = Nothing
  /\ UNCHANGED <<file, of, search>>

\* A small step forward: the samples up to there are discarded.
SeekNear(to) ==
  /\ Resting
  /\ to < Total(file)
  /\ IsNear(to)
  /\ of' = [of EXCEPT !.discard = Ahead(to)]
  /\ seek' = [to |-> to, ret |-> "ok", cold |-> seek.cold \/ Ahead(to) < of.discard]
  /\ heard' = Nothing
  /\ UNCHANGED <<file, search>>

\* The position op_pcm_seek_page looks for: 80 ms before the one asked.
Target(to) ==
  LET gp == GranAdd(GranAdd(file.base, Asked(to)), -Preroll)
  IN  IF gp = NoGp \/ GranBefore(gp, file.base) THEN file.base ELSE gp

LastGp == of.ops[Len(of.ops)].gp

\* The packets at hand may narrow the search.
Informs ==
  /\ of.ready = "initset"
  /\ of.ops # <<>>
  /\ of.offset <= file.last
  /\ GranBefore(file.base, LastGp) /\ GranBefore(LastGp, file.final)

\* Where op_pcm_seek_page looks for the page: between the bytes begin and end,
\* which have the positions lowGp and highGp; best is where the last page seen
\* that ends before the target ends.
Between(target) ==
  LET whole == [begin |-> file.data, end |-> file.last, best |-> file.data,
                bestGp |-> file.base, lowGp |-> file.base, highGp |-> file.final]
      gap   == GranDiff(LastGp, target)
      half  == (file.last - file.data) \div 2
      done  == of.offset - file.data
  IN  IF GranBefore(target, GranAdd(file.base, PreSkip))
      THEN [whole EXCEPT !.end = file.data]
      ELSE IF ~Informs THEN whole
      ELSE IF gap < 0 /\ (done >= half \/ gap > -CurThresh)
      THEN [whole EXCEPT !.begin = of.offset, !.best = of.offset,
                         !.bestGp = LastGp, !.lowGp = LastGp]
      ELSE IF gap >= 0 /\ (done <= half \/ gap < CurThresh)
      THEN [whole EXCEPT !.end = of.offset, !.highGp = LastGp]
      ELSE whole

\* The packet of the target is at hand: the packets of this page are used once
\* more.  The position tried is the one after the first packet.
AfterFirst == GranAdd(of.ops[1].gp, Dur)

\* Mutant: the target may be before the packets at hand.
IsAtHandLate(target) ==
  Informs /\ GranDiff(LastGp, target) >= 0 /\ ~GranBefore(target, GranAdd(file.base, PreSkip))

IsAtHand(target) ==
  /\ ~GranBefore(target, GranAdd(file.base, PreSkip))
  /\ Informs
  /\ GranDiff(LastGp, target) >= 0
  /\ ~GranBefore(target, AfterFirst)

SeekAtHand(to) ==
  /\ Resting
  /\ to < Total(file)
  /\ ~IsNear(to)
  /\ IsAtHand(Target(to))
  /\ of' = MadeReady([of EXCEPT !.next = 1, !.size = 0, !.prev = AfterFirst,
                                !.ready = "streamset"])
  /\ search' = [at |-> "skip", to |-> to]
  /\ seek' = [to |-> to, ret |-> "none", cold |-> FALSE]
  /\ heard' = Nothing
  /\ UNCHANGED file

\* The search begins.
SeekFar(to) ==
  /\ Resting
  /\ to < Total(file)
  /\ ~IsNear(to)
  /\ ~IsAtHand(Target(to))
  /\ LET r == Between(Target(to))
         w == r.end - r.begin
     IN  search' = r @@ [at |-> "bisect", to |-> to, boundary |-> r.end,
                         page |-> 0, steps |-> 0, force |-> FALSE, d0 |-> w, d1 |-> w, d2 |-> w,
                         bisect |-> 0, chunk |-> Chunk, nextBoundary |-> 0]
  /\ of' = Cleared(of)
  /\ seek' = [to |-> to, ret |-> "none", cold |-> FALSE]
  /\ heard' = Nothing
  /\ UNCHANGED file

\* op_rescale64: x of from, as a share of to.
Rescaled(x, from, to) ==
  IF x >= from THEN to ELSE IF x <= 0 THEN 0 ELSE (x * to) \div from

\* The outer loop: a guess at where the page is, from the positions at both
\* ends, or the middle.
Guess(s) ==
  LET w      == s.end - s.begin
      middle == s.begin + w \div 2
      share  == s.begin - Chunk
                + Rescaled(GranDiff(Target(s.to), s.lowGp), GranDiff(s.highGp, s.lowGp), w)
      guess  == IF s.force THEN middle ELSE share
  IN  IF w < Chunk \/ guess - Chunk < s.begin THEN s.begin ELSE guess

Bisect ==
  /\ search.at = "bisect"
  /\ search.begin < search.end
  /\ LET s == search
         w == s.end - s.begin
         g == Guess(s)
     IN  /\ search' = [s EXCEPT !.at = "scan", !.steps = @ + 1, !.bisect = g, !.chunk = Chunk,
                         !.nextBoundary = s.boundary,
                         !.page = IF g = of.offset THEN @ ELSE 0,
                         !.force = IF w < Chunk THEN @ ELSE FALSE,
                         !.d0 = IF w < Chunk THEN @ ELSE s.d1 \div 2,
                         !.d1 = IF w < Chunk THEN @ ELSE s.d2 \div 2,
                         !.d2 = IF w < Chunk THEN @ ELSE w \div 2]
         /\ of' = SeekBytes(of, g)
  /\ heard' = Nothing
  /\ UNCHANGED <<file, seek>>

\* The inner loop has found no page before the boundary: the interval is done,
\* or the search begins a chunk earlier.
ScanNothing(s, o) ==
  IF s.bisect <= s.begin + 1
  THEN /\ search' = [s EXCEPT !.end = s.begin, !.page = 0, !.at = "bisect"]
       /\ of' = o
  ELSE LET to == Greater(s.bisect - s.chunk, s.begin)
       IN  /\ search' = [s EXCEPT !.bisect = to, !.page = 0, !.steps = @ + 1,
                                  !.chunk = Lesser(2 * @, ChunkMax),
                                  !.boundary = s.nextBoundary]
           /\ of' = SeekBytes(o, to)

\* A page that ends before the target, at the byte after: go on from there, or
\* guess again if it is far from the target.
ScanBefore(s, gp, after) ==
  LET here == [s EXCEPT !.begin = after]
      sane == ~GranBefore(gp, s.lowGp) /\ ~GranBefore(s.highGp, gp)
      best == [here EXCEPT !.best = after, !.bestGp = gp, !.lowGp = gp]
  IN  IF ~sane THEN [here EXCEPT !.at = "bisect"]
      ELSE IF GranDiff(Target(s.to), gp) > Second THEN [best EXCEPT !.at = "bisect"]
      ELSE [best EXCEPT !.bisect = after,
                        !.at = IF after < s.end THEN "scan" ELSE "bisect"]

\* Mutant: the interval is not cut off.
ScanAfterKept(s, gp) ==
  IF s.bisect <= s.begin + 1 THEN [s EXCEPT !.end = s.begin, !.at = "bisect"]
  ELSE [s EXCEPT !.at = "bisect"]

\* A page that ends after it: the interval ends where this scan began.
ScanAfter(s, gp) ==
  IF s.bisect <= s.begin + 1 THEN [s EXCEPT !.end = s.begin, !.at = "bisect"]
  ELSE [s EXCEPT !.end = s.bisect, !.boundary = s.nextBoundary,
                 !.force = s.bisect - s.begin > s.d0 * 2, !.at = "bisect",
                 !.highGp = IF GranBefore(gp, @) /\ ~GranBefore(gp, s.lowGp)
                            THEN gp ELSE @]

Scan ==
  /\ search.at = "scan"
  /\ LET n  == NextPage(of, search.boundary)
         s  == [search EXCEPT !.steps = @ + 1, !.page = n.page,
                              !.nextBoundary = Lesser(@, file.at[n.page])]
         gp == file.pages[n.page].granulepos
     IN  IF n.page = 0 THEN ScanNothing(search, n.of)
         ELSE /\ of' = n.of
              /\ search' = IF gp = NoGp THEN s
                           ELSE IF GranBefore(gp, Target(s.to))
                           THEN ScanBefore(s, gp, n.of.offset)
                           ELSE ScanAfter(s, gp)
  /\ heard' = Nothing
  /\ UNCHANGED <<file, seek>>

\* The page is found: the packets after it are fetched, and must begin no later
\* than the target.
Land ==
  /\ search.at = "bisect"
  /\ search.begin >= search.end
  /\ LET s    == search
         here == s.page # 0 /\ file.at[s.page] = s.best
         o    == IF here THEN of ELSE SeekBytes(of, s.best)
         next == [o EXCEPT !.ready = "streamset", !.os = StreamReset(1),
                           !.prev = s.bestGp]
     IN  \E f \in {Fetched(next, IF here THEN s.page ELSE 0)} :
           LET bad == f.ret = "eof" \/ GranBefore(Target(s.to), f.of.prev)
           IN  /\ of' = f.of
               /\ search' = IF bad THEN Idle ELSE [at |-> "skip", to |-> s.to]
               /\ seek' = IF bad THEN [seek EXCEPT !.ret = "badlink", !.cold = TRUE]
                          ELSE seek
  /\ heard' = Nothing
  /\ UNCHANGED file

\* Mutant: the 80 ms before the target are skipped too.
SkipToTarget(to) == IF Asked(to) <= PreSkip THEN 0 ELSE Asked(to)

\* Packets are skipped up to the one with the sample 80 ms before the one
\* asked; then the samples up to that are to be discarded.
SkipTo(to) ==
  IF Asked(to) <= PreSkip THEN 0 ELSE Greater(Asked(to) - Preroll, 0)

Skip ==
  /\ search.at = "skip"
  /\ LET to   == search.to
         past == {i \in of.next..Len(of.ops) :
                    /\ HasDiff(of.ops[i].gp, file.base)
                    /\ GranDiff(of.ops[i].gp, file.base) > SkipTo(to)}
         next == IF past = {} THEN Len(of.ops) + 1 ELSE Min(past)
         prev == IF next = of.next THEN of.prev ELSE of.ops[next - 1].gp
         o    == [of EXCEPT !.next = next, !.prev = prev]
         at   == GranDiff(prev, file.base)
     IN  \/ /\ past # {}
            /\ search' = Idle
            /\ IF at > SkipTo(to)
               THEN /\ of' = o
                    /\ seek' = [seek EXCEPT !.ret = "badlink", !.cold = TRUE]
               ELSE /\ of' = [o EXCEPT !.discard = Asked(to) - at]
                    /\ seek' = [seek EXCEPT !.ret = "ok"]
         \/ /\ past = {}
            /\ \E f \in {Fetched(o, 0)} :
                 /\ of' = f.of
                 /\ IF f.ret = "eof"
                    THEN /\ search' = Idle
                         /\ seek' = [seek EXCEPT !.ret = "badlink", !.cold = TRUE]
                    ELSE UNCHANGED <<search, seek>>
  /\ heard' = Nothing
  /\ UNCHANGED file

Next ==
  \/ Open
  \/ \E room \in Rooms : Read(room)
  \/ \E pos \in Raws \intersect 0..file.end : RawSeek(pos)
  \/ \E to \in 0..Total(file) :
       SeekRefused(to) \/ SeekNear(to) \/ SeekAtHand(to) \/ SeekFar(to)
  \/ Bisect \/ Scan \/ Land \/ Skip

Spec == Init /\ [][Next]_vars

-----------------------------------------------------------------------------
(* What a player is owed.                                                  *)

TypeOK ==
  /\ of.ready \in {"opened", "streamset", "initset"}
  /\ of.offset \in 0..file.end /\ of.filled \in of.offset..file.end
  /\ of.prev \in Gp \union {NoGp}
  /\ of.discard \in Nat /\ of.next \in 1..(Len(of.ops) + 1)
  /\ \A i \in 1..Len(of.ops) : of.ops[i].gp \in Gp
  /\ search.at \in {"closed", "idle", "bisect", "scan", "skip"}
  /\ seek.ret \in {"none", "ok", "einval", "badlink"}

\* The sample op_read gives is the one op_pcm_tell named, whatever was read
\* and sought before and wherever the packets lie on the pages, and it gives
\* none only at the end; but for the samples a near seek leaves behind.
ReadsWhatItTells ==
  /\ heard.n > 0 /\ ~heard.leftover => heard.at - PreSkip = heard.told
  /\ heard.n = 0 => heard.told = Total(file)

\* Packet k begins on a page after another packet and goes on on the next.
Straddles(k) ==
  \E j \in 1..(Len(file.pages) - 1) :
    LET on == {b.p : b \in ToSet(file.pages[j].body)}
    IN  /\ {k - 1, k} \subseteq on
        /\ k \in {b.p : b \in ToSet(file.pages[j + 1].body)}

PacketAt(gp) == GranDiff(gp, file.base) \div Dur + 1

\* op_pcm_seek lands on the sample asked for, and finds a link bad only when
\* the packet it has to begin with lost its beginning: the search takes up
\* after the last page that ends before the target.
SeekLands ==
  /\ Resting /\ seek.ret = "ok" => PcmTell(of) = seek.to
  /\ seek.ret = "badlink" => Straddles(PacketAt(Target(seek.to)))

\* After a seek the decoder has had 80 ms of sound, without a break, before the
\* first sample that is heard, unless a near seek gave up what was still to
\* be discarded or the seek failed.
DecoderIsWarm ==
  heard.n > 0 /\ heard.fedFrom # 0 /\ ~seek.cold => heard.at - heard.fedFrom >= Preroll

\* The search narrows its interval until it is empty, however the sizes of the
\* pages mislead the guesses.
SearchEnds == search.at \in {"bisect", "scan"} => search.steps <= MaxSteps

\* opusfile.h of op_pcm_seek: "decoding will begin at exactly the requested
\* position".
DecodingBeginsThere ==
  heard.n > 0 /\ heard.asked # None => heard.at - PreSkip = heard.asked
=============================================================================
