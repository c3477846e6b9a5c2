----------------------------- MODULE OggFraming -----------------------------
(***************************************************************************)
(* libogg's framing (app/jni/opus/ogg/framing.c) as operators over records:*)
(* the logical stream that cuts packets into segments and pages and puts   *)
(* them together again, and the sync layer that finds pages in bytes.  The *)
(* recorder writes voice notes with it and opusfile reads them back.       *)
(*                                                                         *)
(* A packet's data is a sequence of bytes, and a byte is whatever a client *)
(* makes it.  What was returned to the client (body_returned,              *)
(* lacing_returned) is dropped at once, not at the next call, and storage  *)
(* grows without failing.  The checksum is the page itself: two different  *)
(* pages never have the same one.                                          *)
(***************************************************************************)
EXTENDS Integers, Sequences

CONSTANTS
  Full,     \* the lacing value of a segment its packet goes on after: 255
  MaxVals,  \* segments on one page: 255
  MinDone   \* packets a page over its fill has before it may end: 4

ASSUME FramingAssumption ==
  /\ Full \in Nat \ {0}
  /\ MaxVals \in Nat \ {0}
  /\ MinDone \in Nat \ {0}

\* ogg_stream_init: everything zero.  The same record serves a writer and a
\* reader; packet counts the segments of whole packets (lacing_packet).
StreamInit(serialno) ==
  [body |-> <<>>, lacing |-> <<>>, packet |-> 0, bos |-> FALSE, eos |-> FALSE,
   pageno |-> 0, packetno |-> 0, granulepos |-> 0, serialno |-> serialno]

\* ogg_stream_reset_serialno: page -1 is one no page is compared with.
StreamReset(serialno) == [StreamInit(serialno) EXCEPT !.pageno = -1]

\* A lacing value with the flags kept in its upper bits: 0x100 first (the
\* packet begins here, on a reader: the stream begins), 0x200, 0x400.
Segment(val, first, granule) ==
  [val |-> val, first |-> first, eos |-> FALSE, hole |-> FALSE,
   granule |-> granule]

Hole == [Segment(0, FALSE, -1) EXCEPT !.hole = TRUE]

\* The bytes that the first n segments stand for.
Bytes(lacing, n) ==
  LET sum[i \in 0..n] == IF i = 0 THEN 0 ELSE sum[i - 1] + lacing[i].val
  IN  sum[n]

\* The first of the segments from..to that ends a packet, or to if none does.
PacketEnd(lacing, from, to) ==
  IF \E i \in from..to : lacing[i].val < Full
  THEN CHOOSE i \in from..to :
         /\ lacing[i].val < Full
         /\ \A j \in from..(i - 1) : lacing[j].val = Full
  ELSE to

-----------------------------------------------------------------------------
(* Packets into pages.                                                     *)

\* The segments of a packet of n bytes: full ones, then the rest, which may
\* be empty; the full ones still carry the granule position before it.
Laced(n, granulepos, before) ==
  LET vals == n \div Full + 1
  IN  [i \in 1..vals |->
        IF i < vals THEN Segment(Full, i = 1, before)
                    ELSE Segment(n % Full, i = 1, granulepos)]

\* ogg_stream_packetin
PacketIn(os, data, eos, granulepos) ==
  [os EXCEPT
    !.body = @ \o data,
    !.lacing = @ \o Laced(Len(data), granulepos, os.granulepos),
    !.granulepos = granulepos,
    !.packetno = @ + 1,
    !.eos = @ \/ eos]

\* Packets that n segments complete, if the last of them completes one.
JustDone(lacing, n) ==
  IF n = 0 \/ (n > 0 /\ lacing[n].val = Full) THEN 0
  ELSE LET done[i \in 0..n] ==
             IF i = 0 THEN 0
             ELSE done[i - 1] + (IF lacing[i].val < Full THEN 1 ELSE 0)
       IN  done[n]

\* Segments beyond which a page of nominal size nfill does not go.
NominalEnd(lacing, nfill) ==
  {n \in 0..(Len(lacing) - 1) :
     Bytes(lacing, n) > nfill /\ JustDone(lacing, n) >= MinDone}

\* How many segments the next page takes: the header packet alone on the
\* first page, else up to the nominal end or as many as fit.
PageVals(os, nfill) ==
  LET maxvals == IF Len(os.lacing) > MaxVals THEN MaxVals ELSE Len(os.lacing)
      ends    == {n \in NominalEnd(os.lacing, nfill) : n < maxvals}
  IN  IF ~os.bos THEN PacketEnd(os.lacing, 1, maxvals)
      ELSE IF ends = {} THEN maxvals
      ELSE CHOOSE n \in ends : \A m \in ends : n <= m

\* The granule position of a page: the one of the last packet it completes.
PageGranule(os, vals) ==
  LET ends == {i \in 1..vals : os.lacing[i].val < Full}
  IN  IF ~os.bos THEN 0
      ELSE IF ends = {} THEN -1
      ELSE os.lacing[CHOOSE i \in ends : \A j \in ends : j <= i].granule

\* The page of the first vals segments.
PageOf(os, vals) ==
  [continued |-> ~os.lacing[1].first,
   bos |-> ~os.bos,
   eos |-> os.eos /\ Len(os.lacing) = vals,
   granulepos |-> PageGranule(os, vals),
   serialno |-> os.serialno,
   pageno |-> IF os.pageno = -1 THEN 0 ELSE os.pageno,
   segments |-> [i \in 1..vals |-> os.lacing[i].val],
   body |-> SubSeq(os.body, 1, Bytes(os.lacing, vals))]

\* ogg_stream_flush_i: whether a page comes out, and what is left.
PageReady(os, force, nfill) ==
  /\ os.lacing # <<>>
  /\ \/ force
     \/ os.bos /\ ( \/ PageVals(os, nfill) = MaxVals
                    \/ PageVals(os, nfill) \in NominalEnd(os.lacing, nfill) )

PageOut(os, nfill) == PageOf(os, PageVals(os, nfill))

AfterPage(os, nfill) ==
  LET vals == PageVals(os, nfill)
  IN  [os EXCEPT
        !.bos = TRUE,
        !.pageno = (IF @ = -1 THEN 0 ELSE @) + 1,
        !.lacing = SubSeq(@, vals + 1, Len(@)),
        !.body = SubSeq(@, Bytes(os.lacing, vals) + 1, Len(@))]

\* ogg_stream_pageout_fill forces a page at the end and at the beginning.
PageoutForces(os) == os.lacing # <<>> /\ (os.eos \/ ~os.bos)

\* ogg_page_packets: packets that end on the page.
PagePackets(page) ==
  LET done[i \in 0..Len(page.segments)] ==
        IF i = 0 THEN 0
        ELSE done[i - 1] + (IF page.segments[i] < Full THEN 1 ELSE 0)
  IN  done[Len(page.segments)]

-----------------------------------------------------------------------------
(* Pages into packets.                                                     *)

\* Mutant: a lost page leaves no hole.
ResumedQuietly(os, page) ==
  IF page.pageno = os.pageno THEN os
  ELSE [os EXCEPT !.lacing = SubSeq(@, 1, os.packet),
                  !.body = SubSeq(@, 1, Bytes(os.lacing, os.packet))]

\* The state a page finds: after one that was lost, the packet begun is
\* taken back and a hole stands in its place.
Resumed(os, page) ==
  LET partial == Bytes(os.lacing, Len(os.lacing)) - Bytes(os.lacing, os.packet)
      whole == [os EXCEPT !.lacing = SubSeq(@, 1, os.packet),
                          !.body = SubSeq(@, 1, Len(@) - partial)]
  IN  IF page.pageno = os.pageno THEN os
      ELSE IF os.pageno = -1 THEN whole
      ELSE [whole EXCEPT !.lacing = Append(@, Hole), !.packet = @ + 1]

\* Mutant: the rest of a packet whose beginning is lost is taken for a packet.
OrphansKept(os, page) == 0

\* Segments at the head of a continued page whose packet began on a page
\* that is not here.
Orphans(os, page) ==
  LET all == [i \in 1..Len(page.segments) |-> [val |-> page.segments[i]]]
  IN  IF /\ page.continued
         /\ os.lacing = <<>> \/ os.lacing[Len(os.lacing)] = Hole
      THEN PacketEnd(all, 1, Len(all))
      ELSE 0

\* ogg_stream_pagein, of a page of this stream: the segments are appended,
\* those of packets that end are whole, and the last of them has the page's
\* granule position.
PageIn(os, page) ==
  LET at     == Resumed(os, page)
      skip   == Orphans(at, page)
      n      == Len(page.segments)
      ends   == {i \in (skip + 1)..n : page.segments[i] < Full}
      last   == IF ends = {} THEN 0 ELSE CHOOSE i \in ends : \A j \in ends : j <= i
      new    == [i \in 1..(n - skip) |->
                  Segment(page.segments[skip + i],
                          page.bos /\ skip = 0 /\ i = 1,
                          IF skip + i = last THEN page.granulepos ELSE -1)]
      lacing == at.lacing \o new
      size   == Bytes([i \in 1..skip |-> [val |-> page.segments[i]]], skip)
  IN  [at EXCEPT
        !.body = @ \o SubSeq(page.body, size + 1, Len(page.body)),
        !.lacing = IF page.eos /\ lacing # <<>>
                   THEN [lacing EXCEPT ![Len(lacing)].eos = TRUE]
                   ELSE lacing,
        !.packet = IF last = 0 THEN @ ELSE Len(at.lacing) + last - skip,
        !.eos = @ \/ page.eos,
        !.pageno = page.pageno + 1]

\* ogg_stream_packetout: 0 when no packet is whole, -1 for a hole, else 1.
PacketWaits(os) == os.packet > 0
HoleWaits(os)   == PacketWaits(os) /\ os.lacing[1].hole

FirstPacketEnd(os) == PacketEnd(os.lacing, 1, Len(os.lacing))

FirstPacket(os) ==
  LET n == FirstPacketEnd(os)
  IN  [data |-> SubSeq(os.body, 1, Bytes(os.lacing, n)),
       bos |-> os.lacing[1].first,
       eos |-> \E i \in 1..n : os.lacing[i].eos,
       granulepos |-> os.lacing[n].granule]

\* Mutant: the bytes of the packet stay in front of the next one's.
AfterPacketKept(os) ==
  LET n == IF HoleWaits(os) THEN 1 ELSE FirstPacketEnd(os)
  IN  [os EXCEPT !.lacing = SubSeq(@, n + 1, Len(@)),
                 !.packet = @ - n,
                 !.packetno = @ + 1]

AfterPacket(os) ==
  LET n == IF HoleWaits(os) THEN 1 ELSE FirstPacketEnd(os)
  IN  [os EXCEPT !.body = SubSeq(@, Bytes(os.lacing, n) + 1, Len(@)),
                 !.lacing = SubSeq(@, n + 1, Len(@)),
                 !.packet = @ - n,
                 !.packetno = @ + 1]
=============================================================================
