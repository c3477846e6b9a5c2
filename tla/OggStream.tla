----------------------------- MODULE OggStream ------------------------------
(***************************************************************************)
(* A stream of packets written to a file with ogg_stream_packetin and      *)
(* ogg_stream_pageout / _flush (audio.c), a file that is damaged, cut or   *)
(* read from the middle, and a reader that finds the pages again           *)
(* (ogg_sync_pageseek, driven by op_get_next_page of opusfile.c) and takes *)
(* the packets out.                                                        *)
(*                                                                         *)
(* The file is a sequence of items: the fixed header of a page with its    *)
(* capture pattern, its segment table, and the bytes of its body.  The     *)
(* first byte of a packet looks like the O of the capture pattern, as it   *)
(* does in OpusHead and OpusTags.                                          *)
(***************************************************************************)
EXTENDS OggFraming, FiniteSets

CONSTANTS
  Fill,        \* nominal page size, bytes: 4096
  Sizes,       \* sizes of the packets written
  MaxPackets,  \* bound: packets of the stream
  MaxFaults,   \* bound: items of the file damaged
  MaxSeeks,    \* bound: seeks of the reader
  ReadSize     \* bound: items one read returns

ASSUME StreamAssumption ==
  /\ Sizes \subseteq Nat
  /\ MaxPackets \in Nat /\ MaxFaults \in Nat /\ MaxSeeks \in Nat /\ ReadSize \in Nat

VARIABLES
  phase,    \* "writing", then "file", then "reading"
  ws,       \* ogg_stream_state of the writer
  written,  \* the packets put in
  pages,    \* the pages that came out
  file,     \* the items of the file
  faults,   \* items damaged
  sync,     \* ogg_sync_state of the reader
  offset,   \* items read of the file
  rs,       \* ogg_stream_state of the reader
  got,      \* what packetout returned since the last seek: packets and holes
  seeks     \* seeks made

vars == <<phase, ws, written, pages, file, faults, sync, offset, rs, got, seeks>>
writerVars == <<ws, written, pages>>
readerVars == <<sync, offset, rs, got, seeks>>

Serial == 1

-----------------------------------------------------------------------------
(* The sync layer.                                                         *)

\* The items of a page.
Items(page) ==
  <<[kind |-> "head", page |-> page, ok |-> TRUE],
    [kind |-> "table", len |-> Len(page.body)]>>
    \o [i \in 1..Len(page.body) |-> [kind |-> "byte", byte |-> page.body[i]]]

Junk == [kind |-> "junk"]

HeadItems == 2

\* ogg_sync_init and ogg_sync_reset
SyncInit == [data |-> <<>>, headed |-> FALSE, bodybytes |-> 0]

\* Looking for a page at the head of the data: the header seen is kept while
\* its body is waited for.
Seen(oy) ==
  IF oy.headed \/ Len(oy.data) < HeadItems \/ oy.data[1].kind # "head" THEN oy
  ELSE [oy EXCEPT !.headed = TRUE,
                  !.bodybytes = IF oy.data[2].kind = "table"
                                THEN oy.data[2].len ELSE 0]

\* ogg_sync_pageseek returns 0: more data is needed.
NeedsMore(oy) ==
  LET at == Seen(oy)
  IN  \/ ~at.headed /\ Len(oy.data) < HeadItems
      \/ at.headed /\ HeadItems + at.bodybytes > Len(oy.data)

\* A positive return: a page whose checksum is right.
PageFound(oy) ==
  LET at == Seen(oy)
  IN  /\ at.headed
      /\ ~NeedsMore(oy)
      /\ SubSeq(oy.data, 1, HeadItems + at.bodybytes) = Items(oy.data[1].page)

AfterFound(oy) ==
  [SyncInit EXCEPT !.data =
     SubSeq(oy.data, HeadItems + Seen(oy).bodybytes + 1, Len(oy.data))]

\* A negative return: skip to the next byte that could begin a page.
LooksLikeO(item) ==
  item.kind = "head" \/ (item.kind = "byte" /\ item.byte.i = 1)

\* Mutant: everything read so far is skipped.
SkippedAll(oy) == SyncInit

Skipped(oy) ==
  LET next == {j \in 2..Len(oy.data) : LooksLikeO(oy.data[j])}
      to   == IF next = {} THEN Len(oy.data) + 1
              ELSE CHOOSE j \in next : \A k \in next : j <= k
  IN  [SyncInit EXCEPT !.data = SubSeq(oy.data, to, Len(oy.data))]

-----------------------------------------------------------------------------
Init ==
  /\ phase = "writing"
  /\ ws = StreamInit(Serial)
  /\ written = <<>>
  /\ pages = <<>>
  /\ file = <<>>
  /\ faults = 0
  /\ sync = SyncInit
  /\ offset = 0
  /\ rs = StreamInit(Serial)
  /\ got = <<>>
  /\ seeks = 0

\* ogg_stream_packetin.  The first packet is the header and has granule
\* position 0; only the last packet may be empty or carry e_o_s.
Put(n, eos) ==
  /\ phase = "writing"
  /\ Len(written) < MaxPackets
  /\ n = 0 \/ eos => Len(written) + 1 = MaxPackets
  /\ LET k == Len(written) + 1
         p == [data |-> [i \in 1..n |-> [p |-> k, i |-> i]],
               granulepos |-> k - 1, eos |-> eos]
     IN  /\ written' = Append(written, p)
         /\ ws' = PacketIn(ws, p.data, p.eos, p.granulepos)
  /\ UNCHANGED <<phase, pages, file, faults, readerVars>>

\* A page comes out and is written to the file.
Emit(force) ==
  /\ phase = "writing"
  /\ PageReady(ws, force, Fill)
  /\ pages' = Append(pages, PageOut(ws, Fill))
  /\ file' = file \o Items(PageOut(ws, Fill))
  /\ ws' = AfterPage(ws, Fill)
  /\ UNCHANGED <<phase, written, faults, readerVars>>

\* ogg_stream_pageout and ogg_stream_flush
Pageout == Emit(PageoutForces(ws))
Flush == Emit(TRUE)

\* The file is closed once a flush has nothing left.
Close ==
  /\ phase = "writing"
  /\ Len(written) = MaxPackets
  /\ ws.lacing = <<>>
  /\ phase' = "file"
  /\ UNCHANGED <<writerVars, file, faults, readerVars>>

\* One item is damaged: its bytes change, or the lengths its table gives, or
\* it is lost.
Damage(i) ==
  /\ phase = "file"
  /\ faults < MaxFaults
  /\ i \in 1..Len(file)
  /\ faults' = faults + 1
  /\ \/ file' = [file EXCEPT ![i] = Junk]
     \/ file[i].kind = "head" /\ file' = [file EXCEPT ![i].ok = FALSE]
     \/ /\ file[i].kind = "table"
        /\ \E d \in {-1, 2} : /\ file[i].len + d >= 0
                              /\ file' = [file EXCEPT ![i].len = @ + d]
     \/ file' = SubSeq(file, 1, i - 1) \o SubSeq(file, i + 1, Len(file))
  /\ UNCHANGED <<phase, writerVars, readerVars>>

\* The end of the file is lost.
Truncate(i) ==
  /\ phase = "file"
  /\ faults < MaxFaults
  /\ i \in 0..(Len(file) - 1)
  /\ faults' = faults + 1
  /\ file' = SubSeq(file, 1, i)
  /\ UNCHANGED <<phase, writerVars, readerVars>>

\* op_fetch_headers_impl: ogg_stream_reset_serialno before the first page.
Open ==
  /\ phase = "file"
  /\ phase' = "reading"
  /\ rs' = StreamReset(Serial)
  /\ UNCHANGED <<writerVars, file, faults, sync, offset, got, seeks>>

\* op_get_data: ogg_sync_buffer, a read of 1..ReadSize items, ogg_sync_wrote.
Read(n) ==
  /\ phase = "reading"
  /\ NeedsMore(sync)
  /\ n \in 1..ReadSize
  /\ offset + n <= Len(file)
  /\ sync' = [Seen(sync) EXCEPT !.data = @ \o SubSeq(file, offset + 1, offset + n)]
  /\ offset' = offset + n
  /\ UNCHANGED <<phase, writerVars, file, faults, rs, got, seeks>>

\* ogg_sync_pageseek skips what is not a page.
Skip ==
  /\ phase = "reading"
  /\ ~NeedsMore(sync)
  /\ ~PageFound(sync)
  /\ sync' = Skipped(sync)
  /\ UNCHANGED <<phase, writerVars, file, faults, offset, rs, got, seeks>>

\* It finds a page, and ogg_stream_pagein takes it.
TakePage ==
  /\ phase = "reading"
  /\ PageFound(sync)
  /\ sync' = AfterFound(sync)
  /\ rs' = PageIn(rs, sync.data[1].page)
  /\ UNCHANGED <<phase, writerVars, file, faults, offset, got, seeks>>

\* ogg_stream_packetout
TakePacket ==
  /\ phase = "reading"
  /\ PacketWaits(rs)
  /\ got' = Append(got, IF HoleWaits(rs) THEN [is |-> "hole"]
                         ELSE [is |-> "packet", p |-> FirstPacket(rs)])
  /\ rs' = AfterPacket(rs)
  /\ UNCHANGED <<phase, writerVars, file, faults, sync, offset, seeks>>

\* op_raw_seek: op_seek_helper and a reset of the stream.
Seek(i) ==
  /\ phase = "reading"
  /\ seeks < MaxSeeks
  /\ i \in 0..Len(file)
  /\ seeks' = seeks + 1
  /\ offset' = i
  /\ sync' = SyncInit
  /\ rs' = StreamReset(Serial)
  /\ got' = <<>>
  /\ UNCHANGED <<phase, writerVars, file, faults>>

Next ==
  \/ \E n \in Sizes, eos \in BOOLEAN : Put(n, eos)
  \/ Pageout
  \/ Flush
  \/ Close
  \/ \E i \in 1..Len(file) : Damage(i)
  \/ \E i \in 0..Len(file) : Truncate(i)
  \/ Open
  \/ \E n \in 1..ReadSize : Read(n)
  \/ Skip
  \/ TakePage
  \/ TakePacket
  \/ \E i \in 0..Len(file) : Seek(i)

Spec == Init /\ [][Next]_vars

-----------------------------------------------------------------------------
(* What a reader is owed.                                                  *)

Packet == [data : Seq([p : 1..MaxPackets, i : Nat]), granulepos : -1..MaxPackets,
           eos : BOOLEAN]

TypeOK ==
  /\ phase \in {"writing", "file", "reading"}
  /\ written \in Seq(Packet)
  /\ faults \in 0..MaxFaults
  /\ seeks \in 0..MaxSeeks
  /\ offset \in 0..Len(file)
  /\ sync.headed \in BOOLEAN /\ sync.bodybytes \in Nat
  /\ \A os \in {ws, rs} :
       /\ os.packet \in 0..Len(os.lacing)
       /\ Bytes(os.lacing, Len(os.lacing)) = Len(os.body)
       /\ \A i \in 1..Len(os.lacing) : os.lacing[i].val \in 0..Full

Delivered == {i \in 1..Len(got) : got[i].is = "packet"}

\* Which packet this is: only the last one may be empty.
Id(p) == IF p.data = <<>> THEN MaxPackets ELSE p.data[1].p

\* Packets come out in order, and when one was left out the reader has been
\* told of a hole at that place; a file nobody damaged shows no hole.
HolesAreReported ==
  /\ \A i, j \in Delivered :
       i < j /\ (\A k \in (i + 1)..(j - 1) : k \notin Delivered) =>
         /\ Id(got[i].p) < Id(got[j].p)
         /\ Id(got[j].p) # Id(got[i].p) + 1 => j > i + 1
  /\ faults = 0 => Delivered = 1..Len(got)

\* The page that a packet ends on, and the one it begins on.
Completed(j) ==
  LET sum[k \in 0..j] == IF k = 0 THEN 0 ELSE sum[k - 1] + PagePackets(pages[k])
  IN  sum[j]
EndPage(k) ==
  CHOOSE j \in 1..Len(pages) : Completed(j) >= k /\ Completed(j - 1) < k
BeginPage(k) ==
  IF written[k].data = <<>> THEN EndPage(k)
  ELSE CHOOSE j \in 1..Len(pages) :
         \E i \in 1..Len(pages[j].body) : pages[j].body[i] = written[k].data[1]

Intact(j) ==
  LET n == Len(Items(pages[j]))
  IN  \E i \in 1..(Len(file) - n + 1) : SubSeq(file, i, i + n - 1) = Items(pages[j])

\* The reader has come to the end of the file and taken every packet; it is
\* not left with a header whose table asks for more than the file has.
Finished ==
  /\ phase = "reading"
  /\ offset = Len(file)
  /\ NeedsMore(sync)
  /\ ~Seen(sync).headed
  /\ ~PacketWaits(rs)

\* Damage costs the packets on the pages it hit and no others: the search
\* for the next page finds every page that is intact, and every packet all
\* of whose pages are intact comes out.
OnlyDamagedIsLost ==
  Finished /\ seeks = 0 =>
    \A k \in 1..MaxPackets :
      (\A j \in BeginPage(k)..EndPage(k) : Intact(j)) =>
        \E i \in Delivered : Id(got[i].p) = k

\* Whatever happened to the file, and wherever the reader began, a packet
\* that comes out is one that went in, byte for byte: a page lost in the
\* middle of a packet never glues its beginning to the end of another.  Its
\* granule position is the one it was given, which the last packet to end on a
\* page always has, and only the last packet ends the stream.
PacketsAreWhole ==
  \A i \in Delivered :
    LET p == got[i].p
    IN  /\ p.data = written[Id(p)].data
        /\ p.granulepos \in {-1, written[Id(p)].granulepos}
        /\ p.granulepos = -1 => /\ Id(p) < MaxPackets
                                /\ EndPage(Id(p)) = EndPage(Id(p) + 1)
        /\ p.eos => Id(p) = MaxPackets /\ written[MaxPackets].eos
        /\ p.bos => Id(p) = 1
=============================================================================
